------------------------------ MODULE MCSubHal ------------------------------
(* Model values and small sets for SubHal: two binder threads, two sensors *)
(* (the accelerometer and the gyroscope of BoschSensors.h), one handle the *)
(* sub-HAL does not own, and two callbacks, so one framework restart.      *)
EXTENDS SubHal, TLC

CONSTANTS c1, c2, hAcc, hGyr, hNone, cb1, cb2

MCCallers == {c1, c2}
MCHandles == {hAcc, hGyr}
MCUnknown == {hNone}
MCCallbacks == {cb1, cb2}
MCModes == {"NORMAL", "DATA_INJECTION"}
MCLatencies == {0, 1000}
MCSymmetry == Permutations(MCCallers) \cup Permutations(MCHandles)
=============================================================================
