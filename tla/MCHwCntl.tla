------------------------------ MODULE MCHwCntl ------------------------------
(* Bounds for checking HwCntl: two poll cycles, so that a sample can wait   *)
(* on p_list while the next cycle mounts more; table rates on and between   *)
(* the thresholds of SMI240_convert_ODR, so that every ODR step is chosen.  *)
EXTENDS HwCntl

MCMaxCycles == 2
MCTableRatesHz == {5, 25, 50, 100, 200, 400}
MCHandles == {"acc", "gyr", "bsxInvalid", "unknown"}
=============================================================================
