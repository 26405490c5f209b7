-------------------------- MODULE MCRangeConverter --------------------------
(* Every accelerometer range of the switch and one value outside it; the   *)
(* extreme counts of a 16-bit code and small ones.                         *)
EXTENDS RangeConverter

MCAccRangeConfs == {2, 4, 8, 16, 3}
MCRawCounts == {-32768, -1, 0, 1, 32767}
=============================================================================
