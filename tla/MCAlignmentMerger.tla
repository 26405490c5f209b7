------------------------- MODULE MCAlignmentMerger -------------------------
(* Bounds for checking AlignmentMerger: up to three samples per stream over *)
(* four instants, so that ties, interleavings and an exhausted stream all   *)
(* occur; one valid and one invalid range value per sensor.                 *)
EXTENDS AlignmentMerger

MCMaxTs == 4
MCMaxLen == 3
MCAccRangeConfs == {4, 3}
MCGyroRangeConfs == {2000, 7}
=============================================================================
