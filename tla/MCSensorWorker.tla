--------------------------- MODULE MCSensorWorker ---------------------------
(* Instantiation of SensorWorker for TLC: the SMI240 accelerometer and      *)
(* gyroscope descriptors of src/common/BoschSensors.h scaled down so that  *)
(* every branch of the batch() clamp and of the run() cadence comparison   *)
(* is reached with few clock values.                                       *)
EXTENDS SensorWorker

CONSTANTS c1, c2

MCCallers == {c1, c2}
MCOneCaller == {c1}

\* Delays in us with the 1000 ns/us conversion of the code; the clock
\* advances one minimum period at a time.
MCNsPerUs == 1000
MCMinDelay == 1
MCMaxDelay == 2
MCTickNs == 1000

\* Below minDelay, inside the range, above maxDelay.
MCRequests == {0, 5000}

\* A node that always holds three numbers.
MCNodeNumbers == {"numbers"}

\* Every content of the node: unreadable, short, numeric and junk lines.
MCNodeAny == FileContents
=============================================================================
