----------------------------- MODULE EventReader -----------------------------
(***************************************************************************)
(* Sensor::readEvents of the HIDL 2.X and AIDL HALs (src/2.X/Sensor.cpp,   *)
(* src/aidl/Sensor.cpp) with readFromFile (src/hwctl/iioHwctl.cpp): one    *)
(* event per call, its payload memset to 0 and then filled from the sysfs  *)
(* node when the file opens and holds more than two whitespace-separated   *)
(* fields.                                                                 *)
(*                                                                         *)
(* The content of the node is abstracted to what decides the outcome:      *)
(*   "missing" - the file cannot be opened;                                *)
(*   "short"   - fewer than three fields (an empty read included);         *)
(*   "numbers" - three numeric fields;                                     *)
(*   "junk"    - three fields, the first of them not a number.             *)
(* The kind of the resulting event:                                        *)
(*   "data"    - the three values, scaled by resolution;                   *)
(*   "zero"    - the memset payload (all zero, status 0);                  *)
(*   "garbage" - atof's 0 (or a prefix) scaled, with ACCURACY_HIGH;        *)
(*   "abort"   - std::stof throws std::invalid_argument; nothing catches   *)
(*               it on the run thread, so std::terminate ends the process. *)
(***************************************************************************)
EXTENDS Integers

CONSTANT Variant   \* "2.X" (atof) or "aidl" (std::stof)

ASSUME Variant \in {"2.X", "aidl"}

FileContents == {"missing", "short", "numbers", "junk"}

\* readFromFile: -1 when the ifstream does not open, else 0 with the whole
\* content in result.
readFromFile(c) == IF c = "missing" THEN -1 ELSE 0

\* istream_iterator splitting: more than two fields?
FieldCountAbove2(c) == c \in {"numbers", "junk"}

\* ::atof of a field: a field that is not a number yields 0.
ParsesAtof(c) == IF c = "junk" THEN "garbage" ELSE "data"

\* std::stof of a field: a field that is not a number throws.
ParsesStof(c) == IF c = "junk" THEN "abort" ELSE "data"

\* fillPayload: only results.size() > 2 writes the payload.
fillPayload(c) ==
    IF ~FieldCountAbove2(c) THEN "zero"
    ELSE IF Variant = "2.X" THEN ParsesAtof(c) ELSE ParsesStof(c)

\* readEventPayload: the payload is filled only when readFromFile returned 0.
readEventPayload(c) == IF readFromFile(c) = 0 THEN fillPayload(c) ELSE "zero"

\* readEvents: one event, its payload memset to 0 before readEventPayload.
readEvents(c) == readEventPayload(c)
=============================================================================
