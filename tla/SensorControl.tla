---------------------------- MODULE SensorControl ----------------------------
(***************************************************************************)
(* What one sensor of the HAL promises its clients (spec 4.1, 4.2), with   *)
(* every operation atomic:                                                 *)
(*  - activate(enable) switches sampling on or off;                        *)
(*  - batch() sets a sampling period inside [minDelay, maxDelay];          *)
(*  - while the sensor is enabled, and only then, events are posted;       *)
(*  - flush() of an enabled, continuous sensor posts FLUSH_COMPLETE; of a  *)
(*    disabled or one-shot sensor it returns BAD_VALUE and posts nothing.  *)
(* SensorWorker, the threaded implementation of src/2.X/Sensor.cpp, is     *)
(* checked to implement it.                                                *)
(***************************************************************************)
EXTENDS Integers

CONSTANTS
    MinPeriodNs, MaxPeriodNs, \* minDelay and maxDelay in ns
    EventKinds,               \* every kind of event, "flush" included
    ReadOutcomes,             \* kinds of sample events
    OneShot                   \* the sensor is one-shot

ASSUME ReadOutcomes \cup {"flush"} \subseteq EventKinds

VARIABLES
    enabled,  \* sampling is on
    period,   \* the sampling period in ns (0 before the first batch)
    posts     \* per kind, the parity of the number of events posted: it
              \* flips on every post, so that each post is a step of its own

vars == <<enabled, period, posts>>

Init == enabled = FALSE /\ period = 0 /\ posts = [k \in EventKinds |-> 0]

Activate(e) == enabled' = e /\ UNCHANGED <<period, posts>>

Batch == period' \in MinPeriodNs..MaxPeriodNs /\ UNCHANGED <<enabled, posts>>

Post(k) == posts' = [posts EXCEPT ![k] = 1 - @]

Sample(o) == enabled /\ Post(o) /\ UNCHANGED <<enabled, period>>

Flush == enabled /\ ~OneShot /\ Post("flush") /\ UNCHANGED <<enabled, period>>

Next == \/ \E e \in BOOLEAN : Activate(e)
        \/ Batch
        \/ \E o \in ReadOutcomes : Sample(o)
        \/ Flush

Spec == Init /\ [][Next]_vars
=============================================================================
