-------------------------- MODULE AlignmentMerger --------------------------
(***************************************************************************)
(* The legacy fusion path of src/legacy/sensord/sensord_algo.cpp: one call *)
(* of sensord_algo_process takes every raw sample queued on the two        *)
(* temporary lists (accelerometer, gyroscope), builds the align-indication *)
(* array with sort_input_samples, and walks it, delivering one event per   *)
(* sample in the order of the array.  Sample payloads are abstracted: a    *)
(* sample is its timestamp, an event is the stream and the timestamp.      *)
(* Repeated calls of the algorithm thread are repeated Collect steps.      *)
(***************************************************************************)
EXTENDS Integers, Sequences, SequencesExt, FiniteSets

CONSTANTS
    MaxTs,          \* timestamps of the bounded input are drawn from 1..MaxTs
    MaxLen,         \* at most MaxLen samples queued per stream
    AccRangeConfs,  \* possible values of the global accl_range
    GyroRangeConfs, \* possible values of the global gyro_range
    AllocCanFail    \* whether malloc/calloc may return NULL

ASSUME MaxTs \in Nat \ {0} /\ MaxLen \in Nat /\ AllocCanFail \in BOOLEAN

\* The cases of the two range switches (sensord_algo.cpp 381-397, 419-441);
\* every other value takes the `default: continue' branch.
AccRanges == {2, 4, 8, 16}
GyroRanges == {125, 250, 300, 500, 1000, 2000}

\* The align-indication bits.
HAS_ACC == 1
HAS_GYR == 4

\* The queued samples of one stream: strictly increasing CLOCK_MONOTONIC
\* timestamps, never 0.
StreamInputs ==
    {SetToSortSeq(S, <) : S \in {T \in SUBSET (1..MaxTs) : Cardinality(T) <= MaxLen}}

Event == [s : {"acc", "gyr"}, t : 1..MaxTs]

VARIABLES
    accList,    \* tmplist_sensord_acclraw
    gyrList,    \* tmplist_sensord_gyroraw
    ppAcc,      \* pp_ACC_hwdata
    ppGyr,      \* pp_GYRO_hwdata
    align,      \* p_align_ind, up to align_ind_len
    i,          \* loop index of step 2 (1-based)
    accIdx,     \* ACC_hwdata_index (1-based)
    gyrIdx,     \* GYRO_hwdata_index (1-based)
    phase,      \* "idle" between calls, "sort" after step 1, "deliver" in step 2
    accl_range,
    gyro_range,
    out,        \* events handed to sensord_deliver_event, in order
    accIn,      \* history: the samples queued when the thread started
    gyrIn,
    allocFailed \* history: some allocation failed

vars == <<accList, gyrList, ppAcc, ppGyr, align, i, accIdx, gyrIdx, phase,
          accl_range, gyro_range, out, accIn, gyrIn, allocFailed>>

TypeOK ==
    /\ accList \in Seq(1..MaxTs) /\ gyrList \in Seq(1..MaxTs)
    /\ ppAcc \in Seq(1..MaxTs) /\ ppGyr \in Seq(1..MaxTs)
    /\ align \in Seq({HAS_ACC, HAS_GYR, HAS_ACC + HAS_GYR})
    /\ {i, accIdx, gyrIdx} \subseteq Nat \ {0}
    /\ phase \in {"idle", "sort", "deliver"}
    /\ out \in Seq(Event)
    /\ allocFailed \in BOOLEAN

Init ==
    /\ accList \in StreamInputs /\ gyrList \in StreamInputs
    /\ accIn = accList /\ gyrIn = gyrList
    /\ ppAcc = <<>> /\ ppGyr = <<>> /\ align = <<>>
    /\ i = 1 /\ accIdx = 1 /\ gyrIdx = 1
    /\ phase = "idle"
    /\ accl_range \in AccRangeConfs /\ gyro_range \in GyroRangeConfs
    /\ out = <<>>
    /\ allocFailed = FALSE

(***************************************************************************)
(* sort_input_samples, one iteration of its while loop per recursion.      *)
(* cur_base_tm starts at 0, which the code also uses as "not set".         *)
(***************************************************************************)
CurBaseTm(acc, gyr) ==
    LET g == IF gyr # <<>> THEN Head(gyr) ELSE 0
    IN  IF acc = <<>> THEN g
        ELSE IF g # 0 /\ ~(Head(acc) < g) THEN g ELSE Head(acc)

AccTaken(acc, gyr, base) == acc # <<>> /\ Head(acc) = base

\* Mutant: the gyroscope test written as an `else if' of the accelerometer one.
GyrTakenExclusive(acc, gyr, base) ==
    ~AccTaken(acc, gyr, base) /\ gyr # <<>> /\ Head(gyr) = base

GyrTaken(acc, gyr, base) == gyr # <<>> /\ Head(gyr) = base

RECURSIVE SortLoop(_, _, _)
SortLoop(acc, gyr, ind) ==
    IF acc = <<>> /\ gyr = <<>> THEN ind
    ELSE LET base == CurBaseTm(acc, gyr)
             a    == AccTaken(acc, gyr, base)
             g    == GyrTaken(acc, gyr, base)
         IN  SortLoop(IF a THEN Tail(acc) ELSE acc,
                      IF g THEN Tail(gyr) ELSE gyr,
                      Append(ind, (IF a THEN HAS_ACC ELSE 0)
                                  + (IF g THEN HAS_GYR ELSE 0)))

SortInputSamples(acc, gyr) == SortLoop(acc, gyr, <<>>)

Has(slot, bit) == (slot \div bit) % 2 = 1

(***************************************************************************)
(* Step 1 of sensord_algo_process.  The call does nothing if both lists    *)
(* are empty, or if the accelerometer array cannot be allocated (it        *)
(* returns before taking anything): both are stuttering steps.  If the     *)
(* gyroscope array cannot be allocated, the accelerometer samples already  *)
(* taken are freed and lost, and the gyroscope samples stay queued.        *)
(***************************************************************************)
Collect ==
    /\ phase = "idle"
    /\ Len(accList) + Len(gyrList) > 0
    /\ \/ /\ AllocCanFail /\ gyrList # <<>>
          /\ accList' = <<>> /\ allocFailed' = TRUE
          /\ UNCHANGED <<gyrList, ppAcc, ppGyr, phase>>
       \/ /\ ppAcc' = accList /\ ppGyr' = gyrList
          /\ accList' = <<>> /\ gyrList' = <<>>
          /\ phase' = "sort"
          /\ UNCHANGED allocFailed
    /\ UNCHANGED <<align, i, accIdx, gyrIdx, accl_range, gyro_range, out, accIn, gyrIn>>

\* sort_input_samples and the check of its result.  A failed calloc frees
\* both arrays and returns.
Sort ==
    /\ phase = "sort"
    /\ \/ /\ align' = SortInputSamples(ppAcc, ppGyr)
          /\ phase' = "deliver"
          /\ UNCHANGED <<ppAcc, ppGyr, allocFailed>>
       \/ /\ AllocCanFail
          /\ ppAcc' = <<>> /\ ppGyr' = <<>> /\ align' = <<>>
          /\ phase' = "idle" /\ allocFailed' = TRUE
    /\ i' = 1 /\ accIdx' = 1 /\ gyrIdx' = 1
    /\ UNCHANGED <<accList, gyrList, accl_range, gyro_range, out, accIn, gyrIn>>

(***************************************************************************)
(* One iteration of the step 2 loop: the package holds the accelerometer   *)
(* sample (if the slot has it) and then the gyroscope sample.  Each        *)
(* package entry gets a calloc'd event, which is dropped if calloc fails   *)
(* or if the range of its sensor is not one of the switch cases.           *)
(***************************************************************************)
Package(slot, ai, gi) ==
    (IF Has(slot, HAS_ACC) THEN <<[s |-> "acc", t |-> ppAcc[ai]]>> ELSE <<>>)
    \o (IF Has(slot, HAS_GYR) THEN <<[s |-> "gyr", t |-> ppGyr[gi]]>> ELSE <<>>)

RangeValid(e) ==
    IF e.s = "acc" THEN accl_range \in AccRanges ELSE gyro_range \in GyroRanges

\* The p_event of a failed calloc.
NULL == [s |-> "null", t |-> 0]

\* Mutant: an event whose calloc failed is delivered anyway.
DeliveredNoNullCheck(pkg, calloced) ==
    SelectSeq([k \in DOMAIN pkg |-> IF k \in calloced THEN pkg[k] ELSE NULL],
              LAMBDA e : e = NULL \/ RangeValid(e))

\* The entries of the package that reach sensord_deliver_event: those whose
\* event was allocated and whose sensor has a valid range.
Delivered(pkg, calloced) ==
    SelectSeq([k \in DOMAIN pkg |-> IF k \in calloced THEN pkg[k] ELSE NULL],
              LAMBDA e : e # NULL /\ RangeValid(e))

\* Mutant: ACC_hwdata_index is not advanced.
DeliverSlotNoAccAdvance ==
    /\ phase = "deliver" /\ i <= Len(align)
    /\ LET pkg == Package(align[i], accIdx, gyrIdx)
       IN  \E calloced \in SUBSET DOMAIN pkg :
              /\ AllocCanFail \/ calloced = DOMAIN pkg
              /\ out' = out \o Delivered(pkg, calloced)
              /\ allocFailed' = (allocFailed \/ calloced # DOMAIN pkg)
    /\ i' = i + 1
    /\ gyrIdx' = IF Has(align[i], HAS_GYR) THEN gyrIdx + 1 ELSE gyrIdx
    /\ UNCHANGED <<accIdx, accList, gyrList, ppAcc, ppGyr, align, phase,
                   accl_range, gyro_range, accIn, gyrIn>>

DeliverSlot ==
    /\ phase = "deliver" /\ i <= Len(align)
    /\ LET pkg == Package(align[i], accIdx, gyrIdx)
       IN  \E calloced \in SUBSET DOMAIN pkg :
              /\ AllocCanFail \/ calloced = DOMAIN pkg
              /\ out' = out \o Delivered(pkg, calloced)
              /\ allocFailed' = (allocFailed \/ calloced # DOMAIN pkg)
    /\ i' = i + 1
    /\ accIdx' = IF Has(align[i], HAS_ACC) THEN accIdx + 1 ELSE accIdx
    /\ gyrIdx' = IF Has(align[i], HAS_GYR) THEN gyrIdx + 1 ELSE gyrIdx
    /\ UNCHANGED <<accList, gyrList, ppAcc, ppGyr, align, phase,
                   accl_range, gyro_range, accIn, gyrIn>>

\* The end of the call: distory_hwdata on both arrays and free(p_align_ind).
Finish ==
    /\ phase = "deliver" /\ i > Len(align)
    /\ ppAcc' = <<>> /\ ppGyr' = <<>> /\ align' = <<>>
    /\ phase' = "idle"
    /\ UNCHANGED <<accList, gyrList, i, accIdx, gyrIdx, accl_range, gyro_range,
                   out, accIn, gyrIn, allocFailed>>

Next == Collect \/ Sort \/ DeliverSlot \/ Finish

Spec == Init /\ [][Next]_vars /\ WF_vars(Next)

-----------------------------------------------------------------------------
(***************************************************************************)
(* Reference merge, from the algorithm the specification gives for the    *)
(* AlignmentMerger: the instant is the least head timestamp of the         *)
(* non-exhausted streams, and every stream whose head is at that instant   *)
(* contributes to the slot and advances.                                   *)
(***************************************************************************)
RECURSIVE MergeRef(_)
MergeRef(cur) ==
    LET live == {st \in DOMAIN cur : cur[st] # <<>>}
    IN  IF live = {} THEN <<>>
        ELSE LET t    == Min({Head(cur[st]) : st \in live})
                 from == {st \in live : Head(cur[st]) = t}
             IN  <<[t |-> t, from |-> from]>>
                 \o MergeRef([st \in DOMAIN cur |->
                                 IF st \in from THEN Tail(cur[st]) ELSE cur[st]])

RefSlots == MergeRef([s \in {"acc", "gyr"} |-> IF s = "acc" THEN ppAcc ELSE ppGyr])

\* The events a run without failures must deliver, in the code's package
\* order (accelerometer before gyroscope within a slot).
RefEvents(a, g) ==
    LET slots == MergeRef([s \in {"acc", "gyr"} |-> IF s = "acc" THEN a ELSE g])
        evs   == FlattenSeq([k \in DOMAIN slots |->
                     SelectSeq(<<[s |-> "acc", t |-> slots[k].t],
                                 [s |-> "gyr", t |-> slots[k].t]>>,
                               LAMBDA e : e.s \in slots[k].from)])
    IN  SelectSeq(evs, RangeValid)

\* s is t with some elements left out, the rest in the same order.
RECURSIVE IsSubSeqOf(_, _)
IsSubSeqOf(s, t) ==
    \/ s = <<>>
    \/ /\ t # <<>>
       /\ \/ Head(s) = Head(t) /\ IsSubSeqOf(Tail(s), Tail(t))
          \/ IsSubSeqOf(s, Tail(t))

(***************************************************************************)
(* The align-indication array that sort_input_samples builds has one slot *)
(* per instant, in chronological order, and a timestamp tie between the    *)
(* two streams yields one slot that carries both samples, never two.       *)
(***************************************************************************)
MergeMatchesSpec ==
    phase = "deliver" =>
        /\ Len(align) = Len(RefSlots)
        /\ \A k \in DOMAIN align :
              {st \in {"acc", "gyr"} :
                  Has(align[k], IF st = "acc" THEN HAS_ACC ELSE HAS_GYR)}
              = RefSlots[k].from

(***************************************************************************)
(* What the step 2 loop of sensord_algo_process hands to                   *)
(* sensord_deliver_event is, in order and each at most once, the merged    *)
(* events of the samples that were queued; when no allocation failed and   *)
(* the algorithm thread has drained both lists, it is all of them.         *)
(***************************************************************************)
DeliveredAsMerged ==
    LET ref == RefEvents(accIn, gyrIn)
    IN  /\ IsSubSeqOf(out, ref)
        /\ (phase = "idle" /\ accList = <<>> /\ gyrList = <<>> /\ ~allocFailed)
               => out = ref
=============================================================================
