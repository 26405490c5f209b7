---------------------------- MODULE SensorWorker ----------------------------
(***************************************************************************)
(* One sensor object of the HAL: class Sensor of src/2.X/Sensor.cpp (the   *)
(* AIDL copy in src/aidl/Sensor.cpp has the same control code).            *)
(*                                                                         *)
(* Threads:                                                                *)
(*  - the run thread (Sensor::run), started by the constructor, which      *)
(*    holds mRunMutex except while it waits on mWaitCV;                    *)
(*  - the callers of activate / batch / flush (HAL binder threads);        *)
(*  - the destructor ~Sensor.                                              *)
(* Shared state: mIsEnabled, mSamplingPeriodNs, mLastSampleTimeNs,         *)
(* mStopThread, the mutex and the condition variable.                      *)
(*                                                                         *)
(* Time is kept as the age of the last sample, now - mLastSampleTimeNs, in *)
(* nanoseconds, saturated at the largest period: every comparison the code *)
(* makes between a clock reading and mLastSampleTimeNs + a period gives    *)
(* the same answer on the saturated age.                                   *)
(***************************************************************************)
EXTENDS Integers, FiniteSets, EventReader

CONSTANTS
    Callers,        \* binder threads calling activate / batch / flush
    NsPerUs,        \* the 1000LL of batch(): SensorInfo delays are in us
    MinDelay,       \* SensorInfo.minDelay (us)
    MaxDelay,       \* SensorInfo.maxDelay (us)
    TickNs,         \* granularity of the clock, in ns
    Requests,       \* samplingPeriodNs values a caller passes to batch()
    NodeContents,   \* contents the sysfs node can have (EventReader)
    OneShot,        \* SensorInfo.flags has ONE_SHOT_MODE
    StopInit,       \* values the uninitialised std::atomic_bool mStopThread may hold
    WithTeardown,   \* whether the destructor runs in this model
    BatchBeforeActivate, \* callers issue batch() before the first activate(true)
    NoOne, Worker, Dtor  \* lock owners besides the callers

ASSUME /\ MinDelay \in Nat \ {0} /\ MaxDelay \in Nat /\ MinDelay <= MaxDelay
       /\ NsPerUs \in Nat \ {0} /\ TickNs \in Nat \ {0}
       /\ Requests \subseteq Nat
       /\ NodeContents \subseteq FileContents /\ NodeContents # {}
       \* with std::stof a junk field ends the process, which is not modelled
       /\ Variant = "aidl" => "junk" \notin NodeContents
       /\ StopInit \subseteq BOOLEAN /\ StopInit # {}
       /\ {OneShot, WithTeardown, BatchBeforeActivate} \subseteq BOOLEAN

MinPeriodNs == MinDelay * NsPerUs
MaxPeriodNs == MaxDelay * NsPerUs
MaxAge == MaxPeriodNs   \* ages at or above this compare alike with every period

VARIABLES
    enabled,     \* mIsEnabled
    period,      \* mSamplingPeriodNs
    age,         \* now - mLastSampleTimeNs, saturated at MaxAge
    stop,        \* mStopThread
    lock,        \* owner of mRunMutex
    wpc,         \* program point of the run thread
    woken,       \* the run thread was notified and waits to re-take the lock
    waitPeriod,  \* period used for nextSampleTime by the pending wait_for
    cpc,         \* program point of each caller
    carg,        \* enable argument of each caller's pending activate
    creq,        \* samplingPeriodNs argument of each caller's pending batch
    posts,       \* history: per kind of event, the parity of the number
                 \* handed to postEvents, so that every post is a step
    dpc,         \* program point of the destructor
    batched      \* some batch() call has returned (environment history)

vars == <<enabled, period, age, stop, lock, wpc, woken, waitPeriod,
          cpc, carg, creq, posts, dpc, batched>>

EventKinds == {"data", "zero", "garbage", "flush"}

WorkerPCs == {"start", "top", "recompute", "dispatch", "sleep",
              "waitE", "waitT", "exit"}
CallerPCs == {"idle", "activate", "actLock", "batch", "flush", "flushPost"}
Waiting == {"waitE", "waitT"}
NoRequest == -1   \* no batch() argument pending (requests are not negative)

TypeOK ==
    /\ enabled \in BOOLEAN /\ stop \in BOOLEAN /\ woken \in BOOLEAN
    /\ period \in {0} \cup MinPeriodNs..MaxPeriodNs
    /\ age \in 0..MaxAge
    /\ waitPeriod \in {0} \cup MinPeriodNs..MaxPeriodNs
    /\ lock \in {NoOne, Worker, Dtor} \cup Callers
    /\ wpc \in WorkerPCs
    /\ cpc \in [Callers -> CallerPCs]
    /\ carg \in [Callers -> BOOLEAN]
    /\ creq \in [Callers -> Requests \cup {NoRequest}]
    /\ posts \in [EventKinds -> {0, 1}]
    /\ dpc \in {"none", "lock", "join", "done"}
    /\ batched \in BOOLEAN

Init ==
    /\ enabled = FALSE
    /\ period = 0
    /\ age = MaxAge      \* mLastSampleTimeNs(0): boot time is far past it
    /\ stop \in StopInit
    /\ lock = NoOne
    /\ wpc = "start"
    /\ woken = FALSE
    /\ waitPeriod = 0
    /\ cpc = [c \in Callers |-> "idle"]
    /\ carg = [c \in Callers |-> FALSE]
    /\ creq = [c \in Callers |-> NoRequest]
    /\ posts = [k \in EventKinds |-> 0]
    /\ dpc = "none"
    /\ batched = FALSE

(* mWaitCV.notify_all(): a run thread blocked in a wait becomes runnable.  *)
NotifyAll == woken' = (wpc \in Waiting)

-----------------------------------------------------------------------------
(* The run thread, Sensor::run.                                            *)

\* std::unique_lock<std::mutex> runLock(mRunMutex) at the top of run().
Start ==
    /\ wpc = "start" /\ lock = NoOne
    /\ lock' = Worker /\ wpc' = "top"
    /\ UNCHANGED <<enabled, period, age, stop, woken, waitPeriod, cpc, carg, creq, posts, dpc, batched>>

\* Mutant of Top: the due test written now > nextSampleTime.
TopStrict ==
    /\ wpc = "top"
    /\ \/ /\ stop
          /\ wpc' = "exit" /\ lock' = NoOne
          /\ UNCHANGED <<age, waitPeriod>>
       \/ /\ ~stop /\ ~enabled
          /\ wpc' = "waitE" /\ lock' = NoOne
          /\ UNCHANGED <<age, waitPeriod>>
       \/ /\ ~stop /\ enabled /\ age > period
          /\ age' = 0 /\ wpc' = "recompute"
          /\ UNCHANGED <<lock, waitPeriod>>
       \/ /\ ~stop /\ enabled /\ age <= period
          /\ waitPeriod' = period /\ wpc' = "sleep"
          /\ UNCHANGED <<lock, age>>
    /\ UNCHANGED <<enabled, period, stop, woken, cpc, carg, creq, posts, dpc, batched>>

\* One evaluation of the loop body, lock held: leave on mStopThread, block
\* while disabled, or compare now with mLastSampleTimeNs + mSamplingPeriodNs.
Top ==
    /\ wpc = "top"
    /\ \/ /\ stop
          /\ wpc' = "exit" /\ lock' = NoOne
          /\ UNCHANGED <<age, waitPeriod>>
       \/ /\ ~stop /\ ~enabled
          /\ wpc' = "waitE" /\ lock' = NoOne
          /\ UNCHANGED <<age, waitPeriod>>
       \/ /\ ~stop /\ enabled /\ age >= period
          /\ age' = 0 /\ wpc' = "recompute"
          /\ UNCHANGED <<lock, waitPeriod>>
       \/ /\ ~stop /\ enabled /\ age < period
          /\ waitPeriod' = period /\ wpc' = "sleep"
          /\ UNCHANGED <<lock, age>>
    /\ UNCHANGED <<enabled, period, stop, woken, cpc, carg, creq, posts, dpc, batched>>

\* nextSampleTime = mLastSampleTimeNs + mSamplingPeriodNs, a second read of
\* the period, which batch() may have changed since the first.
Recompute ==
    /\ wpc = "recompute"
    /\ waitPeriod' = period /\ wpc' = "dispatch"
    /\ UNCHANGED <<enabled, period, age, stop, lock, woken, cpc, carg, creq, posts, dpc, batched>>

\* mCallback->postEvents(readEvents(), ...) with runLock still held; the
\* kind of event follows from what the node holds (EventReader): a failed
\* file read or a short line leaves the memset payload, a zero event.
Dispatch ==
    /\ wpc = "dispatch"
    /\ \E c \in NodeContents : posts' = [posts EXCEPT ![readEvents(c)] = 1 - @]
    /\ wpc' = "sleep"
    /\ UNCHANGED <<enabled, period, age, stop, lock, woken, waitPeriod, cpc, carg, creq, dpc, batched>>

\* mWaitCV.wait_for(runLock, nextSampleTime - now). The duration is not
\* positive only right after a sample with period 0; libc++ then returns
\* cv_status::timeout at once, without releasing the mutex.
Sleep ==
    /\ wpc = "sleep"
    /\ \/ /\ waitPeriod = 0
          /\ wpc' = "top" /\ UNCHANGED lock
       \/ /\ waitPeriod > 0
          /\ wpc' = "waitT" /\ lock' = NoOne
    /\ UNCHANGED <<enabled, period, age, stop, woken, waitPeriod, cpc, carg, creq, posts, dpc, batched>>

\* The timed wait reaches nextSampleTime.
Timeout ==
    /\ wpc = "waitT" /\ ~woken /\ age >= waitPeriod
    /\ woken' = TRUE
    /\ UNCHANGED <<enabled, period, age, stop, lock, wpc, waitPeriod, cpc, carg, creq, posts, dpc, batched>>

\* A spurious wake-up, which std::condition_variable permits.
Spurious ==
    /\ wpc \in Waiting /\ ~woken
    /\ woken' = TRUE
    /\ UNCHANGED <<enabled, period, age, stop, lock, wpc, waitPeriod, cpc, carg, creq, posts, dpc, batched>>

\* A woken thread re-takes mRunMutex. wait_for returns to the loop head;
\* wait(runLock, pred) re-checks mIsEnabled || mStopThread and blocks again
\* when it is false.
Relock ==
    /\ wpc \in Waiting /\ woken /\ lock = NoOne
    /\ woken' = FALSE
    /\ \/ /\ wpc = "waitT" \/ enabled \/ stop
          /\ wpc' = "top" /\ lock' = Worker
       \/ /\ wpc = "waitE" /\ ~enabled /\ ~stop
          /\ UNCHANGED <<wpc, lock>>
    /\ UNCHANGED <<enabled, period, age, stop, waitPeriod, cpc, carg, creq, posts, dpc, batched>>

\* CLOCK_BOOTTIME advances.
Tick ==
    /\ age < MaxAge
    /\ age' = IF age + TickNs > MaxAge THEN MaxAge ELSE age + TickNs
    /\ UNCHANGED <<enabled, period, stop, lock, wpc, woken, waitPeriod, cpc, carg, creq, posts, dpc, batched>>

-----------------------------------------------------------------------------
(* The callers: Sensor::activate, Sensor::batch, Sensor::flush.            *)

Idle(c) == cpc[c] = "idle" /\ dpc = "none"

\* activate(enable) is called; the framework issues batch() first.
CallActivate(c, e) ==
    /\ Idle(c)
    /\ e => (batched \/ ~BatchBeforeActivate)
    /\ cpc' = [cpc EXCEPT ![c] = "activate"] /\ carg' = [carg EXCEPT ![c] = e]
    /\ UNCHANGED <<enabled, period, age, stop, lock, wpc, woken, waitPeriod, creq, posts, dpc, batched>>

\* if (mIsEnabled != enable): read without the lock.
ActivateCheck(c) ==
    /\ cpc[c] = "activate"
    /\ \/ /\ enabled = carg[c]
          /\ cpc' = [cpc EXCEPT ![c] = "idle"] /\ carg' = [carg EXCEPT ![c] = FALSE]
       \/ /\ enabled # carg[c]
          /\ cpc' = [cpc EXCEPT ![c] = "actLock"] /\ UNCHANGED carg
    /\ UNCHANGED <<enabled, period, age, stop, lock, wpc, woken, waitPeriod, creq, posts, dpc, batched>>

\* Mutant of ActivateLock: the notify_all() is forgotten.
ActivateLockNoNotify(c) ==
    /\ cpc[c] = "actLock" /\ lock = NoOne
    /\ enabled' = carg[c]
    /\ cpc' = [cpc EXCEPT ![c] = "idle"] /\ carg' = [carg EXCEPT ![c] = FALSE]
    /\ UNCHANGED <<period, age, stop, lock, wpc, woken, waitPeriod, creq, posts, dpc, batched>>

\* Mutant of ActivateLock: mIsEnabled is written without taking mRunMutex.
ActivateLockUnlocked(c) ==
    /\ cpc[c] = "actLock"
    /\ enabled' = carg[c]
    /\ NotifyAll
    /\ cpc' = [cpc EXCEPT ![c] = "idle"] /\ carg' = [carg EXCEPT ![c] = FALSE]
    /\ UNCHANGED <<period, age, stop, lock, wpc, waitPeriod, creq, posts, dpc, batched>>

\* Under mRunMutex: mIsEnabled = enable; mWaitCV.notify_all().
ActivateLock(c) ==
    /\ cpc[c] = "actLock" /\ lock = NoOne
    /\ enabled' = carg[c]
    /\ NotifyAll
    /\ cpc' = [cpc EXCEPT ![c] = "idle"] /\ carg' = [carg EXCEPT ![c] = FALSE]
    /\ UNCHANGED <<period, age, stop, lock, wpc, waitPeriod, creq, posts, dpc, batched>>

CallBatch(c, r) ==
    /\ Idle(c)
    /\ cpc' = [cpc EXCEPT ![c] = "batch"] /\ creq' = [creq EXCEPT ![c] = r]
    /\ UNCHANGED <<enabled, period, age, stop, lock, wpc, woken, waitPeriod, carg, posts, dpc, batched>>

\* Mutants of Clamp: one of the two bounds is not applied.
ClampNoMin(p) == IF p > MaxPeriodNs THEN MaxPeriodNs ELSE p
ClampNoMax(p) == IF p < MinPeriodNs THEN MinPeriodNs ELSE p

\* The requested period clamped to [minDelay, maxDelay] * 1000LL.
Clamp(p) == IF p < MinPeriodNs THEN MinPeriodNs
            ELSE IF p > MaxPeriodNs THEN MaxPeriodNs ELSE p

\* batch(): clamp, and on a change store the period and notify, all without
\* taking mRunMutex.
BatchBody(c) ==
    /\ cpc[c] = "batch"
    /\ \/ /\ period # Clamp(creq[c])
          /\ period' = Clamp(creq[c]) /\ NotifyAll
       \/ /\ period = Clamp(creq[c])
          /\ UNCHANGED <<period, woken>>
    /\ cpc' = [cpc EXCEPT ![c] = "idle"] /\ batched' = TRUE
    /\ creq' = [creq EXCEPT ![c] = NoRequest]
    /\ UNCHANGED <<enabled, age, stop, lock, wpc, waitPeriod, carg, posts, dpc>>

CallFlush(c) ==
    /\ Idle(c)
    /\ cpc' = [cpc EXCEPT ![c] = "flush"]
    /\ UNCHANGED <<enabled, period, age, stop, lock, wpc, woken, waitPeriod, carg, creq, posts, dpc, batched>>

\* flush(): BAD_VALUE when disabled or one-shot, checked without the lock.
FlushCheck(c) ==
    /\ cpc[c] = "flush"
    /\ cpc' = [cpc EXCEPT ![c] = IF ~enabled \/ OneShot THEN "idle" ELSE "flushPost"]
    /\ UNCHANGED <<enabled, period, age, stop, lock, wpc, woken, waitPeriod, carg, creq, posts, dpc, batched>>

\* The META_DATA_FLUSH_COMPLETE event goes to postEvents; flush() returns OK.
FlushPost(c) ==
    /\ cpc[c] = "flushPost"
    /\ posts' = [posts EXCEPT !["flush"] = 1 - @]
    /\ cpc' = [cpc EXCEPT ![c] = "idle"]
    /\ UNCHANGED <<enabled, period, age, stop, lock, wpc, woken, waitPeriod, carg, creq, dpc, batched>>

-----------------------------------------------------------------------------
(* The destructor ~Sensor, run once no call is in progress.                *)

DestroyBegin ==
    /\ WithTeardown /\ dpc = "none"
    /\ \A c \in Callers : cpc[c] = "idle"
    /\ dpc' = "lock"
    /\ UNCHANGED <<enabled, period, age, stop, lock, wpc, woken, waitPeriod, cpc, carg, creq, posts, batched>>

\* Mutant of DestroyLock: the destructor does not wait for mRunMutex.
DestroyLockUnguarded ==
    /\ dpc = "lock"
    /\ lock' = Dtor /\ stop' = TRUE /\ enabled' = FALSE
    /\ NotifyAll
    /\ dpc' = "join"
    /\ UNCHANGED <<period, age, wpc, waitPeriod, cpc, carg, creq, posts, batched>>

\* unique_lock lock(mRunMutex); mStopThread = true; mIsEnabled = false;
\* notify_all(); lock.release() gives up the unique_lock without unlocking
\* the mutex, so the destructor keeps owning it.
DestroyLock ==
    /\ dpc = "lock" /\ lock = NoOne
    /\ lock' = Dtor /\ stop' = TRUE /\ enabled' = FALSE
    /\ NotifyAll
    /\ dpc' = "join"
    /\ UNCHANGED <<period, age, wpc, waitPeriod, cpc, carg, creq, posts, batched>>

\* mRunThread.join() returns once run() has returned.
DestroyJoin ==
    /\ dpc = "join" /\ wpc = "exit"
    /\ dpc' = "done"
    /\ UNCHANGED <<enabled, period, age, stop, lock, wpc, woken, waitPeriod, cpc, carg, creq, posts, batched>>

-----------------------------------------------------------------------------
WorkerNext == Start \/ Top \/ Recompute \/ Dispatch \/ Sleep \/ Timeout
              \/ Spurious \/ Relock \/ Tick

CallerNext(c) ==
    \/ \E e \in BOOLEAN : CallActivate(c, e)
    \/ ActivateCheck(c) \/ ActivateLock(c)
    \/ \E r \in Requests : CallBatch(c, r)
    \/ BatchBody(c)
    \/ CallFlush(c) \/ FlushCheck(c) \/ FlushPost(c)

Next ==
    \/ WorkerNext
    \/ \E c \in Callers : CallerNext(c)
    \/ DestroyBegin \/ DestroyLock \/ DestroyJoin

(* The run thread and a call in progress are scheduled; a thread waiting   *)
(* for mRunMutex gets it when it is free again and again (the holders only *)
(* keep it for a bounded time); the clock advances and a timed wait times  *)
(* out. Starting a call is up to the callers and is not fair.              *)
Fairness ==
    /\ WF_vars(Top) /\ WF_vars(Recompute) /\ WF_vars(Dispatch) /\ WF_vars(Sleep)
    /\ SF_vars(Start) /\ SF_vars(Relock) /\ WF_vars(Timeout) /\ WF_vars(Tick)
    /\ \A c \in Callers :
          /\ WF_vars(ActivateCheck(c)) /\ SF_vars(ActivateLock(c))
          /\ WF_vars(BatchBody(c)) /\ WF_vars(FlushCheck(c)) /\ WF_vars(FlushPost(c))
    /\ SF_vars(DestroyLock) /\ WF_vars(DestroyJoin)

Spec == Init /\ [][Next]_vars /\ Fairness

-----------------------------------------------------------------------------
(* Properties.                                                             *)

(* activate(true) must never leave the run thread blocked in the untimed   *)
(* wait of run() (mWaitCV.wait on mIsEnabled || mStopThread): the write of *)
(* mIsEnabled under mRunMutex and its notify_all reach a thread that is    *)
(* about to block as well as one already blocked.                          *)
NoIndefiniteSleepWhileEnabled == (wpc = "waitE" /\ ~woken) => ~enabled

(* A sample is due: enabled, mLastSampleTimeNs + mSamplingPeriodNs        *)
(* reached, and the destructor not begun.                                  *)
DueSample == enabled /\ age >= period /\ dpc = "none"

(* While mStopThread is false, a sample that is due is eventually taken by *)
(* run() (the branch that sets mLastSampleTimeNs = now), unless a control  *)
(* call makes it no longer due.                                            *)
DueSampleTaken == (DueSample /\ ~stop) ~> (~DueSample \/ wpc = "recompute")

(* spec 4.1, as the client sees it: once activate(true) and batch() have   *)
(* succeeded, a due sample is eventually taken, whatever mStopThread,      *)
(* which only the destructor is meant to set, started with.                *)
EnabledSensorSamples == DueSample ~> (~DueSample \/ wpc = "recompute")

(* Every activate() that has to change mIsEnabled eventually obtains       *)
(* mRunMutex from the run thread and returns.                              *)
ActivateReturns == \A c \in Callers : cpc[c] = "actLock" ~> cpc[c] = "idle"

(* No event reaches postEvents once ~Sensor has set mStopThread and        *)
(* cleared mIsEnabled under mRunMutex: a run thread that was sampling held *)
(* the mutex, so it had finished its post, and when it gets past the lock  *)
(* again it sees mStopThread and leaves run().                             *)
NoPostAfterStop == [][(dpc \in {"join", "done"}) => UNCHANGED posts]_vars

(* spec 4.1: a batch() that changes the period wakes the run thread, so    *)
(* the new cadence is honoured without waiting out the stale period: a     *)
(* blocked wait_for never has a deadline beyond mLastSampleTimeNs plus the *)
(* current, shorter period.                                                *)
BatchTakesEffect == (wpc = "waitT" /\ ~woken) => waitPeriod <= period

(* spec 5: delivery to the dispatcher happens outside the lock, so         *)
(* activate() never waits on readEvents() / postEvents().                  *)
ControlNeverWaitsOnDispatch ==
    ~(wpc = "dispatch" /\ \E c \in Callers : cpc[c] = "actLock")

(* spec 7: teardown always completes.                                      *)
TeardownCompletes == dpc = "lock" ~> dpc = "done"

(* spec 4.1 / 4.4: a failed hardware read or a line with fewer than three  *)
(* fields skips the cycle; no event is emitted for it.                     *)
NoEventWithoutData == [][posts'["zero"] = posts["zero"]]_posts

-----------------------------------------------------------------------------
(* Refinement of SensorControl.  A flush() that has passed its unlocked    *)
(* mIsEnabled check is taken to have posted FLUSH_COMPLETE at that check:  *)
(* the post itself, later and without the lock, is a stuttering step.      *)
FlushPending == Cardinality({c \in Callers : cpc[c] = "flushPost"})

Control == INSTANCE SensorControl
               WITH posts <- [posts EXCEPT !["flush"] = (@ + FlushPending) % 2],
                    ReadOutcomes <- {readEvents(c) : c \in NodeContents}

(* The threads of Sensor implement the atomic sensor: every event (each    *)
(* sample and each flush completion, not only the first of its kind) is    *)
(* posted while mIsEnabled is set, mIsEnabled changes only by activate()   *)
(* or ~Sensor, and mSamplingPeriodNs is only ever a clamped period.        *)
(* run() dispatches under mRunMutex after seeing mIsEnabled, and           *)
(* activate() writes it under the same mutex.                              *)
ImplementsControl == Control!Spec
=============================================================================
