------------------------------- MODULE SubHal -------------------------------
(***************************************************************************)
(* The multi-HAL front end: ISensorsSubHalBase of                          *)
(* src/multihal/SensorsSubHal.cpp, composed with the sensors it owns.      *)
(*                                                                         *)
(* The HalProxy calls initialize() with a fresh callback every time the    *)
(* sensors framework (re)starts, and forwards activate / batch / flush /   *)
(* injectSensorData / setOperationMode from binder threads (the callers).  *)
(* The sub-HAL looks the handle up in mSensors and forwards to the Sensor. *)
(* Each sensor's run thread, and a flush, post their events through        *)
(* ISensorsSubHalBase::postEvents, which reads mCallback twice: once for   *)
(* createScopedWakelock and once for postEvents.  initialize() move-assigns *)
(* the new std::unique_ptr into mCallback, which destroys the old callback. *)
(*                                                                         *)
(* The sampling cadence of a sensor is modelled in SensorWorker; here a    *)
(* run thread may take a sample whenever its sensor is enabled, under      *)
(* mRunMutex as Sensor::run does.  The enabled check and the first read of *)
(* mCallback (createScopedWakelock) are one step, the second read          *)
(* (postEvents) another.                                                   *)
(***************************************************************************)
EXTENDS Integers, FiniteSets

CONSTANTS
    Callers,      \* HalProxy binder threads
    Handles,      \* handles in mSensors
    Unknown,      \* handles the sub-HAL does not own
    Callbacks,    \* the callbacks successive initialize() calls hand over
    NoCallback,   \* mCallback(nullptr) of the constructor
    Modes,        \* OperationMode values: "NORMAL", "DATA_INJECTION"
    Latencies,    \* maxReportLatencyNs values a caller passes to batch()
    Reinit        \* the HalProxy disables every sensor before it calls
                  \* initialize() again; "idle": and no other call is in
                  \* progress; "disabled": calls of the dead framework
                  \* may still be in progress

ASSUME /\ Handles \cap Unknown = {} /\ NoCallback \notin Callbacks
       /\ "NORMAL" \in Modes /\ 0 \in Latencies
       /\ Reinit \in {"idle", "disabled"}

(* Result values of V1_0::Result used by the code *)
Results == {"OK", "BAD_VALUE", "INVALID_OPERATION"}

Call == [op : {"none", "activate", "batch", "flush", "inject", "mode", "init"},
         known : BOOLEAN, lat : Latencies \cup {-1}, en : BOOLEAN,
         mode : Modes, ret : Results]

(* No call completed yet *)
NoCall == [op |-> "none", known |-> FALSE, lat |-> -1, en |-> FALSE,
           mode |-> "NORMAL", ret |-> "OK"]

VARIABLES
    mCallback,  \* ISensorsSubHalBase::mCallback
    freed,      \* callbacks destroyed by the move-assignment in initialize()
    enabled,    \* mIsEnabled of each sensor
    runLock,    \* the sensor's run thread holds mRunMutex while it dispatches
    rwl,        \* callback whose createScopedWakelock the run thread called
    cpc,        \* program point of each caller
    cwl,        \* callback whose createScopedWakelock a flushing caller called
    cflush,     \* handle a flushing caller is working on
    last,       \* the last call each caller completed, with its result
    session     \* history: callback installed when the sensor was last
                \* activated, NoCallback if it never was

vars == <<mCallback, freed, enabled, runLock, rwl, cpc, cwl, cflush, last, session>>

MaybeCallback == Callbacks \cup {NoCallback}

TypeOK ==
    /\ mCallback \in MaybeCallback /\ freed \subseteq Callbacks
    /\ enabled \in [Handles -> BOOLEAN] /\ runLock \in [Handles -> BOOLEAN]
    /\ rwl \in [Handles -> MaybeCallback]
    /\ cpc \in [Callers -> {"idle", "flushPost"}]
    /\ cwl \in [Callers -> MaybeCallback] /\ cflush \in [Callers -> Handles]
    /\ last \in [Callers -> Call]
    /\ session \in [Handles -> MaybeCallback]

(* ISensorsSubHalBase(): mCallback(nullptr); every Sensor starts disabled. *)
Init ==
    /\ mCallback = NoCallback /\ freed = {}
    /\ enabled = [h \in Handles |-> FALSE] /\ runLock = [h \in Handles |-> FALSE]
    /\ rwl = [h \in Handles |-> NoCallback]
    /\ cpc = [c \in Callers |-> "idle"] /\ cwl = [c \in Callers |-> NoCallback]
    /\ cflush \in [Callers -> Handles]
    /\ last = [c \in Callers |-> NoCall]
    /\ session = [h \in Handles |-> NoCallback]

Record(c, op, known, lat, en, mode, ret) ==
    last' = [last EXCEPT ![c] = [op |-> op, known |-> known, lat |-> lat,
                                 en |-> en, mode |-> mode, ret |-> ret]]

(* The HalProxy initializes a sub-HAL before it forwards any other call.   *)
Ready(c) == cpc[c] = "idle" /\ mCallback # NoCallback

(* ISensorsSubHalBase::setOperationMode: only NORMAL is accepted.           *)
SetOperationModeResult(m) == IF m = "NORMAL" THEN "OK" ELSE "BAD_VALUE"

SetOperationMode(c, m) ==
    /\ Ready(c)
    /\ Record(c, "mode", FALSE, -1, FALSE, m, SetOperationModeResult(m))
    /\ UNCHANGED <<mCallback, freed, enabled, runLock, rwl, cpc, cwl, cflush, session>>

(* initialize(): mCallback = std::move(halProxyCallback) destroys the old   *)
(* callback; setOperationMode(NORMAL) changes nothing.  Nothing else of     *)
(* the sub-HAL is reset.  A re-initialization comes after the HalProxy has  *)
(* disabled every sensor through activate(false); Reinit says whether other *)
(* calls may still be in progress.                                          *)
Quiesced(c) ==
    /\ \A h \in Handles : ~enabled[h]
    /\ Reinit = "disabled" \/ \A d \in Callers \ {c} : cpc[d] = "idle"

Initialize(c, cb) ==
    /\ cpc[c] = "idle"
    /\ cb \notin freed \cup {mCallback}
    /\ mCallback = NoCallback \/ Quiesced(c)
    /\ mCallback' = cb
    /\ freed' = freed \cup ({mCallback} \ {NoCallback})
    /\ Record(c, "init", FALSE, -1, FALSE, "NORMAL", "OK")
    /\ UNCHANGED <<enabled, runLock, rwl, cpc, cwl, cflush, session>>

(* Sensor::activate takes mRunMutex only when the state changes: it waits  *)
(* for a dispatching run thread to release the mutex.                      *)
ActivateUnlocked(c, h, en) ==
    /\ enabled' = [enabled EXCEPT ![h] = en]
    /\ session' = IF en THEN [session EXCEPT ![h] = mCallback] ELSE session

SensorActivate(c, h, en) ==
    \/ /\ enabled[h] = en
       /\ UNCHANGED <<enabled, session>>
    \/ /\ enabled[h] # en
       /\ ~runLock[h]
       /\ enabled' = [enabled EXCEPT ![h] = en]
       /\ session' = IF en THEN [session EXCEPT ![h] = mCallback] ELSE session

(* ISensorsSubHalBase::activate: find the handle, forward, OK; else        *)
(* BAD_VALUE.                                                              *)
Activate(c, h, en) ==
    /\ Ready(c)
    /\ \/ /\ h \in Handles
          /\ SensorActivate(c, h, en)
          /\ Record(c, "activate", TRUE, -1, en, "NORMAL", "OK")
       \/ /\ h \in Unknown
          /\ Record(c, "activate", FALSE, -1, en, "NORMAL", "BAD_VALUE")
          /\ UNCHANGED <<enabled, session>>
    /\ UNCHANGED <<mCallback, freed, runLock, rwl, cpc, cwl, cflush>>

(* ISensorsSubHalBase::batch: the latency argument is ignored; a known     *)
(* handle gets Sensor::batch (its period clamp is modelled in SensorWorker *)
(* and does not change what this module tracks).                           *)
Batch(c, h, lat) ==
    /\ Ready(c)
    /\ Record(c, "batch", h \in Handles, lat, FALSE, "NORMAL",
              IF h \in Handles THEN "OK" ELSE "BAD_VALUE")
    /\ UNCHANGED <<mCallback, freed, enabled, runLock, rwl, cpc, cwl, cflush, session>>

(* ISensorsSubHalBase::injectSensorData: Sensor::injectEvent always        *)
(* answers INVALID_OPERATION; an unknown handle BAD_VALUE.                  *)
InjectSensorData(c, h) ==
    /\ Ready(c)
    /\ Record(c, "inject", h \in Handles, -1, FALSE, "NORMAL",
              IF h \in Handles THEN "INVALID_OPERATION" ELSE "BAD_VALUE")
    /\ UNCHANGED <<mCallback, freed, enabled, runLock, rwl, cpc, cwl, cflush, session>>

(* ISensorsSubHalBase::flush then Sensor::flush: an unknown handle or a    *)
(* disabled sensor is BAD_VALUE (flags are 0: never ONE_SHOT_MODE).  An    *)
(* enabled one posts FLUSH_COMPLETE through postEvents without mRunMutex:   *)
(* this step reads mIsEnabled and calls createScopedWakelock.               *)
FlushCheckAnyState(c, h) ==
    /\ Ready(c)
    /\ h \in Handles
    /\ cpc' = [cpc EXCEPT ![c] = "flushPost"]
    /\ cwl' = [cwl EXCEPT ![c] = mCallback]
    /\ cflush' = [cflush EXCEPT ![c] = h]
    /\ UNCHANGED <<mCallback, freed, enabled, runLock, rwl, last, session>>

\* Mutant of FlushCheck: the mSensors.find result is used without the
\* comparison with mSensors.end().
FlushNoFindCheck(c, h) ==
    /\ Ready(c)
    /\ cpc' = [cpc EXCEPT ![c] = "flushPost"]
    /\ cwl' = [cwl EXCEPT ![c] = mCallback]
    /\ cflush' = [cflush EXCEPT ![c] = h]
    /\ UNCHANGED <<mCallback, freed, enabled, runLock, rwl, last, session>>

FlushCheck(c, h) ==
    /\ Ready(c)
    /\ \/ /\ h \in Handles /\ enabled[h]
          /\ cpc' = [cpc EXCEPT ![c] = "flushPost"]
          /\ cwl' = [cwl EXCEPT ![c] = mCallback]
          /\ cflush' = [cflush EXCEPT ![c] = h]
          /\ UNCHANGED last
       \/ /\ h \in Handles /\ ~enabled[h]
          /\ Record(c, "flush", TRUE, -1, FALSE, "NORMAL", "BAD_VALUE")
          /\ UNCHANGED <<cpc, cwl, cflush>>
       \/ /\ h \in Unknown
          /\ Record(c, "flush", FALSE, -1, FALSE, "NORMAL", "BAD_VALUE")
          /\ UNCHANGED <<cpc, cwl, cflush>>
    /\ UNCHANGED <<mCallback, freed, enabled, runLock, rwl, session>>

(* mCallback->postEvents(events, std::move(wakelock)), then return OK.     *)
FlushPost(c) ==
    /\ cpc[c] = "flushPost"
    /\ cpc' = [cpc EXCEPT ![c] = "idle"]
    /\ Record(c, "flush", TRUE, -1, TRUE, "NORMAL", "OK")
    /\ UNCHANGED <<mCallback, freed, enabled, runLock, rwl, cwl, cflush, session>>

(* Sensor::run of an enabled sensor, holding mRunMutex: readEvents(), then *)
(* ISensorsSubHalBase::postEvents calls mCallback->createScopedWakelock.   *)
RunDispatch(h) ==
    /\ enabled[h] /\ ~runLock[h]
    /\ runLock' = [runLock EXCEPT ![h] = TRUE]
    /\ rwl' = [rwl EXCEPT ![h] = mCallback]
    /\ UNCHANGED <<mCallback, freed, enabled, cpc, cwl, cflush, last, session>>

(* ... mCallback->postEvents(events, wakelock); the run thread then goes   *)
(* to its wait_for, which releases mRunMutex.                               *)
RunPost(h) ==
    /\ runLock[h]
    /\ runLock' = [runLock EXCEPT ![h] = FALSE]
    /\ UNCHANGED <<mCallback, freed, enabled, rwl, cpc, cwl, cflush, last, session>>

Next ==
    \/ \E c \in Callers :
          \/ \E cb \in Callbacks : Initialize(c, cb)
          \/ \E m \in Modes : SetOperationMode(c, m)
          \/ \E h \in Handles \cup Unknown :
                \/ \E en \in BOOLEAN : Activate(c, h, en)
                \/ \E lat \in Latencies : Batch(c, h, lat)
                \/ InjectSensorData(c, h)
                \/ FlushCheck(c, h)
          \/ FlushPost(c)
    \/ \E h \in Handles : RunDispatch(h) \/ RunPost(h)

Spec == Init /\ [][Next]_vars

-----------------------------------------------------------------------------
(* Properties.                                                             *)

(* A post is delivered whole to one live callback: when the run thread or  *)
(* a flush reaches mCallback->postEvents, mCallback is still the callback  *)
(* that created its ScopedWakelock, and that callback has not been         *)
(* destroyed by initialize().  This is what the two unsynchronised reads   *)
(* of mCallback in ISensorsSubHalBase::postEvents rely on.                 *)
CallbackStable ==
    /\ \A h \in Handles : runLock[h] => rwl[h] = mCallback /\ rwl[h] \notin freed
    /\ \A c \in Callers :
          cpc[c] = "flushPost" => cwl[c] = mCallback /\ cwl[c] \notin freed

(* SubHal.h (initialize): "Method will be called anytime the sensors       *)
(* framework restarts.  Therefore, this method will be responsible for     *)
(* reseting the state of the subhal".  So every event delivered through a  *)
(* callback belongs to a sensor activated since that callback was          *)
(* installed: no sample or flush of the previous framework session reaches *)
(* the new one.                                                            *)
PostsBelongToSession ==
    /\ \A h \in Handles : runLock[h] => session[h] = mCallback
    /\ \A c \in Callers : cpc[c] = "flushPost" => session[cflush[c]] = mCallback

(* spec 6 and 7: the result of every control call follows the contract:   *)
(* an unknown handle is an InvalidHandle error except a batch with         *)
(* maxReportLatencyNs == 0, which always succeeds; injection on a sensor    *)
(* that is not injection-capable is UnsupportedOperation; only the NORMAL  *)
(* operation mode is accepted; flush of a disabled sensor is InvalidValue. *)
ContractResult(r) ==
    CASE r.op \in {"none", "init"}          -> "OK"
      [] r.op = "mode"                     -> SetOperationModeResult(r.mode)
      [] r.op = "batch" /\ r.lat = 0       -> "OK"
      [] ~r.known                          -> "BAD_VALUE"
      [] r.op = "inject"                   -> "INVALID_OPERATION"
      [] r.op = "flush"                    -> IF r.en THEN "OK" ELSE "BAD_VALUE"
      [] OTHER                             -> "OK"

ResultsFollowContract ==
    \A c \in Callers : last[c].ret = ContractResult(last[c])
=============================================================================
