------------------------------ MODULE HwCntl ------------------------------
(***************************************************************************)
(* The legacy hardware-control layer, src/legacy/sensord/                  *)
(* sensord_hwcntl_implement.cpp: the hwcntl thread's poll cycle            *)
(* (IMU_hw_deliver_sensordata: read the accelerometer node, read the       *)
(* gyroscope node, mount both temporary lists onto shmem_hwcntl.p_list      *)
(* under its mutex, usleep) and the configuration calls that set the poll  *)
(* interval (ap_batch / ap_activate -> ap_send_config -> ap_config_phyACC). *)
(*                                                                         *)
(* The thread loop that calls pfun_hw_deliver_sensordata and the algorithm *)
(* thread that takes p_list live in BoschSensor.cpp, which is not part of  *)
(* the sources; the consumer is the environment action Consume.  A sysfs   *)
(* node yields one line per read and then end of file, so a poll takes at  *)
(* most one sample per stream.  Samples carry their stream, their          *)
(* CLOCK_MONOTONIC timestamp and whether their x/y/z were parsed.          *)
(***************************************************************************)
EXTENDS Integers, Sequences, FiniteSets

CONSTANTS
    ReadOutcomes,  \* what read() of an open node gives: "line", "malformed", "error"
    OpenCanFail,   \* open() of a sysfs node may fail in hwcntl_init
    LseekCanFail,  \* lseek(fd, 0, SEEK_SET) may fail
    AllocCanFail,  \* calloc of a HW_DATA_UNION may fail
    MaxCycles,     \* bound on poll cycles
    TableRatesHz,  \* rates CONVERT_DATARATE_CODE can make of the data_rate
                   \* of the BSX configuration tables (not in the sources)
    ConfigCalls,   \* binder threads call ap_batch / ap_activate
    Handles        \* handles callers pass: "acc", "gyr", "bsxInvalid"
                   \* (BSX_SENSOR_ID_INVALID) and unknown ones

ASSUME /\ ReadOutcomes \subseteq {"line", "malformed", "error"} /\ ReadOutcomes # {}
       /\ {OpenCanFail, LseekCanFail, AllocCanFail, ConfigCalls} \subseteq BOOLEAN
       /\ MaxCycles \in Nat
       /\ TableRatesHz \subseteq Nat \ {0}
       /\ {"acc", "gyr"} \subseteq Handles

Streams == {"acc", "gyr"}
US_PER_SEC == 1000000
SAMPLING_INTERVAL_OFFSET == 600
EINVAL == 22
ENODEV == 19

\* Every poll reads the clock at most once per stream.
MaxClock == 2 * MaxCycles + 2

Sample == [s : Streams, t : 1..MaxClock, v : {"data", "indeterminate"}]

VARIABLES
    fd,                \* acc_fd / gyr_fd: "none" (-1), "open", or "closed"
                       \* (closed, never reset)
    clock,             \* CLOCK_MONOTONIC, in poll-read steps
    hw,                \* tmplist_hwcntl_acclraw / tmplist_hwcntl_gyroraw
    shm,               \* shmem_hwcntl.p_list
    taken,             \* samples the algorithm thread has taken, in order
    ppc,               \* where the hwcntl thread is in its cycle
    cycle,             \* poll cycles completed
    sampling_interval, \* the static poll interval (us)
    failCycle,         \* history: cycle of each stream's last read or lseek failure
    ret                \* history: return value of the last hwcntl_init,
                       \* ap_batch, ap_activate or ap_flush

vars == <<fd, clock, hw, shm, taken, ppc, cycle, sampling_interval,
          failCycle, ret>>

TypeOK ==
    /\ fd \in [Streams -> {"none", "open", "closed"}]
    /\ clock \in 0..MaxClock
    /\ hw \in [Streams -> Seq(Sample)]
    /\ shm \in Seq(Sample) /\ taken \in Seq(Sample)
    /\ ppc \in {"init", "failed", "acc", "gyr", "mount", "sleep"}
    /\ cycle \in 0..MaxCycles
    /\ sampling_interval \in {US_PER_SEC} \cup {US_PER_SEC \div o : o \in {5, 50, 100, 200, 400}}
    /\ failCycle \in [Streams -> {-1} \cup (0..MaxCycles)]
    /\ ret \in {0, -EINVAL, -ENODEV}

\* Before hwcntl_init: acc_fd = gyr_fd = -1, sampling_interval = US_PER_SEC.
Init ==
    /\ fd = [s \in Streams |-> "none"]
    /\ clock = 0
    /\ hw = [s \in Streams |-> <<>>]
    /\ shm = <<>> /\ taken = <<>>
    /\ ppc = "init" /\ cycle = 0
    /\ sampling_interval = US_PER_SEC
    /\ failCycle = [s \in Streams |-> -1]
    /\ ret = 0

(***************************************************************************)
(* hwcntl_init for SOLUTION_IMU: ap_hwcntl_init_ACC opens the accelerometer *)
(* node and ap_hwcntl_init_GYRO the gyroscope node, each returning -ENODEV *)
(* when open() gives -1; both results go to the same ret, so the function  *)
(* returns the gyroscope's.  The thread loop of BoschSensor (not in the    *)
(* sources) is taken to start polling only on a 0 result.                  *)
(***************************************************************************)
OpenResult(ok) == IF ok THEN 0 ELSE -ENODEV

HwcntlInit ==
    /\ ppc = "init"
    /\ \E okAcc, okGyr \in IF OpenCanFail THEN BOOLEAN ELSE {TRUE} :
          /\ fd' = [fd EXCEPT !["acc"] = IF okAcc THEN "open" ELSE "none",
                              !["gyr"] = IF okGyr THEN "open" ELSE "none"]
          /\ ret' = OpenResult(okGyr)
          /\ ppc' = IF OpenResult(okGyr) = 0 THEN "acc" ELSE "failed"
    /\ UNCHANGED <<clock, hw, shm, taken, cycle, sampling_interval, failCycle>>

-----------------------------------------------------------------------------
\* Mutant of Stamp: the clock is read before the read() it should follow.
StampBeforeRead(c) == c

\* clock_gettime(CLOCK_MONOTONIC) right after a read() that returned data.
Stamp(c) == c + 1

(***************************************************************************)
(* ap_hw_poll_smi240acc / ap_hw_poll_smi240gyro.  A read of a closed fd or *)
(* of -1 fails (EBADF) and so does the lseek after it.  A line read is stamped   *)
(* with clock_gettime after the read and parsed by sysfs_extract_numbers,  *)
(* which leaves x, y, z uninitialised when a field does not start with a   *)
(* digit or '-'; the sample is queued either way unless calloc fails.  A   *)
(* failing lseek closes the fd and leaves acc_fd / gyr_fd as they were.    *)
(***************************************************************************)
Poll(s, next) ==
    /\ ppc = s
    /\ \E r \in (IF fd[s] = "open" THEN ReadOutcomes ELSE {"error"}),
          lk \in (IF fd[s] # "open" THEN {"fail"}
                  ELSE IF LseekCanFail THEN {"ok", "fail"} ELSE {"ok"}),
          alloc \in (IF AllocCanFail THEN BOOLEAN ELSE {TRUE}) :
          LET read == r \in {"line", "malformed"}
          IN  /\ clock' = IF read THEN clock + 1 ELSE clock
              /\ hw' = IF read /\ alloc
                       THEN [hw EXCEPT ![s] = Append(@,
                                [s |-> s, t |-> Stamp(clock),
                                 v |-> IF r = "line" THEN "data" ELSE "indeterminate"])]
                       ELSE hw
              /\ fd' = IF lk = "fail" /\ fd[s] = "open"
                       THEN [fd EXCEPT ![s] = "closed"] ELSE fd
              /\ failCycle' = IF r = "error" \/ lk = "fail"
                              THEN [failCycle EXCEPT ![s] = cycle] ELSE failCycle
    /\ ppc' = next
    /\ UNCHANGED <<shm, taken, cycle, sampling_interval, ret>>

PollAcc == Poll("acc", "gyr")

PollGyro == Poll("gyr", "mount")

\* Mutant of Mount: the lists are mounted at the head of p_list.
MountFront ==
    /\ ppc = "mount"
    /\ \/ /\ Len(hw["acc"]) + Len(hw["gyr"]) > 0
          /\ shm' = hw["acc"] \o hw["gyr"] \o shm
          /\ hw' = [s \in Streams |-> <<>>]
       \/ /\ Len(hw["acc"]) + Len(hw["gyr"]) = 0
          /\ UNCHANGED <<shm, hw>>
    /\ ppc' = "sleep"
    /\ UNCHANGED <<fd, clock, taken, cycle, sampling_interval, failCycle, ret>>

\* If either list holds samples: lock the mutex, list_mount_rear the
\* accelerometer list and then the gyroscope list, signal, unlock.
Mount ==
    /\ ppc = "mount"
    /\ \/ /\ Len(hw["acc"]) + Len(hw["gyr"]) > 0
          /\ shm' = shm \o hw["acc"] \o hw["gyr"]
          /\ hw' = [s \in Streams |-> <<>>]
       \/ /\ Len(hw["acc"]) + Len(hw["gyr"]) = 0
          /\ UNCHANGED <<shm, hw>>
    /\ ppc' = "sleep"
    /\ UNCHANGED <<fd, clock, taken, cycle, sampling_interval, failCycle, ret>>

\* usleep(sampling_interval - SAMPLING_INTERVAL_OFFSET); the thread loop
\* calls IMU_hw_deliver_sensordata again.
Sleep ==
    /\ ppc = "sleep" /\ cycle < MaxCycles
    /\ cycle' = cycle + 1 /\ ppc' = "acc"
    /\ UNCHANGED <<fd, clock, hw, shm, taken, sampling_interval, failCycle, ret>>

\* The algorithm thread takes what p_list holds, under the same mutex.
Consume ==
    /\ shm # <<>>
    /\ taken' = taken \o shm /\ shm' = <<>>
    /\ UNCHANGED <<fd, clock, hw, ppc, cycle, sampling_interval, failCycle, ret>>

-----------------------------------------------------------------------------
(***************************************************************************)
(* Configuration.  ap_send_config hands ap_config_physensor the rate        *)
(* CONVERT_DATARATE_CODE makes of the data_rate in the BSX configuration    *)
(* table, which batch_configref_resort / activate_configref_resort fill;    *)
(* neither the tables nor those functions are in the sources, so the rate   *)
(* is any of TableRatesHz, and the period a caller passes never reaches     *)
(* the state.  Rates are whole Hz, compared exactly.                        *)
(***************************************************************************)
HzAbove(hz, k) == hz > k

\* SMI240_convert_ODR: the ODR at or above the requested rate.
ConvertODR(hz) ==
    IF HzAbove(hz, 200) THEN 400
    ELSE IF HzAbove(hz, 100) THEN 200
    ELSE IF HzAbove(hz, 50) THEN 100
    ELSE IF HzAbove(hz, 5) THEN 50
    ELSE 5

\* ap_send_config of the accelerometer: ap_config_physensor ->
\* ap_config_phyACC(rate) for an enabled rate.
ConfigPhyAcc ==
    \E hz \in TableRatesHz : sampling_interval' = US_PER_SEC \div ConvertODR(hz)

(***************************************************************************)
(* ap_batch(handle, period, latency).  An unknown handle returns 0 for a   *)
(* zero latency and -EINVAL otherwise.  A sensor's clamped period goes to  *)
(* batch_configref_resort, whose result (not in the sources) decides       *)
(* whether ap_send_config runs now.  Only the accelerometer's              *)
(* configuration changes the poll interval (ap_config_phyGYR only logs).   *)
(***************************************************************************)
Batch(h, lat) ==
    /\ \/ /\ h \notin Streams
          /\ ret' = IF lat = 0 THEN 0 ELSE -EINVAL
          /\ UNCHANGED sampling_interval
       \/ /\ h = "gyr"
          /\ ret' = 0
          /\ UNCHANGED sampling_interval
       \/ /\ h = "acc"
          /\ ConfigPhyAcc \/ UNCHANGED sampling_interval
          /\ ret' = 0
    /\ UNCHANGED <<fd, clock, hw, shm, taken, ppc, cycle, failCycle>>

(***************************************************************************)
(* ap_activate(handle, enabled): BSX_SENSOR_ID_INVALID returns 0 at once,  *)
(* any other unknown handle gives -EINVAL; a known one always sends        *)
(* (ret is forced to 1): enabling sends the table's configuration          *)
(* (ap_send_config), disabling sends SAMPLE_RATE_DISABLED, which           *)
(* ap_config_phyACC only logs.                                             *)
(***************************************************************************)
Activate(h, en) ==
    /\ \/ /\ h = "bsxInvalid"
          /\ ret' = 0
          /\ UNCHANGED sampling_interval
       \/ /\ h \notin Streams \cup {"bsxInvalid"}
          /\ ret' = -EINVAL
          /\ UNCHANGED sampling_interval
       \/ /\ h = "acc" /\ en
          /\ ConfigPhyAcc
          /\ ret' = 0
       \/ /\ h \in Streams /\ ~(h = "acc" /\ en)
          /\ ret' = 0
          /\ UNCHANGED sampling_interval
    /\ UNCHANGED <<fd, clock, hw, shm, taken, ppc, cycle, failCycle>>

(***************************************************************************)
(* ap_flush(handle): an unknown handle (BSX_SENSOR_ID_INVALID included)    *)
(* gives -EINVAL; the SMI240 entries are continuous, so the one-shot check *)
(* passes and send_flush_event (BoschSensor, not in the sources) queues    *)
(* the flush-complete event; the call returns 0.                           *)
(***************************************************************************)
Flush(h) ==
    /\ ret' = IF h \in Streams THEN 0 ELSE -EINVAL
    /\ UNCHANGED <<fd, clock, hw, shm, taken, ppc, cycle, sampling_interval,
                   failCycle>>

\* The entry points are installed by hwcntl_init, and the HAL only serves
\* calls once it succeeded.
Serving == ppc \notin {"init", "failed"}

Next ==
    \/ HwcntlInit
    \/ PollAcc \/ PollGyro \/ Mount \/ Sleep \/ Consume
    \/ ConfigCalls /\ Serving /\ \E h \in Handles, lat \in {0, 1} : Batch(h, lat)
    \/ ConfigCalls /\ Serving /\ \E h \in Handles, en \in BOOLEAN : Activate(h, en)
    \/ ConfigCalls /\ Serving /\ \E h \in Handles : Flush(h)

\* The hwcntl thread: hwcntl_init, then the poll cycle of
\* IMU_hw_deliver_sensordata.  It never blocks but on the shmem_hwcntl
\* mutex, which the algorithm thread holds only to take p_list, and in a
\* bounded usleep, so it is weakly fair.  The algorithm thread and the
\* binder threads (BoschSensor, not in the sources) get no fairness.
HwcntlThread == HwcntlInit \/ PollAcc \/ PollGyro \/ Mount \/ Sleep

Spec == Init /\ [][Next]_vars /\ WF_vars(HwcntlThread)

-----------------------------------------------------------------------------
StreamOf(q, s) == SelectSeq(q, LAMBDA x : x.s = s)

(***************************************************************************)
(* Each stream reaches the algorithm thread in the order it was sampled:   *)
(* taken, then p_list, then the temporary list, hold strictly increasing   *)
(* timestamps per stream, whichever way the cycle of the hwcntl thread and *)
(* the algorithm thread interleave.  sort_input_samples relies on it.      *)
(***************************************************************************)
StreamsOrdered ==
    \A s \in Streams :
        LET q == StreamOf(taken \o shm \o hw[s], s)
        IN  \A k \in 1..(Len(q) - 1) : q[k].t < q[k + 1].t

(***************************************************************************)
(* A failed read only skips the current cycle (specification, external     *)
(* interfaces): in any later cycle the node is open again.                 *)
(***************************************************************************)
ReadFailureSkipsOneCycle ==
    \A s \in Streams : fd[s] = "closed" => failCycle[s] = cycle

(***************************************************************************)
(* A malformed line is dropped (specification, EventReader): no sample     *)
(* with unparsed x/y/z reaches p_list.                                     *)
(***************************************************************************)
NoIndeterminateSample ==
    \A k \in DOMAIN (taken \o shm) : (taken \o shm)[k].v = "data"
=============================================================================
