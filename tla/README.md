# TLA+ models of the SMI240 Android sensor HAL

This directory has TLA+ models of the sensor HAL in `src/`. TLC checks them.
Each module is translated from the C++ source. An `MC*.tla` module fixes the
constants for TLC. Each `*.cfg` file is one run. `PROJECT.json` lists:

- the components and the status of each;
- every run and what it expects;
- one mutant for each property of a passing run;
- which source lines every definition models;
- the findings and the hazards.

## 1. The system

The repository has two independent implementations of an IMU (accelerometer and
gyroscope) HAL.

**Per-sensor HAL** (`src/2.X`, `src/aidl`, `src/multihal`, `src/common`,
`src/hwctl`):

- Every `Sensor` object owns a run thread, started by its constructor. The
  thread holds `mRunMutex` except while it waits on `mWaitCV`.
- While the sensor is enabled, the thread reads the sysfs IIO node once every
  `mSamplingPeriodNs` (`readEvents` → `readEventPayload` → `readFromFile` →
  `fillPayload`) and posts the event through `mCallback->postEvents`.
- `activate`, `batch` and `flush` arrive on HAL binder threads. `activate`
  takes the mutex. `batch` and the flag check in `flush` do not.
- The destructor stops the thread and joins it.
- `src/2.X` (HIDL 2.0/2.1) and `src/aidl` contain the same control code.
  `fillPayload` differs: `atof` in 2.X, `std::stof` in AIDL.
- In the multi-HAL build, `ISensorsSubHalBase` maps a sensor handle to a
  `Sensor` and forwards the calls. `initialize` installs the callback that
  `postEvents` uses.
- `BoschSensors.h` holds the two descriptors: 10 ms minDelay, 200 ms maxDelay,
  and no flags.

**Legacy sensord HAL** (`src/legacy/sensord`):

- The *hwcntl thread* repeatedly calls `IMU_hw_deliver_sensordata`. Each call:
  - reads the accelerometer node and then the gyroscope node, each giving one
    line per read;
  - queues the parsed samples on two temporary lists;
  - under `shmem_hwcntl.mutex`, mounts both lists onto the shared list `p_list`
    and signals the condition variable;
  - sleeps for `sampling_interval - 600` µs.
- An *algorithm thread* (in `BoschSensor.cpp`, which is not in the sources)
  takes `p_list` and splits it per sensor. `sensord_algo_process` then:
  - takes both per-sensor lists;
  - merges them by timestamp with `sort_input_samples` (the AlignmentMerger of
    the specification);
  - converts each sample with the configured range and delivers one event per
    sample.
- `ap_batch` and `ap_activate` come from binder threads. They set
  `sampling_interval` through `SMI240_convert_ODR`.

### State, operations and hard behaviour per component

| Component | State | Operations | What makes it hard |
|---|---|---|---|
| SensorWorker (`Sensor.cpp`) | `mIsEnabled`, `mSamplingPeriodNs`, `mLastSampleTimeNs`, `mStopThread`, mutex, condition variable | ctor, `run` loop, `activate`, `batch`, `flush`, dtor | Three or more threads. Lost and spurious wake-ups. Reads without the lock. Timed waits against a clock. Teardown. |
| EventReader (`readEvents`, `fillPayload`, `readFromFile`) | none (per call) | one read per sample | Failed reads, short lines, `stof` exceptions |
| AlignmentMerger (`sort_input_samples`, `sensord_algo_process`) | two temporary lists, the align array and the cursors | one call per batch of samples | Timestamp ties, a 0 sentinel, four allocation-failure points, range validity |
| RangeConverter (macros in `sensord_algo.cpp`, `ap_get_sensorlist`; `resolution` and `maxRange` of `BoschSensors.h` with `fillPayload`) | `accl_range`, `gyro_range`, the cached sensor list and its `maxRange` | factor selection, conversion, sensor list, 2.X scaling | Unknown ranges. The factors use 9.81 and 3.14, `maxRange` uses `GRAVITY_EARTH`. The 2.X resolution does not divide the full scale by 32767. |
| HwCntl (`sensord_hwcntl_implement.cpp`) | `acc_fd`, `gyr_fd`, the temporary lists, `p_list`, `sampling_interval` | `hwcntl_init`, poll cycle, `ap_batch`, `ap_activate`, `ap_flush` | Producer and consumer threads, failing open/lseek/read/calloc, an init result that hides a failed open, a parse of uninitialised fields, ODR arithmetic |
| SubHal (`SensorsSubHal.cpp`) | map of handles to sensors, `mCallback` | activate, batch, flush, inject, initialize, postEvents | An unknown handle. The callback is swapped while sensor threads post. |

How the parts interact:

- The run thread of every `Sensor` calls back into the SubHal, or into the 2.X
  or AIDL front end.
- In the legacy path, the hwcntl thread and the algorithm thread share
  `p_list`.
- The binder threads change the state that those threads read.

## 2. Modules

### SensorWorker.tla (with MCSensorWorker.tla)

One `Sensor` object: its run thread, a set of caller threads and the
destructor.

**Variables:**

- `enabled`, `period` and `stop` are the members of the same names.
- `age` is `now - mLastSampleTimeNs`. It saturates at the maximum period,
  which keeps every comparison the code makes.
- `lock` is the owner of `mRunMutex`.
- `wpc` is the run thread's position: `start`, `top`, `recompute`, `dispatch`,
  `sleep`, `waitE` (the predicate wait), `waitT` (the `wait_for`) or `exit`.
- `woken` records a notify or timeout that has not yet been consumed.
- `waitPeriod` is the period behind the pending `nextSampleTime`.
- `cpc`, `carg` and `creq` are the callers' positions and arguments.
- `dpc` is the destructor's position.
- `posts`, a history variable, holds for each kind of event the parity of
  the number handed to `postEvents`. It flips on every post, so every post
  is a step of its own, not only the first of its kind.

**Actions:**

- Run thread: `Start`, `Top`, `Recompute`, `Dispatch`, `Sleep`. The waits end
  with `Timeout`, `Spurious` and `Relock`.
- `Tick` advances the clock.
- Callers: `CallActivate`/`ActivateCheck`/`ActivateLock`,
  `CallBatch`/`BatchBody` and `CallFlush`/`FlushCheck`/`FlushPost`. A step
  that reads shared state without the lock is a separate action, so other
  threads can interleave with it.
- Destructor: `DestroyBegin`, `DestroyLock`, `DestroyJoin`.

**Constants:**

- `StopInit` is the set of values the uninitialised `std::atomic_bool
  mStopThread` may start with.
- `NodeContents` is what the sysfs node may hold, and `Variant` picks the
  2.X (`atof`) or AIDL (`std::stof`) parser. `Dispatch` posts
  `readEvents(c)` of EventReader for a content `c`.
- `BatchBeforeActivate` says whether callers issue `batch` before the first
  `activate(true)`, as the Android framework does.

**Refinement:** `Control` instantiates SensorControl with `posts` mapped
to the posted events plus the FLUSH_COMPLETE of every flush that has passed
its check (`FlushPending` counts them). The flush is linearised at its unlocked check
of `mIsEnabled`, so its later post is a stuttering step. `ImplementsControl`
(`Control!Spec`) is checked as a PROPERTY.

### SensorControl.tla

The abstract sensor of spec 4.1: `enabled`, `period` and `posts`, with
atomic `Activate`, `Batch` (any period in [minDelay, maxDelay]), `Sample`
(only while enabled) and `Flush` (only while enabled and not one-shot). It
states what a client may observe, and nothing about threads or locks.

### EventReader.tla

`readFromFile`, `readEventPayload`, `fillPayload` and `readEvents` as
operators over an abstract node content: `missing` (the file does not
open), `short` (fewer than three fields), `numbers` and `junk` (a field that
is not a number). The result is the kind of event: `data`, `zero` (the
memset payload), `garbage` (`atof` of junk, posted with ACCURACY_HIGH) or
`abort` (`std::stof` throws, and nothing on the run thread catches it).
SensorWorker extends it.

### RangeConverter.tla (with MCRangeConverter.tla)

The unit conversion of both front ends and the full scale each advertises.
`FrontEnds` says which are checked: the legacy path, the 2.X one (also used
by AIDL and the multi-HAL), or both. Values are exact rationals. `FracLeq` compares them with a continued-fraction
recursion, so no product exceeds TLC's 32-bit integers.

- `ConvertAcc(r)` is `CONVERT_ACC_<r>G` = 9.81 / 32767 × r.
- `DeliverAcc(raw)` is the accelerometer case of step 2 of
  `sensord_algo_process`. An unknown range drops the event.
- `GetSensorList` is `ap_get_sensorlist`:
  - the first call sets `maxRange = accl_range * GRAVITY_EARTH` for a valid
    range;
  - either `malloc` may fail, which leaves `list_len` 0 for a retry;
  - later calls return the cached list.
- `Descriptor` holds `resolution` and `maxRange` from the constructors in
  `BoschSensors.h`. `gravityToAcceleration` and `degreeToRad` keep their
  constant factor (9.80665 m/s², π/180 rad) as a named unit. Then
  `q × 9.80665` cannot outgrow TLC's integers, and π is never needed.
  Only values of the same unit are compared.
- `ReadEvent(s, raw)` is `readEvents` of the 2.X `Sensor` for a line holding
  the count `raw`. `fillPayload` multiplies it by the resolution
  (`PayloadValue`).

### AlignmentMerger.tla (with MCAlignmentMerger.tla)

One algorithm thread calling `sensord_algo_process` on the samples queued in
`tmplist_sensord_acclraw` and `tmplist_sensord_gyroraw`.

- `SortLoop` is `sort_input_samples` as a RECURSIVE operator. It includes the
  `cur_base_tm = 0` "unset" logic.
- `Collect` is step 1, including the two `malloc` failures:
  - when the accelerometer array fails, the call changes nothing;
  - when the gyroscope array fails, the accelerometer samples are lost.
- `Sort` is the call of `sort_input_samples` and its `calloc` failure.
- `DeliverSlot` is one iteration of step 2:
  - the package holds the accelerometer sample and then the gyroscope sample;
  - each event's `calloc` may fail;
  - an event is dropped when its range value is not a case of the switch.
- `Finish` is the frees.
- `MergeRef` is the reference merge, written from the algorithm that the
  specification (4.2) gives.

### HwCntl.tla (with MCHwCntl.tla)

The hwcntl thread's cycle and the configuration calls.

- `HwcntlInit` is `hwcntl_init`. It opens both nodes, and either `open` may
  fail (`OpenCanFail`). `ret` receives the accelerometer's result and then
  the gyroscope's, so the call returns the gyroscope's result alone. The
  loop in `BoschSensor.cpp` is taken to poll only after a 0 result, and the
  entry points serve calls only then (`Serving`).

- `PollAcc` and `PollGyro` are the two `ap_hw_poll_*` functions.
- `Poll` has these outcomes:
  - a line, a malformed line or a read error;
  - `calloc` failure;
  - `lseek` failure, which closes the fd for good.
- `Mount` mounts the lists under the mutex when the two of them together hold
  a sample. `Sleep` is the `usleep`.
- `HwcntlThread` is the hwcntl thread's own steps: init, the two polls, the
  mount and the sleep. `Spec` makes it weakly fair.
- `Consume` is the algorithm thread taking `p_list`. That code is not in the
  sources, so this action is modelled from the interface.
- `ConfigPhyAcc` is `ap_send_config` for the accelerometer, through
  `ap_config_physensor` to `ap_config_phyACC`. The rate it sends is
  `CONVERT_DATARATE_CODE` of the `data_rate` in the BSX configuration table.
  `batch_configref_resort` and `activate_configref_resort` fill that table.
  None of these is in the sources, so the rate is any member of the constant
  `TableRatesHz`. The gyroscope's configuration reaches only
  `ap_config_phyGYR`, which logs.
- `Batch` is `ap_batch`: the handle lookup and the unknown-handle and
  zero-latency rule. The clamped period goes only to
  `batch_configref_resort`, so it does not reach the state. Whether that
  function asks for the send is a nondeterministic choice.
- `Activate` is `ap_activate`. It always sends, because `ret` is forced to
  1. Enabling sends the table's rate, and disabling sends a rate that
  `ap_config_phyACC` only logs.
- `Flush` is `ap_flush`: `-EINVAL` for an unknown handle, 0 otherwise.
- `ConvertODR` is `SMI240_convert_ODR`, evaluated on whole-Hz rates.
- The constant `ConfigCalls` lets the binder threads call in or not. The
  `HwCntl_cycle` run has them call.

### SubHal.tla (with MCSubHal.tla)

`ISensorsSubHalBase`, composed with the sensors it owns and the binder
threads of the HalProxy.

**Variables:**

- `mCallback` and `freed`. `initialize` move-assigns the new `unique_ptr`,
  which destroys the old callback wrapper. The wakelock's reference count
  lives in the HalProxy, so a wakelock made by the old wrapper stays valid.
- `enabled` for every sensor.
- `runLock`: the run thread holds `mRunMutex` while it dispatches.
- `rwl` and `cwl`: the callback whose `createScopedWakelock` a dispatch or a
  flush has called.
- `cpc` and `cflush`: a caller in the middle of a flush.
- `last`: each caller's last completed call and its result.
- `session`, a history variable: the callback that was installed when the
  sensor was last activated.

**Actions:**

- `Initialize`, `SetOperationMode`, `Activate` (which uses `SensorActivate`),
  `Batch` and `InjectSensorData`.
- `FlushCheck` and `FlushPost`. The flush reads `mIsEnabled` without the lock
  and posts in a later step.
- `RunDispatch` and `RunPost`: the two reads of `mCallback` in
  `ISensorsSubHalBase::postEvents`.

**Environment:**

- The HalProxy is not in the sources. It initializes a sub-HAL before
  forwarding any call.
- The HalProxy disables every sensor with `activate(false)` before it calls
  `initialize` again after a framework restart. `Reinit` says what else holds
  then:
  - `"idle"`: no other call is in progress;
  - `"disabled"`: calls of the dead framework, such as a flush, may still be
    in progress.
- The sampling cadence is left to SensorWorker. Here a run thread may dispatch
  whenever its sensor is enabled.

## 3. Runs

| Run (cfg) | Expect | What it shows |
|---|---|---|
| `SensorWorker_control` | pass (about 48k states, about 1 min) | Two callers, batch before activate, then the destructor. `NoIndefiniteSleepWhileEnabled`: the run thread never blocks in the enabled-wait while enabled and un-notified. `DueSampleTaken`: while `mStopThread` is false, an enabled sensor whose period has elapsed takes a sample. `ActivateReturns`: every `activate` that reaches the lock returns. `ImplementsControl`: the threads implement the atomic SensorControl, including the destructor's disable. Every post is checked to happen while the sensor is enabled, not only the first of its kind. `NoPostAfterStop` (an action property): no event is posted once the destructor has set `mStopThread` under the mutex. `mStopThread` may start either way. Deadlock is not checked, since after the destructor nothing runs. |
| `SensorWorker_batch_wakeup` | violation | `BatchTakesEffect`: the lost notify of `batch()`. |
| `SensorWorker_activate_first` | violation | `ActivateReturns` without batch first. The period is 0, `wait_for(0)` never unlocks, and `activate(false)` hangs. |
| `SensorWorker_teardown_hang` | violation | `TeardownCompletes`: `lock.release()` keeps the mutex, so `join()` never returns. |
| `SensorWorker_dispatch_locked` | violation | `ControlNeverWaitsOnDispatch`: `activate()` waits on `mRunMutex` while the run thread reads the node and calls `postEvents` under it. The specification says control calls never wait on dispatch. |
| `SensorWorker_never_samples` | violation | `EnabledSensorSamples` (`DueSampleTaken` without its premise that `mStopThread` is false): it has no initialiser, so `run()` can return before its first sample, while `batch()` and `activate(true)` still succeed and no event is ever posted. |
| `AlignmentMerger_merge` | pass (about 32k states) | `MergeMatchesSpec`: the align array equals the reference merge. `DeliveredAsMerged`: the events are an ordered subsequence of the merge, each at most once, and all of it when no allocation failed. |
| `HwCntl_cycle` | pass (about 53k states, 10 s) | `StreamsOrdered`: each stream reaches the consumer in timestamp order under any interleaving of polls, mounts, takes and configuration calls. |
| `SubHal_quiesced` | pass (about 684k states, 2 min) | `CallbackStable`: every post reaches the live callback that made its wakelock. `PostsBelongToSession`: events reach only the framework session in which the sensor was activated. Both hold when every sensor is disabled and no call is in flight at re-initialization. `activate(false)` waiting on `mRunMutex` for a dispatch in flight is what makes this so. |
| `SubHal_reinit_race` | violation | `PostsBelongToSession`: a flush of the dead framework passes its unlocked check of `mIsEnabled` before the HalProxy disables the sensor. `initialize()` then installs the new callback without waiting for it or resetting anything, and the FLUSH_COMPLETE reaches the new framework session. `SubHal.h` says `initialize` resets the sub-HAL's state. |
| `HwCntl_fd_closed` | violation | `ReadFailureSkipsOneCycle`: a failed `lseek` silences the stream for good. |
| `RangeConverter_maxrange` | violation | `EventWithinMaxRange`: a full-scale count converts past the advertised `maxRange`. TLC's trace is the 2.X one: -32768 × 1/2000 g = 16.38 g against 16 g. The gyroscope likewise gives 327.67 against 300 deg/s. With `FrontEnds = {"legacy"}`, a count of -32768 at ±2g converts to 19.6206 m/s² against `maxRange` 19.6133 (2 × 9.80665). The legacy factor assumes 9.81 m/s² per g. |

The violation runs disagree with the specification, or are plain code bugs.
`PROJECT.json` ("findings") records each one at its source line.

Three more properties are stated in the modules. TLC finds each of them
violated at once, and they have no run yet. `PROJECT.json` lists them as
hazards, each with a note:

- `NoEventWithoutData`: a failed read posts a zero event.
- `NoIndeterminateSample`: a malformed sysfs line is queued with
  uninitialised x/y/z.
- `ResultsFollowContract`: a zero-latency batch on an unknown handle returns
  BAD_VALUE.

### Bounds and why they are enough

**SensorWorker:**

- Periods are scaled down: minDelay 1 µs, maxDelay 2 µs, 1000 ns per µs, and a
  1 µs clock tick. The real values are 10 ms and 200 ms.
- Requests {0, 5000} are below the minimum and above the maximum, so both
  clamps apply and the period can change in either direction. A request
  inside the range would take the identity branch of the clamp. It adds
  about 2.5× the states and 3 minutes of liveness checking, and reaches no
  new branch of the run thread.
- Only the order of `age` against the periods matters to the code, so the
  scale does not change any branch.
- Two callers are enough for every pairwise race: activate/activate,
  activate/batch and batch/flush.

**AlignmentMerger:**

- Each stream has up to 3 samples over 4 instants. The inputs therefore
  include:
  - every tie pattern;
  - one stream exhausted first;
  - one stream empty;
  - an interleave with no ties.
- One valid and one invalid range value are given per sensor.

**HwCntl:**

- `HwCntl_cycle` lets either `open` fail at init, so both the masked
  failure and the failed start are reached.
- Two poll cycles. Samples therefore accumulate on `p_list` across cycles
  before the consumer takes them, and a configuration call can fall between
  any two steps of either cycle.
- The table rates {5, 25, 50, 100, 200, 400} Hz sit on each threshold of
  `SMI240_convert_ODR` and between two of them, so every ODR is chosen.

**RangeConverter:**

- Every range of the switch, plus one outside it.
- Raw counts -32768, -1, 0, 1 and 32767: both ends of the 16-bit code and
  the smallest magnitudes. Both front ends read the same counts.

**SensorWorker node contents:** every SensorWorker run uses a node that
always holds three numbers. With all four contents the control run grows
past a quarter of an hour, so the missing, short and junk contents are
checked only in EventReader's operators, where each of them yields its
event. Both runs let `mStopThread` start either way. Only a true start
lets `join()` return, because of `lock.release()`. The AIDL `std::stof` run on junk
ends the process, which the model does not follow.

### Fairness

**SensorWorker:**

- The run thread's steps, the clock and the timed wait's timeout are weakly
  fair. The OS schedules a runnable thread, and a timed wait expires.
- Re-taking `mRunMutex` is strongly fair. The holders keep the mutex only for
  bounded stretches, so a waiter that finds it free again and again gets it.
- A caller that has entered a call is weakly fair.
- Starting a call is not fair: the framework may never call.

`ImplementsControl` is a safety property: the abstract spec has no
fairness, and the mapping needs none.

**HwCntl:**

- The hwcntl thread is weakly fair. It blocks only on the `shmem_hwcntl`
  mutex, which the algorithm thread holds just long enough to take
  `p_list`, and in a bounded `usleep`.
- The algorithm thread and the binder threads get no fairness. Their loops
  are in `BoschSensor.cpp`, which is not in the sources.
- No liveness property is checked on HwCntl. The fairness documents how
  the thread is scheduled.

**AlignmentMerger, SubHal and RangeConverter:** these runs check only
invariants, so no fairness is used.

### SubHal bounds

- Two callers, two sensors, one unknown handle and two callbacks, so one
  framework restart.
- A second restart would only repeat the first.
- Two callers are the fewest for which a flush can overlap another caller's
  `initialize`.

## 4. Not modelled, and why

- The HIDL/AIDL version adapters and the service entry point do only RPC
  plumbing and type conversion.
- `getSensorsList`, `debug` and `ap_show_ver` only report state. The direct
  channel calls only return INVALID_OPERATION.
- `popcount` runs only once, on a constant two-bit mask, inside
  `ap_get_sensorlist`.
- The legacy gyroscope's advertised `maxRange` comes from an initialiser that
  is not in the sources, so `ConvertGyro` (which uses PI = 3.14) is not
  compared with anything. The 2.X gyroscope is compared, through `ReadEvent`.
- The process termination when `std::stof` throws is not followed. An AIDL
  configuration excludes junk node content.
- The BSX library headers are type definitions for code that is not present.
- `BoschSensor.cpp` (the legacy algorithm and hwcntl thread loops) is not in
  the sources. It appears only as the `Consume` environment action.
- Event payload values, logging and string formatting are left out. They are
  abstracted to "data" or "zero".

## 5. Plan

The most important behaviour comes first. Steps 1 to 7 are done. Step 6 also covers the 2.X descriptors.

1. **SensorWorker**: the run loop, activate, batch, flush and teardown, with
   its violation runs (done).
2. **AlignmentMerger**: the merge against the reference and step 2 delivery
   under allocation failure (done).
3. **HwCntl**: the producer cycle, ordering to the consumer, ODR, and the
   fd/parse divergences; `hwcntl_init` and `ap_flush` (done).
4. **SensorControl**: the abstract sensor, refined by SensorWorker (done).
5. **SubHal**: the handle map and the callback swap across re-initialization
   (done).
6. **EventReader** (composed into SensorWorker's dispatch) and
   **RangeConverter** (conversion against `maxRange`) (done).
7. **SensorWorker liveness with an uninitialised `mStopThread`**: the sensor
   never samples (done: `SensorWorker_never_samples`).
8. **Composition of HwCntl and AlignmentMerger**: the consumer splits `p_list`
   into the two lists that the merger takes. AlignmentMerger's input domain
   (strictly increasing per stream) is exactly what `StreamsOrdered`
   guarantees.
9. **SubHal over SensorControl**: the SubHal's sensors as instances of the
   abstract sensor, in place of its own copy of the flush and activate steps.

Steps 8 and 9 are left undone:

- **Step 8.** The consumer that splits `p_list` is in `BoschSensor.cpp`,
  which is not in the sources, so the glue would be invented. HwCntl's
  `Stamp` also gives every sample a distinct time, so the composition would
  never reach the merger's tie cases, which are its interesting inputs.
  `MergeMatchesSpec` already checks those over every tie pattern.
- **Step 9.** The refinement needs a history variable of the posted events.
  That variable multiplies the SubHal state space. `PostsBelongToSession` and
  `CallbackStable` already state the part of the abstract sensor that the
  SubHal adds.
