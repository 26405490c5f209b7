--------------------------- MODULE RangeConverter ---------------------------
(***************************************************************************)
(* The conversion of raw SMI240 counts to SI units in the legacy HAL, and  *)
(* the full scale it advertises:                                           *)
(*  - sensord_algo_process (src/legacy/sensord/sensord_algo.cpp) picks     *)
(*    convert_acc / convert_gyro from accl_range / gyro_range with the     *)
(*    CONVERT_* macros and multiplies each raw count by it; a range that   *)
(*    is not a case of the switch drops the event ('continue');            *)
(*  - ap_get_sensorlist (sensord_hwcntl_implement.cpp) sets the            *)
(*    accelerometer entries' maxRange to accl_range * GRAVITY_EARTH the     *)
(*    first time the list is asked for, and caches the list;               *)
(*  - the 2.X, AIDL and multi-HAL front ends read the same sysfs nodes:    *)
(*    fillPayload multiplies each count by mSensorInfo.resolution, and the *)
(*    constructors of src/common/BoschSensors.h set resolution and         *)
(*    maxRange.  FrontEnds says which of the two front ends are checked.   *)
(*                                                                         *)
(* Values are exact rationals [n, d] (d > 0).  The code computes in float  *)
(* and double: each operation errs by at most 2^-24 relative, far below    *)
(* the 3.5e-4 relative gap between 9.81 and GRAVITY_EARTH that the         *)
(* properties compare, so exact arithmetic decides them the same way.      *)
(***************************************************************************)
EXTENDS Integers

CONSTANTS
    AccRangeConfs,  \* values accl_range may be configured with
    RawCounts,      \* raw counts of the sysfs node (16-bit signed ADC codes)
    AllocCanFail,   \* the mallocs of ap_get_sensorlist may fail
    FrontEnds       \* "legacy" (sensord) and / or "2.X" (BoschSensors.h)

ASSUME /\ FrontEnds \subseteq {"legacy", "2.X"}
       /\ AccRangeConfs \subseteq Int
       /\ RawCounts \subseteq -32768..32767
       /\ AllocCanFail \in BOOLEAN

(* The cases ACC_CHIP_RANGCONF_2G .. _16G of the accl_range switches      *)
AccRanges == {2, 4, 8, 16}

Rat(n, d) == [n |-> n, d |-> d]
RatMul(a, b) == Rat(a.n * b.n, a.d * b.d)
(* p/q <= r/s for naturals p, r and positive q, s, by comparing integer    *)
(* parts and then the reciprocals of the fractional parts, so that no      *)
(* product outgrows TLC's 32-bit integers.                                 *)
RECURSIVE FracLeq(_, _, _, _)
FracLeq(p, q, r, s) ==
    IF p \div q # r \div s THEN p \div q < r \div s
    ELSE IF p % q = 0 THEN TRUE
    ELSE IF r % s = 0 THEN FALSE
    ELSE FracLeq(s, r % s, q, p % q)
RatAbsLeq(a, b) == FracLeq(IF a.n < 0 THEN -a.n ELSE a.n, a.d, b.n, b.d)

(* ACC_VALUE_PER_BIT == 9.81 / 32767 and CONVERT_ACC_<r>G == it * r      *)
ACC_VALUE_PER_BIT == Rat(981, 100 * 32767)
ConvertAcc(r) == RatMul(ACC_VALUE_PER_BIT, Rat(r, 1))

(* GRAVITY_EARTH of the Android sensors header, (9.80665f).                *)
GRAVITY_EARTH == Rat(980665, 100000)

(* The initialiser of bosch_all_sensors[].maxRange is not in the sources;  *)
(* d = 0 marks that value.                                                 *)
DefaultMaxRange == Rat(0, 0)
NoEvent == Rat(0, 0)

(***************************************************************************)
(* The descriptors of BoschSensors.h.  A value the descriptor scales by a  *)
(* physical constant is kept as q times that constant, named by unit:      *)
(* "g0" for 9.80665f m/s^2 and "deg" for M_PI / 180 rad.  q * 9.80665 would *)
(* outgrow TLC's integers and pi is not rational; a count times a          *)
(* resolution keeps the unit, and only values of one unit are compared.    *)
(***************************************************************************)
gravityToAcceleration(x) == [q |-> x, unit |-> "g0"]
degreeToRad(x) == [q |-> x, unit |-> "deg"]

Descriptor ==
    [acc |-> [maxRange   |-> gravityToAcceleration(Rat(16, 1)),
              resolution |-> gravityToAcceleration(Rat(1, 2000))],
     gyr |-> [maxRange   |-> degreeToRad(Rat(300, 1)),
              resolution |-> degreeToRad(Rat(1, 100))]]

\* fillPayload: atof (std::stof in AIDL) of the field times resolution.
PayloadValue(raw, res) == [q |-> RatMul(Rat(raw, 1), res.q), unit |-> res.unit]
NoPayload == [q |-> NoEvent, unit |-> "none"]

VARIABLES
    accl_range,   \* the configured accelerometer range
    listLen,      \* bosch_sensorlist.list_len (0: not built yet)
    accMaxRange,  \* bosch_all_sensors[SENSORLIST_INX_ACCELEROMETER].maxRange
    accEvent,     \* acceleration.x of the last accelerometer event delivered
    payload       \* 2.X: vec3.x of the last event of each sensor

vars == <<accl_range, listLen, accMaxRange, accEvent, payload>>

Rational == [n : Int, d : Nat]

TypeOK ==
    /\ accl_range \in AccRangeConfs
    /\ listLen \in {0, 2}
    /\ accMaxRange \in Rational /\ accEvent \in Rational
    /\ payload \in [{"acc", "gyr"} -> [q : Rational, unit : {"g0", "deg", "none"}]]

Init ==
    /\ accl_range \in AccRangeConfs
    /\ listLen = 0
    /\ accMaxRange = DefaultMaxRange
    /\ accEvent = NoEvent
    /\ payload = [s \in {"acc", "gyr"} |-> NoPayload]

(***************************************************************************)
(* ap_get_sensorlist while list_len is 0: a valid accl_range sets the      *)
(* accelerometer entries' maxRange, an invalid one only warns; then the    *)
(* list and its index are malloc'ed (a failure of either returns 0 with    *)
(* list_len still 0, so the next call starts over) and two entries, the    *)
(* accelerometer and the uncalibrated gyroscope, are copied.  Once         *)
(* list_len is set, the call returns the cached list and changes nothing.  *)
(***************************************************************************)
GetSensorList ==
    /\ "legacy" \in FrontEnds
    /\ listLen = 0
    /\ accMaxRange' = IF accl_range \in AccRanges
                      THEN RatMul(Rat(accl_range, 1), GRAVITY_EARTH)
                      ELSE accMaxRange
    /\ \E ok \in IF AllocCanFail THEN BOOLEAN ELSE {TRUE} :
          listLen' = IF ok THEN 2 ELSE 0
    /\ UNCHANGED <<accl_range, accEvent, payload>>

(* Step 2 of sensord_algo_process for an accelerometer sample with raw     *)
(* count x: switch (accl_range) picks convert_acc, or drops the event.     *)
DeliverAcc(raw) ==
    /\ "legacy" \in FrontEnds
    /\ accl_range \in AccRanges
    /\ accEvent' = RatMul(Rat(raw, 1), ConvertAcc(accl_range))
    /\ UNCHANGED <<accl_range, listLen, accMaxRange, payload>>

(* Sensor::readEvents of the 2.X front end for sensor s and a line whose   *)
(* fields are the count raw.                                               *)
ReadEvent(s, raw) ==
    /\ "2.X" \in FrontEnds
    /\ payload' = [payload EXCEPT ![s] = PayloadValue(raw, Descriptor[s].resolution)]
    /\ UNCHANGED <<accl_range, listLen, accMaxRange, accEvent>>

Next ==
    \/ GetSensorList
    \/ \E raw \in RawCounts : DeliverAcc(raw) \/ \E s \in {"acc", "gyr"} : ReadEvent(s, raw)

Spec == Init /\ [][Next]_vars

-----------------------------------------------------------------------------
(***************************************************************************)
(* No event exceeds the full scale its sensor advertises (spec 4.3: the    *)
(* scale is fullScaleRange / 32767 for a signed 16-bit count, so a count   *)
(* never converts past the full scale):                                    *)
(*  - legacy: |acceleration.x| <= maxRange once ap_get_sensorlist has set  *)
(*    it.  The code's own comment says a count of 32767 is the full range *)
(*    (range * 9.81 m/s^2), while maxRange is range * GRAVITY_EARTH;       *)
(*  - 2.X: |vec3.x| = |count| * resolution <= maxRange of the descriptor   *)
(*    that BoschSensors.h gives the sensor.                                *)
(***************************************************************************)
EventWithinMaxRange ==
    /\ (listLen > 0 /\ accMaxRange.d > 0 /\ accEvent.d > 0)
           => RatAbsLeq(accEvent, accMaxRange)
    /\ \A s \in {"acc", "gyr"} :
           payload[s] # NoPayload =>
               /\ payload[s].unit = Descriptor[s].maxRange.unit
               /\ RatAbsLeq(payload[s].q, Descriptor[s].maxRange.q)
=============================================================================
