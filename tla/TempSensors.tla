----------------------------- MODULE TempSensors -----------------------------
(***************************************************************************)
(* The temperature sensors: every 10 ms each of them is scanned and        *)
(* debounced (adc_KeyBoardPer10ms, adc_KeyMake), and at the end of the     *)
(* same tick temperature_read takes over the readings accepted and         *)
(* publishes two of them, the hottest of the power supply's sensors and    *)
(* the hottest of the amplifier's, for the fans and the protection.        *)
(*                                                                         *)
(* The tick is one step: nothing else in it looks at this state between    *)
(* the two calls.  The conversion table from ADC counts to degrees is left *)
(* out, and so is the flag that makes unit_status_check report a change.   *)
(***************************************************************************)
EXTENDS Integers

CONSTANTS
  SENSORS,   \* how many sensors there are (4), numbered in the order of the loop
  SMPS,      \* the first of them are on the power supply (2), the others on the amplifier
  Value,     \* the temperatures a scan may give
  HOLD,      \* TIME10MSTO30MS: how many more scans have to agree (3)
  MAX_STREAK \* bound: longer runs of equal scans are one case

Sensor == 1 .. SENSORS

ASSUME SensorsAssumption ==
  /\ SMPS \in {1, 2} /\ SENSORS \in {SMPS + 1, SMPS + 2}
  /\ Value \subseteq Nat /\ 0 \in Value
  /\ HOLD \in Nat \ {0}
  /\ MAX_STREAK \in Nat /\ MAX_STREAK > HOLD + 1

VARIABLES
  key,               \* [Sensor -> the debounce of the sensor]
  current_key,       \* [Sensor -> the reading accepted last]
  smps_temperature,  \* as published
  amp_temperature,
  scanned,           \* history: the last scan
  streak,            \* history: how many scans in a row gave that value
  collided           \* history: readings accepted in one tick, since the last publication?

vars == <<key, current_key, smps_temperature, amp_temperature,
          scanned, streak, collided>>

\* KeyMode.  KeyImsi and KeyData always hold the same value: data.
Key == [mode : {"KM_READY", "KM_HOLD", "KM_KEYOFF"}, data : Value, hold : 0 .. HOLD]

TypeOK ==
  /\ key \in [Sensor -> Key]
  /\ current_key \in [Sensor -> Value]
  /\ smps_temperature \in Value /\ amp_temperature \in Value
  /\ scanned \in [Sensor -> Value]
  /\ streak \in [Sensor -> 0 .. MAX_STREAK]
  /\ collided \in BOOLEAN

\* adc_KeyInit, and temperatures that are all 0 from boot on.
Init ==
  /\ key = [s \in Sensor |-> [mode |-> "KM_READY", data |-> 0, hold |-> 0]]
  /\ current_key = [s \in Sensor |-> 0]
  /\ smps_temperature = 0 /\ amp_temperature = 0
  /\ scanned = [s \in Sensor |-> 0]
  /\ streak = [s \in Sensor |-> 0]
  /\ collided = FALSE

\* Does this scan complete a reading?  (adc_KeyMake sets KeyOk, temperature_read
\* clears it in the same tick.)
KeyOkEarly(k, scan) ==   \* mutant: one scan too early
  k.mode = "KM_HOLD" /\ k.data = scan /\ k.hold <= 2
KeyOk(k, scan) == k.mode = "KM_HOLD" /\ k.data = scan /\ k.hold = 1

\* A sensor's debounce after a scan.  A scan that differs from the reading only
\* restarts the debounce; the next one is the first of the new reading.
KeyMakeNoRestart(k, scan) ==   \* mutant: an accepted reading is never dropped
  CASE k.mode = "KM_READY" -> [mode |-> "KM_HOLD", data |-> scan, hold |-> HOLD]
    [] k.mode = "KM_HOLD" /\ k.data # scan -> [k EXCEPT !.mode = "KM_READY"]
    [] KeyOk(k, scan) -> [k EXCEPT !.mode = "KM_KEYOFF", !.hold = 0]
    [] k.mode = "KM_HOLD" /\ k.data = scan /\ k.hold # 1 -> [k EXCEPT !.hold = @ - 1]
    [] OTHER -> k
KeyMake(k, scan) ==
  CASE k.mode = "KM_READY" -> [mode |-> "KM_HOLD", data |-> scan, hold |-> HOLD]
    [] k.mode # "KM_READY" /\ k.data # scan -> [k EXCEPT !.mode = "KM_READY"]
    [] KeyOk(k, scan) -> [k EXCEPT !.mode = "KM_KEYOFF", !.hold = 0]
    [] k.mode = "KM_HOLD" /\ k.data = scan /\ k.hold # 1 -> [k EXCEPT !.hold = @ - 1]
    [] OTHER -> k

Accepted(scan) == {s \in Sensor : KeyOk(key[s], scan[s])}

\* temperature_read calls mode_temperature_check for a reading that is new, but
\* not while a later sensor's reading is still to be taken over: only for the
\* last reading of the tick.
PublishesRising(scan) ==   \* mutant: only a reading that is hotter counts
  \E s \in Accepted(scan) :
    /\ \A other \in Accepted(scan) : other <= s
    /\ scan[s] > current_key[s]
Publishes(scan) ==
  \E s \in Accepted(scan) :
    /\ \A other \in Accepted(scan) : other <= s
    /\ scan[s] # current_key[s]

\* Two sensors have a reading accepted in this tick.
Collides(scan) == \E s, other \in Accepted(scan) : s # other

\* mode_temperature_check: the hotter of the power supply's sensors, and of the
\* amplifier's.
Larger(a, b) == IF a >= b THEN a ELSE b
HottestSmps(reading) == Larger(reading[1], reading[SMPS])
HottestAmp(reading) == Larger(reading[SMPS + 1], reading[SENSORS])

\* check_timer_10ms, the calls adc_KeyBoardPer10ms and temperature_read.
Tick(scan) ==
  /\ key' = [s \in Sensor |-> KeyMake(key[s], scan[s])]
  /\ current_key' =
       [s \in Sensor |-> IF s \in Accepted(scan) THEN scan[s] ELSE current_key[s]]
  /\ IF Publishes(scan)
     THEN /\ smps_temperature' = HottestSmps(current_key')
          /\ amp_temperature' = HottestAmp(current_key')
     ELSE UNCHANGED <<smps_temperature, amp_temperature>>
  /\ scanned' = scan
  /\ streak' = [s \in Sensor |->
       IF scan[s] # scanned[s] \/ streak[s] = 0 THEN 1
       ELSE IF streak[s] < MAX_STREAK THEN streak[s] + 1 ELSE MAX_STREAK]
  /\ collided' = (~Publishes(scan) /\ (collided \/ Collides(scan)))

Next == \E scan \in [Sensor -> Value] : Tick(scan)

Spec == Init /\ [][Next]_vars

-----------------------------------------------------------------------------
(***************************************************************************)
(* Properties.                                                             *)
(***************************************************************************)

\* A reading is taken over only when HOLD + 1 scans in a row gave it: no order of
\* restarts, holds and accepted readings lets a shorter burst through
\* (adc_KeyMake, temperature_read).
Debounced ==
  [][\A s \in Sensor : current_key'[s] # current_key[s] =>
       /\ streak'[s] >= HOLD + 1
       /\ current_key'[s] = scanned'[s]]_vars

\* A temperature that stays is taken over by its HOLD + 2nd scan at the latest,
\* the one that restarts the debounce included.
FollowsTheScans ==
  \A s \in Sensor : streak[s] >= HOLD + 2 => current_key[s] = scanned[s]

\* Unless two sensors had a reading accepted in the same tick since the last
\* publication, what is published is the hottest reading of each group: a new
\* reading is published at once, on behalf of every sensor (temperature_read,
\* mode_temperature_check).
PublishedIsHottest ==
  ~collided =>
    /\ smps_temperature = HottestSmps(current_key)
    /\ amp_temperature = HottestAmp(current_key)
=============================================================================
