-------------------------- MODULE TempSensorsProofs --------------------------
(***************************************************************************)
(* Theorems about TempSensors, for every number of values, every hold time *)
(* and any order of scans.  The inductive invariant counts, in each mode   *)
(* of a sensor's debounce, how many scans in a row must have agreed.       *)
(***************************************************************************)
EXTENDS TempSensors, TLAPS

TypeInv == TypeOK

\* Where a sensor's debounce stands in the run of equal scans: ready after a
\* scan that differed, holding since the run's first or second scan, off only
\* when the run's value has been taken over.
Counted(s) ==
  /\ key[s].mode = "KM_READY" => streak[s] <= 1
  /\ key[s].mode = "KM_HOLD" =>
       /\ key[s].data = scanned[s]
       /\ key[s].hold >= 1
       /\ HOLD + 1 <= streak[s] + key[s].hold
       /\ streak[s] + key[s].hold <= HOLD + 2
  /\ key[s].mode = "KM_KEYOFF" =>
       /\ key[s].data = scanned[s]
       /\ current_key[s] = scanned[s]

IInv == TypeInv /\ \A s \in Sensor : Counted(s)

-----------------------------------------------------------------------------
\* A scan leaves the debounce one of its modes, a value and a count in range.
LEMMA KeyMakeType ==
  ASSUME NEW k \in Key, NEW scan \in Value, k.mode = "KM_HOLD" => k.hold >= 1
  PROVE  KeyMake(k, scan) \in Key
<1> USE SensorsAssumption DEF Key
<1>1. CASE k.mode = "KM_READY"
  <2>1. KeyMake(k, scan) = [mode |-> "KM_HOLD", data |-> scan, hold |-> HOLD]
    BY <1>1 DEF KeyMake, KeyOk
  <2> QED
    BY <2>1
<1>2. CASE k.mode # "KM_READY" /\ k.data # scan
  <2>1. KeyMake(k, scan) = [k EXCEPT !.mode = "KM_READY"]
    BY <1>2 DEF KeyMake, KeyOk
  <2> QED
    BY <2>1
<1>3. CASE KeyOk(k, scan)
  <2>1. KeyMake(k, scan) = [k EXCEPT !.mode = "KM_KEYOFF", !.hold = 0]
    BY <1>3 DEF KeyMake, KeyOk
  <2>2. 0 \in 0 .. HOLD
    OBVIOUS
  <2> QED
    BY <2>1, <2>2
<1>4. CASE k.mode = "KM_HOLD" /\ k.data = scan /\ k.hold # 1
  <2>1. KeyMake(k, scan) = [k EXCEPT !.hold = @ - 1]
    BY <1>4 DEF KeyMake, KeyOk
  <2>2. k.hold - 1 \in 0 .. HOLD
    BY <1>4
  <2> QED
    BY <2>1, <2>2
<1>5. CASE k.mode = "KM_KEYOFF" /\ k.data = scan
  BY <1>5 DEF KeyMake, KeyOk
<1> QED
  BY <1>1, <1>2, <1>3, <1>4, <1>5 DEF KeyOk

\* The larger of two temperatures is one of them.
LEMMA LargerType ==
  ASSUME NEW a \in Value, NEW b \in Value
  PROVE  Larger(a, b) \in Value
BY DEF Larger

\* The groups' sensors exist.
LEMMA GroupSensors ==
  {1, SMPS, SMPS + 1, SENSORS} \subseteq Sensor
BY SensorsAssumption DEF Sensor

LEMMA TypeStep ==
  ASSUME IInv, NEW scan \in [Sensor -> Value], Tick(scan)
  PROVE  TypeInv'
<1> USE SensorsAssumption DEF TypeInv, TypeOK
<1>1. key' \in [Sensor -> Key]
  <2>1. \A s \in Sensor : KeyMake(key[s], scan[s]) \in Key
    BY KeyMakeType DEF IInv, Counted
  <2> QED
    BY <2>1 DEF Tick
<1>2. current_key' \in [Sensor -> Value]
  BY DEF Tick, IInv
<1>3. smps_temperature' \in Value /\ amp_temperature' \in Value
  <2>1. HottestSmps(current_key') \in Value /\ HottestAmp(current_key') \in Value
    BY <1>2, LargerType, GroupSensors DEF HottestSmps, HottestAmp
  <2> QED
    BY <2>1 DEF Tick, IInv
<1>4. scanned' \in [Sensor -> Value]
  BY DEF Tick
<1>5. streak' \in [Sensor -> 0 .. MAX_STREAK]
  BY DEF Tick, IInv
<1>6. collided' \in BOOLEAN
  BY Zenon DEF Tick
<1> QED
  BY <1>1, <1>2, <1>3, <1>4, <1>5, <1>6

LEMMA CountedStep ==
  ASSUME IInv, NEW scan \in [Sensor -> Value], Tick(scan), NEW s \in Sensor
  PROVE  /\ Counted(s)'
         /\ current_key'[s] # current_key[s] =>
              streak'[s] >= HOLD + 1 /\ current_key'[s] = scanned'[s]
<1> DEFINE k == key[s]
<1>0. /\ k \in Key /\ Counted(s) /\ scan[s] \in Value
      /\ scanned[s] \in Value /\ current_key[s] \in Value
      /\ streak[s] \in 0 .. MAX_STREAK
  BY DEF IInv, TypeInv, TypeOK
<1>1. /\ key'[s] = KeyMake(k, scan[s])
      /\ current_key'[s] = IF KeyOk(k, scan[s]) THEN scan[s] ELSE current_key[s]
      /\ scanned'[s] = scan[s]
      /\ streak'[s] = IF scan[s] # scanned[s] \/ streak[s] = 0 THEN 1
                      ELSE IF streak[s] < MAX_STREAK THEN streak[s] + 1 ELSE MAX_STREAK
  BY DEF Tick, Accepted
<1> USE SensorsAssumption
<1>2. CASE k.mode = "KM_READY"
  <2>1. /\ key'[s] = [mode |-> "KM_HOLD", data |-> scan[s], hold |-> HOLD]
        /\ current_key'[s] = current_key[s]
    BY <1>1, <1>2 DEF KeyMake, KeyOk
  <2>2. streak'[s] \in {1, 2}
    BY <1>0, <1>1, <1>2 DEF Counted
  <2> QED
    BY <1>1, <2>1, <2>2 DEF Counted
<1>3. CASE k.mode # "KM_READY" /\ k.data # scan[s]
  <2>1. key'[s].mode = "KM_READY" /\ current_key'[s] = current_key[s]
    BY <1>0, <1>1, <1>3 DEF KeyMake, KeyOk, Key
  <2>2. streak'[s] = 1
    BY <1>0, <1>1, <1>3 DEF Counted, Key
  <2> QED
    BY <2>1, <2>2 DEF Counted
<1>4. CASE KeyOk(k, scan[s])
  <2>1. /\ key'[s] = [k EXCEPT !.mode = "KM_KEYOFF", !.hold = 0]
        /\ current_key'[s] = scan[s]
    BY <1>1, <1>4 DEF KeyMake, KeyOk
  <2>2. streak'[s] >= HOLD + 1
    BY <1>0, <1>1, <1>4 DEF Counted, KeyOk, Key
  <2> QED
    BY <1>0, <1>1, <1>4, <2>1, <2>2 DEF Counted, KeyOk, Key
<1>5. CASE k.mode = "KM_HOLD" /\ k.data = scan[s] /\ k.hold # 1
  <2>1. /\ key'[s] = [k EXCEPT !.hold = k.hold - 1]
        /\ current_key'[s] = current_key[s]
    BY <1>1, <1>5 DEF KeyMake, KeyOk
  <2>2. streak'[s] = streak[s] + 1
    BY <1>0, <1>1, <1>5 DEF Counted, Key
  <2> QED
    BY <1>0, <1>1, <1>5, <2>1, <2>2 DEF Counted, Key
<1>6. CASE k.mode = "KM_KEYOFF" /\ k.data = scan[s]
  <2>1. key'[s] = k /\ current_key'[s] = current_key[s]
    BY <1>1, <1>6 DEF KeyMake, KeyOk
  <2> QED
    BY <1>0, <1>1, <1>6, <2>1 DEF Counted
<1> QED
  BY <1>0, <1>2, <1>3, <1>4, <1>5, <1>6 DEF Key, KeyOk

\* Without a publication and without two readings in one tick no reading
\* changes, so that what is published stays the hottest.
LEMMA HottestStep ==
  ASSUME IInv, PublishedIsHottest, NEW scan \in [Sensor -> Value], Tick(scan)
  PROVE  PublishedIsHottest'
<1>1. CASE Publishes(scan)
  BY <1>1 DEF Tick, PublishedIsHottest
<1>2. CASE ~Publishes(scan) /\ ~collided /\ ~Collides(scan)
  <2>1. ASSUME NEW s \in Accepted(scan)
        PROVE  scan[s] = current_key[s]
    <3>1. \A other \in Accepted(scan) : other = s
      BY <1>2 DEF Collides
    <3>2. s \in Nat
      BY SensorsAssumption DEF Accepted, Sensor
    <3> QED
      BY <1>2, <3>1, <3>2 DEF Publishes
  <2>2. current_key' = current_key
    BY <2>1 DEF Tick, IInv, TypeInv, TypeOK
  <2> QED
    BY <1>2, <2>2 DEF Tick, PublishedIsHottest
<1>3. CASE ~Publishes(scan) /\ (collided \/ Collides(scan))
  BY <1>3 DEF Tick, PublishedIsHottest
<1> QED
  BY <1>1, <1>2, <1>3

-----------------------------------------------------------------------------
LEMMA InitIInv == Init => IInv
<1> SUFFICES ASSUME Init PROVE IInv
  OBVIOUS
<1> USE SensorsAssumption
<1>1. key \in [Sensor -> Key]
  BY DEF Init, Key
<1>2. /\ current_key \in [Sensor -> Value] /\ scanned \in [Sensor -> Value]
      /\ streak \in [Sensor -> 0 .. MAX_STREAK]
      /\ smps_temperature \in Value /\ amp_temperature \in Value
  BY DEF Init
<1>3. collided \in BOOLEAN
  BY DEF Init
<1>4. ASSUME NEW s \in Sensor PROVE Counted(s)
  BY DEF Init, Counted
<1> QED
  BY <1>1, <1>2, <1>3, <1>4 DEF IInv, TypeInv, TypeOK

LEMMA InductiveInvariant == Spec => []IInv
<1>1. IInv /\ [Next]_vars => IInv'
  <2> SUFFICES ASSUME IInv, [Next]_vars PROVE IInv'
    OBVIOUS
  <2>1. CASE Next
    BY <2>1, TypeStep, CountedStep DEF Next, IInv
  <2>2. CASE UNCHANGED vars
    BY <2>2 DEF vars, IInv, TypeInv, TypeOK, Counted
  <2> QED
    BY <2>1, <2>2
<1> QED
  BY InitIInv, <1>1, PTL DEF Spec

\* Type correctness: the debounce counters never leave their range
\* (adc_KeyMake's KeyHoldTime is an unsigned char).
THEOREM TypeCorrect == Spec => []TypeOK
<1>1. IInv => TypeOK
  BY DEF IInv, TypeInv
<1> QED
  BY <1>1, InductiveInvariant, PTL

\* A temperature that stays is taken over by its HOLD + 2nd scan at the latest
\* (adc_KeyMake, temperature_read).
THEOREM ScansAreFollowed == Spec => []FollowsTheScans
<1>1. IInv => FollowsTheScans
  BY SensorsAssumption DEF IInv, TypeInv, TypeOK, Counted, Key, FollowsTheScans
<1> QED
  BY <1>1, InductiveInvariant, PTL

\* Only a reading that HOLD + 1 scans in a row gave is taken over.
THEOREM ReadingsAreDebounced == Spec => Debounced
<1>1. IInv /\ [Next]_vars =>
        [\A s \in Sensor : current_key'[s] # current_key[s] =>
           /\ streak'[s] >= HOLD + 1
           /\ current_key'[s] = scanned'[s]]_vars
  BY CountedStep DEF Next
<1> QED
  BY <1>1, InductiveInvariant, PTL DEF Spec, Debounced

\* What is published is the hottest reading of each group, unless two readings
\* were accepted in one tick since the last publication.
THEOREM HottestIsPublished == Spec => []PublishedIsHottest
<1>1. Init => PublishedIsHottest
  BY SensorsAssumption, GroupSensors
     DEF Init, PublishedIsHottest, HottestSmps, HottestAmp, Larger
<1>2. IInv /\ PublishedIsHottest /\ [Next]_vars => PublishedIsHottest'
  <2> SUFFICES ASSUME IInv, PublishedIsHottest, [Next]_vars
               PROVE  PublishedIsHottest'
    OBVIOUS
  <2>1. CASE Next
    BY <2>1, HottestStep DEF Next
  <2>2. CASE UNCHANGED vars
    BY <2>2 DEF vars, PublishedIsHottest
  <2> QED
    BY <2>1, <2>2
<1> QED
  BY <1>1, <1>2, InductiveInvariant, PTL DEF Spec
=============================================================================
