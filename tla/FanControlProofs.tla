-------------------------- MODULE FanControlProofs ---------------------------
(***************************************************************************)
(* Theorems about FanControl, for all thresholds, temperatures and periods.*)
(* The inductive invariant adds up how long a demand has lasted and how    *)
(* many ticks are left to the next decision, the wrap-around of the timer  *)
(* included.                                                               *)
(***************************************************************************)
EXTENDS FanControl, TLAPS

TypeInv == TypeOK

\* Ticks to the next decision: a timer of 0 wraps around first.
Left == IF check_timer = 0 THEN U8 ELSE check_timer

BothOn  == fan_hs_status = FAN_ON /\ fan_ls_status = FAN_ON
BothOff == fan_hs_status = FAN_OFF /\ fan_ls_status = FAN_OFF

\* A demand not met yet has not lasted longer than since the last decision.
Demand ==
  /\ ~BothOn => hot + Left <= U8
  /\ ~BothOff => cold + Left <= U8

\* The high speed was switched on above a threshold.
Earned ==
  steady /\ fan_hs_status = FAN_ON =>
    /\ Hysteretic(limit)
    /\ \/ started.amp > limit["fan_hs_on_amp_temp"]
       \/ started.smps >= limit["fan_on_smps_temp"]

IInv == TypeInv /\ HighNeedsLow /\ Demand /\ Earned

-----------------------------------------------------------------------------
\* One tick more of a demand, one tick less to the decision.
LEMMA RunSum ==
  ASSUME NEW bound \in Nat, NEW run \in Nat, NEW run2 \in Nat,
         NEW left \in Nat, NEW left2 \in Nat,
         run + left <= bound, run2 <= run + 1, left2 = left - 1
  PROVE  run2 + left2 <= bound
  OBVIOUS

LEMMA ZeroSum == \A left, bound \in Nat : left <= bound => 0 + left <= bound
  OBVIOUS

LEMMA ModeType ==
  /\ SmpsMode \in 0 .. 4 /\ AmpMode \in 0 .. 4
  /\ RunningMode \in 0 .. 4
  /\ RunningMode >= SmpsMode /\ RunningMode >= AmpMode
  /\ RunningMode \in {SmpsMode, AmpMode}
<1>1. SmpsMode \in 0 .. 4
  BY DEF SmpsMode, FAN_HS_LS_OFF, FAN_HS_STAY, FAN_LS_HS_ON
<1>2. AmpMode \in 0 .. 4
  BY DEF AmpMode, FAN_HS_LS_OFF, FAN_LS_STAY, FAN_LS_ON, FAN_HS_STAY, FAN_LS_HS_ON
<1> QED
  BY <1>1, <1>2 DEF RunningMode

\* The decision's mode in the cases the properties speak of.
LEMMA HotMode ==
  ASSUME TypeOK, FanAssumption, Hot
  PROVE  RunningMode = FAN_LS_HS_ON
<1>0. /\ smps_temperature \in Nat /\ amp_temperature \in Nat
      /\ \A t \in Threshold : limit[t] \in Nat
  BY DEF TypeOK, FanAssumption
<1>1. SmpsMode = 4 \/ AmpMode = 4
  <2>1. CASE smps_temperature >= limit["fan_on_smps_temp"]
    BY <1>0, <2>1 DEF SmpsMode, FAN_LS_HS_ON, Threshold
  <2>2. CASE amp_temperature > limit["fan_hs_on_amp_temp"]
    BY <1>0, <2>2 DEF AmpMode, FAN_LS_HS_ON, Threshold
  <2> QED
    BY <2>1, <2>2 DEF Hot
<1> QED
  BY <1>1, ModeType DEF FAN_LS_HS_ON

LEMMA OnlyHotMode == ASSUME TypeOK, RunningMode = FAN_LS_HS_ON PROVE Hot
<1>1. SmpsMode = 4 \/ AmpMode = 4
  BY ModeType DEF FAN_LS_HS_ON
<1>2. CASE SmpsMode = 4
  BY <1>2 DEF SmpsMode, Hot, FAN_HS_LS_OFF, FAN_HS_STAY
<1>3. CASE AmpMode = 4
  BY <1>3 DEF AmpMode, Hot, FAN_HS_LS_OFF, FAN_LS_STAY, FAN_LS_ON, FAN_HS_STAY
<1> QED
  BY <1>1, <1>2, <1>3

LEMMA ColdMode ==
  ASSUME TypeOK, FanAssumption, Cold
  PROVE  RunningMode = FAN_HS_LS_OFF
<1>1. /\ smps_temperature \in Nat /\ amp_temperature \in Nat
      /\ \A t \in Threshold : limit[t] \in Nat
  BY DEF TypeOK, FanAssumption
<1>2. /\ smps_temperature < limit["fan_on_smps_temp"]
      /\ smps_temperature < limit["fan_off_smps_temp"]
      /\ amp_temperature <= limit["fan_hs_on_amp_temp"]
      /\ amp_temperature <= limit["fan_hs_off_amp_temp"]
      /\ amp_temperature <= limit["fan_ls_on_amp_temp"]
      /\ amp_temperature <= limit["fan_ls_off_amp_temp"]
  BY DEF Cold, Threshold
<1>3. SmpsMode = 0
  BY <1>1, <1>2 DEF SmpsMode, FAN_HS_LS_OFF, Threshold
<1>4. AmpMode = 0
  BY <1>1, <1>2 DEF AmpMode, FAN_HS_LS_OFF, Threshold
<1> QED
  BY <1>3, <1>4, ModeType DEF FAN_HS_LS_OFF

\* A mode that switches the high speed off: both temperatures are below the
\* thresholds that would keep it.
LEMMA LowMode ==
  ASSUME TypeOK, FanAssumption, Hysteretic(limit),
         RunningMode \notin {FAN_HS_STAY, FAN_LS_HS_ON}
  PROVE  /\ smps_temperature < limit["fan_off_smps_temp"]
         /\ amp_temperature <= limit["fan_hs_off_amp_temp"]
<1>1. /\ smps_temperature \in Nat /\ amp_temperature \in Nat
      /\ \A t \in Threshold : limit[t] \in Nat
  BY DEF TypeOK, FanAssumption
<1>2. SmpsMode \notin {3, 4} /\ AmpMode \notin {3, 4}
  BY ModeType DEF FAN_HS_STAY, FAN_LS_HS_ON
<1>3. smps_temperature < limit["fan_off_smps_temp"]
  BY <1>1, <1>2 DEF SmpsMode, FAN_HS_STAY, FAN_LS_HS_ON, Threshold, Hysteretic
<1>4. amp_temperature <= limit["fan_hs_off_amp_temp"]
  BY <1>1, <1>2 DEF AmpMode, FAN_HS_STAY, FAN_LS_HS_ON, Threshold, Hysteretic
<1> QED
  BY <1>3, <1>4

\* What a tick does, in the terms of the invariant.
LEMMA TickTimer ==
  ASSUME IInv, FanTimerCheck
  PROVE  /\ check_timer' \in 0 .. U8 - 1
         /\ hot' \in 0 .. MAX_RUN /\ cold' \in 0 .. MAX_RUN
         /\ hot' <= hot + 1 /\ cold' <= cold + 1
         /\ ~Hot => hot' = 0
         /\ ~Cold => cold' = 0
         /\ Left' <= U8
         /\ Decrement(check_timer) # 0 => Left' = Left - 1
<1> USE FanAssumption DEF IInv, TypeInv, TypeOK
<1>1. check_timer' \in 0 .. U8 - 1
  BY DEF FanTimerCheck, Decrement
<1>2. /\ hot' \in 0 .. MAX_RUN /\ hot' <= hot + 1
      /\ ~Hot => hot' = 0
  BY DEF FanTimerCheck, Observe, Count, MAX_RUN
<1>3. /\ cold' \in 0 .. MAX_RUN /\ cold' <= cold + 1
      /\ ~Cold => cold' = 0
  BY DEF FanTimerCheck, Observe, Count, MAX_RUN
<1>4. Left' <= U8
  BY <1>1 DEF Left
<1>5. Decrement(check_timer) # 0 => Left' = Left - 1
  BY DEF FanTimerCheck, Decrement, Left
<1> QED
  BY <1>1, <1>2, <1>3, <1>4, <1>5

LEMMA TickStep ==
  ASSUME IInv, NEW smps \in Temp, NEW amp \in Temp, Tick(smps, amp)
  PROVE  IInv'
<1> USE FanAssumption
<1>0. /\ TypeOK /\ FanTimerCheck /\ Observe
      /\ limit' = limit
      /\ smps_temperature' \in Temp /\ amp_temperature' \in Temp
  BY DEF IInv, TypeInv, Tick, FanTimerCheck
<1>1. TypeInv'
  <2>1. fan_hs_status' \in FanStatus /\ fan_ls_status' \in FanStatus
    BY <1>0 DEF FanTimerCheck, HighSpeed, LowSpeed, FanStatus, TypeOK
  <2>2. started' \in [smps : Temp, amp : Temp] /\ steady' \in BOOLEAN
    <3>1. Hysteretic(limit) \in BOOLEAN
      BY DEF Hysteretic
    <3>2. CASE fan_hs_status = FAN_OFF /\ fan_hs_status' = FAN_ON
      <4>1. started' \in [smps : Temp, amp : Temp]
        BY <1>0, <3>2 DEF Observe, TypeOK
      <4>2. steady' = Hysteretic(limit)
        BY <1>0, <3>2, Zenon DEF Observe
      <4> QED
        BY <4>1, <4>2, <3>1, Zenon
    <3>3. CASE ~(fan_hs_status = FAN_OFF /\ fan_hs_status' = FAN_ON)
      BY <1>0, <3>3, Zenon DEF Observe, TypeOK
    <3> QED
      BY <3>2, <3>3
  <2> QED
    BY <1>0, <2>1, <2>2, TickTimer DEF TypeInv, TypeOK
<1>2. CASE Decrement(check_timer) # 0
  <2>1. fan_hs_status' = fan_hs_status /\ fan_ls_status' = fan_ls_status
    BY <1>0, <1>2 DEF FanTimerCheck
  <2>2. HighNeedsLow'
    BY <2>1 DEF IInv, HighNeedsLow
  <2>3. Demand'
    <3>1. /\ hot \in Nat /\ cold \in Nat /\ hot' \in Nat /\ cold' \in Nat
          /\ Left \in Nat /\ Left' \in Nat
      BY <1>0, TickTimer DEF TypeOK, MAX_RUN, Left
    <3>2. (BothOn' <=> BothOn) /\ (BothOff' <=> BothOff)
      BY <2>1 DEF BothOn, BothOff
    <3>3. hot' <= hot + 1 /\ cold' <= cold + 1 /\ Left' = Left - 1
      BY <1>0, <1>2, TickTimer
    <3>4. U8 \in Nat
      BY DEF FanAssumption
    <3>5. ~BothOn' => hot' + Left' <= U8
      <4> SUFFICES ASSUME ~BothOn' PROVE hot' + Left' <= U8
        OBVIOUS
      <4>1. hot + Left <= U8
        BY <3>2 DEF IInv, Demand
      <4>2. hot' <= hot + 1 /\ Left' = Left - 1
        BY <3>3, Zenon
      <4>3. hot \in Nat /\ Left \in Nat /\ hot' \in Nat /\ Left' \in Nat /\ U8 \in Nat
        BY <3>1, <3>4, Zenon
      <4> QED
        BY <4>1, <4>2, <4>3, RunSum, Zenon
    <3>6. ~BothOff' => cold' + Left' <= U8
      <4> SUFFICES ASSUME ~BothOff' PROVE cold' + Left' <= U8
        OBVIOUS
      <4>1. cold + Left <= U8
        BY <3>2 DEF IInv, Demand
      <4>2. cold' <= cold + 1 /\ Left' = Left - 1
        BY <3>3, Zenon
      <4>3. cold \in Nat /\ Left \in Nat /\ cold' \in Nat /\ Left' \in Nat /\ U8 \in Nat
        BY <3>1, <3>4, Zenon
      <4> QED
        BY <4>1, <4>2, <4>3, RunSum, Zenon
    <3> QED
      BY <3>5, <3>6 DEF Demand
  <2>4. started' = started /\ (steady' <=> steady)
    BY <1>0, <2>1 DEF Observe, FAN_ON, FAN_OFF
  <2>5. Earned'
    BY <1>0, <2>1, <2>4 DEF IInv, Earned, Hysteretic
  <2> QED
    BY <1>1, <2>2, <2>3, <2>5 DEF IInv
<1>3. CASE Decrement(check_timer) = 0
  <2>1. /\ check_timer' = PERIOD
        /\ fan_hs_status' = HighSpeed(RunningMode)
        /\ fan_ls_status' = LowSpeed(RunningMode)
    BY <1>0, <1>3 DEF FanTimerCheck
  <2> USE DEF FAN_ON, FAN_OFF, FAN_HS_LS_OFF, FAN_LS_STAY, FAN_LS_ON, FAN_HS_STAY,
              FAN_LS_HS_ON
  <2>2. HighNeedsLow'
    BY <1>0, <2>1, ModeType DEF HighSpeed, LowSpeed, HighNeedsLow, TypeOK, FanStatus
  <2>3. Hot => BothOn'
    BY <1>0, <2>1, HotMode DEF HighSpeed, LowSpeed, BothOn
  <2>4. Cold => BothOff'
    BY <1>0, <2>1, ColdMode DEF HighSpeed, LowSpeed, BothOff
  <2>5. Left' = PERIOD
    BY <2>1 DEF Left
  <2>6. Demand'
    <3>1. ~BothOn' => hot' + Left' <= U8
      BY <1>0, <2>3, <2>5, TickTimer
    <3>2. ~BothOff' => cold' + Left' <= U8
      BY <1>0, <2>4, <2>5, TickTimer
    <3> QED
      BY <3>1, <3>2 DEF Demand
  <2>7. Earned'
    <3>1. CASE fan_hs_status = FAN_OFF /\ fan_hs_status' = FAN_ON
      <4>1. RunningMode = FAN_LS_HS_ON
        BY <2>1, <3>1 DEF HighSpeed
      <4>2. Hot
        BY <1>0, <4>1, OnlyHotMode
      <4>3. /\ started'.smps = smps_temperature /\ started'.amp = amp_temperature
            /\ steady' => Hysteretic(limit)
        BY <1>0, <3>1 DEF Observe
      <4> QED
        BY <1>0, <4>2, <4>3 DEF Earned, Hot, Hysteretic, TypeOK
    <3>2. CASE fan_hs_status = FAN_ON \/ fan_hs_status' = FAN_OFF
      <4>1. started' = started /\ (steady' <=> steady)
        BY <1>0, <3>2 DEF Observe
      <4> QED
        BY <1>0, <3>2, <4>1 DEF IInv, Earned, Hysteretic
    <3> QED
      BY <1>0, <1>1, <3>1, <3>2 DEF TypeInv, TypeOK, FanStatus
  <2> QED
    BY <1>1, <2>2, <2>6, <2>7 DEF IInv
<1> QED
  BY <1>2, <1>3

\* The steps of the commands: the demands are counted anew.
LEMMA CommandStep ==
  ASSUME IInv, UNCHANGED <<check_timer, temps, started>>,
         hot' = 0, cold' = 0, steady' = FALSE,
         limit' \in [Threshold -> Nat],
         \/ UNCHANGED <<fan_hs_status, fan_ls_status>>
         \/ fan_hs_status' = FAN_OFF /\ fan_ls_status' = FAN_OFF
  PROVE  IInv'
<1> USE FanAssumption DEF IInv, TypeInv
<1>1. TypeInv'
  <2>1. fan_hs_status' \in FanStatus /\ fan_ls_status' \in FanStatus
    BY DEF TypeOK, FanStatus
  <2>2. check_timer' \in 0 .. U8 - 1
    BY DEF TypeOK
  <2>3. /\ smps_temperature' \in Temp /\ amp_temperature' \in Temp
        /\ started' \in [smps : Temp, amp : Temp]
    BY DEF TypeOK, temps
  <2>4. hot' \in 0 .. MAX_RUN /\ cold' \in 0 .. MAX_RUN
    BY DEF MAX_RUN
  <2>5. steady' \in BOOLEAN
    BY Zenon
  <2> QED
    BY <2>1, <2>2, <2>3, <2>4, <2>5 DEF TypeOK
<1>2. HighNeedsLow'
  BY DEF HighNeedsLow, FAN_ON, FAN_OFF
<1>3. Left' <= U8 /\ Left' \in Nat /\ U8 \in Nat
  BY DEF Left, TypeOK
<1>4. Demand'
  <2>1. 0 + Left' <= U8
    BY <1>3, ZeroSum, Zenon
  <2>2. hot' + Left' <= U8 /\ cold' + Left' <= U8
    BY <2>1, Zenon
  <2> QED
    BY <2>2 DEF Demand
<1>5. Earned'
  BY DEF Earned
<1> QED
  BY <1>1, <1>2, <1>4, <1>5

LEMMA SetThresholdStep ==
  ASSUME IInv, NEW threshold \in Settable, NEW value \in NewLimit,
         SetThreshold(threshold, value)
  PROVE  IInv'
<1>1. limit' \in [Threshold -> Nat]
  BY FanAssumption DEF SetThreshold, IInv, TypeInv, TypeOK
<1> QED
  BY <1>1, CommandStep DEF SetThreshold, fan

LEMMA ModePowerOnStep ==
  ASSUME IInv, ModePowerOn
  PROVE  IInv'
<1>1. limit' \in [Threshold -> Nat]
  BY DEF ModePowerOn, IInv, TypeInv, TypeOK
<1> QED
  BY <1>1, CommandStep DEF ModePowerOn

-----------------------------------------------------------------------------
LEMMA InitIInv == Init => IInv
<1> SUFFICES ASSUME Init PROVE IInv
  OBVIOUS
<1> USE FanAssumption DEF Init
<1>1. TypeInv
  <2>1. check_timer \in 0 .. U8 - 1
    OBVIOUS
  <2>2. hot \in 0 .. MAX_RUN /\ cold \in 0 .. MAX_RUN
    BY DEF MAX_RUN
  <2>3. limit \in [Threshold -> Nat]
    OBVIOUS
  <2>4. steady \in BOOLEAN
    BY Zenon
  <2>5. started \in [smps : Temp, amp : Temp]
    OBVIOUS
  <2> QED
    BY <2>1, <2>2, <2>3, <2>4, <2>5 DEF TypeInv, TypeOK, FanStatus
<1>2. HighNeedsLow /\ Earned
  BY DEF HighNeedsLow, Earned, FAN_ON, FAN_OFF
<1>3. Demand
  BY DEF Demand, Left
<1> QED
  BY <1>1, <1>2, <1>3 DEF IInv

LEMMA InductiveInvariant == Spec => []IInv
<1>1. IInv /\ [Next]_vars => IInv'
  <2> SUFFICES ASSUME IInv, [Next]_vars PROVE IInv'
    OBVIOUS
  <2>1. CASE Next
    BY <2>1, TickStep, SetThresholdStep, ModePowerOnStep DEF Next
  <2>2. CASE UNCHANGED vars
    BY <2>2 DEF vars, fan, temps, hist, IInv, TypeInv, TypeOK, HighNeedsLow, Demand,
                BothOn, BothOff, Left, Earned, Hysteretic
  <2> QED
    BY <2>1, <2>2
<1> QED
  BY InitIInv, <1>1, PTL DEF Spec

\* Type correctness: the timer's wrap-around keeps it an unsigned char.
THEOREM TypeCorrect == Spec => []TypeOK
<1>1. IInv => TypeOK
  BY DEF IInv, TypeInv
<1> QED
  BY <1>1, InductiveInvariant, PTL

\* The high speed never runs without the low one (fan_timer_check's switch).
THEOREM HighRunsWithLow == Spec => []HighNeedsLow
<1>1. IInv => HighNeedsLow
  BY DEF IInv
<1> QED
  BY <1>1, InductiveInvariant, PTL

\* The fan follows a demand that lasts U8 ticks, whatever the period, the first
\* decision after boot included (fan_timer_check's check_timer).
THEOREM DemandIsFollowed == Spec => []FollowsDemand
<1>1. IInv => FollowsDemand
  <2> SUFFICES ASSUME IInv PROVE FollowsDemand
    OBVIOUS
  <2> USE FanAssumption
  <2>1. Left \in Nat \ {0} /\ hot \in Nat /\ cold \in Nat /\ U8 \in Nat
    BY DEF IInv, TypeInv, TypeOK, Left, MAX_RUN
  <2> QED
    BY <2>1 DEF IInv, Demand, BothOn, BothOff, FollowsDemand
<1> QED
  BY <1>1, InductiveInvariant, PTL

\* With hysteretic thresholds left alone the high speed is switched off only
\* after a temperature has fallen by more than its hysteresis
\* (get_fan_running_mode, fan_timer_check).
THEOREM FanDoesNotChatter == Spec => NoChatter
<1> DEFINE Fallen ==
      \/ amp_temperature + (limit["fan_hs_on_amp_temp"] - limit["fan_hs_off_amp_temp"])
           < started.amp
      \/ smps_temperature + (limit["fan_on_smps_temp"] - limit["fan_off_smps_temp"])
           < started.smps
<1>1. IInv /\ [Next]_vars =>
        [steady /\ steady' /\ fan_hs_status = FAN_ON /\ fan_hs_status' = FAN_OFF
           => Fallen]_vars
  <2> SUFFICES ASSUME IInv, Next, steady, steady',
                      fan_hs_status = FAN_ON, fan_hs_status' = FAN_OFF
               PROVE  Fallen
    OBVIOUS
  <2> USE FanAssumption
  <2>1. FanTimerCheck
    BY DEF Next, Tick, SetThreshold, ModePowerOn
  <2>2. RunningMode \notin {FAN_HS_STAY, FAN_LS_HS_ON}
    BY <2>1, ModeType
       DEF FanTimerCheck, HighSpeed, FAN_ON, FAN_OFF, FAN_HS_STAY, FAN_LS_HS_ON
  <2>3. /\ Hysteretic(limit)
        /\ \/ started.amp > limit["fan_hs_on_amp_temp"]
           \/ started.smps >= limit["fan_on_smps_temp"]
    BY DEF IInv, Earned
  <2>4. /\ smps_temperature < limit["fan_off_smps_temp"]
        /\ amp_temperature <= limit["fan_hs_off_amp_temp"]
    BY <2>2, <2>3, LowMode DEF IInv, TypeInv
  <2>5. /\ smps_temperature \in Nat /\ amp_temperature \in Nat
        /\ started.smps \in Nat /\ started.amp \in Nat
        /\ \A t \in Threshold : limit[t] \in Nat
    BY DEF IInv, TypeInv, TypeOK
  <2> QED
    BY <2>3, <2>4, <2>5 DEF Threshold
<1> QED
  BY <1>1, InductiveInvariant, PTL DEF Spec, NoChatter
=============================================================================
