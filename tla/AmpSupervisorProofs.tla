------------------------ MODULE AmpSupervisorProofs ------------------------
(***************************************************************************)
(* Proofs about AmpSupervisor, for any channels, temperatures, limits and  *)
(* debounce times that satisfy ConstantsAssumption.                        *)
(***************************************************************************)
EXTENDS AmpSupervisor, TLAPS

(***************************************************************************)
(* ++ on an unsigned char stays an unsigned char, and counts by one while  *)
(* it is no larger than a debounce time (Increment, the ++ of              *)
(* mode_amp_protection_check and signal_sense_check_on).                   *)
(***************************************************************************)
LEMMA IncrementType ==
  ASSUME NEW n \in 0 .. U8 - 1
  PROVE  /\ Increment(n) \in 0 .. U8 - 1
         /\ n <= AMP_CHECK_TIME => Increment(n) = n + 1
<1>1. U8 \in Nat /\ AMP_CHECK_TIME \in Nat /\ AMP_CHECK_TIME + 1 < U8
  BY ConstantsAssumption
<1>2. (n + 1) % U8 \in 0 .. U8 - 1
  BY <1>1, SMT
<1>3. ASSUME n <= AMP_CHECK_TIME PROVE (n + 1) % U8 = n + 1
  BY <1>1, <1>3, SMT
<1> QED
  BY <1>2, <1>3 DEF Increment

(***************************************************************************)
(* The bounded count of ticks without a signal keeps its type.             *)
(***************************************************************************)
LEMMA CountNoSignalType ==
  ASSUME NEW n \in 0 .. TIMER_SIGNAL_OFF_TIME + 1
  PROVE  CountNoSignal(n) \in 0 .. TIMER_SIGNAL_OFF_TIME + 1
BY ConstantsAssumption DEF CountNoSignal

(***************************************************************************)
(* The inductive invariant.  TypeOK needs to know that a starting unit has *)
(* time left; the safety properties need how run relates to check_timer    *)
(* and that a starting unit is protected.                                  *)
(***************************************************************************)

Starting ==
  pwr_status = "MAIN_POWER_INITIAL" =>
    protect_status = On /\ task_initialize_time > 0

\* The samples asking for a change in vain are samples check_timer has counted,
\* but for one: the one on which it wrapped around.
RunCounted ==
  run > 0 => check_timer <= AMP_CHECK_TIME /\ run <= check_timer + 1

TypeInv == TypeOK /\ Starting

IInv ==
  /\ TypeInv
  /\ RunCounted
  /\ Interlock
  /\ SleepsForLackOfSignal
  /\ HotIsProtected

(***************************************************************************)
(* The three handlers of the tick, and mode_power_on and mode_power_off,   *)
(* keep the type of what they write.                                       *)
(***************************************************************************)
LEMMA AmpProtectionCheckType ==
  ASSUME TypeInv, NEW n_ready \in {0, 1}, NEW n_err \in {0, 1},
         AmpProtectionCheck(n_ready, n_err)
  PROVE  TypeInv'
<1> DEFINE fault == n_ready = 1 \/ n_err = 0
<1> USE DEF TypeInv, TypeOK, OnOff, On, Off
<1>1. pwr_status = "MAIN_POWER_ON"
  BY DEF AmpProtectionCheck
<1>2. UNCHANGED <<power, sense, temps, limits, audio>> /\ step' = "sense"
  BY DEF AmpProtectionCheck
<1>3. Increment(check_timer) \in 0 .. U8 - 1 /\ 0 \in 0 .. U8 - 1
  BY IncrementType, ConstantsAssumption
<1>4. CASE UNCHANGED <<guard, amp_power_status>>
  BY <1>1, <1>2, <1>4 DEF guard, power, sense, temps, limits, audio, Starting
<1>5. CASE CheckWhileReleased(fault) /\ UNCHANGED protect_func_on
  <2>1. /\ check_timer' \in 0 .. U8 - 1 /\ run' \in Nat
        /\ released' \in BOOLEAN /\ protect_func_on' \in OnOff
    BY <1>3, <1>5 DEF CheckWhileReleased
  <2>2. protect_status' \in OnOff /\ amp_power_status' \in OnOff
    BY <1>5 DEF CheckWhileReleased, AmpProtectionOn
  <2> QED
    BY <1>1, <1>2, <2>1, <2>2 DEF power, sense, temps, limits, audio, Starting
<1>6. CASE CheckWhileEngaged(fault) /\ UNCHANGED protect_func_on
  <2>1. /\ check_timer' \in 0 .. U8 - 1 /\ run' \in Nat
        /\ protect_func_on' \in OnOff
    BY <1>3, <1>6 DEF CheckWhileEngaged
  <2>2. protect_status' \in OnOff /\ amp_power_status' \in OnOff
    BY <1>6 DEF CheckWhileEngaged, AmpProtectionOff
  <2>3. released' \in BOOLEAN
    BY <1>6, Zenon DEF CheckWhileEngaged
  <2> QED
    BY <1>1, <1>2, <2>1, <2>2, <2>3 DEF power, sense, temps, limits, audio, Starting
<1> QED
  BY <1>4, <1>5, <1>6 DEF AmpProtectionCheck

LEMMA SignalSenseCheckType ==
  ASSUME TypeInv, NEW nSW \in {0, 1}, NEW signal \in BOOLEAN,
         SignalSenseCheck(nSW, signal)
  PROVE  TypeInv'
<1> USE DEF TypeInv, TypeOK, OnOff, On, Off
<1>1. UNCHANGED <<power, guard, temps, limits, amp_channel_on>> /\ step' = "temp"
  BY DEF SignalSenseCheck
<1>2. /\ Increment(noise_counter) \in 0 .. U8 - 1 /\ 0 \in 0 .. U8 - 1
      /\ CountNoSignal(no_signal_counter) \in 0 .. TIMER_SIGNAL_OFF_TIME + 1
      /\ 0 \in 0 .. TIMER_SIGNAL_OFF_TIME + 1
  BY IncrementType, CountNoSignalType, ConstantsAssumption
<1>3. /\ noise_counter' \in 0 .. U8 - 1
      /\ no_signal_counter' \in 0 .. TIMER_SIGNAL_OFF_TIME + 1
  BY <1>2 DEF SignalSenseCheck, SignalSenseCheckOff, SignalSenseCheckOn
<1>4. mute_status' \in [Channel -> OnOff] /\ amp_power_status' \in OnOff
  BY DEF SignalSenseCheck, SignalSenseCheckOff, SignalSenseCheckOn
<1> QED
  BY <1>1, <1>3, <1>4 DEF power, guard, temps, limits, Starting

LEMMA ModePowerOnType ==
  ASSUME TypeInv, pwr_status = "MAIN_POWER_OFF", ModePowerOn
  PROVE  /\ power_mode' \in PowerOption /\ pwr_status' \in MAIN_POWER
         /\ task_initialize_time' \in 0 .. INITIALIZE_TIME
         /\ amp_power_status' \in OnOff /\ protect_status' \in OnOff
         /\ protect_func_on' \in OnOff /\ check_timer' \in 0 .. U8 - 1
         /\ released' \in BOOLEAN /\ run' \in Nat
         /\ Starting'
<1>1. 0 \in 0 .. U8 - 1 /\ INITIALIZE_TIME \in 0 .. INITIALIZE_TIME /\ INITIALIZE_TIME > 0
  BY ConstantsAssumption
<1>2. pwr_status' \in MAIN_POWER
  BY DEF MAIN_POWER, ModePowerOn, StatusAfterPowerOn
<1> QED
  BY <1>1, <1>2 DEF TypeInv, TypeOK, OnOff, ModePowerOn, Starting

LEMMA ModePowerOffType ==
  ASSUME TypeInv, ModePowerOff
  PROVE  /\ power_mode' \in PowerOption /\ pwr_status' \in MAIN_POWER
         /\ task_initialize_time' \in 0 .. INITIALIZE_TIME
         /\ amp_power_status' \in OnOff /\ protect_status' \in OnOff
         /\ protect_func_on' \in OnOff /\ check_timer' \in 0 .. U8 - 1
         /\ released' \in BOOLEAN /\ run' \in Nat
         /\ Starting'
BY DEF TypeInv, TypeOK, OnOff, On, Off, MAIN_POWER, ModePowerOff, guard, Starting

(***************************************************************************)
(* TypeInv is inductive.                                                   *)
(***************************************************************************)
LEMMA TypeInit == Init => TypeInv
<1> SUFFICES ASSUME Init PROVE TypeInv
  OBVIOUS
<1>1. /\ 0 \in 0 .. U8 - 1 /\ 0 \in 0 .. TIMER_SIGNAL_OFF_TIME + 1
      /\ INITIALIZE_TIME \in 0 .. INITIALIZE_TIME /\ INITIALIZE_TIME > 0
      /\ 0 \in Temp /\ ShutdownTemp \subseteq Nat
  BY ConstantsAssumption
<1>2. pwr_status \in MAIN_POWER
  BY DEF Init, MAIN_POWER, StatusAfterPowerOn
<1> QED
  BY <1>1, <1>2 DEF Init, TypeInv, TypeOK, OnOff, Starting

LEMMA TypeStep == TypeInv /\ [Next]_vars => TypeInv'
<1> SUFFICES ASSUME TypeInv, [Next]_vars PROVE TypeInv'
  OBVIOUS
<1> USE DEF TypeInv, TypeOK
<1>1. CASE CheckTimer20ms
  <2>1. task_initialize_time > 0 /\ protect_status' = On
    BY <1>1 DEF CheckTimer20ms, Starting, guard
  <2>2. task_initialize_time' \in 0 .. INITIALIZE_TIME
    BY <1>1, <2>1, ConstantsAssumption DEF CheckTimer20ms
  <2>3. /\ mute_status' \in [Channel -> OnOff] /\ pwr_status' \in MAIN_POWER
        /\ task_initialize_time' = 0 => pwr_status' = "MAIN_POWER_ON"
    BY <1>1 DEF CheckTimer20ms, ModeStatusInitial, MAIN_POWER, OnOff
  <2> QED
    BY <1>1, <2>1, <2>2, <2>3
       DEF CheckTimer20ms, guard, sense, temps, limits, Starting
<1>2. CASE Tick
  <2>1. ASSUME NEW n_ready \in {0, 1}, NEW n_err \in {0, 1},
               AmpProtectionCheck(n_ready, n_err)
        PROVE  TypeInv'
    BY <2>1, AmpProtectionCheckType
  <2>2. ASSUME NEW nSW \in {0, 1}, NEW signal \in BOOLEAN, SignalSenseCheck(nSW, signal)
        PROVE  TypeInv'
    BY <2>2, SignalSenseCheckType
  <2>3. ASSUME NEW amp \in Temp, NEW smps \in Temp, TemperatureRead(amp, smps)
        PROVE  TypeInv'
    BY <2>3 DEF TemperatureRead, power, guard, sense, limits, audio, Starting
  <2> QED
    BY <1>2, <2>1, <2>2, <2>3 DEF Tick
<1>3. CASE ExecModePowerToggle
  <2>1. CASE ExecModePowerOn
    BY <2>1, ModePowerOnType
       DEF ExecModePowerOn, sense, temps, limits, audio
  <2>2. CASE ExecModePowerOff
    BY <2>2, ModePowerOffType
       DEF ExecModePowerOff, sense, temps, limits, audio
  <2> QED
    BY <1>3, <2>1, <2>2 DEF ExecModePowerToggle
<1>4. ASSUME NEW func \in OnOff, ExecAmpProtection(func)
      PROVE  TypeInv'
  BY <1>4 DEF ExecAmpProtection, power, sense, temps, limits, audio, Starting
<1>5. ASSUME NEW limit \in CommandTemp, SetShutdownTemp(limit)
      PROVE  TypeInv'
  BY <1>5, ConstantsAssumption
     DEF SetShutdownTemp, power, guard, sense, temps, audio, Starting
<1>6. ASSUME NEW target, ExecAmpChOn(target)
      PROVE  TypeInv'
  <2>1. amp_channel_on' \in [Channel -> OnOff] /\ mute_status' \in [Channel -> OnOff]
    BY <1>6 DEF ExecAmpChOn, OnOff
  <2>2. UNCHANGED <<sense, temps, limits, step>>
    BY <1>6 DEF ExecAmpChOn
  <2>3. CASE pwr_status = "MAIN_POWER_OFF"
    BY <1>6, <2>1, <2>2, <2>3, ModePowerOnType
       DEF ExecAmpChOn, sense, temps, limits
  <2>4. CASE pwr_status # "MAIN_POWER_OFF"
    BY <1>6, <2>1, <2>2, <2>4
       DEF ExecAmpChOn, power, guard, sense, temps, limits, Starting
  <2> QED
    BY <2>3, <2>4
<1>7. ASSUME NEW target, ExecAmpChOff(target)
      PROVE  TypeInv'
  <2>1. amp_channel_on' \in [Channel -> OnOff] /\ mute_status' \in [Channel -> OnOff]
    BY <1>7 DEF ExecAmpChOff, OnOff
  <2>2. UNCHANGED <<sense, temps, limits, step>>
    BY <1>7 DEF ExecAmpChOff
  <2>3. CASE ModePowerOff
    BY <2>1, <2>2, <2>3, ModePowerOffType
       DEF sense, temps, limits
  <2>4. CASE UNCHANGED <<power, amp_power_status, guard>>
    BY <2>1, <2>2, <2>4
       DEF power, guard, sense, temps, limits, Starting
  <2> QED
    BY <1>7, <2>3, <2>4 DEF ExecAmpChOff
<1>8. ASSUME NEW target, NEW stat \in OnOff, ExecMute(target, stat)
      PROVE  TypeInv'
  <2>1. mute_status' \in [Channel -> OnOff]
    BY <1>8 DEF ExecMute
  <2> QED
    BY <1>8, <2>1 DEF ExecMute, power, guard, sense, temps, limits, Starting
<1>9. ASSUME NEW target, ExecMuteToggle(target)
      PROVE  TypeInv'
  <2>1. mute_status' \in [Channel -> OnOff]
    BY <1>9 DEF ExecMuteToggle, OnOff
  <2> QED
    BY <1>9, <2>1 DEF ExecMuteToggle, power, guard, sense, temps, limits, Starting
<1>10. CASE UNCHANGED vars
  BY <1>10 DEF vars, power, guard, sense, temps, limits, audio, Starting
<1> QED
  BY <1>1, <1>2, <1>3, <1>4, <1>5, <1>6, <1>7, <1>8, <1>9, <1>10 DEF Next, Command

(***************************************************************************)
(* Type correctness, for every value of the constants: in particular the   *)
(* 20 ms counter of check_timer20ms never passes below zero, and the u8    *)
(* counters stay u8.                                                       *)
(***************************************************************************)
THEOREM TypeCorrect == Spec => []TypeOK
<1>1. Spec => []TypeInv
  BY TypeInit, TypeStep, PTL DEF Spec
<1>2. TypeInv => TypeOK
  BY DEF TypeInv
<1> QED
  BY <1>1, <1>2, PTL

(***************************************************************************)
(* RunCounted, Interlock, SleepsForLackOfSignal and HotIsProtected.  Each  *)
(* handler of the tick has a lemma of its own.                             *)
(***************************************************************************)
LEMMA AmpProtectionCheckSafe ==
  ASSUME IInv, NEW n_ready \in {0, 1}, NEW n_err \in {0, 1},
         AmpProtectionCheck(n_ready, n_err)
  PROVE  RunCounted' /\ Interlock' /\ SleepsForLackOfSignal' /\ HotIsProtected'
<1> DEFINE fault == n_ready = 1 \/ n_err = 0
<1> USE DEF IInv, TypeInv, TypeOK, OnOff, On, Off
<1>1. /\ pwr_status = "MAIN_POWER_ON" /\ pwr_status' = pwr_status
      /\ UNCHANGED <<noise_counter, no_signal_counter>>
      /\ UNCHANGED <<amp_temperature, smps_temperature,
                     amp_shut_down_temp, smps_shut_down_temp>>
  BY DEF AmpProtectionCheck, power, sense, temps, limits
<1>2. Hot' = Hot
  BY <1>1 DEF Hot
<1>3. Hot => ~WithinLimits
  BY ConstantsAssumption DEF Hot, WithinLimits
<1>4. /\ AMP_CHECK_TIME \in Nat
      /\ Increment(check_timer) \in 0 .. U8 - 1
      /\ check_timer <= AMP_CHECK_TIME => Increment(check_timer) = check_timer + 1
  BY ConstantsAssumption, IncrementType
<1>5. CASE protect_func_on = Off /\ UNCHANGED <<guard, amp_power_status>>
  BY <1>1, <1>5
     DEF guard, RunCounted, Interlock, SleepsForLackOfSignal, HotIsProtected
<1>6. CASE /\ protect_func_on = On /\ protect_status = Off
           /\ CheckWhileReleased(fault) /\ UNCHANGED protect_func_on
  <2> DEFINE timer == IF fault THEN Increment(check_timer) ELSE 0
             trip  == (fault /\ Elapsed(timer)) \/ Hot
  <2>1. /\ check_timer' = timer
        /\ run' = IF fault /\ ~trip THEN run + 1 ELSE 0
    BY <1>6 DEF CheckWhileReleased
  <2>2. RunCounted'
    <3>1. CASE fault /\ ~trip
      <4>1. run' = run + 1 /\ timer = Increment(check_timer) /\ timer <= AMP_CHECK_TIME
        BY <1>4, <2>1, <3>1 DEF Elapsed
      <4>2. run > 0 => check_timer <= AMP_CHECK_TIME /\ run <= check_timer + 1
        BY DEF RunCounted
      <4> QED
        BY <1>4, <2>1, <4>1, <4>2 DEF RunCounted
    <3>2. CASE ~(fault /\ ~trip)
      BY <2>1, <3>2 DEF RunCounted
    <3> QED
      BY <3>1, <3>2
  <2>3. CASE trip
    <3>1. protect_status' = On /\ amp_power_status' = Off
      BY <1>6, <2>3 DEF CheckWhileReleased, AmpProtectionOn
    <3> QED
      BY <2>2, <3>1 DEF Interlock, SleepsForLackOfSignal, HotIsProtected
  <2>4. CASE ~trip
    <3>1. UNCHANGED <<protect_status, amp_power_status>>
      BY <1>6, <2>4 DEF CheckWhileReleased
    <3>2. ~Hot'
      BY <1>2, <2>4
    <3> QED
      BY <1>1, <1>6, <2>2, <3>1, <3>2 DEF Interlock, SleepsForLackOfSignal, HotIsProtected
  <2> QED
    BY <2>3, <2>4
<1>7. CASE /\ protect_func_on = On /\ protect_status = On
           /\ CheckWhileEngaged(fault) /\ UNCHANGED protect_func_on
  <2> DEFINE timer   == IF fault THEN 0 ELSE Increment(check_timer)
             elapsed == ~fault /\ Elapsed(timer)
             release == elapsed /\ WithinLimits
  <2>1. /\ check_timer' = IF elapsed /\ ~WithinLimits THEN 0 ELSE timer
        /\ run' = IF ~fault /\ WithinLimits /\ ~release THEN run + 1 ELSE 0
        /\ released' = (released \/ release)
    BY <1>7 DEF CheckWhileEngaged
  <2>2. RunCounted'
    <3>1. CASE ~fault /\ WithinLimits /\ ~release
      <4>1. /\ run' = run + 1 /\ timer = Increment(check_timer)
            /\ timer <= AMP_CHECK_TIME /\ check_timer' = timer
        BY <1>4, <2>1, <3>1 DEF Elapsed
      <4>2. run > 0 => check_timer <= AMP_CHECK_TIME /\ run <= check_timer + 1
        BY DEF RunCounted
      <4> QED
        BY <1>4, <4>1, <4>2 DEF RunCounted
    <3>2. CASE ~(~fault /\ WithinLimits /\ ~release)
      BY <2>1, <3>2 DEF RunCounted
    <3> QED
      BY <3>1, <3>2
  <2>3. CASE release
    <3>1. protect_status' = Off /\ amp_power_status' = On
      BY <1>7, <2>3 DEF CheckWhileEngaged, AmpProtectionOff
    <3>2. ~Hot'
      BY <1>2, <1>3, <2>3
    <3> QED
      BY <2>2, <3>1, <3>2 DEF Interlock, SleepsForLackOfSignal, HotIsProtected
  <2>4. CASE ~release
    <3>1. UNCHANGED <<protect_status, amp_power_status>> /\ released' = released
      BY <1>7, <2>1, <2>4 DEF CheckWhileEngaged
    <3> QED
      BY <1>1, <1>7, <2>2, <3>1 DEF Interlock, SleepsForLackOfSignal, HotIsProtected
  <2> QED
    BY <2>3, <2>4
<1> QED
  BY <1>5, <1>6, <1>7 DEF AmpProtectionCheck

LEMMA SignalSenseCheckSafe ==
  ASSUME IInv, NEW nSW \in {0, 1}, NEW signal \in BOOLEAN,
         SignalSenseCheck(nSW, signal)
  PROVE  RunCounted' /\ Interlock' /\ SleepsForLackOfSignal' /\ HotIsProtected'
<1> USE DEF IInv, TypeInv, TypeOK, OnOff, On, Off
<1>1. /\ UNCHANGED pwr_status /\ step' = "temp"
      /\ UNCHANGED <<protect_status, released, run, check_timer>>
  BY DEF SignalSenseCheck, power, guard
<1>2. RunCounted' /\ HotIsProtected'
  BY <1>1 DEF RunCounted, HotIsProtected
<1>3. CASE amp_power_status = On
  <2>1. SignalSenseCheckOff(nSW, signal)
    BY <1>3 DEF SignalSenseCheck
  <2>2. Interlock'
    BY <1>1, <1>3, <2>1 DEF SignalSenseCheckOff, Interlock
  <2>3. SleepsForLackOfSignal'
    BY <1>1, <1>3, <2>1 DEF SignalSenseCheckOff, SleepsForLackOfSignal
  <2> QED
    BY <1>2, <2>2, <2>3
<1>4. CASE amp_power_status # On
  <2>1. SignalSenseCheckOn(nSW, signal)
    BY <1>4 DEF SignalSenseCheck
  <2>2. amp_power_status' = On => noise_counter' > NOISE_TIME
    BY <1>4, <2>1 DEF SignalSenseCheckOn
  <2>3. SleepsForLackOfSignal'
    BY <1>1, <1>4, <2>1 DEF SignalSenseCheckOn, SleepsForLackOfSignal
  <2> QED
    BY <1>2, <2>2, <2>3 DEF Interlock
<1> QED
  BY <1>3, <1>4

(***************************************************************************)
(* mode_power_on and mode_power_off keep them too, from where the commands *)
(* call them.                                                              *)
(***************************************************************************)
LEMMA ModePowerSafe ==
  ASSUME IInv, step = "idle", UNCHANGED <<sense, step>>,
         \/ pwr_status = "MAIN_POWER_OFF" /\ ModePowerOn
         \/ pwr_status = "MAIN_POWER_ON" /\ ModePowerOff
  PROVE  RunCounted' /\ Interlock' /\ SleepsForLackOfSignal' /\ HotIsProtected'
<1> USE DEF sense, On, Off
<1>1. CASE pwr_status = "MAIN_POWER_OFF" /\ ModePowerOn
  BY <1>1 DEF ModePowerOn, RunCounted, Interlock, SleepsForLackOfSignal, HotIsProtected
<1>2. CASE pwr_status = "MAIN_POWER_ON" /\ ModePowerOff
  BY <1>2 DEF IInv, ModePowerOff, guard,
              RunCounted, Interlock, SleepsForLackOfSignal, HotIsProtected
<1> QED
  BY <1>1, <1>2

LEMMA SafeInit == Init => RunCounted /\ Interlock /\ SleepsForLackOfSignal /\ HotIsProtected
BY DEF Init, RunCounted, Interlock, SleepsForLackOfSignal, HotIsProtected, On, Off

LEMMA SafeStep == IInv /\ [Next]_vars => IInv'
<1> SUFFICES ASSUME IInv, [Next]_vars
             PROVE  RunCounted' /\ Interlock' /\ SleepsForLackOfSignal' /\ HotIsProtected'
  BY TypeStep DEF IInv
<1> USE DEF RunCounted, Interlock, SleepsForLackOfSignal, HotIsProtected
<1>1. CASE CheckTimer20ms
  <2>1. pwr_status = "MAIN_POWER_INITIAL" /\ protect_status = On
    BY <1>1 DEF CheckTimer20ms, IInv, TypeInv, Starting
  <2>2. UNCHANGED <<amp_power_status, guard, sense, temps, limits, step>>
    BY <1>1 DEF CheckTimer20ms
  <2> QED
    BY <2>1, <2>2 DEF IInv, Hot, guard, sense, temps, limits, On, Off
<1>2. CASE Tick
  <2>1. ASSUME NEW amp \in Temp, NEW smps \in Temp, TemperatureRead(amp, smps)
        PROVE  RunCounted' /\ Interlock' /\ SleepsForLackOfSignal' /\ HotIsProtected'
    BY <2>1 DEF TemperatureRead, IInv, power, guard, sense, limits
  <2> QED
    BY <1>2, <2>1, AmpProtectionCheckSafe, SignalSenseCheckSafe DEF Tick
<1>3. CASE ExecModePowerToggle
  BY <1>3, ModePowerSafe
     DEF ExecModePowerToggle, ExecModePowerOn, ExecModePowerOff, ReadsCommands
<1>4. ASSUME NEW func \in OnOff, ExecAmpProtection(func)
      PROVE  RunCounted' /\ Interlock' /\ SleepsForLackOfSignal' /\ HotIsProtected'
  BY <1>4 DEF ExecAmpProtection, ReadsCommands, IInv, power, sense
<1>5. ASSUME NEW limit \in CommandTemp, SetShutdownTemp(limit)
      PROVE  RunCounted' /\ Interlock' /\ SleepsForLackOfSignal' /\ HotIsProtected'
  BY <1>5 DEF SetShutdownTemp, ReadsCommands, IInv, power, guard, sense
<1>6. ASSUME UNCHANGED <<sense, step>>, step = "idle",
             UNCHANGED <<power, amp_power_status, guard>>
      PROVE  RunCounted' /\ Interlock' /\ SleepsForLackOfSignal' /\ HotIsProtected'
  BY <1>6 DEF IInv, power, guard, sense
<1>7. ASSUME NEW target, ExecAmpChOn(target)
      PROVE  RunCounted' /\ Interlock' /\ SleepsForLackOfSignal' /\ HotIsProtected'
  BY <1>6, <1>7, ModePowerSafe DEF ExecAmpChOn, ReadsCommands
<1>8. ASSUME NEW target, ExecAmpChOff(target)
      PROVE  RunCounted' /\ Interlock' /\ SleepsForLackOfSignal' /\ HotIsProtected'
  <2>1. /\ step = "idle" /\ UNCHANGED <<sense, step>> /\ pwr_status = "MAIN_POWER_ON"
        /\ ModePowerOff \/ UNCHANGED <<power, amp_power_status, guard>>
    BY <1>8 DEF ExecAmpChOff, ReadsCommands
  <2> QED
    BY <1>6, <2>1, ModePowerSafe
<1>9. ASSUME NEW target, NEW stat \in OnOff, ExecMute(target, stat)
      PROVE  RunCounted' /\ Interlock' /\ SleepsForLackOfSignal' /\ HotIsProtected'
  BY <1>6, <1>9 DEF ExecMute, ReadsCommands
<1>10. ASSUME NEW target, ExecMuteToggle(target)
      PROVE  RunCounted' /\ Interlock' /\ SleepsForLackOfSignal' /\ HotIsProtected'
  BY <1>6, <1>10 DEF ExecMuteToggle, ReadsCommands
<1>11. CASE UNCHANGED vars
  BY <1>11 DEF vars, power, guard, sense, temps, limits, IInv, Hot
<1> QED
  BY <1>1, <1>2, <1>3, <1>4, <1>5, <1>7, <1>8, <1>9, <1>10, <1>11 DEF Next, Command

LEMMA InductiveInvariant == Spec => []IInv
<1>1. Init => IInv
  BY TypeInit, SafeInit DEF IInv
<1> QED
  BY <1>1, SafeStep, PTL DEF Spec

(***************************************************************************)
(* Only signal sensing overrides the trip (amp_protection_on, AMP_Off):    *)
(* see Interlock.  For any number of channels and any debounce times.      *)
(***************************************************************************)
THEOREM InterlockHolds == Spec => []Interlock
<1>1. IInv => Interlock
  BY DEF IInv
<1> QED
  BY <1>1, InductiveInvariant, PTL

(***************************************************************************)
(* The pins' debounce in mode_amp_protection_check answers within          *)
(* AMP_CHECK_TIME + 1 samples, for any AMP_CHECK_TIME below the width of   *)
(* check_timer, although check_timer wraps around: see ReactsInTime.       *)
(***************************************************************************)
THEOREM ReactionIsBounded == Spec => []ReactsInTime
<1>1. IInv => ReactsInTime
  BY ConstantsAssumption DEF IInv, TypeInv, TypeOK, RunCounted, ReactsInTime
<1> QED
  BY <1>1, InductiveInvariant, PTL

(***************************************************************************)
(* A running, unprotected amplifier is off only after a whole              *)
(* TIMER_SIGNAL_OFF_TIME without a signal: see SleepsForLackOfSignal.      *)
(***************************************************************************)
THEOREM SleepIsEarned == Spec => []SleepsForLackOfSignal
<1>1. IInv => SleepsForLackOfSignal
  BY DEF IInv
<1> QED
  BY <1>1, InductiveInvariant, PTL

(***************************************************************************)
(* The check of a tick leaves an overheated unit protected, whatever the   *)
(* pins and limits: see HotIsProtected.                                    *)
(***************************************************************************)
THEOREM OverheatingIsProtected == Spec => []HotIsProtected
<1>1. IInv => HotIsProtected
  BY DEF IInv
<1> QED
  BY <1>1, InductiveInvariant, PTL

(***************************************************************************)
(* What main.h:293 says of the shutdown temperature, which the run         *)
(* amp_shutdown refutes, is true once the protection has been released     *)
(* after power on and unless signal sensing has overridden the trip: those *)
(* two are the only ways an overheated amplifier is still running when     *)
(* mode_amp_protection_check has looked at it.                             *)
(***************************************************************************)
THEOREM ReleasedUnitShutsDown ==
  Spec => [](released /\ noise_counter <= NOISE_TIME => ShutdownTempShutsDown)
<1>1. IInv => (released /\ noise_counter <= NOISE_TIME => ShutdownTempShutsDown)
  <2> SUFFICES ASSUME IInv, released, noise_counter <= NOISE_TIME,
                      step = "sense", protect_func_on = On, Hot
               PROVE  amp_power_status = Off
    BY DEF ShutdownTempShutsDown
  <2>1. protect_status = On
    BY DEF IInv, HotIsProtected
  <2>2. noise_counter \in Nat /\ NOISE_TIME \in Nat
    BY ConstantsAssumption DEF IInv, TypeInv, TypeOK
  <2>3. amp_power_status # On
    BY <2>1, <2>2 DEF IInv, Interlock
  <2> QED
    BY <2>3 DEF IInv, TypeInv, TypeOK, OnOff
<1> QED
  BY <1>1, InductiveInvariant, PTL
=============================================================================
