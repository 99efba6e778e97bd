----------------------------- MODULE FanControl -----------------------------
(***************************************************************************)
(* The cooling fan's two speeds (source/fan_ctrl.c).  fan_timer_check is   *)
(* called in every 10 ms tick and decides in one tick out of PERIOD, from  *)
(* the two published temperatures and six thresholds, each of which a      *)
(* command may change at any time and to any value: nothing keeps a fan's  *)
(* on temperature above its off temperature.                               *)
(***************************************************************************)
EXTENDS Integers

CONSTANTS
  Temp,      \* the temperatures that may be published
  Limits,    \* the thresholds the EEPROM may hold at boot
  NewLimit,  \* the arguments of the commands that set one
  PERIOD,    \* ticks between two decisions (100)
  U8         \* how many values an unsigned char has (256)

Threshold == {"fan_hs_on_amp_temp", "fan_hs_off_amp_temp", "fan_ls_on_amp_temp",
              "fan_ls_off_amp_temp", "fan_on_smps_temp", "fan_off_smps_temp"}

\* The thresholds a command sets (proc_value_set of command_key.c): all but one.
Settable == Threshold \ {"fan_ls_on_amp_temp"}

ASSUME FanAssumption ==
  /\ Temp \subseteq Nat /\ 0 \in Temp
  /\ Limits \subseteq [Threshold -> Nat]
  /\ NewLimit \subseteq Nat
  /\ PERIOD \in Nat /\ U8 \in Nat
  /\ 0 < PERIOD /\ PERIOD < U8

VARIABLES
  fan_hs_status,    \* FAN_OFF / FAN_ON, the high speed
  fan_ls_status,    \* the low speed
  check_timer,      \* u8, ticks to the next decision
  limit,            \* [Threshold -> temperature]
  smps_temperature, \* as published by mode_temperature_check
  amp_temperature,
  hot,              \* history: ticks in a row in which a temperature called for both speeds
  cold,             \* history: ticks in a row in which none called for either
  started,          \* history: the temperatures when the high speed was switched on
  steady            \* history: hysteretic thresholds then, and no command since?

fan   == <<fan_hs_status, fan_ls_status, check_timer>>
temps == <<smps_temperature, amp_temperature>>
hist  == <<hot, cold, started, steady>>
vars  == <<fan, limit, temps, hist>>

FAN_OFF == "FAN_OFF"
FAN_ON  == "FAN_ON"
FanStatus == {FAN_OFF, FAN_ON}

\* The running modes, in the order fan_timer_check compares them by.
FAN_HS_LS_OFF == 0
FAN_LS_STAY   == 1
FAN_LS_ON     == 2
FAN_HS_STAY   == 3
FAN_LS_HS_ON  == 4

\* Bound: hot and cold count no further than this.
MAX_RUN == U8

TypeOK ==
  /\ fan_hs_status \in FanStatus /\ fan_ls_status \in FanStatus
  /\ check_timer \in 0 .. U8 - 1
  /\ limit \in [Threshold -> Nat]
  /\ smps_temperature \in Temp /\ amp_temperature \in Temp
  /\ hot \in 0 .. MAX_RUN /\ cold \in 0 .. MAX_RUN
  /\ started \in [smps : Temp, amp : Temp]
  /\ steady \in BOOLEAN

\* Each off temperature is below its on temperature, as Check_Backup leaves them.
Hysteretic(lim) ==
  /\ lim["fan_hs_off_amp_temp"] < lim["fan_hs_on_amp_temp"]
  /\ lim["fan_off_smps_temp"] < lim["fan_on_smps_temp"]

\* fan_initial, at boot; check_timer is never given a first value.
Init ==
  /\ fan_hs_status = FAN_OFF /\ fan_ls_status = FAN_OFF
  /\ check_timer = 0
  /\ limit \in Limits
  /\ smps_temperature = 0 /\ amp_temperature = 0
  /\ hot = 0 /\ cold = 0
  /\ started = [smps |-> 0, amp |-> 0]
  /\ steady = FALSE

\* get_fan_running_mode, type 0.
SmpsMode ==
  CASE smps_temperature >= limit["fan_on_smps_temp"] -> FAN_LS_HS_ON
    [] smps_temperature < limit["fan_on_smps_temp"]
         /\ smps_temperature >= limit["fan_off_smps_temp"] -> FAN_HS_STAY
    [] OTHER -> FAN_HS_LS_OFF

\* get_fan_running_mode, type 1: the first threshold exceeded, from the top.
AmpMode ==
  CASE amp_temperature > limit["fan_hs_on_amp_temp"] -> FAN_LS_HS_ON
    [] amp_temperature <= limit["fan_hs_on_amp_temp"]
         /\ amp_temperature > limit["fan_hs_off_amp_temp"] -> FAN_HS_STAY
    [] amp_temperature <= limit["fan_hs_on_amp_temp"]
         /\ amp_temperature <= limit["fan_hs_off_amp_temp"]
         /\ amp_temperature > limit["fan_ls_on_amp_temp"] -> FAN_LS_ON
    [] amp_temperature <= limit["fan_hs_on_amp_temp"]
         /\ amp_temperature <= limit["fan_hs_off_amp_temp"]
         /\ amp_temperature <= limit["fan_ls_on_amp_temp"]
         /\ amp_temperature > limit["fan_ls_off_amp_temp"] -> FAN_LS_STAY
    [] OTHER -> FAN_HS_LS_OFF

RunningModeAmp == AmpMode   \* mutant: the power supply is forgotten
RunningMode == IF SmpsMode >= AmpMode THEN SmpsMode ELSE AmpMode

\* What fan_timer_check's switch does to the two speeds.
HighSpeedAlways(mode) ==   \* mutant: no hysteresis
  IF mode = FAN_LS_HS_ON THEN FAN_ON ELSE FAN_OFF
HighSpeed(mode) ==
  CASE mode = FAN_LS_HS_ON -> FAN_ON
    [] mode = FAN_HS_STAY -> fan_hs_status
    [] OTHER -> FAN_OFF

LowSpeedLeft(mode) ==   \* mutant: the high speed's mode leaves the low speed alone
  CASE mode \in {FAN_LS_ON, FAN_HS_STAY} -> FAN_ON
    [] mode \in {FAN_LS_STAY, FAN_LS_HS_ON} -> fan_ls_status
    [] OTHER -> FAN_OFF
LowSpeed(mode) ==
  CASE mode \in {FAN_LS_ON, FAN_HS_STAY, FAN_LS_HS_ON} -> FAN_ON
    [] mode = FAN_LS_STAY -> fan_ls_status
    [] OTHER -> FAN_OFF

\* -- on an unsigned char.
Decrement(timer) == IF timer = 0 THEN U8 - 1 ELSE timer - 1

Count(n) == IF n = MAX_RUN THEN n ELSE n + 1

\* A temperature calls for the high speed; none calls for any cooling.
Hot == \/ smps_temperature >= limit["fan_on_smps_temp"]
       \/ amp_temperature > limit["fan_hs_on_amp_temp"]
Cold == /\ \A t \in {"fan_on_smps_temp", "fan_off_smps_temp"} : smps_temperature < limit[t]
        /\ \A t \in Threshold \ {"fan_on_smps_temp", "fan_off_smps_temp"} :
             amp_temperature <= limit[t]

\* The histories of a tick.
Observe ==
  /\ hot'  = IF Hot THEN Count(hot) ELSE 0
  /\ cold' = IF Cold THEN Count(cold) ELSE 0
  /\ IF fan_hs_status = FAN_OFF /\ fan_hs_status' = FAN_ON
     THEN /\ started' = [smps |-> smps_temperature, amp |-> amp_temperature]
          /\ steady' = Hysteretic(limit)
     ELSE UNCHANGED <<started, steady>>

FanTimerCheck ==
  /\ IF Decrement(check_timer) = 0
     THEN /\ check_timer' = PERIOD
          /\ fan_hs_status' = HighSpeed(RunningMode)
          /\ fan_ls_status' = LowSpeed(RunningMode)
     ELSE /\ check_timer' = Decrement(check_timer)
          /\ UNCHANGED <<fan_hs_status, fan_ls_status>>
  /\ Observe
  /\ UNCHANGED limit

\* The rest of the tick publishes temperatures, for the next tick on.
Tick(smps, amp) ==
  /\ FanTimerCheck
  /\ smps_temperature' = smps
  /\ amp_temperature' = amp

\* The set_fan_... functions check nothing and write the RAM only.
SetThreshold(threshold, value) ==
  /\ limit' = [limit EXCEPT ![threshold] = value]
  /\ hot' = 0 /\ cold' = 0
  /\ steady' = FALSE
  /\ UNCHANGED <<fan, temps, started>>

\* mode_power_on, on a command while the unit is off: fan_initial.  (The fan runs
\* on while the unit is off, and no tick comes.)
ModePowerOn ==
  /\ fan_hs_status' = FAN_OFF /\ fan_ls_status' = FAN_OFF
  /\ hot' = 0 /\ cold' = 0
  /\ steady' = FALSE
  /\ UNCHANGED <<check_timer, limit, temps, started>>

Next ==
  \/ ModePowerOn
  \/ \E smps, amp \in Temp : Tick(smps, amp)
  \/ \E threshold \in Settable, value \in NewLimit : SetThreshold(threshold, value)

Spec == Init /\ [][Next]_vars

-----------------------------------------------------------------------------
(***************************************************************************)
(* Properties.                                                             *)
(***************************************************************************)

\* The high speed never runs without the low one, whatever the thresholds and
\* however the decisions alternate (fan_timer_check's switch, where most cases
\* set only one of the two).
HighNeedsLow == fan_hs_status = FAN_ON => fan_ls_status = FAN_ON

\* The fan follows a lasting demand within U8 ticks, first decision after boot
\* and power on included: check_timer starts at 0 and wraps around.
FollowsDemand ==
  /\ hot >= U8 => fan_hs_status = FAN_ON /\ fan_ls_status = FAN_ON
  /\ cold >= U8 => fan_hs_status = FAN_OFF /\ fan_ls_status = FAN_OFF

\* The fan does not chatter: with hysteretic thresholds, and without a command
\* meanwhile, the high speed is not switched off again until one of the two
\* temperatures is lower than when it was switched on by more than its hysteresis
\* (get_fan_running_mode's STAY modes, the larger of two modes winning).
NoChatter ==
  [][steady /\ steady' /\ fan_hs_status = FAN_ON /\ fan_hs_status' = FAN_OFF =>
       \/ amp_temperature + (limit["fan_hs_on_amp_temp"] - limit["fan_hs_off_amp_temp"])
            < started.amp
       \/ smps_temperature + (limit["fan_on_smps_temp"] - limit["fan_off_smps_temp"])
            < started.smps]_vars
=============================================================================
