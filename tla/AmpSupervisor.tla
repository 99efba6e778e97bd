---------------------------- MODULE AmpSupervisor ----------------------------
(***************************************************************************)
(* The power amplifier's supervision: what may switch the amplifier stage  *)
(* on and off.  Four parts of the firmware write the same few variables    *)
(* without knowing of each other:                                          *)
(*   - mode_power_on / mode_power_off (source/power_led.c), at boot and on *)
(*     a power command;                                                    *)
(*   - mode_amp_protection_check (source/proc_function.c), every 10 ms:    *)
(*     the ready and error pins, debounced, and the two temperatures;      *)
(*   - signal_sense_check (source/signal_sense.c), every 10 ms: puts the   *)
(*     amplifier to sleep without a signal and wakes it up with one;       *)
(*   - the commands of source/command_key.c, between two ticks.            *)
(* The superloop of main.c runs one thing at a time, so a handler is one   *)
(* step.  The tick of check_timer_10ms is three steps (protect, sense,     *)
(* temp), because the pins may change while it runs: each step reads the   *)
(* pins it uses afresh.  The interrupt handlers touch none of this state.  *)
(***************************************************************************)
EXTENDS Naturals, FiniteSets

CONSTANTS
  Channel,       \* the amplifier channels, CHANNEL_A .. CHANNEL_D
  ALL_CHANNEL,   \* the address of a command meant for every channel
  PowerOption,   \* the values of power_mode the EEPROM range check lets through
  Temp,          \* the temperatures the sensors report
  ShutdownTemp,  \* the shutdown temperatures the EEPROM may hold
  CommandTemp,   \* the arguments of the commands that set one
  MAX_TEMP,      \* first temperature those commands refuse (100)
  AMP_CHECK_TIME,         \* debounce of the amplifier's pins, in ticks (4)
  NOISE_TIME,             \* debounce of the signal pin while asleep (5)
  TIMER_SIGNAL_OFF_TIME,  \* ticks without a signal before sleep
  INITIALIZE_TIME,        \* TIME20MSTO2000MS, 20 ms ticks from power on to running
  U8                      \* how many values an unsigned char has (256)

ASSUME ConstantsAssumption ==
  /\ IsFiniteSet(Channel) /\ Channel # {} /\ ALL_CHANNEL \notin Channel
  /\ PowerOption \subseteq Nat
  /\ Temp \subseteq Nat /\ 0 \in Temp
  /\ ShutdownTemp \subseteq Nat
  /\ CommandTemp \subseteq Nat
  /\ MAX_TEMP \in Nat
  /\ AMP_CHECK_TIME \in Nat
  /\ NOISE_TIME \in Nat
  /\ TIMER_SIGNAL_OFF_TIME \in Nat
  /\ INITIALIZE_TIME \in Nat \ {0}
  /\ U8 \in Nat
  /\ AMP_CHECK_TIME + 1 < U8
  /\ NOISE_TIME + 1 < U8

VARIABLES
  power_mode,            \* power option read from the EEPROM at boot
  pwr_status,            \* MAIN_POWER_OFF / MAIN_POWER_INITIAL / MAIN_POWER_ON
  task_initialize_time,  \* 20 ms ticks left before mode_status_initial
  amp_power_status,      \* the amplifier stage, AMP_POWER_OFF / AMP_POWER_ON
  protect_status,        \* is the protection engaged?
  protect_func_on,       \* is the protection function enabled?
  check_timer,           \* u8, consecutive samples of the pins
  no_signal_counter,     \* ticks without a signal
  noise_counter,         \* u8, ticks with a signal while the amplifier is off
  amp_temperature, smps_temperature,         \* as published by temperature_read
  amp_shut_down_temp, smps_shut_down_temp,   \* the limits
  amp_channel_on,        \* [Channel -> is the channel switched on?]
  mute_status,           \* [Channel -> is the channel muted?]
  step,                  \* where the superloop is inside a 10 ms tick
  released,              \* history: has the protection been released since power on?
  run                    \* history: consecutive samples asking protect_status to change

power  == <<power_mode, pwr_status, task_initialize_time>>
guard  == <<protect_status, protect_func_on, check_timer, released, run>>
sense  == <<no_signal_counter, noise_counter>>
temps  == <<amp_temperature, smps_temperature>>
limits == <<amp_shut_down_temp, smps_shut_down_temp>>
audio  == <<amp_channel_on, mute_status>>
vars   == <<power, amp_power_status, guard, sense, temps, limits, audio, step>>

On  == "on"
Off == "off"
OnOff == {On, Off}

\* power_mode, include/power_led.h.
POWER_MODE_NORMAL    == 0
POWER_MODE_12V_TRIG  == 1
POWER_MODE_SS_NORMAL == 3
POWER_MODE_SS_QUICK  == 4
StartingOption ==
  {POWER_MODE_NORMAL, POWER_MODE_12V_TRIG, POWER_MODE_SS_NORMAL, POWER_MODE_SS_QUICK}

MAIN_POWER == {"MAIN_POWER_OFF", "MAIN_POWER_INITIAL", "MAIN_POWER_ON"}

\* The channels a command addressed to target reaches.
Addressed(target) == IF target = ALL_CHANNEL THEN Channel ELSE {target}

\* Bound: no_signal_counter is only compared with TIMER_SIGNAL_OFF_TIME, so
\* every value above that limit is one value.
CountNoSignal(n) == IF n > TIMER_SIGNAL_OFF_TIME THEN n ELSE n + 1

\* ++ on an unsigned char.
Increment(n) == (n + 1) % U8

\* The debounce of mode_amp_protection_check is over.
ElapsedLate(timer) == timer > AMP_CHECK_TIME + 1   \* mutant: off by one
Elapsed(timer) == timer > AMP_CHECK_TIME

\* The trip's condition on the temperatures, and the release's.
Hot == \/ amp_temperature > amp_shut_down_temp
       \/ smps_temperature > smps_shut_down_temp
AmpWithinLimits == amp_temperature <= amp_shut_down_temp   \* mutant: one check missing
WithinLimits == /\ amp_temperature <= amp_shut_down_temp
                /\ smps_temperature <= smps_shut_down_temp

TypeOK ==
  /\ power_mode \in PowerOption
  /\ pwr_status \in MAIN_POWER
  /\ task_initialize_time \in 0 .. INITIALIZE_TIME
  /\ amp_power_status \in OnOff
  /\ protect_status \in OnOff
  /\ protect_func_on \in OnOff
  /\ check_timer \in 0 .. U8 - 1
  /\ no_signal_counter \in 0 .. TIMER_SIGNAL_OFF_TIME + 1
  /\ noise_counter \in 0 .. U8 - 1
  /\ amp_temperature \in Temp /\ smps_temperature \in Temp
  /\ amp_shut_down_temp \in Nat /\ smps_shut_down_temp \in Nat
  /\ amp_channel_on \in [Channel -> OnOff]
  /\ mute_status \in [Channel -> OnOff]
  /\ step \in {"idle", "sense", "temp"}
  /\ released \in BOOLEAN
  /\ run \in Nat

-----------------------------------------------------------------------------
\* Power on.

\* pwr_status after mode_power_on: an option outside the switch's cases keeps it.
StatusAfterPowerOn(mode, status) ==
  IF mode \in StartingOption THEN "MAIN_POWER_INITIAL" ELSE status

\* power_led.c mode_power_on, with amp_status_initial and AMP_On.
ModePowerOn ==
  /\ pwr_status' = StatusAfterPowerOn(power_mode, pwr_status)
  /\ task_initialize_time' = INITIALIZE_TIME
  /\ protect_status' = On
  /\ protect_func_on' = On
  /\ check_timer' = 0
  /\ amp_power_status' = On
  /\ released' = FALSE
  /\ run' = 0
  /\ UNCHANGED power_mode

\* power_led.c mode_power_off: every option but SS_QUICK leaves the unit as it is.
ModePowerOff ==
  /\ IF power_mode = POWER_MODE_SS_QUICK
     THEN amp_power_status' = Off /\ pwr_status' = "MAIN_POWER_OFF"
     ELSE UNCHANGED <<amp_power_status, pwr_status>>
  /\ UNCHANGED <<power_mode, task_initialize_time, guard>>

\* main.c main up to its loop: RAM initialised, the EEPROM's settings loaded,
\* mode_power_on called.
Init ==
  /\ power_mode \in PowerOption
  /\ pwr_status = StatusAfterPowerOn(power_mode, "MAIN_POWER_OFF")
  /\ task_initialize_time = INITIALIZE_TIME
  /\ amp_power_status = On
  /\ protect_status = On
  /\ protect_func_on = On
  /\ check_timer = 0
  /\ no_signal_counter = 0
  /\ noise_counter = 0
  /\ amp_temperature = 0 /\ smps_temperature = 0
  /\ amp_shut_down_temp \in ShutdownTemp /\ smps_shut_down_temp \in ShutdownTemp
  /\ amp_channel_on \in [Channel -> OnOff]
  /\ mute_status = [c \in Channel |-> On]
  /\ step = "idle"
  /\ released = FALSE
  /\ run = 0

-----------------------------------------------------------------------------
\* While MAIN_POWER_INITIAL the loop runs only the 20 ms task.

\* proc_function.c mode_status_initial: every channel is unmuted, then power_stable.
ModeStatusInitial ==
  /\ mute_status' = [c \in Channel |-> Off]
  /\ pwr_status' = "MAIN_POWER_ON"

\* main.c check_timer20ms on an expired timer.
CheckTimer20ms ==
  /\ pwr_status = "MAIN_POWER_INITIAL"
  /\ task_initialize_time' = task_initialize_time - 1
  /\ IF task_initialize_time' = 0
     THEN ModeStatusInitial
     ELSE UNCHANGED <<mute_status, pwr_status>>
  /\ UNCHANGED <<power_mode, amp_power_status, guard, sense, temps, limits,
                 amp_channel_on, step>>

-----------------------------------------------------------------------------
\* The 10 ms tick, first step: proc_function.c mode_amp_protection_check.

\* signal_sense.c amp_protection_on, its early return included: the amplifier
\* is switched off only when the protection was not engaged before.
AmpProtectionOnStatusOnly ==   \* mutant: AMP_Off forgotten
  protect_status' = On /\ UNCHANGED amp_power_status
AmpProtectionOn ==
  IF protect_status = On
  THEN UNCHANGED <<protect_status, amp_power_status>>
  ELSE protect_status' = On /\ amp_power_status' = Off

\* signal_sense.c amp_protection_off.
AmpProtectionOffStatusOnly ==   \* mutant: AMP_On forgotten
  protect_status' = Off /\ UNCHANGED amp_power_status
AmpProtectionOff ==
  IF protect_status = Off
  THEN UNCHANGED <<protect_status, amp_power_status>>
  ELSE protect_status' = Off /\ amp_power_status' = On

\* The branch for protect_status = AMP_PROTECT_OFF: a fault on the pins has to
\* last, a temperature above its limit trips at once.
CheckWhileReleased(fault) ==
  LET timer == IF fault THEN Increment(check_timer) ELSE 0
      trip  == (fault /\ Elapsed(timer)) \/ Hot
  IN  /\ check_timer' = timer
      /\ IF trip THEN AmpProtectionOn
                 ELSE UNCHANGED <<protect_status, amp_power_status>>
      /\ run' = IF fault /\ ~trip THEN run + 1 ELSE 0
      /\ UNCHANGED released

\* The branch for protect_status = AMP_PROTECT_ON: released once the pins have
\* been good for long enough and both temperatures are within their limits.
CheckWhileEngaged(fault) ==
  LET timer   == IF fault THEN 0 ELSE Increment(check_timer)
      elapsed == ~fault /\ Elapsed(timer)
      release == elapsed /\ WithinLimits
  IN  /\ check_timer' = IF elapsed /\ ~WithinLimits THEN 0 ELSE timer
      /\ IF release THEN AmpProtectionOff
                    ELSE UNCHANGED <<protect_status, amp_power_status>>
      /\ released' = (released \/ release)
      /\ run' = IF ~fault /\ WithinLimits /\ ~release THEN run + 1 ELSE 0

\* amp_n_ready and amp_n_err are the levels of the two pins at this tick.
AmpProtectionCheck(amp_n_ready, amp_n_err) ==
  LET fault == amp_n_ready = 1 \/ amp_n_err = 0
  IN  /\ pwr_status = "MAIN_POWER_ON" /\ step = "idle"
      /\ \/ /\ protect_func_on = Off
            /\ UNCHANGED <<guard, amp_power_status>>
         \/ /\ protect_func_on = On /\ protect_status = Off
            /\ CheckWhileReleased(fault)
            /\ UNCHANGED protect_func_on
         \/ /\ protect_func_on = On /\ protect_status = On
            /\ CheckWhileEngaged(fault)
            /\ UNCHANGED protect_func_on
      /\ step' = "sense"
      /\ UNCHANGED <<power, sense, temps, limits, audio>>

-----------------------------------------------------------------------------
\* Second step: signal_sense.c signal_sense_check.

\* signal_sense_check_off: the amplifier is on and is put to sleep, muted, when
\* there has been no signal for long enough.
SignalSenseCheckOff(nSW, signal) ==
  /\ no_signal_counter' =
       IF nSW = 1 /\ ~signal THEN CountNoSignal(no_signal_counter) ELSE 0
  /\ IF no_signal_counter' > TIMER_SIGNAL_OFF_TIME
     THEN /\ mute_status' = [c \in Channel |-> On]
          /\ amp_power_status' = Off
     ELSE UNCHANGED <<mute_status, amp_power_status>>
  /\ UNCHANGED noise_counter

\* signal_sense_check_on: the amplifier is off and is switched on, unmuted, when
\* the signal lasts; protect_status is not looked at.
SignalSenseCheckOn(nSW, signal) ==
  /\ noise_counter' = IF nSW # 1 THEN noise_counter
                      ELSE IF signal THEN Increment(noise_counter) ELSE 0
  /\ IF nSW = 1 /\ signal /\ noise_counter' > NOISE_TIME
     THEN /\ mute_status' = [c \in Channel |-> Off]
          /\ amp_power_status' = On
     ELSE UNCHANGED <<mute_status, amp_power_status>>
  /\ UNCHANGED no_signal_counter

\* nSW is the signal sensing switch at the back, signal the signal pin.
SignalSenseCheck(nSW, signal) ==
  /\ step = "sense"
  /\ IF amp_power_status = On THEN SignalSenseCheckOff(nSW, signal)
                              ELSE SignalSenseCheckOn(nSW, signal)
  /\ step' = "temp"
  /\ UNCHANGED <<power, guard, temps, limits, amp_channel_on>>

\* Third step: adckey.c temperature_read publishes what the sensors hold; the
\* checks above use it from the next tick on.
TemperatureRead(amp, smps) ==
  /\ step = "temp"
  /\ amp_temperature' = amp
  /\ smps_temperature' = smps
  /\ step' = "idle"
  /\ UNCHANGED <<power, amp_power_status, guard, sense, limits, audio>>

-----------------------------------------------------------------------------
\* The commands, one at a time between two ticks (main.c task_running) or while
\* the unit is off (task_suspend); none is read while MAIN_POWER_INITIAL.

ReadsCommands == step = "idle" /\ pwr_status # "MAIN_POWER_INITIAL"

ExecModePowerOn ==
  /\ ReadsCommands
  /\ pwr_status = "MAIN_POWER_OFF"
  /\ ModePowerOn
  /\ UNCHANGED <<sense, temps, limits, audio, step>>

ExecModePowerOff ==
  /\ ReadsCommands
  /\ pwr_status = "MAIN_POWER_ON"
  /\ ModePowerOff
  /\ UNCHANGED <<sense, temps, limits, audio, step>>

ExecModePowerToggle == ExecModePowerOn \/ ExecModePowerOff

\* exec_amp_protection_on / exec_amp_protection_off.
ExecAmpProtection(func) ==
  /\ ReadsCommands
  /\ protect_func_on' = func
  /\ UNCHANGED <<power, amp_power_status, protect_status, check_timer, released,
                 run, sense, temps, limits, audio, step>>

\* set_amp_shutdown_temp / set_smps_shutdown_temp.
SetShutdownTemp(limit) ==
  /\ ReadsCommands
  /\ limit < MAX_TEMP
  /\ \/ amp_shut_down_temp' = limit /\ UNCHANGED smps_shut_down_temp
     \/ smps_shut_down_temp' = limit /\ UNCHANGED amp_shut_down_temp
  /\ UNCHANGED <<power, amp_power_status, guard, sense, temps, audio, step>>

\* exec_amp_ch_on: switching a channel on also powers a unit that is off on.
ExecAmpChOn(target) ==
  /\ ReadsCommands
  /\ amp_channel_on' =
       [c \in Channel |-> IF c \in Addressed(target) THEN On ELSE amp_channel_on[c]]
  /\ mute_status' =
       [c \in Channel |-> IF c \in Addressed(target) THEN Off ELSE mute_status[c]]
  /\ IF pwr_status = "MAIN_POWER_OFF"
     THEN ModePowerOn
     ELSE UNCHANGED <<power, amp_power_status, guard>>
  /\ UNCHANGED <<sense, temps, limits, step>>

\* exec_amp_ch_off: only while running; the last channel off powers the unit off.
ExecAmpChOff(target) ==
  LET turned == {c \in Addressed(target) : amp_channel_on[c] = On}
  IN  /\ ReadsCommands
      /\ pwr_status = "MAIN_POWER_ON"
      /\ amp_channel_on' =
           [c \in Channel |-> IF c \in turned THEN Off ELSE amp_channel_on[c]]
      /\ mute_status' =
           [c \in Channel |-> IF c \in turned THEN On ELSE mute_status[c]]
      /\ IF \A c \in Channel : amp_channel_on'[c] = Off
         THEN ModePowerOff
         ELSE UNCHANGED <<power, amp_power_status, guard>>
      /\ UNCHANGED <<sense, temps, limits, step>>

\* exec_mute_on / exec_mute_off: only for a channel that is switched on.
ExecMute(target, stat) ==
  /\ ReadsCommands
  /\ mute_status' =
       [c \in Channel |->
          IF c \in Addressed(target) /\ amp_channel_on[c] = On THEN stat
                                                               ELSE mute_status[c]]
  /\ UNCHANGED <<power, amp_power_status, guard, sense, temps, limits,
                 amp_channel_on, step>>

\* exec_mute_toggle: whether or not the channel is switched on.
ExecMuteToggle(target) ==
  /\ ReadsCommands
  /\ mute_status' =
       [c \in Channel |->
          IF c \in Addressed(target)
          THEN IF mute_status[c] = On THEN Off ELSE On
          ELSE mute_status[c]]
  /\ UNCHANGED <<power, amp_power_status, guard, sense, temps, limits,
                 amp_channel_on, step>>

-----------------------------------------------------------------------------
Tick ==
  \/ \E n_ready, n_err \in {0, 1} : AmpProtectionCheck(n_ready, n_err)
  \/ \E nSW \in {0, 1}, signal \in BOOLEAN : SignalSenseCheck(nSW, signal)
  \/ \E amp, smps \in Temp : TemperatureRead(amp, smps)

Command ==
  \/ ExecModePowerToggle
  \/ \E func \in OnOff : ExecAmpProtection(func)
  \/ \E limit \in CommandTemp : SetShutdownTemp(limit)
  \/ \E target \in Channel \cup {ALL_CHANNEL} :
       \/ ExecAmpChOn(target)
       \/ ExecAmpChOff(target)
       \/ \E stat \in OnOff : ExecMute(target, stat)
       \/ ExecMuteToggle(target)

Next == CheckTimer20ms \/ Tick \/ Command

Spec == Init /\ [][Next]_vars

-----------------------------------------------------------------------------
(***************************************************************************)
(* Properties.                                                             *)
(***************************************************************************)

\* The trip is an interlock: once the protection has been released after power
\* on, a running amplifier with the protection engaged can only be one that
\* signal sensing woke up (amp_protection_on / AMP_On of signal_sense.c).  No
\* order of pins, temperatures, threshold changes and commands gets there.
Interlock ==
  released /\ protect_status = On /\ amp_power_status = On
    => noise_counter > NOISE_TIME

\* With the function enabled the debounce of mode_amp_protection_check answers
\* in bounded time both ways: never more than AMP_CHECK_TIME + 1 consecutive
\* samples ask for the other protect_status in vain, although check_timer is one
\* u8 shared by the two directions, is not reset when the status changes and
\* wraps around.
ReactsInTime == run <= AMP_CHECK_TIME + 1

\* The amplifier sleeps only for want of a signal: running, not protected and
\* yet switched off means signal_sense_check_off has counted a whole
\* TIMER_SIGNAL_OFF_TIME.
SleepsForLackOfSignal ==
  pwr_status = "MAIN_POWER_ON" /\ protect_status = Off /\ amp_power_status = Off
    => no_signal_counter > TIMER_SIGNAL_OFF_TIME

\* When the tick has passed its protection check with the function enabled, a
\* temperature above its limit leaves the protection engaged: it was tripped,
\* or kept from being released, whatever the pins say.
HotIsProtected ==
  step = "sense" /\ protect_func_on = On /\ Hot => protect_status = On

\* main.h:293 and power_led.h:27: a temperature above the shutdown temperature
\* shuts the amplifier down.  (The code engages the protection by setting
\* protect_status at power on, so that amp_protection_on returns early and the
\* amplifier it finds running stays on.)
ShutdownTempShutsDown ==
  step = "sense" /\ protect_func_on = On /\ Hot => amp_power_status = Off
=============================================================================
