---------------------------- MODULE DigitalInput ----------------------------
(***************************************************************************)
(* The choice between the analog and the digital input of one channel: the *)
(* lock of the AK4117's PLL is checked every PLL_CHECK_TIME_40MS runs of   *)
(* the 10 ms tasks and debounced (ak4117.c ak4117_ctrl, ak4117_int0_check) *)
(* and mode_input_check sets the switch, a NJM2752, by the mode: analog,   *)
(* digital or automatic (proc_function.c).  The four channels are alike.   *)
(*                                                                         *)
(* What a check finds, the pin INT0 low or the chip's status without its   *)
(* unlock bit, is the environment's.  The chip's sampling frequency and    *)
(* stream kind, which ak4117_ctrl reads too, decide nothing here.          *)
(***************************************************************************)
EXTENDS TenMsTimer

CONSTANT PLL_CHECK_TIME   \* PLL_CHECK_TIME_40MS, in runs of the tasks (40)

ASSUME PllAssumption == PLL_CHECK_TIME \in 1 .. U8 - 1

VARIABLES
  digital_analog_mode,  \* the mode commanded
  mode_cell,            \* its cell in the EEPROM, ADDR_AMP_A_INPUTSELMODE
  digital_nAnalog,      \* the switch: 1 digital, 0 analog
  pll_status, pll_check_time,
  running,              \* is pwr_status MAIN_POWER_ON?
  locked,               \* environment: what a check of the PLL would find
  bad,                  \* history: checks without lock in a row
  steady                \* history: runs of the tasks since mode and lock last changed

input   == <<digital_analog_mode, mode_cell, digital_nAnalog>>
pll     == <<pll_status, pll_check_time, bad>>
outside == <<locked, running>>
inputVars == <<timer, input, pll, outside, steady>>

INPUT_MODE_ANALOG  == 0
INPUT_MODE_DIGITAL == 1
INPUT_MODE_AUTO    == 2
Mode == {INPUT_MODE_ANALOG, INPUT_MODE_DIGITAL, INPUT_MODE_AUTO}

\* The runs within which the switch follows: the first check comes when
\* pll_check_time, which starts at 0, has wrapped around.
Reaction == U8 + PLL_CHECK_TIME

InputTypeOK ==
  /\ TimerTypeOK
  /\ digital_analog_mode \in Mode /\ mode_cell \in Mode
  /\ digital_nAnalog \in {0, 1}
  /\ pll_status \in {"LOCK", "CHECKING", "UNLOCK"}
  /\ pll_check_time \in 0 .. U8 - 1
  /\ running \in BOOLEAN /\ locked \in BOOLEAN
  /\ bad \in 0 .. 2
  /\ steady \in 0 .. Reaction

\* RKB_channel_initial and the startup's zeroing: PLL_LOCK is 0.
Zeroed ==
  /\ digital_nAnalog' = 0
  /\ pll_status' = "LOCK" /\ pll_check_time' = 0
  /\ bad' = 0 /\ steady' = 0

InputInit ==
  /\ TimerInit
  /\ mode_cell \in Mode /\ digital_analog_mode = mode_cell
  /\ digital_nAnalog = 0
  /\ pll_status = "LOCK" /\ pll_check_time = 0
  /\ running = FALSE
  /\ locked \in BOOLEAN
  /\ bad = 0 /\ steady = 0

-----------------------------------------------------------------------------
\* ak4117_int0_check: two checks without lock in a row make it UNLOCK.
StatusAtOnce ==   \* mutant: no debounce
  IF locked THEN "LOCK" ELSE "UNLOCK"
StatusAfterCheck ==
  IF locked THEN "LOCK"
  ELSE IF pll_status = "LOCK" THEN "CHECKING" ELSE "UNLOCK"

\* ak4117_ctrl: --pll_check_time on an unsigned char.
CheckTimeNotReset == (pll_check_time - 1) % U8   \* mutant: the reload forgotten
CheckTimeAfter ==
  IF (pll_check_time - 1) % U8 = 0 THEN PLL_CHECK_TIME ELSE (pll_check_time - 1) % U8

Ak4117Ctrl ==
  /\ pll_check_time' = CheckTimeAfter
  /\ IF (pll_check_time - 1) % U8 = 0
     THEN /\ pll_status' = StatusAfterCheck
          /\ bad' = IF locked THEN 0 ELSE CountTo(2, bad)
     ELSE UNCHANGED <<pll_status, bad>>

\* What mode_input_check wants of the switch.
Wanted(status) ==
  CASE digital_analog_mode = INPUT_MODE_ANALOG  -> 0
    [] digital_analog_mode = INPUT_MODE_DIGITAL -> 1
    [] OTHER -> IF status = "LOCK" THEN 1
                ELSE IF status = "UNLOCK" THEN 0 ELSE digital_nAnalog

\* mode_input_check, with njm2752_ctrl: the cell is written when the switch is.
ModeInputCheck(status) ==
  /\ digital_nAnalog' = Wanted(status)
  /\ mode_cell' = IF Wanted(status) = digital_nAnalog THEN mode_cell ELSE Wanted(status)

\* The 10 ms tasks: mode_ak4117_check, then mode_input_check.
Tasks ==
  /\ TasksDone
  /\ Ak4117Ctrl
  /\ ModeInputCheck(pll_status')
  /\ steady' = CountTo(Reaction, steady)
  /\ UNCHANGED <<digital_analog_mode, outside>>

\* exec_input_sel_mode, in the loop after the tasks.
ExecInputSelModeRam(mode) ==   \* mutant: the cell not written
  /\ phase = "poll"
  /\ digital_analog_mode' = mode
  /\ steady' = 0
  /\ UNCHANGED <<timer, mode_cell, digital_nAnalog, pll, outside>>
ExecInputSelMode(mode) ==
  /\ phase = "poll"
  /\ digital_analog_mode' = mode
  /\ mode_cell' = mode
  /\ steady' = 0
  /\ UNCHANGED <<timer, digital_nAnalog, pll, outside>>

\* MAIN_POWER_ON comes and goes, by mode_status_initial and mode_power_off;
\* without it the loop does not look at the timer.
PowerStatusChanges ==
  /\ phase = "poll"
  /\ running' = ~running
  /\ UNCHANGED <<timer, input, pll, locked, steady>>

\* The source's signal comes and goes.
SignalChanges ==
  /\ locked' = ~locked
  /\ steady' = 0
  /\ UNCHANGED <<timer, input, pll, running>>

\* The power fails and comes back: Check_Backup loads the mode from its cell.
InputPowerCut ==
  /\ Timer10ms' = 0 /\ phase' = "poll"
  /\ since' = 0 /\ pass' = 0 /\ overrun' = FALSE
  /\ digital_analog_mode' = mode_cell
  /\ Zeroed
  /\ running' = FALSE
  /\ UNCHANGED <<mode_cell, locked>>

InputNext ==
  \/ SysTick /\ UNCHANGED <<input, pll, outside, steady>>
  \/ running /\ Poll /\ UNCHANGED <<input, pll, outside, steady>>
  \/ Clear /\ UNCHANGED <<input, pll, outside, steady>>
  \/ Tasks
  \/ \E mode \in Mode : ExecInputSelMode(mode)
  \/ PowerStatusChanges \/ SignalChanges \/ InputPowerCut

InputSpec == InputInit /\ [][InputNext]_inputVars

-----------------------------------------------------------------------------
(***************************************************************************)
(* Properties.                                                             *)
(***************************************************************************)

\* The cell holds the mode, or in automatic mode the input playing: a restart
\* takes up the mode commanded, or pins the input automatic mode had chosen
\* last (mode_input_check writes its choice to the mode's cell).
CellTellsInput ==
  \/ mode_cell = digital_analog_mode
  \/ digital_analog_mode = INPUT_MODE_AUTO /\ mode_cell = digital_nAnalog

\* In automatic mode a gap in the signal does not switch to analog unless two
\* checks in a row, PLL_CHECK_TIME runs apart, found it.
GapIsBridged ==
  [][running' /\ phase = "task" /\ digital_analog_mode = INPUT_MODE_AUTO
       /\ digital_nAnalog = 1 /\ digital_nAnalog' = 0 => bad' = 2]_inputVars

\* Once mode and signal have been steady for Reaction runs of the tasks, the
\* switch is where they want it: no check is left out, and none is stuck, however
\* power, mode and signal changed before.
FollowsSignal ==
  steady = Reaction =>
    digital_nAnalog = CASE digital_analog_mode = INPUT_MODE_ANALOG  -> 0
                        [] digital_analog_mode = INPUT_MODE_DIGITAL -> 1
                        [] OTHER -> IF locked THEN 1 ELSE 0
=============================================================================
