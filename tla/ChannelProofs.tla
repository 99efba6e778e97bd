---------------------------- MODULE ChannelProofs ----------------------------
(***************************************************************************)
(* Theorems about the two parts of a channel, ChannelAudio and             *)
(* DigitalInput, and about TenMsTimer, which paces the second.             *)
(***************************************************************************)
EXTENDS ChannelAudio, DigitalInput, TLAPS

-----------------------------------------------------------------------------
(***************************************************************************)
(* The timer.                                                              *)
(***************************************************************************)

\* The byte, once reset, never counts more than has elapsed.
CountsReal == phase # "clear" => Timer10ms <= since \/ since = SinceMax

\* While no pass overruns, the byte does not wrap: it is ahead of a pass by less
\* than TIME10MS, and behind what has elapsed by what test and reset lost.
InStep ==
  ~overrun =>
    /\ pass <= LoopTime
    /\ phase = "clear" => since <= pass
    /\ phase # "clear" => /\ Timer10ms < TIME10MS + pass
                          /\ since <= Timer10ms + LoopTime

TimerInv == TimerTypeOK /\ CountsReal /\ InStep

LEMMA CountToType ==
  \A max \in Nat : \A n \in 0 .. max :
    /\ CountTo(max, n) \in 0 .. max
    /\ CountTo(max, n) <= n + 1
    /\ CountTo(max, n) >= n
    /\ CountTo(max, n) = n + 1 \/ CountTo(max, n) = max
  BY DEF CountTo

LEMMA MaxTypes == SinceMax \in Nat /\ PassMax \in Nat /\ SinceMax >= TIME10MS
  BY TimerAssumption DEF SinceMax, PassMax

\* A tick, on numbers.
LEMMA TickNumbers ==
  ASSUME NEW t \in 0 .. U8 - 1
  PROVE  /\ (t + 1) % U8 \in 0 .. U8 - 1
         /\ (t + 1) % U8 <= t + 1
         /\ t + 1 < U8 => (t + 1) % U8 = t + 1
  BY TimerAssumption

LEMMA TimerInitInv == TimerInit => TimerInv
<1> SUFFICES ASSUME TimerInit PROVE TimerInv
  OBVIOUS
<1>0. U8 \in Nat /\ U8 >= 1 /\ TIME10MS \in Nat /\ TIME10MS >= 1 /\ LoopTime \in Nat
  BY TimerAssumption
<1>1. 0 \in 0 .. U8 - 1 /\ 0 \in 0 .. SinceMax /\ 0 \in 0 .. PassMax
  BY <1>0, MaxTypes
<1>2. TimerTypeOK
  BY <1>1 DEF TimerInit, TimerTypeOK
<1>3. CountsReal /\ InStep
  BY <1>0 DEF TimerInit, CountsReal, InStep
<1> QED
  BY <1>2, <1>3 DEF TimerInv

LEMMA SysTickInv == ASSUME TimerInv, SysTick PROVE TimerInv'

<1>0. /\ Timer10ms \in 0 .. U8 - 1 /\ since \in 0 .. SinceMax /\ pass \in 0 .. PassMax
      /\ overrun \in BOOLEAN /\ phase \in {"poll", "clear", "task"}
  BY DEF TimerInv, TimerTypeOK
<1>1. /\ Timer10ms' \in 0 .. U8 - 1 /\ Timer10ms' <= Timer10ms + 1
      /\ Timer10ms + 1 < U8 => Timer10ms' = Timer10ms + 1
  BY <1>0, TickNumbers DEF SysTick
<1>2. /\ since' \in 0 .. SinceMax /\ since' <= since + 1
      /\ since' = since + 1 \/ since' = SinceMax
  BY <1>0, CountToType, MaxTypes DEF SysTick
<1>3. /\ pass' \in 0 .. PassMax /\ pass' <= pass + 1
      /\ pass' = pass + 1 \/ pass' = PassMax
  BY <1>0, CountToType, MaxTypes DEF SysTick
<1>4. TimerTypeOK'
  BY <1>0, <1>1, <1>2, <1>3 DEF TimerTypeOK, SysTick
<1>5. CountsReal'
  BY <1>0, <1>1, <1>2, MaxTypes, TimerAssumption DEF TimerInv, CountsReal, SysTick
<1>6. InStep'
  <2> SUFFICES ASSUME ~overrun' PROVE InStep'
    BY DEF InStep
  <2>0. ~overrun /\ ~(pass' > LoopTime) /\ phase' = phase
    BY Zenon DEF SysTick
  <2>1. ~overrun /\ pass' <= LoopTime /\ phase' = phase
    BY <2>0, <1>3, TimerAssumption, MaxTypes
  <2>2. pass' = pass + 1
    BY <2>1, <1>3, TimerAssumption DEF PassMax
  <2>3. CASE phase = "clear"
    BY <1>0, <1>2, <2>1, <2>2, <2>3, MaxTypes DEF TimerInv, InStep
  <2>4. CASE phase # "clear"
    <3>1. Timer10ms < TIME10MS + pass /\ since <= Timer10ms + LoopTime
      BY <2>1, <2>4 DEF TimerInv, InStep
    <3>2. Timer10ms + 1 < U8
      BY <3>1, <2>1, <2>2, <1>0, TimerAssumption, MaxTypes
    <3>3. Timer10ms' = Timer10ms + 1
      BY <3>2, <1>1
    <3>4. Timer10ms' < TIME10MS + pass' /\ since' <= Timer10ms' + LoopTime
      BY <3>1, <3>3, <2>2, <1>0, <1>2, TimerAssumption, MaxTypes
    <3> QED
      BY <3>4, <2>1, <2>4 DEF InStep
  <2> QED
    BY <2>3, <2>4
<1> QED
  BY <1>4, <1>5, <1>6 DEF TimerInv

LEMMA PollInv == ASSUME TimerInv, Poll PROVE TimerInv'
<1>0. /\ Timer10ms \in 0 .. U8 - 1 /\ since \in 0 .. SinceMax /\ pass \in 0 .. PassMax
      /\ overrun \in BOOLEAN /\ phase = "poll" /\ Timer10ms' = Timer10ms /\ pass' = 0
      /\ 0 \in 0 .. SinceMax /\ 0 \in 0 .. PassMax /\ 0 <= LoopTime
      /\ TIME10MS \in Nat /\ LoopTime \in Nat
  BY MaxTypes, TimerAssumption DEF TimerInv, TimerTypeOK, Poll
<1>1. CASE Due
  <2>1. phase' = "clear" /\ since' = 0 /\ overrun' = FALSE
    BY <1>1 DEF Poll
  <2>2. TimerTypeOK'
    BY <1>0, <2>1 DEF TimerTypeOK
  <2>3. InStep'
    BY <1>0, <2>1 DEF InStep
  <2> QED
    BY <2>1, <2>2, <2>3 DEF TimerInv, CountsReal
<1>2. CASE ~Due
  BY <1>0, <1>2 DEF TimerInv, TimerTypeOK, CountsReal, InStep, Poll, Due
<1> QED
  BY <1>1, <1>2

LEMMA ClearInv == ASSUME TimerInv, Clear PROVE TimerInv'
  BY TimerAssumption, MaxTypes
  DEF TimerInv, TimerTypeOK, CountsReal, InStep, Clear

LEMMA TasksDoneInv == ASSUME TimerInv, TasksDone PROVE TimerInv'
  BY DEF TimerInv, TimerTypeOK, CountsReal, InStep, TasksDone

LEMMA TimerUnchanged == ASSUME TimerInv, UNCHANGED timer PROVE TimerInv'
  BY DEF TimerInv, TimerTypeOK, CountsReal, InStep, timer

-----------------------------------------------------------------------------
(***************************************************************************)
(* The digital input.                                                      *)
(***************************************************************************)

\* Runs of the tasks to the next check: a pll_check_time of 0 wraps around.
Left == IF pll_check_time = 0 THEN U8 ELSE pll_check_time

\* A run has set the switch to what mode and PLL status ask for.
Obeyed ==
  steady >= 1 =>
    /\ digital_analog_mode = INPUT_MODE_ANALOG => digital_nAnalog = 0
    /\ digital_analog_mode = INPUT_MODE_DIGITAL => digital_nAnalog = 1
    /\ digital_analog_mode = INPUT_MODE_AUTO =>
         /\ pll_status = "LOCK" => digital_nAnalog = 1
         /\ pll_status = "UNLOCK" => digital_nAnalog = 0

\* A status that does not tell the signal has not been wrong for longer than the
\* checks to come allow.
StatusDue ==
  /\ locked /\ pll_status # "LOCK" => steady + Left <= U8
  /\ ~locked /\ pll_status = "LOCK" => steady + Left <= U8
  /\ ~locked /\ pll_status = "CHECKING" => steady + Left <= Reaction

\* The status counts the checks without lock.
StatusCounts ==
  /\ pll_status = "CHECKING" => bad >= 1
  /\ pll_status = "UNLOCK" => bad = 2

PollsWhileRunning == phase # "poll" => running

InputInv ==
  /\ InputTypeOK /\ TimerInv
  /\ CellTellsInput /\ Obeyed /\ StatusDue /\ StatusCounts /\ PollsWhileRunning

LEMMA LeftType == ASSUME pll_check_time \in 0 .. U8 - 1 PROVE Left \in 1 .. U8
  BY TimerAssumption DEF Left

\* --pll_check_time.
LEMMA CountDown ==
  ASSUME NEW t \in 0 .. U8 - 1
  PROVE  /\ (t - 1) % U8 \in 0 .. U8 - 1
         /\ (t - 1) % U8 = 0 <=> t = 1
         /\ t = 0 => (t - 1) % U8 = U8 - 1
         /\ t > 1 => (t - 1) % U8 = t - 1
<1>0. U8 \in Nat /\ U8 >= 1
  BY TimerAssumption
<1>1. U8 >= 2
  BY PllAssumption, <1>0
<1> QED
  BY <1>0, <1>1

\* One run more, one run less to the next check.
LEMMA OneRun ==
  \A bound, s, s2, l, l2 \in Nat :
    s + l <= bound /\ s2 <= s + 1 /\ l2 = l - 1 => s2 + l2 <= bound
  OBVIOUS

LEMMA SumMonotone == \A a, b, c \in Nat : a <= b => a + c <= b + c
  OBVIOUS

\* What ak4117_ctrl does to the time left, and when it checks.
LEMMA LeftStep ==
  ASSUME InputTypeOK, Ak4117Ctrl
  PROVE  /\ pll_check_time' \in 0 .. U8 - 1
         /\ Left \in 1 .. U8 /\ Left' \in 1 .. U8
         /\ Left = 1 => /\ Left' = PLL_CHECK_TIME
                        /\ pll_status' = StatusAfterCheck
                        /\ bad' = IF locked THEN 0 ELSE CountTo(2, bad)
         /\ Left # 1 => Left' = Left - 1 /\ UNCHANGED <<pll_status, bad>>
<1> DEFINE d == (pll_check_time - 1) % U8
<1>0. U8 \in Nat /\ U8 >= 2 /\ PLL_CHECK_TIME \in 1 .. U8 - 1
  BY TimerAssumption, PllAssumption
<1>1. pll_check_time \in 0 .. U8 - 1
  BY DEF InputTypeOK
<1>2. /\ d \in 0 .. U8 - 1
      /\ d = 0 <=> pll_check_time = 1
      /\ pll_check_time = 0 => d = U8 - 1
      /\ pll_check_time > 1 => d = pll_check_time - 1
  BY <1>1, CountDown
<1>3. pll_check_time' = IF d = 0 THEN PLL_CHECK_TIME ELSE d
  BY DEF Ak4117Ctrl, CheckTimeAfter
<1>4. d = 0 <=> Left = 1
  BY <1>0, <1>1, <1>2 DEF Left
<1>5. CASE d = 0
  BY <1>0, <1>1, <1>3, <1>4, <1>5 DEF Left, Ak4117Ctrl
<1>6. CASE d # 0
  <2>1. pll_check_time' = d /\ UNCHANGED <<pll_status, bad>>
    BY <1>3, <1>6 DEF Ak4117Ctrl
  <2>2. Left' = Left - 1
    BY <1>0, <1>1, <1>2, <1>6, <2>1 DEF Left
  <2> QED
    BY <1>0, <1>1, <1>2, <1>4, <1>6, <2>1, <2>2, LeftType
<1> QED
  BY <1>5, <1>6

LEMMA StatusType ==
  ASSUME InputTypeOK
  PROVE  StatusAfterCheck \in {"LOCK", "CHECKING", "UNLOCK"}
  BY DEF StatusAfterCheck

LEMMA WantedType ==
  ASSUME InputTypeOK, NEW status
  PROVE  /\ Wanted(status) \in {0, 1}
         /\ digital_analog_mode = INPUT_MODE_ANALOG => Wanted(status) = 0
         /\ digital_analog_mode = INPUT_MODE_DIGITAL => Wanted(status) = 1
         /\ digital_analog_mode = INPUT_MODE_AUTO =>
              /\ status = "LOCK" => Wanted(status) = 1
              /\ status = "UNLOCK" => Wanted(status) = 0
  BY DEF InputTypeOK, Wanted, Mode, INPUT_MODE_ANALOG, INPUT_MODE_DIGITAL, INPUT_MODE_AUTO

LEMMA TasksInv == ASSUME InputInv, Tasks PROVE InputInv'
<1>0. InputTypeOK /\ TimerInv /\ U8 \in Nat /\ Reaction \in Nat
  BY TimerAssumption, PllAssumption DEF InputInv, Reaction
<1>1. TimerInv'
  BY <1>0, TasksDoneInv DEF Tasks
<1>2. UNCHANGED <<locked, running, digital_analog_mode>> /\ phase = "task" /\ phase' = "poll"
  BY DEF Tasks, outside, TasksDone
<1>3. /\ steady \in 0 .. Reaction /\ steady' \in 0 .. Reaction /\ steady' <= steady + 1
  BY <1>0, CountToType DEF Tasks, InputTypeOK
<1>4. /\ digital_nAnalog' = Wanted(pll_status')
      /\ mode_cell' = IF Wanted(pll_status') = digital_nAnalog
                      THEN mode_cell ELSE Wanted(pll_status')
  BY DEF Tasks, ModeInputCheck
<1>5. /\ pll_check_time' \in 0 .. U8 - 1
      /\ Left \in 1 .. U8 /\ Left' \in 1 .. U8
      /\ Left = 1 => /\ Left' = PLL_CHECK_TIME
                     /\ pll_status' = StatusAfterCheck
                     /\ bad' = IF locked THEN 0 ELSE CountTo(2, bad)
      /\ Left # 1 => Left' = Left - 1 /\ UNCHANGED <<pll_status, bad>>
  BY <1>0, LeftStep DEF Tasks
<1>6. pll_status' \in {"LOCK", "CHECKING", "UNLOCK"} /\ bad' \in 0 .. 2
  <2>1. CASE Left = 1
    <3>1. CountTo(2, bad) \in 0 .. 2
      BY <1>0, CountToType DEF InputTypeOK
    <3> QED
      BY <1>0, <1>5, <2>1, <3>1, StatusType
  <2>2. CASE Left # 1
    BY <1>0, <1>5, <2>2 DEF InputTypeOK
  <2> QED
    BY <2>1, <2>2
<1>7. InputTypeOK'
  <2>1. digital_nAnalog' \in {0, 1} /\ mode_cell' \in Mode
    BY <1>0, <1>4, WantedType
    DEF InputTypeOK, Mode, INPUT_MODE_ANALOG, INPUT_MODE_DIGITAL, INPUT_MODE_AUTO
  <2> QED
    BY <1>0, <1>1, <1>2, <1>3, <1>5, <1>6, <2>1 DEF InputTypeOK, TimerInv
<1>8. CellTellsInput'
  BY <1>0, <1>2, <1>4, WantedType
  DEF InputInv, InputTypeOK, CellTellsInput, Mode,
      INPUT_MODE_ANALOG, INPUT_MODE_DIGITAL, INPUT_MODE_AUTO
<1>9. Obeyed'
  BY <1>0, <1>2, <1>4, WantedType DEF Obeyed
<1>10. StatusCounts'
  <2>1. CASE Left = 1
    BY <1>0, <1>5, <2>1 DEF InputInv, InputTypeOK, StatusCounts, StatusAfterCheck, CountTo
  <2>2. CASE Left # 1
    BY <1>5, <2>2 DEF InputInv, StatusCounts
  <2> QED
    BY <2>1, <2>2
<1>11. StatusDue'
  <2>1. CASE Left # 1
    <3>1. \A bound \in Nat : steady + Left <= bound => steady' + Left' <= bound
      <4>1. /\ steady \in Nat /\ steady' \in Nat /\ Left \in Nat /\ Left' \in Nat
            /\ steady' <= steady + 1 /\ Left' = Left - 1
        BY <1>0, <1>3, <1>5, <2>1
      <4>2. ASSUME NEW bound \in Nat, steady + Left <= bound
            PROVE  steady' + Left' <= bound
        <5>1. \A s2, l2 \in Nat :
                s2 <= steady + 1 /\ l2 = Left - 1 => s2 + l2 <= bound
          BY <4>1, <4>2, OneRun
        <5> QED
          BY <4>1, <5>1, Zenon
      <4> QED
        BY <4>2
    <3>2. U8 \in Nat /\ Reaction \in Nat
      BY <1>0
    <3> QED
      BY <1>2, <1>5, <2>1, <3>1, <3>2 DEF InputInv, StatusDue
  <2>2. CASE Left = 1
    <3>1. CASE locked
      BY <1>2, <1>5, <2>2, <3>1 DEF StatusDue, StatusAfterCheck
    <3>2. CASE ~locked
      <4>1. pll_status' = IF pll_status = "LOCK" THEN "CHECKING" ELSE "UNLOCK"
        BY <1>5, <2>2, <3>2 DEF StatusAfterCheck
      <4>2. CASE pll_status = "LOCK"
        <5>1. steady + Left <= U8
          BY <3>2, <4>2 DEF InputInv, StatusDue
        <5>2. steady + 1 <= U8 /\ Left' = PLL_CHECK_TIME
          BY <5>1, <1>5, <2>2
        <5>3. steady' <= U8
          BY <5>2, <1>0, <1>3
        <5>4. steady' + PLL_CHECK_TIME <= U8 + PLL_CHECK_TIME
          <6>1. steady' \in Nat /\ U8 \in Nat /\ PLL_CHECK_TIME \in Nat
            BY <1>0, <1>3, PllAssumption
          <6> QED
            BY <5>3, <6>1, SumMonotone
        <5>5. steady' + Left' <= Reaction
          BY <5>4, <5>2 DEF Reaction
        <5> QED
          BY <1>2, <3>2, <4>1, <4>2, <5>5 DEF StatusDue
      <4>3. CASE pll_status # "LOCK"
        BY <1>2, <3>2, <4>1, <4>3 DEF StatusDue
      <4> QED
        BY <4>2, <4>3
    <3> QED
      BY <3>1, <3>2
  <2> QED
    BY <2>1, <2>2
<1> QED
  BY <1>1, <1>2, <1>7, <1>8, <1>9, <1>10, <1>11 DEF InputInv, PollsWhileRunning

\* Steps that leave the input's choice and the PLL alone.
LEMMA InputKept ==
  ASSUME InputInv, TimerInv', UNCHANGED <<input, pll, outside, steady>>,
         phase' # "poll" => running
  PROVE  InputInv'
  BY DEF InputInv, InputTypeOK, TimerInv, CellTellsInput, Obeyed, StatusDue, StatusCounts,
         PollsWhileRunning, Left, input, pll, outside

\* Steps after which nothing has been steady yet.
LEMMA NothingSteady ==
  ASSUME InputInv, UNCHANGED <<timer, pll, running>>, steady' = 0, locked' \in BOOLEAN,
         digital_nAnalog' \in {0, 1}, digital_analog_mode' \in Mode, mode_cell' \in Mode,
         CellTellsInput'
  PROVE  InputInv'
<1>0. U8 \in Nat /\ PLL_CHECK_TIME \in Nat
  BY TimerAssumption, PllAssumption
<1>1. Left \in 1 .. U8 /\ Left' = Left
  BY LeftType DEF InputInv, InputTypeOK, Left, pll
<1>2. Left <= U8 /\ Left <= U8 + PLL_CHECK_TIME /\ 0 + Left = Left
      /\ 0 \in 0 .. U8 + PLL_CHECK_TIME
  BY <1>0, <1>1
<1>3. StatusDue'
  BY <1>1, <1>2 DEF StatusDue, Reaction
<1>4. Obeyed'
  BY DEF Obeyed
<1>5. TimerInv'
  BY TimerUnchanged DEF InputInv
<1>6. InputTypeOK'
  BY <1>2, <1>5 DEF InputInv, InputTypeOK, TimerInv, pll, Reaction
<1> QED
  BY <1>3, <1>4, <1>5, <1>6
  DEF InputInv, StatusCounts, PollsWhileRunning, pll, timer

LEMMA InputInitInv == InputInit => InputInv
<1> SUFFICES ASSUME InputInit PROVE InputInv
  OBVIOUS
<1>0. U8 \in Nat /\ U8 >= 2 /\ PLL_CHECK_TIME \in Nat
  BY TimerAssumption, PllAssumption
<1>1. TimerInv
  BY TimerInitInv DEF InputInit
<1>2. 0 \in 0 .. U8 - 1 /\ 0 \in 0 .. Reaction
  BY <1>0 DEF Reaction
<1>3. InputTypeOK
  <2>1. running \in BOOLEAN /\ locked \in BOOLEAN
    BY Zenon DEF InputInit
  <2>2. mode_cell \in Mode /\ digital_analog_mode \in Mode
    BY Zenon DEF InputInit
  <2>3. digital_nAnalog \in {0, 1} /\ pll_status \in {"LOCK", "CHECKING", "UNLOCK"}
        /\ bad \in 0 .. 2 /\ pll_check_time \in 0 .. U8 - 1 /\ steady \in 0 .. Reaction
    BY <1>2 DEF InputInit
  <2> QED
    BY <1>1, <2>1, <2>2, <2>3, Zenon DEF InputTypeOK, TimerInv
<1>4. Left = U8 /\ steady + Left <= U8 /\ steady + Left <= Reaction
  BY <1>0 DEF InputInit, Left, Reaction
<1> QED
  BY <1>1, <1>3, <1>4
  DEF InputInit, TimerInit, InputInv, CellTellsInput, Obeyed, StatusDue, StatusCounts,
      PollsWhileRunning

LEMMA InputPowerCutInv == ASSUME InputInv, InputPowerCut PROVE InputInv'
<1>0. U8 \in Nat /\ U8 >= 2 /\ PLL_CHECK_TIME \in Nat /\ TIME10MS >= 1 /\ TIME10MS \in Nat
      /\ LoopTime \in Nat
  BY TimerAssumption, PllAssumption
<1>2. 0 \in 0 .. U8 - 1 /\ 0 \in 0 .. Reaction /\ 0 \in 0 .. SinceMax /\ 0 \in 0 .. PassMax
  BY <1>0, MaxTypes DEF Reaction
<1>1. TimerInv'
  <2>1. overrun' \in BOOLEAN
    BY Zenon DEF InputPowerCut
  <2>2. Timer10ms' = 0 /\ phase' = "poll" /\ since' = 0 /\ pass' = 0
    BY DEF InputPowerCut
  <2>3. TimerTypeOK'
    BY <1>2, <2>1, <2>2, Zenon DEF TimerTypeOK
  <2>4. CountsReal' /\ InStep'
    BY <1>0, <2>2 DEF CountsReal, InStep
  <2> QED
    BY <2>3, <2>4 DEF TimerInv
<1>3. InputTypeOK'
  <2>1. running' \in BOOLEAN /\ locked' \in BOOLEAN
    BY Zenon DEF InputPowerCut, InputInv, InputTypeOK
  <2>2. mode_cell' \in Mode /\ digital_analog_mode' \in Mode
    BY Zenon DEF InputPowerCut, InputInv, InputTypeOK
  <2>3. digital_nAnalog' \in {0, 1} /\ pll_status' \in {"LOCK", "CHECKING", "UNLOCK"}
        /\ bad' \in 0 .. 2 /\ pll_check_time' \in 0 .. U8 - 1 /\ steady' \in 0 .. Reaction
    BY <1>2 DEF InputPowerCut, Zeroed
  <2> QED
    BY <1>1, <2>1, <2>2, <2>3, Zenon DEF InputTypeOK, TimerInv
<1>4. Left' = U8 /\ steady' = 0 /\ 0 + U8 <= U8 /\ 0 + U8 <= Reaction
  BY <1>0 DEF InputPowerCut, Zeroed, Left, Reaction
<1> QED
  BY <1>1, <1>3, <1>4
  DEF InputPowerCut, Zeroed, InputInv, CellTellsInput, Obeyed, StatusDue, StatusCounts,
      PollsWhileRunning

LEMMA InputInvInductive == ASSUME InputInv, [InputNext]_inputVars PROVE InputInv'
<1>0. TimerInv /\ InputTypeOK
  BY DEF InputInv
<1>1. CASE SysTick /\ UNCHANGED <<input, pll, outside, steady>>
  BY <1>0, <1>1, SysTickInv, InputKept DEF InputInv, PollsWhileRunning, SysTick
<1>2. CASE running /\ Poll /\ UNCHANGED <<input, pll, outside, steady>>
  BY <1>0, <1>2, PollInv, InputKept
<1>3. CASE Clear /\ UNCHANGED <<input, pll, outside, steady>>
  BY <1>0, <1>3, ClearInv, InputKept DEF InputInv, PollsWhileRunning, Clear
<1>4. CASE Tasks
  BY <1>4, TasksInv
<1>5. ASSUME NEW mode \in Mode, ExecInputSelMode(mode) PROVE InputInv'
  <2>1. CellTellsInput'
    BY <1>5 DEF ExecInputSelMode, CellTellsInput
  <2> QED
    BY <1>0, <1>5, <2>1, NothingSteady DEF ExecInputSelMode, InputTypeOK, outside
<1>6. CASE PowerStatusChanges
  <2>1. TimerInv'
    BY <1>0, <1>6, TimerUnchanged DEF PowerStatusChanges
  <2> QED
    BY <1>6, <2>1
    DEF InputInv, InputTypeOK, TimerInv, CellTellsInput, Obeyed, StatusDue, StatusCounts,
        PollsWhileRunning, Left, input, pll, timer, PowerStatusChanges
<1>7. CASE SignalChanges
  <2>1. CellTellsInput'
    BY <1>7 DEF SignalChanges, InputInv, CellTellsInput, input
  <2> QED
    BY <1>0, <1>7, <2>1, NothingSteady DEF SignalChanges, InputTypeOK, input
<1>8. CASE InputPowerCut
  BY <1>8, InputPowerCutInv
<1>9. CASE UNCHANGED inputVars
  <2>1. TimerInv'
    BY <1>0, <1>9, TimerUnchanged DEF inputVars
  <2> QED
    BY <1>9, <2>1, InputKept DEF inputVars, InputInv, PollsWhileRunning, timer
<1> QED
  BY <1>1, <1>2, <1>3, <1>4, <1>5, <1>6, <1>7, <1>8, <1>9 DEF InputNext

LEMMA InputInvariant == InputSpec => []InputInv
  BY InputInitInv, InputInvInductive, PTL DEF InputSpec

\* The variables keep their types, the two bytes their width.
THEOREM InputTypeCorrect == InputSpec => []InputTypeOK
<1>1. InputInv => InputTypeOK
  BY DEF InputInv
<1> QED
  BY <1>1, InputInvariant, PTL

\* A restart finds the mode in its cell, or the input automatic mode chose last.
THEOREM RestartFindsInput == InputSpec => []CellTellsInput
<1>1. InputInv => CellTellsInput
  BY DEF InputInv
<1> QED
  BY <1>1, InputInvariant, PTL

\* The switch follows mode and signal within Reaction runs of the tasks, for any
\* period of the checks and any width of the counter.
THEOREM SwitchFollows == InputSpec => []FollowsSignal
<1>1. ASSUME InputInv PROVE FollowsSignal
  <2> SUFFICES ASSUME steady = Reaction PROVE FollowsSignal
    BY DEF FollowsSignal
  <2>0. /\ U8 \in Nat /\ PLL_CHECK_TIME \in Nat \ {0} /\ Left \in 1 .. U8
        /\ digital_analog_mode \in Mode
    BY <1>1, LeftType, TimerAssumption, PllAssumption DEF InputInv, InputTypeOK
  <2>1. ~(steady + Left <= U8) /\ ~(steady + Left <= Reaction) /\ steady >= 1
    BY <2>0 DEF Reaction
  <2>2. /\ locked => pll_status = "LOCK"
        /\ ~locked => pll_status = "UNLOCK"
    BY <1>1, <2>1 DEF InputInv, InputTypeOK, StatusDue
  <2> QED
    BY <1>1, <2>0, <2>1, <2>2
    DEF InputInv, Obeyed, FollowsSignal, Mode,
        INPUT_MODE_ANALOG, INPUT_MODE_DIGITAL, INPUT_MODE_AUTO
<1> QED
  BY <1>1, InputInvariant, PTL

\* Automatic mode leaves the digital input only after two checks without lock.
THEOREM GapsAreBridged == InputSpec => GapIsBridged
<1> DEFINE A == running' /\ phase = "task" /\ digital_analog_mode = INPUT_MODE_AUTO
                /\ digital_nAnalog = 1 /\ digital_nAnalog' = 0 => bad' = 2
<1>1. ASSUME InputInv, [InputNext]_inputVars PROVE A
  <2> SUFFICES ASSUME running', phase = "task", digital_analog_mode = INPUT_MODE_AUTO,
                      digital_nAnalog = 1, digital_nAnalog' = 0
               PROVE  bad' = 2
    OBVIOUS
  <2>1. InputInv'
    BY <1>1, InputInvInductive
  <2>2. Tasks
    BY <1>1 DEF InputNext, ExecInputSelMode, PowerStatusChanges, SignalChanges,
                InputPowerCut, Poll, Clear, input, inputVars
  <2>3. digital_nAnalog' = Wanted(pll_status')
    BY <2>2 DEF Tasks, ModeInputCheck
  <2>4. pll_status' = "UNLOCK"
    BY <2>1, <2>3 DEF InputInv, InputTypeOK, Wanted,
                      INPUT_MODE_ANALOG, INPUT_MODE_DIGITAL, INPUT_MODE_AUTO
  <2> QED
    BY <2>1, <2>4 DEF InputInv, StatusCounts
<1>2. InputInv /\ [InputNext]_inputVars => [A]_inputVars
  BY <1>1
<1> QED
  BY <1>2, InputInvariant, PTL DEF InputSpec, GapIsBridged

\* The tasks run in time while the passes of the loop are short enough for the
\* byte, whatever their length and the byte's width.
THEOREM TasksOnTime == InputSpec => []OnTime
<1>1. ASSUME InputInv PROVE OnTime
  <2>0. /\ U8 \in Nat /\ TIME10MS \in Nat \ {0} /\ LoopTime \in Nat
        /\ Timer10ms \in Nat /\ pass \in Nat /\ since \in Nat
    BY <1>1, TimerAssumption, MaxTypes DEF InputInv, TimerInv, TimerTypeOK
  <2> QED
    BY <1>1, <2>0 DEF InputInv, TimerInv, InStep, OnTime
<1> QED
  BY <1>1, InputInvariant, PTL

\* The tasks never run twice within TIME10MS.
THEOREM TasksNeverEarly == InputSpec => NeverEarly
<1> DEFINE A == phase = "poll" /\ phase' = "clear" => since >= TIME10MS
<1>1. ASSUME InputInv, [InputNext]_inputVars PROVE A
  <2> SUFFICES ASSUME phase = "poll", phase' = "clear" PROVE since >= TIME10MS
    OBVIOUS
  <2>1. Poll
    BY <1>1 DEF InputNext, SysTick, Clear, Tasks, TasksDone, ExecInputSelMode,
                PowerStatusChanges, SignalChanges, InputPowerCut, timer, inputVars
  <2>2. Timer10ms >= TIME10MS
    BY <2>1 DEF Poll, Due
  <2>3. Timer10ms \in Nat /\ since \in Nat /\ TIME10MS \in Nat
    BY <1>1, TimerAssumption, MaxTypes DEF InputInv, TimerInv, TimerTypeOK
  <2>4. Timer10ms <= since \/ since = SinceMax
    BY <1>1 DEF InputInv, TimerInv, CountsReal
  <2> QED
    BY <2>2, <2>3, <2>4, MaxTypes
<1>2. InputInv /\ [InputNext]_inputVars => [A]_timer
  BY <1>1
<1> QED
  BY <1>2, InputInvariant, PTL DEF InputSpec, NeverEarly

-----------------------------------------------------------------------------
(***************************************************************************)
(* The volume: what the balance does to a register.                        *)
(***************************************************************************)

LEMMA RegisterByte == \A x \in Int : Register(x) \in Byte
  BY DEF Register, Byte

LEMMA PlainByte == \A v \in 0 .. MaxVolume : Plain(v) \in Byte
<1> SUFFICES ASSUME NEW v \in 0 .. MaxVolume PROVE Plain(v) \in Byte
  OBVIOUS
<1>1. v \in Int /\ 255 \in Byte
  BY DEF MaxVolume, Byte
<1> QED
  BY <1>1, RegisterByte DEF Plain

\* Within the balance's range a side that is turned down finds its value in
\* the table, and beyond it some byte.
LEMMA AdjustmentRange ==
  ASSUME NEW side \in Side, NEW v \in 0 .. MaxVolume, NEW b \in Byte, TurnedDown(side, b)
  PROVE  /\ Adjustment(v, b) \subseteq Byte
         /\ b <= BALANCE_MAX => Adjustment(v, b) \subseteq 0 .. 32
<1>1. CASE b > BALANCE_MAX
  BY <1>1, AudioAssumption DEF Adjustment, BALANCE_MAX, Byte
<1>2. CASE b <= BALANCE_MAX
  <2>1. Inx(b) \in 1 .. 15
    BY <1>2 DEF Inx, TurnedDown, BALANCE_MAX, Byte
  <2>2. FirstRow[Inx(b)] \in 0 .. 32 /\ OtherRows[Inx(b)] \in 0 .. 32
    BY <2>1 DEF FirstRow, OtherRows
  <2>3. Adjustment(v, b) \subseteq 0 .. 32
    BY <1>2, <2>2 DEF Adjustment, BALANCE_MAX, Byte
  <2> QED
    BY <2>3 DEF Byte
<1> QED
  BY <1>1, <1>2 DEF BALANCE_MAX, Byte

LEMMA AdjustedInt == \A v \in 0 .. MaxVolume, adj \in Byte : Adjusted(v, adj) \in Int
  BY DEF Adjusted, MaxVolume, Byte

LEMMA BalancedBytes ==
  ASSUME NEW side \in Side, NEW v \in 0 .. MaxVolume, NEW b \in Byte
  PROVE  Balanced(side, v, b) \subseteq Byte
<1>1. CASE v # 0 /\ TurnedDown(side, b)
  <2> SUFFICES ASSUME NEW adj \in Adjustment(v, b) PROVE Register(Adjusted(v, adj)) \in Byte
    BY <1>1 DEF Balanced
  <2>1. adj \in Byte
    BY <1>1, AdjustmentRange
  <2> QED
    BY <2>1, AdjustedInt, RegisterByte
<1>2. CASE ~(v # 0 /\ TurnedDown(side, b))
  BY <1>2, PlainByte DEF Balanced
<1> QED
  BY <1>1, <1>2

LEMMA BalancedSome ==
  ASSUME NEW side \in Side, NEW v \in 0 .. MaxVolume, NEW b \in Byte, NEW c \in Balanced(side, v, b),
         b <= BALANCE_MAX, ~PassesZero(side, v, b)
  PROVE  c = 0 \/ c >= Plain(v)
<1>1. CASE v # 0 /\ TurnedDown(side, b)
  <2>1. PICK adj \in Adjustment(v, b) : c = Register(Adjusted(v, adj))
    BY <1>1 DEF Balanced
  <2>2. adj \in 0 .. 32
    BY <1>1, AdjustmentRange
  <2>3. CASE adj > 0 /\ 2 * v > adj
    <3>0. adj <= v
      BY <1>1, <2>1, <2>2, <2>3 DEF PassesZero, MaxVolume
    <3>1. Adjusted(v, adj) = v - adj /\ v - adj \in 0 .. 95 /\ v - adj < v
      BY <2>2, <2>3, <3>0 DEF Adjusted, MaxVolume
    <3>2. c = (256 - 2 * (v - adj)) % 256
      BY <2>1, <3>1 DEF Register
    <3>3. Plain(v) = 256 - 2 * v
      BY <1>1 DEF Plain, Register, MaxVolume
    <3>4. \A n \in 0 .. 95 : (256 - 2 * n) % 256 = IF n = 0 THEN 0 ELSE 256 - 2 * n
      OBVIOUS
    <3>5. c = 0 \/ c = 256 - 2 * (v - adj)
      BY <3>1, <3>2, <3>4
    <3> QED
      BY <3>1, <3>3, <3>5, <2>2 DEF MaxVolume
  <2>4. CASE ~(adj > 0 /\ 2 * v > adj)
    BY <2>1, <2>4 DEF Adjusted, Register
  <2> QED
    BY <2>3, <2>4
<1>2. CASE ~(v # 0 /\ TurnedDown(side, b))
  BY <1>2, PlainByte DEF Balanced, Byte
<1> QED
  BY <1>1, <1>2

-----------------------------------------------------------------------------
(***************************************************************************)
(* The volume: the inductive invariant.                                    *)
(***************************************************************************)

LevelsOK ==
  /\ volume \in [Side -> 0 .. MaxVolume]
  /\ vol \in 0 .. MaxVolume
  /\ balance \in Byte
  /\ chip \in [Side -> Byte]
  /\ cell \in [Side -> 0 .. MaxVolume]
  /\ lost \subseteq Side
  /\ power \in {"initial", "on", "off"}
  /\ programmed \in BOOLEAN

\* vol is what a step, or a change of balance, starts from.
EqualVolumesAgree ==
  programmed /\ volume["left"] = volume["right"] => vol = volume["left"]

Kept(s) == cell[s] = volume[s]

\* What is still to be written is what the memory holds, and the other cells
\* hold it already, or have missed it.
CellsFollow ==
  \/ writes = <<>> /\ \A s \in Side \ lost : Kept(s)
  \/ \E t \in Side : /\ writes = <<<<t, volume[t]>>>>
                     /\ \A s \in Side \ lost : s # t => Kept(s)
  \/ writes = <<<<"left", volume["left"]>>, <<"right", volume["right"]>>>>

AudioInv == LevelsOK /\ EqualVolumesAgree /\ ChipFollows /\ CellsFollow

LEMMA VolCtrlInv ==
  ASSUME AudioInv, writes = <<>>, NEW v \in Nat, NEW b \in Byte, VolCtrl(v, b),
         balance' = b, UNCHANGED stored,
         power' \in {"initial", "on", "off"}, programmed' \in BOOLEAN,
         ~IsVolume(v) => b = balance /\ programmed' = programmed
  PROVE  AudioInv'
<1>1. CASE IsVolume(v)
  <2>0. v \in 0 .. MaxVolume
    BY <1>1 DEF IsVolume, MaxVolume
  <2>1. PICK l \in Balanced("left", v, b), r \in Balanced("right", v, b) :
           chip' = [s \in Side |-> IF s = "left" THEN l ELSE r]
    BY <1>1 DEF VolCtrl
  <2>2. /\ vol' = v /\ volume' = [s \in Side |-> v]
        /\ writes' = <<<<"left", v>>, <<"right", v>>>>
    BY <1>1 DEF VolCtrl
  <2>3. l \in Byte /\ r \in Byte
    BY <2>0, BalancedBytes DEF Side
  <2>4. LevelsOK'
    <3>1. chip' \in [Side -> Byte]
      BY <2>1, <2>3
    <3>2. volume' \in [Side -> 0 .. MaxVolume] /\ vol' \in 0 .. MaxVolume
      BY <2>0, <2>2
    <3>3. cell' \in [Side -> 0 .. MaxVolume] /\ lost' \subseteq Side
      BY DEF AudioInv, LevelsOK, stored
    <3> QED
      BY <3>1, <3>2, <3>3, Zenon DEF LevelsOK
  <2>5. volume'["left"] = v /\ volume'["right"] = v
    BY <2>2 DEF Side
  <2>6. ChipFollows'
    <3>1. chip'["left"] = l /\ chip'["right"] = r
      BY <2>1 DEF Side
    <3>2. \A s \in Side : chip'[s] \in Balanced(s, volume'[s], balance')
      BY <2>1, <2>5, <3>1 DEF Side
    <3> QED
      BY <3>2 DEF ChipFollows
  <2>7. EqualVolumesAgree' /\ CellsFollow'
    BY <2>2, <2>5 DEF EqualVolumesAgree, CellsFollow
  <2> QED
    BY <2>4, <2>6, <2>7 DEF AudioInv
<1>2. CASE ~IsVolume(v)
  <2>1. UNCHANGED <<vol, volume, chip, writes, balance, cell, lost>> /\ programmed' = programmed
    BY <1>2 DEF VolCtrl, stored
  <2> QED
    BY <2>1 DEF AudioInv, LevelsOK, EqualVolumesAgree, ChipFollows, CellsFollow, Kept
<1> QED
  BY <1>1, <1>2

LEMMA SideCtrlInv ==
  ASSUME AudioInv, writes = <<>>, NEW side \in Side, NEW v \in Nat, SideCtrl(side, v),
         UNCHANGED <<balance, stored, power, programmed>>
  PROVE  AudioInv'
<1>1. CASE IsVolume(v)
  <2> DEFINE new == [volume EXCEPT ![side] = v]
  <2>0. v \in 0 .. MaxVolume /\ volume \in [Side -> 0 .. MaxVolume]
        /\ chip \in [Side -> Byte]
    BY <1>1 DEF IsVolume, MaxVolume, AudioInv, LevelsOK
  <2>1. /\ volume' = new /\ vol' = NewVol(new)
        /\ chip' = [chip EXCEPT ![side] = Plain(v)]
        /\ writes' = <<<<side, v>>>>
    BY <1>1 DEF SideCtrl
  <2>2. /\ volume' \in [Side -> 0 .. MaxVolume] /\ volume'[side] = v
        /\ \A s \in Side : s # side => volume'[s] = volume[s]
    BY <2>0, <2>1
  <2>3. /\ chip' \in [Side -> Byte] /\ chip'[side] = Plain(v)
        /\ \A s \in Side : s # side => chip'[s] = chip[s]
    BY <2>0, <2>1, PlainByte
  <2>4. vol' = IF volume'["left"] = volume'["right"] THEN volume'["left"] ELSE vol
    BY <2>1 DEF NewVol
  <2>5. LevelsOK'
    BY <2>2, <2>3, <2>4 DEF LevelsOK, AudioInv, stored, Side
  <2>6. EqualVolumesAgree'
    BY <2>4 DEF EqualVolumesAgree
  <2>7. ChipFollows'
    BY <2>2, <2>3 DEF AudioInv, ChipFollows
  <2>8. CellsFollow'
    <3>1. \A s \in Side \ lost : Kept(s)
      BY DEF AudioInv, CellsFollow
    <3>2. \A s \in Side \ lost' : s # side => Kept(s)'
      BY <2>2, <3>1 DEF Kept, stored
    <3>3. writes' = <<<<side, volume'[side]>>>>
      BY <2>1, <2>2
    <3> QED
      BY <3>2, <3>3 DEF CellsFollow
  <2> QED
    BY <2>5, <2>6, <2>7, <2>8 DEF AudioInv
<1>2. CASE ~IsVolume(v)
  <2>1. UNCHANGED <<vol, volume, chip, writes, balance, cell, lost, power, programmed>>
    BY <1>2 DEF SideCtrl, stored
  <2> QED
    BY <2>1 DEF AudioInv, LevelsOK, EqualVolumesAgree, ChipFollows, CellsFollow, Kept
<1> QED
  BY <1>1, <1>2

LEMMA AudioUnchanged ==
  ASSUME AudioInv, UNCHANGED <<levels, stored, writes, programmed>>,
         power' \in {"initial", "on", "off"}
  PROVE  AudioInv'
  BY DEF AudioInv, LevelsOK, EqualVolumesAgree, ChipFollows, CellsFollow, Kept, levels, stored

LEMMA BalanceCtrlInv ==
  ASSUME AudioInv, Command, NEW b \in Byte, BalanceCtrl(b)
  PROVE  AudioInv'
<1>0. /\ writes = <<>> /\ UNCHANGED <<stored, power, programmed>>
      /\ vol \in 0 .. MaxVolume /\ power \in {"initial", "on", "off"}
      /\ programmed \in BOOLEAN
  BY Zenon DEF Command, AudioInv, LevelsOK
<1>1. CASE volume["left"] = volume["right"]
  <2>1. balance' = b /\ VolCtrl(vol, b)
    BY <1>1 DEF BalanceCtrl
  <2>2. vol \in Nat /\ IsVolume(vol)
    BY <1>0 DEF IsVolume, MaxVolume
  <2> QED
    BY <1>0, <2>1, <2>2, VolCtrlInv
<1>2. CASE volume["left"] # volume["right"]
  BY <1>0, <1>2, AudioUnchanged DEF BalanceCtrl
<1> QED
  BY <1>1, <1>2

LEMMA ByteSteps ==
  \A n \in Nat : /\ (n + 1) % 256 \in Byte /\ (n - 1) % 256 \in Byte
                 /\ (15 - n) % 256 \in Byte /\ (15 + n) % 256 \in Byte
  BY DEF Byte

LEMMA StoreInv == ASSUME AudioInv, Store PROVE AudioInv'
<1>0. /\ writes # <<>> /\ writes' = Tail(writes)
      /\ UNCHANGED <<volume, vol, balance, chip, power, programmed>>
      /\ cell \in [Side -> 0 .. MaxVolume] /\ volume \in [Side -> 0 .. MaxVolume]
      /\ lost \subseteq Side
  BY DEF Store, AudioInv, LevelsOK, levels
<1>1. PICK t \in Side :
        /\ Head(writes) = <<t, volume[t]>>
        /\ \/ Tail(writes) = <<>> /\ \A s \in Side \ lost : s # t => Kept(s)
           \/ t = "left" /\ Tail(writes) = <<<<"right", volume["right"]>>>>
  <2>1. CASE \E u \in Side : /\ writes = <<<<u, volume[u]>>>>
                             /\ \A s \in Side \ lost : s # u => Kept(s)
    BY <2>1
  <2>2. CASE writes = <<<<"left", volume["left"]>>, <<"right", volume["right"]>>>>
    BY <2>2 DEF Side
  <2> QED
    BY <1>0, <2>1, <2>2 DEF AudioInv, CellsFollow
<1>2. \/ cell' = [cell EXCEPT ![t] = volume[t]] /\ lost' = lost \ {t}
      \/ lost' = lost \cup {t} /\ cell' = cell
  BY <1>1 DEF Store
<1>3. cell' \in [Side -> 0 .. MaxVolume] /\ lost' \subseteq Side
  BY <1>0, <1>2
<1>4. t \in lost' \/ cell'[t] = volume[t]
  BY <1>0, <1>2
<1>5. \A s \in Side : s # t => cell'[s] = cell[s] /\ (s \in lost' <=> s \in lost)
  BY <1>0, <1>2
<1>6. LevelsOK' /\ EqualVolumesAgree' /\ ChipFollows'
  BY <1>0, <1>3 DEF AudioInv, LevelsOK, EqualVolumesAgree, ChipFollows
<1>7. CellsFollow'
  BY <1>0, <1>1, <1>4, <1>5 DEF CellsFollow, Kept, Side
<1> QED
  BY <1>6, <1>7 DEF AudioInv

LEMMA ModeStatusInitialInv == ASSUME AudioInv, ModeStatusInitial PROVE AudioInv'
<1>0. /\ writes = <<>> /\ UNCHANGED <<balance, stored>>
      /\ power' = "on" /\ programmed' = TRUE
      /\ volume \in [Side -> 0 .. MaxVolume] /\ balance \in Byte
  BY Zenon DEF ModeStatusInitial, AudioInv, LevelsOK
<1>1. volume["left"] \in 0 .. MaxVolume /\ volume["right"] \in 0 .. MaxVolume
  BY <1>0 DEF Side
<1>2. CASE volume["left"] = volume["right"]
  <2>1. VolCtrl(volume["left"], balance)
    BY <1>2 DEF ModeStatusInitial
  <2>2. volume["left"] \in Nat /\ IsVolume(volume["left"])
    BY <1>1 DEF IsVolume, MaxVolume
  <2>3. balance' = balance /\ UNCHANGED stored /\ programmed' \in BOOLEAN
        /\ power' \in {"initial", "on", "off"}
    BY <1>0, Zenon
  <2> QED
    BY <1>0, <2>1, <2>2, <2>3, VolCtrlInv
<1>3. CASE volume["left"] # volume["right"]
  <2>1. /\ chip' = [s \in Side |-> Plain(volume[s])]
        /\ writes' = <<<<"left", volume["left"]>>, <<"right", volume["right"]>>>>
        /\ UNCHANGED <<volume, vol>>
    BY <1>3 DEF ModeStatusInitial
  <2>2. chip' \in [Side -> Byte]
    BY <2>1, <1>0, PlainByte
  <2>3. LevelsOK'
    BY <1>0, <2>1, <2>2 DEF AudioInv, LevelsOK, stored
  <2> QED
    BY <1>3, <2>1, <2>3 DEF AudioInv, EqualVolumesAgree, ChipFollows, CellsFollow
<1> QED
  BY <1>2, <1>3

LEMMA BootLevels ==
  ASSUME NEW f \in [Side -> 0 .. MaxVolume]
  PROVE  /\ [s \in Side |-> 0] \in [Side -> Byte]
         /\ 0 \in 0 .. MaxVolume
         /\ StoredBalance \in Byte
  BY AudioAssumption DEF Byte, MaxVolume

LEMMA AudioInitInv == Init => AudioInv
<1> SUFFICES ASSUME Init PROVE AudioInv
  OBVIOUS
<1>1. cell \in [Side -> 0 .. MaxVolume] /\ volume = cell
  BY DEF Init
<1>2. LevelsOK
  BY <1>1, BootLevels DEF Init, LevelsOK
<1> QED
  BY <1>1, <1>2 DEF Init, AudioInv, EqualVolumesAgree, ChipFollows, CellsFollow, Kept

LEMMA PowerCutInv == ASSUME AudioInv, PowerCut PROVE AudioInv'
<1>1. cell' \in [Side -> 0 .. MaxVolume] /\ volume' = cell'
  BY DEF PowerCut, AudioInv, LevelsOK
<1>2. LevelsOK'
  BY <1>1, BootLevels DEF PowerCut, LevelsOK
<1> QED
  BY <1>1, <1>2 DEF PowerCut, AudioInv, EqualVolumesAgree, ChipFollows, CellsFollow, Kept

\* What each volume command gives njw1194_vol_ctrl, or njw1194_vol_ctrl_l/_r.
LEMMA VolumeCommands ==
  ASSUME AudioInv, Command, UNCHANGED balance, NEW v \in Byte,
         VolCtrl(v, balance) \/ \E side \in Side : SideCtrl(side, v)
  PROVE  AudioInv'
<1>0. /\ writes = <<>> /\ UNCHANGED <<stored, power, programmed>> /\ v \in Nat
      /\ balance \in Byte
  BY DEF Command, AudioInv, LevelsOK, Byte
<1>1. power' \in {"initial", "on", "off"} /\ programmed' \in BOOLEAN
      /\ balance' = balance /\ UNCHANGED stored /\ programmed' = programmed
  BY <1>0, Zenon DEF AudioInv, LevelsOK
<1>2. CASE VolCtrl(v, balance)
  BY <1>0, <1>1, <1>2, VolCtrlInv
<1>3. CASE \E side \in Side : SideCtrl(side, v)
  BY <1>0, <1>3, SideCtrlInv
<1> QED
  BY <1>2, <1>3

\* What each balance command gives njw1194_balance_ctrl.
LEMMA BalanceCommands ==
  ASSUME AudioInv,
         (\E data \in BalanceArg : BalanceSet(data)) \/ BalanceRight \/ BalanceLeft
  PROVE  Command /\ \/ \E b \in Byte : BalanceCtrl(b)
                    \/ UNCHANGED <<levels, writes>>
<1>0. balance \in Byte /\ balance \in Nat
  BY DEF AudioInv, LevelsOK, Byte
<1>1. ASSUME NEW data \in BalanceArg, BalanceSet(data)
      PROVE  Command /\ \E b \in Byte : BalanceCtrl(b)
  <2>1. data \in Nat
    BY AudioAssumption DEF Byte
  <2>2. (15 - data) % 256 \in Byte /\ (15 + data) % 256 \in Byte
    BY <2>1, ByteSteps
  <2>3. PICK b \in {(15 - data) % 256, (15 + data) % 256} :
           BalanceCtrl(IF balance <= BALANCE_MAX THEN b ELSE balance)
    BY <1>1, Zenon DEF BalanceSet
  <2>4. (IF balance <= BALANCE_MAX THEN b ELSE balance) \in Byte
    BY <1>0, <2>2, <2>3
  <2> QED
    BY <1>1, <2>3, <2>4, Zenon DEF BalanceSet
<1>2. CASE BalanceRight
  <2>1. (balance + 1) % 256 \in Byte
    BY <1>0, ByteSteps
  <2> QED
    BY <1>2, <2>1, Zenon DEF BalanceRight
<1>3. CASE BalanceLeft
  <2>1. CASE balance = 0
    BY <1>3, <2>1, Zenon DEF BalanceLeft
  <2>2. CASE balance # 0
    <3>1. balance - 1 \in Byte
      BY <1>0, <2>2 DEF Byte
    <3> QED
      BY <1>3, <2>2, <3>1, Zenon DEF BalanceLeft
  <2> QED
    BY <2>1, <2>2
<1> QED
  BY <1>1, <1>2, <1>3

LEMMA AudioInvInductive == ASSUME AudioInv, [Next]_vars PROVE AudioInv'
<1>0. /\ volume \in [Side -> 0 .. MaxVolume] /\ vol \in Nat
      /\ power \in {"initial", "on", "off"}
  BY DEF AudioInv, LevelsOK, MaxVolume
<1>1. ASSUME NEW v \in VolumeValue, VolumeSet(v) PROVE AudioInv'
  BY <1>1, AudioAssumption, VolumeCommands DEF VolumeSet
<1>2. CASE VolumeUp
  BY <1>0, <1>2, ByteSteps, VolumeCommands DEF VolumeUp
<1>3. CASE VolumeDown
  BY <1>0, <1>3, ByteSteps, VolumeCommands DEF VolumeDown
<1>4. ASSUME NEW side \in Side, SideUp(side) \/ SideDown(side) PROVE AudioInv'
  <2>1. volume[side] \in Nat
    BY <1>0 DEF MaxVolume
  <2>2. (volume[side] + 1) % 256 \in Byte /\ (volume[side] - 1) % 256 \in Byte
    BY <2>1, ByteSteps
  <2> QED
    BY <1>4, <2>2, VolumeCommands DEF SideUp, SideDown
<1>5. ASSUME NEW side \in Side, NEW v \in VolumeValue, SideSet(side, v) PROVE AudioInv'
  BY <1>5, AudioAssumption, VolumeCommands DEF SideSet
<1>6. CASE (\E data \in BalanceArg : BalanceSet(data)) \/ BalanceRight \/ BalanceLeft
  <2>1. CASE \E b \in Byte : BalanceCtrl(b)
    BY <1>6, <2>1, BalanceCommands, BalanceCtrlInv
  <2>2. CASE UNCHANGED <<levels, writes>>
    BY <1>0, <1>6, <2>2, BalanceCommands, AudioUnchanged DEF Command
  <2> QED
    BY <1>6, <2>1, <2>2, BalanceCommands
<1>7. CASE Store
  BY <1>7, StoreInv
<1>8. CASE PowerOn \/ PowerOff
  BY <1>8, AudioUnchanged DEF PowerOn, PowerOff
<1>9. CASE ModeStatusInitial
  BY <1>9, ModeStatusInitialInv
<1>10. CASE PowerCut
  BY <1>10, PowerCutInv
<1>11. CASE UNCHANGED vars
  BY <1>0, <1>11, AudioUnchanged DEF vars
<1> QED
  BY <1>1, <1>2, <1>3, <1>4, <1>5, <1>6, <1>7, <1>8, <1>9, <1>10, <1>11 DEF Next

LEMMA AudioInvariant == Spec => []AudioInv
  BY AudioInitInv, AudioInvInductive, PTL DEF Spec

-----------------------------------------------------------------------------
(***************************************************************************)
(* The volume: the theorems.                                               *)
(***************************************************************************)

LEMMA ShortSequences ==
  \A S : \A x, y \in S : <<x>> \in Seq(S) /\ <<x, y>> \in Seq(S)
  OBVIOUS

\* Volumes stay in range and the other bytes within their width.
THEOREM AudioTypeCorrect == Spec => []TypeOK
<1>1. AudioInv => TypeOK
  <2> SUFFICES ASSUME AudioInv PROVE TypeOK
    OBVIOUS
  <2>1. volume["left"] \in 0 .. MaxVolume /\ volume["right"] \in 0 .. MaxVolume
        /\ \A s \in Side : volume[s] \in 0 .. MaxVolume
    BY DEF AudioInv, LevelsOK, Side
  <2>2. writes \in Seq(Side \X (0 .. MaxVolume))
    <3> DEFINE Pair == Side \X (0 .. MaxVolume)
    <3>1. \A s \in Side : <<s, volume[s]>> \in Pair
      BY <2>1
    <3>2. <<"left", volume["left"]>> \in Pair /\ <<"right", volume["right"]>> \in Pair
      BY <2>1 DEF Side
    <3> HIDE DEF Pair
    <3>3. <<>> \in Seq(Pair)
      OBVIOUS
    <3>4. ASSUME NEW t \in Side, writes = <<<<t, volume[t]>>>> PROVE writes \in Seq(Pair)
      <4>1. <<<<t, volume[t]>>>> \in Seq(Pair)
        BY <3>1, ShortSequences, Zenon
      <4> QED
        BY <3>4, <4>1, Zenon
    <3>5. ASSUME writes = <<<<"left", volume["left"]>>, <<"right", volume["right"]>>>>
          PROVE  writes \in Seq(Pair)
      <4>1. <<<<"left", volume["left"]>>, <<"right", volume["right"]>>>> \in Seq(Pair)
        BY <3>2, ShortSequences, Zenon
      <4> QED
        BY <3>5, <4>1
    <3>6. writes \in Seq(Pair)
      BY <3>3, <3>4, <3>5, Zenon DEF AudioInv, CellsFollow
    <3> QED
      BY <3>6 DEF Pair
  <2> QED
    BY <2>2 DEF AudioInv, LevelsOK, TypeOK
<1> QED
  BY <1>1, AudioInvariant, PTL

\* Whatever commands, power steps and power cuts come, in whatever order, a
\* programmed chip plays the volumes and the balance in memory.
THEOREM ChipFollowsMemory == Spec => []ChipFollows
<1>1. AudioInv => ChipFollows
  BY DEF AudioInv
<1> QED
  BY <1>1, AudioInvariant, PTL

\* Within its range, and from volume 32 up, the balance makes no side louder.
THEOREM BalanceTurnsDown == Spec => []TurnsDownOnly
<1>1. AudioInv => TurnsDownOnly
  <2> SUFFICES ASSUME AudioInv, programmed, balance <= BALANCE_MAX,
                      NEW s \in Side, ~PassesZero(s, volume[s], balance)
               PROVE  chip[s] = 0 \/ chip[s] >= Plain(volume[s])
    BY DEF TurnsDownOnly
  <2>1. volume[s] \in 0 .. MaxVolume /\ balance \in Byte
    BY DEF AudioInv, LevelsOK
  <2>2. CASE chip[s] = Plain(volume[s])
    <3>1. Plain(volume[s]) \in Byte
      BY <2>1, PlainByte
    <3> QED
      BY <2>2, <3>1 DEF Byte
  <2>3. CASE chip[s] \in Balanced(s, volume[s], balance)
    BY <2>1, <2>3, BalancedSome
  <2> QED
    BY <2>2, <2>3 DEF AudioInv, ChipFollows
<1> QED
  BY <1>1, AudioInvariant, PTL

\* Every volume reaches its cell, through any interleaving of writes, failed
\* writes and power cuts.
THEOREM VolumesStored == Spec => []CellsHoldVolumes
<1>1. AudioInv => CellsHoldVolumes
  BY DEF AudioInv, CellsFollow, Kept, CellsHoldVolumes
<1> QED
  BY <1>1, AudioInvariant, PTL

\* A change of balance changes no volume.
THEOREM BalanceChangeKeepsVolume == Spec => BalanceKeepsVolume
<1>1. ASSUME AudioInv, [Next]_vars
      PROVE  [programmed /\ programmed' /\ balance' # balance => UNCHANGED volume]_vars
  <2> SUFFICES ASSUME Next, programmed, programmed', balance' # balance PROVE UNCHANGED volume
    BY <1>1 DEF vars, levels
  <2>1. (\E data \in BalanceArg : BalanceSet(data)) \/ BalanceRight \/ BalanceLeft
    BY DEF Next, VolumeSet, VolumeUp, VolumeDown, SideUp, SideDown, SideSet, Store, PowerOn,
           PowerOff, ModeStatusInitial, PowerCut, levels
  <2>2. PICK b \in Byte : BalanceCtrl(b)
    BY <1>1, <2>1, BalanceCommands DEF levels
  <2>3. volume["left"] = volume["right"] /\ VolCtrl(vol, b)
    BY <2>2 DEF BalanceCtrl, levels
  <2>4. vol = volume["left"] /\ volume \in [Side -> 0 .. MaxVolume]
    BY <1>1, <2>3 DEF AudioInv, LevelsOK, EqualVolumesAgree
  <2>5. \A s \in Side : volume[s] = vol
    BY <2>3, <2>4 DEF Side
  <2>6. volume' = volume \/ volume' = [s \in Side |-> vol]
    BY <2>3 DEF VolCtrl
  <2>7. [s \in Side |-> vol] = volume
    BY <2>4, <2>5
  <2> QED
    BY <2>6, <2>7
<1> QED
  BY <1>1, AudioInvariant, PTL DEF Spec, BalanceKeepsVolume

LEMMA OneStep ==
  \A n \in 0 .. MaxVolume :
    /\ IsVolume((n + 1) % 256) => ((n + 1) % 256) - n \in {-1, 0, 1}
    /\ IsVolume((n - 1) % 256) => ((n - 1) % 256) - n \in {-1, 0, 1}
    /\ n - n \in {-1, 0, 1}
  BY DEF MaxVolume, IsVolume

\* A step of the volume of equal sides is by one, whatever was set before.
THEOREM StepsAreByOne == Spec => StepsByOne
<1>1. ASSUME AudioInv, [Next]_vars
      PROVE  [programmed /\ volume["left"] = volume["right"] /\ (VolumeUp \/ VolumeDown)
              => \A s \in Side : volume'[s] - volume[s] \in {-1, 0, 1}]_vars
  <2> SUFFICES ASSUME programmed, volume["left"] = volume["right"], VolumeUp \/ VolumeDown,
                      NEW s \in Side
               PROVE  volume'[s] - volume[s] \in {-1, 0, 1}
    OBVIOUS
  <2>1. vol = volume["left"] /\ vol \in 0 .. MaxVolume /\ volume[s] = vol
    BY <1>1 DEF AudioInv, LevelsOK, EqualVolumesAgree, Side
  <2>2. PICK v \in {(vol + 1) % 256, (vol - 1) % 256} : VolCtrl(v, balance)
    BY DEF VolumeUp, VolumeDown
  <2>3. CASE IsVolume(v)
    <3>1. volume'[s] = v
      BY <2>2, <2>3 DEF VolCtrl
    <3> QED
      BY <2>1, <2>2, <2>3, <3>1, OneStep
  <2>4. CASE ~IsVolume(v)
    <3>1. volume'[s] = volume[s]
      BY <2>2, <2>4 DEF VolCtrl
    <3> QED
      BY <2>1, <3>1, OneStep
  <2> QED
    BY <2>3, <2>4
<1> QED
  BY <1>1, AudioInvariant, PTL DEF Spec, StepsByOne
=============================================================================
