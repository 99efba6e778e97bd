----------------------------- MODULE TenMsTimer -----------------------------
(***************************************************************************)
(* The timer that paces the main loop: SysTick counts milliseconds in a    *)
(* byte, Timer10ms, and the loop asks timer_Get10ms in every pass whether  *)
(* the 10 ms tasks are due (timer.c, main.c check_timer_10ms).  Test and   *)
(* reset are two steps the interrupt may come between, and a pass of the   *)
(* loop may take so long that the byte wraps around.                       *)
(*                                                                         *)
(* timer_Get20ms and timer_Get100ms are the same code on bytes of their    *)
(* own.  What the tasks do is left to the module that extends this one.    *)
(***************************************************************************)
EXTENDS Integers

CONSTANTS
  U8,        \* values of an unsigned char (256)
  TIME10MS,  \* 10
  LoopTime   \* a pass of the main loop up to this long is in order

ASSUME TimerAssumption ==
  /\ U8 \in Nat /\ TIME10MS \in Nat \ {0} /\ LoopTime \in Nat
  /\ TIME10MS + LoopTime <= U8

VARIABLES
  Timer10ms,  \* milliseconds since the last reset, modulo U8
  phase,      \* where the loop is: "poll", "clear" or "task"
  since,      \* history: milliseconds since the last test that succeeded
  pass,       \* history: milliseconds since the last test
  overrun     \* history: has a pass since then been longer than LoopTime?

timer == <<Timer10ms, phase, since, pass, overrun>>

\* Bound: the histories stop counting where the properties no longer look.
SinceMax == TIME10MS + 2 * LoopTime
PassMax == LoopTime + 1
CountTo(max, n) == IF n < max THEN n + 1 ELSE n

TimerTypeOK ==
  /\ Timer10ms \in 0 .. U8 - 1
  /\ phase \in {"poll", "clear", "task"}
  /\ since \in 0 .. SinceMax
  /\ pass \in 0 .. PassMax
  /\ overrun \in BOOLEAN

TimerInit ==
  /\ Timer10ms = 0 /\ phase = "poll"
  /\ since = 0 /\ pass = 0 /\ overrun = FALSE

\* timer_SysTickHandler, once a millisecond, whatever the loop is doing.
SysTick ==
  /\ Timer10ms' = (Timer10ms + 1) % U8
  /\ since' = CountTo(SinceMax, since)
  /\ pass' = CountTo(PassMax, pass)
  /\ overrun' = (overrun \/ pass' > LoopTime)
  /\ UNCHANGED phase

\* The test of timer_Get10ms ...
DueLate == Timer10ms > TIME10MS   \* mutant: off by one
Due == Timer10ms >= TIME10MS
Poll ==
  /\ phase = "poll"
  /\ pass' = 0
  /\ IF Due
     THEN phase' = "clear" /\ since' = 0 /\ overrun' = FALSE
     ELSE UNCHANGED <<phase, since, overrun>>
  /\ UNCHANGED Timer10ms

\* ... and its reset.
ClearKeepingRest ==   \* mutant: subtract what has elapsed
  /\ phase = "clear"
  /\ Timer10ms' = (Timer10ms - TIME10MS) % U8
  /\ phase' = "task"
  /\ UNCHANGED <<since, pass, overrun>>
Clear ==
  /\ phase = "clear"
  /\ Timer10ms' = 0
  /\ phase' = "task"
  /\ UNCHANGED <<since, pass, overrun>>

\* The tasks are done; the rest of the pass changes nothing here.
TasksDone == phase = "task" /\ phase' = "poll" /\ UNCHANGED <<Timer10ms, since, pass, overrun>>

-----------------------------------------------------------------------------
\* The tasks never run twice within 10 ms, however late they were before: what
\* a long pass has counted is dropped, as is a tick between test and reset.
NeverEarly == [][phase = "poll" /\ phase' = "clear" => since >= TIME10MS]_timer

\* And they run in time: with passes of at most LoopTime, two tests that succeed
\* are less than TIME10MS + 2 * LoopTime apart; the byte does not wrap unseen.
OnTime == ~overrun => since < TIME10MS + 2 * LoopTime
=============================================================================
