----------------------------- MODULE SerialQueue -----------------------------
(***************************************************************************)
(* What the RS232 transmitter promises: the bytes put are sent in order,   *)
(* with two exceptions.  A buffer that becomes full is dropped as a whole, *)
(* and a byte being put into an empty buffer may be replaced by a stale    *)
(* one.  SerialTx implements this.                                         *)
(***************************************************************************)
EXTENDS Naturals, Sequences

CONSTANTS
  Byte,        \* the bytes that are put
  STALE,       \* what the buffer holds before anything is put
  TX_MAX_SIZE  \* how many slots the buffer has

VARIABLES
  queue,    \* the bytes put and not sent, oldest first
  putting,  \* is a byte being put right now?
  wire      \* the byte sent last

vars == <<queue, putting, wire>>

Init == queue = <<>> /\ putting = FALSE /\ wire = STALE

Put(b) ==
  /\ ~putting
  /\ putting' = TRUE
  /\ queue' = Append(queue, b)
  /\ UNCHANGED wire

PutDone == putting /\ putting' = FALSE /\ UNCHANGED <<queue, wire>>

\* One slot always stays free: the byte that would fill it loses all of them.
Overrun ==
  /\ putting /\ Len(queue) = TX_MAX_SIZE
  /\ queue' = <<>>
  /\ UNCHANGED <<putting, wire>>

SendOldest ==
  /\ queue # <<>>
  /\ wire' = Head(queue)
  /\ queue' = Tail(queue)
  /\ UNCHANGED putting

SendStale ==
  /\ putting /\ Len(queue) = 1
  /\ wire' \in Byte \cup {STALE}
  /\ queue' = <<>>
  /\ UNCHANGED putting

Next ==
  \/ \E b \in Byte : Put(b)
  \/ PutDone \/ Overrun \/ SendOldest \/ SendStale

Spec == Init /\ [][Next]_vars
=============================================================================
