------------------------------ MODULE SerialTx ------------------------------
(***************************************************************************)
(* The RS232 transmitter of source/uart.c: a ring buffer that the main     *)
(* loop fills (PutChar) and that the loop and the interrupt handler of the *)
(* USART both empty (uart1_TxData).  The indices are volatile and there is *)
(* no lock: PutChar is a step per access to what the handler reads, and    *)
(* uart1_TxData in the loop is two, its tests and what it does upon them.  *)
(* The handler is one step, as the loop does not run while it does.        *)
(***************************************************************************)
EXTENDS Naturals, Sequences

CONSTANTS
  Byte,        \* the bytes that are put
  STALE,       \* what the buffer holds before anything is put
  TX_MAX_SIZE  \* how many slots the buffer has (1000)

ASSUME SerialAssumption ==
  /\ STALE \notin Byte
  /\ TX_MAX_SIZE \in Nat \ {0, 1}

VARIABLES
  rs232_Tx_Head,  \* the slot filled last
  rs232_Tx_Tail,  \* the slot sent last
  tx_buf,         \* [slot -> byte]
  tx_existed,     \* is a transmission under way?
  pc,             \* where the main loop is
  data,           \* PutChar's argument
  line,           \* the USART
  wire,           \* the byte sent last
  queue           \* history: the bytes put and neither sent nor dropped

ring == <<rs232_Tx_Head, rs232_Tx_Tail, tx_buf>>
vars == <<ring, tx_existed, pc, data, line, wire, queue>>

Slot == 0 .. TX_MAX_SIZE - 1

\* The USART is idle, sends, or is done and its interrupt is pending.  Assumption:
\* a byte is on the line (87 us) for longer than PutChar runs, so that a byte
\* begun during a PutChar ("starting") is not done before that PutChar is.
Line == {"idle", "starting", "sending", "done"}
Sending == line \in {"starting", "sending"}

InPutChar == pc \in {"wrap", "store"}

TypeOK ==
  /\ rs232_Tx_Head \in IF pc = "wrap" THEN 1 .. TX_MAX_SIZE ELSE Slot
  /\ rs232_Tx_Tail \in Slot
  /\ tx_buf \in [Slot -> Byte \cup {STALE}]
  /\ tx_existed \in BOOLEAN
  /\ pc \in {"loop", "wrap", "store", "send"}
  /\ data \in Byte \cup {STALE}
  /\ line \in Line
  /\ wire \in Byte \cup {STALE}
  /\ queue \in Seq(Byte)

\* uart_Init.
Init ==
  /\ rs232_Tx_Head = 0 /\ rs232_Tx_Tail = 0
  /\ tx_buf = [s \in Slot |-> STALE]
  /\ tx_existed = FALSE
  /\ pc = "loop"
  /\ data = STALE
  /\ line = "idle"
  /\ wire = STALE
  /\ queue = <<>>

Wrap(index) == IF index >= TX_MAX_SIZE THEN 0 ELSE index

\* PutChar: rs232_Tx_Head++, ...
PutChar(b) ==
  /\ pc = "loop"
  /\ rs232_Tx_Head' = rs232_Tx_Head + 1
  /\ data' = b
  /\ pc' = "wrap"
  /\ queue' = Append(queue, b)
  /\ UNCHANGED <<rs232_Tx_Tail, tx_buf, tx_existed, line, wire>>

\* ... back to the start of the buffer, without a look at rs232_Tx_Tail, ...
PutCharWrap ==
  /\ pc = "wrap"
  /\ rs232_Tx_Head' = Wrap(rs232_Tx_Head)
  /\ pc' = "store"
  /\ queue' = IF Len(queue) = TX_MAX_SIZE THEN <<>> ELSE queue
  /\ UNCHANGED <<rs232_Tx_Tail, tx_buf, tx_existed, data, line, wire>>

\* ... and the byte.
PutCharStore ==
  /\ pc = "store"
  /\ tx_buf' = [tx_buf EXCEPT ![rs232_Tx_Head] = data]
  /\ pc' = "loop"
  /\ line' = IF line = "starting" THEN "sending" ELSE line
  /\ UNCHANGED <<rs232_Tx_Head, rs232_Tx_Tail, tx_existed, data, wire, queue>>

\* uart1_GetTxData finds a byte.
BytesLeft == rs232_Tx_Head # rs232_Tx_Tail

\* The rest of uart1_GetTxData, and USART_SendData.
SendNextStuck ==   \* mutant: the tail is not moved
  /\ tx_existed' = TRUE
  /\ line' = IF InPutChar THEN "starting" ELSE "sending"
  /\ wire' = tx_buf[rs232_Tx_Tail]
  /\ queue' = Tail(queue)
  /\ UNCHANGED rs232_Tx_Tail
SendNext ==
  LET tail == Wrap(rs232_Tx_Tail + 1)
  IN  /\ tx_existed' = TRUE
      /\ rs232_Tx_Tail' = tail
      /\ line' = IF InPutChar THEN "starting" ELSE "sending"
      /\ wire' = tx_buf[tail]
      /\ queue' = Tail(queue)

\* uart1_TxData in the loop, once in 10 ms (or in every round while the unit is
\* off): its tests, ...
UartTxDataUnchecked ==   \* mutant: tx_existed not tested
  /\ pc = "loop"
  /\ BytesLeft
  /\ pc' = "send"
  /\ UNCHANGED <<ring, tx_existed, data, line, wire, queue>>
UartTxData ==
  /\ pc = "loop"
  /\ ~tx_existed /\ BytesLeft
  /\ pc' = "send"
  /\ UNCHANGED <<ring, tx_existed, data, line, wire, queue>>

\* ... and the rest, upon what they have found.
UartTxDataSend ==
  /\ pc = "send"
  /\ SendNext
  /\ pc' = "loop"
  /\ UNCHANGED <<rs232_Tx_Head, tx_buf, data>>

\* The USART: the byte is out.
TransmissionComplete ==
  /\ line = "sending"
  /\ line' = "done"
  /\ UNCHANGED <<ring, tx_existed, pc, data, wire, queue>>

\* uart1_IRQHandler, its transmitter part.
IRQHandlerKeepsFlag ==   \* mutant: tx_existed not reset
  /\ line = "done"
  /\ IF BytesLeft
     THEN SendNext
     ELSE /\ line' = "idle"
          /\ UNCHANGED <<rs232_Tx_Tail, tx_existed, wire, queue>>
  /\ UNCHANGED <<rs232_Tx_Head, tx_buf, pc, data>>
IRQHandler ==
  /\ line = "done"
  /\ IF BytesLeft
     THEN SendNext
     ELSE /\ tx_existed' = FALSE
          /\ line' = "idle"
          /\ UNCHANGED <<rs232_Tx_Tail, wire, queue>>
  /\ UNCHANGED <<rs232_Tx_Head, tx_buf, pc, data>>

Main == (\E b \in Byte : PutChar(b)) \/ PutCharWrap \/ PutCharStore
          \/ UartTxData \/ UartTxDataSend

Next == Main \/ TransmissionComplete \/ IRQHandler

Spec == Init /\ [][Next]_vars

\* A handler the loop is in runs on, a transmission ends and its interrupt is
\* served; and the superloop calls uart1_TxData again and again, so that it does
\* not miss for ever a buffer that stays filled.  Nothing has to be put.
Fairness ==
  /\ WF_vars(PutCharWrap) /\ WF_vars(PutCharStore) /\ WF_vars(UartTxDataSend)
  /\ WF_vars(TransmissionComplete) /\ WF_vars(IRQHandler)
  /\ SF_vars(UartTxData)

FairSpec == Spec /\ Fairness

-----------------------------------------------------------------------------
(***************************************************************************)
(* Properties.                                                             *)
(***************************************************************************)

\* What uart1_TxData has found in the loop still holds when it acts upon it,
\* whatever interrupts came in between: the USART is idle, so that no byte is
\* overwritten in its data register, and there is a byte to send.
TestsStillHold == pc = "send" => line = "idle" /\ ~tx_existed /\ BytesLeft

\* The transmitter implements SerialQueue: bytes leave in the order they were
\* put, none twice and none skipped, up to the two exceptions stated there.
Queue == INSTANCE SerialQueue WITH putting <- InPutChar
ImplementsQueue == Queue!Spec

\* The transmitter never stalls: when bytes are left, sooner or later a byte is
\* being sent or the buffer is empty (the loop's uart1_TxData restarts it, for
\* PutChar does not).
KeepsSending == queue # <<>> ~> (Sending \/ queue = <<>>)

\* What the theorem about KeepsSending takes for granted: each of its steps can be
\* taken whenever its guard holds.
StepsEnabled ==
  /\ pc = "wrap" => ENABLED <<PutCharWrap>>_vars
  /\ pc = "store" => ENABLED <<PutCharStore>>_vars
  /\ pc = "send" => ENABLED <<UartTxDataSend>>_vars
  /\ line = "sending" => ENABLED <<TransmissionComplete>>_vars
  /\ line = "done" => ENABLED <<IRQHandler>>_vars
  /\ pc = "loop" /\ ~tx_existed /\ BytesLeft => ENABLED <<UartTxData>>_vars
=============================================================================
