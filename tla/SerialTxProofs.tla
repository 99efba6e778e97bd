--------------------------- MODULE SerialTxProofs ----------------------------
(***************************************************************************)
(* Theorems about SerialTx, for every size of the buffer: that what        *)
(* uart1_TxData has found still holds when it acts, and that the ring      *)
(* buffer implements SerialQueue, each of its steps a step of the queue or *)
(* a stutter.                                                              *)
(***************************************************************************)
EXTENDS SerialTx, SequenceTheorems, TLAPS

TypeInv == TypeOK

\* How many bytes lie between the two indices.
Used(head, tail) == IF head >= tail THEN head - tail ELSE head + TX_MAX_SIZE - tail

\* The same while the head is one slot on and may not be wrapped yet.
Filling(head, tail) == IF head > tail THEN head - tail ELSE head + TX_MAX_SIZE - tail

\* The slot of the i-th byte of the queue.
Pos(tail, i) == IF tail + i >= TX_MAX_SIZE THEN tail + i - TX_MAX_SIZE ELSE tail + i

\* A transmission is under way as long as the USART is not idle, and the tests of
\* uart1_TxData are not undone before it acts.
Flags ==
  /\ tx_existed <=> line # "idle"
  /\ pc = "send" => line = "idle" /\ BytesLeft

\* The indices delimit a queue of len bytes: in PutChar's first step with one
\* exception, when an interrupt has taken the byte that is not there yet.
Delimits(head, tail, len) == len = Used(head, tail)
DelimitsPut(head, tail, len, starting) ==
  \/ len = Filling(head, tail)
  \/ /\ len = 0 /\ starting
     /\ head = tail \/ (head = TX_MAX_SIZE /\ tail = 0)
Length ==
  IF pc = "wrap"
  THEN DelimitsPut(rs232_Tx_Head, rs232_Tx_Tail, Len(queue), line = "starting")
  ELSE Delimits(rs232_Tx_Head, rs232_Tx_Tail, Len(queue))

\* The slots hold the queue, but for the byte that is being put.
Holds(buf, tail, q, putting) ==
  \A i \in 1 .. Len(q) : (putting => i < Len(q)) => buf[Pos(tail, i)] = q[i]
LastIs(q, b) == b \in Byte /\ (q # <<>> => q[Len(q)] = b)
Contents ==
  /\ Holds(tx_buf, rs232_Tx_Tail, queue, InPutChar)
  /\ InPutChar => LastIs(queue, data)

IInv == TypeInv /\ Flags /\ Length /\ Contents

-----------------------------------------------------------------------------
(***************************************************************************)
(* The arithmetic of the ring.                                             *)
(***************************************************************************)

LEMMA WrapType ==
  ASSUME NEW index \in Nat, index <= TX_MAX_SIZE
  PROVE  Wrap(index) \in Slot
  BY SerialAssumption DEF Wrap, Slot

LEMMA UsedBounds ==
  ASSUME NEW head \in Slot, NEW tail \in Slot
  PROVE  /\ Used(head, tail) \in 0 .. TX_MAX_SIZE - 1
         /\ Used(head, tail) = 0 <=> head = tail
  BY SerialAssumption DEF Used, Slot

LEMMA UsedSend ==
  ASSUME NEW head \in Slot, NEW tail \in Slot, head # tail
  PROVE  Used(head, Wrap(tail + 1)) = Used(head, tail) - 1
  BY SerialAssumption DEF Used, Slot, Wrap

LEMMA FillingBounds ==
  ASSUME NEW head \in 1 .. TX_MAX_SIZE, NEW tail \in Slot
  PROVE  Filling(head, tail) \in 1 .. TX_MAX_SIZE
  BY SerialAssumption DEF Filling, Slot

LEMMA FillingPut ==
  ASSUME NEW head \in Slot, NEW tail \in Slot
  PROVE  Filling(head + 1, tail) = Used(head, tail) + 1
  BY SerialAssumption DEF Filling, Used, Slot

LEMMA FillingWrap ==
  ASSUME NEW head \in 1 .. TX_MAX_SIZE, NEW tail \in Slot
  PROVE  Used(Wrap(head), tail)
           = IF Filling(head, tail) = TX_MAX_SIZE THEN 0 ELSE Filling(head, tail)
  BY SerialAssumption DEF Filling, Used, Slot, Wrap

LEMMA FillingSend ==
  ASSUME NEW head \in 1 .. TX_MAX_SIZE, NEW tail \in Slot, head # tail
  PROVE  \/ Filling(head, Wrap(tail + 1)) = Filling(head, tail) - 1
         \/ /\ Filling(head, tail) = 1
            /\ \/ head = Wrap(tail + 1)
               \/ head = TX_MAX_SIZE /\ Wrap(tail + 1) = 0
  BY SerialAssumption DEF Filling, Slot, Wrap

LEMMA PosFirst ==
  ASSUME NEW tail \in Slot
  PROVE  Pos(tail, 1) = Wrap(tail + 1)
  BY SerialAssumption DEF Pos, Slot, Wrap

LEMMA PosNext ==
  ASSUME NEW tail \in Slot, NEW i \in 1 .. TX_MAX_SIZE - 1
  PROVE  Pos(Wrap(tail + 1), i) = Pos(tail, i + 1)
  BY SerialAssumption DEF Pos, Slot, Wrap

LEMMA PosHead ==
  ASSUME NEW head \in Slot, NEW tail \in Slot, head # tail
  PROVE  Pos(tail, Used(head, tail)) = head
  BY SerialAssumption DEF Pos, Slot, Used

LEMMA PosInjective ==
  ASSUME NEW tail \in Slot,
         NEW i \in 1 .. TX_MAX_SIZE, NEW j \in 1 .. TX_MAX_SIZE, i < j
  PROVE  Pos(tail, i) # Pos(tail, j)
  BY SerialAssumption DEF Pos, Slot

-----------------------------------------------------------------------------
(***************************************************************************)
(* What the queue's operations do to the slots.                            *)
(***************************************************************************)

\* The oldest byte taken: the queue moves on with the tail.
LEMMA HoldsSend ==
  ASSUME NEW buf, NEW tail \in Slot, NEW q \in Seq(Byte), NEW putting \in BOOLEAN,
         q # <<>>, Len(q) <= TX_MAX_SIZE, Holds(buf, tail, q, putting)
  PROVE  Holds(buf, Wrap(tail + 1), Tail(q), putting)
<1> SUFFICES ASSUME NEW i \in 1 .. Len(Tail(q)), putting => i < Len(Tail(q))
             PROVE  buf[Pos(Wrap(tail + 1), i)] = Tail(q)[i]
  BY DEF Holds
<1>1. Len(q) \in Nat /\ Len(Tail(q)) = Len(q) - 1 /\ Tail(q)[i] = q[i + 1]
  BY HeadTailProperties, LenProperties
<1>2. i + 1 \in 1 .. Len(q) /\ (putting => i + 1 < Len(q))
  BY <1>1
<1>3. buf[Pos(tail, i + 1)] = q[i + 1]
  BY <1>2 DEF Holds
<1>4. i \in 1 .. TX_MAX_SIZE - 1
  BY <1>1, SerialAssumption
<1> QED
  BY <1>1, <1>3, <1>4, PosNext

\* A byte appended but not stored yet.
LEMMA HoldsPut ==
  ASSUME NEW buf, NEW tail \in Slot, NEW q \in Seq(Byte), NEW b \in Byte,
         Holds(buf, tail, q, FALSE)
  PROVE  Holds(buf, tail, Append(q, b), TRUE) /\ LastIs(Append(q, b), b)
<1>1. /\ Len(Append(q, b)) = Len(q) + 1
      /\ \A i \in 1 .. Len(q) : Append(q, b)[i] = q[i]
      /\ Append(q, b)[Len(q) + 1] = b
  BY AppendProperties
<1>2. ASSUME NEW i \in 1 .. Len(Append(q, b)), i < Len(Append(q, b))
      PROVE  buf[Pos(tail, i)] = Append(q, b)[i]
  <2>1. i \in 1 .. Len(q)
    BY <1>1, <1>2, LenProperties
  <2> QED
    BY <1>1, <2>1 DEF Holds
<1>3. Holds(buf, tail, Append(q, b), TRUE)
  BY <1>2 DEF Holds
<1>4. LastIs(Append(q, b), b)
  BY <1>1 DEF LastIs
<1> QED
  BY <1>3, <1>4

\* The byte stored: its slot is the last one's, and no other byte's.
LEMMA HoldsStore ==
  ASSUME NEW buf \in [Slot -> Byte \cup {STALE}], NEW head \in Slot, NEW tail \in Slot,
         NEW q \in Seq(Byte), NEW b, Len(q) = Used(head, tail),
         LastIs(q, b), Holds(buf, tail, q, TRUE)
  PROVE  Holds([buf EXCEPT ![head] = b], tail, q, FALSE)
<1> SUFFICES ASSUME NEW i \in 1 .. Len(q)
             PROVE  [buf EXCEPT ![head] = b][Pos(tail, i)] = q[i]
  BY DEF Holds
<1>1. Len(q) \in Nat /\ Len(q) <= TX_MAX_SIZE
  BY LenProperties, UsedBounds, SerialAssumption
<1>2. head # tail
  BY <1>1, UsedBounds
<1>3. Pos(tail, Len(q)) = head
  BY <1>2, PosHead
<1>4. CASE i = Len(q)
  <2>1. q # <<>>
    BY <1>1, EmptySeq
  <2> QED
    BY <1>3, <1>4, <2>1 DEF LastIs
<1>5. CASE i < Len(q)
  <2>1. Pos(tail, i) # head
    BY <1>1, <1>3, <1>5, PosInjective, SerialAssumption
  <2>2. buf[Pos(tail, i)] = q[i]
    BY <1>5 DEF Holds
  <2>3. Pos(tail, i) \in Slot
    BY <1>1, SerialAssumption DEF Pos, Slot
  <2> QED
    BY <2>1, <2>2, <2>3
<1> QED
  BY <1>1, <1>4, <1>5

-----------------------------------------------------------------------------
(***************************************************************************)
(* The invariant.                                                          *)
(***************************************************************************)

LEMMA LengthBound ==
  ASSUME IInv
  PROVE  /\ Len(queue) \in 0 .. TX_MAX_SIZE
         /\ queue \in Seq(Byte)
         /\ BytesLeft => queue # <<>> \/ (pc = "wrap" /\ line = "starting")
         /\ queue = <<>> <=> Len(queue) = 0
<1>1. queue \in Seq(Byte) /\ rs232_Tx_Tail \in Slot
  BY DEF IInv, TypeInv, TypeOK
<1>2. queue = <<>> <=> Len(queue) = 0
  BY <1>1, EmptySeq
<1>3. CASE pc = "wrap"
  <2>1. rs232_Tx_Head \in 1 .. TX_MAX_SIZE
    BY <1>3 DEF IInv, TypeInv, TypeOK
  <2>2. Filling(rs232_Tx_Head, rs232_Tx_Tail) \in 1 .. TX_MAX_SIZE
    BY <1>1, <2>1, FillingBounds
  <2>3. \/ Len(queue) = Filling(rs232_Tx_Head, rs232_Tx_Tail)
        \/ Len(queue) = 0 /\ line = "starting"
    BY <1>3 DEF IInv, Length, DelimitsPut
  <2> QED
    BY <1>1, <1>2, <1>3, <2>2, <2>3, SerialAssumption
<1>4. CASE pc # "wrap"
  <2>1. rs232_Tx_Head \in Slot
    BY <1>4 DEF IInv, TypeInv, TypeOK
  <2>2. Len(queue) = Used(rs232_Tx_Head, rs232_Tx_Tail)
    BY <1>4 DEF IInv, Length, Delimits
  <2> QED
    BY <1>1, <1>2, <2>1, <2>2, UsedBounds, SerialAssumption DEF BytesLeft
<1> QED
  BY <1>3, <1>4

\* A byte taken from the buffer, by the loop or by the interrupt handler.
LEMMA SendStep ==
  ASSUME IInv, SendNext, BytesLeft, pc = "wrap" => line # "starting",
         UNCHANGED <<rs232_Tx_Head, tx_buf, data>>,
         pc' = pc \/ (pc = "send" /\ pc' = "loop")
  PROVE  TypeInv' /\ Length' /\ Contents' /\ tx_existed' /\ line' # "idle"
<1> DEFINE head == rs232_Tx_Head
           tail == rs232_Tx_Tail
<1>1. queue \in Seq(Byte) /\ queue # <<>> /\ Len(queue) \in 0 .. TX_MAX_SIZE
  BY LengthBound
<1>2. /\ tail \in Slot /\ tail' = Wrap(tail + 1) /\ tail' \in Slot
  <2>1. tail \in Slot /\ tail' = Wrap(tail + 1)
    BY DEF IInv, TypeInv, TypeOK, SendNext
  <2>2. tail + 1 \in Nat /\ tail + 1 <= TX_MAX_SIZE
    BY <2>1, SerialAssumption DEF Slot
  <2> QED
    BY <2>1, <2>2, WrapType
<1>3. /\ queue' = Tail(queue) /\ queue' \in Seq(Byte)
      /\ Len(queue') = Len(queue) - 1
      /\ \A i \in 1 .. Len(queue') : queue'[i] = queue[i + 1]
  BY <1>1, HeadTailProperties DEF SendNext
<1>4. /\ InPutChar' <=> InPutChar
      /\ pc' = "wrap" <=> pc = "wrap"
      /\ pc' \in {"loop", "wrap", "store", "send"}
  BY DEF InPutChar, IInv, TypeInv, TypeOK
<1>5. tx_existed' = TRUE /\ line' \in {"starting", "sending"}
      /\ (pc = "wrap" => line' = "starting")
  BY DEF SendNext, InPutChar
<1>6. TypeInv'
  <2>1. wire' \in Byte \cup {STALE}
    BY <1>2 DEF SendNext, IInv, TypeInv, TypeOK
  <2>2. rs232_Tx_Head' \in IF pc' = "wrap" THEN 1 .. TX_MAX_SIZE ELSE Slot
    BY <1>4 DEF IInv, TypeInv, TypeOK
  <2>3. tx_existed' \in BOOLEAN /\ line' \in Line
    BY <1>5 DEF Line
  <2>4. tx_buf' \in [Slot -> Byte \cup {STALE}] /\ data' \in Byte \cup {STALE}
    BY DEF IInv, TypeInv, TypeOK
  <2> QED
    BY <1>2, <1>3, <1>4, <2>1, <2>2, <2>3, <2>4 DEF TypeInv, TypeOK
<1>7. Length'
  <2>1. CASE pc = "wrap"
    <3>1. head \in 1 .. TX_MAX_SIZE /\ head # tail
      BY <2>1 DEF IInv, TypeInv, TypeOK, BytesLeft
    <3>2. Len(queue) = Filling(head, tail)
      BY <2>1 DEF IInv, Length, DelimitsPut
    <3>3. DelimitsPut(head, Wrap(tail + 1), Len(queue) - 1, TRUE)
      BY <1>2, <3>1, <3>2, FillingSend DEF DelimitsPut
    <3>4. DelimitsPut(head', tail', Len(queue'), line' = "starting")
      BY <1>2, <1>3, <1>5, <2>1, <3>3 DEF DelimitsPut
    <3> QED
      BY <1>4, <2>1, <3>4 DEF Length
  <2>2. CASE pc # "wrap"
    <3>1. head \in Slot /\ head # tail
      BY <2>2 DEF IInv, TypeInv, TypeOK, BytesLeft
    <3>2. Len(queue) = Used(head, tail)
      BY <2>2 DEF IInv, Length, Delimits
    <3>3. Delimits(head', tail', Len(queue'))
      BY <1>2, <1>3, <3>1, <3>2, UsedSend DEF Delimits
    <3> QED
      BY <1>4, <2>2, <3>3 DEF Length
  <2> QED
    BY <2>1, <2>2
<1>8. Contents'
  <2>1. InPutChar \in BOOLEAN
    BY DEF InPutChar
  <2>2. Holds(tx_buf, Wrap(tail + 1), Tail(queue), InPutChar)
    BY <1>1, <1>2, <2>1, HoldsSend DEF IInv, Contents
  <2>3. Holds(tx_buf', rs232_Tx_Tail', queue', InPutChar')
    BY <1>2, <1>3, <1>4, <2>2 DEF Holds
  <2>4. ASSUME InPutChar' PROVE LastIs(queue', data')
    <3>1. LastIs(queue, data)
      BY <1>4, <2>4 DEF IInv, Contents
    <3>2. ASSUME queue' # <<>> PROVE queue'[Len(queue')] = data
      <4>1. Len(queue') \in Nat \ {0}
        BY <1>3, <3>2, EmptySeq
      <4>2. queue'[Len(queue')] = queue[Len(queue)]
        BY <1>1, <1>3, <4>1
      <4> QED
        BY <1>1, <3>1, <4>2 DEF LastIs
    <3> QED
      BY <3>1, <3>2 DEF LastIs
  <2> QED
    BY <2>3, <2>4 DEF Contents
<1> QED
  BY <1>5, <1>6, <1>7, <1>8

\* The handler and the loop's send: the flags follow the USART.
LEMMA IRQHandlerStep == ASSUME IInv, IRQHandler PROVE IInv'
<1>1. CASE BytesLeft
  <2>1. SendNext
    BY <1>1 DEF IRQHandler
  <2>2. TypeInv' /\ Length' /\ Contents' /\ tx_existed' /\ line' # "idle"
    BY <1>1, <2>1, SendStep DEF IRQHandler
  <2>3. pc # "send" /\ pc' = pc
    BY DEF IRQHandler, IInv, Flags
  <2> QED
    BY <2>2, <2>3 DEF IInv, Flags
<1>2. CASE ~BytesLeft
  <2>1. /\ UNCHANGED <<ring, pc, data, wire, queue>>
        /\ tx_existed' = FALSE /\ line' = "idle" /\ line = "done"
    BY <1>2 DEF IRQHandler, ring
  <2>2. TypeInv'
    BY <2>1 DEF IInv, TypeInv, TypeOK, Line, ring
  <2>3. Flags'
    BY <2>1 DEF IInv, Flags
  <2>4. Length'
    BY <2>1 DEF IInv, Length, DelimitsPut, Delimits, ring
  <2>5. Contents'
    BY <2>1 DEF IInv, Contents, InPutChar, ring
  <2> QED
    BY <2>2, <2>3, <2>4, <2>5 DEF IInv
<1> QED
  BY <1>1, <1>2

LEMMA UartTxDataSendStep == ASSUME IInv, UartTxDataSend PROVE IInv'
<1>1. SendNext /\ BytesLeft /\ pc = "send" /\ pc' = "loop"
  BY DEF UartTxDataSend, IInv, Flags
<1>2. TypeInv' /\ Length' /\ Contents' /\ tx_existed' /\ line' # "idle"
  BY <1>1, SendStep DEF UartTxDataSend
<1> QED
  BY <1>1, <1>2 DEF IInv, Flags

LEMMA UartTxDataStep == ASSUME IInv, UartTxData PROVE IInv'
<1>1. /\ UNCHANGED <<ring, tx_existed, data, line, wire, queue>>
      /\ pc = "loop" /\ pc' = "send" /\ ~tx_existed /\ BytesLeft
  BY DEF UartTxData
<1>2. TypeInv'
  BY <1>1 DEF IInv, TypeInv, TypeOK, ring
<1>3. Flags'
  BY <1>1 DEF IInv, Flags, BytesLeft, ring
<1>4. Length'
  BY <1>1 DEF IInv, Length, Delimits, ring
<1>5. Contents'
  BY <1>1 DEF IInv, Contents, InPutChar, ring
<1> QED
  BY <1>2, <1>3, <1>4, <1>5 DEF IInv

LEMMA TransmissionCompleteStep == ASSUME IInv, TransmissionComplete PROVE IInv'
<1>1. /\ UNCHANGED <<ring, tx_existed, pc, data, wire, queue>>
      /\ line = "sending" /\ line' = "done"
  BY DEF TransmissionComplete
<1>2. TypeInv'
  BY <1>1 DEF IInv, TypeInv, TypeOK, Line, ring
<1>3. Flags'
  BY <1>1 DEF IInv, Flags
<1>4. Length'
  BY <1>1 DEF IInv, Length, DelimitsPut, Delimits, ring
<1>5. Contents'
  BY <1>1 DEF IInv, Contents, InPutChar, ring
<1> QED
  BY <1>2, <1>3, <1>4, <1>5 DEF IInv

LEMMA PutCharStep == ASSUME IInv, NEW b \in Byte, PutChar(b) PROVE IInv'
<1>1. /\ UNCHANGED <<rs232_Tx_Tail, tx_buf, tx_existed, line, wire>>
      /\ rs232_Tx_Head' = rs232_Tx_Head + 1
      /\ data' = b /\ queue' = Append(queue, b)
      /\ pc = "loop" /\ pc' = "wrap"
  BY DEF PutChar
<1>2. /\ rs232_Tx_Head \in Slot /\ rs232_Tx_Tail \in Slot /\ queue \in Seq(Byte)
      /\ queue' \in Seq(Byte) /\ Len(queue') = Len(queue) + 1
  BY <1>1, AppendProperties DEF IInv, TypeInv, TypeOK
<1>3. TypeInv'
  <2>1. rs232_Tx_Head + 1 \in 1 .. TX_MAX_SIZE
    BY <1>2, SerialAssumption DEF Slot
  <2> QED
    BY <1>1, <1>2, <2>1 DEF IInv, TypeInv, TypeOK
<1>4. Flags'
  BY <1>1 DEF IInv, Flags
<1>5. Length'
  <2>1. Len(queue) = Used(rs232_Tx_Head, rs232_Tx_Tail)
    BY <1>1 DEF IInv, Length, Delimits
  <2>2. DelimitsPut(rs232_Tx_Head', rs232_Tx_Tail', Len(queue'), line' = "starting")
    BY <1>1, <1>2, <2>1, FillingPut DEF DelimitsPut
  <2> QED
    BY <1>1, <2>2 DEF Length
<1>6. Contents'
  <2>1. Holds(tx_buf, rs232_Tx_Tail, queue, FALSE)
    BY <1>1 DEF IInv, Contents, InPutChar, Holds
  <2>2. /\ Holds(tx_buf, rs232_Tx_Tail, Append(queue, b), TRUE)
        /\ LastIs(Append(queue, b), b)
    BY <1>2, <2>1, HoldsPut
  <2>3. Holds(tx_buf', rs232_Tx_Tail', queue', InPutChar')
    BY <1>1, <2>2 DEF Holds, InPutChar
  <2> QED
    BY <1>1, <2>2, <2>3 DEF Contents
<1> QED
  BY <1>3, <1>4, <1>5, <1>6 DEF IInv

LEMMA PutCharWrapStep == ASSUME IInv, PutCharWrap PROVE IInv'
<1>1. /\ UNCHANGED <<rs232_Tx_Tail, tx_buf, tx_existed, data, line, wire>>
      /\ rs232_Tx_Head' = Wrap(rs232_Tx_Head)
      /\ queue' = IF Len(queue) = TX_MAX_SIZE THEN <<>> ELSE queue
      /\ pc = "wrap" /\ pc' = "store"
  BY DEF PutCharWrap
<1>2. /\ rs232_Tx_Head \in 1 .. TX_MAX_SIZE /\ rs232_Tx_Tail \in Slot
      /\ queue \in Seq(Byte)
  BY <1>1 DEF IInv, TypeInv, TypeOK
<1>3. queue' \in Seq(Byte) /\ Len(<<>>) = 0
  BY <1>1, <1>2, EmptySeq
<1>4. TypeInv'
  <2>1. Wrap(rs232_Tx_Head) \in Slot
    BY <1>2, WrapType
  <2> QED
    BY <1>1, <1>3, <2>1 DEF IInv, TypeInv, TypeOK
<1>5. Flags'
  BY <1>1 DEF IInv, Flags
<1>6. Length'
  <2>1. Len(queue') = IF Len(queue) = TX_MAX_SIZE THEN 0 ELSE Len(queue)
    BY <1>1, <1>3
  <2>2. Delimits(Wrap(rs232_Tx_Head), rs232_Tx_Tail, Len(queue'))
    <3>1. CASE Len(queue) = Filling(rs232_Tx_Head, rs232_Tx_Tail)
      BY <1>2, <2>1, <3>1, FillingWrap DEF Delimits
    <3>2. CASE /\ Len(queue) = 0
               /\ \/ rs232_Tx_Head = rs232_Tx_Tail
                  \/ rs232_Tx_Head = TX_MAX_SIZE /\ rs232_Tx_Tail = 0
      <4>1. Len(queue') = 0
        BY <2>1, <3>2, SerialAssumption
      <4>2. Wrap(rs232_Tx_Head) = rs232_Tx_Tail
        BY <1>2, <3>2, SerialAssumption DEF Wrap, Slot
      <4> QED
        BY <1>2, <4>1, <4>2, UsedBounds DEF Delimits
    <3> QED
      BY <1>1, <3>1, <3>2 DEF IInv, Length, DelimitsPut
  <2> QED
    BY <1>1, <2>2 DEF Length
<1>7. Contents'
  <2>1. InPutChar /\ InPutChar'
    BY <1>1 DEF InPutChar
  <2>2. CASE queue' = queue
    BY <1>1, <2>1, <2>2 DEF IInv, Contents, Holds, LastIs
  <2>3. CASE queue' = <<>>
    BY <1>1, <1>3, <2>1, <2>3 DEF IInv, Contents, Holds, LastIs
  <2> QED
    BY <1>1, <2>2, <2>3
<1> QED
  BY <1>4, <1>5, <1>6, <1>7 DEF IInv

LEMMA PutCharStoreStep == ASSUME IInv, PutCharStore PROVE IInv'
<1>1. /\ UNCHANGED <<rs232_Tx_Head, rs232_Tx_Tail, tx_existed, data, wire, queue>>
      /\ tx_buf' = [tx_buf EXCEPT ![rs232_Tx_Head] = data]
      /\ line' = IF line = "starting" THEN "sending" ELSE line
      /\ pc = "store" /\ pc' = "loop"
  BY DEF PutCharStore
<1>2. /\ rs232_Tx_Head \in Slot /\ rs232_Tx_Tail \in Slot /\ queue \in Seq(Byte)
      /\ tx_buf \in [Slot -> Byte \cup {STALE}] /\ data \in Byte \cup {STALE}
  BY <1>1 DEF IInv, TypeInv, TypeOK
<1>3. TypeInv'
  <2>1. line' \in Line
    BY <1>1 DEF IInv, TypeInv, TypeOK, Line
  <2>2. tx_buf' \in [Slot -> Byte \cup {STALE}]
    BY <1>1, <1>2
  <2> QED
    BY <1>1, <2>1, <2>2 DEF IInv, TypeInv, TypeOK
<1>4. Flags'
  BY <1>1 DEF IInv, Flags
<1>5. Length'
  BY <1>1 DEF IInv, Length, Delimits
<1>6. Contents'
  <2>1. /\ Len(queue) = Used(rs232_Tx_Head, rs232_Tx_Tail)
        /\ LastIs(queue, data)
        /\ Holds(tx_buf, rs232_Tx_Tail, queue, TRUE)
    BY <1>1 DEF IInv, Length, Delimits, Contents, InPutChar, Holds
  <2>2. Holds([tx_buf EXCEPT ![rs232_Tx_Head] = data], rs232_Tx_Tail, queue, FALSE)
    BY <1>2, <2>1, HoldsStore
  <2>3. ~InPutChar'
    BY <1>1 DEF InPutChar
  <2> QED
    BY <1>1, <2>2, <2>3 DEF Contents, Holds
<1> QED
  BY <1>3, <1>4, <1>5, <1>6 DEF IInv

LEMMA InitIInv == Init => IInv
<1> SUFFICES ASSUME Init PROVE IInv
  OBVIOUS
<1>1. 0 \in Slot
  BY SerialAssumption DEF Slot
<1>2. queue \in Seq(Byte) /\ Len(queue) = 0
  BY EmptySeq DEF Init
<1>3. TypeInv
  BY <1>1, <1>2 DEF Init, TypeInv, TypeOK, Line
<1>4. Flags
  BY DEF Init, Flags
<1>5. Length
  BY <1>1, <1>2, UsedBounds DEF Init, Length, Delimits
<1>6. Contents
  BY <1>2 DEF Init, Contents, Holds, InPutChar
<1> QED
  BY <1>3, <1>4, <1>5, <1>6 DEF IInv

LEMMA InductiveInvariant == Spec => []IInv
<1>1. IInv /\ [Next]_vars => IInv'
  <2> SUFFICES ASSUME IInv, [Next]_vars PROVE IInv'
    OBVIOUS
  <2>1. CASE Next
    BY <2>1, PutCharStep, PutCharWrapStep, PutCharStoreStep, UartTxDataStep,
       UartTxDataSendStep, TransmissionCompleteStep, IRQHandlerStep DEF Next, Main
  <2>2. CASE UNCHANGED vars
    BY <2>2 DEF vars, ring, IInv, TypeInv, TypeOK, Flags, BytesLeft, Length, Delimits,
                DelimitsPut, Contents, InPutChar
  <2> QED
    BY <2>1, <2>2
<1> QED
  BY InitIInv, <1>1, PTL DEF Spec

-----------------------------------------------------------------------------
(***************************************************************************)
(* The theorems.                                                           *)
(***************************************************************************)

\* Type correctness: outside PutChar's first step no index leaves the buffer,
\* and no byte is taken from an empty queue (GetTxData, PutChar).
THEOREM TypeCorrect == Spec => []TypeOK
<1>1. IInv => TypeOK
  BY DEF IInv, TypeInv
<1> QED
  BY <1>1, InductiveInvariant, PTL

\* What uart1_TxData has found in the loop still holds when it acts upon it,
\* although the interrupt handler writes both tx_existed and rs232_Tx_Tail.
THEOREM TestsAreNotUndone == Spec => []TestsStillHold
<1>1. IInv => TestsStillHold
  BY DEF IInv, Flags, TestsStillHold
<1> QED
  BY <1>1, InductiveInvariant, PTL

\* A byte sent is the oldest of the queue, or the one that is being put.
LEMMA SendRefines ==
  ASSUME IInv, SendNext, BytesLeft, pc = "wrap" => line # "starting",
         InPutChar' <=> InPutChar
  PROVE  Queue!SendOldest \/ Queue!SendStale
<1>1. /\ queue \in Seq(Byte) /\ queue # <<>> /\ Len(queue) \in 1 .. TX_MAX_SIZE
      /\ Head(queue) = queue[1]
  BY LengthBound, SerialAssumption
<1>2. rs232_Tx_Tail \in Slot /\ Pos(rs232_Tx_Tail, 1) = Wrap(rs232_Tx_Tail + 1)
  BY PosFirst DEF IInv, TypeInv, TypeOK
<1>3. CASE ~InPutChar \/ 1 < Len(queue)
  <2>1. tx_buf[Pos(rs232_Tx_Tail, 1)] = queue[1]
    BY <1>1, <1>3 DEF IInv, Contents, Holds
  <2>2. wire' = Head(queue) /\ queue' = Tail(queue)
    BY <1>1, <1>2, <2>1 DEF SendNext
  <2> QED
    BY <1>1, <2>2, Zenon DEF Queue!SendOldest
<1>4. CASE InPutChar /\ Len(queue) = 1
  <2>1. Wrap(rs232_Tx_Tail + 1) \in Slot
    BY <1>2, WrapType, SerialAssumption DEF Slot
  <2>2. wire' \in Byte \cup {STALE}
    BY <2>1 DEF SendNext, IInv, TypeInv, TypeOK
  <2>3. queue' = <<>>
    <3>1. Tail(queue) \in Seq(Byte) /\ Len(Tail(queue)) = 0
      BY <1>1, <1>4, HeadTailProperties
    <3> QED
      BY <3>1, EmptySeq DEF SendNext
  <2> QED
    BY <1>4, <2>2, <2>3, Zenon DEF Queue!SendStale
<1> QED
  BY <1>1, <1>3, <1>4

\* The transmitter implements SerialQueue: bytes leave in the order they were put,
\* whatever the interleaving of PutChar, uart1_TxData and the interrupt handler.
THEOREM TransmitterImplementsQueue == Spec => ImplementsQueue
<1>1. Init => Queue!Init
  BY DEF Init, Queue!Init, InPutChar
<1>2. IInv /\ [Next]_vars => [Queue!Next]_(Queue!vars)
  <2> SUFFICES ASSUME IInv, [Next]_vars
               PROVE  Queue!Next \/ UNCHANGED Queue!vars
    OBVIOUS
  <2>1. ASSUME NEW b \in Byte, PutChar(b) PROVE Queue!Put(b)
    BY <2>1 DEF PutChar, Queue!Put, InPutChar
  <2>2. ASSUME PutCharWrap PROVE Queue!Next \/ UNCHANGED Queue!vars
    <3>1. InPutChar /\ InPutChar' /\ wire' = wire
      BY <2>2 DEF PutCharWrap, InPutChar
    <3>2. CASE Len(queue) = TX_MAX_SIZE
      BY <2>2, <3>1, <3>2 DEF PutCharWrap, Queue!Overrun, Queue!Next
    <3>3. CASE Len(queue) # TX_MAX_SIZE
      BY <2>2, <3>1, <3>3 DEF PutCharWrap, Queue!vars
    <3> QED
      BY <3>2, <3>3
  <2>3. ASSUME PutCharStore PROVE Queue!PutDone
    BY <2>3 DEF PutCharStore, Queue!PutDone, InPutChar
  <2>4. ASSUME UartTxDataSend PROVE Queue!SendOldest \/ Queue!SendStale
    <3>1. InPutChar' <=> InPutChar
      BY <2>4 DEF UartTxDataSend, InPutChar
    <3> QED
      BY <2>4, <3>1, SendRefines DEF UartTxDataSend, IInv, Flags
  <2>5. ASSUME IRQHandler
        PROVE  Queue!SendOldest \/ Queue!SendStale \/ UNCHANGED Queue!vars
    <3>1. InPutChar' <=> InPutChar
      BY <2>5 DEF IRQHandler, InPutChar
    <3>2. CASE BytesLeft
      BY <2>5, <3>1, <3>2, SendRefines DEF IRQHandler
    <3>3. CASE ~BytesLeft
      BY <2>5, <3>1, <3>3, Zenon DEF IRQHandler, Queue!vars, InPutChar
    <3> QED
      BY <3>2, <3>3
  <2>6. ASSUME UartTxData \/ TransmissionComplete \/ UNCHANGED vars
        PROVE  UNCHANGED Queue!vars
    BY <2>6 DEF UartTxData, TransmissionComplete, vars, Queue!vars, InPutChar
  <2> QED
    BY <2>1, <2>2, <2>3, <2>4, <2>5, <2>6 DEF Next, Main, Queue!Next
<1> QED
  BY <1>1, <1>2, InductiveInvariant, PTL DEF Spec, ImplementsQueue, Queue!Spec

-----------------------------------------------------------------------------
\* Nothing is on the line and no interrupt is to come.
Idle == line = "idle"

\* With the USART idle nothing but the loop can change what uart1_TxData tests.
LEMMA IdleSteps ==
  ASSUME IInv, [Next]_vars, Idle
  PROVE  /\ Idle' \/ Sending'
         /\ pc = "wrap" => pc' = "wrap" \/ pc' = "store"
         /\ pc = "store" => pc' = "store" \/ pc' = "loop"
         /\ pc = "send" => pc' = "send" \/ Sending'
<1>1. ~IRQHandler /\ ~TransmissionComplete
  BY DEF IRQHandler, TransmissionComplete, Idle
<1>2. CASE \E b \in Byte : PutChar(b)
  BY <1>2 DEF PutChar, Idle
<1>3. CASE PutCharWrap
  BY <1>3 DEF PutCharWrap, Idle
<1>4. CASE PutCharStore
  BY <1>4 DEF PutCharStore, Idle
<1>5. CASE UartTxData
  BY <1>5 DEF UartTxData, Idle
<1>6. CASE UartTxDataSend
  BY <1>6 DEF UartTxDataSend, SendNext, Sending, InPutChar
<1>7. CASE UNCHANGED vars
  BY <1>7 DEF vars, Idle
<1> QED
  BY <1>1, <1>2, <1>3, <1>4, <1>5, <1>6, <1>7 DEF Next, Main

\* The interrupt of a transmitted byte sends the next one or leaves the USART idle.
LEMMA DoneSteps ==
  ASSUME IInv, [Next]_vars, line = "done"
  PROVE  line' = "done" \/ Sending' \/ Idle'
BY DEF Next, Main, PutChar, PutCharWrap, PutCharStore, UartTxData, UartTxDataSend, TransmissionComplete, IRQHandler, SendNext, Sending, Idle, vars, InPutChar

\* A queue that has bytes is never left standing: see KeepsSending.  The loop leaves
\* what it was doing, finds tx_existed cleared and bytes between the indices (the
\* invariant's part of it) and sends; or an interrupt is on its way and does.
THEOREM TransmitterKeepsSending == FairSpec /\ []StepsEnabled => KeepsSending
<1>1. IInv /\ [Next]_vars /\ Idle => Idle' \/ Sending'
  BY IdleSteps
<1>2. IInv /\ [Next]_vars /\ Idle /\ pc = "wrap" => (pc = "wrap")' \/ (pc = "store")'
  BY IdleSteps
<1>3. IInv /\ [Next]_vars /\ Idle /\ pc = "store" => (pc = "store")' \/ (pc = "loop")'
  BY IdleSteps
<1>4. IInv /\ [Next]_vars /\ Idle /\ pc = "send" => (pc = "send")' \/ Sending'
  BY IdleSteps
<1>5. IInv /\ [Next]_vars /\ line = "done" => (line = "done")' \/ Sending' \/ Idle'
  BY DoneSteps
<1>6. <<PutCharWrap>>_vars => (pc = "store")'
  BY DEF PutCharWrap
<1>7. <<PutCharStore>>_vars => (pc = "loop")'
  BY DEF PutCharStore
<1>8. <<UartTxDataSend>>_vars => Sending'
  BY DEF UartTxDataSend, SendNext, Sending
<1>9. <<IRQHandler>>_vars => Sending' \/ Idle'
  BY DEF IRQHandler, SendNext, Sending, Idle
<1>10. <<UartTxData>>_vars => (pc = "send")'
  BY DEF UartTxData
<1>11. IInv => \/ Idle \/ Sending \/ line = "done"
  BY DEF IInv, TypeInv, TypeOK, Line, Idle, Sending
<1>12. IInv => pc = "loop" \/ pc = "wrap" \/ pc = "store" \/ pc = "send"
  BY DEF IInv, TypeInv, TypeOK
<1>13. IInv /\ Idle /\ pc = "loop" /\ ~(queue = <<>>) => pc = "loop" /\ ~tx_existed /\ BytesLeft
  <2> SUFFICES ASSUME IInv, Idle, pc = "loop", ~(queue = <<>>) PROVE ~tx_existed /\ BytesLeft
    OBVIOUS
  <2>1. ~tx_existed
    BY DEF IInv, Flags, Idle
  <2>2. Len(queue) = Used(rs232_Tx_Head, rs232_Tx_Tail) /\ Len(queue) # 0
    BY LengthBound DEF IInv, Length, Delimits
  <2>3. rs232_Tx_Head \in Slot /\ rs232_Tx_Tail \in Slot
    BY DEF IInv, TypeInv, TypeOK
  <2> QED
    BY <2>1, <2>2, <2>3, UsedBounds DEF BytesLeft
<1>14. StepsEnabled =>
  /\ pc = "wrap" => ENABLED <<PutCharWrap>>_vars
  /\ pc = "store" => ENABLED <<PutCharStore>>_vars
  /\ pc = "send" => ENABLED <<UartTxDataSend>>_vars
  /\ line = "done" => ENABLED <<IRQHandler>>_vars
  /\ pc = "loop" /\ ~tx_existed /\ BytesLeft => ENABLED <<UartTxData>>_vars
  BY DEF StepsEnabled
<1>15. Spec => []IInv
  BY InductiveInvariant
<1>16. FairSpec /\ []StepsEnabled => (line = "done" ~> Sending \/ Idle)
  BY <1>5, <1>9, <1>14, <1>15, PTL DEF FairSpec, Fairness, Spec
<1>17. FairSpec /\ []StepsEnabled => (Idle /\ pc = "wrap" ~> Sending \/ (Idle /\ pc = "store"))
  BY <1>1, <1>2, <1>6, <1>14, <1>15, PTL DEF FairSpec, Fairness, Spec
<1>18. FairSpec /\ []StepsEnabled => (Idle /\ pc = "store" ~> Sending \/ (Idle /\ pc = "loop"))
  BY <1>1, <1>3, <1>7, <1>14, <1>15, PTL DEF FairSpec, Fairness, Spec
<1>19. FairSpec /\ []StepsEnabled => (Idle /\ pc = "send" ~> Sending)
  BY <1>1, <1>4, <1>8, <1>14, <1>15, PTL DEF FairSpec, Fairness, Spec
<1>20. FairSpec /\ []StepsEnabled => (Idle /\ pc = "loop" ~> Sending \/ queue = <<>>)
  BY <1>1, <1>10, <1>12, <1>13, <1>14, <1>15, <1>17, <1>18, <1>19, PTL DEF FairSpec, Fairness, Spec
<1> QED
  BY <1>11, <1>12, <1>15, <1>16, <1>17, <1>18, <1>19, <1>20, PTL DEF FairSpec, Spec, KeepsSending
=============================================================================
