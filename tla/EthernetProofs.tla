--------------------------- MODULE EthernetProofs ---------------------------
(***************************************************************************)
(* Theorems about the Ethernet side.  Of TcpServer: for every number of    *)
(* slots and of control blocks, every length of a ring and every pool of   *)
(* lwIP.  The invariant falls into four parts, each about the variables    *)
(* that move together; an action is shown to keep those parts it does not  *)
(* leave alone.  Then of NetConf: for every set of addresses and all waits *)
(* and tries its loop and its client are given, and that it gets through   *)
(* its set-up: what leads to it step by step is proved; that a step can be *)
(* taken (LoopEnabled) and the rule of counting down are given.            *)
(***************************************************************************)
EXTENDS TcpServer, NetConf, TLAPS

LEN == TCP_SND_BUF_LEN

\* RingAgrees, of one ring's counters.
RingOf(t, l, h) == \/ t + l = h
                   \/ t + l = h + LEN
                   \/ t + l = h + LEN + LEN

Rings ==
  /\ head \in [Slot -> 0 .. LEN - 1]
  /\ tail \in [Slot -> 0 .. LEN - 1]
  /\ left \in [Slot -> 0 .. LEN - 1 + MaxMessage]
  /\ \A c \in Slot : RingOf(tail[c], left[c], head[c])

Loop == first_to_be_process \in 0 .. TCP_CLIENT_NUM /\ todo \in 0 .. TCP_CLIENT_NUM

Clients ==
  /\ pcb \in [Slot -> Pcb \cup {NULL}]
  /\ state \in [Slot -> {TCP_CLOSED, TCP_CONNECTED}]
  /\ conn \in [Pcb -> ConnState]
  /\ orphan \subseteq Pcb
  /\ EveryClientHasSlot
  /\ StaleOnlyUntilCheck

Segments ==
  /\ snd_buf \in [Pcb -> Nat]
  /\ inflight \in [Pcb -> Seq(1 .. TCP_MSS)]
  /\ leaked \in Nat
  /\ twice \in BOOLEAN

TcpInv == Rings /\ Loop /\ Clients /\ Segments

LEMMA RingsUnchanged == ASSUME Rings, UNCHANGED ring PROVE Rings'
  BY DEF Rings, ring

LEMMA LoopUnchanged == ASSUME Loop, UNCHANGED <<first_to_be_process, todo>> PROVE Loop'
  BY DEF Loop

LEMMA ClientsUnchanged ==
  ASSUME Clients, UNCHANGED <<pcb, state, conn, orphan>> PROVE Clients'
  BY DEF Clients, EveryClientHasSlot, StaleOnlyUntilCheck, Open

LEMMA SegmentsUnchanged ==
  ASSUME Segments, UNCHANGED <<snd_buf, inflight, leaked, twice>> PROVE Segments'
  BY DEF Segments

-----------------------------------------------------------------------------
(***************************************************************************)
(* Numbers.                                                                *)
(***************************************************************************)

LEMMA Lengths ==
  LEN \in Nat /\ LEN >= 1 /\ MaxMessage \in Nat /\ MaxMessage >= 1 /\ MaxMessage <= LEN
  BY ConstantsAssumption DEF LEN

LEMMA ZeroFits ==
  /\ 0 \in 0 .. LEN - 1 /\ 0 \in 0 .. LEN - 1 + MaxMessage /\ RingOf(0, 0, 0)
  /\ 0 \in 0 .. TCP_CLIENT_NUM /\ 0 \in Slot
  BY Lengths, ConstantsAssumption DEF RingOf, Slot

LEMMA RingLaps ==
  \A t, l, h \in Nat :
    (\E laps \in 0 .. 2 : t + l = h + laps * LEN) <=> RingOf(t, l, h)
<1> SUFFICES ASSUME NEW t \in Nat, NEW l \in Nat, NEW h \in Nat
             PROVE  (\E laps \in 0 .. 2 : t + l = h + laps * LEN) <=> RingOf(t, l, h)
  OBVIOUS
<1>1. 0 * LEN = 0 /\ 1 * LEN = LEN /\ 2 * LEN = LEN + LEN
  BY Lengths
<1>2. \A laps \in 0 .. 2 : laps = 0 \/ laps = 1 \/ laps = 2
  OBVIOUS
<1>3. 0 \in 0 .. 2 /\ 1 \in 0 .. 2 /\ 2 \in 0 .. 2
  OBVIOUS
<1>4. h + LEN + LEN = h + (LEN + LEN) /\ h + 0 = h
  BY Lengths
<1> HIDE DEF LEN
<1> QED
  BY <1>1, <1>2, <1>3, <1>4 DEF RingOf

\* A reply goes into a ring that is not full.
LEMMA FillRing ==
  \A t, h, l \in 0 .. LEN - 1 : \A n \in 1 .. MaxMessage :
    RingOf(t, l, h) =>
      /\ RingOf(t, l + n, Wrap(h + n))
      /\ Wrap(h + n) \in 0 .. LEN - 1
      /\ l + n \in 0 .. LEN - 1 + MaxMessage
  BY Lengths DEF RingOf, Wrap, LEN

\* A portion leaves a ring.
LEMMA EmptyRing ==
  \A t, h \in 0 .. LEN - 1 : \A l, n \in 0 .. LEN - 1 + MaxMessage :
    RingOf(t, l, h) /\ n <= l /\ t + n <= LEN =>
      /\ RingOf(IF t + n >= LEN THEN 0 ELSE t + n, l - n, h)
      /\ (IF t + n >= LEN THEN 0 ELSE t + n) \in 0 .. LEN - 1
      /\ l - n \in 0 .. LEN - 1 + MaxMessage
  BY Lengths DEF RingOf

\* The segments of a portion are as long as TCP_MSS at most, and not empty.
LEMMA CutType == \A n \in Nat : Cut(n) \in Seq(1 .. TCP_MSS)
<1> SUFFICES ASSUME NEW n \in Nat PROVE Cut(n) \in Seq(1 .. TCP_MSS)
  OBVIOUS
<1> DEFINE q == SegmentsFor(n)
<1>0. TCP_MSS \in Nat /\ TCP_MSS >= 1
  BY ConstantsAssumption
<1>1. q \in Nat /\ q * TCP_MSS <= n + TCP_MSS - 1
  BY <1>0 DEF SegmentsFor
<1> HIDE DEF q
<1>2. ASSUME NEW i \in 1 .. q PROVE Least(TCP_MSS, n - (i - 1) * TCP_MSS) \in 1 .. TCP_MSS
  <2>1. i * TCP_MSS <= q * TCP_MSS
    BY <1>0, <1>1, <1>2
  <2>2. (i - 1) * TCP_MSS = i * TCP_MSS - TCP_MSS
    BY <1>0
  <2>3. i * TCP_MSS \in Int /\ q * TCP_MSS \in Int
    BY <1>0, <1>1
  <2>4. n - (i - 1) * TCP_MSS >= 1
    BY <1>0, <1>1, <2>1, <2>2, <2>3
  <2> QED
    BY <1>0, <2>2, <2>3, <2>4 DEF Least
<1>3. Cut(n) = [i \in 1 .. q |-> Least(TCP_MSS, n - (i - 1) * TCP_MSS)]
  BY DEF Cut, q
<1> QED
  BY <1>1, <1>2, <1>3

LEMMA PortionFits ==
  ASSUME Rings, Segments, NEW c \in Slot, pcb[c] \in Pcb
  PROVE  /\ Portion(c) \in 0 .. LEN - 1 + MaxMessage
         /\ Portion(c) <= left[c]
         /\ Portion(c) <= snd_buf[pcb[c]]
         /\ tail[c] + Portion(c) <= LEN
<1>1. left[c] \in 0 .. LEN - 1 + MaxMessage /\ tail[c] \in 0 .. LEN - 1
      /\ snd_buf[pcb[c]] \in Nat
  BY DEF Rings, Segments
<1> QED
  BY <1>1, Lengths DEF Portion, UpToTheEnd, Least, LEN

LEMMA HandOverKeeps ==
  ASSUME Rings, Segments, NEW c \in Slot, pcb[c] \in Pcb, HandOver(c),
         UNCHANGED <<head, leaked, twice>>
  PROVE  Rings' /\ Segments'
<1> DEFINE n == Portion(c)
<1>0. /\ n \in 0 .. LEN - 1 + MaxMessage /\ n <= left[c] /\ n <= snd_buf[pcb[c]]
      /\ tail[c] + n <= LEN
  BY PortionFits
<1>1. /\ snd_buf' = [snd_buf EXCEPT ![pcb[c]] = @ - n]
      /\ inflight' = [inflight EXCEPT ![pcb[c]] = @ \o Cut(n)]
      /\ left' = [left EXCEPT ![c] = @ - n]
      /\ tail' = [tail EXCEPT ![c] = IF @ + n >= LEN THEN 0 ELSE @ + n]
  BY DEF HandOver, LEN
<1> HIDE DEF n
<1>2. /\ head \in [Slot -> 0 .. LEN - 1] /\ tail \in [Slot -> 0 .. LEN - 1]
      /\ left \in [Slot -> 0 .. LEN - 1 + MaxMessage] /\ head' = head
      /\ \A d \in Slot : RingOf(tail[d], left[d], head[d])
  BY DEF Rings
<1>3. /\ RingOf(IF tail[c] + n >= LEN THEN 0 ELSE tail[c] + n, left[c] - n, head[c])
      /\ (IF tail[c] + n >= LEN THEN 0 ELSE tail[c] + n) \in 0 .. LEN - 1
      /\ left[c] - n \in 0 .. LEN - 1 + MaxMessage
  BY <1>0, <1>2, EmptyRing
<1>4. Rings'
  <2>1. /\ tail'[c] = (IF tail[c] + n >= LEN THEN 0 ELSE tail[c] + n)
        /\ left'[c] = left[c] - n
        /\ \A d \in Slot : d # c => tail'[d] = tail[d] /\ left'[d] = left[d]
    BY <1>1, <1>2
  <2>2. tail' \in [Slot -> 0 .. LEN - 1] /\ left' \in [Slot -> 0 .. LEN - 1 + MaxMessage]
    BY <1>1, <1>2, <1>3
  <2>3. \A d \in Slot : RingOf(tail'[d], left'[d], head'[d])
    BY <1>2, <1>3, <2>1
  <2> QED
    BY <1>2, <2>2, <2>3 DEF Rings
<1>5. Segments'
  <2>1. Cut(n) \in Seq(1 .. TCP_MSS)
    BY <1>0, CutType, Lengths
  <2>2. inflight' \in [Pcb -> Seq(1 .. TCP_MSS)]
    <3>1. inflight[pcb[c]] \o Cut(n) \in Seq(1 .. TCP_MSS)
      BY <2>1 DEF Segments
    <3> QED
      BY <1>1, <3>1 DEF Segments
  <2>3. snd_buf' \in [Pcb -> Nat]
    <3>1. snd_buf[pcb[c]] - n \in Nat
      BY <1>0, Lengths DEF Segments
    <3> QED
      BY <1>1, <3>1 DEF Segments
  <2> QED
    BY <2>2, <2>3 DEF Segments
<1> QED
  BY <1>4, <1>5

-----------------------------------------------------------------------------
(***************************************************************************)
(* The steps.                                                              *)
(***************************************************************************)

LEMMA InitInv == Init => TcpInv
<1> SUFFICES ASSUME Init PROVE TcpInv
  OBVIOUS
<1>1. Rings
  BY ZeroFits DEF Init, Rings
<1>2. Loop
  BY ZeroFits DEF Init, Loop
<1>3. Clients
  BY DEF Init, Clients, EveryClientHasSlot, StaleOnlyUntilCheck, ConnState
<1>4. Segments
  <2>1. twice \in BOOLEAN
    BY Zenon DEF Init
  <2>2. /\ snd_buf \in [Pcb -> Nat] /\ inflight \in [Pcb -> Seq(1 .. TCP_MSS)]
        /\ leaked \in Nat
    BY ConstantsAssumption DEF Init
  <2> QED
    BY <2>1, <2>2, Zenon DEF Segments
<1> QED
  BY <1>1, <1>2, <1>3, <1>4 DEF TcpInv

LEMMA EmptiedSegments ==
  ASSUME Segments, NEW p \in Pcb, Emptied(p), leaked' \in Nat, twice' \in BOOLEAN
  PROVE  Segments'
<1>1. <<>> \in Seq(1 .. TCP_MSS) /\ TCP_SND_BUF \in Nat
  BY ConstantsAssumption
<1>2. snd_buf' \in [Pcb -> Nat] /\ inflight' \in [Pcb -> Seq(1 .. TCP_MSS)]
  BY <1>1 DEF Segments, Emptied
<1> QED
  BY <1>2, Zenon DEF Segments

\* A SYN leaves established clients alone: it takes memory no client has.
LEMMA SynReceivedInv == ASSUME TcpInv, NEW p \in Pcb, SynReceived(p) PROVE TcpInv'
<1>0. Rings /\ Clients /\ Segments /\ Loop
  BY DEF TcpInv
<1>1. PICK reads \in {"SYN_RCVD", "free"} : conn' = [conn EXCEPT ![p] = reads]
  BY DEF SynReceived
<1>2. Clients'
  <2>1. UNCHANGED <<pcb, state, orphan>> /\ conn[p] \in {"free", "ghost"}
    BY DEF SynReceived
  <2>2. conn'[p] = reads /\ \A q \in Pcb : q # p => conn'[q] = conn[q]
    BY <1>0, <1>1 DEF Clients
  <2>3. conn' \in [Pcb -> ConnState]
    BY <1>0, <1>1 DEF Clients, ConnState
  <2> QED
    BY <1>0, <2>1, <2>2, <2>3 DEF Clients, EveryClientHasSlot, StaleOnlyUntilCheck, Open
<1>3. Segments'
  <2>1. inflight[p] \in Seq(1 .. TCP_MSS) /\ leaked \in Nat
    BY <1>0 DEF Segments
  <2>2. leaked' \in Nat /\ twice' = twice
    BY <2>1 DEF SynReceived
  <2>3. CASE Emptied(p)
    BY <1>0, <2>2, <2>3, EmptiedSegments DEF Segments
  <2>4. CASE /\ inflight' = [inflight EXCEPT ![p] = <<1>>]
             /\ snd_buf' = [snd_buf EXCEPT ![p] = TCP_SND_BUF - 1]
    <3>1. <<1>> \in Seq(1 .. TCP_MSS) /\ TCP_SND_BUF - 1 \in Nat
      BY ConstantsAssumption
    <3>2. snd_buf' \in [Pcb -> Nat] /\ inflight' \in [Pcb -> Seq(1 .. TCP_MSS)]
      BY <1>0, <2>4, <3>1 DEF Segments
    <3> QED
      BY <1>0, <2>2, <3>2 DEF Segments
  <2> QED
    BY <2>3, <2>4 DEF SynReceived
<1> QED
  BY <1>0, <1>2, <1>3, RingsUnchanged, LoopUnchanged DEF TcpInv, SynReceived

\* A slot is taken only if it is free: no established client loses its own.
LEMMA ClientAcceptInv ==
  ASSUME TcpInv, NEW p \in Pcb, NEW c \in Slot, ClientAccept(p, c) PROVE TcpInv'
<1>0. Rings /\ Clients /\ Segments /\ Loop
  BY DEF TcpInv
<1>1. Rings'
  <2>1. /\ head' = [head EXCEPT ![c] = 0] /\ tail' = [tail EXCEPT ![c] = 0]
        /\ left' = [left EXCEPT ![c] = 0]
    BY DEF ClientAccept
  <2>2. \A d \in Slot : \/ tail'[d] = tail[d] /\ left'[d] = left[d] /\ head'[d] = head[d]
                        \/ tail'[d] = 0 /\ left'[d] = 0 /\ head'[d] = 0
    BY <1>0, <2>1 DEF Rings
  <2>3. \A d \in Slot : RingOf(tail'[d], left'[d], head'[d])
    BY <1>0, <2>2, ZeroFits DEF Rings
  <2>4. /\ head' \in [Slot -> 0 .. LEN - 1] /\ tail' \in [Slot -> 0 .. LEN - 1]
        /\ left' \in [Slot -> 0 .. LEN - 1 + MaxMessage]
    BY <1>0, <2>1, ZeroFits DEF Rings
  <2> QED
    BY <2>3, <2>4 DEF Rings
<1>2. Segments'
  BY <1>0, EmptiedSegments DEF ClientAccept, Segments
<1>3. Clients'
  <2>0. /\ pcb' = [pcb EXCEPT ![c] = p]
        /\ state' = [state EXCEPT ![c] = TCP_CONNECTED]
        /\ conn' = [conn EXCEPT ![p] = "ESTABLISHED"]
        /\ orphan' = orphan \ {p}
        /\ conn[p] = "SYN_RCVD"
        /\ pcb[c] = NULL \/ state[c] = TCP_CLOSED
    BY DEF ClientAccept, FreeSlot
  <2>1. /\ pcb' \in [Slot -> Pcb \cup {NULL}] /\ state' \in [Slot -> {TCP_CLOSED, TCP_CONNECTED}]
        /\ conn' \in [Pcb -> ConnState] /\ orphan' \subseteq Pcb
    BY <1>0, <2>0 DEF Clients, ConnState
  <2>2. /\ pcb'[c] = p /\ state'[c] = TCP_CONNECTED /\ conn'[p] = "ESTABLISHED"
        /\ \A d \in Slot : d # c => pcb'[d] = pcb[d] /\ state'[d] = state[d]
        /\ \A q \in Pcb : q # p => conn'[q] = conn[q]
    BY <1>0, <2>0 DEF Clients
  <2>3. EveryClientHasSlot'
    <3> SUFFICES ASSUME NEW q \in Pcb, conn'[q] = "ESTABLISHED"
                 PROVE  \E d \in Slot : pcb'[d] = q /\ state'[d] = TCP_CONNECTED
      BY DEF EveryClientHasSlot
    <3>1. CASE q = p
      BY <2>2, <3>1
    <3>2. CASE q # p
      <4>1. PICK d \in Slot : pcb[d] = q /\ state[d] = TCP_CONNECTED
        BY <1>0, <2>2, <3>2 DEF Clients, EveryClientHasSlot
      <4>2. d # c
        BY <2>0, <4>1, ConstantsAssumption DEF TCP_CLOSED, TCP_CONNECTED
      <4> QED
        BY <2>2, <4>1, <4>2
    <3> QED
      BY <3>1, <3>2
  <2>4. StaleOnlyUntilCheck'
    BY <1>0, <2>0, <2>1, <2>2 DEF Clients, StaleOnlyUntilCheck, Open
  <2> QED
    BY <2>1, <2>3, <2>4 DEF Clients
<1>4. Loop'
  BY <1>0, LoopUnchanged DEF ClientAccept
<1> QED
  BY <1>1, <1>2, <1>3, <1>4 DEF TcpInv

LEMMA ClientRefuseInv == ASSUME TcpInv, NEW p \in Pcb, ClientRefuse(p) PROVE TcpInv'
<1>0. Rings /\ Clients /\ Segments /\ Loop
  BY DEF TcpInv
<1>1. Segments'
  <2>1. twice' \in BOOLEAN
    BY Zenon DEF ClientRefuse
  <2> QED
    BY <1>0, <2>1, EmptiedSegments DEF ClientRefuse, Segments
<1>2. Clients'
  <2>1. /\ UNCHANGED <<pcb, state>> /\ conn' = [conn EXCEPT ![p] = "free"]
        /\ conn[p] = "SYN_RCVD" /\ orphan' = orphan \cup {p}
    BY DEF ClientRefuse
  <2>2. conn'[p] = "free" /\ \A q \in Pcb : q # p => conn'[q] = conn[q]
    BY <1>0, <2>1 DEF Clients
  <2>3. conn' \in [Pcb -> ConnState]
    BY <1>0, <2>1 DEF Clients, ConnState
  <2> QED
    BY <1>0, <2>1, <2>2, <2>3 DEF Clients, EveryClientHasSlot, StaleOnlyUntilCheck, Open
<1> QED
  BY <1>0, <1>1, <1>2, RingsUnchanged, LoopUnchanged DEF TcpInv, ClientRefuse

LEMMA PeerCloseInv == ASSUME TcpInv, NEW p \in Pcb, PeerClose(p) PROVE TcpInv'
<1>0. Rings /\ Clients /\ Segments /\ Loop
  BY DEF TcpInv
<1>1. Clients'
  <2>1. /\ UNCHANGED <<pcb, state, orphan>> /\ conn' = [conn EXCEPT ![p] = "CLOSE_WAIT"]
    BY DEF PeerClose
  <2>2. conn'[p] = "CLOSE_WAIT" /\ \A q \in Pcb : q # p => conn'[q] = conn[q]
    BY <1>0, <2>1 DEF Clients
  <2>3. conn' \in [Pcb -> ConnState]
    BY <1>0, <2>1 DEF Clients, ConnState
  <2> QED
    BY <1>0, <2>1, <2>2, <2>3 DEF Clients, EveryClientHasSlot, StaleOnlyUntilCheck, Open
<1> QED
  BY <1>0, <1>1, RingsUnchanged, LoopUnchanged, SegmentsUnchanged DEF TcpInv, PeerClose

LEMMA ConnErrInv ==
  ASSUME TcpInv, NEW p \in Pcb, NEW reads \in {"free", "ghost"}, ConnErr(p, reads)
  PROVE  TcpInv'
<1>0. Rings /\ Clients /\ Segments /\ Loop
  BY DEF TcpInv
<1>1. Clients'
  <2>1. /\ UNCHANGED <<pcb, state>> /\ conn' = [conn EXCEPT ![p] = reads]
        /\ orphan' = orphan \cup {p}
    BY DEF ConnErr
  <2>2. conn'[p] = reads /\ \A q \in Pcb : q # p => conn'[q] = conn[q]
    BY <1>0, <2>1 DEF Clients
  <2>3. conn' \in [Pcb -> ConnState] /\ orphan' \subseteq Pcb
    BY <1>0, <2>1 DEF Clients, ConnState
  <2> QED
    BY <1>0, <2>1, <2>2, <2>3 DEF Clients, EveryClientHasSlot, StaleOnlyUntilCheck, Open
<1>2. Segments'
  <2>1. <<>> \in Seq(1 .. TCP_MSS) /\ TCP_SND_BUF \in Nat
    BY ConstantsAssumption
  <2>2. /\ inflight' = [inflight EXCEPT ![p] = <<>>]
        /\ snd_buf' = snd_buf \/ snd_buf' = [snd_buf EXCEPT ![p] = TCP_SND_BUF]
        /\ UNCHANGED <<leaked, twice>>
    BY DEF ConnErr
  <2>3. inflight' \in [Pcb -> Seq(1 .. TCP_MSS)] /\ snd_buf' \in [Pcb -> Nat]
    BY <1>0, <2>1, <2>2 DEF Segments
  <2> QED
    BY <1>0, <2>2, <2>3 DEF Segments
<1> QED
  BY <1>0, <1>1, <1>2, RingsUnchanged, LoopUnchanged DEF TcpInv, ConnErr

LEMMA HeadTail ==
  ASSUME NEW S, NEW s \in Seq(S), s # <<>> PROVE Tail(s) \in Seq(S) /\ Head(s) \in S
  OBVIOUS

LEMMA AckInv == ASSUME TcpInv, NEW p \in Pcb, Ack(p) PROVE TcpInv'
<1>0. Rings /\ Clients /\ Segments /\ Loop
  BY DEF TcpInv
<1>1. Segments'
  <2>1. inflight[p] \in Seq(1 .. TCP_MSS) /\ inflight[p] # <<>> /\ snd_buf[p] \in Nat
    BY <1>0 DEF Ack, Segments
  <2>2. Tail(inflight[p]) \in Seq(1 .. TCP_MSS) /\ Head(inflight[p]) \in 1 .. TCP_MSS
    BY <2>1, HeadTail
  <2>3. snd_buf[p] + Head(inflight[p]) \in Nat
    BY <2>1, <2>2
  <2>4. inflight' \in [Pcb -> Seq(1 .. TCP_MSS)] /\ snd_buf' \in [Pcb -> Nat]
    BY <1>0, <2>2, <2>3 DEF Segments, Ack
  <2> QED
    BY <1>0, <2>4 DEF Segments, Ack
<1> QED
  BY <1>0, <1>1, RingsUnchanged, LoopUnchanged, ClientsUnchanged DEF TcpInv, Ack

\* The check keeps an established client's slots, and lets a slot name what is
\* not listed only if it has just closed it.
LEMMA ConnectionStateCheckInv == ASSUME TcpInv, ConnectionStateCheck PROVE TcpInv'
<1> DEFINE closed == {pcb[c] : c \in {d \in Slot : Closing(d)}}
<1>0. Rings /\ Clients /\ Segments /\ Loop
  BY DEF TcpInv
<1>1. /\ pcb' = [c \in Slot |-> PcbChecked(c)]
      /\ state' = [c \in Slot |-> StateChecked(c)]
      /\ conn' = [p \in Pcb |-> IF p \in closed THEN "free" ELSE conn[p]]
      /\ inflight' = [p \in Pcb |-> IF p \in closed THEN <<>> ELSE inflight[p]]
      /\ snd_buf' = [p \in Pcb |-> IF p \in closed THEN TCP_SND_BUF ELSE snd_buf[p]]
      /\ orphan' = closed \cup {p \in orphan : conn[p] = "SYN_RCVD"}
      /\ UNCHANGED <<ring, first_to_be_process, todo, leaked, twice>>
  BY DEF ConnectionStateCheck
<1>2. /\ closed \subseteq Pcb
      /\ \A p \in closed : conn[p] # "ESTABLISHED"
      /\ \A c \in Slot : Closing(c) => pcb[c] \in closed
  BY <1>0, ConstantsAssumption DEF Closing, Clients
<1> HIDE DEF closed
<1>3. Segments'
  <2>1. <<>> \in Seq(1 .. TCP_MSS) /\ TCP_SND_BUF \in Nat
    BY ConstantsAssumption
  <2>2. inflight' \in [Pcb -> Seq(1 .. TCP_MSS)] /\ snd_buf' \in [Pcb -> Nat]
    BY <1>0, <1>1, <2>1 DEF Segments
  <2> QED
    BY <1>0, <1>1, <2>2 DEF Segments
<1>4. /\ pcb' \in [Slot -> Pcb \cup {NULL}] /\ state' \in [Slot -> {TCP_CLOSED, TCP_CONNECTED}]
      /\ conn' \in [Pcb -> ConnState] /\ orphan' \subseteq Pcb
  BY <1>0, <1>1, <1>2 DEF Clients, ConnState, PcbChecked, StateChecked
<1>5. \A p \in Pcb : conn'[p] = IF p \in closed THEN "free" ELSE conn[p]
  BY <1>1
<1>6. EveryClientHasSlot'
  <2> SUFFICES ASSUME NEW p \in Pcb, conn'[p] = "ESTABLISHED"
               PROVE  \E c \in Slot : pcb'[c] = p /\ state'[c] = TCP_CONNECTED
    BY DEF EveryClientHasSlot
  <2>1. conn[p] = "ESTABLISHED"
    BY <1>5
  <2>2. PICK c \in Slot : pcb[c] = p /\ state[c] = TCP_CONNECTED
    BY <1>0, <2>1 DEF Clients, EveryClientHasSlot
  <2>3. Found(c) /\ ~Closing(c)
    BY <2>1, <2>2, ConstantsAssumption DEF Found, Closing, Listed, Open
  <2> QED
    BY <1>1, <2>2, <2>3 DEF PcbChecked, StateChecked
<1>7. StaleOnlyUntilCheck'
  <2> SUFFICES ASSUME NEW c \in Slot, pcb'[c] # NULL, conn'[pcb'[c]] \notin {"ESTABLISHED", "CLOSE_WAIT"}
               PROVE  pcb'[c] \in orphan'
    BY DEF StaleOnlyUntilCheck, Open
  <2>1. Found(c) /\ pcb'[c] = pcb[c]
    BY <1>1 DEF PcbChecked
  <2>2. pcb[c] \in Pcb /\ pcb[c] # NULL /\ conn[pcb[c]] \in {"SYN_RCVD", "ESTABLISHED", "CLOSE_WAIT"}
    BY <1>0, <2>1 DEF Found, Clients, Listed, Open
  <2>3. CASE pcb[c] \in closed
    BY <1>1, <2>1, <2>3
  <2>4. CASE pcb[c] \notin closed
    <3>1. conn[pcb[c]] = "SYN_RCVD"
      BY <1>5, <2>1, <2>2, <2>4
    <3>2. pcb[c] \in orphan
      BY <1>0, <2>2, <3>1 DEF Clients, StaleOnlyUntilCheck, Open
    <3> QED
      BY <1>1, <2>1, <3>1, <3>2
  <2> QED
    BY <2>3, <2>4
<1> QED
  BY <1>0, <1>1, <1>3, <1>4, <1>6, <1>7, RingsUnchanged, LoopUnchanged DEF TcpInv, Clients

LEMMA EthernetSendMessageInv ==
  ASSUME TcpInv, NEW len \in 1 .. MaxMessage, EthernetSendMessage(len) PROVE TcpInv'
<1>0. Rings /\ Clients /\ Segments /\ Loop
  BY DEF TcpInv
<1>1. /\ head' = [c \in Slot |-> IF Receives(c) THEN Wrap(head[c] + len) ELSE head[c]]
      /\ left' = [c \in Slot |-> IF Receives(c) THEN left[c] + len ELSE left[c]]
      /\ tail' = tail /\ todo' = TCP_CLIENT_NUM
      /\ UNCHANGED <<pcb, state, first_to_be_process, lwip, orphan>>
  BY DEF EthernetSendMessage
<1>2. Rings'
  <2>1. ASSUME NEW c \in Slot
        PROVE  /\ head'[c] \in 0 .. LEN - 1
               /\ left'[c] \in 0 .. LEN - 1 + MaxMessage
               /\ RingOf(tail[c], left'[c], head'[c])
    <3>0. /\ head[c] \in 0 .. LEN - 1 /\ tail[c] \in 0 .. LEN - 1
          /\ left[c] \in 0 .. LEN - 1 + MaxMessage
          /\ RingOf(tail[c], left[c], head[c])
      BY <1>0 DEF Rings
    <3>1. CASE Receives(c)
      <4>1. c \in 0 .. c
        BY DEF Slot
      <4>2. left[c] < LEN
        BY <3>1, <4>1 DEF Receives, LEN
      <4>3. left[c] \in 0 .. LEN - 1
        BY <3>0, <4>2, Lengths
      <4>4. head'[c] = Wrap(head[c] + len) /\ left'[c] = left[c] + len
        BY <1>1, <3>1
      <4> QED
        BY <3>0, <4>3, <4>4, FillRing
    <3>2. CASE ~Receives(c)
      BY <1>1, <3>0, <3>2
    <3> QED
      BY <3>1, <3>2
  <2>2. head' = [c \in Slot |-> head'[c]] /\ left' = [c \in Slot |-> left'[c]]
    BY <1>1
  <2>3. head' \in [Slot -> 0 .. LEN - 1] /\ left' \in [Slot -> 0 .. LEN - 1 + MaxMessage]
    BY <2>1, <2>2
  <2> QED
    BY <1>0, <1>1, <2>1, <2>3 DEF Rings
<1>3. Loop'
  BY <1>0, <1>1, ConstantsAssumption DEF Loop
<1>4. Clients' /\ Segments'
  BY <1>0, <1>1, ClientsUnchanged, SegmentsUnchanged DEF lwip
<1> QED
  BY <1>2, <1>3, <1>4 DEF TcpInv

LEMMA SendNextInv == ASSUME TcpInv, SendNext PROVE TcpInv'
<1> DEFINE c == IF first_to_be_process = TCP_CLIENT_NUM THEN 0 ELSE first_to_be_process
<1>0. Rings /\ Clients /\ Segments /\ Loop
  BY DEF TcpInv
<1>1. TCP_CLIENT_NUM \in Nat /\ TCP_CLIENT_NUM >= 1 /\ first_to_be_process \in 0 .. TCP_CLIENT_NUM
      /\ todo \in 0 .. TCP_CLIENT_NUM /\ todo > 0
  BY <1>0, ConstantsAssumption DEF Loop, SendNext
<1>2. c \in Slot /\ c + 1 \in 0 .. TCP_CLIENT_NUM /\ c \in 0 .. TCP_CLIENT_NUM
      /\ todo - 1 \in 0 .. TCP_CLIENT_NUM /\ 0 \in 0 .. TCP_CLIENT_NUM
  BY <1>1 DEF Slot
<1>3. /\ UNCHANGED <<pcb, state, head, conn, leaked, twice, orphan>>
      /\ \/ first_to_be_process' = c + 1 /\ todo' = todo - 1
         \/ first_to_be_process' = c /\ todo' = 0
      /\ \/ UNCHANGED <<tail, left, snd_buf, inflight>>
         \/ ReadsEstablished(pcb[c]) /\ HandOver(c)
  BY DEF SendNext
<1> HIDE DEF c
<1>4. Loop'
  BY <1>2, <1>3 DEF Loop
<1>5. Clients'
  BY <1>0, <1>3, ClientsUnchanged
<1>6. Rings' /\ Segments'
  <2>1. CASE UNCHANGED <<tail, left, snd_buf, inflight>>
    BY <1>0, <1>3, <2>1, RingsUnchanged, SegmentsUnchanged DEF ring
  <2>2. CASE ReadsEstablished(pcb[c]) /\ HandOver(c)
    <3>1. pcb[c] \in Pcb
      BY <1>0, <1>2, <2>2 DEF ReadsEstablished, Clients
    <3> QED
      BY <1>0, <1>2, <1>3, <2>2, <3>1, HandOverKeeps
  <2> QED
    BY <1>3, <2>1, <2>2
<1> QED
  BY <1>4, <1>5, <1>6 DEF TcpInv

LEMMA MessagePollInv == ASSUME TcpInv, NEW p \in Pcb, MessagePoll(p) PROVE TcpInv'
<1>1. PICK c \in Slot : pcb[c] = p /\ HandOver(c)
  BY DEF MessagePoll, PolledSlot
<1>2. UNCHANGED <<pcb, state, head, first_to_be_process, todo, conn, leaked, twice, orphan>>
  BY DEF MessagePoll
<1> QED
  BY <1>1, <1>2, HandOverKeeps, ClientsUnchanged, LoopUnchanged DEF TcpInv

LEMMA PowerCycleInv == ASSUME TcpInv, PowerCycle PROVE TcpInv'
<1>1. Rings'
  BY ZeroFits DEF PowerCycle, Rings
<1>2. Loop'
  BY ZeroFits DEF TcpInv, PowerCycle, Loop
<1>3. Clients'
  BY DEF PowerCycle, Clients, EveryClientHasSlot, StaleOnlyUntilCheck, ConnState
<1>4. Segments'
  <2>1. twice' \in BOOLEAN
    BY Zenon DEF PowerCycle
  <2>2. /\ snd_buf' \in [Pcb -> Nat] /\ inflight' \in [Pcb -> Seq(1 .. TCP_MSS)]
        /\ leaked' \in Nat
    BY ConstantsAssumption DEF PowerCycle
  <2> QED
    BY <2>1, <2>2, Zenon DEF Segments
<1> QED
  BY <1>1, <1>2, <1>3, <1>4 DEF TcpInv

LEMMA TcpInvInductive == ASSUME TcpInv, [Next]_vars PROVE TcpInv'
<1>1. ASSUME NEW p \in Pcb, PeerReset(p) \/ PeerSilent(p) PROVE TcpInv'
  BY <1>1, ConnErrInv DEF PeerReset, PeerSilent
<1>2. CASE UNCHANGED vars
  BY <1>2, RingsUnchanged, LoopUnchanged, ClientsUnchanged, SegmentsUnchanged
  DEF TcpInv, vars, lwip
<1> QED
  BY <1>1, <1>2, SynReceivedInv, ClientAcceptInv, ClientRefuseInv, PeerCloseInv, AckInv, MessagePollInv,
     ConnectionStateCheckInv, EthernetSendMessageInv, SendNextInv, PowerCycleInv
  DEF Next

LEMMA TcpInvariant == Spec => []TcpInv
  BY InitInv, TcpInvInductive, PTL DEF Spec

-----------------------------------------------------------------------------
(***************************************************************************)
(* The theorems.                                                           *)
(***************************************************************************)

\* The ring's indices stay within the ring, and left within twice its length.
THEOREM TypeCorrect == Spec => []TypeOK
<1>1. TcpInv => TypeOK
  BY DEF TcpInv, Rings, Loop, Clients, Segments, TypeOK, LEN
<1> QED
  BY <1>1, TcpInvariant, PTL

\* No interleaving of replies, polls, new and dying clients lets a ring's three
\* counters come apart.
THEOREM RingsAgree == Spec => []RingAgrees
<1>1. TcpInv => RingAgrees
  <2> SUFFICES ASSUME TcpInv, NEW c \in Slot
               PROVE  \E laps \in 0 .. 2 : tail[c] + left[c] = head[c] + laps * LEN
    BY DEF RingAgrees, LEN
  <2>1. /\ tail[c] \in Nat /\ left[c] \in Nat /\ head[c] \in Nat
        /\ RingOf(tail[c], left[c], head[c])
    BY Lengths DEF TcpInv, Rings
  <2> QED
    BY <2>1, RingLaps
<1> QED
  BY <1>1, TcpInvariant, PTL

\* A live client keeps a slot, however many others come, close and die.
THEOREM ClientsHaveSlots == Spec => []EveryClientHasSlot
<1>1. TcpInv => EveryClientHasSlot
  BY DEF TcpInv, Clients
<1> QED
  BY <1>1, TcpInvariant, PTL

\* A slot outlives its connection until the next check at most.
THEOREM StaleSlotsAreChecked == Spec => []StaleOnlyUntilCheck
<1>1. TcpInv => StaleOnlyUntilCheck
  BY DEF TcpInv, Clients
<1> QED
  BY <1>1, TcpInvariant, PTL

\* Two slots name one connection only after its address has been used again.
THEOREM SharingNeedsReuse == Spec => SharedOnlyAfterReuse
<1>1. ASSUME TcpInv, [Next]_vars
      PROVE  [\A c, d \in Slot :
                c # d /\ pcb[c] # pcb[d] /\ pcb'[c] = pcb'[d] /\ pcb'[c] # NULL
                  => pcb'[c] \in orphan]_vars
  <2> SUFFICES ASSUME NEW c \in Slot, NEW d \in Slot, c # d, pcb[c] # pcb[d],
                      pcb'[c] = pcb'[d], pcb'[c] # NULL
               PROVE  pcb'[c] \in orphan
    OBVIOUS
  <2>0. /\ pcb \in [Slot -> Pcb \cup {NULL}] /\ conn \in [Pcb -> ConnState]
        /\ StaleOnlyUntilCheck
    BY <1>1 DEF TcpInv, Clients
  <2>1. CASE \E p \in Pcb, e \in Slot : ClientAccept(p, e)
    <3>1. PICK p \in Pcb, e \in Slot : ClientAccept(p, e)
      BY <2>1
    <3>2. pcb' = [pcb EXCEPT ![e] = p] /\ conn[p] = "SYN_RCVD"
      BY <3>1 DEF ClientAccept
    <3>3. pcb'[c] = p /\ (pcb[c] = p \/ pcb[d] = p)
      BY <2>0, <3>2
    <3> QED
      BY <2>0, <3>2, <3>3, ConstantsAssumption DEF StaleOnlyUntilCheck, Open
  <2>2. CASE ConnectionStateCheck
    <3>1. pcb' = [e \in Slot |-> PcbChecked(e)]
      BY <2>2 DEF ConnectionStateCheck
    <3> QED
      BY <3>1 DEF PcbChecked
  <2>3. CASE PowerCycle
    BY <2>3 DEF PowerCycle
  <2>4. CASE UNCHANGED pcb
    BY <2>4
  <2>5. \/ \E p \in Pcb, e \in Slot : ClientAccept(p, e)
        \/ ConnectionStateCheck \/ PowerCycle \/ UNCHANGED pcb
    <3>1. CASE Next
      BY <3>1 DEF Next, SynReceived, ClientRefuse, PeerClose, PeerReset, PeerSilent, ConnErr, Ack,
                  MessagePoll, EthernetSendMessage, SendNext
    <3>2. CASE UNCHANGED vars
      BY <3>2 DEF vars
    <3> QED
      BY <1>1, <3>1, <3>2
  <2> QED
    BY <2>1, <2>2, <2>3, <2>4, <2>5
<1> QED
  BY <1>1, TcpInvariant, PTL DEF Spec, SharedOnlyAfterReuse

-----------------------------------------------------------------------------
(***************************************************************************)
(* NetConf.  First lwIP's client, as functions of its record; then an      *)
(* invariant in three parts: what the steps of the set-up leave behind,    *)
(* the client, and the address.                                            *)
(***************************************************************************)

AnyClient == [state : ClientState, tries : Nat, request_timeout : Nat,
              offered : Address \cup {NoAddress}]

\* A client that asks for an address, or checks one, has been offered it.
HasOffer(d) == d.state \in {"REQUESTING", "CHECKING"} => d.offered \in Address

LEMMA Ticks ==
  /\ \A n \in Nat \ {0} : BackOff(n) \in Nat
  /\ DeclineTicks \in Nat
  /\ CheckTicks \in Nat
<1>1. TicksPerSecond \in Nat
  BY NetAssumption
<1>2. \A m, n \in Nat : m * n \in Nat
  OBVIOUS
<1>3. ASSUME NEW n \in Nat \ {0}
      PROVE  (IF n < 6 THEN <<2, 4, 8, 16, 32>>[n] ELSE 60) \in Nat
  <2>1. CASE n < 6
    <3>1. n \in {1, 2, 3, 4, 5}
      BY <2>1
    <3> QED
      BY <2>1, <3>1
  <2> QED
    BY <2>1
<1>4. \A n \in Nat \ {0} : BackOff(n) \in Nat
  BY <1>1, <1>2, <1>3 DEF BackOff
<1> QED
  BY <1>1, <1>4 DEF DeclineTicks, CheckTicks

\* What entering a state and a try in it do to a client.
LEMMA TriedFacts ==
  ASSUME NEW d \in AnyClient, NEW s \in ClientState, NEW n \in Nat
  PROVE  LET e == Tried(Enter(d, s), n)
         IN  /\ e \in AnyClient /\ e.state = s /\ e.offered = d.offered
             /\ e.tries = IF d.state = s THEN d.tries + 1 ELSE 1
<1>1. /\ Enter(d, s) \in AnyClient
      /\ Enter(d, s).state = s /\ Enter(d, s).offered = d.offered
      /\ Enter(d, s).tries = IF d.state = s THEN d.tries ELSE 0
  BY DEF Enter, AnyClient
<1>2. ASSUME NEW e \in AnyClient
      PROVE  /\ Tried(e, n) \in AnyClient
             /\ Tried(e, n).state = e.state /\ Tried(e, n).offered = e.offered
             /\ Tried(e, n).tries = e.tries + 1
  <2>1. e.tries + 1 \in Nat
    BY DEF AnyClient
  <2>2. Tried(e, n) \in AnyClient
    BY <2>1 DEF Tried, AnyClient
  <2>3. Tried(e, n).tries = e.tries + 1
    BY DEF Tried, AnyClient
  <2>4. Tried(e, n).state = e.state /\ Tried(e, n).offered = e.offered
    BY DEF Tried, AnyClient
  <2> QED
    BY <2>2, <2>3, <2>4
<1>3. d.tries \in Nat
  BY DEF AnyClient
<1> QED
  BY <1>1, <1>2, <1>3

LEMMA SendFacts ==
  ASSUME NEW d \in AnyClient, NEW s \in ClientState
  PROVE  /\ Send(d, s) \in AnyClient
         /\ Send(d, s).state = s /\ Send(d, s).offered = d.offered
         /\ Send(d, s).tries = IF d.state = s THEN d.tries + 1 ELSE 1
<1>1. Enter(d, s).tries \in Nat
  BY DEF Enter, AnyClient
<1>2. BackOff(Enter(d, s).tries + 1) \in Nat
  BY <1>1, Ticks
<1> QED
  BY <1>2, TriedFacts DEF Send

LEMMA ClientFacts ==
  ASSUME NEW d \in AnyClient
  PROVE  /\ Discover(d) \in AnyClient /\ Discover(d).state = "SELECTING"
         /\ Discover(d).tries = IF d.state = "SELECTING" THEN d.tries + 1 ELSE 1
         /\ Select(d) \in AnyClient /\ Select(d).state = "REQUESTING"
         /\ Select(d).offered = d.offered
         /\ Select(d).tries = IF d.state = "REQUESTING" THEN d.tries + 1 ELSE 1
         /\ Check(d) \in AnyClient /\ Check(d).state = "CHECKING"
         /\ Check(d).offered = d.offered
         /\ Check(d).tries = IF d.state = "CHECKING" THEN d.tries + 1 ELSE 1
         /\ Decline(d) \in AnyClient /\ Decline(d).state = "BACKING_OFF"
         /\ Decline(d).tries = IF d.state = "BACKING_OFF" THEN d.tries + 1 ELSE 1
<1> DEFINE c == [d EXCEPT !.offered = NoAddress]
<1>1. c \in AnyClient /\ c.state = d.state /\ c.tries = d.tries
  BY DEF AnyClient
<1>2. {"SELECTING", "REQUESTING", "CHECKING", "BACKING_OFF"} \subseteq ClientState
  BY DEF ClientState
<1>3. /\ Discover(d) \in AnyClient /\ Discover(d).state = "SELECTING"
      /\ Discover(d).tries = IF d.state = "SELECTING" THEN d.tries + 1 ELSE 1
  <2>1. Discover(d) = Send(c, "SELECTING")
    BY DEF Discover
  <2> HIDE DEF c
  <2>2. /\ Send(c, "SELECTING") \in AnyClient /\ Send(c, "SELECTING").state = "SELECTING"
        /\ Send(c, "SELECTING").tries =
             IF c.state = "SELECTING" THEN c.tries + 1 ELSE 1
    BY <1>1, <1>2, SendFacts
  <2> QED
    BY <1>1, <2>1, <2>2
<1>4. /\ Select(d) \in AnyClient /\ Select(d).state = "REQUESTING"
      /\ Select(d).offered = d.offered
      /\ Select(d).tries = IF d.state = "REQUESTING" THEN d.tries + 1 ELSE 1
  BY <1>2, SendFacts DEF Select
<1>5. /\ Check(d) \in AnyClient /\ Check(d).state = "CHECKING"
      /\ Check(d).offered = d.offered
      /\ Check(d).tries = IF d.state = "CHECKING" THEN d.tries + 1 ELSE 1
  BY <1>2, Ticks, TriedFacts DEF Check
<1>6. /\ Decline(d) \in AnyClient /\ Decline(d).state = "BACKING_OFF"
      /\ Decline(d).tries = IF d.state = "BACKING_OFF" THEN d.tries + 1 ELSE 1
  BY <1>2, Ticks, TriedFacts DEF Decline
<1> QED
  BY <1>3, <1>4, <1>5, <1>6

\* A tick neither starts nor removes a client, and is one more try at most.
LEMMA FineFacts ==
  ASSUME NEW d \in AnyClient, HasOffer(d)
  PROVE  /\ Fine(d) \in AnyClient
         /\ Fine(d).tries <= d.tries + 1
         /\ Fine(d).state = "none" <=> d.state = "none"
         /\ HasClient(Fine(d)) <=> HasClient(d)
         /\ ~HasClient(d) => Fine(d).tries = d.tries
         /\ HasOffer(Fine(d))
<1> DEFINE c == [d EXCEPT !.request_timeout = 0]
           Good(e) == /\ e \in AnyClient /\ e.tries <= d.tries + 1
                      /\ e.state = "none" <=> d.state = "none"
                      /\ HasClient(e) <=> HasClient(d)
                      /\ ~HasClient(d) => e.tries = d.tries
                      /\ HasOffer(e)
<1>1. c \in AnyClient /\ c.state = d.state /\ c.tries = d.tries /\ c.offered = d.offered
  BY DEF AnyClient
<1>2. Good(Timeout(c))
  <2> HIDE DEF c
  <2>0. d.tries \in Nat
    BY DEF AnyClient
  <2>1. CASE d.state \in {"SELECTING", "BACKING_OFF"}
    <3>1. Timeout(c) = Discover(c)
      BY <1>1, <2>1 DEF Timeout
    <3> QED
      BY <1>1, <2>0, <2>1, <3>1, ClientFacts DEF HasOffer, HasClient
  <2>2. CASE d.state = "REQUESTING"
    <3>1. Timeout(c) = Select(c)
      BY <1>1, <2>2 DEF Timeout
    <3> QED
      BY <1>1, <2>0, <2>2, <3>1, ClientFacts DEF HasOffer, HasClient
  <2>3. CASE d.state = "CHECKING"
    <3>1. Timeout(c) = Check(c)
      BY <1>1, <2>3 DEF Timeout
    <3> QED
      BY <1>1, <2>0, <2>3, <3>1, ClientFacts DEF HasOffer, HasClient
  <2>4. CASE d.state \notin {"SELECTING", "BACKING_OFF", "REQUESTING", "CHECKING"}
    <3>1. Timeout(c) = c
      BY <1>1, <2>4 DEF Timeout
    <3> QED
      BY <1>1, <2>0, <3>1 DEF HasOffer, HasClient
  <2> QED
    BY <2>1, <2>2, <2>3, <2>4
<1>3. d.request_timeout > 1 => Good([d EXCEPT !.request_timeout = @ - 1])
  BY DEF AnyClient, HasOffer, HasClient
<1>4. Good(d)
  BY DEF AnyClient
<1> HIDE DEF Good
<1>5. Good(Fine(d))
  BY <1>2, <1>3, <1>4 DEF Fine
<1> QED
  BY <1>5 DEF Good

\* The unit is off in standby only, its interface is in lwIP's list while it is
\* served, and before that nothing is known of an address.
Stages ==
  /\ power_on <=> EthInitStatus # 6
  /\ netif.added = IF EthInitStatus = 5 THEN 1 ELSE 0
  /\ EthInitStatus < 5 =>
       DHCP_state = "DHCP_START" /\ STATIC_state = "STATIC_WAIT_ETH_CONFIG"

\* A client is started, with or without success, exactly while an address is waited
\* for.
ClientWaits ==
  /\ HasOffer(dhcp)
  /\ EthInitStatus = 5 => (DHCP_state = "DHCP_WAIT_ADDRESS" <=> dhcp.state # "none")

\* A static address stays until a client is started; an assigned one, for good.
AddressKept ==
  EthInitStatus = 5 =>
    /\ netif.ip # NoAddress => netif.up
    /\ DHCP_state = "DHCP_START" /\ STATIC_state = "STATIC_IP_CONFIGURED"
         => netif.ip # NoAddress
    /\ DHCP_state = "DHCP_ADDRESS_ASSIGNED"
         => netif.ip # NoAddress /\ dhcp_ip_addr = netif.ip

NetInv == NetTypeOK /\ Stages /\ ClientWaits /\ AddressKept

LEMMA NetInitInv == NetInit => NetInv
<1> SUFFICES ASSUME NetInit PROVE NetInv
  OBVIOUS
<1>1. NoClient \in AnyClient /\ NoClient.state = "none" /\ NoClient.tries = 0
  BY DEF NoClient, AnyClient, ClientState
<1>2. 0 \in 0 .. MaxTries /\ 0 \in 0 .. MaxRefusals /\ 0 \in Nat
  BY NetAssumption DEF MaxTries
<1>3. NetTypeOK
  BY <1>2, NetAssumption
  DEF NetInit, NetTypeOK, NoClient, ClientState, PHY_STATUS, PhyWaiting,
      DHCP_STATE, STATIC_STATE
<1>4. Stages /\ AddressKept
  BY DEF NetInit, Stages, AddressKept
<1>5. ClientWaits
  BY <1>1 DEF NetInit, ClientWaits, HasOffer
<1> QED
  BY <1>3, <1>4, <1>5 DEF NetInv

\* The PHY: only its counter matters.
LEMMA PhyInv ==
  ASSUME NetInv,
         PhyReset \/ PhyDelay \/ PhyLinked \/ PhyNegotiated \/ PhyWaits \/ PhyDone
  PROVE  NetInv'
<1>1. /\ EthInitStatus = 2 /\ EthInitStatus' \in {2, 3} /\ power_on
      /\ UNCHANGED <<power_on, settings, address, linked>>
  BY DEF PhyReset, PhyDelay, PhyLinked, PhyNegotiated, PhyWaits, PhyDone, PhyAt
<1>2. /\ PHY_initial_status' \in PHY_STATUS
      /\ timeout' \in Nat
      /\ PHY_initial_status' = "PHY_RESET_DELAY_CHECK" => timeout' < PHY_RESET_TO
      /\ PHY_initial_status' \in PhyWaiting => timeout' < PHY_READ_TO
  <2>0. /\ PHY_initial_status \in PHY_STATUS
        /\ timeout \in Nat
        /\ PHY_initial_status = "PHY_RESET_DELAY_CHECK" => timeout < PHY_RESET_TO
        /\ PHY_initial_status \in PhyWaiting => timeout < PHY_READ_TO
    BY DEF NetInv, NetTypeOK
  <2>1. CASE PhyReset \/ PhyLinked \/ PhyNegotiated
    BY <2>1, NetAssumption
    DEF PhyReset, PhyLinked, PhyNegotiated, PHY_STATUS, PhyWaiting
  <2>2. CASE PhyDelay
    BY <2>0, <2>2, NetAssumption DEF PhyDelay, PhyAt, PHY_STATUS, PhyWaiting
  <2>3. CASE PhyWaits
    BY <2>0, <2>3, NetAssumption DEF PhyWaits, PhyAt, PHY_STATUS, PhyWaiting
  <2>4. CASE PhyDone
    BY <2>0, <2>4 DEF PhyDone, PhyAt, phy, PHY_STATUS, PhyWaiting
  <2> QED
    BY <2>1, <2>2, <2>3, <2>4
<1>3. NetTypeOK'
  BY <1>1, <1>2 DEF NetInv, NetTypeOK, settings, address
<1>4. Stages' /\ ClientWaits' /\ AddressKept'
  BY <1>1 DEF NetInv, NetTypeOK, Stages, ClientWaits, AddressKept, settings, address,
              HasOffer
<1> QED
  BY <1>3, <1>4 DEF NetInv

LEMMA LinkInterruptInv == ASSUME NetInv, LinkInterrupt PROVE NetInv'
<1>1. NetTypeOK'
  BY DEF NetInv, NetTypeOK, LinkInterrupt, phy, settings, address
<1>2. Stages' /\ ClientWaits' /\ AddressKept'
  BY DEF NetInv, Stages, ClientWaits, AddressKept, LinkInterrupt, phy, settings,
         address, HasOffer
<1> QED
  BY <1>1, <1>2 DEF NetInv

\* lwIP starts without a client, and with the user's address or with none.
LEMMA LwIPInitInv == ASSUME NetInv, LwIPInit PROVE NetInv'
<1>1. NoClient \in AnyClient /\ NoClient.state = "none" /\ NoClient.tries = 0
  BY DEF NoClient, AnyClient, ClientState
<1>2. dhcp' = NoClient /\ NoClient.tries \in 0 .. MaxTries /\ 0 \in 0 .. MaxRefusals
  BY <1>1, NetAssumption DEF LwIPInit, MaxTries
<1>3. netif.added = 0 /\ netif'.added = 1 /\ netif'.up /\ netif'.ip \in Address \cup {NoAddress}
      /\ netif' \in [added : Nat, up : BOOLEAN, ip : Address \cup {NoAddress}]
      /\ mode_dhcp_enable = 0 => netif'.ip # NoAddress
  BY NetAssumption DEF NetInv, NetTypeOK, Stages, LwIPInit
<1>4. NetTypeOK'
  BY <1>1, <1>2, <1>3
  DEF NetInv, NetTypeOK, LwIPInit, AnyClient, phy, settings, STATIC_STATE
<1>5. Stages'
  BY <1>3 DEF NetInv, Stages, LwIPInit
<1>6. ClientWaits'
  BY <1>1, <1>2 DEF NetInv, Stages, ClientWaits, LwIPInit, HasOffer
<1>7. AddressKept'
  BY <1>3 DEF NetInv, NetTypeOK, Stages, AddressKept, LwIPInit
<1> QED
  BY <1>4, <1>5, <1>6, <1>7 DEF NetInv

\* A tick leaves the stage as it is.
LEMMA TickInv ==
  ASSUME NetInv, Tick, netif'.added = netif.added
  PROVE  Stages'
BY DEF NetInv, Stages, Tick, Serving

LEMMA StartClientInv == ASSUME NetInv, StartClient PROVE NetInv'
<1>1. NoClient \in AnyClient /\ NoClient.state = "none" /\ NoClient.tries = 0
  BY DEF NoClient, AnyClient, ClientState
<1>2. /\ dhcp' \in AnyClient /\ dhcp'.tries \in {0, 1}
      /\ dhcp'.state \in {"SELECTING", "failed"}
  <2>1. /\ Discover(NoClient) \in AnyClient /\ Discover(NoClient).tries = 1
        /\ Discover(NoClient).state = "SELECTING"
    BY <1>1, ClientFacts
  <2>2. /\ FailedClient \in AnyClient /\ FailedClient.tries = 0
        /\ FailedClient.state = "failed"
    BY <1>1 DEF FailedClient, AnyClient, ClientState
  <2> QED
    BY <2>1, <2>2 DEF StartClient
<1>3. {0, 1} \subseteq 0 .. MaxTries
  BY NetAssumption DEF MaxTries
<1>4. NetTypeOK'
  BY <1>2, <1>3
  DEF NetInv, NetTypeOK, StartClient, Tick, AnyClient, phy, settings, DHCP_STATE
<1>5. Stages'
  BY TickInv DEF StartClient
<1>6. ClientWaits'
  BY <1>2 DEF StartClient, ClientWaits, HasOffer
<1>7. AddressKept'
  BY DEF NetInv, AddressKept, StartClient, Tick, Serving
<1> QED
  BY <1>4, <1>5, <1>6, <1>7 DEF NetInv

LEMMA TakeAddressInv == ASSUME NetInv, TakeAddress PROVE NetInv'
<1>1. NoClient \in AnyClient /\ NoClient.state = "none" /\ NoClient.tries = 0
  BY DEF NoClient, AnyClient, ClientState
<1>2. dhcp' = NoClient /\ NoClient.tries \in 0 .. MaxTries
  BY <1>1, NetAssumption DEF TakeAddress, MaxTries
<1>3. /\ netif' \in [added : Nat, up : BOOLEAN, ip : Address \cup {NoAddress}]
      /\ netif'.added = netif.added /\ netif'.up
  <2>1. CASE dhcp.request_timeout = 1 /\ Binds(dhcp)
    <3>1. dhcp.offered \in Address
      BY <2>1 DEF NetInv, ClientWaits, HasOffer, Binds
    <3> QED
      BY <2>1, <3>1 DEF NetInv, NetTypeOK, TakeAddress
  <2>2. CASE ~(dhcp.request_timeout = 1 /\ Binds(dhcp))
    <3>1. netif' = netif /\ netif.ip # NoAddress /\ EthInitStatus = 5
      BY <2>2 DEF TakeAddress, Tick, Serving
    <3> QED
      BY <3>1 DEF NetInv, NetTypeOK, AddressKept
  <2> QED
    BY <2>1, <2>2
<1>4. netif'.ip \in Address \cup {NoAddress}
  BY <1>3
<1>6. NetTypeOK'
  BY <1>1, <1>2, <1>3, <1>4
  DEF NetInv, NetTypeOK, TakeAddress, Tick, AnyClient, phy, settings, DHCP_STATE
<1>7. Stages'
  BY <1>3, TickInv DEF TakeAddress
<1>8. ClientWaits'
  BY <1>1, <1>2 DEF TakeAddress, ClientWaits, HasOffer
<1>9. AddressKept'
  BY <1>3 DEF AddressKept, TakeAddress
<1> QED
  BY <1>6, <1>7, <1>8, <1>9 DEF NetInv

LEMMA StillWaitsInv == ASSUME NetInv, StillWaits PROVE NetInv'
<1>1. NoClient \in AnyClient /\ NoClient.state = "none" /\ NoClient.tries = 0
  BY DEF NoClient, AnyClient, ClientState
<1>2. /\ dhcp \in AnyClient /\ HasOffer(dhcp) /\ dhcp.state # "none"
      /\ EthInitStatus = 5 /\ netif.ip = NoAddress
  BY DEF NetInv, NetTypeOK, ClientWaits, AnyClient, StillWaits, Tick, Serving
<1>3. /\ Fine(dhcp) \in AnyClient
      /\ Fine(dhcp).state # "none"
      /\ HasOffer(Fine(dhcp))
      /\ HasClient(Fine(dhcp)) <=> HasClient(dhcp)
      /\ ~HasClient(dhcp) => Fine(dhcp).tries = dhcp.tries
  BY <1>2, FineFacts
<1>4. \/ /\ GivesUp(Fine(dhcp)) /\ DHCP_state' = "DHCP_TIMEOUT" /\ dhcp' = NoClient
      \/ /\ ~GivesUp(Fine(dhcp)) /\ DHCP_state' = DHCP_state /\ dhcp' = Fine(dhcp)
  BY DEF StillWaits
<1>5. ~GivesUp(Fine(dhcp)) => Fine(dhcp).tries \in 0 .. MaxTries
  <2>1. CASE HasClient(dhcp)
    BY <1>3, <2>1, NetAssumption DEF GivesUp, TriesRead, MaxTries, AnyClient
  <2>2. CASE ~HasClient(dhcp)
    BY <1>3, <2>2 DEF NetInv, NetTypeOK
  <2> QED
    BY <2>1, <2>2
<1>6. 0 \in 0 .. MaxTries
  BY NetAssumption DEF MaxTries
<1>7. /\ dhcp' \in AnyClient /\ dhcp'.tries \in 0 .. MaxTries /\ HasOffer(dhcp')
      /\ DHCP_state' \in DHCP_STATE
      /\ DHCP_state' = "DHCP_WAIT_ADDRESS" <=> dhcp'.state # "none"
  BY <1>1, <1>3, <1>4, <1>5, <1>6 DEF HasOffer, StillWaits, DHCP_STATE
<1>8. NetTypeOK'
  BY <1>7 DEF NetInv, NetTypeOK, StillWaits, Tick, AnyClient, phy, settings
<1>9. Stages'
  BY TickInv DEF StillWaits
<1>10. ClientWaits'
  BY <1>7 DEF ClientWaits, HasOffer
<1>11. AddressKept'
  BY <1>2, <1>4 DEF NetInv, AddressKept, StillWaits
<1> QED
  BY <1>8, <1>9, <1>10, <1>11 DEF NetInv

\* What arrives changes the client and, a refusal by the server, the interface;
\* with the client there is an address being waited for, no other to be lost.
LEMMA ReceivedInv ==
  ASSUME NetInv, Received, DHCP_state = "DHCP_WAIT_ADDRESS",
         dhcp' \in AnyClient, dhcp'.state # "none", dhcp'.tries = 1, HasOffer(dhcp'),
         netif' \in [added : Nat, up : BOOLEAN, ip : Address \cup {NoAddress}],
         netif'.added = netif.added, netif'.ip # NoAddress => netif'.up,
         refusals' \in 0 .. MaxRefusals
  PROVE  NetInv'
<1>1. 1 \in 0 .. MaxTries
  BY NetAssumption DEF MaxTries
<1>2. NetTypeOK'
  BY <1>1 DEF NetInv, NetTypeOK, Received, AnyClient, phy, settings
<1>3. Stages'
  BY DEF NetInv, Stages, Received, Serving
<1>4. ClientWaits' /\ AddressKept'
  BY DEF Received, ClientWaits, AddressKept, HasOffer
<1> QED
  BY <1>2, <1>3, <1>4 DEF NetInv

LEMMA AnswerInv ==
  ASSUME NetInv, NEW a \in Address, DhcpOffer(a) \/ DhcpAck(a)
  PROVE  NetInv'
<1> DEFINE c == [dhcp EXCEPT !.offered = a]
<1>1. /\ Received /\ UNCHANGED <<netif, refusals>>
      /\ \/ dhcp.state = "SELECTING" /\ dhcp' = Select(c)
         \/ dhcp.state = "REQUESTING" /\ dhcp' = Check(c)
  BY DEF DhcpOffer, DhcpAck
<1>2. DHCP_state = "DHCP_WAIT_ADDRESS" /\ EthInitStatus = 5
  BY <1>1 DEF NetInv, ClientWaits, Received, Serving
<1>3. c \in AnyClient /\ c.state = dhcp.state /\ c.offered = a
  BY DEF NetInv, NetTypeOK, AnyClient
<1>4. /\ dhcp' \in AnyClient /\ dhcp'.state # "none" /\ dhcp'.tries = 1
      /\ HasOffer(dhcp')
  <2> HIDE DEF c
  <2> QED
    BY <1>1, <1>3, ClientFacts DEF HasOffer
<1>5. /\ netif' \in [added : Nat, up : BOOLEAN, ip : Address \cup {NoAddress}]
      /\ netif'.added = netif.added /\ netif'.ip # NoAddress => netif'.up
      /\ refusals' \in 0 .. MaxRefusals
  BY <1>1, <1>2 DEF NetInv, NetTypeOK, AddressKept
<1> QED
  BY <1>1, <1>2, <1>4, <1>5, ReceivedInv

LEMMA NakInv == ASSUME NetInv, DhcpNak PROVE NetInv'
<1> DEFINE c == Enter(dhcp, "BACKING_OFF")
<1>1. Received /\ dhcp.state = "REQUESTING" /\ Refused /\ dhcp' = Discover(c)
  BY DEF DhcpNak
<1>2. DHCP_state = "DHCP_WAIT_ADDRESS"
  BY <1>1 DEF NetInv, ClientWaits, Received, Serving
<1>3. c \in AnyClient /\ c.state = "BACKING_OFF"
  BY <1>1 DEF NetInv, NetTypeOK, AnyClient, Enter, ClientState
<1>4. /\ dhcp' \in AnyClient /\ dhcp'.state = "SELECTING" /\ dhcp'.tries = 1
  <2> HIDE DEF c
  <2> QED
    BY <1>1, <1>3, ClientFacts
<1>5. /\ netif' \in [added : Nat, up : BOOLEAN, ip : Address \cup {NoAddress}]
      /\ netif'.added = netif.added /\ netif'.ip = NoAddress
  BY DEF NetInv, NetTypeOK, DhcpNak
<1>6. refusals' \in 0 .. MaxRefusals
  BY <1>1, NetAssumption DEF NetInv, NetTypeOK, Refused
<1> QED
  BY <1>1, <1>2, <1>4, <1>5, <1>6, ReceivedInv DEF HasOffer

LEMMA ArpReplyInv == ASSUME NetInv, ArpReply PROVE NetInv'
<1>1. Received /\ dhcp.state = "CHECKING" /\ Refused /\ dhcp' = Decline(dhcp)
      /\ netif' = netif
  BY DEF ArpReply
<1>2. DHCP_state = "DHCP_WAIT_ADDRESS" /\ EthInitStatus = 5
  BY <1>1 DEF NetInv, ClientWaits, Received, Serving
<1>3. dhcp \in AnyClient
  BY DEF NetInv, NetTypeOK, AnyClient
<1>4. /\ dhcp' \in AnyClient /\ dhcp'.state = "BACKING_OFF" /\ dhcp'.tries = 1
  BY <1>1, <1>3, ClientFacts
<1>5. /\ netif' \in [added : Nat, up : BOOLEAN, ip : Address \cup {NoAddress}]
      /\ netif'.added = netif.added /\ netif'.ip # NoAddress => netif'.up
  BY <1>1, <1>2 DEF NetInv, NetTypeOK, AddressKept
<1>6. refusals' \in 0 .. MaxRefusals
  BY <1>1, NetAssumption DEF NetInv, NetTypeOK, Refused
<1> QED
  BY <1>1, <1>2, <1>4, <1>5, <1>6, ReceivedInv DEF HasOffer

LEMMA CableInv == ASSUME NetInv, CableChanges PROVE NetInv'
<1>1. /\ UNCHANGED <<power_on, EthInitStatus, phy, settings, DHCP_state, STATIC_state,
                     dhcp_ip_addr, netif, dhcp, refusals>>
      /\ linked' \in BOOLEAN
  BY DEF NetInv, NetTypeOK, CableChanges, address
<1>2. NetTypeOK'
  BY <1>1 DEF NetInv, NetTypeOK, phy, settings
<1>3. Stages' /\ ClientWaits' /\ AddressKept'
  BY <1>1 DEF NetInv, Stages, ClientWaits, AddressKept, HasOffer
<1> QED
  BY <1>2, <1>3 DEF NetInv

\* The settings are read where an address is set up only.
LEMMA SettingInv ==
  ASSUME NetInv,
         \/ \E val \in {0, 1} : ExecIpModeConfig(val)
         \/ \E a \in Address : ExecStaticIpSet(a)
  PROVE  NetInv'
<1>1. /\ UNCHANGED <<power_on, EthInitStatus, phy, address, linked>>
      /\ mode_dhcp_enable' \in {0, 1} /\ manual_ip_addr' \in Address
  BY DEF NetInv, NetTypeOK, ExecIpModeConfig, ExecStaticIpSet
<1>2. NetTypeOK'
  BY <1>1 DEF NetInv, NetTypeOK, phy, address
<1>3. Stages' /\ ClientWaits' /\ AddressKept'
  BY <1>1 DEF NetInv, Stages, ClientWaits, AddressKept, address, HasOffer
<1> QED
  BY <1>2, <1>3 DEF NetInv

LEMMA PowerOffInv == ASSUME NetInv, PowerOff PROVE NetInv'
<1>1. /\ power_on' = FALSE /\ EthInitStatus' = 6
      /\ UNCHANGED <<phy, settings, DHCP_state, STATIC_state, dhcp_ip_addr, dhcp,
                     linked, refusals>>
  BY DEF PowerOff
<1>2. /\ netif' \in [added : Nat, up : BOOLEAN, ip : Address \cup {NoAddress}]
      /\ netif'.added = 0
  BY DEF NetInv, NetTypeOK, Stages, PowerOff, Removed
<1>3. NetTypeOK'
  <2>1. power_on' \in BOOLEAN
    BY <1>1, Zenon
  <2>2. EthInitStatus' \in 2 .. 6
    BY <1>1
  <2>3. UNCHANGED <<phy, settings, DHCP_state, STATIC_state, dhcp_ip_addr, dhcp,
                    linked, refusals>>
    BY <1>1
  <2> QED
    BY <1>2, <2>1, <2>2, <2>3 DEF NetInv, NetTypeOK, phy, settings
<1>4. Stages'
  BY <1>1, <1>2 DEF Stages
<1>5. ClientWaits' /\ AddressKept'
  BY <1>1 DEF NetInv, ClientWaits, AddressKept, HasOffer
<1> QED
  BY <1>3, <1>4, <1>5 DEF NetInv

LEMMA PowerOnInv == ASSUME NetInv, PowerOn PROVE NetInv'
<1>1. NetTypeOK'
  BY DEF NetInv, NetTypeOK, PowerOn, Forgotten, settings, DHCP_STATE, STATIC_STATE,
         PHY_STATUS, PhyWaiting
<1>2. Stages'
  BY DEF NetInv, Stages, PowerOn, Forgotten
<1>3. ClientWaits' /\ AddressKept'
  BY DEF NetInv, ClientWaits, AddressKept, PowerOn, HasOffer
<1> QED
  BY <1>1, <1>2, <1>3 DEF NetInv

LEMMA NetStepInv == ASSUME NetInv, [NetNext]_netVars PROVE NetInv'
<1>1. CASE EthernetMain
  BY <1>1, PhyInv, LinkInterruptInv, LwIPInitInv, StartClientInv, TakeAddressInv,
     StillWaitsInv
  DEF EthernetMain, FineTick
<1>2. CASE Network
  BY <1>2, AnswerInv, NakInv, ArpReplyInv, CableInv DEF Network
<1>3. CASE Command
  BY <1>3, SettingInv, PowerOffInv, PowerOnInv DEF Command
<1>4. CASE UNCHANGED netVars
  <2>1. NetTypeOK'
    BY <1>4 DEF NetInv, NetTypeOK, netVars, phy, settings, address
  <2>2. Stages' /\ ClientWaits' /\ AddressKept'
    BY <1>4 DEF NetInv, Stages, ClientWaits, AddressKept, netVars, address, HasOffer
  <2> QED
    BY <2>1, <2>2 DEF NetInv
<1> QED
  BY <1>1, <1>2, <1>3, <1>4 DEF NetNext

THEOREM NetInvariant == NetSpec => []NetInv
<1>1. NetInit => NetInv
  BY NetInitInv
<1>2. NetInv /\ [NetNext]_netVars => NetInv'
  BY NetStepInv
<1> QED
  BY <1>1, <1>2, PTL DEF NetSpec

\* For every number of calls the PHY is given and every number of tries: the
\* counters stay below the value they are compared with for equality.
THEOREM NetTypeCorrect == NetSpec => []NetTypeOK
<1>1. NetInv => NetTypeOK
  BY DEF NetInv
<1> QED
  BY <1>1, NetInvariant, PTL

\* However far the set-up had come when the unit was switched off, its interface
\* is not put into lwIP's list a second time.
THEOREM InterfaceAddedOnce == NetSpec => []AddedOnce
<1>1. NetInv => AddedOnce
  BY DEF NetInv, Stages, AddedOnce, Serving
<1> QED
  BY <1>1, NetInvariant, PTL

\* The handler reads through netif.dhcp with a client there, or after a dhcp_start
\* that failed, and at no other time; and a client is there only while it does.
THEOREM HandlerHasClient == NetSpec => []WaitHasClient
<1>1. NetInv => WaitHasClient
  BY DEF NetInv, ClientWaits, WaitHasClient, HasClient, Serving
<1> QED
  BY <1>1, NetInvariant, PTL

\* "Connected" is told of an interface that is up and has the address told.
THEOREM ToldStatusIsTrue == NetSpec => []StatusIsTrue
<1>1. ASSUME NetInv PROVE StatusIsTrue
  <2> SUFFICES ASSUME Serving, Connected,
                      \/ mode_dhcp_enable = 1
                      \/ DHCP_state \in {"DHCP_START", "DHCP_ADDRESS_ASSIGNED"}
               PROVE  /\ netif.up /\ netif.ip # NoAddress
                      /\ mode_dhcp_enable = 1 => dhcp_ip_addr = netif.ip
    BY DEF StatusIsTrue
  <2>1. CASE mode_dhcp_enable = 1
    BY <1>1, <2>1 DEF NetInv, AddressKept, Serving, Connected
  <2>2. CASE mode_dhcp_enable # 1
    BY <1>1, <2>2 DEF NetInv, AddressKept, Serving, Connected
  <2> QED
    BY <2>1, <2>2
<1> QED
  BY <1>1, NetInvariant, PTL

-----------------------------------------------------------------------------
\* How long a client can still wait: the refusals left, then the stages of the
\* exchange, then the tries of a stage, then the ticks of a try.  A refusal sends it
\* back some stages, a new stage starts its tries again and a new try its timer, so
\* each weighs more than all that comes after it.
LongestTry == 60 * TicksPerSecond

Awaiting == Serving /\ mode_dhcp_enable = 1 /\ DHCP_state = "DHCP_WAIT_ADDRESS"

StageLeft(d) ==
  CASE d.state = "BACKING_OFF" -> 3
    [] d.state = "SELECTING" -> 2
    [] d.state = "REQUESTING" -> 1
    [] OTHER -> 0

TriesLeft(d, r) == 32 * (MaxRefusals - r) + 8 * StageLeft(d) + (6 - d.tries)
WaitLeft(d, r) == TriesLeft(d, r) * (LongestTry + 1) + d.request_timeout

Running ==
  {d \in AnyClient : /\ HasClient(d) /\ d.tries \in 1 .. 6
                     /\ d.request_timeout \in 1 .. LongestTry}

\* The timer of a client never stands still: none of its tries is left for good.
ClientRuns ==
  HasClient(dhcp) => dhcp.request_timeout \in 1 .. LongestTry /\ dhcp.tries > 0

\* Every time the client sets its timer to is one it counts down to a next try.
LEMMA TickBounds ==
  /\ LongestTry \in Nat
  /\ \A n \in Nat \ {0} : BackOff(n) \in 1 .. LongestTry
  /\ DeclineTicks \in 1 .. LongestTry
  /\ CheckTicks \in 1 .. LongestTry
<1>1. TicksPerSecond \in Nat \ {0}
  BY NetAssumption
<1>2. ASSUME NEW n \in Nat \ {0}
      PROVE  BackOff(n) \in 1 .. LongestTry
  <2>1. CASE n >= 6
    BY <1>1, <2>1 DEF BackOff, LongestTry
  <2>2. CASE n < 6
    <3>1. n \in {1, 2, 3, 4, 5}
      BY <2>2
    <3>2. <<2, 4, 8, 16, 32>>[n] \in {2, 4, 8, 16, 32}
      BY <3>1
    <3>3. \A m \in {2, 4, 8, 16, 32} : m * TicksPerSecond \in 1 .. LongestTry
      BY <1>1 DEF LongestTry
    <3>4. BackOff(n) = <<2, 4, 8, 16, 32>>[n] * TicksPerSecond
      BY <2>2 DEF BackOff
    <3> QED
      BY <3>2, <3>3, <3>4
  <2> QED
    BY <2>1, <2>2
<1> QED
  BY <1>1, <1>2 DEF LongestTry, DeclineTicks, CheckTicks

\* Entering a state and trying again set the timer.
LEMMA Timed ==
  ASSUME NEW d \in AnyClient, NEW s \in ClientState
  PROVE  /\ \A n \in Nat : Tried(Enter(d, s), n).request_timeout = n
         /\ Send(d, s).request_timeout \in 1 .. LongestTry
<1>1. Enter(d, s) \in AnyClient
  BY DEF Enter, AnyClient
<1>2. \A e \in AnyClient, n \in Nat : Tried(e, n).request_timeout = n
  BY DEF Tried, AnyClient
<1>3. Enter(d, s).tries + 1 \in Nat \ {0}
  BY <1>1 DEF AnyClient
<1>4. BackOff(Enter(d, s).tries + 1) \in 1 .. LongestTry /\ LongestTry \in Nat
  BY <1>3, TickBounds
<1> QED
  BY <1>1, <1>2, <1>4 DEF Send

LEMMA ClientTimed ==
  ASSUME NEW d \in AnyClient
  PROVE  \A e \in {Discover(d), Select(d), Check(d), Decline(d)} :
           e.request_timeout \in 1 .. LongestTry /\ e.tries > 0
<1> DEFINE c == [d EXCEPT !.offered = NoAddress]
<1>1. c \in AnyClient
  BY DEF AnyClient
<1>2. {"SELECTING", "REQUESTING", "CHECKING", "BACKING_OFF"} \subseteq ClientState
  BY DEF ClientState
<1>3. Discover(d).request_timeout \in 1 .. LongestTry
  <2>1. Discover(d) = Send(c, "SELECTING")
    BY DEF Discover
  <2> HIDE DEF c
  <2> QED
    BY <1>1, <1>2, <2>1, Timed
<1>4. CheckTicks \in Nat /\ DeclineTicks \in Nat
  BY Ticks
<1>5. /\ Select(d).request_timeout \in 1 .. LongestTry
      /\ Check(d).request_timeout \in 1 .. LongestTry
      /\ Decline(d).request_timeout \in 1 .. LongestTry
  BY <1>2, <1>4, Timed, TickBounds DEF Select, Check, Decline
<1>6. d.tries \in Nat
  BY DEF AnyClient
<1>7. /\ Discover(d).tries > 0 /\ Select(d).tries > 0
      /\ Check(d).tries > 0 /\ Decline(d).tries > 0
  BY <1>6, ClientFacts
<1> QED
  BY <1>3, <1>5, <1>7

\* What a client has before it is larger than what it has after a refusal, in a
\* later stage, after one more try, or after a tick.
LEMMA LeftFalls ==
  ASSUME NEW d \in Running, NEW e \in Running,
         NEW r \in 0 .. MaxRefusals, NEW q \in 0 .. MaxRefusals,
         \/ r < q
         \/ r = q /\ StageLeft(e) < StageLeft(d)
         \/ r = q /\ e.state = d.state /\ d.tries < e.tries
         \/ r = q /\ e.state = d.state /\ e.tries = d.tries
              /\ e.request_timeout < d.request_timeout
  PROVE  WaitLeft(e, q) < WaitLeft(d, r)
<1>1. MaxRefusals \in Nat /\ LongestTry \in Nat
  BY NetAssumption, TickBounds
<1>2. /\ d.tries \in 1 .. 6 /\ e.tries \in 1 .. 6
      /\ d.request_timeout \in 1 .. LongestTry /\ e.request_timeout \in 1 .. LongestTry
  BY DEF Running
<1>3. StageLeft(d) \in 0 .. 3 /\ StageLeft(e) \in 0 .. 3
  BY DEF StageLeft
<1>4. e.state = d.state => StageLeft(e) = StageLeft(d)
  BY DEF StageLeft
<1>5. TriesLeft(d, r) \in Nat /\ TriesLeft(e, q) \in Nat
  BY <1>1, <1>2, <1>3 DEF TriesLeft
<1>6. \/ TriesLeft(e, q) < TriesLeft(d, r)
      \/ TriesLeft(e, q) = TriesLeft(d, r) /\ e.request_timeout < d.request_timeout
  BY <1>1, <1>2, <1>3, <1>4 DEF TriesLeft
<1>7. \A a, b, n \in Nat : a < b => a * (n + 1) + (n + 1) <= b * (n + 1)
  <2> SUFFICES ASSUME NEW a \in Nat, NEW b \in Nat, NEW n \in Nat, a < b
               PROVE  a * (n + 1) + (n + 1) <= b * (n + 1)
    OBVIOUS
  <2>1. \A c, m \in Nat : (a + 1 + c) * m = a * m + m + c * m /\ c * m >= 0
    OBVIOUS
  <2>2. b = a + 1 + (b - a - 1) /\ b - a - 1 \in Nat /\ n + 1 \in Nat
    OBVIOUS
  <2>3. b * (n + 1) = a * (n + 1) + (n + 1) + (b - a - 1) * (n + 1)
        /\ (b - a - 1) * (n + 1) >= 0
    BY <2>1, <2>2
  <2> QED
    BY <2>3
<1>8. \A a, n \in Nat : a * (n + 1) \in Nat
  OBVIOUS
<1> DEFINE A == TriesLeft(e, q) * (LongestTry + 1)
           B == TriesLeft(d, r) * (LongestTry + 1)
<1>9. A \in Nat /\ B \in Nat
  BY <1>1, <1>5, <1>8
<1>10. \/ A + (LongestTry + 1) <= B
       \/ A = B /\ e.request_timeout < d.request_timeout
  BY <1>1, <1>5, <1>6, <1>7
<1>11. WaitLeft(e, q) = A + e.request_timeout /\ WaitLeft(d, r) = B + d.request_timeout
  BY DEF WaitLeft
<1> HIDE DEF A, B
<1> QED
  BY <1>1, <1>2, <1>9, <1>10, <1>11

LEMMA LeftIsNat ==
  ASSUME NEW d \in AnyClient, d.tries \in 0 .. 6, NEW r \in 0 .. MaxRefusals
  PROVE  WaitLeft(d, r) \in Nat
<1>1. MaxRefusals \in Nat /\ LongestTry \in Nat
  BY NetAssumption, TickBounds
<1>2. d.tries \in 0 .. 6 /\ d.request_timeout \in Nat
  BY DEF AnyClient
<1>3. StageLeft(d) \in 0 .. 3
  BY DEF StageLeft
<1>4. TriesLeft(d, r) \in Nat
  BY <1>1, <1>2, <1>3 DEF TriesLeft
<1>5. \A a, n \in Nat : a * (n + 1) \in Nat
  OBVIOUS
<1> QED
  BY <1>1, <1>2, <1>4, <1>5 DEF WaitLeft

\* A tick runs the timer down, or is a next try, or ends the pause of a client
\* that has declined.
LEMMA FineTimed ==
  ASSUME NEW d \in AnyClient, HasClient(d), d.tries > 0,
         d.request_timeout \in 1 .. LongestTry
  PROVE  /\ Fine(d) \in AnyClient
         /\ Fine(d).request_timeout \in 1 .. LongestTry /\ Fine(d).tries > 0
         /\ \/ Fine(d).state = d.state /\ d.tries < Fine(d).tries
            \/ /\ Fine(d).state = d.state /\ Fine(d).tries = d.tries
               /\ Fine(d).request_timeout < d.request_timeout
            \/ d.state = "BACKING_OFF" /\ Fine(d).state = "SELECTING"
<1> DEFINE c == [d EXCEPT !.request_timeout = 0]
<1>0. d.tries \in Nat /\ LongestTry \in Nat
  BY TickBounds DEF AnyClient
<1>1. c \in AnyClient /\ c.state = d.state /\ c.tries = d.tries
  BY DEF AnyClient
<1>2. CASE d.request_timeout = 1
  <2>1. Fine(d) = Timeout(c)
    BY <1>2 DEF Fine
  <2>2. \/ c.state = "SELECTING" /\ Fine(d) = Discover(c)
        \/ c.state = "BACKING_OFF" /\ Fine(d) = Discover(c)
        \/ c.state = "REQUESTING" /\ Fine(d) = Select(c)
        \/ c.state = "CHECKING" /\ Fine(d) = Check(c)
    <3>1. d.state \in {"SELECTING", "BACKING_OFF", "REQUESTING", "CHECKING"}
      BY DEF AnyClient, ClientState, HasClient
    <3> QED
      BY <1>1, <2>1, <3>1 DEF Timeout
  <2>3. Fine(d).request_timeout \in 1 .. LongestTry /\ Fine(d).tries > 0
    BY <1>1, <2>2, ClientTimed
  <2> HIDE DEF c
  <2>4. CASE c.state = "SELECTING" /\ Fine(d) = Discover(c)
    BY <1>0, <1>1, <2>3, <2>4, ClientFacts
  <2>5. CASE c.state = "BACKING_OFF" /\ Fine(d) = Discover(c)
    BY <1>0, <1>1, <2>3, <2>5, ClientFacts
  <2>6. CASE c.state = "REQUESTING" /\ Fine(d) = Select(c)
    BY <1>0, <1>1, <2>3, <2>6, ClientFacts
  <2>7. CASE c.state = "CHECKING" /\ Fine(d) = Check(c)
    BY <1>0, <1>1, <2>3, <2>7, ClientFacts
  <2> QED
    BY <2>2, <2>4, <2>5, <2>6, <2>7
<1>3. CASE d.request_timeout # 1
  <2>1. Fine(d) = [d EXCEPT !.request_timeout = @ - 1]
    BY <1>0, <1>3 DEF Fine
  <2> QED
    BY <1>0, <1>3, <2>1 DEF AnyClient
<1> QED
  BY <1>2, <1>3

LEMMA ClientRunsStep == ASSUME NetInv, ClientRuns, [NetNext]_netVars PROVE ClientRuns'
<1>0. dhcp \in AnyClient
  BY DEF NetInv, NetTypeOK, AnyClient
<1>1. CASE \E a \in Address : DhcpOffer(a) \/ DhcpAck(a)
  <2>1. PICK a \in Address : DhcpOffer(a) \/ DhcpAck(a)
    BY <1>1
  <2> DEFINE c == [dhcp EXCEPT !.offered = a]
  <2>2. c \in AnyClient
    BY <1>0 DEF AnyClient
  <2>3. dhcp' = Select(c) \/ dhcp' = Check(c)
    BY <2>1 DEF DhcpOffer, DhcpAck
  <2> HIDE DEF c
  <2> QED
    BY <2>2, <2>3, ClientTimed DEF ClientRuns
<1>2. CASE DhcpNak
  <2> DEFINE c == Enter(dhcp, "BACKING_OFF")
  <2>1. dhcp' = Discover(c) /\ c \in AnyClient /\ c.state = "BACKING_OFF"
    BY <1>0, <1>2 DEF DhcpNak, AnyClient, Enter, ClientState
  <2> HIDE DEF c
  <2> QED
    BY <2>1, ClientTimed DEF ClientRuns
<1>3. CASE ArpReply
  BY <1>0, <1>3, ClientTimed DEF ArpReply, ClientRuns
<1>4. CASE StartClient
  <2>1. NoClient \in AnyClient
    BY DEF NoClient, AnyClient, ClientState
  <2>2. ~HasClient(FailedClient)
    BY DEF NoClient, FailedClient, HasClient
  <2> QED
    BY <1>4, <2>1, <2>2, ClientTimed DEF StartClient, ClientRuns
<1>5. CASE TakeAddress \/ LwIPInit
  BY <1>5 DEF TakeAddress, LwIPInit, NoClient, HasClient, ClientRuns
<1>6. CASE StillWaits
  <2>1. HasClient(dhcp) => Fine(dhcp).request_timeout \in 1 .. LongestTry
                           /\ Fine(dhcp).tries > 0
    BY <1>0, FineTimed DEF ClientRuns
  <2>2. HasClient(Fine(dhcp)) <=> HasClient(dhcp)
    BY <1>0, FineFacts DEF NetInv, ClientWaits
  <2>3. dhcp' = Fine(dhcp) \/ dhcp' = NoClient
    BY <1>6 DEF StillWaits
  <2>4. ~HasClient(NoClient)
    BY DEF NoClient, HasClient
  <2> QED
    BY <2>1, <2>2, <2>3, <2>4 DEF ClientRuns
<1>7. CASE UNCHANGED dhcp
  BY <1>7 DEF ClientRuns
<1>8. \/ \E a \in Address : DhcpOffer(a) \/ DhcpAck(a)
      \/ DhcpNak \/ ArpReply \/ StartClient \/ TakeAddress \/ LwIPInit \/ StillWaits
      \/ UNCHANGED dhcp
  BY DEF NetNext, EthernetMain, Network, Command, FineTick, PhyReset, PhyDelay, PhyLinked,
         PhyNegotiated, PhyWaits, PhyDone, PhyAt, LinkInterrupt, CableChanges,
         ExecIpModeConfig, ExecStaticIpSet, PowerOff, PowerOn, netVars, address
<1> QED
  BY <1>1, <1>2, <1>3, <1>4, <1>5, <1>6, <1>7, <1>8

LEMMA ClientInvariant == NetSpec => [](NetInv /\ ClientRuns)
<1>1. NetInit => ClientRuns
  BY DEF NetInit, NoClient, HasClient, ClientRuns
<1>2. NetInv /\ ClientRuns /\ [NetNext]_netVars => ClientRuns'
  BY ClientRunsStep
<1> QED
  BY <1>1, <1>2, NetInvariant, PTL DEF NetSpec

LEMMA AwaitingClient ==
  ASSUME NetInv, ClientRuns, Awaiting
  PROVE  /\ dhcp \in AnyClient /\ dhcp.tries \in 0 .. 6
         /\ dhcp \in Running \/ dhcp.state = "failed"
         /\ refusals \in 0 .. MaxRefusals
<1>1. dhcp \in AnyClient /\ dhcp.tries \in 0 .. MaxTries /\ refusals \in 0 .. MaxRefusals
  BY DEF NetInv, NetTypeOK, AnyClient
<1>2. dhcp.state # "none"
  BY DEF NetInv, ClientWaits, Awaiting, Serving
<1>3. MaxTries \in 1 .. 6
  BY NetAssumption DEF MaxTries
<1> QED
  BY <1>1, <1>2, <1>3 DEF ClientRuns, Running, HasClient

\* The tries that are read where there is no client end the wait.
NullEndsWait == TriesAtNull > MAX_DHCP_TRIES

\* While an address is waited for, only an answer, a refusal or a tick touches
\* the client, and each but a tick's binding lowers what is left of the wait.
LEMMA WaitStep ==
  ASSUME NullEndsWait, NetInv, ClientRuns, [NetNext]_netVars, Awaiting, Awaiting'
  PROVE  \/ WaitLeft(dhcp', refusals') < WaitLeft(dhcp, refusals)
         \/ ~FineTick /\ UNCHANGED <<dhcp, refusals>>
<1>1. /\ dhcp \in AnyClient /\ refusals \in 0 .. MaxRefusals
      /\ HasClient(dhcp) => dhcp \in Running
  BY AwaitingClient DEF HasClient
<1>2. /\ refusals' \in 0 .. MaxRefusals
      /\ HasClient(dhcp') => dhcp' \in Running
  <2>1. NetInv' /\ ClientRuns'
    BY NetStepInv, ClientRunsStep
  <2>2. dhcp' \in AnyClient /\ dhcp'.tries \in 0 .. MaxTries /\ refusals' \in 0 .. MaxRefusals
    BY <2>1 DEF NetInv, NetTypeOK, AnyClient
  <2>3. MaxTries \in 1 .. 6
    BY NetAssumption DEF MaxTries
  <2> QED
    BY <2>1, <2>2, <2>3 DEF ClientRuns, Running
<1>3. dhcp \in AnyClient /\ HasOffer(dhcp)
  BY <1>1 DEF NetInv, ClientWaits
<1>4. ASSUME NEW a \in Address, DhcpOffer(a) \/ DhcpAck(a)
      PROVE  WaitLeft(dhcp', refusals') < WaitLeft(dhcp, refusals)
  <2> DEFINE c == [dhcp EXCEPT !.offered = a]
  <2>1. c \in AnyClient
    BY <1>3 DEF AnyClient
  <2>2. /\ refusals' = refusals
        /\ \/ dhcp.state = "SELECTING" /\ dhcp' = Select(c)
           \/ dhcp.state = "REQUESTING" /\ dhcp' = Check(c)
    BY <1>4 DEF DhcpOffer, DhcpAck
  <2> HIDE DEF c
  <2>3. /\ StageLeft(dhcp') < StageLeft(dhcp)
        /\ HasClient(dhcp) /\ HasClient(dhcp')
    BY <2>1, <2>2, ClientFacts DEF StageLeft, HasClient
  <2> QED
    BY <1>1, <1>2, <2>2, <2>3, LeftFalls
<1>5. ASSUME DhcpNak \/ ArpReply
      PROVE  WaitLeft(dhcp', refusals') < WaitLeft(dhcp, refusals)
  <2>1. refusals < refusals'
    BY <1>1, <1>5, NetAssumption DEF DhcpNak, ArpReply, Refused
  <2>2. HasClient(dhcp)
    BY <1>5 DEF DhcpNak, ArpReply, HasClient
  <2>3. HasClient(dhcp')
    <3> DEFINE c == Enter(dhcp, "BACKING_OFF")
    <3>1. c \in AnyClient
      BY <1>3 DEF AnyClient, Enter, ClientState
    <3>2. dhcp' = Discover(c) \/ dhcp' = Decline(dhcp)
      BY <1>5 DEF DhcpNak, ArpReply
    <3> HIDE DEF c
    <3> QED
      BY <1>3, <3>1, <3>2, ClientFacts DEF HasClient
  <2> QED
    BY <1>1, <1>2, <2>1, <2>2, <2>3, LeftFalls
<1>6. ASSUME StillWaits
      PROVE  WaitLeft(dhcp', refusals') < WaitLeft(dhcp, refusals)
  <2>1. dhcp' = Fine(dhcp) /\ refusals' = refusals /\ ~GivesUp(Fine(dhcp))
    BY <1>6 DEF StillWaits, Tick, Awaiting
  <2>2. HasClient(Fine(dhcp)) <=> HasClient(dhcp)
    BY <1>3, FineFacts
  <2>3. HasClient(dhcp) /\ HasClient(dhcp')
    BY <2>1, <2>2 DEF GivesUp, TriesRead, NullEndsWait
  <2>4. \/ dhcp'.state = dhcp.state /\ dhcp.tries < dhcp'.tries
        \/ /\ dhcp'.state = dhcp.state /\ dhcp'.tries = dhcp.tries
           /\ dhcp'.request_timeout < dhcp.request_timeout
        \/ dhcp.state = "BACKING_OFF" /\ dhcp'.state = "SELECTING"
    <3>1. dhcp.tries > 0 /\ dhcp.request_timeout \in 1 .. LongestTry
      BY <1>1, <2>3 DEF Running
    <3> QED
      BY <1>3, <2>1, <2>3, <3>1, FineTimed
  <2>5. dhcp.state = "BACKING_OFF" /\ dhcp'.state = "SELECTING"
          => StageLeft(dhcp') < StageLeft(dhcp)
    BY DEF StageLeft
  <2> QED
    BY <1>1, <1>2, <2>1, <2>3, <2>4, <2>5, LeftFalls
<1>7. ~StartClient /\ ~TakeAddress /\ ~LwIPInit
  BY DEF StartClient, TakeAddress, LwIPInit, Awaiting, Serving
<1>8. CASE /\ ~StillWaits /\ ~DhcpNak /\ ~ArpReply
           /\ \A a \in Address : ~DhcpOffer(a) /\ ~DhcpAck(a)
  BY <1>7, <1>8
  DEF NetNext, EthernetMain, Network, Command, FineTick, PhyReset, PhyDelay, PhyLinked,
      PhyNegotiated, PhyWaits, PhyDone, PhyAt, LinkInterrupt, CableChanges,
      ExecIpModeConfig, ExecStaticIpSet, PowerOff, PowerOn, netVars, address,
      Awaiting, Serving
<1> QED
  BY <1>4, <1>5, <1>6, <1>8

\* Served in DHCP mode with no client yet, and how the wait ends.
Opening == Serving /\ mode_dhcp_enable = 1 /\ DHCP_state = "DHCP_START"
Settled ==
  \/ DHCP_state \in {"DHCP_ADDRESS_ASSIGNED", "DHCP_TIMEOUT"}
  \/ mode_dhcp_enable = 0 \/ ~Serving

\* The rule of counting down, for a state function rank: if P leads to Q or to less
\* of rank, however much there is, then it leads to Q.
CountsDown(P, rank, Q) ==
  (\A n \in Nat : (P /\ rank = n) ~> (Q \/ (P /\ rank < n)))
    => ((P /\ rank \in Nat) ~> Q)

\* Only an address or giving up ends a wait in the mode and served.
LEMMA WaitGoesOn ==
  ASSUME NetInv, [NetNext]_netVars, Opening \/ Awaiting
  PROVE  /\ Awaiting => Awaiting' \/ Settled'
         /\ Opening => Opening' \/ Awaiting' \/ Settled'
         /\ Opening /\ FineTick => Awaiting'
         /\ Awaiting /\ TakeAddress => Settled'
<1>1. CASE EthernetMain
  BY <1>1
  DEF EthernetMain, FineTick, PhyReset, PhyDelay, PhyLinked, PhyNegotiated, PhyWaits,
      PhyDone, PhyAt, LinkInterrupt, LwIPInit, StartClient, TakeAddress, StillWaits,
      Tick, Serving, Awaiting, Opening, Settled, settings
<1>2. CASE Network
  <2>1. UNCHANGED <<power_on, EthInitStatus, settings, DHCP_state>>
    BY <1>2 DEF Network, DhcpOffer, DhcpAck, DhcpNak, ArpReply, Received, CableChanges, address
  <2>2. ~FineTick \/ DHCP_state' = DHCP_state
    BY <2>1
  <2>3. ~StartClient /\ ~TakeAddress /\ (Opening => ~FineTick)
    BY <2>1 DEF StartClient, TakeAddress, StillWaits, FineTick, Opening
  <2> QED
    BY <2>1, <2>3 DEF Serving, Awaiting, Opening, settings
<1>3. CASE Command
  <2>1. mode_dhcp_enable' \in {0, 1}
    BY <1>3 DEF NetInv, NetTypeOK, Command, ExecIpModeConfig, ExecStaticIpSet,
         PowerOff, PowerOn, settings
  <2>2. UNCHANGED <<power_on, EthInitStatus, DHCP_state>> \/ ~power_on'
    BY <1>3 DEF Command, ExecIpModeConfig, ExecStaticIpSet, PowerOff, PowerOn, address,
         Opening, Awaiting, Serving
  <2>3. ~StartClient /\ ~TakeAddress /\ (Opening => ~FineTick)
    BY <2>2 DEF StartClient, TakeAddress, StillWaits, FineTick, Opening, Tick, Serving
  <2> QED
    BY <2>1, <2>2, <2>3 DEF Serving, Awaiting, Opening, Settled
<1>4. CASE UNCHANGED netVars
  <2>1. UNCHANGED <<power_on, EthInitStatus, mode_dhcp_enable, DHCP_state>>
    BY <1>4 DEF netVars, settings, address
  <2>2. ~StartClient /\ ~TakeAddress /\ (Opening => ~FineTick)
    BY <2>1 DEF StartClient, TakeAddress, StillWaits, FineTick, Opening
  <2> QED
    BY <2>1, <2>2 DEF Serving, Awaiting, Opening
<1> QED
  BY <1>1, <1>2, <1>3, <1>4 DEF NetNext

LEMMA WaitCountsDown ==
  ASSUME NullEndsWait, NetInv, ClientRuns, [NetNext]_netVars, NEW n \in Nat,
         Awaiting /\ WaitLeft(dhcp, refusals) = n
  PROVE  \/ Awaiting' /\ WaitLeft(dhcp', refusals') = n /\ ~FineTick
         \/ Awaiting' /\ WaitLeft(dhcp', refusals') < n
         \/ Settled'
<1>1. Awaiting' \/ Settled'
  BY WaitGoesOn
<1>2. CASE Awaiting'
  BY <1>2, WaitStep
<1> QED
  BY <1>1, <1>2

\* The client of dhcp.c cannot be kept waiting by what it is sent: while an address
\* is waited for, every tick of dhcp_fine_tmr, every answer and every refusal, in
\* any order, leaves less of the wait than there was, and nothing else touches it.
\* (After a dhcp_start that failed the wait ends with the next tick, if what is read
\* for the tries is more than MAX_DHCP_TRIES; else the unit waits for ever.)
\* At most (32 * MaxRefusals + 30) * (60 * TicksPerSecond + 1) of them fit into it.
THEOREM WaitIsFinite ==
  ASSUME TriesAtNull > MAX_DHCP_TRIES
  PROVE  NetSpec => [][Awaiting /\ Awaiting' =>
                         \/ WaitLeft(dhcp', refusals') < WaitLeft(dhcp, refusals)
                         \/ ~FineTick /\ UNCHANGED <<dhcp, refusals>>]_netVars
<1>1. NetInv /\ ClientRuns /\ [NetNext]_netVars
        => [Awaiting /\ Awaiting' =>
              \/ WaitLeft(dhcp', refusals') < WaitLeft(dhcp, refusals)
              \/ ~FineTick /\ UNCHANGED <<dhcp, refusals>>]_netVars
  BY WaitStep DEF NullEndsWait
<1> QED
  BY <1>1, ClientInvariant, PTL DEF NetSpec

\* Served in DHCP mode the unit gets an address or gives up: see Settles.  By
\* counting down what is left of the wait (WaitStep); the rule itself, which no
\* prover here has, and that a tick can be taken are given.
THEOREM AddressSettles ==
  ASSUME TriesAtNull > MAX_DHCP_TRIES
  PROVE  NetFairSpec /\ []LoopEnabled
           /\ CountsDown(Awaiting, WaitLeft(dhcp, refusals), Settled)
         => Settles
<1> DEFINE R == WaitLeft(dhcp, refusals)
           F == NetFairSpec /\ []LoopEnabled
<1>0. NullEndsWait
  BY DEF NullEndsWait
<1>1. NetFairSpec => [](NetInv /\ ClientRuns)
  BY ClientInvariant DEF NetFairSpec
<1>2. ASSUME NEW n \in Nat
      PROVE  F => (Awaiting /\ R = n ~> Settled \/ (Awaiting /\ R < n))
  <2>1. /\ NetInv /\ ClientRuns
        /\ Awaiting /\ R = n
        /\ [NetNext]_netVars
        => (Awaiting /\ R = n)' \/ Settled' \/ (Awaiting /\ R < n)'
    BY <1>0, WaitCountsDown
  <2>2. /\ NetInv /\ ClientRuns
        /\ Awaiting /\ R = n
        /\ [NetNext]_netVars
        /\ <<FineTick>>_netVars
        => Settled' \/ (Awaiting /\ R < n)'
    BY <1>0, WaitCountsDown
  <2>3. LoopEnabled /\ Awaiting => ENABLED <<FineTick>>_netVars
    BY DEF LoopEnabled, Awaiting
  <2> HIDE DEF R
  <2> QED
    BY <1>1, <2>1, <2>2, <2>3, PTL DEF NetFairSpec, NetSpec, NetFairness
<1>3. F => \A n \in Nat : (Awaiting /\ R = n ~> Settled \/ (Awaiting /\ R < n))
  BY <1>2
<1>4. F /\ CountsDown(Awaiting, R, Settled) => (Awaiting /\ R \in Nat ~> Settled)
  BY <1>3 DEF CountsDown
<1>5. NetInv /\ ClientRuns /\ Awaiting => R \in Nat
  BY AwaitingClient, LeftIsNat
<1>6. NetInv /\ Opening /\ [NetNext]_netVars => Opening' \/ Awaiting' \/ Settled'
  BY WaitGoesOn
<1>7. NetInv /\ Opening /\ [NetNext]_netVars /\ <<FineTick>>_netVars => Awaiting'
  BY WaitGoesOn
<1>8. LoopEnabled /\ Opening => ENABLED <<FineTick>>_netVars
  BY DEF LoopEnabled, Opening
<1>9. NetInv /\ Serving /\ mode_dhcp_enable = 1 => Opening \/ Awaiting \/ Settled
  BY DEF NetInv, NetTypeOK, DHCP_STATE, Opening, Awaiting, Settled
<1>10. F => (Opening ~> Awaiting \/ Settled)
  BY <1>1, <1>6, <1>7, <1>8, PTL DEF NetFairSpec, NetSpec, NetFairness
<1>11. F /\ CountsDown(Awaiting, R, Settled) => (Serving /\ mode_dhcp_enable = 1 ~> Settled)
  <2> HIDE DEF R
  <2> QED
    BY <1>1, <1>4, <1>5, <1>9, <1>10, PTL
<1> QED
  BY <1>11 DEF Settles, Settled

-----------------------------------------------------------------------------
\* Where ETH_Init_no_loop is, in time for the link or the negotiation it waits
\* for, and what comes after it.
PhyIn(status) == power_on /\ EthInitStatus = 2 /\ PHY_initial_status = status
Resetting == PhyIn("PHY_RESET")
Delaying == PhyIn("PHY_RESET_DELAY_CHECK")
Linking == PhyIn("PHY_LINK_STATUS_CHECKING")
Negotiating == PhyIn("PHY_ATUO_NEG_CHECKING")
LinkInTime == Linking /\ InTime(timeout + 1)
NegotiationInTime == Negotiating /\ InTime(timeout + 1)
MacSetting == PhyIn("PHY_MAC_SETTING")
AwaitingLink == power_on /\ EthInitStatus = 3
StartingUp == power_on /\ EthInitStatus = 4
Up == EthInitStatus \in {5, 6}

PhyTurn == PhyReset \/ PhyDelay \/ PhyWaits \/ PhyDone
StartTurn == LinkInterrupt \/ LwIPInit

\* Where a step can lead, and where the turn of the loop does.
LEMMA ComingUpSteps ==
  ASSUME NetInv, [NetNext]_netVars, PHY_READ_TO > 1
  PROVE  /\ Resetting => Resetting' \/ Delaying' \/ Up'
         /\ Delaying => \/ Delaying' /\ timeout' \in {timeout, timeout + 1}
                        \/ LinkInTime' \/ Up'
         /\ Linking => Linking' \/ Resetting' \/ NegotiationInTime' \/ Up'
         /\ Linking /\ ~LinkInTime => (Linking /\ ~LinkInTime)' \/ Resetting' \/ Up'
         /\ Negotiating => Negotiating' \/ Resetting' \/ MacSetting' \/ Up'
         /\ Negotiating /\ ~NegotiationInTime
              => (Negotiating /\ ~NegotiationInTime)' \/ Resetting' \/ Up'
         /\ MacSetting => MacSetting' \/ AwaitingLink' \/ Up'
         /\ AwaitingLink => AwaitingLink' \/ StartingUp' \/ Up'
         /\ StartingUp => StartingUp' \/ Up'
<1>1. timeout \in Nat /\ PHY_READ_TO \in Nat
  BY NetAssumption DEF NetInv, NetTypeOK
<1>2. CASE EthernetMain
  <2>1. CASE PhyReset \/ PhyDelay \/ PhyLinked \/ PhyNegotiated \/ PhyWaits \/ PhyDone
    BY <1>1, <2>1
    DEF PhyReset, PhyDelay, PhyLinked, PhyNegotiated, PhyWaits, PhyDone, PhyAt, PhyWaiting,
        Resetting, Delaying, Linking, Negotiating, LinkInTime, NegotiationInTime, MacSetting,
        AwaitingLink, StartingUp, Up, PhyIn, InTime, phy
  <2>2. CASE LinkInterrupt \/ LwIPInit \/ FineTick
    BY <2>2
    DEF LinkInterrupt, LwIPInit, FineTick, StartClient, TakeAddress, StillWaits, Tick, Serving,
        Resetting, Delaying, Linking, Negotiating, LinkInTime, NegotiationInTime, MacSetting,
        AwaitingLink, StartingUp, Up, PhyIn
  <2> QED
    BY <1>2, <2>1, <2>2 DEF EthernetMain
<1>3. CASE UNCHANGED <<power_on, EthInitStatus, phy>>
  <2>1. /\ power_on' <=> power_on
        /\ EthInitStatus' = EthInitStatus
        /\ PHY_initial_status' = PHY_initial_status /\ timeout' = timeout
    BY <1>3 DEF phy
  <2> QED
    BY <2>1 DEF Resetting, Delaying, Linking, Negotiating, LinkInTime, NegotiationInTime,
                MacSetting, AwaitingLink, StartingUp, Up, PhyIn, InTime
<1>4. CASE PowerOff \/ PowerOn
  <2>1. Up' \/ ~power_on
    BY <1>4 DEF PowerOff, PowerOn, Up
  <2> QED
    BY <2>1 DEF Resetting, Delaying, Linking, Negotiating, LinkInTime, NegotiationInTime,
                MacSetting, AwaitingLink, StartingUp, PhyIn
<1>5. Network \/ Command \/ UNCHANGED netVars
        => PowerOff \/ PowerOn \/ UNCHANGED <<power_on, EthInitStatus, phy>>
  BY DEF Network, DhcpOffer, DhcpAck, DhcpNak, ArpReply, Received, CableChanges, Command,
         ExecIpModeConfig, ExecStaticIpSet, netVars
<1> QED
  BY <1>2, <1>3, <1>4, <1>5 DEF NetNext

LEMMA ComingUpTurns ==
  ASSUME NetInv, [NetNext]_netVars, PHY_READ_TO > 1
  PROVE  /\ Resetting /\ PhyTurn => Delaying'
         /\ Delaying /\ PhyTurn => LinkInTime' \/ (Delaying' /\ timeout' = timeout + 1)
         /\ Linking /\ ~LinkInTime /\ PhyTurn => Resetting'
         /\ Negotiating /\ ~NegotiationInTime /\ PhyTurn => Resetting'
         /\ MacSetting /\ PhyTurn => AwaitingLink'
         /\ AwaitingLink /\ StartTurn => StartingUp'
         /\ StartingUp /\ StartTurn => Up'
         /\ PhyLinked => NegotiationInTime'
         /\ PhyNegotiated => MacSetting'
<1>1. /\ timeout \in Nat /\ PHY_READ_TO \in Nat
      /\ PHY_initial_status \in PhyWaiting => timeout < PHY_READ_TO
  BY NetAssumption DEF NetInv, NetTypeOK
<1> QED
  BY <1>1
  DEF PhyTurn, PhyReset, PhyDelay, PhyLinked, PhyNegotiated, PhyWaits, PhyDone, PhyAt,
      PhyWaiting, Resetting, Delaying, Linking, Negotiating, LinkInTime, NegotiationInTime,
      MacSetting, AwaitingLink, StartingUp, Up, PhyIn, InTime, phy, StartTurn,
      LinkInterrupt, LwIPInit

\* With a link that stays the unit gets from the PHY to serving: see ComesUp.  Each
\* time the PHY has been reset its link is looked for in time, so that the strong
\* fairness of PhyLinked and then of PhyNegotiated applies.  PHY_READ_TO is
\* 16#4FFFF; with 1 the counter would reach it before the link is looked at.
THEOREM LinkComesUp ==
  ASSUME PHY_READ_TO > 1
  PROVE  NetFairSpec /\ []LoopEnabled
           /\ CountsDown(Delaying, PHY_RESET_TO - timeout, LinkInTime \/ Up)
         => ComesUp
<1> DEFINE R == PHY_RESET_TO - timeout
           F == NetFairSpec /\ []LoopEnabled
           C == CountsDown(Delaying, R, LinkInTime \/ Up)
<1>1. NetFairSpec => []NetInv
  BY NetInvariant, PTL DEF NetFairSpec
<1>2. ASSUME NEW n \in Nat
      PROVE  F => (Delaying /\ R = n ~> (LinkInTime \/ Up) \/ (Delaying /\ R < n))
  <2>0. NetInv => timeout \in Nat /\ PHY_RESET_TO \in Nat
    BY NetAssumption DEF NetInv, NetTypeOK
  <2>1. NetInv /\ Delaying /\ R = n /\ [NetNext]_netVars
          => (Delaying /\ R = n)' \/ (LinkInTime \/ Up)' \/ (Delaying /\ R < n)'
    BY <2>0, ComingUpSteps
  <2>2. NetInv /\ Delaying /\ R = n /\ [NetNext]_netVars /\ <<PhyTurn>>_netVars
          => (LinkInTime \/ Up)' \/ (Delaying /\ R < n)'
    BY <2>0, ComingUpTurns
  <2>3. LoopEnabled /\ Delaying => ENABLED <<PhyReset \/ PhyDelay \/ PhyWaits \/ PhyDone>>_netVars
    BY DEF LoopEnabled, Delaying, PhyIn
  <2> HIDE DEF R
  <2> QED
    BY <1>1, <2>1, <2>2, <2>3, PTL DEF NetFairSpec, NetSpec, NetFairness, PhyTurn
<1>3. F => \A n \in Nat : (Delaying /\ R = n ~> (LinkInTime \/ Up) \/ (Delaying /\ R < n))
  BY <1>2
<1>4. F /\ C => (Delaying /\ R \in Nat ~> LinkInTime \/ Up)
  BY <1>3 DEF CountsDown
<1>5. NetInv /\ Delaying => R \in Nat
  BY NetAssumption DEF NetInv, NetTypeOK, Delaying, PhyIn
<1>6. F /\ C => (Delaying ~> LinkInTime \/ Up)
  <2> HIDE DEF R
  <2> QED
    BY <1>1, <1>4, <1>5, PTL DEF NetFairSpec
<1>7. /\ LoopEnabled /\ (Resetting \/ Linking \/ Negotiating \/ MacSetting)
           => ENABLED <<PhyReset \/ PhyDelay \/ PhyWaits \/ PhyDone>>_netVars
      /\ LoopEnabled /\ (AwaitingLink \/ StartingUp) => ENABLED <<LinkInterrupt \/ LwIPInit>>_netVars
      /\ LoopEnabled /\ linked /\ LinkInTime => ENABLED <<PhyLinked>>_netVars
      /\ LoopEnabled /\ linked /\ NegotiationInTime => ENABLED <<PhyNegotiated>>_netVars
  BY DEF LoopEnabled, Resetting, Linking, Negotiating, MacSetting, AwaitingLink, StartingUp, LinkInTime,
         NegotiationInTime, PhyIn
<1>8. F => (Resetting ~> Delaying \/ Up)
  <2>1. NetInv /\ Resetting /\ [NetNext]_netVars => Resetting' \/ Delaying' \/ Up'
    BY ComingUpSteps
  <2>2. NetInv /\ Resetting /\ [NetNext]_netVars /\ <<PhyTurn>>_netVars => Delaying'
    BY ComingUpTurns
  <2> QED
    BY <1>1, <1>7, <2>1, <2>2, PTL DEF NetFairSpec, NetSpec, NetFairness, PhyTurn
<1>9. F => (MacSetting ~> Up)
  <2>1. NetInv /\ MacSetting /\ [NetNext]_netVars => MacSetting' \/ AwaitingLink' \/ Up'
    BY ComingUpSteps
  <2>2. NetInv /\ MacSetting /\ [NetNext]_netVars /\ <<PhyTurn>>_netVars => AwaitingLink'
    BY ComingUpTurns
  <2>3. NetInv /\ AwaitingLink /\ [NetNext]_netVars => AwaitingLink' \/ StartingUp' \/ Up'
    BY ComingUpSteps
  <2>4. NetInv /\ AwaitingLink /\ [NetNext]_netVars /\ <<StartTurn>>_netVars => StartingUp'
    BY ComingUpTurns
  <2>5. NetInv /\ StartingUp /\ [NetNext]_netVars => StartingUp' \/ Up'
    BY ComingUpSteps
  <2>6. NetInv /\ StartingUp /\ [NetNext]_netVars /\ <<StartTurn>>_netVars => Up'
    BY ComingUpTurns
  <2>7. F => (MacSetting ~> AwaitingLink \/ Up)
    BY <1>1, <1>7, <2>1, <2>2, PTL DEF NetFairSpec, NetSpec, NetFairness, PhyTurn
  <2>8. F => (AwaitingLink ~> StartingUp \/ Up)
    BY <1>1, <1>7, <2>3, <2>4, PTL DEF NetFairSpec, NetSpec, NetFairness, StartTurn
  <2>9. F => (StartingUp ~> Up)
    BY <1>1, <1>7, <2>5, <2>6, PTL DEF NetFairSpec, NetSpec, NetFairness, StartTurn
  <2> QED
    BY <2>7, <2>8, <2>9, PTL
<1>10. /\ LinkInTime => Linking
       /\ NegotiationInTime => Negotiating
       /\ Resetting => ~Linking /\ ~Negotiating
       /\ Linking => ~Negotiating
  BY DEF LinkInTime, NegotiationInTime, Resetting, Linking, Negotiating, PhyIn
<1>12. F /\ <>[]linked => (Linking ~> Resetting \/ NegotiationInTime \/ Up)
  <2>1. NetInv /\ Linking /\ [NetNext]_netVars
          => Linking' \/ Resetting' \/ NegotiationInTime' \/ Up'
    BY ComingUpSteps
  <2>2. NetInv /\ Linking /\ ~LinkInTime /\ [NetNext]_netVars
          => (Linking /\ ~LinkInTime)' \/ Resetting' \/ Up'
    BY ComingUpSteps
  <2>3. NetInv /\ Linking /\ ~LinkInTime /\ [NetNext]_netVars /\ <<PhyTurn>>_netVars
          => Resetting'
    BY ComingUpTurns
  <2>4. NetInv /\ [NetNext]_netVars /\ <<PhyLinked>>_netVars => NegotiationInTime'
    BY ComingUpTurns
  <2>5. F => (Linking /\ ~LinkInTime ~> Resetting \/ Up)
    BY <1>1, <1>7, <2>2, <2>3, PTL DEF NetFairSpec, NetSpec, NetFairness, PhyTurn
  <2> QED
    BY <1>1, <1>7, <2>1, <2>4, <2>5, PTL DEF NetFairSpec, NetSpec, NetFairness
<1>13. F /\ <>[]linked => (Negotiating ~> Resetting \/ MacSetting \/ Up)
  <2>1. NetInv /\ Negotiating /\ [NetNext]_netVars
          => Negotiating' \/ Resetting' \/ MacSetting' \/ Up'
    BY ComingUpSteps
  <2>2. NetInv /\ Negotiating /\ ~NegotiationInTime /\ [NetNext]_netVars
          => (Negotiating /\ ~NegotiationInTime)' \/ Resetting' \/ Up'
    BY ComingUpSteps
  <2>3. NetInv /\ Negotiating /\ ~NegotiationInTime /\ [NetNext]_netVars
          /\ <<PhyTurn>>_netVars
          => Resetting'
    BY ComingUpTurns
  <2>4. NetInv /\ [NetNext]_netVars /\ <<PhyNegotiated>>_netVars => MacSetting'
    BY ComingUpTurns
  <2>5. F => (Negotiating /\ ~NegotiationInTime ~> Resetting \/ Up)
    BY <1>1, <1>7, <2>2, <2>3, PTL DEF NetFairSpec, NetSpec, NetFairness, PhyTurn
  <2> QED
    BY <1>1, <1>7, <2>1, <2>4, <2>5, PTL DEF NetFairSpec, NetSpec, NetFairness
<1>14. F /\ C /\ <>[]linked => (Resetting ~> NegotiationInTime \/ Up)
  <2>1. NetInv /\ [NetNext]_netVars /\ <<PhyLinked>>_netVars => NegotiationInTime'
    BY ComingUpTurns
  <2>2. F => ([]<>(linked /\ LinkInTime) => []<>NegotiationInTime)
    BY <1>1, <1>7, <2>1, PTL DEF NetFairSpec, NetSpec, NetFairness
  <2> HIDE DEF C
  <2> QED
    BY <1>6, <1>8, <1>10, <1>12, <2>2, PTL
<1>15. F /\ C /\ <>[]linked => (NegotiationInTime ~> Up)
  <2>1. NetInv /\ [NetNext]_netVars /\ <<PhyNegotiated>>_netVars => MacSetting'
    BY ComingUpTurns
  <2>2. F => ([]<>(linked /\ NegotiationInTime) => []<>MacSetting)
    BY <1>1, <1>7, <2>1, PTL DEF NetFairSpec, NetSpec, NetFairness
  <2> HIDE DEF C
  <2> QED
    BY <1>9, <1>10, <1>13, <1>14, <2>2, PTL
<1>16. NetInv /\ EthInitStatus = 2
         => Resetting \/ Delaying \/ Linking \/ Negotiating \/ MacSetting
  BY DEF NetInv, NetTypeOK, Stages, PHY_STATUS, Resetting, Delaying, Linking, Negotiating,
         MacSetting, PhyIn
<1>17. F /\ C /\ <>[]linked => (EthInitStatus = 2 ~> Up)
  <2> HIDE DEF C
  <2> QED
    BY <1>1, <1>6, <1>9, <1>10, <1>12, <1>13, <1>14, <1>15, <1>16, PTL
<1> QED
  BY <1>17 DEF ComesUp, Up
=============================================================================
