------------------------------- MODULE TcpServer -------------------------------
(***************************************************************************)
(* The control server: up to TCP_CLIENT_NUM clients hold a slot of p_tcp,  *)
(* and every reply is copied into the send ring of each connected client.  *)
(* Three parties work on the slots (Ethernet/src/httpserver.c):            *)
(*   - ethernet_send_message, called by the command interpreter;           *)
(*   - message_poll, called by lwIP's slow timer for each connection;      *)
(*   - client_accept, and tcp_connection_state_check once a second.        *)
(* lwIP (external: Third_Party/lwip_v1.3.2) allocates a connection's       *)
(* control block (pcb) from a small pool and may free it at any time: the  *)
(* peer resets, goes silent, or closes.  Nobody tells the slot, which      *)
(* keeps the address until the check, or until the address is used again.  *)
(* Everything runs in the superloop (lwIP without threads), one callback   *)
(* at a time.  The bytes themselves are left out: a ring is its indices.   *)
(***************************************************************************)
EXTENDS Naturals, Sequences, FiniteSetsExt, SequencesExt

CONSTANTS
  TCP_CLIENT_NUM,     \* slots (5)
  Pcb,                \* addresses of lwIP's pool of control blocks (8)
  NULL,
  TCP_SND_BUF_LEN,    \* bytes of a send ring (2000)
  MaxMessage,         \* longest reply (bound)
  TCP_SND_BUF,        \* what lwIP queues for one connection (2920)
  TCP_MSS,            \* bytes of a segment (1460)
  MEMP_NUM_TCP_SEG    \* segments of all connections together (2)

ASSUME ConstantsAssumption ==
  /\ TCP_CLIENT_NUM \in Nat \ {0}
  /\ IsFiniteSet(Pcb) /\ NULL \notin Pcb
  /\ TCP_SND_BUF_LEN \in Nat \ {0}
  /\ MaxMessage \in 1 .. TCP_SND_BUF_LEN
  /\ TCP_SND_BUF \in Nat \ {0}
  /\ TCP_MSS \in Nat \ {0}
  /\ MEMP_NUM_TCP_SEG \in Nat

Slot == 0 .. TCP_CLIENT_NUM - 1

VARIABLES
  pcb, state,          \* p_tcp[i].pcb and .state
  head, tail, left,    \* p_tcp[i]'s ring: next byte in, next byte out, bytes waiting
  first_to_be_process, \* slot at which the send loop goes on
  todo,                \* iterations the running send loop has left; 0: none runs
  conn,                \* lwIP: what the memory of a pcb says of its connection
  snd_buf,             \* lwIP: bytes a connection still takes, tcp_sndbuf
  inflight,            \* lwIP: lengths of its segments not yet acknowledged
  leaked,              \* lwIP: segments no list holds any more
  twice,               \* has a pcb been given back to the pool twice?
  orphan               \* history: pcbs whose connection died since the last check,
                       \* or that a SYN had taken again by then

ring  == <<head, tail, left>>
lwip  == <<conn, snd_buf, inflight, leaked, twice>>
vars  == <<pcb, state, ring, first_to_be_process, todo, lwip, orphan>>

TCP_CLOSED    == "TCP_CLOSED"
TCP_CONNECTED == "TCP_CONNECTED"

\* A freed pcb reads CLOSED when lwIP closed it (tcp_pcb_remove), and keeps
\* reading ESTABLISHED, "ghost" here, when the slow timer gave up on the peer.
ConnState == {"free", "ghost", "SYN_RCVD", "ESTABLISHED", "CLOSE_WAIT"}
Open(p) == conn[p] \in {"ESTABLISHED", "CLOSE_WAIT"}
Listed(p) == Open(p) \/ conn[p] = "SYN_RCVD"   \* in tcp_active_pcbs
ReadsEstablished(p) == p # NULL /\ conn[p] \in {"ESTABLISHED", "ghost"}

Least(a, b) == IF a < b THEN a ELSE b
SegmentsFor(len) == (len + TCP_MSS - 1) \div TCP_MSS
SegmentsUsed == leaked + MapThenSumSet(LAMBDA p : Len(inflight[p]), Pcb)

\* tcp_enqueue: the lengths of the segments len bytes are cut into.
Cut(len) ==
  [i \in 1 .. SegmentsFor(len) |-> Least(TCP_MSS, len - (i - 1) * TCP_MSS)]

TypeOK ==
  /\ pcb \in [Slot -> Pcb \cup {NULL}]
  /\ state \in [Slot -> {TCP_CLOSED, TCP_CONNECTED}]
  /\ head \in [Slot -> 0 .. TCP_SND_BUF_LEN - 1]
  /\ tail \in [Slot -> 0 .. TCP_SND_BUF_LEN - 1]
  /\ left \in [Slot -> 0 .. TCP_SND_BUF_LEN - 1 + MaxMessage]
  /\ first_to_be_process \in 0 .. TCP_CLIENT_NUM
  /\ todo \in 0 .. TCP_CLIENT_NUM
  /\ conn \in [Pcb -> ConnState]
  /\ snd_buf \in [Pcb -> Nat]
  /\ inflight \in [Pcb -> Seq(1 .. TCP_MSS)]
  /\ leaked \in Nat
  /\ twice \in BOOLEAN
  /\ orphan \subseteq Pcb

\* httpserver.c ip_control_init, and lwIP with empty pools.
Init ==
  /\ pcb = [c \in Slot |-> NULL]
  /\ state = [c \in Slot |-> TCP_CLOSED]
  /\ head = [c \in Slot |-> 0]
  /\ tail = [c \in Slot |-> 0]
  /\ left = [c \in Slot |-> 0]
  /\ first_to_be_process = 0
  /\ todo = 0
  /\ conn = [p \in Pcb |-> "free"]
  /\ snd_buf = [p \in Pcb |-> TCP_SND_BUF]
  /\ inflight = [p \in Pcb |-> <<>>]
  /\ leaked = 0
  /\ twice = FALSE
  /\ orphan = {}

-----------------------------------------------------------------------------
\* Connections come and go.

\* The test of client_accept's loop.
FreeSlotAny(c) == TRUE   \* mutant: the slot's state is not looked at
FreeSlot(c) == pcb[c] = NULL \/ state[c] = TCP_CLOSED

\* What lwIP does to a pcb's queues when it gives the pcb back, or sets it up.
Emptied(p) ==
  /\ inflight' = [inflight EXCEPT ![p] = <<>>]
  /\ snd_buf' = [snd_buf EXCEPT ![p] = TCP_SND_BUF]

\* A SYN: lwIP takes pcb p from the pool, where segments a ghost still held are
\* lost, and one segment of length 1 to answer with; without one it gives the
\* pcb back.
\* Bound: once a pcb has been freed twice the pool hands out one address for
\* all, and no further connection is modelled until it is set up again.
SynReceived(p) ==
  /\ todo = 0 /\ ~twice
  /\ conn[p] \in {"free", "ghost"}
  /\ leaked' = leaked + Len(inflight[p])
  /\ \/ /\ SegmentsUsed < MEMP_NUM_TCP_SEG
        /\ conn' = [conn EXCEPT ![p] = "SYN_RCVD"]
        /\ inflight' = [inflight EXCEPT ![p] = <<1>>]
        /\ snd_buf' = [snd_buf EXCEPT ![p] = TCP_SND_BUF - 1]
     \/ /\ SegmentsUsed >= MEMP_NUM_TCP_SEG
        /\ conn' = [conn EXCEPT ![p] = "free"]
        /\ Emptied(p)
  /\ UNCHANGED <<pcb, state, ring, first_to_be_process, todo, twice, orphan>>

\* The handshake ends in client_accept.  On a free slot: the first one, its ring
\* emptied.  (Out of heap for its record it refuses, as a reset would.)
ClientAccept(p, c) ==
  /\ todo = 0 /\ ~twice
  /\ conn[p] = "SYN_RCVD"
  /\ FreeSlot(c) /\ \A d \in Slot : FreeSlot(d) => c <= d
  /\ conn' = [conn EXCEPT ![p] = "ESTABLISHED"]
  /\ Emptied(p)
  /\ pcb' = [pcb EXCEPT ![c] = p]
  /\ state' = [state EXCEPT ![c] = TCP_CONNECTED]
  /\ head' = [head EXCEPT ![c] = 0]
  /\ tail' = [tail EXCEPT ![c] = 0]
  /\ left' = [left EXCEPT ![c] = 0]
  /\ orphan' = orphan \ {p}
  /\ UNCHANGED <<first_to_be_process, todo, leaked, twice>>

\* Without one: tcp_abandon frees the pcb, and so does lwIP's tcp_abort when it
\* sees the ERR_VAL returned.
ClientRefuse(p) ==
  /\ todo = 0 /\ ~twice
  /\ conn[p] = "SYN_RCVD"
  /\ \A c \in Slot : ~FreeSlot(c)
  /\ conn' = [conn EXCEPT ![p] = "free"]
  /\ Emptied(p)
  /\ twice' = TRUE
  /\ orphan' = orphan \cup {p}
  /\ UNCHANGED <<pcb, state, ring, first_to_be_process, todo, leaked>>

\* The peer closes its side: message_recv, told with p = NULL, does nothing.
PeerClose(p) ==
  /\ todo = 0 /\ conn[p] = "ESTABLISHED"
  /\ conn' = [conn EXCEPT ![p] = "CLOSE_WAIT"]
  /\ UNCHANGED <<pcb, state, ring, first_to_be_process, todo,
                 snd_buf, inflight, leaked, twice, orphan>>

\* The connection dies and conn_err frees only its own record: a reset (also
\* lwIP's own, when the pool is empty) or the slow timer on a silent peer.
ConnErr(p, reads) ==
  /\ todo = 0 /\ Listed(p)
  /\ conn' = [conn EXCEPT ![p] = reads]
  /\ inflight' = [inflight EXCEPT ![p] = <<>>]
  /\ snd_buf' = IF reads = "ghost" THEN snd_buf
                                   ELSE [snd_buf EXCEPT ![p] = TCP_SND_BUF]
  /\ orphan' = orphan \cup {p}
  /\ UNCHANGED <<pcb, state, ring, first_to_be_process, todo, leaked, twice>>
PeerReset(p) == ConnErr(p, "free")
PeerSilent(p) == ConnErr(p, IF conn[p] = "ESTABLISHED" THEN "ghost" ELSE "free")

\* The peer acknowledges its oldest segment.
Ack(p) ==
  /\ todo = 0 /\ Open(p) /\ inflight[p] # <<>>
  /\ inflight' = [inflight EXCEPT ![p] = Tail(@)]
  /\ snd_buf' = [snd_buf EXCEPT ![p] = @ + Head(inflight[p])]
  /\ UNCHANGED <<pcb, state, ring, first_to_be_process, todo, conn,
                 leaked, twice, orphan>>

\* httpserver.c tcp_connection_state_check.  A listed connection that is not
\* established any more is closed by the first slot that names it; later slots
\* no longer find it.  Its address stays in the slot until the next check.
Closing(c) ==
  /\ pcb[c] # NULL /\ Listed(pcb[c])
  /\ state[c] = TCP_CONNECTED /\ conn[pcb[c]] # "ESTABLISHED"
Found(c) ==
  /\ pcb[c] # NULL /\ Listed(pcb[c])
  /\ \A d \in Slot : d < c /\ pcb[d] = pcb[c] => ~Closing(d)
StateChecked(c) == IF Found(c) /\ ~Closing(c) THEN state[c] ELSE TCP_CLOSED
PcbKept(c) == pcb[c]   \* mutant: illegal addresses are not deleted
PcbChecked(c) == IF Found(c) THEN pcb[c] ELSE NULL
ConnectionStateCheck ==
  LET closed == {pcb[c] : c \in {d \in Slot : Closing(d)}}
  IN  /\ todo = 0
      /\ pcb' = [c \in Slot |-> PcbChecked(c)]
      /\ state' = [c \in Slot |-> StateChecked(c)]
      /\ conn' = [p \in Pcb |-> IF p \in closed THEN "free" ELSE conn[p]]
      /\ inflight' = [p \in Pcb |-> IF p \in closed THEN <<>> ELSE inflight[p]]
      /\ snd_buf' = [p \in Pcb |-> IF p \in closed THEN TCP_SND_BUF ELSE snd_buf[p]]
      /\ orphan' = closed \cup {p \in orphan : conn[p] = "SYN_RCVD"}
      /\ UNCHANGED <<ring, first_to_be_process, todo, leaked, twice>>

-----------------------------------------------------------------------------
\* Replies.

\* How many bytes of slot c the next tcp_write hands over: what lwIP queues,
\* at most up to the end of the ring.
ToTheEnd(c, len) == len   \* mutant: the wrap at the end of the ring is forgotten
UpToTheEnd(c, len) ==
  IF tail[c] + len >= TCP_SND_BUF_LEN THEN TCP_SND_BUF_LEN - tail[c] ELSE len
Portion(c) == UpToTheEnd(c, Least(snd_buf[pcb[c]], left[c]))

\* tcp_write: an empty one succeeds, another one needs segments from the pool.
CanWrite(c) ==
  SegmentsUsed + SegmentsFor(Portion(c)) <= MEMP_NUM_TCP_SEG

\* ++ past the end of a ring goes on at its start.
Wrap(i) == IF i >= TCP_SND_BUF_LEN THEN i - TCP_SND_BUF_LEN ELSE i

\* After an ERR_OK: the bytes are lwIP's, the ring moves on.
HandOver(c) ==
  /\ snd_buf' = [snd_buf EXCEPT ![pcb[c]] = @ - Portion(c)]
  /\ inflight' = [inflight EXCEPT ![pcb[c]] = @ \o Cut(Portion(c))]
  /\ left' = [left EXCEPT ![c] = @ - Portion(c)]
  /\ tail' = [tail EXCEPT ![c] = IF @ + Portion(c) >= TCP_SND_BUF_LEN
                                  THEN 0 ELSE @ + Portion(c)]

\* ethernet_send_message, first loop: the reply goes into the ring of every slot
\* that reads connected, up to the first ring that is full.
Receives(c) ==
  /\ ReadsEstablished(pcb[c])
  /\ \A d \in 0 .. c : left[d] < TCP_SND_BUF_LEN
EthernetSendMessage(len) ==
  /\ todo = 0
  /\ head' = [c \in Slot |->
                IF Receives(c) THEN Wrap(head[c] + len) ELSE head[c]]
  /\ left' = [c \in Slot |-> IF Receives(c) THEN left[c] + len ELSE left[c]]
  /\ todo' = TCP_CLIENT_NUM
  /\ UNCHANGED <<pcb, state, tail, first_to_be_process, lwip, orphan>>

\* Second loop, one iteration a step: it goes on where it stopped the last time
\* and stops at the first connection lwIP takes no bytes from.
SendNext ==
  LET c == IF first_to_be_process = TCP_CLIENT_NUM THEN 0 ELSE first_to_be_process
  IN  /\ todo > 0
      /\ \/ /\ ~ReadsEstablished(pcb[c])
            /\ first_to_be_process' = c + 1 /\ todo' = todo - 1
            /\ UNCHANGED <<tail, left, snd_buf, inflight>>
         \/ /\ ReadsEstablished(pcb[c]) /\ CanWrite(c)
            /\ HandOver(c)
            /\ first_to_be_process' = c + 1 /\ todo' = todo - 1
         \/ /\ ReadsEstablished(pcb[c]) /\ ~CanWrite(c)
            /\ first_to_be_process' = c /\ todo' = 0
            /\ UNCHANGED <<tail, left, snd_buf, inflight>>
      /\ UNCHANGED <<pcb, state, head, conn, leaked, twice, orphan>>

\* message_poll: the first slot that names the connection, by copy.
HasBytesButOne(c) == left[c] > 1   \* mutant: off by one
HasBytes(c) == left[c] # 0
PolledSlot(p, c) == pcb[c] = p /\ \A d \in Slot : pcb[d] = p => c <= d
MessagePoll(p) ==
  /\ todo = 0 /\ conn[p] = "ESTABLISHED"
  /\ \E c \in Slot :
       /\ PolledSlot(p, c)
       /\ HasBytes(c) /\ CanWrite(c)
       /\ HandOver(c)
  /\ UNCHANGED <<pcb, state, head, first_to_be_process, todo, conn,
                 leaked, twice, orphan>>

-----------------------------------------------------------------------------
\* Power.

\* The unit powered off and on again: EthernetStandy closes every slot's pcb
\* (one that is free already, or shared, once more), then nothing happens on
\* the network until ip_control_init has emptied the slots and LwIP_Init the
\* pools.
PowerCycle ==
  /\ todo = 0
  /\ pcb' = [c \in Slot |-> NULL]
  /\ state' = [c \in Slot |-> TCP_CLOSED]
  /\ head' = [c \in Slot |-> 0]
  /\ tail' = [c \in Slot |-> 0]
  /\ left' = [c \in Slot |-> 0]
  /\ first_to_be_process' = 0
  /\ conn' = [p \in Pcb |-> "free"]
  /\ snd_buf' = [p \in Pcb |-> TCP_SND_BUF]
  /\ inflight' = [p \in Pcb |-> <<>>]
  /\ leaked' = 0
  /\ twice' = FALSE
  /\ orphan' = {}
  /\ UNCHANGED todo

Next ==
  \/ \E p \in Pcb :
       \/ \E c \in Slot : ClientAccept(p, c)
       \/ SynReceived(p) \/ ClientRefuse(p)
       \/ PeerClose(p) \/ PeerReset(p) \/ PeerSilent(p)
       \/ Ack(p)
       \/ MessagePoll(p)
  \/ ConnectionStateCheck
  \/ \E len \in 1 .. MaxMessage : EthernetSendMessage(len)
  \/ SendNext
  \/ PowerCycle

\* lwIP's slow timer polls every connection again and again, the superloop
\* finishes a send loop it has begun, and a segment is either acknowledged or
\* lwIP gives up on the connection.
Fairness ==
  /\ WF_vars(SendNext)
  /\ \A p \in Pcb : WF_vars(MessagePoll(p))
  /\ \A p \in Pcb : WF_vars(inflight[p] # <<>> /\ (Ack(p) \/ PeerSilent(p)))

Spec == Init /\ [][Next]_vars
FairSpec == Spec /\ Fairness
-----------------------------------------------------------------------------
(***************************************************************************)
(* Properties.                                                             *)
(***************************************************************************)

\* A ring's three counters agree, although three functions move them, left may
\* grow past the length of the ring, and a slot is given to another client
\* without any of them being told.
RingAgrees ==
  \A c \in Slot : \E laps \in 0 .. 2 :
    tail[c] + left[c] = head[c] + laps * TCP_SND_BUF_LEN

\* Every client lwIP holds established has a slot that says so, so that replies
\* reach it and the check looks after it: no order of closing, dying, checking
\* and connecting again (client_accept takes slots that still name a pcb) gives
\* a live client's last slot away.
EveryClientHasSlot ==
  \A p \in Pcb : conn[p] = "ESTABLISHED" =>
    \E c \in Slot : pcb[c] = p /\ state[c] = TCP_CONNECTED

\* A slot names memory that is no connection any more only until the next
\* tcp_connection_state_check: what it names died, or was closed by the check
\* itself, since the last one.
StaleOnlyUntilCheck ==
  \A c \in Slot : pcb[c] # NULL /\ ~Open(pcb[c]) => pcb[c] \in orphan

\* Two slots come to name one connection, whose client then gets every reply
\* twice, only when a client connects on the address of one that died since the
\* last check.
SharedOnlyAfterReuse ==
  [][\A c, d \in Slot :
       c # d /\ pcb[c] # pcb[d] /\ pcb'[c] = pcb'[d] /\ pcb'[c] # NULL
         => pcb'[c] \in orphan]_vars

\* Once no further reply is made and no peer knocks any more, the bytes waiting
\* in a client's ring are handed over to lwIP whatever the peers that are there
\* do, although message_poll and the send loop compete for the few segments of
\* all connections; unless segments have leaked (a reply to a ghost, whose memory
\* is then used again).  A peer that keeps knocking may take them every time.
Waiting(c) ==
  /\ pcb[c] # NULL /\ conn[pcb[c]] = "ESTABLISHED" /\ PolledSlot(pcb[c], c)
  /\ left[c] > 0
Ghostless == \A p \in Pcb : conn[p] = "ghost" => inflight[p] = <<>>
Quiet ==
  ~ \/ \E len \in 1 .. MaxMessage : EthernetSendMessage(len)
    \/ \E p \in Pcb : SynReceived(p)
WaitingBytesLeave ==
  <>[][Quiet]_vars /\ <>[](leaked = 0 /\ Ghostless)
    => \A c \in Slot : []<>~Waiting(c)
=============================================================================
