-------------------------- MODULE LwipSocketsProofs --------------------------
(***************************************************************************)
(* Theorems about LwipSockets, for every set of peers, any data, and any   *)
(* number of arrivals and rounds.                                          *)
(***************************************************************************)
EXTENDS LwipSockets, SequenceTheorems, FiniteSetTheorems, NaturalsInduction,
        WellFoundedInduction, TLAPS

(***************************************************************************)
(* The least member of a set of numbers; an induction over a sequence's    *)
(* positions is an argument about the least position that fails.           *)
(***************************************************************************)
LessThan == {p \in Nat \X Nat : p[1] < p[2]}

LEMMA Least ==
    ASSUME NEW S, S \subseteq Nat, S # {}
    PROVE  \E n \in S : \A m \in S : n <= m
<1>1. IsWellFoundedOn(LessThan, Nat)
  BY NatLessThanWellFounded DEF OpToRel, LessThan
<1>2. PICK n \in S : \A m \in S : <<m, n>> \notin LessThan
  BY <1>1, WFMin
<1>3. \A m \in S : ~(m < n)
  BY <1>2 DEF LessThan
<1> QED
  BY <1>3

----------------------------------------------------------------------------
(***************************************************************************)
(* Types, and what waits in server_queue: connections, each once and none  *)
(* that has the sock.  For each connection, accepted or not: what was      *)
(* received and not read came early or has an event, and so has a FIN that *)
(* was not silent, which never happens in the queue.                       *)
(***************************************************************************)
TcpState ==
    [backlog : Seq(Conn), unasked : Nat, slot : Conn \cup {None}, watched : BOOLEAN,
     flags : SUBSET {"MSG_RECV", "CONN_FIN"}]

ConnState == [st : {"none", "open", "fin", "rst"}, rx : Nat, early : Nat, silent : BOOLEAN]

Typed ==
    /\ dg \in [Dgram -> [mbox : Nat, missed : Nat]]
    /\ conn \in [Conn -> ConnState]
    /\ tcp \in TcpState
    /\ client \in [running : BOOLEAN, open : Nat]

Once(s) == \A i, j \in 1 .. Len(s) : s[i] = s[j] => i = j

QueueInv ==
    /\ \A i \in 1 .. Len(tcp.backlog) :
          conn[tcp.backlog[i]].st # "none" /\ tcp.backlog[i] # tcp.slot
    /\ Once(tcp.backlog)
    /\ tcp.slot # None => conn[tcp.slot].st # "none"

Waits(c) == \E i \in 1 .. Len(tcp.backlog) : tcp.backlog[i] = c

DataInv == \A c \in Conn :
    conn[c].st # "rst" /\ ~(tcp.slot = c /\ "MSG_RECV" \in tcp.flags) => conn[c].rx = conn[c].early

FinInv == \A c \in Conn :
    conn[c].st = "fin" /\ conn[c].silent = FALSE =>
        ~Waits(c) /\ (tcp.slot = c => "CONN_FIN" \in tcp.flags)

One(e) == IF "tcp" \in e THEN 1 ELSE 0

CountInv == Len(tcp.backlog) = tcp.unasked + One(evt)

ClientInv == client.open = (IF client.running THEN 1 ELSE 0)

SocketInv ==
    Typed /\ QueueInv /\ ServedPerEvent /\ ClientInv /\ CountInv /\ DataInv /\ FinInv

----------------------------------------------------------------------------
\* What the handlers and the network do, one lemma for each group of actions.
LEMMA DatagramStep ==
    ASSUME SocketInv, NEW k \in Dgram, Datagram(k) \/ Recv(k)
    PROVE  SocketInv'
<1> USE DEF SocketInv
<1>0. /\ UNCHANGED <<conn, tcp, client>> /\ ("tcp" \in evt' <=> "tcp" \in evt)
      /\ \A d \in Dgram \ {k} : dg'[d] = dg[d] /\ (d \in evt' <=> d \in evt)
      /\ dg[k] \in [mbox : Nat, missed : Nat]
  BY DEF Datagram, Deliver, Recv, Handling, Dgram, Typed
<1>1. /\ dg' \in [Dgram -> [mbox : Nat, missed : Nat]]
      /\ dg'[k].mbox = dg'[k].missed + (IF k \in evt' THEN 1 ELSE 0)
  <2>1. dg[k].mbox = dg[k].missed + (IF k \in evt THEN 1 ELSE 0)
    BY DEF ServedPerEvent
  <2>2. CASE Datagram(k)
    <3>1. dg' = [dg EXCEPT ![k] = [dg[k] EXCEPT !.mbox = @ + 1, !.missed = @ + Unnoticed(k)]]
      BY <2>2 DEF Datagram
    <3>2. dg'[k] = [mbox |-> dg[k].mbox + 1, missed |-> dg[k].missed + Unnoticed(k)]
      BY <1>0, <3>1 DEF Typed
    <3>3. dg'[k] \in [mbox : Nat, missed : Nat]
      BY <1>0, <3>2 DEF Unnoticed
    <3>5. Unnoticed(k) + (IF k \in evt' THEN 1 ELSE 0) = 1 + (IF k \in evt THEN 1 ELSE 0)
      <4>1. /\ pc[k] = "register" \/ pc[k] = "loop"
            /\ evt' = IF pc[k] = "loop" THEN evt \cup {k} ELSE evt
        BY <2>2 DEF Datagram, Deliver
      <4>2. CASE pc[k] = "register"
        BY <4>1, <4>2 DEF Unnoticed
      <4>3. CASE pc[k] = "loop" /\ k \in evt
        BY <4>1, <4>3 DEF Unnoticed
      <4>4. CASE pc[k] = "loop" /\ k \notin evt
        <5>1. k \in evt' /\ Unnoticed(k) = 0
          BY <4>1, <4>4 DEF Unnoticed
        <5> QED
          BY <4>4, <5>1
      <4> QED
        BY <4>1, <4>2, <4>3, <4>4
    <3>4. dg' \in [Dgram -> [mbox : Nat, missed : Nat]]
      BY <3>1, <3>2, <3>3 DEF Typed
    <3> QED
      BY <1>0, <2>1, <3>2, <3>4, <3>5 DEF Unnoticed
  <2>3. CASE Recv(k)
    <3>1. /\ dg' = [dg EXCEPT ![k] = [dg[k] EXCEPT !.mbox = IF @ > 0 THEN @ - 1 ELSE 0]]
          /\ k \in evt /\ k \notin evt'
      BY <2>3 DEF Recv, Handling
    <3>2. dg'[k] = [dg[k] EXCEPT !.mbox = IF @ > 0 THEN @ - 1 ELSE 0]
      BY <3>1 DEF Typed
    <3>3. /\ dg'[k].mbox = dg[k].mbox - 1 /\ dg'[k].missed = dg[k].missed
          /\ dg'[k] \in [mbox : Nat, missed : Nat]
      BY <1>0, <2>1, <3>1, <3>2
    <3>4. dg' \in [Dgram -> [mbox : Nat, missed : Nat]]
      BY <3>1, <3>2, <3>3 DEF Typed
    <3> QED
      BY <1>0, <2>1, <3>1, <3>3, <3>4
  <2> QED
    BY <2>2, <2>3
<1>2. Typed'
  BY <1>0, <1>1 DEF Typed
<1>3. ServedPerEvent'
  BY <1>0, <1>1 DEF ServedPerEvent
<1>4. QueueInv' /\ DataInv' /\ FinInv' /\ CountInv' /\ ClientInv'
  BY <1>0 DEF QueueInv, Once, DataInv, FinInv, Waits, CountInv, One, ClientInv
<1> QED
  BY <1>2, <1>3, <1>4

\* A handler or a peer that leaves the datagrams and the client alone.
LEMMA TcpStep ==
    ASSUME SocketInv, UNCHANGED <<dg, client>>, \A d \in Dgram : d \in evt' <=> d \in evt,
           conn' \in [Conn -> ConnState], tcp' \in TcpState,
           QueueInv', CountInv', DataInv', FinInv'
    PROVE  SocketInv'
<1>1. Typed'
  BY DEF SocketInv, Typed
<1>2. ServedPerEvent' /\ ClientInv'
  BY DEF SocketInv, ServedPerEvent, ClientInv
<1> QED
  BY <1>1, <1>2 DEF SocketInv

LEMMA TypedParts ==
    ASSUME SocketInv
    PROVE  /\ conn \in [Conn -> ConnState] /\ tcp \in TcpState
           /\ tcp.backlog \in Seq(Conn) /\ Len(tcp.backlog) \in Nat
           /\ \A i \in 1 .. Len(tcp.backlog) : tcp.backlog[i] \in Conn
           /\ tcp.unasked \in Nat /\ tcp.slot \in Conn \cup {None}
<1>1. tcp.backlog \in Seq(Conn)
  BY DEF SocketInv, Typed, TcpState
<1>2. Len(tcp.backlog) \in Nat /\ \A i \in 1 .. Len(tcp.backlog) : tcp.backlog[i] \in Conn
  BY <1>1, LenProperties, ElementOfSeq
<1> QED
  BY <1>1, <1>2 DEF SocketInv, Typed, TcpState

LEMMA ConnFields ==
    ASSUME NEW r \in ConnState
    PROVE  /\ r.st \in {"none", "open", "fin", "rst"} /\ r.silent \in BOOLEAN
           /\ r.rx \in Nat /\ r.early \in Nat
  BY DEF ConnState

LEMMA ConnMade ==
    ASSUME NEW a \in {"none", "open", "fin", "rst"}, NEW x \in Nat, NEW e \in Nat, NEW b \in BOOLEAN
    PROVE  [st |-> a, rx |-> x, early |-> e, silent |-> b] \in ConnState
  BY DEF ConnState

LEMMA AcceptStep ==
    ASSUME SocketInv, _tcp_accept \/ WatchSock
    PROVE  SocketInv'
<1>0. /\ UNCHANGED <<conn, dg, client>> /\ \A d \in Dgram : d \in evt' <=> d \in evt
  BY DEF _tcp_accept, WatchSock, Handling, TcpOnly, Dgram
<1>t. /\ conn \in [Conn -> ConnState] /\ tcp \in TcpState
      /\ tcp.backlog \in Seq(Conn) /\ Len(tcp.backlog) \in Nat
      /\ \A i \in 1 .. Len(tcp.backlog) : tcp.backlog[i] \in Conn
      /\ tcp.unasked \in Nat /\ tcp.slot \in Conn \cup {None}
  BY TypedParts
<1>2. ASSUME UNCHANGED <<tcp.backlog, tcp.slot, tcp.flags>>, tcp' \in TcpState, CountInv'
      PROVE  SocketInv'
  <2>1. QueueInv' /\ DataInv' /\ FinInv'
    BY <1>0, <1>2 DEF SocketInv, QueueInv, Once, DataInv, FinInv, Waits
  <2> QED
    BY <1>0, <1>2, <1>t, <2>1, TcpStep
<1>3. CASE WatchSock
  <2>1. tcp' = [tcp EXCEPT !.watched = TRUE] /\ evt' = evt
    BY <1>3 DEF WatchSock
  <2>2. tcp' \in TcpState /\ UNCHANGED <<tcp.backlog, tcp.slot, tcp.flags, tcp.unasked>>
    BY <1>t, <2>1 DEF TcpState
  <2>3. CountInv'
    BY <2>1, <2>2 DEF SocketInv, CountInv
  <2> QED
    BY <1>2, <2>2, <2>3
<1>c. ASSUME _tcp_accept PROVE One(evt) = 1 /\ One(evt') = 0
  BY <1>c DEF _tcp_accept, Handling, One
<1>n. Len(tcp.backlog) = tcp.unasked + One(evt)
  BY DEF SocketInv, CountInv
<1>4. CASE _tcp_accept /\ tcp.backlog = <<>>
  <2>1. Len(tcp.backlog) = 0
    BY <1>4
  <2> QED
    BY <1>4, <1>c, <1>n, <1>t, <2>1
<1>5. CASE _tcp_accept /\ tcp.backlog # <<>> /\ tcp.slot # None
  <2> DEFINE n == tcp.unasked + 1
  <2>0. n \in Nat
    BY <1>t
  <2>1. tcp' = [tcp EXCEPT !.unasked = n]
    BY <1>5 DEF _tcp_accept
  <2> HIDE DEF n
  <2>2. /\ tcp'.unasked = n /\ tcp' \in TcpState
        /\ UNCHANGED <<tcp.backlog, tcp.slot, tcp.flags>>
    BY <1>t, <2>0, <2>1 DEF TcpState
  <2>3. Len(tcp.backlog) = n + 0
    BY <1>5, <1>c, <1>n, <1>t DEF n
  <2>4. CountInv'
    BY <1>5, <1>c, <2>2, <2>3 DEF CountInv
  <2> QED
    BY <1>2, <2>2, <2>4
<1>6. CASE _tcp_accept /\ tcp.backlog # <<>> /\ tcp.slot = None
  <2> DEFINE h == Head(tcp.backlog)
             q == Tail(tcp.backlog)
  <2>1. /\ h \in Conn /\ q \in Seq(Conn) /\ Len(q) = Len(tcp.backlog) - 1
        /\ \A i \in 1 .. Len(q) : q[i] = tcp.backlog[i + 1]
        /\ h = tcp.backlog[1] /\ Len(tcp.backlog) >= 1
    BY <1>t, <1>6, HeadTailProperties, EmptySeq
  <2>2. tcp' = [tcp EXCEPT !.slot = h, !.backlog = q, !.watched = FALSE]
    BY <1>6 DEF _tcp_accept
  <2> HIDE DEF h, q
  <2>3. /\ tcp' \in TcpState /\ tcp'.slot = h /\ tcp'.backlog = q
        /\ UNCHANGED <<tcp.unasked, tcp.flags>>
    BY <1>t, <2>1, <2>2 DEF TcpState
  <2>4. CountInv'
    <3>1. Len(q) = tcp.unasked + 0
      BY <1>6, <1>c, <1>n, <1>t, <2>1
    <3> QED
      BY <1>6, <1>c, <2>3, <3>1 DEF CountInv
  <2>5. /\ \A i \in 1 .. Len(q) : i + 1 \in 1 .. Len(tcp.backlog) /\ i + 1 # 1
        /\ 1 \in 1 .. Len(tcp.backlog)
        /\ \A i, j \in 1 .. Len(q) : i + 1 = j + 1 => i = j
    BY <1>t, <2>1
  <2>6. h # None /\ tcp.slot = None /\ Once(tcp.backlog) /\ Waits(h) /\ conn[h].st # "none"
    BY <1>6, <2>1, <2>5, LwipAssumption DEF SocketInv, QueueInv, Waits
  <2>7. \A i \in 1 .. Len(q) : q[i] # h /\ conn[q[i]].st # "none"
    BY <2>1, <2>5 DEF SocketInv, QueueInv, Once
  <2>8. Once(q)
    BY <2>1, <2>5, <2>6 DEF Once
  <2>9. QueueInv'
    BY <1>0, <2>3, <2>6, <2>7, <2>8 DEF QueueInv, Once
  <2>10. \A d \in Conn : tcp.slot # d
    BY <1>6, LwipAssumption
  <2>11. DataInv'
    BY <1>0, <2>10 DEF SocketInv, DataInv
  <2>12. \A d : Waits(d)' => Waits(d)
    BY <2>1, <2>3, <2>5 DEF Waits
  <2>13. FinInv'
    BY <1>0, <2>3, <2>6, <2>12 DEF SocketInv, FinInv
  <2> QED
    BY <1>0, <1>t, <2>3, <2>4, <2>9, <2>11, <2>13, TcpStep
<1> QED
  BY <1>3, <1>4, <1>5, <1>6

LEMMA RecvStep ==
    ASSUME SocketInv, _tcp_recv
    PROVE  SocketInv'
<1>0. UNCHANGED <<dg, evt, client>>
  BY DEF _tcp_recv, RecvNoRemote, RecvEvent, TcpOnly
<1>t. /\ conn \in [Conn -> ConnState] /\ tcp \in TcpState
      /\ tcp.slot \in Conn \cup {None}
      /\ \A i \in 1 .. Len(tcp.backlog) : tcp.backlog[i] \in Conn
  BY TypedParts
<1>1. CASE RecvNoRemote
  <2>1. tcp' = [tcp EXCEPT !.flags = {}] /\ conn' = conn /\ conn[tcp.slot].st = "rst"
    BY <1>1 DEF RecvNoRemote
  <2>2. /\ tcp' \in TcpState /\ UNCHANGED <<tcp.backlog, tcp.slot, tcp.unasked>>
        /\ tcp'.flags = {}
    BY <1>t, <2>1 DEF TcpState
  <2>3. QueueInv' /\ CountInv'
    BY <1>0, <2>1, <2>2 DEF SocketInv, QueueInv, Once, CountInv
  <2>4. DataInv'
    BY <2>1, <2>2 DEF SocketInv, DataInv
  <2>5. FinInv'
    BY <2>1, <2>2 DEF SocketInv, FinInv, Waits
  <2> QED
    BY <1>0, <1>t, <2>1, <2>2, <2>3, <2>4, <2>5, TcpStep
<1>2. CASE RecvEvent
  <2>1. /\ tcp' \in TcpState
        /\ UNCHANGED <<tcp.backlog, tcp.unasked>> /\ tcp'.flags = {}
        /\ tcp'.slot = IF "CONN_FIN" \in tcp.flags THEN None ELSE tcp.slot
    <3>1. CASE "CONN_FIN" \in tcp.flags
      <4>1. tcp' = [[tcp EXCEPT !.slot = None, !.watched = FALSE] EXCEPT !.flags = {}]
        BY <1>2, <3>1 DEF RecvEvent, Disconnected
      <4> QED
        BY <1>t, <3>1, <4>1 DEF TcpState
    <3>2. CASE "CONN_FIN" \notin tcp.flags
      <4>1. tcp' = [tcp EXCEPT !.flags = {}]
        BY <1>2, <3>2 DEF RecvEvent, Disconnected
      <4> QED
        BY <1>t, <3>2, <4>1 DEF TcpState
    <3> QED
      BY <3>1, <3>2
  <2>2. /\ conn' \in [Conn -> ConnState]
        /\ \A c \in Conn : conn'[c].st = conn[c].st /\ conn'[c].silent = conn[c].silent
        /\ \A c \in Conn : (conn'[c].rx = conn[c].rx /\ conn'[c].early = conn[c].early)
                           \/ (c = tcp.slot /\ conn'[c].rx = 0 /\ conn'[c].early = 0)
        /\ "MSG_RECV" \in tcp.flags =>
              \A c \in Conn : c = tcp.slot => conn'[c].rx = 0 /\ conn'[c].early = 0
    <3>1. CASE "MSG_RECV" \notin tcp.flags
      BY <1>2, <1>t, <3>1 DEF RecvEvent, ReadAll
    <3>2. CASE "MSG_RECV" \in tcp.flags
      <4>1. conn' = [conn EXCEPT ![tcp.slot] = [conn[tcp.slot] EXCEPT !.rx = 0, !.early = 0]]
        BY <1>2, <3>2 DEF RecvEvent, ReadAll
      <4>2. ASSUME NEW c \in Conn, c = tcp.slot
            PROVE  conn'[c] = [st |-> conn[c].st, rx |-> 0, early |-> 0, silent |-> conn[c].silent]
        BY <1>t, <4>1, <4>2 DEF ConnState
      <4>3. ASSUME NEW c \in Conn, c # tcp.slot
            PROVE  conn'[c] = conn[c]
        BY <1>t, <4>1, <4>3
      <4>4. ASSUME NEW c \in Conn PROVE conn'[c] \in ConnState
        <5>1. conn[c] \in ConnState
          BY <1>t
        <5>2. CASE c = tcp.slot
          <6>1. /\ conn[c].st \in {"none", "open", "fin", "rst"} /\ conn[c].silent \in BOOLEAN
                /\ 0 \in Nat
            BY <5>1, ConnFields
          <6> QED
            BY <4>2, <5>2, <6>1, ConnMade
        <5>3. CASE c # tcp.slot
          BY <4>3, <5>1, <5>3
        <5> QED
          BY <5>2, <5>3
      <4>5. conn' \in [Conn -> ConnState]
        BY <1>t, <4>1, <4>4
      <4> QED
        BY <3>2, <4>2, <4>3, <4>5
    <3> QED
      BY <3>1, <3>2
  <2>3. \A i \in 1 .. Len(tcp.backlog) : tcp.backlog[i] # None
    BY <1>t, LwipAssumption
  <2>4. QueueInv'
    BY <1>t, <2>1, <2>2, <2>3 DEF SocketInv, QueueInv, Once
  <2>5. CountInv'
    BY <1>0, <2>1 DEF SocketInv, CountInv
  <2>6. DataInv'
    <3> SUFFICES ASSUME NEW c \in Conn, conn[c].st # "rst"
                 PROVE  conn'[c].rx = conn'[c].early
      BY <2>2 DEF DataInv
    <3>1. CASE c = tcp.slot /\ "MSG_RECV" \in tcp.flags
      BY <2>2, <3>1
    <3>2. CASE ~(c = tcp.slot /\ "MSG_RECV" \in tcp.flags)
      BY <2>2, <3>2 DEF SocketInv, DataInv
    <3> QED
      BY <3>1, <3>2
  <2>7. FinInv'
    <3> SUFFICES ASSUME NEW c \in Conn, conn[c].st = "fin", conn[c].silent = FALSE
                 PROVE  ~Waits(c)' /\ tcp'.slot # c
      BY <2>2 DEF FinInv
    <3>1. ~Waits(c) /\ (tcp.slot = c => "CONN_FIN" \in tcp.flags)
      BY DEF SocketInv, FinInv
    <3>2. c # None
      BY LwipAssumption
    <3> QED
      BY <2>1, <3>1, <3>2 DEF Waits
  <2> QED
    BY <1>0, <2>1, <2>2, <2>4, <2>5, <2>6, <2>7, TcpStep
<1> QED
  BY <1>1, <1>2 DEF _tcp_recv

\* A peer's step, other than to connect: its connection changes, and of tcp at
\* most the flags.
LEMMA PeerStep ==
    ASSUME SocketInv, NEW c \in Conn, PeerSends(c) \/ PeerCloses(c) \/ PeerResets(c)
    PROVE  SocketInv'
<1>0. UNCHANGED <<dg, evt, client>> /\ conn[c].st \in {"open", "fin"}
  BY DEF PeerSends, PeerCloses, PeerResets, PeerActs, TcpOnly
<1>t. /\ conn \in [Conn -> ConnState] /\ tcp \in TcpState /\ conn[c] \in ConnState
      /\ tcp.slot \in Conn \cup {None}
      /\ \A i \in 1 .. Len(tcp.backlog) : tcp.backlog[i] \in Conn
  BY TypedParts
<1>1. ASSUME NEW flag \in {"MSG_RECV", "CONN_FIN"}, Tell(c, flag)
      PROVE  /\ tcp' \in TcpState /\ UNCHANGED <<tcp.backlog, tcp.slot, tcp.unasked>>
             /\ tcp'.flags = IF Watched(c) THEN tcp.flags \cup {flag} ELSE tcp.flags
  <2>1. CASE Watched(c)
    <3>1. tcp' = [tcp EXCEPT !.flags = tcp.flags \cup {flag}]
      BY <1>1, <2>1 DEF Tell
    <3>2. tcp.flags \cup {flag} \in SUBSET {"MSG_RECV", "CONN_FIN"}
      BY <1>t DEF TcpState
    <3> QED
      BY <1>t, <2>1, <3>1, <3>2 DEF TcpState
  <2>2. CASE ~Watched(c)
    BY <1>1, <1>t, <2>2 DEF Tell
  <2> QED
    BY <2>1, <2>2
<1>2. ASSUME NEW flag \in {"MSG_RECV", "CONN_FIN"}, Tell(c, flag),
             conn' \in [Conn -> ConnState], conn'[c].st # "none",
             \A d \in Conn \ {c} : conn'[d] = conn[d],
             conn'[c].st # "rst" /\ ~(tcp.slot = c /\ "MSG_RECV" \in tcp'.flags) =>
                 conn'[c].rx = conn'[c].early,
             conn'[c].st = "fin" /\ conn'[c].silent = FALSE =>
                 ~Waits(c) /\ (tcp.slot = c => "CONN_FIN" \in tcp'.flags)
      PROVE  SocketInv'
  <2>1. /\ tcp' \in TcpState /\ UNCHANGED <<tcp.backlog, tcp.slot, tcp.unasked>>
        /\ tcp'.flags = IF Watched(c) THEN tcp.flags \cup {flag} ELSE tcp.flags
    BY <1>1, <1>2
  <2>2. \A d \in Conn : conn[d].st # "none" => conn'[d].st # "none"
    BY <1>2
  <2>3. QueueInv'
    BY <1>t, <2>1, <2>2 DEF SocketInv, QueueInv, Once
  <2>4. CountInv'
    BY <1>0, <2>1 DEF SocketInv, CountInv
  <2>5. \A d \in Conn \ {c} : tcp.slot = d => tcp'.flags = tcp.flags
    BY <2>1 DEF Watched
  <2>6. DataInv'
    BY <1>2, <2>1, <2>5 DEF SocketInv, DataInv
  <2>7. FinInv'
    BY <1>2, <2>1, <2>5 DEF SocketInv, FinInv, Waits
  <2> QED
    BY <1>0, <1>2, <2>1, <2>3, <2>4, <2>6, <2>7, TcpStep
<1>3. ASSUME NEW r \in ConnState, conn' = [conn EXCEPT ![c] = r]
      PROVE  /\ conn' \in [Conn -> ConnState] /\ conn'[c] = r
             /\ \A d \in Conn \ {c} : conn'[d] = conn[d]
  BY <1>3, <1>t
<1>4. CASE PeerSends(c)
  <2> DEFINE n == conn[c].rx + 1
             e == IF Watched(c) THEN conn[c].early ELSE conn[c].early + 1
             r == [st |-> "open", rx |-> n, early |-> e, silent |-> conn[c].silent]
  <2>1. n \in Nat /\ e \in Nat
    BY <1>t DEF ConnState
  <2>2. conn' = [conn EXCEPT ![c] = r] /\ Tell(c, "MSG_RECV")
    BY <1>4 DEF PeerSends
  <2>3. r \in ConnState
    <3> HIDE DEF n, e
    <3> QED
      BY <1>t, <2>1 DEF ConnState
  <2>4. conn[c].st # "rst" /\ conn[c].rx \in Nat /\ conn[c].early \in Nat
    BY <1>0, <1>t DEF ConnState
  <2>5. tcp'.flags = IF Watched(c) THEN tcp.flags \cup {"MSG_RECV"} ELSE tcp.flags
    BY <1>1, <2>2
  <2>6. ASSUME ~(tcp.slot = c /\ "MSG_RECV" \in tcp'.flags) PROVE n = e
    <3>1. ~Watched(c) /\ tcp'.flags = tcp.flags
      BY <2>5, <2>6 DEF Watched
    <3>2. conn[c].rx = conn[c].early
      BY <2>4, <2>6, <3>1 DEF SocketInv, DataInv
    <3> QED
      BY <3>1, <3>2
  <2> HIDE DEF n, e
  <2>7. r.st = "open" /\ r.rx = n /\ r.early = e
    OBVIOUS
  <2> HIDE DEF r
  <2>8. /\ conn' \in [Conn -> ConnState] /\ conn'[c] = r
        /\ \A d \in Conn \ {c} : conn'[d] = conn[d]
    BY <1>3, <2>2, <2>3
  <2> QED
    BY <1>2, <2>2, <2>6, <2>7, <2>8
<1>5. CASE PeerCloses(c)
  <2> DEFINE r == [st |-> "fin", rx |-> conn[c].rx, early |-> conn[c].early, silent |-> ~Watched(c)]
  <2>1. conn' = [conn EXCEPT ![c] = r] /\ Tell(c, "CONN_FIN") /\ conn[c].st = "open"
    BY <1>5 DEF PeerCloses
  <2>2. r \in ConnState
    BY <1>t DEF ConnState
  <2>3. r.st = "fin" /\ r.rx = conn[c].rx /\ r.early = conn[c].early /\ (r.silent = FALSE <=> Watched(c))
    OBVIOUS
  <2> HIDE DEF r
  <2>4. tcp'.flags = IF Watched(c) THEN tcp.flags \cup {"CONN_FIN"} ELSE tcp.flags
    BY <1>1, <2>1
  <2>5. ~(tcp.slot = c /\ "MSG_RECV" \in tcp'.flags) => r.rx = r.early
    BY <2>1, <2>3, <2>4 DEF SocketInv, DataInv
  <2>6. Watched(c) => ~Waits(c) /\ "CONN_FIN" \in tcp'.flags
    BY <2>4 DEF Watched, Waits, SocketInv, QueueInv
  <2>8. /\ conn' \in [Conn -> ConnState] /\ conn'[c] = r
        /\ \A d \in Conn \ {c} : conn'[d] = conn[d]
    BY <1>3, <2>1, <2>2
  <2> QED
    BY <1>2, <2>1, <2>3, <2>5, <2>6, <2>8
<1>6. CASE PeerResets(c)
  <2> DEFINE r == [st |-> "rst", rx |-> conn[c].rx, early |-> conn[c].early, silent |-> conn[c].silent]
  <2>1. conn' = [conn EXCEPT ![c] = r] /\ Tell(c, "CONN_FIN")
    <3>1. conn' = [conn EXCEPT ![c] = [conn[c] EXCEPT !.st = "rst"]] /\ Tell(c, "CONN_FIN")
      BY <1>6 DEF PeerResets
    <3>2. [conn[c] EXCEPT !.st = "rst"] = r
      BY <1>t DEF ConnState
    <3> HIDE DEF r
    <3> QED
      BY <3>1, <3>2
  <2>2. r \in ConnState /\ r.st = "rst"
    BY <1>t DEF ConnState
  <2> HIDE DEF r
  <2>3. /\ conn' \in [Conn -> ConnState] /\ conn'[c] = r
        /\ \A d \in Conn \ {c} : conn'[d] = conn[d]
    BY <1>3, <2>1, <2>2
  <2> QED
    BY <1>2, <2>1, <2>2, <2>3
<1> QED
  BY <1>4, <1>5, <1>6

\* A peer that connects is put into the queue, where it was not: it had no
\* connection.  Its event, or its not having one, is counted like a datagram's.
LEMMA ConnectStep ==
    ASSUME SocketInv, NEW c \in Conn, PeerConnects(c)
    PROVE  SocketInv'
<1> DEFINE q == Append(tcp.backlog, c)
           n == tcp.unasked + Unnoticed("tcp")
           r == [st |-> "open", rx |-> conn[c].rx, early |-> conn[c].early, silent |-> conn[c].silent]
<1>0. /\ UNCHANGED <<dg, client>> /\ conn[c].st = "none"
      /\ \A d \in Dgram : d \in evt' <=> d \in evt
  BY DEF PeerConnects, Deliver, TcpOnly, Dgram
<1>t. /\ conn \in [Conn -> ConnState] /\ tcp \in TcpState /\ conn[c] \in ConnState
      /\ tcp.backlog \in Seq(Conn) /\ Len(tcp.backlog) \in Nat
      /\ \A i \in 1 .. Len(tcp.backlog) : tcp.backlog[i] \in Conn
      /\ tcp.unasked \in Nat /\ tcp.slot \in Conn \cup {None}
  BY TypedParts
<1>1. conn' = [conn EXCEPT ![c] = r] /\ tcp' = [tcp EXCEPT !.backlog = q, !.unasked = n]
  <2>1. /\ conn' = [conn EXCEPT ![c] = [conn[c] EXCEPT !.st = "open"]]
        /\ tcp' = [tcp EXCEPT !.backlog = q, !.unasked = n]
    BY DEF PeerConnects
  <2>2. [conn[c] EXCEPT !.st = "open"] = r
    BY <1>t DEF ConnState
  <2> HIDE DEF r, q, n
  <2> QED
    BY <2>1, <2>2
<1>2. r \in ConnState
  BY <1>t DEF ConnState
<1>3. r.st = "open" /\ r.rx = conn[c].rx /\ r.early = conn[c].early
  OBVIOUS
<1>6. n \in Nat
  BY <1>t DEF Unnoticed
<1>8. /\ q \in Seq(Conn) /\ Len(q) = Len(tcp.backlog) + 1
      /\ q[Len(tcp.backlog) + 1] = c
      /\ \A i \in 1 .. Len(tcp.backlog) : q[i] = tcp.backlog[i]
  BY <1>t, AppendProperties
<1>9. n + One(evt') = tcp.unasked + 1 + One(evt)
  <2>1. /\ pc["tcp"] = "register" \/ pc["tcp"] = "loop"
        /\ evt' = IF pc["tcp"] = "loop" THEN evt \cup {"tcp"} ELSE evt
    BY DEF PeerConnects, Deliver
  <2>2. CASE pc["tcp"] = "register"
    <3>1. evt' = evt /\ Unnoticed("tcp") = 1
      BY <2>1, <2>2 DEF Unnoticed
    <3>2. One(evt) \in Nat
      BY DEF One
    <3> QED
      BY <1>t, <3>1, <3>2
  <2>3. CASE pc["tcp"] = "loop" /\ "tcp" \in evt
    <3>1. One(evt') = 1 /\ One(evt) = 1 /\ Unnoticed("tcp") = 1
      BY <2>1, <2>3 DEF Unnoticed, One
    <3> QED
      BY <1>t, <3>1
  <2>4. CASE pc["tcp"] = "loop" /\ "tcp" \notin evt
    <3>1. One(evt') = 1 /\ One(evt) = 0 /\ Unnoticed("tcp") = 0
      BY <2>1, <2>4 DEF Unnoticed, One
    <3> QED
      BY <1>t, <3>1
  <2> QED
    BY <2>1, <2>2, <2>3, <2>4
<1> HIDE DEF q, n, r
<1>10. /\ conn' \in [Conn -> ConnState] /\ conn'[c] = r
       /\ \A d \in Conn \ {c} : conn'[d] = conn[d]
  BY <1>t, <1>1, <1>2
<1>11. /\ tcp' \in TcpState /\ UNCHANGED <<tcp.slot, tcp.flags>>
       /\ tcp'.backlog = q /\ tcp'.unasked = n
  BY <1>t, <1>1, <1>6, <1>8 DEF TcpState
<1>12. \A i \in 1 .. Len(q) : i \in 1 .. Len(tcp.backlog) \/ i = Len(tcp.backlog) + 1
  BY <1>t, <1>8
<1>13. \A i \in 1 .. Len(tcp.backlog) :
           q[i] \in Conn \ {c} /\ conn[q[i]].st # "none" /\ q[i] # tcp.slot
  BY <1>0, <1>t, <1>8 DEF SocketInv, QueueInv
<1>14. tcp.slot # c
  BY <1>0, LwipAssumption DEF SocketInv, QueueInv
<1>15. QueueInv'
  <2>1. \A i \in 1 .. Len(q) : conn'[q[i]].st # "none" /\ q[i] # tcp.slot
    BY <1>3, <1>8, <1>10, <1>12, <1>13, <1>14
  <2>2. Once(q)
    <3> SUFFICES ASSUME NEW i \in 1 .. Len(q), NEW j \in 1 .. Len(q), q[i] = q[j]
                 PROVE  i = j
      BY DEF Once
    <3>1. CASE i \in 1 .. Len(tcp.backlog) /\ j \in 1 .. Len(tcp.backlog)
      BY <1>8, <3>1 DEF SocketInv, QueueInv, Once
    <3>2. CASE i = Len(tcp.backlog) + 1 \/ j = Len(tcp.backlog) + 1
      BY <1>8, <1>12, <1>13, <3>2
    <3> QED
      BY <1>12, <3>1, <3>2
  <2>3. tcp.slot # None => conn'[tcp.slot].st # "none"
    BY <1>t, <1>10, <1>14 DEF SocketInv, QueueInv
  <2> QED
    BY <1>11, <2>1, <2>2, <2>3 DEF QueueInv, Once
<1>16. CountInv'
  <2>1. Len(tcp.backlog) = tcp.unasked + One(evt) /\ One(evt) \in Nat /\ One(evt') \in Nat
    BY DEF SocketInv, CountInv, One
  <2>2. Len(q) = n + One(evt')
    BY <1>t, <1>6, <1>8, <1>9, <2>1
  <2> QED
    BY <1>11, <2>2 DEF CountInv
<1>17. DataInv'
  <2>1. r.rx = r.early
    BY <1>0, <1>3, <1>14 DEF SocketInv, DataInv
  <2> QED
    BY <1>10, <1>11, <2>1 DEF SocketInv, DataInv
<1>18. FinInv'
  <2>1. \A d \in Conn \ {c} : Waits(d)' => Waits(d)
    BY <1>8, <1>11, <1>12 DEF Waits
  <2> QED
    BY <1>3, <1>10, <1>11, <2>1 DEF SocketInv, FinInv
<1> QED
  BY <1>0, <1>10, <1>11, <1>15, <1>16, <1>17, <1>18, TcpStep

\* The shell, and a thread that starts, touch none of it but the client.
LEMMA ShellStep ==
    ASSUME SocketInv, UNCHANGED <<evt, dg, conn, tcp>>,
           client' \in [running : BOOLEAN, open : Nat],
           client'.open = (IF client'.running THEN 1 ELSE 0)
    PROVE  SocketInv'
<1> USE DEF SocketInv
<1>1. Typed' /\ ServedPerEvent' /\ QueueInv' /\ ClientInv'
  BY DEF Typed, ServedPerEvent, QueueInv, Once, ClientInv
<1>2. CountInv' /\ DataInv' /\ FinInv'
  BY DEF CountInv, DataInv, FinInv, Waits
<1> QED
  BY <1>1, <1>2

LEMMA SocketStep ==
    ASSUME SocketInv, [Next]_vars
    PROVE  SocketInv'
<1>0. /\ client \in [running : BOOLEAN, open : Nat]
      /\ client.open = (IF client.running THEN 1 ELSE 0)
  BY DEF SocketInv, Typed, ClientInv
<1>1. CASE UNCHANGED <<evt, dg, conn, tcp, client>>
  BY <1>0, <1>1, ShellStep
<1>2. CASE UdpThread \/ IpThread
  <2>1. CASE Recv("udp") \/ Recv("ip")
    BY <2>1, DatagramStep DEF Dgram
  <2> QED
    BY <1>1, <1>2, <2>1 DEF UdpThread, IpThread, udp_server_thread, ip_server_thread,
       CreateSock, EventInit, _udp_recv, _ip_recv
<1>3. CASE TcpThread
  <2>1. CASE tcp_server_thread
    BY <1>1, <2>1 DEF tcp_server_thread, CreateSock, EventInit
  <2> QED
    BY <1>3, <2>1, AcceptStep, RecvStep DEF TcpThread
<1>4. CASE Network
  BY <1>4, DatagramStep, ConnectStep, PeerStep DEF Network
<1>5. CASE udp_cmd \/ ip_cmd \/ tcp_send \/ tcp_start_server
  BY <1>1, <1>5 DEF udp_cmd, ip_cmd, udp_send, ip_send, tcp_send, Sending, ShellOnly,
     udp_start_server, ip_start_server, tcp_start_server, StartServer
<1>6. CASE tcp_connect
  <2>1. client.running = FALSE /\ client.open = 0
    BY <1>0, <1>6 DEF tcp_connect
  <2>2. client' = [running |-> TRUE, open |-> 1] /\ UNCHANGED <<evt, dg, conn, tcp>>
    BY <1>6, <2>1 DEF tcp_connect, ShellOnly
  <2> QED
    BY <2>2, ShellStep
<1>7. CASE tcp_disconnect
  <2>1. client.open = 0 \/ client.open = 1
    BY <1>0
  <2>2. (IF client.open > 0 THEN client.open - 1 ELSE 0) = 0
    BY <2>1
  <2>3. client' = [running |-> FALSE, open |-> 0] /\ UNCHANGED <<evt, dg, conn, tcp>>
    BY <1>7, <2>2, Zenon DEF tcp_disconnect, ShellOnly
  <2> QED
    BY <2>3, ShellStep
<1>8. CASE UNCHANGED vars
  BY <1>1, <1>8 DEF vars
<1> QED
  BY <1>2, <1>3, <1>4, <1>5, <1>6, <1>7, <1>8 DEF Next, tcp_cmd

LEMMA SocketInit == Init => SocketInv
<1> SUFFICES ASSUME Init PROVE SocketInv
  OBVIOUS
<1>1. Typed
  BY LwipAssumption DEF Init, Typed, TcpState, ConnState
<1>2. tcp.backlog = <<>> /\ tcp.slot = None /\ evt = {} /\ Len(tcp.backlog) = 0
  BY DEF Init
<1>3. QueueInv
  BY <1>2 DEF QueueInv, Once
<1>4. ServedPerEvent /\ DataInv /\ FinInv
  BY <1>2 DEF ServedPerEvent, DataInv, FinInv, Init
<1>5. CountInv /\ ClientInv
  BY <1>2 DEF CountInv, One, ClientInv, Init
<1> QED
  BY <1>1, <1>3, <1>4, <1>5 DEF SocketInv

LEMMA SocketAlways == Spec => []SocketInv
  BY SocketInit, SocketStep, PTL DEF Spec

(***************************************************************************)
(* What waits in the socket of udp or ip is what came without an event of  *)
(* its own, and one more while an event is queued.                         *)
(***************************************************************************)
THEOREM ServedPerEventHolds == Spec => []ServedPerEvent
<1>1. SocketInv => ServedPerEvent
  BY DEF SocketInv
<1> QED
  BY <1>1, SocketAlways, PTL

(***************************************************************************)
(* No connection waits in server_queue, and no data or FIN in server_sock, *)
(* but those with an event or known to have come without one, whenever     *)
(* peers connect, send, close or reset; client_sock has a connection if    *)
(* client_running.                                                         *)
(***************************************************************************)
THEOREM TcpAccountedHolds == Spec => []TcpAccounted
<1>1. SocketInv => TcpAccounted
  <2> SUFFICES ASSUME SocketInv PROVE TcpAccounted
    OBVIOUS
  <2>1. tcp.slot # None => tcp.slot \in Conn /\ conn[tcp.slot].silent \in BOOLEAN
    BY TypedParts DEF ConnState
  <2>2. NoneOverlooked
    BY <2>1 DEF SocketInv, CountInv, One, DataInv, NoneOverlooked
  <2>3. FinNoticed
    BY <2>1 DEF SocketInv, FinInv, FinNoticed
  <2> QED
    BY <2>2, <2>3 DEF SocketInv, ClientInv, TcpAccounted
<1> QED
  BY <1>1, SocketAlways, PTL

----------------------------------------------------------------------------
(***************************************************************************)
(* hex2ints(): the loop is defined round by round ...                      *)
(***************************************************************************)
HexStart == [upper |-> TRUE, out |-> <<>>]

\* f is the loop over the first n characters
Rounds(f, in, n) ==
    f = [i \in 0 .. n |-> IF i = 0 THEN HexStart ELSE HexStep(f[i - 1], in[i])]

LEMMA RoundsExist ==
    ASSUME NEW in, NEW n \in Nat
    PROVE  \E f : Rounds(f, in, n)
<1> DEFINE Bad == {m \in Nat : ~ \E f : Rounds(f, in, m)}
<1> SUFFICES ASSUME Bad # {} PROVE FALSE
  OBVIOUS
<1>1. PICK m \in Bad : \A k \in Bad : m <= k
  <2>1. Bad \subseteq Nat
    OBVIOUS
  <2> HIDE DEF Bad
  <2> QED
    BY <2>1, Least
<1>2. CASE m = 0
  <2> DEFINE f == [i \in 0 .. 0 |-> HexStart]
  <2>1. f = [i \in 0 .. 0 |-> IF i = 0 THEN HexStart ELSE HexStep(f[i - 1], in[i])]
    OBVIOUS
  <2>2. Rounds(f, in, 0)
    BY <2>1 DEF Rounds
  <2> QED
    BY <1>2, <2>2
<1>3. CASE m # 0
  <2>1. m - 1 \in Nat /\ m - 1 \notin Bad
    BY <1>1, <1>3
  <2>2. PICK g : Rounds(g, in, m - 1)
    BY <2>1
  <2>3. /\ g[0] = HexStart
        /\ \A i \in 1 .. m - 1 : g[i] = HexStep(g[i - 1], in[i])
    <3>1. \A i \in 0 .. m - 1 : g[i] = IF i = 0 THEN HexStart ELSE HexStep(g[i - 1], in[i])
      BY <2>2 DEF Rounds
    <3> QED
      BY <2>1, <3>1
  <2> DEFINE f == [i \in 0 .. m |-> IF i < m THEN g[i] ELSE HexStep(g[m - 1], in[m])]
  <2>4. \A i \in 0 .. m : f[i] = IF i = 0 THEN HexStart ELSE HexStep(f[i - 1], in[i])
    <3> SUFFICES ASSUME NEW i \in 0 .. m
                 PROVE  f[i] = IF i = 0 THEN HexStart ELSE HexStep(f[i - 1], in[i])
      OBVIOUS
    <3>1. CASE i = 0
      BY <1>3, <2>3, <3>1
    <3>2. CASE i # 0 /\ i < m
      <4>1. i \in 1 .. m - 1 /\ i - 1 \in 0 .. m /\ i - 1 < m
        BY <3>2
      <4> QED
        BY <2>3, <3>2, <4>1
    <3>3. CASE i = m
      <4>1. m - 1 \in 0 .. m /\ m - 1 < m /\ ~(m < m)
        BY <2>1
      <4> QED
        BY <1>3, <3>3, <4>1
    <3> QED
      BY <3>1, <3>2, <3>3
  <2>5. f = [i \in 0 .. m |-> IF i = 0 THEN HexStart ELSE HexStep(f[i - 1], in[i])]
    BY <2>4
  <2>6. Rounds(f, in, m)
    BY <2>5 DEF Rounds
  <2> QED
    BY <1>1, <2>6
<1> QED
  BY <1>2, <1>3

LEMMA HexLoopIs ==
    ASSUME NEW in, Len(in) \in Nat
    PROVE  /\ HexLoop(in)[0] = HexStart
           /\ \A i \in 1 .. Len(in) : HexLoop(in)[i] = HexStep(HexLoop(in)[i - 1], in[i])
<1>1. HexLoop(in) = CHOOSE f : Rounds(f, in, Len(in))
  BY DEF HexLoop, Rounds, HexStart
<1>2. Rounds(HexLoop(in), in, Len(in))
  BY <1>1, RoundsExist
<1>3. \A i \in 0 .. Len(in) :
          HexLoop(in)[i] = IF i = 0 THEN HexStart ELSE HexStep(HexLoop(in)[i - 1], in[i])
  BY <1>2 DEF Rounds
<1> QED
  BY <1>3

(***************************************************************************)
(* ... a round counts a digit or passes over any other character ...       *)
(***************************************************************************)
LEMMA DigitValue ==
    ASSUME NEW ch \in 1 .. 127
    PROVE  /\ ch \in DOMAIN HexValue <=> Base(ch) # 0
           /\ ch \in DOMAIN HexValue => /\ ch - Base(ch) = HexValue[ch]
                                        /\ HexValue[ch] \in 0 .. 15
<1>0. DOMAIN HexValue = (48 .. 57) \cup (65 .. 70) \cup (97 .. 102)
  BY DEF HexValue
<1>1. CASE ch \in 48 .. 57
  <2>1. Base(ch) = 48
    BY <1>1 DEF Base
  <2> QED
    BY <1>0, <1>1, <2>1 DEF HexValue
<1>2. CASE ch \in 65 .. 70
  <2>1. Base(ch) = 65 - 10
    BY <1>2 DEF Base
  <2> QED
    BY <1>0, <1>2, <2>1 DEF HexValue
<1>3. CASE ch \in 97 .. 102
  <2>1. Base(ch) = 97 - 10
    BY <1>3 DEF Base
  <2> QED
    BY <1>0, <1>3, <2>1 DEF HexValue
<1>4. CASE ch \notin (48 .. 57) \cup (65 .. 70) \cup (97 .. 102)
  <2>1. Base(ch) = 0
    BY <1>4 DEF Base
  <2> QED
    BY <1>0, <1>4, <2>1
<1> QED
  BY <1>1, <1>2, <1>3, <1>4

LEMMA DigitsCount ==
    ASSUME NEW in
    PROVE  /\ Digits(in, 0) = 0
           /\ \A i \in Nat : Digits(in, i) \in Nat
           /\ \A i \in Nat \ {0} :
                Digits(in, i) = Digits(in, i - 1) + (IF in[i] \in DOMAIN HexValue THEN 1 ELSE 0)
<1> DEFINE D(i) == {j \in 1 .. i : in[j] \in DOMAIN HexValue}
<1>1. \A i \in Nat : IsFiniteSet(D(i))
  <2> SUFFICES ASSUME NEW i \in Nat PROVE IsFiniteSet(D(i))
    OBVIOUS
  <2>1. IsFiniteSet(1 .. i)
    BY FS_Interval
  <2>2. D(i) \subseteq 1 .. i
    OBVIOUS
  <2> QED
    BY <2>1, <2>2, FS_Subset
<1>2. D(0) = {}
  OBVIOUS
<1>3. Digits(in, 0) = 0
  BY <1>2, FS_EmptySet DEF Digits
<1>4. \A i \in Nat : Digits(in, i) \in Nat
  BY <1>1, FS_CardinalityType DEF Digits
<1>5. ASSUME NEW i \in Nat \ {0}
      PROVE  Digits(in, i) = Digits(in, i - 1) + (IF in[i] \in DOMAIN HexValue THEN 1 ELSE 0)
  <2>1. i - 1 \in Nat /\ i \notin D(i - 1) /\ \A j : j \in 1 .. i <=> j \in 1 .. i - 1 \/ j = i
    OBVIOUS
  <2>2. CASE in[i] \in DOMAIN HexValue
    <3>1. D(i) = D(i - 1) \cup {i}
      BY <2>1, <2>2
    <3>2. Cardinality(D(i)) = Cardinality(D(i - 1)) + 1
      BY <1>1, <2>1, <3>1, FS_AddElement
    <3> QED
      BY <2>2, <3>2 DEF Digits
  <2>3. CASE in[i] \notin DOMAIN HexValue
    <3>1. D(i) = D(i - 1)
      BY <2>1, <2>3
    <3>2. Digits(in, i) = Digits(in, i - 1) /\ Digits(in, i - 1) \in Nat
      BY <1>4, <2>1, <3>1 DEF Digits
    <3> QED
      BY <2>3, <3>2
  <2> QED
    BY <2>2, <2>3
<1> QED
  BY <1>3, <1>4, <1>5

(***************************************************************************)
(* ... and after i characters what was written is their digits in pairs.   *)
(***************************************************************************)

\* The half byte that digit number n belongs in
Half(out, n) ==
    LET byte == out[(n + 1) \div 2] IN IF n % 2 = 1 THEN byte \div 16 ELSE byte % 16

\* out is what InPairs says of the first i characters.
PairsSoFar(in, i, out) ==
    /\ out \in Seq(0 .. 255)
    /\ Len(out) = (Digits(in, i) + 1) \div 2
    /\ \A j \in 1 .. i : in[j] \in DOMAIN HexValue =>
          /\ Digits(in, j) \in 1 .. Digits(in, i)
          /\ HexValue[in[j]] = Half(out, Digits(in, j))
    /\ Digits(in, i) % 2 = 1 => out[Len(out)] % 16 = 0

Round(in, i) ==
    /\ HexLoop(in)[i] = [upper |-> Digits(in, i) % 2 = 0, out |-> HexLoop(in)[i].out]
    /\ PairsSoFar(in, i, HexLoop(in)[i].out)

\* The arithmetic of positions and of half bytes
LEMMA Parity ==
    ASSUME NEW n \in Nat
    PROVE  /\ n % 2 = 0 => /\ (n + 1) % 2 = 1 /\ (n + 2) \div 2 = (n + 1) \div 2 + 1
                           /\ \A m \in 1 .. n : (m + 1) \div 2 \in 1 .. (n + 1) \div 2
           /\ n % 2 # 0 => /\ n % 2 = 1 /\ (n + 1) % 2 = 0 /\ (n + 2) \div 2 = (n + 1) \div 2
                           /\ \A m \in 1 .. n : \/ m = n
                                                \/ (m + 1) \div 2 \in 1 .. (n + 1) \div 2 - 1
           /\ (n + 1) \div 2 \in Nat
  OBVIOUS

LEMMA Nibbles ==
    /\ \A v \in 0 .. 15 : /\ v * 16 \in 0 .. 255
                          /\ (v * 16) \div 16 = v /\ (v * 16) % 16 = 0
    /\ \A b \in 0 .. 255, v \in 0 .. 15 : b % 16 = 0 =>
          /\ b + v \in 0 .. 255
          /\ (b + v) \div 16 = b \div 16 /\ (b + v) % 16 = v
  OBVIOUS

\* A digit opens a byte.
LEMMA OpensByte ==
    ASSUME NEW in, NEW i \in Nat \ {0}, NEW out, PairsSoFar(in, i - 1, out),
           in[i] \in DOMAIN HexValue, HexValue[in[i]] \in 0 .. 15,
           Digits(in, i - 1) % 2 = 0
    PROVE  PairsSoFar(in, i, Append(out, HexValue[in[i]] * 16))
<1> DEFINE n == Digits(in, i - 1)
           v == HexValue[in[i]]
           r == Append(out, v * 16)
           h == (n + 1) \div 2
<1>1. n \in Nat /\ Digits(in, i) = n + 1
  BY DigitsCount
<1>2. out \in Seq(0 .. 255) /\ Len(out) = h /\ v \in 0 .. 15
  BY DEF PairsSoFar
<1>3. /\ r \in Seq(0 .. 255) /\ Len(r) = h + 1 /\ r[h + 1] = v * 16
      /\ \A m \in 1 .. h : r[m] = out[m]
  <2>1. v * 16 \in 0 .. 255
    BY <1>2, Nibbles
  <2> HIDE DEF v, h
  <2> QED
    BY <1>2, <2>1, AppendProperties
<1>4. /\ n % 2 = 0 /\ (n + 1) % 2 = 1 /\ ((n + 1) + 1) \div 2 = h + 1 /\ h \in Nat
      /\ \A m \in 1 .. n : (m + 1) \div 2 \in 1 .. h
  <2>1. n % 2 = 0
    OBVIOUS
  <2> HIDE DEF n
  <2>2. (n + 1) + 1 = n + 2
    BY <1>1
  <2> QED
    BY <1>1, <2>1, <2>2, Parity
<1>5. (v * 16) \div 16 = v /\ (v * 16) % 16 = 0
  BY <1>2, Nibbles
<1>6. ASSUME NEW j \in 1 .. i, in[j] \in DOMAIN HexValue
      PROVE  /\ Digits(in, j) \in 1 .. Digits(in, i)
             /\ HexValue[in[j]] = Half(r, Digits(in, j))
  <2>1. CASE j = i
    <3>1. Half(r, n + 1) = v
      <4> HIDE DEF n, v, r, h
      <4> QED
        BY <1>3, <1>4, <1>5 DEF Half
    <3> QED
      BY <1>1, <2>1, <3>1
  <2>2. CASE j # i
    <3>1. j \in 1 .. i - 1
      BY <2>2
    <3>2. Digits(in, j) \in 1 .. n /\ HexValue[in[j]] = Half(out, Digits(in, j))
      BY <1>6, <3>1 DEF PairsSoFar
    <3>3. r[(Digits(in, j) + 1) \div 2] = out[(Digits(in, j) + 1) \div 2]
      <4> HIDE DEF n, r, h
      <4> QED
        BY <1>3, <1>4, <3>2
    <3> HIDE DEF n, r
    <3> QED
      BY <1>1, <3>2, <3>3 DEF Half
  <2> QED
    BY <2>1, <2>2
<1> HIDE DEF n, v, h, r
<1> QED
  BY <1>1, <1>3, <1>4, <1>5, <1>6 DEF PairsSoFar, r, v

\* A digit completes the last byte, whose lower half is still 0.
LEMMA CompletesByte ==
    ASSUME NEW in, NEW i \in Nat \ {0}, NEW out, PairsSoFar(in, i - 1, out),
           in[i] \in DOMAIN HexValue, HexValue[in[i]] \in 0 .. 15,
           Digits(in, i - 1) % 2 # 0
    PROVE  PairsSoFar(in, i, [out EXCEPT ![Len(out)] = @ + HexValue[in[i]]])
<1> DEFINE n == Digits(in, i - 1)
           v == HexValue[in[i]]
           h == Len(out)
           r == [out EXCEPT ![h] = @ + v]
<1>1. n \in Nat /\ Digits(in, i) = n + 1
  BY DigitsCount
<1>2. /\ n % 2 = 1 /\ (n + 1) % 2 = 0 /\ (n + 2) \div 2 = (n + 1) \div 2
      /\ \A m \in 1 .. n : m = n \/ (m + 1) \div 2 \in 1 .. (n + 1) \div 2 - 1
  BY <1>1, Parity
<1>3. /\ out \in Seq(0 .. 255) /\ h = (n + 1) \div 2 /\ v \in 0 .. 15
      /\ out[h] % 16 = 0
  BY <1>2 DEF PairsSoFar
<1>4. h \in Nat /\ 1 <= h
  BY <1>1, <1>2, <1>3
<1>5. out[h] \in 0 .. 255 /\ \A m \in 1 .. h : out[m] \in 0 .. 255
  <2>1. \A m \in 1 .. Len(out) : out[m] \in 0 .. 255
    BY <1>3, ElementOfSeq
  <2> QED
    BY <1>4, <2>1
<1>6. /\ out[h] + v \in 0 .. 255
      /\ (out[h] + v) \div 16 = out[h] \div 16 /\ (out[h] + v) % 16 = v
  BY <1>3, <1>5, Nibbles
<1> HIDE DEF v, n
<1>7. /\ r \in Seq(0 .. 255) /\ Len(r) = h /\ r[h] = out[h] + v
      /\ \A m \in 1 .. h - 1 : r[m] = out[m]
  <2>1. h \in 1 .. Len(out)
    BY <1>4
  <2> DEFINE e == out[h] + v
  <2>2. /\ [out EXCEPT ![h] = e] \in Seq(0 .. 255) /\ Len([out EXCEPT ![h] = e]) = Len(out)
        /\ \A m \in 1 .. Len(out) : [out EXCEPT ![h] = e][m] = IF m = h THEN e ELSE out[m]
    <3>1. e \in 0 .. 255 /\ out \in Seq(0 .. 255)
      BY <1>3, <1>6
    <3> HIDE DEF e, h
    <3> QED
      BY <2>1, <3>1, ExceptSeq
  <2>3. r = [out EXCEPT ![h] = e]
    OBVIOUS
  <2> HIDE DEF r, e
  <2>4. \A m \in 1 .. h - 1 : m \in 1 .. Len(out) /\ m # h
    BY <1>4
  <2>5. /\ r \in Seq(0 .. 255) /\ Len(r) = h /\ r[h] = e
        /\ \A m \in 1 .. h - 1 : r[m] = out[m]
    BY <2>1, <2>2, <2>3, <2>4
  <2> QED
    BY <2>5 DEF e
<1> HIDE DEF r, h
<1>8. ASSUME NEW j \in 1 .. i, in[j] \in DOMAIN HexValue
      PROVE  /\ Digits(in, j) \in 1 .. Digits(in, i)
             /\ HexValue[in[j]] = Half(r, Digits(in, j))
  <2>1. CASE j = i
    <3>1. Half(r, n + 1) = v
      BY <1>1, <1>2, <1>3, <1>6, <1>7 DEF Half
    <3> QED
      BY <1>1, <2>1, <3>1 DEF v
  <2>2. CASE j # i
    <3>1. j \in 1 .. i - 1
      BY <2>2
    <3>2. Digits(in, j) \in 1 .. n /\ HexValue[in[j]] = Half(out, Digits(in, j))
      BY <1>8, <3>1 DEF PairsSoFar, n
    <3>3. CASE Digits(in, j) = n
      <4>1. Half(r, n) = (out[h] + v) \div 16 /\ Half(out, n) = out[h] \div 16
        BY <1>2, <1>3, <1>7 DEF Half
      <4> QED
        BY <1>1, <1>6, <3>2, <3>3, <4>1
    <3>4. CASE Digits(in, j) # n
      <4>1. r[(Digits(in, j) + 1) \div 2] = out[(Digits(in, j) + 1) \div 2]
        BY <1>2, <1>3, <1>7, <3>2, <3>4
      <4> QED
        BY <1>1, <3>2, <4>1 DEF Half
    <3> QED
      BY <3>3, <3>4
  <2> QED
    BY <2>1, <2>2
<1>9. (Digits(in, i) + 1) \div 2 = h /\ Digits(in, i) % 2 = 0
  BY <1>1, <1>2, <1>3
<1>10. PairsSoFar(in, i, r)
  BY <1>7, <1>8, <1>9 DEF PairsSoFar
<1> QED
  BY <1>10 DEF r, v, h

LEMMA EachRound ==
    ASSUME NEW in \in Seq(1 .. 127), NEW i \in 0 .. Len(in)
    PROVE  Round(in, i)
<1>0. Len(in) \in Nat /\ \A j \in 1 .. Len(in) : in[j] \in 1 .. 127
  BY LenProperties, ElementOfSeq
<1> DEFINE Bad == {m \in 0 .. Len(in) : ~Round(in, m)}
<1> SUFFICES ASSUME Bad # {} PROVE FALSE
  OBVIOUS
<1>1. PICK m \in Bad : \A k \in Bad : m <= k
  <2>1. Bad \subseteq Nat
    BY <1>0
  <2> HIDE DEF Bad
  <2> QED
    BY <2>1, Least
<1>2. CASE m = 0
  <2>1. HexLoop(in)[0] = [upper |-> TRUE, out |-> <<>>]
    BY <1>0, HexLoopIs DEF HexStart
  <2>2. Digits(in, 0) = 0
    BY DigitsCount
  <2>3. PairsSoFar(in, 0, <<>>)
    BY <2>2 DEF PairsSoFar
  <2>4. (Digits(in, 0) % 2 = 0) = TRUE /\ HexLoop(in)[0].out = <<>>
    BY <2>1, <2>2
  <2>5. Round(in, 0)
    BY <2>1, <2>3, <2>4, Zenon DEF Round
  <2> QED
    BY <1>1, <1>2, <2>5
<1>3. CASE m # 0
  <2> DEFINE ch == in[m]
             out == HexLoop(in)[m - 1].out
             n == Digits(in, m - 1)
  <2>1. m \in 1 .. Len(in) /\ m \in Nat \ {0} /\ m - 1 \in 0 .. Len(in) /\ m - 1 \notin Bad
    BY <1>0, <1>1, <1>3
  <2>2. HexLoop(in)[m - 1] = [upper |-> n % 2 = 0, out |-> out] /\ PairsSoFar(in, m - 1, out)
    BY <2>1 DEF Round
  <2>3. HexLoop(in)[m] = HexStep([upper |-> n % 2 = 0, out |-> out], ch)
    BY <1>0, <2>1, <2>2, HexLoopIs
  <2>4. /\ n \in Nat
        /\ Digits(in, m) = n + (IF ch \in DOMAIN HexValue THEN 1 ELSE 0)
    <3>1. m - 1 \in Nat
      BY <2>1
    <3> QED
      BY <2>1, <3>1, DigitsCount
  <2>5. /\ ch \in DOMAIN HexValue <=> Base(ch) # 0
        /\ ch \in DOMAIN HexValue => /\ ch - Base(ch) = HexValue[ch]
                                     /\ HexValue[ch] \in 0 .. 15
    BY <1>0, <2>1, DigitValue
  <2> HIDE DEF out, n
  <2>6. CASE ch \notin DOMAIN HexValue
    <3>1. HexLoop(in)[m] = [upper |-> n % 2 = 0, out |-> out]
      BY <2>3, <2>5, <2>6 DEF HexStep
    <3>2. Digits(in, m) = n /\ \A j \in 1 .. m : in[j] \in DOMAIN HexValue => j \in 1 .. m - 1
      BY <2>1, <2>4, <2>6
    <3>3. PairsSoFar(in, m, out)
      BY <2>2, <3>2 DEF PairsSoFar, n
    <3> QED
      BY <1>1, <3>1, <3>2, <3>3 DEF Round
  <2>7. CASE ch \in DOMAIN HexValue /\ n % 2 = 0
    <3>1. HexLoop(in)[m] = [upper |-> FALSE, out |-> Append(out, HexValue[ch] * 16)]
      BY <2>3, <2>5, <2>7 DEF HexStep
    <3>2. PairsSoFar(in, m, Append(out, HexValue[ch] * 16))
      BY <2>1, <2>2, <2>5, <2>7, OpensByte DEF n
    <3>3. (Digits(in, m) % 2 = 0) = FALSE
      BY <2>4, <2>7, Parity
    <3>4. HexLoop(in)[m].out = Append(out, HexValue[ch] * 16)
      BY <3>1
    <3>5. Round(in, m)
      BY <3>1, <3>2, <3>3, <3>4, Zenon DEF Round
    <3> QED
      BY <1>1, <3>5
  <2>8. CASE ch \in DOMAIN HexValue /\ n % 2 # 0
    <3>1. HexLoop(in)[m] = [upper |-> TRUE, out |-> [out EXCEPT ![Len(out)] = @ + HexValue[ch]]]
      BY <2>3, <2>5, <2>8 DEF HexStep
    <3>2. PairsSoFar(in, m, [out EXCEPT ![Len(out)] = @ + HexValue[ch]])
      BY <2>1, <2>2, <2>5, <2>8, CompletesByte DEF n
    <3>3. (Digits(in, m) % 2 = 0) = TRUE
      BY <2>4, <2>8, Parity
    <3>4. HexLoop(in)[m].out = [out EXCEPT ![Len(out)] = @ + HexValue[ch]]
      BY <3>1
    <3>5. Round(in, m)
      BY <3>1, <3>2, <3>3, <3>4, Zenon DEF Round
    <3> QED
      BY <1>1, <3>5
  <2> QED
    BY <2>6, <2>7, <2>8
<1> QED
  BY <1>2, <1>3

(***************************************************************************)
(* hex2ints() of any text is its hex digits, in order and in pairs, the    *)
(* lower half of an odd last byte 0.                                       *)
(***************************************************************************)
THEOREM Hex2intsPairs ==
    ASSUME NEW in \in Seq(1 .. 127)
    PROVE  InPairs(in, hex2ints(in))
<1>1. Len(in) \in Nat /\ DOMAIN in = 1 .. Len(in)
  BY LenProperties
<1>2. PairsSoFar(in, Len(in), hex2ints(in))
  <2>1. Len(in) \in 0 .. Len(in)
    BY <1>1
  <2>2. Round(in, Len(in))
    BY <2>1, EachRound
  <2> QED
    BY <2>2 DEF Round, hex2ints
<1> QED
  BY <1>1, <1>2 DEF PairsSoFar, InPairs, Half

\* A command converts its data once, before its loop.
Converted == sending = NotSending \/ \E in \in HexData : \E cmd, left :
    sending = [cmd |-> cmd, data |-> in, byte_data |-> hex2ints(in), left |-> left]

(***************************************************************************)
(* What udp, ip or tcp send puts on the wire is its <hex data> in pairs,   *)
(* for any data the shell accepts.                                         *)
(***************************************************************************)
THEOREM HexPairsHolds == Spec => []HexPairs
<1>1. Init => Converted
  BY DEF Init, Converted
<1>2. Converted /\ [Next]_vars => Converted'
  <2> SUFFICES ASSUME Converted, [Next]_vars PROVE Converted'
    OBVIOUS
  <2>1. CASE UNCHANGED sending
    BY <2>1 DEF Converted
  <2>2. ASSUME NEW cmd \in Server, Sending(cmd) PROVE Converted'
    <3>1. CASE \E data \in HexData, num \in 0 .. MaxNum :
                  sending' = [cmd |-> cmd, data |-> data,
                              byte_data |-> hex2ints(data), left |-> num]
      BY <3>1 DEF Converted
    <3>2. CASE sending' = NotSending
      BY <3>2 DEF Converted
    <3>3. CASE sending.cmd = cmd /\ sending.left # 1 /\ sending' = [sending EXCEPT !.left = @ - 1]
      <4>1. CASE sending = NotSending
        BY <2>2, <3>3, <4>1 DEF NotSending, Server, Dgram
      <4>2. ASSUME NEW in \in HexData, NEW of, NEW left,
                   sending = [cmd |-> of, data |-> in, byte_data |-> hex2ints(in), left |-> left]
            PROVE  Converted'
        <5>1. sending' = [cmd |-> of, data |-> in, byte_data |-> hex2ints(in), left |-> left - 1]
          BY <3>3, <4>2
        <5> QED
          BY <5>1 DEF Converted
      <4> QED
        BY <4>1, <4>2 DEF Converted
    <3> QED
      BY <2>2, <3>1, <3>2, <3>3 DEF Sending
  <2> QED
    BY <2>1, <2>2 DEF Next, vars, UdpThread, IpThread, TcpThread, Network, udp_cmd, ip_cmd,
       tcp_cmd, udp_send, ip_send, tcp_send, udp_start_server, ip_start_server,
       tcp_start_server, StartServer, udp_server_thread, ip_server_thread, tcp_server_thread,
       CreateSock, EventInit, _udp_recv, _ip_recv, Recv, _tcp_accept, WatchSock, _tcp_recv,
       RecvNoRemote, RecvEvent, TcpOnly, PeerActs, PeerResets, Datagram, PeerConnects, PeerSends, PeerCloses, tcp_connect, tcp_disconnect, Server, Dgram
<1>3. Converted => HexPairs
  <2>1. CASE sending = NotSending
    <3>1. Digits(<<>>, 0) = 0 /\ Len(<<>>) = 0
      BY DigitsCount
    <3> QED
      BY <2>1, <3>1 DEF HexPairs, InPairs, NotSending
  <2>2. ASSUME NEW in \in HexData, sending.data = in, sending.byte_data = hex2ints(in)
        PROVE  HexPairs
    BY <2>2, LwipAssumption, Hex2intsPairs DEF HexPairs
  <2> QED
    BY <2>1, <2>2 DEF Converted
<1> QED
  BY <1>1, <1>2, <1>3, PTL DEF Spec

=============================================================================
