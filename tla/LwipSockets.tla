---------------------------- MODULE LwipSockets ----------------------------
(***************************************************************************)
(* The shell commands udp, ip and tcp of examples/native-lwip: a server    *)
(* thread each, driven by socket events, and senders in the shell.  The    *)
(* network (lwIP's thread) preempts everybody; a server thread preempts    *)
(* the shell, which therefore never runs while one is starting.  RIOT's    *)
(* socket events are external: an event that is queued already is not      *)
(* queued again, its flags are merged.                                     *)
(***************************************************************************)
EXTENDS Naturals, Sequences, SequencesExt, FiniteSets

CONSTANTS
    Conn,       \* the TCP connections that peers make to the server
    None,       \* no connection
    HexData,    \* the <hex data> that commands are given, as character codes
    RecvMbox,   \* datagrams that lwIP keeps for a socket
    MaxInputs,  \* bound on what the network delivers
    MaxNum      \* bound on <num>, how often a command sends

ASSUME LwipAssumption ==
    /\ None \notin Conn
    /\ \A in \in HexData : in \in Seq(1 .. 127)
    /\ RecvMbox \in Nat /\ MaxInputs \in Nat /\ MaxNum \in Nat

Dgram == {"udp", "ip"}
Server == Dgram \cup {"tcp"}

VARIABLES
    pc,             \* of each server thread: none, create, register or loop
    server_running, \* of each file
    clobbered,      \* a thread was created on the stack of one that runs
    evt,            \* servers whose socket, or queue, has an event queued that
                    \* says so; a handler passes over other flags
    dg,             \* of udp and ip: datagrams in mbox; missed (history), how
                    \* many came without queueing an event of their own
    conn,           \* what each peer did: none, open, fin or rst; its unread
                    \* data; early and silent (history), how much of that, and
                    \* whether its fin, came without queueing an event
    tcp,            \* server_queue and server_sock, see Init
    sending,        \* the command that sends, what, and how often it still will
    client,         \* client_running; connections client_sock had and lost
    inputs          \* how much the network delivered

vars == <<pc, server_running, clobbered, evt, dg, conn, tcp, sending, client, inputs>>

NotSending == [cmd |-> "none", data |-> <<>>, byte_data |-> <<>>, left |-> 0]

Init ==
    /\ pc = [k \in Server |-> "none"]
    /\ server_running = [k \in Server |-> FALSE]
    /\ clobbered = FALSE
    /\ evt = {}
    /\ dg = [k \in Dgram |-> [mbox |-> 0, missed |-> 0]]
    /\ conn = [c \in Conn |-> [st |-> "none", rx |-> 0, early |-> 0, silent |-> FALSE]]
    /\ tcp = [backlog |-> <<>>,     \* connections waiting in server_queue
              unasked |-> 0,        \* history: those no accept is due for
              slot |-> None,        \* the connection of its only sock
              watched |-> FALSE,    \* sock_tcp_event_init() was called for it
              flags |-> {}]         \* of its queued event
    /\ sending = NotSending
    /\ client = [running |-> FALSE, open |-> 0]
    /\ inputs = 0

----------------------------------------------------------------------------
(* hex2ints() over character codes *)

\* The code's c, what is subtracted from a hex digit; 0 for any other character
Base(ch) == CASE ch \in 48 .. 57  -> 48
              [] ch \in 97 .. 102 -> 97 - 10
              [] ch \in 65 .. 70  -> 65 - 10
              [] OTHER -> 0

\* One round of the loop: a digit opens a byte or completes the last one.
HexStep(acc, ch) ==
    LET digit == ch - Base(ch)
    IN  IF Base(ch) = 0 THEN acc
        ELSE IF acc.upper
        THEN [upper |-> FALSE, out |-> Append(acc.out, digit * 16)]
        ELSE [upper |-> TRUE, out |-> [acc.out EXCEPT ![Len(acc.out)] = @ + digit]]

\* The loop: upper and what was written, after each character
HexLoop(in) ==
    LET loop[i \in 0 .. Len(in)] ==
            IF i = 0 THEN [upper |-> TRUE, out |-> <<>>] ELSE HexStep(loop[i - 1], in[i])
    IN  loop

\* Faulty variants, here and below, are slips the code could have made; each
\* has to be caught by one of the properties.

\* Faulty: a digit that has no partner is not counted
HexDropsOdd(in) ==
    LET r == HexLoop(in)[Len(in)]
    IN  IF r.upper THEN r.out ELSE Front(r.out)

hex2ints(in) == HexLoop(in)[Len(in)].out

----------------------------------------------------------------------------
(* The server threads *)

\* The shell runs: no command is sending, no thread is starting.
ShellRuns ==
    /\ sending.cmd = "none"
    /\ \A k \in Server : pc[k] \in {"none", "loop"}

\* thread_create() without a look at server_running: on the stack of a thread
\* that runs, whatever follows is undefined.  A failure changes nothing.
StartServer(k) ==
    /\ ShellRuns
    /\ IF pc[k] = "none"
       THEN pc' = [pc EXCEPT ![k] = "create"] /\ UNCHANGED clobbered
       ELSE clobbered' = TRUE /\ UNCHANGED pc
    /\ UNCHANGED <<server_running, evt, dg, conn, tcp, sending, client, inputs>>

udp_start_server == StartServer("udp")
ip_start_server == StartServer("ip")
tcp_start_server == StartServer("tcp")

\* The thread creates its socket, which receives from now on, or ends.
CreateSock(k) ==
    /\ pc[k] = "create"
    /\ \/ pc' = [pc EXCEPT ![k] = "none"] /\ UNCHANGED server_running
       \/ /\ pc' = [pc EXCEPT ![k] = "register"]
          /\ server_running' = [server_running EXCEPT ![k] = TRUE]
    /\ UNCHANGED <<clobbered, evt, dg, conn, tcp, sending, client, inputs>>

\* event_queue_init(), event_init(), and into event_loop()
EventInit(k) ==
    /\ pc[k] = "register"
    /\ pc' = [pc EXCEPT ![k] = "loop"]
    /\ UNCHANGED <<server_running, clobbered, evt, dg, conn, tcp, sending, client, inputs>>

udp_server_thread == CreateSock("udp") \/ EventInit("udp")
ip_server_thread == CreateSock("ip") \/ EventInit("ip")
tcp_server_thread == CreateSock("tcp") \/ EventInit("tcp")

\* The event loop runs the handler of a queued event of k's socket or queue.
Handling(k) == pc[k] = "loop" /\ k \in evt /\ evt' = evt \ {k}

\* A receive handler: one sock_*_recv() for one event.  Nothing to read, a
\* result of 0 and an error are reported and change nothing.
Recv(k) ==
    /\ Handling(k)
    /\ dg' = [dg EXCEPT ![k].mbox = IF @ > 0 THEN @ - 1 ELSE 0]
    /\ UNCHANGED <<pc, server_running, clobbered, conn, tcp, sending, client, inputs>>

_udp_recv == Recv("udp")

\* Faulty: the handler returns before it reads
IpRecvNothing ==
    /\ Handling("ip")
    /\ UNCHANGED <<pc, server_running, clobbered, dg, conn, tcp, sending, client, inputs>>

_ip_recv == Recv("ip")

\* What only the connections to the server, or their sock, take part in
TcpOnly == UNCHANGED <<pc, server_running, clobbered, dg, sending, client>>

\* Accepts one connection, if the queue's only sock is free and one waits, also
\* if its peer is gone by now; otherwise an error is printed, and the
\* connection waits on.
_tcp_accept ==
    /\ Handling("tcp")
    /\ tcp.slot = None \/ tcp.watched
    /\ tcp' = IF tcp.backlog = <<>> THEN tcp
              ELSE IF tcp.slot # None THEN [tcp EXCEPT !.unasked = @ + 1]
              ELSE [tcp EXCEPT !.slot = Head(tcp.backlog), !.backlog = Tail(@), !.watched = FALSE]
    /\ UNCHANGED <<conn, inputs>> /\ TcpOnly

\* The rest of the handler: sock_tcp_event_init() for the new connection
WatchSock ==
    /\ tcp.slot # None /\ ~tcp.watched
    /\ tcp' = [tcp EXCEPT !.watched = TRUE]
    /\ UNCHANGED <<evt, conn, inputs>> /\ TcpOnly

\* The early return: a connection that was reset has no remote any more.  What
\* the event told of, its end too, is not told again.
RecvNoRemote ==
    /\ tcp.flags # {}
    /\ conn[tcp.slot].st = "rst"
    /\ tcp' = [tcp EXCEPT !.flags = {}]
    /\ UNCHANGED <<conn, evt, inputs>> /\ TcpOnly

\* Reads till nothing is left, if the event tells of data
ReadAll ==
    conn' = IF "MSG_RECV" \in tcp.flags
            THEN [conn EXCEPT ![tcp.slot].rx = 0, ![tcp.slot].early = 0] ELSE conn

\* Disconnects, which frees the sock, if the event tells that the peer did
Disconnected(t) == IF "CONN_FIN" \in t.flags THEN [t EXCEPT !.slot = None, !.watched = FALSE] ELSE t

\* Faulty: `else if` for the second test, an event that tells both only reads
RecvElseFin ==
    /\ tcp.flags # {} /\ conn[tcp.slot].st # "rst"
    /\ ReadAll
    /\ tcp' = [(IF "MSG_RECV" \in tcp.flags THEN tcp ELSE Disconnected(tcp)) EXCEPT !.flags = {}]
    /\ UNCHANGED <<evt, inputs>> /\ TcpOnly

\* Faulty: `if` where the code has `while`, one read for one event
RecvOnce ==
    /\ tcp.flags # {} /\ conn[tcp.slot].st # "rst"
    /\ conn' = [conn EXCEPT ![tcp.slot].rx = IF @ > 0 THEN @ - 1 ELSE 0, ![tcp.slot].early = 0]
    /\ tcp' = [Disconnected(tcp) EXCEPT !.flags = {}]
    /\ UNCHANGED <<evt, inputs>> /\ TcpOnly

RecvEvent ==
    /\ tcp.flags # {} /\ conn[tcp.slot].st # "rst"
    /\ ReadAll
    /\ tcp' = [Disconnected(tcp) EXCEPT !.flags = {}]
    /\ UNCHANGED <<evt, inputs>> /\ TcpOnly

_tcp_recv == RecvNoRemote \/ RecvEvent

----------------------------------------------------------------------------
(* The network, in lwIP's thread *)

\* Something is kept for k's socket, which queues an event if it is watched.
Deliver(k) ==
    /\ inputs < MaxInputs
    /\ inputs' = inputs + 1
    /\ pc[k] \in {"register", "loop"}
    /\ evt' = IF pc[k] = "loop" THEN evt \cup {k} ELSE evt

\* 1 if that does not make the event queue longer
Unnoticed(k) == IF k \in evt \/ pc[k] = "register" THEN 1 ELSE 0

\* lwIP drops a datagram, without an event, if it has no room for it: nothing
\* changes then.
Datagram(k) ==
    /\ Deliver(k)
    /\ dg[k].mbox < RecvMbox
    /\ dg' = [dg EXCEPT ![k].mbox = @ + 1, ![k].missed = @ + Unnoticed(k)]
    /\ UNCHANGED <<pc, server_running, clobbered, conn, tcp, sending, client>>

\* A peer connects, lwIP completes the handshake.
PeerConnects(c) ==
    /\ Deliver("tcp")
    /\ conn[c].st = "none"
    /\ conn' = [conn EXCEPT ![c].st = "open"]
    /\ tcp' = [tcp EXCEPT !.backlog = Append(@, c), !.unasked = @ + Unnoticed("tcp")]
    /\ TcpOnly

\* What happens to a connection is an event of server_sock, if it is watched.
Watched(c) == tcp.slot = c /\ tcp.watched

Tell(c, flag) == tcp' = IF Watched(c) THEN [tcp EXCEPT !.flags = @ \cup {flag}] ELSE tcp

PeerActs == inputs < MaxInputs /\ inputs' = inputs + 1 /\ UNCHANGED evt /\ TcpOnly

PeerSends(c) ==
    /\ PeerActs
    /\ conn[c].st = "open"
    /\ conn' = [conn EXCEPT ![c] = [st |-> "open", rx |-> @.rx + 1,
                                    early |-> IF Watched(c) THEN @.early ELSE @.early + 1,
                                    silent |-> @.silent]]
    /\ Tell(c, "MSG_RECV")

PeerCloses(c) ==
    /\ PeerActs
    /\ conn[c].st = "open"
    /\ conn' = [conn EXCEPT ![c] = [st |-> "fin", rx |-> @.rx, early |-> @.early,
                                    silent |-> ~Watched(c)]]
    /\ Tell(c, "CONN_FIN")

\* A peer, or lwIP giving up on it, ends the connection at once, also after a
\* FIN that the server has not answered.
PeerResets(c) ==
    /\ PeerActs
    /\ conn[c].st \in {"open", "fin"}
    /\ conn' = [conn EXCEPT ![c].st = "rst"]
    /\ Tell(c, "CONN_FIN")

----------------------------------------------------------------------------
(* The senders, in the shell *)

ShellOnly == UNCHANGED <<pc, server_running, clobbered, evt, dg, conn, tcp, inputs>>

\* The loop of a send command: <num> rounds, over server_sock if there is one
\* (tcp: over client_sock), each a success or a message.  An address or a port
\* that cannot be parsed ends the command before the loop.
Sending(cmd) ==
    /\ \/ /\ ShellRuns
          /\ \E data \in HexData, num \in 0 .. MaxNum :
                sending' = IF num = 0 THEN NotSending
                           ELSE [cmd |-> cmd, data |-> data,
                                 byte_data |-> hex2ints(data), left |-> num]
       \/ /\ sending.cmd = cmd
          /\ sending' = IF sending.left = 1 THEN NotSending
                        ELSE [sending EXCEPT !.left = @ - 1]
    /\ UNCHANGED client /\ ShellOnly

udp_send == Sending("udp")
ip_send == Sending("ip")
tcp_send == Sending("tcp")

\* Refused while client_running; a connection that fails leaves all as it was.
tcp_connect ==
    /\ ShellRuns
    /\ ~client.running
    /\ client' = [running |-> TRUE, open |-> client.open + 1]
    /\ UNCHANGED sending /\ ShellOnly

\* Frees what client_sock holds, if anything.
tcp_disconnect ==
    /\ ShellRuns
    /\ client' = [running |-> FALSE, open |-> IF client.open > 0 THEN client.open - 1 ELSE 0]
    /\ UNCHANGED sending /\ ShellOnly

udp_cmd == udp_send \/ udp_start_server
ip_cmd == ip_send \/ ip_start_server
tcp_cmd == tcp_connect \/ tcp_disconnect \/ tcp_send \/ tcp_start_server

----------------------------------------------------------------------------
UdpThread == udp_server_thread \/ _udp_recv
IpThread == ip_server_thread \/ _ip_recv
TcpThread == tcp_server_thread \/ _tcp_accept \/ WatchSock \/ _tcp_recv

Network ==
    \/ \E k \in Dgram : Datagram(k)
    \/ \E c \in Conn : PeerConnects(c) \/ PeerSends(c) \/ PeerCloses(c) \/ PeerResets(c)

Next ==
    /\ ~clobbered
    /\ UdpThread \/ IpThread \/ TcpThread \/ Network \/ udp_cmd \/ ip_cmd \/ tcp_cmd

Spec == Init /\ [][Next]_vars

\* Server threads are of higher priority than the shell and wait for nothing but
\* their events, which leave their queue in the order they came.
FairSpec ==
    /\ Spec
    /\ WF_vars(~clobbered /\ (UdpThread \/ IpThread))
    /\ WF_vars(~clobbered /\ (tcp_server_thread \/ WatchSock))
    /\ WF_vars(~clobbered /\ _tcp_accept)
    /\ WF_vars(~clobbered /\ _tcp_recv)

----------------------------------------------------------------------------
\* A handler reads one datagram per event, while arrivals that find an event
\* queued, or come before the socket is watched, queue none.  What waits in a
\* server's socket is exactly those, and the one whose event is queued: of what
\* lwIP kept nothing is lost, but nothing ever catches up with them either, and
\* when they fill its mailbox the server hears nothing any more.
ServedPerEvent ==
    \A k \in Dgram : dg[k].mbox = dg[k].missed + (IF k \in evt THEN 1 ELSE 0)

\* Connections that wait for an accept nobody is going to make came unnoticed or
\* were refused while the only sock was in use; data that waits without an event
\* came before the connection was watched, unless it was reset.
NoneOverlooked ==
    /\ Len(tcp.backlog) = tcp.unasked + (IF "tcp" \in evt THEN 1 ELSE 0)
    /\ tcp.slot # None /\ conn[tcp.slot].st # "rst" /\ "MSG_RECV" \notin tcp.flags =>
          conn[tcp.slot].rx = conn[tcp.slot].early

\* The FIN of the accepted connection is in the flags of the queued event, unless
\* it came before that connection was watched.
FinNoticed ==
    tcp.slot # None /\ conn[tcp.slot].st = "fin" =>
        "CONN_FIN" \in tcp.flags \/ conn[tcp.slot].silent

\* The sock of a TCP client is taken for one connection at a time.  What waits at
\* the server, connections, data or a FIN, has an event on its way or is known
\* to have come without one.
TcpAccounted ==
    /\ client.open = (IF client.running THEN 1 ELSE 0)
    /\ NoneOverlooked
    /\ FinNoticed

\* The only sock of the server comes free again after its peer closed, with two
\* exceptions: a peer that closed before sock_tcp_event_init(), also one that
\* was still waiting to be accepted, and one whose connection is reset before
\* the handler runs, which returns early.  Then no event comes any more, and the
\* server never accepts again.
SlotFreed ==
    \A c \in Conn :
        tcp.slot = c /\ conn[c].st = "fin" ~>
            tcp.slot # c \/ conn[c].silent \/ conn[c].st = "rst" \/ clobbered

\* What is sent is the data as common.h has it: what is not a hex digit is
\* ignored, the others are by turns the upper and the lower half of a byte, and
\* the lower half that a last one alone leaves is 0 (the test sends affe:abe and
\* expects AF FE AB E0).
HexValue == [ch \in (48 .. 57) \cup (65 .. 70) \cup (97 .. 102) |->
                IF ch < 58 THEN ch - 48 ELSE IF ch < 71 THEN ch - 55 ELSE ch - 87]

\* How many of the first i characters are hex digits
Digits(in, i) == Cardinality({j \in 1 .. i : in[j] \in DOMAIN HexValue})

InPairs(in, out) ==
    /\ out \in Seq(0 .. 255)
    /\ Len(out) = (Digits(in, Len(in)) + 1) \div 2
    /\ \A i \in DOMAIN in : in[i] \in DOMAIN HexValue =>
          LET n == Digits(in, i)
              byte == out[(n + 1) \div 2]
          IN  HexValue[in[i]] = IF n % 2 = 1 THEN byte \div 16 ELSE byte % 16
    /\ Digits(in, Len(in)) % 2 = 1 => out[Len(out)] % 16 = 0

HexPairs == InPairs(sending.data, sending.byte_data)
=============================================================================
