--------------------------- MODULE NativeSockets ---------------------------
(***************************************************************************)
(* The command udp of examples/native-sockets: one server thread on POSIX  *)
(* sockets, whose socket's number is also the flag that it runs, and a     *)
(* sender.  The thread is of higher priority than the shell, so it runs up *)
(* to its recvfrom() as soon as it is created, and receives while a send   *)
(* command sleeps between its rounds.                                      *)
(***************************************************************************)
EXTENDS Integers, Sequences, FiniteSets, FiniteSetsExt

CONSTANTS
    Fd,                 \* the descriptors that RIOT's vfs has for sockets
    SERVER_BUFFER_SIZE,
    MaxReceived,        \* bound on the datagrams received
    MaxNum              \* bound on <num>

ASSUME NativeAssumption ==
    /\ Fd \subseteq Nat \ {0, 1, 2}
    /\ SERVER_BUFFER_SIZE \in Nat \ {0}
    /\ MaxReceived \in Nat /\ MaxNum \in Nat

NUL == 0

VARIABLES
    server_socket,
    thread,         \* whether the server thread is in its loop
    clobbered,      \* a thread was created on the stack of one that runs
    server_buffer,  \* the bytes of the n-th datagram are n's and NULs
    open,           \* descriptors in use
    sender,         \* the socket of a send command, its rounds left
    printed,        \* what puts(server_buffer) printed last
    received,       \* history: the datagrams received, where they hold NUL
    failed          \* history: how starts of the server failed

vars == <<server_socket, thread, clobbered, server_buffer, open, sender,
          printed, received, failed>>

Init ==
    /\ server_socket = -1
    /\ thread = FALSE
    /\ clobbered = FALSE
    /\ server_buffer = [i \in 1 .. SERVER_BUFFER_SIZE |-> NUL]
    /\ open = {}
    /\ sender = [fd |-> -1, left |-> 0]
    /\ printed = [bytes |-> <<>>, past |-> FALSE]
    /\ received = <<>>
    /\ failed = <<>>

\* socket(): any free descriptor, or -1
socket == IF Fd \ open = {} THEN {-1} ELSE Fd \ open

ShellRuns == sender.fd = -1

----------------------------------------------------------------------------
\* The thread up to its loop.  The socket is created before the port is looked
\* at, and is closed on none of the ways out.
_server_thread(s) ==
    /\ open' = open \cup ({s} \ {-1})
    /\ \/ \* port == 0
          /\ server_socket' = s
          /\ failed' = Append(failed, IF s = -1 THEN "nosocket, -1" ELSE "port")
          /\ UNCHANGED thread
       \/ /\ s = -1
          /\ server_socket' = 0
          /\ failed' = Append(failed, "nosocket, 0")
          /\ UNCHANGED thread
       \/ \* bind() fails
          /\ s # -1
          /\ server_socket' = -1
          /\ failed' = Append(failed, "bind")
          /\ UNCHANGED thread
       \/ /\ s # -1
          /\ server_socket' = s
          /\ thread' = TRUE
          /\ UNCHANGED failed

\* Faulty variants, here and below, are slips the code could have made; each
\* has to be caught by one of the properties.

\* Faulty: the flag stays at -1 while the thread runs
StartUnflagged ==
    /\ ShellRuns
    /\ Len(failed) < Cardinality(Fd) + 1
    /\ server_socket < 0
    /\ clobbered' = thread
    /\ \E s \in Fd \ open :
          open' = open \cup {s} /\ thread' = TRUE
    /\ UNCHANGED <<server_socket, server_buffer, sender, printed, received, failed>>

\* Refused if server_socket >= 0; if no thread can be created it stays at -1.
\* The bound on failed starts is one more than there are descriptors.
udp_start_server ==
    /\ ShellRuns
    /\ Len(failed) < Cardinality(Fd) + 1
    /\ server_socket < 0
    /\ clobbered' = thread
    /\ \E s \in socket : _server_thread(s)
    /\ UNCHANGED <<server_buffer, sender, printed, received>>

\* puts(): up to the first NUL.  Without one it reads on past the buffer, and
\* what follows there is not known.
Printed(b) ==
    LET nul == {i \in DOMAIN b : b[i] = NUL}
    IN  IF nul = {} THEN [bytes |-> b, past |-> TRUE]
                    ELSE [bytes |-> SubSeq(b, 1, Min(nul) - 1), past |-> FALSE]

\* A datagram that fits the buffer, of any bytes
Datagram == {d \in [len : 1 .. SERVER_BUFFER_SIZE, zeros : SUBSET (1 .. SERVER_BUFFER_SIZE)] :
                d.zeros \subseteq 1 .. d.len}

\* recvfrom() of the datagram d, the n-th
Stored(d, n, b) ==
    [i \in 1 .. SERVER_BUFFER_SIZE |->
        IF i \in d.zeros THEN NUL ELSE IF i <= d.len THEN n ELSE b[i]]

\* Faulty: the buffer is cleared before each datagram
ReceiveClears(d) ==
    LET n == Len(received) + 1
        b == Stored(d, n, [i \in 1 .. SERVER_BUFFER_SIZE |-> NUL])
    IN  /\ thread
        /\ n <= MaxReceived
        /\ server_buffer' = b
        /\ printed' = Printed(b)
        /\ received' = Append(received, d)
        /\ UNCHANGED <<server_socket, thread, clobbered, open, sender, failed>>

\* The loop, for a datagram d; an error and an empty datagram are reported and
\* change nothing.
Receive(d) ==
    LET n == Len(received) + 1
        b == Stored(d, n, server_buffer)
    IN  /\ thread
        /\ n <= MaxReceived
        /\ server_buffer' = b
        /\ printed' = Printed(b)
        /\ received' = Append(received, d)
        /\ UNCHANGED <<server_socket, thread, clobbered, open, sender, failed>>

----------------------------------------------------------------------------
\* An address that cannot be parsed and a socket() that fails end the command
\* at once.
SendStart ==
    /\ ShellRuns
    /\ \E s \in socket \ {-1}, num \in 0 .. MaxNum :
          /\ sender' = [fd |-> s, left |-> num]
          /\ open' = open \cup {s}
    /\ UNCHANGED <<server_socket, thread, clobbered, server_buffer, printed, received, failed>>

\* sendto() and usleep(); a failure is printed
SendRound ==
    /\ sender.left > 0
    /\ sender' = [sender EXCEPT !.left = @ - 1]
    /\ UNCHANGED <<server_socket, thread, clobbered, server_buffer, open, printed, received, failed>>

\* Faulty: returns without close(s)
SendEndLeaks ==
    /\ ~ShellRuns /\ sender.left = 0
    /\ sender' = [fd |-> -1, left |-> 0]
    /\ UNCHANGED <<server_socket, thread, clobbered, server_buffer, open, printed, received, failed>>

SendEnd ==
    /\ ~ShellRuns /\ sender.left = 0
    /\ open' = open \ {sender.fd}
    /\ sender' = [fd |-> -1, left |-> 0]
    /\ UNCHANGED <<server_socket, thread, clobbered, server_buffer, printed, received, failed>>

udp_send == SendStart \/ SendRound \/ SendEnd

udp_cmd == udp_send \/ udp_start_server

Next == ~clobbered /\ (udp_cmd \/ \E d \in Datagram : Receive(d))

Spec == Init /\ [][Next]_vars

----------------------------------------------------------------------------
\* server_socket does for a flag: as long as the thread runs it is the thread's
\* own open socket, so that no second thread is put on its stack.  A start that
\* is refused with no thread running comes after one whose port was invalid or
\* that got no socket.
OneServer ==
    /\ ~clobbered
    /\ thread => server_socket \in open /\ server_socket # sender.fd
    /\ server_socket >= 0 /\ ~thread =>
           \E i \in DOMAIN failed : failed[i] \in {"port", "nosocket, 0"}

\* Descriptors are held by the server, by the command that sends, or were left
\* open by starts that failed; a send gives its own back.
FdsAccounted ==
    Cardinality(open) =
        (IF thread THEN 1 ELSE 0) + (IF ShellRuns THEN 0 ELSE 1)
        + Cardinality({i \in DOMAIN failed : failed[i] \in {"port", "bind"}})

\* The last datagram that reached the byte i, 0 if none did
LastToReach(i) == Max({0} \cup {n \in DOMAIN received : received[n].len >= i})

\* That datagram left a character there
IsText(i) == LastToReach(i) # 0 /\ i \notin received[LastToReach(i)].zeros

\* A datagram is printed with the tails of longer ones before it: each byte
\* printed is a character of the last datagram that reached it, up to the first
\* byte where that one had a NUL or that none reached.  puts() reads past the
\* buffer exactly if there is no such byte.
PrintedTail ==
    received # <<>> =>
        /\ \A i \in DOMAIN printed.bytes :
               IsText(i) /\ printed.bytes[i] = LastToReach(i)
        /\ IF printed.past
           THEN Len(printed.bytes) = SERVER_BUFFER_SIZE
           ELSE /\ Len(printed.bytes) < SERVER_BUFFER_SIZE
                /\ ~IsText(Len(printed.bytes) + 1)
=============================================================================
