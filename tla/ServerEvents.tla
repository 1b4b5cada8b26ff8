----------------------------- MODULE ServerEvents -----------------------------
(***************************************************************************)
(* The CoAP server's way into the executor (examples/xbd-net,              *)
(* src/xbd/server.rs) on top of its XStream.  gcoap's thread reports each  *)
(* socket event to on_sock_evt(): an event with a message is boxed and     *)
(* added to the stream, for process_gcoap_server_stream to handle in the   *)
(* main thread; any other event is handled at once, in gcoap's thread.     *)
(* The two threads interleave freely.                                      *)
(***************************************************************************)
EXTENDS XStream

CONSTANTS
    Sock,       \* the sockets, UDP or DTLS
    FlagSets    \* the combinations of event flags that occur

Flag == {"CONN", "MSG_RECV", "MSG_SENT"}

\* What on_sock_evt() is called with; ids number the calls.
Event == [id : 1 .. MaxAdds, sock : Sock, flags : FlagSets]

\* The stream's items are events.
ASSUME ServerAssumption ==
    /\ FlagSets \subseteq SUBSET Flag
    /\ Item \subseteq Event

VARIABLES
    seen,       \* how many events were reported
    server_init_done, \* _server_init_done
    box,        \* ids of the events whose box is allocated
    misuse,     \* a box was opened that was not allocated
    handled     \* history: calls of _on_sock_udp_evt_minerva, _on_sock_dtls_evt_minerva

serverVars == <<seen, server_init_done, box, misuse, handled>>
allVars == <<vars, serverVars>>

ServerInit ==
    /\ Init
    /\ seen = 0
    /\ server_init_done = FALSE
    /\ box = {}
    /\ misuse = FALSE
    /\ handled = <<>>

----------------------------------------------------------------------------
(* gcoap's thread: on_sock_evt *)

\* An event gcoap reports; it does so between two calls of on_sock_evt().
Reported(e) ==
    /\ prod = "idle"
    /\ e.id = seen + 1
    /\ seen' = e.id

\* Faulty variants, here and below, are slips the code could have made; each
\* has to be caught by one of the properties.

\* flags & SOCK_ASYNC_MSG_RECV: into_arg_ptr and add
Defer(e) ==
    /\ Reported(e)
    /\ "MSG_RECV" \in e.flags
    /\ box' = box \cup {e.id}
    /\ add(e)
    /\ UNCHANGED <<server_init_done, misuse, handled>>

\* Faulty: every event takes the direct way, messages too
BypassAlways(e) ==
    /\ Reported(e)
    /\ handled' = Append(handled, e)
    /\ UNCHANGED <<vars, server_init_done, box, misuse>>

\* bypass_async_server: "directly process `SOCK_ASYNC_CONN_*`"
Bypass(e) ==
    /\ Reported(e)
    /\ "MSG_RECV" \notin e.flags
    /\ handled' = Append(handled, e)
    /\ UNCHANGED <<vars, server_init_done, box, misuse>>

on_sock_evt == \E e \in Item : Defer(e) \/ Bypass(e)

----------------------------------------------------------------------------
(* The main thread: process_gcoap_server_stream *)

\* The first poll: server_init(), which registers the listener, then next().
StartServer ==
    /\ ~server_init_done
    /\ server_init_done' = TRUE
    /\ Poll
    /\ UNCHANGED <<seen, box, misuse, handled>>

\* Every later poll, and the steps of poll_next()
PollServer ==
    /\ server_init_done
    /\ Poll \/ Dequeue \/ Register \/ Recheck
    /\ UNCHANGED serverVars

\* Faulty: reads through the pointer and leaves the box allocated
HandleKeepsBox ==
    LET e == got[Len(got)]
    IN  /\ BodyEnds
        /\ misuse' = (misuse \/ e.id \notin box)
        /\ handled' = Append(handled, e)
        /\ UNCHANGED <<seen, server_init_done, box>>

\* The loop's body: arg_from opens and frees the box, then the event is handled.
Handle ==
    LET e == got[Len(got)]
    IN  /\ BodyEnds
        /\ misuse' = (misuse \/ e.id \notin box)
        /\ box' = box \ {e.id}
        /\ handled' = Append(handled, e)
        /\ UNCHANGED <<seen, server_init_done>>

ServerTask == StartServer \/ PollServer \/ Handle

----------------------------------------------------------------------------
ServerNext ==
    /\ ~panicked
    /\ \/ on_sock_evt
       \/ Wake /\ UNCHANGED serverVars
       \/ ServerTask

ServerSpec == ServerInit /\ [][ServerNext]_allVars

\* The executor runs the task; gcoap's thread finishes the add() it is in.
FairServerSpec ==
    /\ ServerSpec
    /\ WF_allVars(~panicked /\ ServerTask)
    /\ WF_allVars(~panicked /\ Wake /\ UNCHANGED serverVars)

----------------------------------------------------------------------------
\* Boxes travel with their events: the ones allocated are those of the events
\* in the stream and of the one being handled, and each is opened once.
BoxesOwned ==
    /\ ~misuse
    /\ ~panicked =>
         box = {queue[i].id : i \in 1 .. Len(queue)}
               \cup (IF pc = "body" THEN {got[Len(got)].id} ELSE {})

\* Handling part of the events at once reorders a socket's events in one way
\* only: an event without a message may overtake messages that are waiting.
\* Messages keep their order, and so do the others.
OnlyMessagesOvertaken ==
    \A i, j \in 1 .. Len(handled) :
        /\ i < j
        /\ handled[i].sock = handled[j].sock
        /\ handled[i].id > handled[j].id
        => /\ "MSG_RECV" \notin handled[i].flags
           /\ "MSG_RECV" \in handled[j].flags

\* Every event reported is handled, at the latest when the main thread comes
\* to it, unless the stream overflows.
EventsHandled ==
    \A n \in 1 .. MaxAdds :
        seen >= n ~>
            \/ panicked
            \/ \E i \in 1 .. Len(handled) : handled[i].id = n
==============================================================================
