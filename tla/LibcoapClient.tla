--------------------------- MODULE LibcoapClient ---------------------------
(***************************************************************************)
(* The command libcoap of examples/xbd-net (modules/minerva_libcoap): one  *)
(* GET, from parsing its uri to cleaning up "so client can be run again".  *)
(* It runs in the thread of its caller, whom it gives nothing back to until *)
(* it ends.  libcoap is external: it calls the two handlers from within    *)
(* coap_io_process(), and reports a request that was never sent, because   *)
(* its session was not established, when the session is released.  What is *)
(* freed at the end of a call, and the PDU that is not if its options      *)
(* cannot be made, are left out: no later call reads them.                 *)
(***************************************************************************)
EXTENDS Naturals, Sequences, SequencesExt

CONSTANTS
    DEFAULT_WAIT_TIME,  \* seconds
    LeisureWait         \* DEFAULT_LEISURE of the session, plus one

ASSUME LibcoapAssumption ==
    DEFAULT_WAIT_TIME \in Nat \ {0} /\ LeisureWait \in Nat \ {0}

Target == {"self", "peer", "mcast"}

\* The calls that may fail, in order; each failure is a `goto fail`
Stages == <<"uri", "resolve", "context", "session", "pdu", "options", "add", "send">>
Stage == Range(Stages)

VARIABLES
    quit,
    is_mcast,
    wait_seconds,
    call,       \* a call in its loop: its target, the rest of wait_ms, the
                \* seconds gone, whether the request still waits for its
                \* session, and whether a handler was called for it
    multicast,  \* history: a call went to more than one
    unsent      \* history: the last call was over before its request was sent

libVars == <<quit, is_mcast, wait_seconds, call, multicast, unsent>>

NoCall == [target |-> "none", wait |-> 0, elapsed |-> 0, delayed |-> FALSE, heard |-> FALSE]

LibInit ==
    /\ quit = FALSE
    /\ is_mcast = FALSE
    /\ wait_seconds = DEFAULT_WAIT_TIME
    /\ call = NoCall
    /\ multicast = FALSE
    /\ unsent = FALSE

Idle == call = NoCall

----------------------------------------------------------------------------
\* resolve_address(): is_mcast is set if there is an address.
resolve_address(target, found) == is_mcast' = IF found THEN target = "mcast" ELSE is_mcast

\* client_coap_init() as far as its loop.  delayed: a session that has first to
\* be established (TCP, DTLS) keeps the request back.
client_coap_init(target, delayed) ==
    /\ Idle
    /\ resolve_address(target, TRUE)
    /\ wait_seconds' = IF is_mcast' THEN LeisureWait ELSE wait_seconds
    /\ call' = [target |-> target, wait |-> wait_seconds', elapsed |-> 0,
                delayed |-> delayed, heard |-> FALSE]
    /\ multicast' = (multicast \/ target = "mcast")
    /\ UNCHANGED <<quit, unsent>>

\* The same up to a failure, and the clean-up.
InitFails(target, stage) ==
    LET done(s) == \E i, j \in DOMAIN Stages : i < j /\ Stages[i] = s /\ Stages[j] = stage
    IN  /\ Idle
        /\ resolve_address(target, done("resolve"))
        /\ wait_seconds' = IF done("add") /\ is_mcast' THEN LeisureWait ELSE wait_seconds
        /\ multicast' = (multicast \/ (done("add") /\ target = "mcast"))
        /\ quit' = FALSE
        /\ unsent' = FALSE
        /\ UNCHANGED call

\* The loop goes on
Waiting == ~Idle /\ (~quit \/ is_mcast)

\* The last of the response's data arrived; other responses, without data too,
\* change nothing.
message_handler ==
    /\ Waiting /\ ~call.delayed
    /\ quit' = TRUE
    /\ call' = [call EXCEPT !.heard = TRUE]
    /\ UNCHANGED <<is_mcast, wait_seconds, multicast, unsent>>

nack_handler ==
    /\ Waiting
    /\ quit' = TRUE
    /\ call' = [target |-> call.target, wait |-> call.wait, elapsed |-> call.elapsed,
                delayed |-> FALSE, heard |-> TRUE]
    /\ UNCHANGED <<is_mcast, wait_seconds, multicast, unsent>>

\* libcoap establishes the session and sends what waits for it
Established ==
    /\ Waiting /\ call.delayed
    /\ call' = [call EXCEPT !.delayed = FALSE]
    /\ UNCHANGED <<quit, is_mcast, wait_seconds, multicast, unsent>>

\* coap_io_process() returns after a second
Tick ==
    /\ Waiting /\ call.wait > 1
    /\ call' = [target |-> call.target, wait |-> call.wait - 1, elapsed |-> call.elapsed + 1,
                delayed |-> call.delayed, heard |-> call.heard]
    /\ UNCHANGED <<quit, is_mcast, wait_seconds, multicast, unsent>>

\* Faulty variants are slips the code could have made; each has to be caught
\* by one of the properties.

\* Faulty: quit is left as it is
CleanUpKeepsQuit ==
    /\ ~Idle /\ (~Waiting \/ call.wait <= 1)
    /\ call' = NoCall
    /\ unsent' = call.delayed
    /\ UNCHANGED <<quit, is_mcast, wait_seconds, multicast>>

\* The loop ends, by quit or by timeout, and all is cleaned up: quit first,
\* then the session, whose release may report a CON that was never sent.
CleanUp ==
    /\ ~Idle /\ (~Waiting \/ call.wait <= 1)
    /\ quit' = (call.delayed /\ ~is_mcast)
    /\ call' = NoCall
    /\ unsent' = call.delayed
    /\ UNCHANGED <<is_mcast, wait_seconds, multicast>>

----------------------------------------------------------------------------
\* "So client can be run again": a call for which no handler was called yet
\* still waits, and has the whole of its time, whatever became of the calls
\* before it; with two exceptions.  If the last call was over before its
\* request was sent, the release of its session may have set quit again, and
\* this call ends before it waits.  After a multicast every call has the
\* leisure time instead of DEFAULT_WAIT_TIME.
AwaitsAnswer ==
    ~Idle /\ ~call.heard =>
        /\ Waiting \/ unsent
        /\ call.wait + call.elapsed = IF multicast THEN LeisureWait ELSE DEFAULT_WAIT_TIME
=============================================================================
