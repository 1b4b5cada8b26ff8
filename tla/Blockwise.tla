------------------------------ MODULE Blockwise ------------------------------
(***************************************************************************)
(* The blockwise client of examples/xbd-net: the table of transfer states  *)
(* and their streams (src/xbd/blockwise.rs), the request future            *)
(* (src/xbd/gcoap.rs: ReqInner, FutureState) and the response handler      *)
(* (modules/minerva_xbd/gcoap.c), driven by client tasks written as        *)
(*                                                                         *)
(*     let mut bs = gcoap_get_blockwise(addr, uri)?;                       *)
(*     while let Some(req) = bs.next().await { match req.await {...} }     *)
(*                                                                         *)
(* that may also hold requests, hold several streams and close() them, as  *)
(* test_blockwise (src/lib.rs) does.  gcoap itself is external: it answers *)
(* each request it accepted once, by a response or by a timeout.           *)
(*                                                                         *)
(* Every action is one uninterrupted run of the main thread (from one      *)
(* await to the next), or one run of the response handler.  That a task    *)
(* whose stream or request became ready is polled again is XStream's       *)
(* subject, not this module's.                                             *)
(***************************************************************************)
EXTENDS Naturals, Sequences, FiniteSets, FiniteSetsExt

CONSTANTS
    Transfer,             \* one member per stream a client opens; also its uri
    Task,                 \* the embassy tasks that run clients
    TaskOf,               \* the task each transfer belongs to
    BLOCKWISE_STATES_MAX, \* how many transfer states there are
    LastBlock,            \* number of the last block of every resource (a bound)
    REQ_URI_MAX,          \* room for a uri; an address has as much (REQ_ADDR_MAX)
    BLOCKWISE_HDR_MAX,    \* room for the header of a request
    UriLen,               \* length of the longer of a transfer's address and uri
    HdrLen,               \* length of the header of the request for each block
    Liberties,            \* what clients and the network may do, see below
    None                  \* Rust's None

(***************************************************************************)
(* Liberties a run grants:                                                 *)
(*  "overlap"      a request may be polled while another is in flight      *)
(*  "reuse"        a stream may be opened while a handle whose state is    *)
(*                 already freed (closed or complete) is still in use      *)
(*  "send_fails"   gcoap may refuse to send a request                      *)
(***************************************************************************)
ASSUME BlockwiseAssumption ==
    /\ TaskOf \in [Transfer -> Task]
    /\ BLOCKWISE_STATES_MAX \in Nat \ {0}
    /\ LastBlock \in Nat
    /\ REQ_URI_MAX \in Nat
    /\ BLOCKWISE_HDR_MAX \in Nat
    /\ Liberties \subseteq {"overlap", "reuse", "send_fails"}
    /\ None \notin Transfer

VARIABLES
    states,     \* BLOCKWISE_STATES: None, or the uri and header last used; a
                \* header names the resource and the block it asks for
    sd,         \* BLOCKWISE_SD: the queue of each state's stream
    last,       \* BLOCKWISE_STATE_INDEX
    handle,     \* each client's BlockwiseStream
    index,      \* BlockwiseStream.idx
    held,       \* the Req the client took from its stream (of ReqInner: the
                \* index, uri and header a blockwise GET uses), or None
    fstat,      \* FutureState of that Req: "none", "New", "Registered", "Resolved"
    ret,        \* what it was resolved with: the block received, or None
    out,        \* what the client's last request came to
    got,        \* history: the blocks each client received
    memos,      \* requests gcoap has not answered yet: the FutureState each
                \* answer goes to, and the message that was sent
    panic       \* None, or which check of the code failed

vars == <<states, sd, last, handle, index, held, fstat, ret, out, got, memos, panic>>

Slot == 0 .. BLOCKWISE_STATES_MAX - 1

\* A message, as a header or as a response names it: a resource and a block
Block == (Transfer \cup {None}) \X (0 .. LastBlock)

\* BlockwiseState
TransferState == [uri : Transfer \cup {None}, hdr : Block \cup {None}]

\* ReqInner: blockwise_state_index, uri, blockwise_hdr
Req == [idx : Slot, uri : Transfer \cup {None}, hdr : Block \cup {None}]

\* What is too long for its buffer: refused by String::try_from() when the
\* request is made, by the assertion of update_metadata() when it is polled,
\* by Vec::from_slice() when the handler keeps a header.
LengthCheck == {"new: uri unwrap", "update: assert len", "next: hdr unwrap"}

\* The checks of the code, unwraps and assertions, that depend on more than
\* one line.  Those that do not cannot fail: from_utf8() is given bytes of a
\* &str up to a NUL, a blockwise request has its index and addr_uri, gcoap's
\* buffer is not longer than PAYLOAD_OUT_MAX.
Check == LengthCheck \cup
         {"handler: index unwrap", "handler: state unwrap",
          "add: assert len 0", "close: state unwrap"}

\* None is no Some(_), and no failed check.
ASSUME NoneAssumption ==
    /\ None \notin Slot
    /\ None \notin Block
    /\ None \notin TransferState
    /\ None \notin Req
    /\ None \notin Check

\* A state that was cleared has no uri.
ASSUME LengthAssumption ==
    /\ UriLen \in [Transfer \cup {None} -> Nat]
    /\ HdrLen \in [Block -> Nat]

Init ==
    /\ states = [i \in Slot |-> None]
    /\ sd = [i \in Slot |-> <<>>]
    /\ last = None
    /\ handle = [t \in Transfer |-> "new"]
    /\ index = [t \in Transfer |-> None]
    /\ held = [t \in Transfer |-> None]
    /\ fstat = [t \in Transfer |-> "none"]
    /\ ret = [t \in Transfer |-> None]
    /\ out = [t \in Transfer |-> "none"]
    /\ got = [t \in Transfer |-> <<>>]
    /\ memos = {}
    /\ panic = None

----------------------------------------------------------------------------
(* Helpers *)

\* A task that awaits a request does nothing else.
Awaiting(t) == fstat[t] \in {"Registered", "Resolved"}
TaskFree(t) == \A u \in Transfer : TaskOf[u] = TaskOf[t] => ~Awaiting(u)

\* The handle's state has been freed: by close(), or because it completed.
Freed(t) ==
    /\ handle[t] \in {"open", "closed"}
    /\ states[index[t]] = None \/ handle[t] = "closed"

\* BlockwiseState::get, as stored by <blockwise NEW>: cleared metadata
FreshState == [uri |-> None, hdr |-> None]

\* Req::blockwise_get_new and Req::blockwise_get_next
blockwise_get_new(t, i) == [idx |-> i, uri |-> t, hdr |-> None]
blockwise_get_next(u, i, hdr) == [idx |-> i, uri |-> u, hdr |-> hdr]

\* Faulty variants, here and below, are slips the code could have made; each
\* has to be caught by one of the properties.

\* Faulty: the header is not stored
UpdateKeepsHdr(s, r) == [uri |-> r.uri, hdr |-> s.hdr]

\* BlockwiseData::update_state: the header changes only if one is given.
update_state(s, r) ==
    [uri |-> r.uri, hdr |-> IF r.hdr = None THEN s.hdr ELSE r.hdr]

\* xbd_gcoap_req_send: the stored header, or a first message for the uri.
pdu_of(s) == IF s.hdr = None THEN <<s.uri, 0>> ELSE s.hdr

----------------------------------------------------------------------------
(* The client's operations *)

FreeSlots == {i \in Slot : states[i] = None}

\* gcoap_get_blockwise -> send_blockwise_req <blockwise NEW>
Open(t) ==
    /\ handle[t] = "new"
    /\ TaskFree(t)
    /\ "reuse" \in Liberties \/ \A u \in Transfer : ~Freed(u)
    /\ FreeSlots # {}
    /\ UriLen[t] <= REQ_URI_MAX
    /\ LET i == Min(FreeSlots) IN
       /\ states' = [states EXCEPT ![i] = FreshState]
       /\ sd' = [sd EXCEPT ![i] = <<blockwise_get_new(t, i)>>] \* empty, add
       /\ index' = [index EXCEPT ![t] = i]
    /\ handle' = [handle EXCEPT ![t] = "open"]
    /\ UNCHANGED <<last, held, fstat, ret, out, got, memos, panic>>

\* ReqInner::new: String::try_from(uri).unwrap().  Nothing runs after a panic.
OpenPanics(t) ==
    /\ handle[t] = "new"
    /\ TaskFree(t)
    /\ "reuse" \in Liberties \/ \A u \in Transfer : ~Freed(u)
    /\ FreeSlots # {}
    /\ UriLen[t] > REQ_URI_MAX
    /\ panic' = "new: uri unwrap"
    /\ UNCHANGED <<states, sd, last, handle, index, held, fstat, ret, out, got, memos>>

\* BlockwiseError::StateNotAvailable
OpenRefused(t) ==
    /\ handle[t] = "new"
    /\ TaskFree(t)
    /\ FreeSlots = {}
    /\ handle' = [handle EXCEPT ![t] = "refused"]
    /\ UNCHANGED <<states, sd, last, index, held, fstat, ret, out, got, memos, panic>>

\* bs.next().await returns Some(req).
NextReq(t) ==
    /\ handle[t] \in {"open", "closed"}
    /\ TaskFree(t)
    /\ held[t] = None
    /\ sd[index[t]] # <<>>
    /\ Head(sd[index[t]]) # None
    /\ held' = [held EXCEPT ![t] = Head(sd[index[t]])]
    /\ fstat' = [fstat EXCEPT ![t] = "New"]
    /\ sd' = [sd EXCEPT ![index[t]] = Tail(@)]
    /\ UNCHANGED <<states, last, handle, index, ret, out, got, memos, panic>>

\* bs.next().await returns None; a held request can still be awaited.
NextNone(t) ==
    /\ handle[t] \in {"open", "closed"}
    /\ TaskFree(t)
    /\ handle[t] = "open" => held[t] = None
    /\ sd[index[t]] # <<>>
    /\ Head(sd[index[t]]) = None
    /\ sd' = [sd EXCEPT ![index[t]] = Tail(@)]
    /\ handle' = [handle EXCEPT ![t] = IF held[t] = None THEN "done" ELSE @]
    /\ UNCHANGED <<states, last, index, held, fstat, ret, out, got, memos, panic>>

\* When a poll of a new request is allowed: requests are made one at a time
\* unless "overlap" is granted.
MayPoll(t) ==
    /\ fstat[t] = "New"
    /\ TaskFree(t)
    /\ "overlap" \in Liberties \/ \A u \in Transfer : ~Awaiting(u)

\* BlockwiseState::update_metadata: assert!(data_len < data_max), for the uri
\* and for the header if there is one
Storable(r) ==
    /\ UriLen[r.uri] < REQ_URI_MAX
    /\ r.hdr # None => HdrLen[r.hdr] < BLOCKWISE_HDR_MAX

\* Faulty: set_state_last(Some(idx)) forgotten
PollReqKeepsLast(t) ==
    LET i == held[t].idx
        s == update_state(states[i], held[t])
    IN  /\ MayPoll(t)
        /\ states[i] # None
        /\ Storable(held[t])
        /\ states' = [states EXCEPT ![i] = s]
        /\ fstat' = [fstat EXCEPT ![t] = "Registered"]
        /\ memos' = memos \cup {[context |-> t, pdu |-> pdu_of(s)]}
        /\ UNCHANGED <<sd, last, handle, index, held, ret, out, got, panic>>

\* ReqInner::poll, FutureState::New, state valid: register, remember, send.
PollReq(t) ==
    LET i == held[t].idx
        s == update_state(states[i], held[t])
    IN  /\ MayPoll(t)
        /\ states[i] # None
        /\ Storable(held[t])
        /\ last' = i
        /\ states' = [states EXCEPT ![i] = s]
        /\ fstat' = [fstat EXCEPT ![t] = "Registered"]
        /\ \/ memos' = memos \cup {[context |-> t, pdu |-> pdu_of(s)]}
           \/ "send_fails" \in Liberties /\ UNCHANGED memos \* "msg send failed"
        /\ UNCHANGED <<sd, handle, index, held, ret, out, got, panic>>

\* ReqInner::poll, FutureState::New, state valid: update_state() asserts.
PollReqPanics(t) ==
    /\ MayPoll(t)
    /\ states[held[t].idx] # None
    /\ ~Storable(held[t])
    /\ panic' = "update: assert len"
    /\ UNCHANGED <<states, sd, last, handle, index, held, fstat, ret, out, got, memos>>

\* ReqInner::poll, FutureState::New, "blockwise stream could be already closed"
PollReqClosed(t) ==
    /\ MayPoll(t)
    /\ states[held[t].idx] = None
    /\ last' = None
    /\ held' = [held EXCEPT ![t] = None]
    /\ fstat' = [fstat EXCEPT ![t] = "none"]
    /\ out' = [out EXCEPT ![t] = "err"]
    /\ UNCHANGED <<states, sd, handle, index, ret, got, memos, panic>>

\* ReqInner::poll, FutureState::Resolved
TakeResolved(t) ==
    /\ fstat[t] = "Resolved"
    /\ out' = [out EXCEPT ![t] = IF ret[t] = None THEN "fail" ELSE "block"]
    /\ got' = [got EXCEPT ![t] = IF ret[t] = None THEN @ ELSE Append(@, ret[t])]
    /\ held' = [held EXCEPT ![t] = None]
    /\ fstat' = [fstat EXCEPT ![t] = "none"]
    /\ ret' = [ret EXCEPT ![t] = None]
    /\ UNCHANGED <<states, sd, last, handle, index, memos, panic>>

\* A client closes a stream it has not read from, or between two requests,
\* or instead of awaiting one; once.
MayClose(t) ==
    /\ handle[t] = "open"
    /\ TaskFree(t)

\* Faulty: close() without invalidate_state
CloseKeepsState(t) ==
    /\ MayClose(t)
    /\ states[index[t]] # None
    /\ sd' = [sd EXCEPT ![index[t]] = <<None>>]
    /\ handle' = [handle EXCEPT ![t] = "closed"]
    /\ UNCHANGED <<states, last, index, held, fstat, ret, out, got, memos, panic>>

\* BlockwiseStream::close
Close(t) ==
    /\ MayClose(t)
    /\ states[index[t]] # None
    /\ states' = [states EXCEPT ![index[t]] = None]
    /\ sd' = [sd EXCEPT ![index[t]] = <<None>>]  \* empty, add(None)
    /\ handle' = [handle EXCEPT ![t] = "closed"]
    /\ UNCHANGED <<last, index, held, fstat, ret, out, got, memos, panic>>

\* close() on a state that is gone, as it is after the last block:
\* clear_state unwraps a None.
ClosePanics(t) ==
    /\ MayClose(t)
    /\ states[index[t]] = None
    /\ panic' = "close: state unwrap"
    /\ UNCHANGED <<states, sd, last, handle, index, held, fstat, ret, out, got, memos>>

\* Faulty: the handle and its request are dropped while the request is in flight
DropInFlight(t) ==
    /\ handle[t] = "closed"
    /\ handle' = [handle EXCEPT ![t] = "done"]
    /\ held' = [held EXCEPT ![t] = None]
    /\ fstat' = [fstat EXCEPT ![t] = "none"]
    /\ UNCHANGED <<states, sd, last, index, ret, out, got, memos, panic>>

\* A closed handle and any request it still holds go out of scope.
Drop(t) ==
    /\ handle[t] = "closed"
    /\ TaskFree(t)
    /\ handle' = [handle EXCEPT ![t] = "done"]
    /\ held' = [held EXCEPT ![t] = None]
    /\ fstat' = [fstat EXCEPT ![t] = "none"]
    /\ UNCHANGED <<states, sd, last, index, ret, out, got, memos, panic>>

----------------------------------------------------------------------------
(* gcoap answers: gcoap_req_resp_handler, xbd_resp_handler,                *)
(* _resp_handler_blockwise_async.                                          *)

\* FutureState::resolve
resolve(m, value) ==
    /\ fstat' = [fstat EXCEPT ![m.context] = "Resolved"]
    /\ ret' = [ret EXCEPT ![m.context] = value]
    /\ memos' = memos \ {m}

\* A timeout, an error, or a response without a Block2 option
RespondFail(m) ==
    /\ resolve(m, None)
    /\ UNCHANGED <<states, sd, last, handle, index, held, out, got, panic>>

\* xbd_blockwise_state_index() and the state it names are unwrapped.
HandlerCheck == IF last = None THEN "handler: index unwrap"
                ELSE IF states[last] = None THEN "handler: state unwrap"
                ELSE None

\* BlockwiseStream::add: assert_eq!(self.xs.len(), 0)
AddCheck == IF sd[last] # <<>> THEN "add: assert len 0" ELSE None

\* Vec::from_slice(hdr).unwrap() in send_blockwise_req <blockwise NEXT>
HdrCheck(hdr) ==
    IF HdrLen[hdr] > BLOCKWISE_HDR_MAX THEN "next: hdr unwrap" ELSE None

\* The check that fails as the handler goes on after HandlerCheck, or None:
\* "Path too long" leaves before either, the end of a stream has no header.
NextCheck(m) ==
    LET blk == m.pdu[2]
        uri == states[last].uri
    IN  IF blk < LastBlock /\ blk = 0 /\ uri = None THEN None
        ELSE IF blk < LastBlock /\ HdrCheck(<<uri, blk + 1>>) # None
        THEN HdrCheck(<<uri, blk + 1>>)
        ELSE AddCheck

\* Faulty: the request for the next block is not added
RespondMoreAddsNone(m) ==
    /\ m.pdu[2] < LastBlock
    /\ HandlerCheck = None
    /\ resolve(m, m.pdu)
    /\ UNCHANGED <<states, sd, last, handle, index, held, out, got, panic>>

\* A response with Block2 and `more`: the request for the next block of the
\* resource the last polled state names is added to that state's stream.
RespondMore(m) ==
    LET blk == m.pdu[2]
        uri == states[last].uri
    IN  /\ blk < LastBlock
        /\ HandlerCheck = None
        /\ \/ /\ blk = 0 /\ uri = None            \* "Path too long"
              /\ UNCHANGED sd
           \/ /\ ~(blk = 0 /\ uri = None)
              /\ NextCheck(m) = None
              /\ sd' = [sd EXCEPT ![last] =
                           <<blockwise_get_next(uri, last, <<uri, blk + 1>>)>>]
        /\ resolve(m, m.pdu)
        /\ UNCHANGED <<states, last, handle, index, held, out, got, panic>>

\* Faulty: the None that ends the stream is not added
RespondLastAddsNothing(m) ==
    /\ m.pdu[2] = LastBlock
    /\ HandlerCheck = None
    /\ states' = [states EXCEPT ![last] = None]
    /\ resolve(m, m.pdu)
    /\ UNCHANGED <<sd, last, handle, index, held, out, got, panic>>

\* A response with Block2 and no `more`: the last polled state is complete.
RespondLast(m) ==
    /\ m.pdu[2] = LastBlock
    /\ HandlerCheck = None
    /\ NextCheck(m) = None
    /\ states' = [states EXCEPT ![last] = None]
    /\ sd' = [sd EXCEPT ![last] = <<None>>]
    /\ resolve(m, m.pdu)
    /\ UNCHANGED <<last, handle, index, held, out, got, panic>>

\* A response with Block2 that trips one of the handler's checks
RespondPanics(m) ==
    /\ \/ /\ HandlerCheck # None
          /\ panic' = HandlerCheck
       \/ /\ HandlerCheck = None
          /\ NextCheck(m) # None
          /\ panic' = NextCheck(m)
    /\ UNCHANGED <<states, sd, last, handle, index, held, fstat, ret, out, got, memos>>

Respond(m) == RespondFail(m) \/ RespondMore(m) \/ RespondLast(m) \/ RespondPanics(m)

----------------------------------------------------------------------------
\* What a client does by itself once it has a stream: await the next request,
\* await that, go on, and leave the scope of a stream that ended.
Loop(t) ==
    \/ NextReq(t) \/ NextNone(t)
    \/ PollReq(t) \/ PollReqPanics(t) \/ PollReqClosed(t)
    \/ TakeResolved(t) \/ Drop(t)

Client(t) ==
    \/ Open(t) \/ OpenPanics(t) \/ OpenRefused(t)
    \/ Loop(t)
    \/ Close(t) \/ ClosePanics(t)

Next ==
    /\ panic = None
    /\ \/ \E t \in Transfer : Client(t)
       \/ \E m \in memos : Respond(m)

Spec == Init /\ [][Next]_vars

(***************************************************************************)
(* Each task goes on with the loops of its streams, as the executor polls  *)
(* it; nothing obliges a client to open a stream or to close one.  gcoap   *)
(* answers every request it took, because it arms a timer for each.        *)
(***************************************************************************)
FairSpec ==
    /\ Spec
    /\ \A k \in Task :
          WF_vars(panic = None /\ \E t \in Transfer : TaskOf[t] = k /\ Loop(t))
    /\ WF_vars(panic = None /\ \E m \in memos : Respond(m))

----------------------------------------------------------------------------
\* Whatever clients do, FutureState::resolve finds the future it was given
\* still there and Registered: one answer under way per future, none to a
\* future that was dropped or already resolved.
ResolveSafe ==
    /\ \A m \in memos : fstat[m.context] = "Registered"
    /\ \A m, n \in memos : m.context = n.context => m = n

\* A transfer none of whose requests is too long for a BlockwiseState
Fits(t) ==
    /\ UriLen[t] < REQ_URI_MAX
    /\ \A n \in 1 .. LastBlock : HdrLen[<<t, n>>] < BLOCKWISE_HDR_MAX

\* The checks of Check fail for two reasons only: a transfer under way whose
\* uri or header does not leave room for one more byte in its buffer, or a
\* close() of a stream whose last block its client has received.  In
\* particular the handler always finds the state it unwraps and add() an
\* empty stream.
PanicsOnly ==
    \/ panic = None
    \/ panic \in LengthCheck /\ \E t \in Transfer : handle[t] \in {"new", "open"} /\ ~Fits(t)
    \/ /\ panic = "close: state unwrap"
       /\ \E t \in Transfer : handle[t] = "open" /\ Len(got[t]) = LastBlock + 1

\* blockwise.rs, BlockwiseStream::add: assert_eq!(self.xs.len(), 0).
StreamEmptyOnAdd == panic # "add: assert len 0"

\* Every state in use belongs to exactly one open stream, so none leaks and
\* no two clients share one.
SlotsOwned ==
    \A i \in Slot : states[i] # None =>
        Cardinality({t \in Transfer : handle[t] = "open" /\ index[t] = i}) = 1

\* A request kept past the close() of its stream gives GcoapMemoState::Err and
\* is not sent (the comment in ReqInner::poll and test_blockwise).  The check
\* behind that looks at the state alone, and can be wrong in one way only:
\* the state is in use again, by another client's open stream.
StaleOnlyByReuse ==
    [][\A t \in Transfer :
          handle[t] = "closed" /\ fstat[t] = "New" /\ fstat'[t] = "Registered" =>
              /\ states[index[t]] # None
              /\ \E u \in Transfer \ {t} : handle[u] = "open" /\ index[u] = index[t]]_vars

\* A client that has just received a block finds its stream ready: with the
\* request for the next block, or with the None that ends its loop.
NextReady ==
    \A t \in Transfer :
        handle[t] = "open" /\ held[t] = None /\ out[t] = "block" =>
            sd[index[t]] # <<>>

\* A request gcoap refused to send: nothing ever resolves its future.
NeverAnswered(t) == fstat[t] = "Registered" /\ \A m \in memos : m.context # t

\* A stream whose client went back to next() after a request that failed, as
\* test_async_blockwise and the first loops of test_blockwise do: nothing is
\* added to it any more.
Starved(t) ==
    handle[t] = "open" /\ held[t] = None /\ out[t] = "fail" /\ sd[index[t]] = <<>>

\* Every stream that is opened comes to its end, unless some request could
\* not be sent, or a request of a stream of the same task failed and the
\* stream was not closed, or a check failed.
TransfersEnd ==
    \A t \in Transfer :
        handle[t] = "open" ~>
            \/ handle[t] = "done"
            \/ \E u \in Transfer : NeverAnswered(u)
            \/ \E u \in Transfer : TaskOf[u] = TaskOf[t] /\ Starved(u)
            \/ panic # None

\* Each transfer gets the blocks of its own resource, in order and once
\* each, and is refused only if every state is in use.
Service == INSTANCE BlockwiseService WITH
    MaxActive <- BLOCKWISE_STATES_MAX,
    phase <- [t \in Transfer |->
                 IF handle[t] \in {"new", "refused"} THEN handle[t]
                 ELSE IF handle[t] = "open" /\ states[index[t]] # None
                 THEN "active" ELSE "ended"],
    delivered <- got

ImplementsService == Service!ServiceSpec
==============================================================================
