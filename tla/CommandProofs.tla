---------------------------- MODULE CommandProofs ----------------------------
(***************************************************************************)
(* Theorems about the two commands of xbd-net's shell that make requests:  *)
(* gcoap (GcoapCli), for every set of paths and lengths, every buffer size *)
(* and every size of resource; and libcoap (LibcoapClient) in the Node     *)
(* whose thread it takes, for every waiting time and every number of       *)
(* interfaces, events and lines.                                           *)
(***************************************************************************)
EXTENDS GcoapCli, Node, SequenceTheorems, NaturalsInduction, WellFoundedInduction, TLAPS

(***************************************************************************)
(* The gcoap command                                                       *)
(***************************************************************************)
ShownBlock == (Transfer \cup {None}) \X (0 .. LastBlock)

\* What a request for a uri is, and what a server makes of it.
LEMMA RequestType ==
    ASSUME NEW u \in Uri \cup {None}, NEW b \in 0 .. LastBlock
    PROVE  RequestFor(u, b) \in Request
  BY DEF RequestFor, Request

LEMMA UriType ==
    ASSUME NEW t \in Transfer \cup {None}
    PROVE  uri_of(t) \in Uri
  BY DEF uri_of, Uri

LEMMA AnsweredType ==
    ASSUME NEW r \in Request
    PROVE  Answered(r) \in Transfer \cup {None}
  BY DEF Answered, Request, Uri

\* A cast to uint16_t.
LEMMA Mod16 == \A n \in Nat : n % 65536 \in Uint16
  BY DEF Uint16

\* The count is kept to 16 bits.
LEMMA CountType ==
    ASSUME TypeOK, CountAndNotify
    PROVE  /\ req_count' \in Uint16
           /\ observed' \in Uint16 \cup {None}
           /\ unseen' \in BOOLEAN
<1>1. req_count + 1 \in Nat
  BY DEF TypeOK, Uint16
<1>2. req_count' \in Uint16
  BY <1>1, Mod16 DEF CountAndNotify
<1>3. observed' \in Uint16 \cup {None}
  BY <1>2 DEF CountAndNotify, notify_observers, TypeOK
<1>4. unseen' \in BOOLEAN
  <2>1. unseen' = unseen \/ unseen' = TRUE \/ unseen' = FALSE
    BY DEF CountAndNotify, notify_observers
  <2>2. unseen \in BOOLEAN
    BY DEF TypeOK
  <2> QED
    BY <2>1, <2>2, Zenon
<1> QED
  BY <1>2, <1>3, <1>4

\* A block that is shown is appended to those shown for its transfer.
LEMMA ShowType ==
    ASSUME TypeOK, NEW m \in memos, Show(m)
    PROVE  /\ m.for \in Transfer /\ m.req \in Request /\ m.req.block \in 0 .. LastBlock
           /\ got' \in [Transfer -> Seq(ShownBlock)]
           /\ Len(got'[m.for]) = Len(got[m.for]) + 1
           /\ \A t \in Transfer \ {m.for} : got'[t] = got[t]
<1>1. m.for \in Transfer /\ m.req \in Request /\ m.req.block \in 0 .. LastBlock
  BY DEF TypeOK, Memo, Request
<1> DEFINE b == <<Answered(m.req), m.req.block>>
<1>2. b \in ShownBlock
  BY <1>1, AnsweredType DEF ShownBlock
<1>3. got \in [Transfer -> Seq(ShownBlock)] /\ got' = [got EXCEPT ![m.for] = Append(@, b)]
  BY DEF TypeOK, Show, ShownBlock
<1> HIDE DEF b
<1>4. /\ Append(got[m.for], b) \in Seq(ShownBlock)
      /\ Len(Append(got[m.for], b)) = Len(got[m.for]) + 1
  BY <1>1, <1>2, <1>3, AppendProperties
<1> QED
  BY <1>1, <1>3, <1>4

\* Every variable keeps its type: req_count its 16 bits, a request its block
\* number, whatever the user does.
THEOREM TypeCorrect == CliSpec => []TypeOK
<1>1. CliInit => TypeOK
  <2>1. <<>> \in Seq((Transfer \cup {None}) \X (0 .. LastBlock))
    OBVIOUS
  <2>2. 0 \in Uint16 /\ 0 \in 0 .. MaxPuts /\ 0 \in 0 .. MaxPings
    BY CliAssumption DEF Uint16
  <2> QED
    BY <2>1, <2>2 DEF CliInit, TypeOK
<1>2. TypeOK /\ [CliNext]_cliVars => TypeOK'
  <2> SUFFICES ASSUME TypeOK, [CliNext]_cliVars PROVE TypeOK'
    OBVIOUS
  <2> USE CliAssumption DEF TypeOK
  <2>1. CASE proxy_set \/ proxy_unset
    <3>1. InProgress \subseteq Transfer
      BY DEF InProgress, Memo
    <3> QED
      BY <2>1, <3>1 DEF proxy_set, proxy_unset
  <2>2. ASSUME NEW t \in Transfer, get(t) PROVE TypeOK'
    <3>1. uri_of(t) \in Uri /\ RequestFor(uri_of(t), 0) \in Request
      BY UriType, RequestType
    <3>2. [for |-> t, req |-> RequestFor(uri_of(t), 0)] \in Memo
      BY <3>1 DEF Memo
    <3> QED
      BY <2>2, <3>1, <3>2, CountType DEF get
  <2>3. ASSUME NEW t \in Transfer, get_fails(t) PROVE TypeOK'
    BY <2>3, UriType DEF get_fails
  <2>4. CASE ping
    BY <2>4, UriType, CountType DEF ping
  <2>5. ASSUME NEW m \in memos, RespondPlain(m) PROVE TypeOK'
    BY <2>5 DEF RespondPlain
  <2>6. ASSUME NEW m \in memos, RespondMore(m) PROVE TypeOK'
    <3>1. m.for \in Transfer /\ m.req.block \in 0 .. LastBlock
          /\ got' \in [Transfer -> Seq(ShownBlock)]
      BY <2>6, ShowType DEF RespondMore
    <3>2. RequestFor(_last_req_path, m.req.block + 1) \in Request
      <4>0. m.req.block < LastBlock /\ LastBlock \in Nat
        BY <2>6 DEF RespondMore
      <4>1. m.req.block + 1 \in 0 .. LastBlock
        <5> HIDE CliAssumption DEF TypeOK
        <5> QED
          BY <3>1, <4>0
      <4> QED
        BY <4>1, RequestType
    <3>3. [for |-> m.for, req |-> RequestFor(_last_req_path, m.req.block + 1)] \in Memo
      BY <3>1, <3>2 DEF Memo
    <3> QED
      BY <2>6, <3>1, <3>3 DEF RespondMore, ShownBlock
  <2>7. ASSUME NEW m \in memos, RespondTooLong(m) \/ RespondLast(m) PROVE TypeOK'
    <3>1. Show(m)
      BY <2>7 DEF RespondTooLong, RespondLast
    <3>2. got' \in [Transfer -> Seq(ShownBlock)]
      BY <3>1, ShowType
    <3> QED
      BY <2>7, <3>2 DEF RespondTooLong, RespondLast, ShownBlock
  <2>8. CASE stats_observe
    BY <2>8 DEF stats_observe
  <2>9. ASSUME NEW v \in PutValue, stats_put(v) PROVE TypeOK'
    <3>1. v % 65536 \in Uint16
      <4>1. v \in Nat
        OBVIOUS
      <4> QED
        BY <4>1, Mod16
    <3> QED
      BY <2>9, <3>1 DEF stats_put
  <2>10. CASE UNCHANGED cliVars
    BY <2>10 DEF cliVars
  <2> QED
    BY <2>1, <2>2, <2>3, <2>4, <2>5, <2>6, <2>7, <2>8, <2>9, <2>10
       DEF CliNext, _resp_handler
<1> QED
  BY <1>1, <1>2, PTL DEF CliSpec

\* Every request that is sent notifies the observer of /cli/stats of the count
\* it made; only a write from outside or a notification that fails leaves it
\* behind, and the next one that is sent makes up for both.
THEOREM ObserverLagsHolds == CliSpec => []ObserverLags
<1>1. CliInit => ObserverLags
  BY DEF CliInit, ObserverLags
<1>2. ObserverLags /\ [CliNext]_cliVars => ObserverLags'
  <2> SUFFICES ASSUME ObserverLags, [CliNext]_cliVars PROVE ObserverLags'
    OBVIOUS
  <2> USE DEF ObserverLags
  <2>1. CASE CountAndNotify
    BY <2>1 DEF CountAndNotify, notify_observers
  <2>2. CASE UNCHANGED <<observed, req_count, unseen>>
    BY <2>2
  <2>3. CASE stats_observe
    BY <2>3 DEF stats_observe
  <2>4. ASSUME NEW v \in PutValue, stats_put(v) PROVE ObserverLags'
    BY <2>4 DEF stats_put
  <2>5. CASE proxy_set \/ proxy_unset \/ \E t \in Transfer : get_fails(t)
    BY <2>2, <2>5 DEF proxy_set, proxy_unset, get_fails
  <2>6. ASSUME NEW m \in memos, _resp_handler(m) PROVE ObserverLags'
    BY <2>2, <2>6 DEF _resp_handler, RespondPlain, RespondMore, RespondTooLong, RespondLast
  <2>7. CASE ping \/ \E t \in Transfer : get(t)
    BY <2>1, <2>7 DEF ping, get
  <2>8. CASE UNCHANGED cliVars
    BY <2>2, <2>8 DEF cliVars
  <2> QED
    BY <2>3, <2>4, <2>5, <2>6, <2>7, <2>8 DEF CliNext
<1> QED
  BY <1>1, <1>2, PTL DEF CliSpec

----------------------------------------------------------------------------
(***************************************************************************)
(* A user who keeps to client.c's rule ("User must not start a new request *)
(* ... until any blockwise transfer completes or times out").              *)
(***************************************************************************)
KeepsRule == Liberties = {}

\* What the uri of a transfer is, and whether it fits, if it was started with
\* (p) or without a proxy
UriAs(p, t) == [form |-> IF p THEN "absolute" ELSE "path", of |-> t]
FitsAs(p, t) == PathLen[t] + (IF p THEN PrefixLen ELSE 0) < _LAST_REQ_PATH_MAX

\* The one request in flight, and what is remembered of it: _last_req_path is
\* the uri it was started with, if that fits, and it has gone past its first
\* block only if it does.  Until the proxy is set or unset, it also asks the
\* way it was started.
InFlightAs(m, p) ==
    LET t == m.for IN
    /\ t \in started
    /\ m.req.uri = UriAs(p, t)
    /\ m.req.block = Len(got[t])
    /\ _last_req_path = IF FitsAs(p, t) THEN UriAs(p, t) ELSE None
    /\ t \in cut <=> p /\ ~FitsAs(p, t)
    /\ Len(got[t]) > 0 => FitsAs(p, t)
    /\ t \notin switched => (p = _proxied /\ (m.req.option = "Proxy-Uri" <=> p))

InFlight(m) == \E p \in BOOLEAN : InFlightAs(m, p)

CliInv ==
    /\ \A m, n \in memos : m = n
    /\ \A m \in memos : InFlight(m)
    /\ \A t \in Transfer \ started : got[t] = <<>>
    /\ TooLongStops

\* Setting or unsetting the proxy in the middle of a transfer is remembered.
LEMMA Reproxied ==
    ASSUME TypeOK, CliInv, proxy_set \/ proxy_unset
    PROVE  CliInv'
<1> USE DEF TypeOK
<1>1. /\ UNCHANGED <<_last_req_path, memos, started, cut, got>>
      /\ switched \subseteq switched'
      /\ _proxied' # _proxied => InProgress \subseteq switched'
  BY DEF proxy_set, proxy_unset
<1>2. ASSUME NEW m \in memos PROVE InFlight(m)'
  <2>1. PICK p \in BOOLEAN : InFlightAs(m, p)
    BY DEF CliInv, InFlight
  <2>2. m.for \in InProgress
    BY DEF InProgress
  <2>3. m.for \notin switched' => (p = _proxied' /\ (m.req.option = "Proxy-Uri" <=> p))
    BY <1>1, <2>1, <2>2, Zenon DEF InFlightAs
  <2>4. InFlightAs(m, p)'
    BY <1>1, <2>1, <2>3, Zenon DEF InFlightAs, UriAs, FitsAs
  <2> QED
    BY <2>4 DEF InFlight
<1> QED
  BY <1>1, <1>2 DEF CliInv, TooLongStops

\* The rule keeps the request in flight and what is remembered of it together.
LEMMA CliStep ==
    ASSUME KeepsRule, TypeOK, CliInv, [CliNext]_cliVars
    PROVE  CliInv'
<1> USE CliAssumption DEF TypeOK, TooLongStops
<1>0. MayRequest => memos = {}
  BY DEF MayRequest, KeepsRule
<1>1. ASSUME memos' = {}, UNCHANGED <<started, cut, got>> PROVE CliInv'
  BY <1>1 DEF CliInv
<1>2. CASE ping
  BY <1>0, <1>1, <1>2 DEF ping
<1>3. ASSUME NEW t \in Transfer, get_fails(t) PROVE CliInv'
  BY <1>0, <1>1, <1>3 DEF get_fails
<1>4. ASSUME NEW t \in Transfer, get(t) PROVE CliInv'
  <2>0. PICK m : m = [for |-> t, req |-> RequestFor(uri_of(t), 0)]
    OBVIOUS
  <2>1. /\ t \notin started
        /\ _last_req_path' = IF Fits(t) THEN uri_of(t) ELSE None
        /\ cut' = IF _proxied /\ ~Fits(t) THEN cut \cup {t} ELSE cut
        /\ started' = started \cup {t}
        /\ memos' = {m}
        /\ UNCHANGED <<_proxied, got>>
    BY <1>0, <1>4, <2>0 DEF get
  <2>2. got[t] = <<>> /\ Len(got[t]) = 0 /\ t \notin cut
    BY <2>1 DEF CliInv
  <2>3. /\ m.for = t /\ m.req.uri = UriAs(_proxied, t) /\ m.req.block = 0
        /\ m.req.option = IF _proxied THEN "Proxy-Uri" ELSE "Uri-Path"
        /\ uri_of(t) = UriAs(_proxied, t) /\ Fits(t) = FitsAs(_proxied, t)
    BY <2>0 DEF uri_of, UriAs, RequestFor, Fits, FitsAs, uri_len
  <2>4. InFlightAs(m, _proxied)'
    <3>1. /\ UriAs(_proxied, t)' = UriAs(_proxied, t) /\ FitsAs(_proxied, t)' = FitsAs(_proxied, t)
          /\ FitsAs(_proxied, t) \in BOOLEAN /\ got' = got /\ _proxied' = _proxied
      BY <2>1 DEF UriAs, FitsAs
    <3>2. t \in cut' <=> _proxied /\ ~FitsAs(_proxied, t)
      BY <2>1, <2>2, <2>3
    <3>3. ~(Len(got[t]) > 0) /\ m.req.block = Len(got[t])
      BY <2>2, <2>3
    <3>4. m.req.option = "Proxy-Uri" <=> _proxied
      BY <2>3
    <3>5. t \in started' /\ _last_req_path' = IF FitsAs(_proxied, t) THEN UriAs(_proxied, t) ELSE None
      BY <2>1, <2>3
    <3> HIDE DEF TypeOK, TooLongStops
    <3> HIDE CliAssumption
    <3> QED
      BY <2>3, <3>1, <3>2, <3>3, <3>4, <3>5, Zenon DEF InFlightAs
  <2>5. TooLongStops'
    BY <2>1, <2>2 DEF CliInv
  <2> QED
    BY <2>1, <2>4, <2>5 DEF CliInv, InFlight
<1>5. ASSUME NEW m \in memos, RespondPlain(m) PROVE CliInv'
  <2>1. memos' = {} /\ UNCHANGED <<started, cut, got>>
    BY <1>5 DEF RespondPlain, CliInv
  <2> QED
    BY <1>1, <2>1
<1>6. ASSUME NEW m \in memos, Show(m), UNCHANGED <<started, cut>>
      PROVE  /\ TooLongStops'
             /\ \A t \in Transfer \ started' : got'[t] = <<>>
  <2> DEFINE t == m.for
  <2>0. PICK p \in BOOLEAN : InFlightAs(m, p)
    BY DEF CliInv, InFlight
  <2>1. /\ t \in Transfer /\ Len(got'[t]) = Len(got[t]) + 1 /\ Len(got[t]) \in Nat
        /\ \A u \in Transfer \ {t} : got'[u] = got[u]
    BY <1>6, ShowType, LenProperties
  <2>2. /\ t \in started
        /\ t \in cut <=> p /\ ~FitsAs(p, t)
        /\ Len(got[t]) > 0 => FitsAs(p, t)
    BY <2>0 DEF InFlightAs
  <2>3. FitsAs(p, t) => PathLen[t] < _LAST_REQ_PATH_MAX
    BY <2>1 DEF FitsAs
  <2> HIDE DEF t
  <2>4. PathLen[t] >= _LAST_REQ_PATH_MAX \/ t \in cut => Len(got'[t]) <= 1
    BY <2>1, <2>2, <2>3
  <2>5. TooLongStops'
    BY <1>6, <2>1, <2>4 DEF CliInv
  <2> QED
    BY <1>6, <2>1, <2>2, <2>5 DEF CliInv
<1>7. ASSUME NEW m \in memos, RespondTooLong(m) \/ RespondLast(m) PROVE CliInv'
  <2>1. Show(m) /\ memos' = {} /\ UNCHANGED <<started, cut>>
    BY <1>7 DEF RespondTooLong, RespondLast, CliInv
  <2> QED
    BY <1>6, <2>1 DEF CliInv
<1>8. ASSUME NEW m \in memos, RespondMore(m) PROVE CliInv'
  <2> DEFINE t == m.for
  <2>0. PICK n : n = [for |-> t, req |-> RequestFor(_last_req_path, m.req.block + 1)]
    OBVIOUS
  <2>1. /\ Show(m) /\ UNCHANGED <<started, cut, switched, _proxied, _last_req_path>>
        /\ memos' = {n} \/ memos' = {}
        /\ ~(m.req.block = 0 /\ _last_req_path = None)
    BY <1>8, <2>0 DEF RespondMore, CliInv
  <2>2. /\ t \in Transfer /\ Len(got'[t]) = Len(got[t]) + 1 /\ Len(got[t]) \in Nat
    BY <2>1, ShowType, LenProperties
  <2>3. PICK p \in BOOLEAN : InFlightAs(m, p)
    BY DEF CliInv, InFlight
  <2>4. FitsAs(p, t)
    BY <2>1, <2>2, <2>3 DEF InFlightAs
  <2>5. /\ n.for = t /\ n.req.uri = UriAs(p, t) /\ n.req.block = Len(got'[t])
        /\ n.req.option = IF _proxied THEN "Proxy-Uri" ELSE "Uri-Path"
    BY <2>0, <2>1, <2>2, <2>3, <2>4 DEF InFlightAs, RequestFor
  <2>6. t \notin switched => (p = _proxied /\ (n.req.option = "Proxy-Uri" <=> p))
    BY <2>3, <2>5 DEF InFlightAs
  <2>7. InFlightAs(n, p)'
    BY <2>1, <2>3, <2>4, <2>5, <2>6 DEF InFlightAs, UriAs, FitsAs
  <2> QED
    BY <1>6, <2>1, <2>7 DEF CliInv, InFlight
<1>9. CASE stats_observe \/ \E v \in PutValue : stats_put(v)
  <2>1. UNCHANGED <<_proxied, _last_req_path, memos, started, cut, switched, got>>
    BY <1>9 DEF stats_observe, stats_put
  <2> QED
    BY <2>1 DEF CliInv, InFlight, InFlightAs, UriAs, FitsAs
<1>10. CASE UNCHANGED cliVars
  BY <1>10 DEF cliVars, CliInv, InFlight, InFlightAs, UriAs, FitsAs
<1> QED
  BY <1>2, <1>3, <1>4, <1>5, <1>7, <1>8, <1>9, <1>10, Reproxied DEF CliNext, _resp_handler

LEMMA CliHolds == ASSUME KeepsRule PROVE CliSpec => []CliInv
<1>1. CliInit => CliInv
  BY DEF CliInit, CliInv, TooLongStops
<1>2. TypeOK /\ CliInv /\ [CliNext]_cliVars => CliInv'
  BY CliStep
<1> QED
  BY <1>1, <1>2, TypeCorrect, PTL DEF CliSpec

\* A user who keeps to the rule, and sets and unsets the proxy at any time,
\* gets each transfer's own blocks in order: the request in flight asks for the
\* block after those shown, and the right way if the proxy is as it was.
THEOREM AsksNextHolds == ASSUME KeepsRule PROVE CliSpec => []AsksNext
<1>1. TypeOK /\ CliInv => AsksNext
  <2> SUFFICES ASSUME TypeOK, CliInv, NEW m \in memos
               PROVE  /\ m.req.block = Len(got[m.for])
                      /\ Answered(m.req) \in {m.for, None}
                      /\ m.for \notin cut \cup switched => Answered(m.req) = m.for
    BY DEF AsksNext
  <2>0. PICK p \in BOOLEAN : InFlightAs(m, p)
    BY DEF CliInv, InFlight
  <2>1. m.for \in Transfer /\ m.req.uri = UriAs(p, m.for) /\ m.req.block = Len(got[m.for])
    BY <2>0 DEF TypeOK, InFlightAs, Memo
  <2>2. UriAs(p, m.for) # None
    <3>1. UriAs(p, m.for) \in Uri
      BY <2>1 DEF UriAs, Uri
    <3> QED
      BY <3>1, NoneAssumption
  <2>3. m.req.uri.of = m.for /\ (m.req.uri.form = "absolute" <=> p)
    BY <2>1 DEF UriAs
  <2>4. Answered(m.req) \in {m.for, None}
    BY <2>3 DEF Answered
  <2>5. ASSUME m.for \notin cut \cup switched PROVE Answered(m.req) = m.for
    BY <2>0, <2>1, <2>2, <2>3, <2>5 DEF Answered, InFlightAs
  <2> QED
    BY <2>1, <2>4, <2>5
<1> QED
  BY <1>1, TypeCorrect, CliHolds, PTL

\* A transfer whose uri did not fit _last_req_path stops after its first block.
THEOREM TooLongStopsHolds == ASSUME KeepsRule PROVE CliSpec => []TooLongStops
<1>1. CliInv => TooLongStops
  BY DEF CliInv
<1> QED
  BY <1>1, CliHolds, PTL

----------------------------------------------------------------------------
(***************************************************************************)
(* The node, from main() on                                                *)
(***************************************************************************)
(***************************************************************************)
(* Until the server's task has begun, the executor is still in the tasks   *)
(* spawned before it: the shell's, which accepts lines, comes after.       *)
(***************************************************************************)
AfterApi == <<"server", "shell", "main">>
AfterServer == <<"shell", "main">>

Starting ==
    /\ up \subseteq {"api"}
    /\ ~server_init_done /\ ~credFailed /\ ~panicked
    /\ \/ boot # "done" /\ queued = <<>> /\ round = <<>> /\ running = "none"
       \/ boot = "done" /\ queued = Spawned /\ round = <<>> /\ running = "none"
       \/ boot = "done" /\ queued = <<>> /\ round = Spawned /\ running = "none"
       \/ boot = "done" /\ queued = <<>> /\ round = AfterApi /\ running \in {"api", "none"}
       \/ boot = "done" /\ queued = <<>> /\ round = AfterServer /\ running = "server"

Started ==
    /\ boot = "done" /\ "server" \in up
    /\ server_init_done
    /\ panicked => credFailed

FileserverOnly == <<"fileserver">>
AllListeners == <<"fileserver", "server">>

Registered ==
    /\ boot \in {"ifces", "ips", "fileserver"} => listeners = <<>>
    /\ boot \in {"rustmod_start", "done"} =>
          listeners = IF server_init_done /\ ~credFailed THEN AllListeners ELSE FileserverOnly

StartInv ==
    /\ boot \in {"ifces", "ips", "fileserver", "rustmod_start", "done"}
    /\ Starting \/ Started
    /\ Registered

\* A libcoap command keeps the thread in the shell's task.
CallInv ==
    /\ wait_seconds \in Nat
    /\ call \in [target : Target \cup {"none"}, wait : Nat, elapsed : Nat,
                delayed : BOOLEAN, heard : BOOLEAN]
    /\ call.target = "none" => Idle
    /\ ~Idle => running = "shell"
    /\ call.target = "self" => ~reply

\* What a call finds: quit set before a handler was called for it only by the
\* call before, and the waiting time in use
TimeInUse == IF multicast THEN LeisureWait ELSE DEFAULT_WAIT_TIME

LeftInv ==
    /\ quit /\ ~call.heard => unsent
    /\ wait_seconds = TimeInUse
    /\ ~Idle => call.wait + call.elapsed = TimeInUse
    /\ ~Idle => (is_mcast <=> call.target = "mcast")
    /\ multicast \in BOOLEAN

LEMMA SpawnOrder ==
    /\ Spawned # <<>> /\ Head(Spawned) = "api" /\ Tail(Spawned) = AfterApi
    /\ AfterApi # <<>> /\ Head(AfterApi) = "server" /\ Tail(AfterApi) = AfterServer
  BY DEF Spawned, AfterApi, AfterServer

LEMMA ListenerOrder ==
    /\ Append(<<>>, "fileserver") = FileserverOnly
    /\ Append(FileserverOnly, "server") = AllListeners
    /\ Len(AllListeners) = 2
<1>1. \A x : Append(<<>>, x) = <<x>>
  OBVIOUS
<1>2. ASSUME NEW x, NEW y PROVE Append(<<x>>, y) = <<x, y>> /\ Len(<<x, y>>) = 2
  <2>1. <<x>> \in Seq({x, y}) /\ <<x, y>> \in Seq({x, y})
    OBVIOUS
  <2>2. Len(<<x>>) = 1 /\ Len(<<x, y>>) = 2 /\ <<x>>[1] = x /\ <<x, y>>[1] = x /\ <<x, y>>[2] = y
    OBVIOUS
  <2>3. /\ Append(<<x>>, y) \in Seq({x, y}) /\ Len(Append(<<x>>, y)) = 2
        /\ Append(<<x>>, y)[1] = x /\ Append(<<x>>, y)[2] = y
    BY <2>1, <2>2, AppendProperties
  <2>4. \A i \in 1 .. Len(<<x, y>>) : i = 1 \/ i = 2
    BY <2>2
  <2> QED
    BY <2>1, <2>2, <2>3, <2>4, SeqEqual
<1> QED
  BY <1>1, <1>2 DEF FileserverOnly, AllListeners

\* StartInv is inductive.
LEMMA StartStep ==
    ASSUME StartInv, [Next]_vars
    PROVE  StartInv'
<1> USE DEF StartInv
<1>1. ASSUME UNCHANGED <<bootVars, serverVars>>, UNCHANGED <<round, queued, running, up>>
      PROVE  StartInv'
  BY <1>1 DEF bootVars, serverVars, Starting, Started, Registered
<1>2. CASE main
  <2>1. UNCHANGED <<server_init_done, credFailed, panicked, round, running, up>>
    BY <1>2 DEF main
  <2>2. Starting /\ boot # "done"
    BY <1>2 DEF main, NetUp, Started
  <2>3. CASE boot' # "done" /\ queued' = queued
    <3>1. Starting'
      BY <2>1, <2>2, <2>3 DEF Starting
    <3>2. /\ boot' \in {"ips", "fileserver", "rustmod_start"}
          /\ Registered'
      BY <1>2, <2>1, <2>2, <2>3, ListenerOrder
         DEF main, NetUp, Registered, Starting, init_gcoap_fileserver
    <3> QED
      BY <3>1, <3>2
  <2>4. CASE boot = "rustmod_start" /\ boot' = "done" /\ queued' = Spawned /\ listeners' = listeners
    <3>1. Starting'
      BY <2>1, <2>2, <2>4 DEF Starting
    <3>2. Registered'
      BY <2>1, <2>4 DEF Registered
    <3> QED
      BY <2>4, <3>1, <3>2
  <2> QED
    BY <1>2, <2>3, <2>4 DEF main, NetUp
<1>3. CASE StartRound \/ PollTask
  <2>1. UNCHANGED <<bootVars, serverVars>>
    BY <1>3 DEF StartRound, PollTask
  <2>2. Registered' /\ UNCHANGED <<boot, server_init_done, credFailed, panicked>>
    BY <2>1 DEF bootVars, serverVars, Registered
  <2>3. CASE Started
    <3>1. Started'
      BY <1>3, <2>2, <2>3 DEF StartRound, PollTask, Started
    <3> QED
      BY <2>2, <3>1
  <2>4. CASE Starting /\ StartRound
    <3>1. Starting'
      BY <2>2, <2>4 DEF StartRound, Starting
    <3> QED
      BY <2>2, <3>1
  <2>5. CASE Starting /\ PollTask
    <3>1. Starting'
      BY <2>2, <2>5, SpawnOrder DEF PollTask, Starting
    <3> QED
      BY <2>2, <3>1
  <2> QED
    BY <1>3, <2>3, <2>4, <2>5
<1>4. CASE OtherPoll
  <2>1. UNCHANGED <<bootVars, serverVars>> /\ UNCHANGED <<round, queued, up>> /\ running' = "none"
        /\ running \in {"main", "api"}
    BY <1>4 DEF OtherPoll, Pending
  <2>2. Registered' /\ UNCHANGED <<boot, server_init_done, credFailed, panicked>>
    BY <2>1 DEF bootVars, serverVars, Registered
  <2>3. Starting' \/ Started'
    BY <2>1, <2>2 DEF Starting, Started
  <2> QED
    BY <2>2, <2>3
<1>5. CASE ServerStart
  <2>1. Starting /\ boot = "done" /\ UNCHANGED boot /\ up' = up \cup {"server"}
    BY <1>5 DEF ServerStart, Started, Starting, bootVars
  <2>2. PICK ret \in 0 .. 2 : server_init(ret) /\ panicked' = (ret # 0)
    BY <1>5 DEF ServerStart
  <2>3. CASE ret = 0 /\ server_init_done' = TRUE /\ listeners' = Append(listeners, "server")
             /\ UNCHANGED credFailed
    <3>1. Started'
      BY <2>1, <2>2, <2>3 DEF Started
    <3>2. Registered'
      BY <2>1, <2>3, ListenerOrder DEF Registered, Starting
    <3> QED
      BY <2>1, <3>1, <3>2
  <2>4. CASE ret = 2 /\ server_init_done' = TRUE /\ credFailed' = TRUE /\ UNCHANGED listeners
    <3>1. Started'
      BY <2>1, <2>4 DEF Started
    <3>2. Registered'
      BY <2>1, <2>4 DEF Registered, Starting
    <3> QED
      BY <2>1, <3>1, <3>2
  <2> QED
    BY <2>1, <2>2, <2>3, <2>4 DEF server_init, Starting
<1>6. ASSUME Started, UNCHANGED <<bootVars, serverVars>>, up \subseteq up' PROVE StartInv'
  BY <1>6 DEF bootVars, serverVars, Started, Registered
<1>7. CASE ServerNext
  <2>1. Started /\ UNCHANGED <<bootVars, serverVars>> /\ up' = up
    BY <1>7 DEF ServerNext, Starting, Pending, execVars
  <2> QED
    BY <1>6, <2>1
<1>8. CASE ShellStart
  <2>1. Started /\ UNCHANGED <<bootVars, serverVars>> /\ up \subseteq up'
    BY <1>8 DEF ShellStart, Starting
  <2> QED
    BY <1>6, <2>1
<1>9. CASE ShellNext
  <2>1. Started /\ UNCHANGED bootVars
    BY <1>9 DEF ShellNext, Starting
  <2>2. UNCHANGED serverVars
    <3>1. CASE CmdServer
      BY <2>1, <3>1 DEF CmdServer, Started, server_init, serverVars
    <3> QED
      BY <1>9, <3>1 DEF ShellNext, CmdLibcoap
  <2>3. UNCHANGED up
    BY <1>9 DEF ShellNext, CmdServer, CmdLibcoap, Pending, execVars
  <2> QED
    BY <1>6, <2>1, <2>2, <2>3
<1>10. ASSUME NEW e \in {"self", "other"}, SockEvent(e) PROVE StartInv'
  <2>1. UNCHANGED <<bootVars, serverVars>> /\ UNCHANGED <<round, running, up>>
    BY <1>10 DEF SockEvent
  <2>2. CASE Started
    BY <1>6, <2>1, <2>2
  <2>3. CASE Starting
    <3>1. "server" \notin up
      BY <2>3 DEF Starting
    <3>2. UNCHANGED queued
      BY <1>10, <3>1 DEF SockEvent, wake
    <3> QED
      BY <1>1, <2>1, <3>2
  <2> QED
    BY <2>2, <2>3
<1>11. ASSUME NEW cmd, Line(cmd) PROVE StartInv'
  <2>1. UNCHANGED <<bootVars, serverVars>> /\ UNCHANGED up /\ Started
    BY <1>11 DEF Line, Starting
  <2> QED
    BY <1>6, <2>1
<1>12. CASE LibcoapTime \/ Answer \/ UNCHANGED vars
  BY <1>1, <1>12 DEF LibcoapTime, Answer, vars, execVars, bootVars, serverVars
<1> QED
  BY <1>2, <1>3, <1>4, <1>5, <1>7, <1>8, <1>9, <1>10, <1>11, <1>12 DEF Next, Thread, Inputs

\* No order of lines, events and polls makes the server's task unwrap the 1 of
\* a second server_init(), and every listener is registered once: the shell's
\* task, whose lines could call it first, is spawned earlier and polled later.
THEOREM ServerUpHolds == Spec => []ServerUp
<1>1. Init => StartInv
  BY DEF Init, StartInv, Starting, Registered
<1>2. StartInv /\ [Next]_vars => StartInv'
  BY StartStep
<1>3. StartInv => ServerUp
  <2> SUFFICES ASSUME StartInv PROVE ServerUp
    OBVIOUS
  <2>1. CASE Starting
    BY <2>1 DEF Starting, ServerUp
  <2>2. CASE Started
    <3>1. listeners = IF ~credFailed THEN AllListeners ELSE FileserverOnly
      BY <2>2 DEF StartInv, Registered, Started
    <3> QED
      BY <2>2, <3>1 DEF ServerUp, Started, AllListeners, FileserverOnly
  <2> QED
    BY <2>1, <2>2 DEF StartInv
<1> QED
  BY <1>1, <1>2, <1>3, PTL DEF Spec

----------------------------------------------------------------------------
(* The libcoap command *)

CallRecord ==
    [target : Target \cup {"none"}, wait : Nat, elapsed : Nat, delayed : BOOLEAN, heard : BOOLEAN]

\* What a step may do to the libcoap client: begin a call or fail to, from the
\* shell's task; serve the call; end it; or nothing.
LEMMA LibSteps ==
    ASSUME [Next]_vars
    PROVE  \/ /\ running = "shell" /\ running' = "shell" /\ ~reply'
              /\ \/ \E t \in Target, delayed \in BOOLEAN : client_coap_init(t, delayed)
                 \/ \E t \in Target, st \in Stage : InitFails(t, st)
           \/ UNCHANGED <<running, reply>>
              /\ (message_handler \/ nack_handler \/ Established \/ Tick \/ CleanUp)
           \/ /\ UNCHANGED libVars
              /\ UNCHANGED running \/ running # "shell" \/ Idle
              /\ UNCHANGED reply \/ running = "server"
<1>1. CASE main \/ StartRound \/ OtherPoll \/ ServerStart \/ ShellStart
  BY <1>1 DEF main, StartRound, OtherPoll, ServerStart, ShellStart, inVars
<1>2. CASE PollTask
  BY <1>2 DEF PollTask, inVars
<1>3. CASE ServerNext
  BY <1>3 DEF ServerNext
<1>4. CASE ShellNext
  <2>1. CASE CmdLibcoap
    <3>1. running = "shell" /\ running' = "shell" /\ ~reply'
      BY <1>4, <2>1 DEF ShellNext, CmdLibcoap, execVars
    <3>2. \/ \E t \in Target, delayed \in BOOLEAN : client_coap_init(t, delayed)
          \/ \E t \in Target, st \in Stage : InitFails(t, st)
      BY <2>1 DEF CmdLibcoap
    <3> QED
      BY <3>1, <3>2
  <2>2. CASE CmdServer \/ (line = "none" /\ Pending /\ UNCHANGED <<libVars, serverVars, inVars>>)
    BY <1>4, <2>2 DEF ShellNext, CmdServer, inVars
  <2> QED
    BY <1>4, <2>1, <2>2 DEF ShellNext
<1>5. CASE LibcoapTime \/ Answer
  BY <1>5 DEF LibcoapTime, Answer, execVars, inVars
<1>6. CASE Inputs
  BY <1>6 DEF Inputs, SockEvent, Line
<1>7. CASE UNCHANGED vars
  BY <1>7 DEF vars, execVars, inVars
<1> QED
  BY <1>1, <1>2, <1>3, <1>4, <1>5, <1>6, <1>7 DEF Next, Thread

LEMMA PlusZero == \A n \in Nat : n + 0 = n
  OBVIOUS

\* CallInv and LeftInv are inductive.
LEMMA CallStep ==
    ASSUME CallInv, LeftInv, [Next]_vars
    PROVE  CallInv' /\ LeftInv'
<1> USE LibcoapAssumption
<1>0. call \in CallRecord /\ wait_seconds \in Nat
  BY DEF CallInv, CallRecord
<1>1. ASSUME NEW t \in Target, NEW delayed \in BOOLEAN, client_coap_init(t, delayed),
             running' = "shell", ~reply'
      PROVE  CallInv' /\ LeftInv'
  <2>1. /\ Idle
        /\ is_mcast' = (t = "mcast")
        /\ wait_seconds' = IF is_mcast' THEN LeisureWait ELSE wait_seconds
        /\ call' = [target |-> t, wait |-> wait_seconds', elapsed |-> 0,
                    delayed |-> delayed, heard |-> FALSE]
        /\ multicast' = (multicast \/ t = "mcast")
        /\ UNCHANGED <<quit, unsent>>
    BY <1>1 DEF client_coap_init, resolve_address
  <2>2. wait_seconds' \in Nat
    BY <1>0, <2>1
  <2>3. /\ call' \in CallRecord /\ call'.target = t /\ t # "none"
        /\ call'.wait = wait_seconds' /\ call'.elapsed = 0
    BY <2>1, <2>2 DEF CallRecord, Target
  <2>4. ~Idle'
    BY <2>3 DEF Idle, NoCall
  <2>5. CallInv'
    BY <1>1, <2>2, <2>3, <2>4 DEF CallInv, CallRecord
  <2>6. wait_seconds' = TimeInUse' /\ multicast' \in BOOLEAN
    BY <2>1 DEF LeftInv, TimeInUse
  <2>7. call'.wait + call'.elapsed = TimeInUse'
    <3>1. wait_seconds' + 0 = wait_seconds'
      BY <2>2, PlusZero, Zenon
    <3>2. wait_seconds' = TimeInUse'
      BY <2>6
    <3> QED
      BY <2>3, <3>1, <3>2, Zenon
  <2>8. quit' => unsent'
    <3>1. call.heard = FALSE
      BY <2>1 DEF Idle, NoCall
    <3> QED
      BY <2>1, <3>1 DEF LeftInv
  <2>9. is_mcast' <=> call'.target = "mcast"
    BY <2>1, <2>3
  <2> QED
    BY <2>5, <2>6, <2>7, <2>8, <2>9 DEF LeftInv
<1>2. ASSUME NEW t \in Target, NEW st \in Stage, InitFails(t, st), UNCHANGED running, ~reply'
      PROVE  CallInv' /\ LeftInv'
  <2>1. /\ Idle /\ ~quit' /\ UNCHANGED call
        /\ \/ UNCHANGED <<wait_seconds, multicast>>
           \/ wait_seconds' = LeisureWait /\ multicast' = TRUE
    <3> DEFINE done(s) == \E i, j \in DOMAIN Stages : i < j /\ Stages[i] = s /\ Stages[j] = st
               added == done("add")
               found == done("resolve")
    <3>1. /\ Idle /\ ~quit' /\ UNCHANGED call
          /\ is_mcast' = IF found THEN t = "mcast" ELSE is_mcast
          /\ wait_seconds' = IF added /\ is_mcast' THEN LeisureWait ELSE wait_seconds
          /\ multicast' = (multicast \/ (added /\ t = "mcast"))
      BY <1>2, Zenon DEF InitFails, resolve_address
    <3>2. added => found
      BY DEF Stages
    <3>3. multicast \in BOOLEAN
      BY DEF LeftInv
    <3> HIDE DEF added, found
    <3> QED
      BY <3>1, <3>2, <3>3
  <2>2. CallInv'
    BY <1>0, <1>2, <2>1 DEF CallInv, Idle
  <2>3. wait_seconds' = TimeInUse' /\ multicast' \in BOOLEAN
    <3>1. CASE UNCHANGED <<wait_seconds, multicast>>
      BY <3>1 DEF LeftInv, TimeInUse
    <3>2. CASE wait_seconds' = LeisureWait /\ multicast' = TRUE
      BY <3>2 DEF TimeInUse
    <3> QED
      BY <2>1, <3>1, <3>2
  <2> QED
    BY <2>1, <2>2, <2>3 DEF LeftInv, Idle
<1>3. ASSUME ~Idle, UNCHANGED <<running, reply, is_mcast, wait_seconds, multicast, unsent>>,
             UNCHANGED quit \/ call'.heard, call.heard => call'.heard,
             call' \in CallRecord, call'.target = call.target,
             call'.wait + call'.elapsed = call.wait + call.elapsed
      PROVE  CallInv' /\ LeftInv'
  <2>1. call.target # "none"
    BY <1>3 DEF CallInv
  <2>2. ~Idle'
    BY <1>3, <2>1 DEF Idle, NoCall
  <2>3. CallInv'
    BY <1>0, <1>3, <2>2 DEF CallInv, CallRecord
  <2>4. TimeInUse' = TimeInUse
    BY <1>3 DEF TimeInUse
  <2>5. quit' /\ ~call'.heard => unsent'
    BY <1>3 DEF LeftInv
  <2> QED
    BY <1>3, <2>2, <2>3, <2>4, <2>5 DEF LeftInv
<1>4. CASE UNCHANGED <<running, reply>>
           /\ (message_handler \/ nack_handler \/ Established \/ Tick)
  <2>1. CASE message_handler
    <3>1. call' \in CallRecord /\ call'.target = call.target /\ call'.heard
          /\ call'.wait = call.wait /\ call'.elapsed = call.elapsed
      BY <1>0, <2>1 DEF message_handler, CallRecord
    <3> QED
      BY <1>3, <1>4, <2>1, <3>1 DEF message_handler, Waiting
  <2>2. CASE nack_handler
    <3>1. call' \in CallRecord /\ call'.target = call.target /\ call'.heard
          /\ call'.wait = call.wait /\ call'.elapsed = call.elapsed
      BY <1>0, <2>2 DEF nack_handler, CallRecord
    <3> QED
      BY <1>3, <1>4, <2>2, <3>1 DEF nack_handler, Waiting
  <2>3. CASE Established
    <3>1. call' \in CallRecord /\ call'.target = call.target /\ call'.heard = call.heard
          /\ call'.wait = call.wait /\ call'.elapsed = call.elapsed
      BY <1>0, <2>3 DEF Established, CallRecord
    <3> QED
      BY <1>3, <1>4, <2>3, <3>1 DEF Established, Waiting
  <2>4. CASE Tick
    <3>1. /\ call' = [target |-> call.target, wait |-> call.wait - 1, elapsed |-> call.elapsed + 1,
                      delayed |-> call.delayed, heard |-> call.heard]
          /\ call.wait > 1
      BY <2>4 DEF Tick
    <3>2. call.wait \in Nat /\ call.elapsed \in Nat
      BY <1>0 DEF CallRecord
    <3>3. /\ call.wait - 1 \in Nat /\ call.elapsed + 1 \in Nat
          /\ (call.wait - 1) + (call.elapsed + 1) = call.wait + call.elapsed
      BY <3>1, <3>2
    <3>4. call' \in CallRecord /\ call'.target = call.target /\ call'.heard = call.heard
          /\ call'.wait = call.wait - 1 /\ call'.elapsed = call.elapsed + 1
      BY <1>0, <3>1, <3>3 DEF CallRecord
    <3> QED
      BY <1>3, <1>4, <2>4, <3>3, <3>4 DEF Tick, Waiting
  <2> QED
    BY <1>4, <2>1, <2>2, <2>3, <2>4
<1>5. CASE UNCHANGED <<running, reply>> /\ CleanUp
  <2>1. /\ quit' = (call.delayed /\ ~is_mcast) /\ unsent' = call.delayed
        /\ call' = NoCall /\ UNCHANGED <<wait_seconds, multicast>>
    BY <1>5 DEF CleanUp
  <2>2. NoCall \in CallRecord /\ NoCall.target = "none"
    BY DEF NoCall, CallRecord
  <2>3. Idle'
    BY <2>1 DEF Idle
  <2>4. CallInv'
    BY <1>0, <2>1, <2>2, <2>3 DEF CallInv, CallRecord
  <2>5. LeftInv'
    BY <2>1, <2>3 DEF LeftInv, TimeInUse
  <2> QED
    BY <2>4, <2>5
<1>6. CASE /\ UNCHANGED libVars
           /\ UNCHANGED running \/ running # "shell" \/ Idle
           /\ UNCHANGED reply \/ running = "server"
  <2>1. UNCHANGED <<call, wait_seconds, quit, is_mcast, multicast, unsent>>
    BY <1>6 DEF libVars
  <2>2. Idle' = Idle /\ (Idle => call.target = "none")
    BY <2>1 DEF Idle, NoCall
  <2>3. CallInv'
    BY <1>6, <2>1, <2>2 DEF CallInv
  <2>4. LeftInv'
    BY <2>1, <2>2 DEF LeftInv, TimeInUse
  <2> QED
    BY <2>3, <2>4
<1> QED
  BY <1>1, <1>2, <1>4, <1>5, <1>6, LibSteps

LEMMA CallHolds == Spec => [](CallInv /\ LeftInv)
<1>1. Init => CallInv /\ LeftInv
  <2> SUFFICES ASSUME Init PROVE CallInv /\ LeftInv
    OBVIOUS
  <2>1. /\ call = NoCall /\ wait_seconds = DEFAULT_WAIT_TIME
        /\ quit = FALSE /\ multicast = FALSE
    BY DEF Init, LibInit
  <2>2. NoCall \in CallRecord /\ NoCall.target = "none" /\ Idle
    BY <2>1 DEF NoCall, CallRecord, Idle
  <2> QED
    BY <2>1, <2>2, LibcoapAssumption DEF CallInv, LeftInv, CallRecord, TimeInUse
<1>2. (CallInv /\ LeftInv) /\ [Next]_vars => (CallInv /\ LeftInv)'
  BY CallStep
<1> QED
  BY <1>1, <1>2, PTL DEF Spec

\* The request that a libcoap command makes to its own node is never answered
\* while the command waits: it has the thread, and the server's task does not.
THEOREM SelfUnansweredHolds == Spec => []SelfUnanswered
<1>1. CallInv /\ LeftInv => SelfUnanswered
  BY DEF CallInv, SelfUnanswered
<1> QED
  BY <1>1, CallHolds, PTL

\* A libcoap command waits for its answer, and for the whole of its time, after
\* any history of commands that were answered, failed at any stage or timed out,
\* but for what an unsent request or a multicast before it leaves behind.
THEOREM AwaitsAnswerHolds == Spec => []AwaitsAnswer
<1>1. CallInv /\ LeftInv => AwaitsAnswer
  BY DEF LeftInv, AwaitsAnswer, Waiting, TimeInUse
<1> QED
  BY <1>1, CallHolds, PTL

----------------------------------------------------------------------------
(* Wake-ups *)

Due(t) == running = t \/ t \in Range(round) \/ t \in Range(queued)

\* Lines come only to a shell that has begun.
NoticeInv ==
    /\ round \in Seq(Task) /\ queued \in Seq(Task)
    /\ events # <<>> /\ "server" \in up => Due("server")
    /\ line # "none" => Due("shell") /\ "shell" \in up

LEMMA RangeFront ==
    ASSUME NEW q \in Seq(Task), NEW t \in Task
    PROVE  /\ <<t>> \o q \in Seq(Task)
           /\ Range(<<t>> \o q) = {t} \cup Range(q)
<1> DEFINE s == <<t>> \o q
<1>1. <<t>> \in Seq(Task) /\ Len(<<t>>) = 1 /\ <<t>>[1] = t
  OBVIOUS
<1>2. Len(q) \in Nat /\ DOMAIN q = 1 .. Len(q)
  BY LenProperties
<1>3. /\ s \in Seq(Task) /\ Len(s) = 1 + Len(q)
      /\ \A i \in 1 .. 1 + Len(q) : s[i] = IF i <= 1 THEN <<t>>[i] ELSE q[i - 1]
  BY <1>1, ConcatProperties
<1>4. DOMAIN s = 1 .. 1 + Len(q)
  BY <1>3, LenProperties
<1> HIDE DEF s
<1>5. s[1] = t /\ 1 \in DOMAIN s
  BY <1>1, <1>2, <1>3, <1>4
<1>6. \A i \in 1 .. Len(q) : i + 1 \in DOMAIN s /\ s[i + 1] = q[i]
  <2> SUFFICES ASSUME NEW i \in 1 .. Len(q) PROVE i + 1 \in DOMAIN s /\ s[i + 1] = q[i]
    OBVIOUS
  <2>1. i + 1 \in 1 .. 1 + Len(q) /\ ~(i + 1 <= 1) /\ (i + 1) - 1 = i
    BY <1>2
  <2> QED
    BY <1>3, <1>4, <2>1
<1>7. \A i \in DOMAIN s : i = 1 \/ (i - 1 \in 1 .. Len(q) /\ s[i] = q[i - 1])
  <2> SUFFICES ASSUME NEW i \in DOMAIN s, i # 1
               PROVE  i - 1 \in 1 .. Len(q) /\ s[i] = q[i - 1]
    OBVIOUS
  <2>1. i \in 1 .. 1 + Len(q) /\ ~(i <= 1) /\ i - 1 \in 1 .. Len(q)
    BY <1>2, <1>4
  <2> QED
    BY <1>3, <2>1
<1>8. Range(s) \subseteq {t} \cup Range(q)
  BY <1>2, <1>5, <1>7 DEF Range
<1>9. {t} \cup Range(q) \subseteq Range(s)
  BY <1>2, <1>5, <1>6 DEF Range
<1> QED
  BY <1>3, <1>8, <1>9 DEF s

LEMMA RangeHead ==
    ASSUME NEW q \in Seq(Task), q # <<>>
    PROVE  Tail(q) \in Seq(Task) /\ Range(q) = {Head(q)} \cup Range(Tail(q))
<1>1. /\ Head(q) \in Task /\ Tail(q) \in Seq(Task) /\ Len(Tail(q)) = Len(q) - 1
      /\ \A i \in 1 .. Len(Tail(q)) : Tail(q)[i] = q[i + 1]
      /\ Head(q) = q[1]
  BY HeadTailProperties
<1>2. /\ Len(q) \in Nat \ {0} /\ DOMAIN q = 1 .. Len(q)
      /\ DOMAIN Tail(q) = 1 .. Len(q) - 1
  BY <1>1, LenProperties, EmptySeq
<1>3. \A i \in DOMAIN q : i = 1 \/ (i - 1 \in DOMAIN Tail(q) /\ q[i] = Tail(q)[i - 1])
  <2> SUFFICES ASSUME NEW i \in DOMAIN q, i # 1
               PROVE  i - 1 \in DOMAIN Tail(q) /\ q[i] = Tail(q)[i - 1]
    OBVIOUS
  <2>1. i - 1 \in 1 .. Len(q) - 1 /\ (i - 1) + 1 = i
    BY <1>2
  <2> QED
    BY <1>1, <1>2, <2>1
<1>4. \A i \in DOMAIN Tail(q) : i + 1 \in DOMAIN q /\ Tail(q)[i] = q[i + 1]
  BY <1>1, <1>2
<1>5. 1 \in DOMAIN q
  BY <1>2
<1>6. Range(q) \subseteq {Head(q)} \cup Range(Tail(q))
  BY <1>1, <1>3 DEF Range
<1>7. {Head(q)} \cup Range(Tail(q)) \subseteq Range(q)
  BY <1>1, <1>4, <1>5 DEF Range
<1> QED
  BY <1>1, <1>6, <1>7

LEMMA RangeEmpty == Range(<<>>) = {} /\ <<>> \in Seq(Task)
  BY DEF Range

\* A waker leaves its task due, and everyone else who was.
LEMMA WakeDue ==
    ASSUME NoticeInv, NEW t \in Task, wake(t), UNCHANGED <<round, running>>
    PROVE  /\ queued' \in Seq(Task)
           /\ t \in up => Due(t)'
           /\ \A u : Due(u) => Due(u)'
<1>1. CASE t \in up /\ running # t /\ t \notin Range(round) \cup Range(queued)
  <2>1. queued' = <<t>> \o queued
    BY <1>1 DEF wake
  <2>2. queued' \in Seq(Task) /\ Range(queued') = {t} \cup Range(queued)
    BY <2>1, RangeFront DEF NoticeInv
  <2> QED
    BY <2>2 DEF Due
<1>2. CASE ~(t \in up /\ running # t /\ t \notin Range(round) \cup Range(queued))
  <2>1. queued' = queued
    BY <1>2 DEF wake
  <2> QED
    BY <1>2, <2>1 DEF Due, NoticeInv
<1> QED
  BY <1>1, <1>2

LEMMA NoticeStep ==
    ASSUME StartInv, NoticeInv, [Next]_vars
    PROVE  NoticeInv'
<1>0. "server" \in Task /\ "shell" \in Task
  BY DEF Task
<1>1. ASSUME UNCHANGED <<events, line, up>>, round' \in Seq(Task), queued' \in Seq(Task),
             \A t \in {"server", "shell"} : Due(t) => Due(t)'
      PROVE  NoticeInv'
  BY <1>1 DEF NoticeInv
<1>2. ASSUME UNCHANGED <<round, queued, running>>, events' = events \/ running = "server",
             line' = line \/ line' = "none", up \subseteq up',
             "server" \in up' \ up => running = "server"
      PROVE  NoticeInv'
  BY <1>2 DEF NoticeInv, Due
<1>3. CASE main
  <2>1. UNCHANGED <<round, running, up, events, line>>
    BY <1>3 DEF main, inVars
  <2>2. Starting /\ boot # "done"
    BY <1>3 DEF StartInv, main, NetUp, Started
  <2>3. "server" \notin up /\ line = "none"
    BY <2>2 DEF Starting, NoticeInv
  <2>4. queued' \in Seq(Task)
    <3>1. Spawned \in Seq(Task)
      BY DEF Spawned, Task
    <3> QED
      BY <1>3, <3>1 DEF main, NetUp, NoticeInv
  <2> QED
    BY <2>1, <2>3, <2>4 DEF NoticeInv
<1>4. CASE StartRound
  <2>1. UNCHANGED <<events, line, up, running>> /\ round' = queued /\ queued' = <<>> /\ round = <<>>
    BY <1>4 DEF StartRound, inVars
  <2>2. round' \in Seq(Task) /\ queued' \in Seq(Task)
    BY <2>1, RangeEmpty DEF NoticeInv
  <2>3. \A t : Due(t) => Due(t)'
    BY <2>1, RangeEmpty DEF Due
  <2> QED
    BY <1>1, <2>1, <2>2, <2>3
<1>5. CASE PollTask
  <2>1. /\ UNCHANGED <<events, line, queued>>
        /\ running = "none" /\ running' = Head(round) /\ round # <<>> /\ round' = Tail(round)
        /\ up \subseteq up' /\ up' \subseteq up \cup ({Head(round)} \ {"shell", "server"})
    BY <1>5 DEF PollTask, inVars
  <2>2. round' \in Seq(Task) /\ Range(round) = {running'} \cup Range(round')
    BY <2>1, RangeHead DEF NoticeInv
  <2>3. \A t \in {"server", "shell"} : Due(t) => Due(t)'
    BY <2>1, <2>2 DEF Due
  <2> QED
    BY <2>1, <2>2, <2>3 DEF NoticeInv
<1>6. ASSUME Pending, UNCHANGED <<events, line>>, running # "server" \/ events = <<>>,
             running # "shell" \/ line = "none"
      PROVE  NoticeInv'
  BY <1>6 DEF Pending, NoticeInv, Due
<1>7. CASE OtherPoll
  BY <1>6, <1>7 DEF OtherPoll, inVars
<1>8. CASE ServerStart
  BY <1>2, <1>8 DEF ServerStart, inVars
<1>9. CASE ServerNext
  <2>1. CASE events = <<>> /\ Pending /\ UNCHANGED inVars
    BY <1>6, <1>9, <2>1 DEF ServerNext, inVars
  <2>2. CASE UNCHANGED <<line, seen, execVars>>
    BY <1>2, <1>9, <2>2 DEF ServerNext, execVars
  <2> QED
    BY <1>9, <2>1, <2>2 DEF ServerNext
<1>10. CASE ShellStart
  BY <1>2, <1>10 DEF ShellStart, inVars
<1>11. CASE ShellNext
  <2>1. CASE CmdServer \/ CmdLibcoap
    BY <1>2, <2>1 DEF CmdServer, CmdLibcoap, execVars
  <2>2. CASE line = "none" /\ Pending /\ UNCHANGED inVars
    BY <1>6, <1>11, <2>2 DEF ShellNext, inVars
  <2> QED
    BY <1>11, <2>1, <2>2 DEF ShellNext
<1>12. ASSUME NEW e \in {"self", "other"}, SockEvent(e) PROVE NoticeInv'
  <2>1. wake("server") /\ UNCHANGED <<round, running, up, line>>
    BY <1>12 DEF SockEvent
  <2>2. /\ queued' \in Seq(Task)
        /\ "server" \in up => Due("server")'
        /\ \A u : Due(u) => Due(u)'
    BY <1>0, <2>1, WakeDue
  <2> QED
    BY <2>1, <2>2 DEF NoticeInv
<1>13. ASSUME NEW cmd, Line(cmd) PROVE NoticeInv'
  <2>1. wake("shell") /\ UNCHANGED <<round, running, up, events>> /\ "shell" \in up
    BY <1>13 DEF Line
  <2>2. /\ queued' \in Seq(Task) /\ Due("shell")'
        /\ \A u : Due(u) => Due(u)'
    BY <1>0, <2>1, WakeDue
  <2> QED
    BY <2>1, <2>2 DEF NoticeInv
<1>14. CASE LibcoapTime \/ Answer \/ UNCHANGED vars
  BY <1>2, <1>14 DEF LibcoapTime, Answer, vars, execVars, inVars
<1> QED
  BY <1>3, <1>4, <1>5, <1>7, <1>8, <1>9, <1>10, <1>11, <1>12, <1>13, <1>14
     DEF Next, Thread, Inputs

\* Wherever in a round of the executor a socket event or a line comes, the task
\* it is for is being polled or is going to be: no wake-up is lost.
THEOREM InputsNoticedHolds == Spec => []InputsNoticed
<1>1. Init => StartInv /\ NoticeInv
  <2>1. Init => StartInv
    BY DEF Init, StartInv, Starting, Registered
  <2>2. Init => NoticeInv
    BY RangeEmpty DEF Init, NoticeInv
  <2> QED
    BY <2>1, <2>2
<1>2. (StartInv /\ NoticeInv) /\ [Next]_vars => (StartInv /\ NoticeInv)'
  BY StartStep, NoticeStep
<1>3. StartInv /\ NoticeInv => InputsNoticed
  BY DEF NoticeInv, InputsNoticed, Due
<1> QED
  BY <1>1, <1>2, <1>3, PTL DEF Spec

----------------------------------------------------------------------------
(***************************************************************************)
(* The interfaces: an induction over them, told as an argument about the   *)
(* first one after which the loop would go wrong.                          *)
(***************************************************************************)
LessThan == {p \in Nat \X Nat : p[1] < p[2]}

LEMMA Least ==
    ASSUME NEW S, S \subseteq Nat, S # {}
    PROVE  \E n \in S : \A m \in S : n <= m
<1>1. IsWellFoundedOn(LessThan, Nat)
  BY NatLessThanWellFounded DEF OpToRel, LessThan
<1>2. PICK n \in S : \A m \in S : <<m, n>> \notin LessThan
  BY <1>1, WFMin
<1>3. \A m \in S : ~(m < n)
  BY <1>2 DEF LessThan
<1> QED
  BY <1>3

LEMMA MinIs ==
    ASSUME NEW S, S \subseteq Nat, NEW m \in S, \A x \in S : m <= x
    PROVE  Min(S) = m
<1>1. PICK y : y = Min(S)
  OBVIOUS
<1>2. y \in S /\ \A x \in S : y <= x
  BY <1>1 DEF Min
<1>3. y \in Nat /\ m \in Nat /\ y <= m /\ m <= y
  BY <1>2
<1> QED
  BY <1>1, <1>3

LEMMA MaxIs ==
    ASSUME NEW S, S \subseteq Nat, NEW m \in S, \A x \in S : x <= m
    PROVE  Max(S) = m
<1>1. m \in Nat /\ \A x \in S : m >= x
  OBVIOUS
<1>2. PICK y : y = Max(S)
  OBVIOUS
<1>3. y \in S /\ \A x \in S : y >= x
  BY <1>1, <1>2 DEF Max
<1>4. y \in Nat /\ y >= m /\ m >= y
  BY <1>1, <1>3
<1> QED
  BY <1>1, <1>2, <1>4

First(S) == IF S = {} THEN 0 ELSE Min(S)

\* The first of a set that grows upwards stays the first.
LEMMA FirstOf ==
    ASSUME NEW i \in Nat \ {0}, NEW S, S \subseteq 1 .. i - 1
    PROVE  /\ First(S) \in 0 .. i - 1
           /\ First(S) = 0 <=> S = {}
           /\ First(S \cup {i}) = IF First(S) = 0 THEN i ELSE First(S)
<1>1. CASE S = {}
  <2>1. Min({i}) = i
    BY MinIs
  <2>2. S \cup {i} = {i}
    BY <1>1
  <2> QED
    BY <1>1, <2>1, <2>2 DEF First
<1>2. CASE S # {}
  <2>0. S \subseteq Nat
    OBVIOUS
  <2>1. PICK m \in S : \A x \in S : m <= x
    BY <1>2, <2>0, Least
  <2>2. Min(S) = m
    BY <2>0, <2>1, MinIs
  <2>3. S \cup {i} \subseteq Nat /\ m \in S \cup {i} /\ \A x \in S \cup {i} : m <= x
    BY <2>1
  <2>4. Min(S \cup {i}) = m
    BY <2>3, MinIs
  <2>5. m \in 1 .. i - 1
    BY <2>1
  <2> QED
    BY <1>2, <2>2, <2>4, <2>5 DEF First
<1> QED
  BY <1>1, <1>2

\* The size that interface i of n is taken to have
Told(n, i) == {j \in 1 .. i : n.pdu[j] # "fails"}
Size(n, i) == IF Told(n, i) = {} THEN n.mtu ELSE n.pdu[Max(Told(n, i))]

LEMMA SizeIs ==
    ASSUME NEW n
    PROVE  /\ Size(n, 0) = n.mtu
           /\ \A i \in Nat \ {0} :
                Size(n, i) = IF n.pdu[i] = "fails" THEN Size(n, i - 1) ELSE n.pdu[i]
<1>1. Told(n, 0) = {}
  BY DEF Told
<1>2. ASSUME NEW i \in Nat \ {0}, n.pdu[i] = "fails" PROVE Size(n, i) = Size(n, i - 1)
  <2>1. \A j : j \in 1 .. i <=> j \in 1 .. i - 1 \/ j = i
    OBVIOUS
  <2>2. Told(n, i) = Told(n, i - 1)
    BY <1>2, <2>1 DEF Told
  <2> QED
    BY <2>2 DEF Size
<1>3. ASSUME NEW i \in Nat \ {0}, n.pdu[i] # "fails" PROVE Size(n, i) = n.pdu[i]
  <2>1. Told(n, i) \subseteq Nat /\ i \in Told(n, i) /\ \A x \in Told(n, i) : x <= i
    BY <1>3 DEF Told
  <2>2. Max(Told(n, i)) = i
    BY <2>1, MaxIs
  <2> QED
    BY <2>1, <2>2 DEF Size
<1> QED
  BY <1>1, <1>2, <1>3 DEF Size

\* The loop of find_ifces() is defined round by round.
FindRounds(f, n) == f = [i \in 0 .. n |-> IF i = 0 THEN NoneFound ELSE FindStep(f[i - 1], i)]

LEMMA FindRoundsExist ==
    ASSUME NEW n \in Nat
    PROVE  \E f : FindRounds(f, n)
<1> DEFINE Bad == {m \in Nat : ~ \E f : FindRounds(f, m)}
<1> SUFFICES ASSUME Bad # {} PROVE FALSE
  OBVIOUS
<1>1. PICK m \in Bad : \A k \in Bad : m <= k
  <2>1. Bad \subseteq Nat
    OBVIOUS
  <2> HIDE DEF Bad
  <2> QED
    BY <2>1, Least
<1>2. CASE m = 0
  <2> DEFINE f == [i \in 0 .. 0 |-> NoneFound]
  <2>1. f = [i \in 0 .. 0 |-> IF i = 0 THEN NoneFound ELSE FindStep(f[i - 1], i)]
    OBVIOUS
  <2>2. FindRounds(f, 0)
    BY <2>1 DEF FindRounds
  <2> QED
    BY <1>2, <2>2
<1>3. CASE m # 0
  <2>1. m - 1 \in Nat /\ m - 1 \notin Bad
    BY <1>1, <1>3
  <2>2. PICK g : FindRounds(g, m - 1)
    BY <2>1
  <2>3. /\ g[0] = NoneFound
        /\ \A i \in 1 .. m - 1 : g[i] = FindStep(g[i - 1], i)
    <3>1. \A i \in 0 .. m - 1 : g[i] = IF i = 0 THEN NoneFound ELSE FindStep(g[i - 1], i)
      BY <2>2 DEF FindRounds
    <3> QED
      BY <2>1, <3>1
  <2> DEFINE f == [i \in 0 .. m |-> IF i < m THEN g[i] ELSE FindStep(g[m - 1], m)]
  <2>4. \A i \in 0 .. m : f[i] = IF i = 0 THEN NoneFound ELSE FindStep(f[i - 1], i)
    <3> SUFFICES ASSUME NEW i \in 0 .. m
                 PROVE  f[i] = IF i = 0 THEN NoneFound ELSE FindStep(f[i - 1], i)
      OBVIOUS
    <3>1. CASE i = 0
      BY <1>3, <2>3, <3>1
    <3>2. CASE i # 0 /\ i < m
      <4>1. i \in 1 .. m - 1 /\ i - 1 \in 0 .. m /\ i - 1 < m
        BY <3>2
      <4> QED
        BY <2>3, <3>2, <4>1
    <3>3. CASE i = m
      <4>1. m - 1 \in 0 .. m /\ m - 1 < m /\ ~(m < m)
        BY <2>1
      <4> QED
        BY <1>3, <3>3, <4>1
    <3> QED
      BY <3>1, <3>2, <3>3
  <2>5. f = [i \in 0 .. m |-> IF i = 0 THEN NoneFound ELSE FindStep(f[i - 1], i)]
    BY <2>4
  <2>6. FindRounds(f, m)
    BY <2>5 DEF FindRounds
  <2> QED
    BY <1>1, <2>6
<1> QED
  BY <1>2, <1>3

LEMMA FindLoopIs ==
    ASSUME Len(net.pdu) \in Nat
    PROVE  /\ FindLoop[0] = NoneFound
           /\ \A i \in 1 .. Len(net.pdu) : FindLoop[i] = FindStep(FindLoop[i - 1], i)
<1>1. FindLoop = CHOOSE f : FindRounds(f, Len(net.pdu))
  BY DEF FindLoop, FindRounds
<1>2. FindRounds(FindLoop, Len(net.pdu))
  BY <1>1, FindRoundsExist
<1>3. \A i \in 0 .. Len(net.pdu) :
          FindLoop[i] = IF i = 0 THEN NoneFound ELSE FindStep(FindLoop[i - 1], i)
  BY <1>2 DEF FindRounds
<1> QED
  BY <1>3

\* After i interfaces: the first of each kind among them; mtu is kept up as long
\* as one is missing.
Eth(n, i) == {j \in 1 .. i : Size(n, j) = "eth"}
NotEth(n, i) == {j \in 1 .. i : Size(n, j) # "eth"}

FoundSoFar(i) ==
    LET r == FindLoop[i]
    IN  /\ r = [mtu |-> r.mtu, outer |-> First(Eth(net, i)), inner |-> First(NotEth(net, i))]
        /\ First(Eth(net, i)) = 0 \/ First(NotEth(net, i)) = 0 => r.mtu = Size(net, i)

\* Interface i is of one of the two kinds.
LEMMA OneMore ==
    ASSUME NEW n, NEW i \in Nat \ {0}
    PROVE  /\ Eth(n, i - 1) \subseteq 1 .. i - 1 /\ NotEth(n, i - 1) \subseteq 1 .. i - 1
           /\ Eth(n, i) = IF Size(n, i) = "eth" THEN Eth(n, i - 1) \cup {i} ELSE Eth(n, i - 1)
           /\ NotEth(n, i) = IF Size(n, i) = "eth" THEN NotEth(n, i - 1) ELSE NotEth(n, i - 1) \cup {i}
<1>1. \A j : j \in 1 .. i <=> j \in 1 .. i - 1 \/ j = i
  OBVIOUS
<1> QED
  BY <1>1 DEF Eth, NotEth

LEMMA EachInterface ==
    ASSUME Len(net.pdu) \in Nat, NEW i \in 0 .. Len(net.pdu)
    PROVE  FoundSoFar(i)
<1> DEFINE Bad == {m \in 0 .. Len(net.pdu) : ~FoundSoFar(m)}
<1> SUFFICES ASSUME Bad # {} PROVE FALSE
  OBVIOUS
<1>1. PICK m \in Bad : \A k \in Bad : m <= k
  <2>1. Bad \subseteq Nat
    OBVIOUS
  <2> HIDE DEF Bad
  <2> QED
    BY <2>1, Least
<1>2. CASE m = 0
  <2>1. FindLoop[0] = [mtu |-> net.mtu, outer |-> 0, inner |-> 0]
    BY FindLoopIs DEF NoneFound
  <2>2. Eth(net, 0) = {} /\ NotEth(net, 0) = {}
    BY DEF Eth, NotEth
  <2>3. First(Eth(net, 0)) = 0 /\ First(NotEth(net, 0)) = 0
    BY <2>2 DEF First
  <2>4. Size(net, 0) = net.mtu
    BY SizeIs
  <2>5. FoundSoFar(0)
    BY <2>1, <2>3, <2>4 DEF FoundSoFar
  <2> QED
    BY <1>1, <1>2, <2>5
<1>3. CASE m # 0
  <2> DEFINE acc == FindLoop[m - 1]
             o == First(Eth(net, m - 1))
             n == First(NotEth(net, m - 1))
             size == Size(net, m)
             mtu == IF net.pdu[m] = "fails" THEN acc.mtu ELSE net.pdu[m]
  <2>1. m \in 1 .. Len(net.pdu) /\ m \in Nat \ {0} /\ m - 1 \in 0 .. Len(net.pdu) /\ m - 1 \notin Bad
    BY <1>1, <1>3
  <2>2. /\ acc = [mtu |-> acc.mtu, outer |-> o, inner |-> n]
        /\ o = 0 \/ n = 0 => acc.mtu = Size(net, m - 1)
    BY <2>1 DEF FoundSoFar
  <2>3. FindLoop[m] = FindStep(acc, m)
    BY <2>1, FindLoopIs
  <2>4. o = 0 \/ n = 0 => mtu = size
    BY <2>1, <2>2, SizeIs
  <2>5. /\ First(Eth(net, m)) = IF size = "eth" /\ o = 0 THEN m ELSE o
        /\ First(NotEth(net, m)) = IF size # "eth" /\ n = 0 THEN m ELSE n
    <3>1. /\ First(Eth(net, m - 1) \cup {m}) = IF o = 0 THEN m ELSE o
          /\ First(NotEth(net, m - 1) \cup {m}) = IF n = 0 THEN m ELSE n
      BY <2>1, OneMore, FirstOf
    <3> QED
      BY <2>1, <3>1, OneMore
  <2>6. acc.outer = o /\ acc.inner = n
    BY <2>2
  <2>7. m # 0
    BY <1>3
  <2> HIDE DEF acc, o, n, size, mtu
  <2>8. FindLoop[m] = IF o # 0 /\ n # 0 THEN acc
                      ELSE IF o = 0 /\ mtu = "eth" THEN [mtu |-> mtu, outer |-> m, inner |-> n]
                      ELSE IF n = 0 /\ mtu # "eth" THEN [mtu |-> mtu, outer |-> o, inner |-> m]
                      ELSE [acc EXCEPT !.mtu = mtu]
    BY <2>3, <2>6 DEF FindStep, mtu
  <2>9. FoundSoFar(m)
    <3>1. CASE o # 0 /\ n # 0
      BY <2>2, <2>5, <2>6, <2>8, <3>1 DEF FoundSoFar
    <3>2. CASE o = 0 /\ size = "eth"
      <4>1. FindLoop[m] = [mtu |-> size, outer |-> m, inner |-> n]
        BY <2>4, <2>8, <3>2
      <4> QED
        BY <2>5, <3>2, <4>1 DEF FoundSoFar, size
    <3>3. CASE n = 0 /\ size # "eth"
      <4>1. FindLoop[m] = [mtu |-> size, outer |-> o, inner |-> m]
        BY <2>4, <2>8, <3>3
      <4> QED
        BY <2>5, <3>3, <4>1 DEF FoundSoFar, size
    <3>4. CASE (o = 0 \/ n = 0) /\ ~(o = 0 /\ size = "eth") /\ ~(n = 0 /\ size # "eth")
      <4>1. FindLoop[m] = [mtu |-> size, outer |-> o, inner |-> n]
        BY <2>2, <2>4, <2>8, <3>4
      <4> QED
        BY <2>5, <3>4, <4>1 DEF FoundSoFar, size
    <3> QED
      BY <3>1, <3>2, <3>3, <3>4
  <2> QED
    BY <1>1, <2>9
<1> QED
  BY <1>2, <1>3

----------------------------------------------------------------------------
(* set_ips() *)

\* Each address of the inner interface comes after the router advert's step.
InnerLast(s) ==
    \A i \in 1 .. Len(s) : s[i] = "inner address" => \E j \in 1 .. i : s[j] = "no router advert"

IpStep == {"outer address", "default route", "no router advert", "inner iid", "inner address"}

LEMMA IpStepsOrder ==
    ASSUME NEW addr \in BOOLEAN
    PROVE  /\ IpSteps(addr) \in Seq(IpStep)
           /\ net.outer = 0 => IpSteps(addr) = <<>>
           /\ InnerLast(IpSteps(addr))
<1> DEFINE a == IF addr THEN <<"outer address", "default route">> ELSE <<>>
           b == <<"no router advert">>
           c == IF net.inner = 0 THEN <<>> ELSE <<"inner iid", "inner address">>
<1>1. CASE net.outer = 0
  BY <1>1 DEF IpSteps, InnerLast
<1>2. CASE net.outer # 0
  <2>1. IpSteps(addr) = (a \o b) \o c
    BY <1>2 DEF IpSteps
  <2>2. /\ a \in Seq(IpStep) /\ Len(a) \in Nat
        /\ \A i \in 1 .. Len(a) : a[i] # "inner address"
    <3>0. a = <<>> \/ a = <<"outer address", "default route">>
      OBVIOUS
    <3> HIDE DEF a
    <3>1. CASE a = <<>>
      BY <3>1
    <3>2. CASE a = <<"outer address", "default route">>
      <4>0. <<"outer address", "default route">> \in Seq(IpStep)
        BY DEF IpStep
      <4>1. a \in Seq(IpStep)
        BY <3>2, <4>0, Zenon
      <4>2. Len(a) = 2
        BY <3>2
      <4>3. a[1] = "outer address" /\ a[2] = "default route"
        BY <3>2
      <4>4. \A i \in 1 .. 2 : i = 1 \/ i = 2
        OBVIOUS
      <4>5. \A i \in 1 .. 2 : a[i] # "inner address"
        BY <4>3, <4>4
      <4>6. Len(a) \in Nat
        BY <4>2
      <4> QED
        BY <4>1, <4>2, <4>5, <4>6, Zenon
    <3> QED
      BY <3>0, <3>1, <3>2
  <2>3. b \in Seq(IpStep) /\ Len(b) = 1 /\ b[1] = "no router advert"
    BY DEF IpStep
  <2>4. c \in Seq(IpStep) /\ Len(c) \in Nat
    <3>1. <<>> \in Seq(IpStep) /\ <<"inner iid", "inner address">> \in Seq(IpStep)
      BY DEF IpStep
    <3>2. c \in Seq(IpStep)
      BY <3>1
    <3> QED
      BY <3>2, LenProperties
  <2> HIDE DEF a, b, c
  <2>l. Len(a) \in Nat
    BY <2>2
  <2>5. /\ a \o b \in Seq(IpStep) /\ Len(a \o b) = Len(a) + 1
        /\ \A i \in 1 .. Len(a) + 1 : (a \o b)[i] = IF i <= Len(a) THEN a[i] ELSE b[i - Len(a)]
    <3>1. /\ a \o b \in Seq(IpStep) /\ Len(a \o b) = Len(a) + Len(b)
          /\ \A i \in 1 .. Len(a) + Len(b) : (a \o b)[i] = IF i <= Len(a) THEN a[i] ELSE b[i - Len(a)]
      BY <2>2, <2>3, ConcatProperties
    <3> QED
      BY <2>3, <3>1
  <2> DEFINE ab == a \o b
             s == ab \o c
  <2>6. ab \in Seq(IpStep) /\ Len(ab) = Len(a) + 1 /\ ab[Len(a) + 1] = "no router advert"
        /\ \A i \in 1 .. Len(a) : ab[i] = a[i]
    <3>1. /\ Len(a) + 1 \in 1 .. Len(a) + 1 /\ ~(Len(a) + 1 <= Len(a)) /\ (Len(a) + 1) - Len(a) = 1
          /\ \A i \in 1 .. Len(a) : i \in 1 .. Len(a) + 1 /\ i <= Len(a)
      BY <2>l
    <3> QED
      BY <2>3, <2>5, <3>1
  <2> HIDE DEF ab
  <2>7. /\ s \in Seq(IpStep) /\ Len(s) = Len(ab) + Len(c)
        /\ \A i \in 1 .. Len(ab) + Len(c) : s[i] = IF i <= Len(ab) THEN ab[i] ELSE c[i - Len(ab)]
    BY <2>4, <2>6, ConcatProperties
  <2>8. s[Len(a) + 1] = "no router advert" /\ \A i \in 1 .. Len(a) : s[i] # "inner address"
    <3>1. \A i \in 1 .. Len(a) + 1 : i \in 1 .. Len(ab) + Len(c) /\ i <= Len(ab)
      <4>1. Len(ab) = Len(a) + 1
        BY <2>6
      <4>2. Len(c) \in Nat
        BY <2>4
      <4> QED
        BY <2>l, <4>1, <4>2
    <3>2. \A i \in 1 .. Len(a) + 1 : s[i] = ab[i]
      BY <2>7, <3>1
    <3>3. Len(a) + 1 \in 1 .. Len(a) + 1 /\ \A i \in 1 .. Len(a) : i \in 1 .. Len(a) + 1
      BY <2>l
    <3> QED
      BY <2>2, <2>6, <3>2, <3>3
  <2> HIDE DEF s
  <2>9. InnerLast(s)
    <3>0. SUFFICES ASSUME NEW i \in 1 .. Len(s), s[i] = "inner address"
                   PROVE  \E j \in 1 .. i : s[j] = "no router advert"
      BY DEF InnerLast
    <3>1. ~(i \in 1 .. Len(a))
      BY <2>8, <3>0
    <3>2. Len(a) + 1 \in 1 .. i
      <4>1. i \in Nat /\ 1 <= i
        OBVIOUS
      <4> QED
        BY <2>l, <3>1, <4>1
    <3> QED
      BY <2>8, <3>2
  <2> QED
    BY <1>2, <2>1, <2>7, <2>9 DEF s, ab
<1> QED
  BY <1>1, <1>2

IpsInOrder(done, n) ==
    "inner address" \in Range(done) => n.outer # 0 /\ "no router advert" \in Range(done)

LEMMA SetIps ==
    ASSUME set_ips
    PROVE  IpsInOrder(ips', net)
<1>1. PICK addr \in BOOLEAN : \E n \in 0 .. Len(IpSteps(addr)) : ips' = SubSeq(IpSteps(addr), 1, n)
  BY DEF set_ips
<1> DEFINE s == IpSteps(addr)
<1>2. s \in Seq(IpStep) /\ (net.outer = 0 => s = <<>>) /\ InnerLast(s)
  BY IpStepsOrder
<1> HIDE DEF s
<1>3. PICK n \in 0 .. Len(s) : ips' = SubSeq(s, 1, n)
  BY <1>1 DEF s
<1>4. Len(s) \in Nat /\ (s = <<>> => Len(s) = 0) /\ n \in 0 .. Len(s)
  BY <1>2, <1>3, LenProperties, EmptySeq
<1>5. /\ ips' \in Seq(IpStep) /\ Len(ips') = n /\ \A i \in 1 .. n : ips'[i] = s[i]
  <2>1. \A i \in 1 .. n : s[i] \in IpStep
    BY <1>2, <1>4, ElementOfSeq
  <2>2. n - 1 + 1 = n /\ \A i \in 1 .. n : 1 + i - 1 = i
    BY <1>4
  <2> QED
    BY <1>2, <1>3, <1>4, <2>1, <2>2, SubSeqProperties
<1>6. DOMAIN ips' = 1 .. n
  BY <1>5, LenProperties
<1>i. SUFFICES ASSUME "inner address" \in Range(ips')
               PROVE  net.outer # 0 /\ "no router advert" \in Range(ips')
  BY DEF IpsInOrder
<1>7. PICK i \in 1 .. n : s[i] = "inner address"
  BY <1>i, <1>5, <1>6 DEF Range
<1>8. i \in 1 .. Len(s) /\ Len(s) # 0 /\ \A j \in 1 .. i : j \in 1 .. n
  <2>1. i \in 1 .. n
    BY <1>7
  <2>2. Len(s) \in Nat /\ n \in 0 .. Len(s)
    BY <1>4
  <2> QED
    BY <2>1, <2>2
<1>9. PICK j \in 1 .. n : s[j] = "no router advert"
  BY <1>2, <1>7, <1>8 DEF InnerLast
<1>10. net.outer # 0
  BY <1>2, <1>4, <1>8
<1> QED
  BY <1>5, <1>6, <1>9, <1>10 DEF Range

FoundIn(n) ==
    /\ n.outer = First({i \in DOMAIN n.pdu : Size(n, i) = "eth"})
    /\ n.inner = First({i \in DOMAIN n.pdu : Size(n, i) # "eth"})

NetRecord == [pdu : Seq(Pdu), mtu : {"eth", "other"}, outer : Nat, inner : Nat]

NetInv ==
    /\ net \in NetRecord
    /\ boot # "ifces" => FoundIn(net)
    /\ boot # "ips" => IpsInOrder(ips, net)
    /\ boot \in {"ifces", "ips"} => ips = <<>>

LEMMA FindIfces ==
    ASSUME net \in NetRecord, find_ifces
    PROVE  net' \in NetRecord /\ FoundIn(net')
<1>1. Len(net.pdu) \in Nat /\ DOMAIN net.pdu = 1 .. Len(net.pdu)
  <2>1. net.pdu \in Seq(Pdu)
    BY DEF NetRecord
  <2> QED
    BY <2>1, LenProperties
<1> DEFINE l == Len(net.pdu)
           o == First(Eth(net, l))
           i == First(NotEth(net, l))
<1>2. FoundSoFar(l)
  <2>1. l \in 0 .. l
    BY <1>1
  <2> QED
    BY <1>1, <2>1, EachInterface
<1>3. FindLoop[l].outer = o /\ FindLoop[l].inner = i
  BY <1>2 DEF FoundSoFar
<1>4. o \in Nat /\ i \in Nat
  <2>1. l + 1 \in Nat \ {0} /\ (l + 1) - 1 = l
    BY <1>1
  <2>2. Eth(net, l) \subseteq 1 .. (l + 1) - 1 /\ NotEth(net, l) \subseteq 1 .. (l + 1) - 1
    BY <2>1 DEF Eth, NotEth
  <2>3. o \in 0 .. (l + 1) - 1 /\ i \in 0 .. (l + 1) - 1
    BY <2>1, <2>2, FirstOf
  <2> QED
    BY <2>1, <2>3
<1> HIDE DEF o, i
<1>5. net' = [pdu |-> net.pdu, mtu |-> net.mtu, outer |-> o, inner |-> i]
  BY <1>3 DEF find_ifces, NetRecord
<1>6. net' \in NetRecord
  BY <1>4, <1>5 DEF NetRecord
<1>7. \A j : Size(net', j) = Size(net, j)
  BY <1>5 DEF Size, Told
<1>8. /\ {j \in DOMAIN net'.pdu : Size(net', j) = "eth"} = Eth(net, l)
      /\ {j \in DOMAIN net'.pdu : Size(net', j) # "eth"} = NotEth(net, l)
  BY <1>1, <1>5, <1>7 DEF Eth, NotEth
<1> QED
  BY <1>5, <1>6, <1>8 DEF FoundIn, o, i

LEMMA NetStep ==
    ASSUME NetInv, [Next]_vars
    PROVE  NetInv'
<1>1. CASE UNCHANGED bootVars
  BY <1>1 DEF NetInv, bootVars
<1>2. CASE main
  <2>1. CASE boot = "ifces" /\ boot' = "ips" /\ find_ifces /\ UNCHANGED ips
    BY <2>1, FindIfces DEF NetInv
  <2>2. CASE boot = "ips" /\ boot' = "fileserver" /\ set_ips /\ UNCHANGED net
    <3>1. IpsInOrder(ips', net)
      BY <2>2, SetIps
    <3> QED
      BY <2>2, <3>1 DEF NetInv
  <2>3. CASE boot = "fileserver" /\ boot' = "rustmod_start" /\ UNCHANGED <<net, ips>>
    BY <2>3 DEF NetInv
  <2>4. CASE boot' = "done" /\ net' = NoNet /\ ips' = <<>>
    <3>1. NoNet \in NetRecord
      BY DEF NoNet, NetRecord, Pdu
    <3>2. DOMAIN NoNet.pdu = {} /\ NoNet.outer = 0 /\ NoNet.inner = 0
      BY DEF NoNet
    <3>3. FoundIn(NoNet)
      BY <3>2 DEF FoundIn, First
    <3>4. IpsInOrder(<<>>, NoNet)
      BY RangeEmpty DEF IpsInOrder
    <3> QED
      BY <2>4, <3>1, <3>3, <3>4 DEF NetInv
  <2> QED
    BY <1>2, <2>1, <2>2, <2>3, <2>4 DEF main, NetUp
<1>3. CASE StartRound \/ PollTask \/ OtherPoll \/ ServerStart \/ ServerNext \/ ShellStart
  BY <1>1, <1>3 DEF StartRound, PollTask, OtherPoll, ServerStart, ServerNext, ShellStart
<1>4. CASE ShellNext \/ LibcoapTime \/ Answer \/ UNCHANGED vars
  BY <1>1, <1>4 DEF ShellNext, LibcoapTime, Answer, vars
<1>5. CASE Inputs
  BY <1>1, <1>5 DEF Inputs, SockEvent, Line
<1> QED
  BY <1>2, <1>3, <1>4, <1>5 DEF Next, Thread

\* For any number of interfaces, whatever sizes they tell or fail to tell, and
\* whatever the uninitialized mtu holds: find_ifces() finds the first of each
\* kind, and set_ips() gives the inner one an address only after the outer's
\* steps, wherever it fails.
THEOREM IfcesFoundHolds == Spec => []IfcesFound
<1>1. Init => NetInv
  <2> SUFFICES ASSUME Init PROVE NetInv
    OBVIOUS
  <2>1. PICK pdu \in SeqOf(Pdu, MaxIfces), mtu \in {"eth", "other"} :
            net = [pdu |-> pdu, mtu |-> mtu, outer |-> 0, inner |-> 0]
    BY DEF Init
  <2>2. pdu \in Seq(Pdu)
    <3>1. PICK m \in 0 .. MaxIfces : pdu \in [1 .. m -> Pdu]
      BY DEF SeqOf
    <3>2. m \in Nat
      BY <3>1, NodeAssumption
    <3> QED
      BY <3>1, <3>2
  <2>3. net \in NetRecord
    BY <2>1, <2>2 DEF NetRecord
  <2> QED
    BY <2>3, RangeEmpty DEF Init, NetInv, IpsInOrder
<1>2. NetInv /\ [Next]_vars => NetInv'
  BY NetStep
<1>3. NetInv => IfcesFound
  <2> SUFFICES ASSUME NetInv PROVE IfcesFound
    OBVIOUS
  <2>1. IpsInOrder(ips, net)
    BY RangeEmpty DEF NetInv, IpsInOrder
  <2> QED
    BY <2>1 DEF NetInv, IfcesFound, FoundIn, First, Size, Told, IpsInOrder
<1> QED
  BY <1>1, <1>2, <1>3, PTL DEF Spec
==============================================================================
