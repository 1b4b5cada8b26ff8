------------------------------- MODULE GcoapCli -------------------------------
(***************************************************************************)
(* The `gcoap` shell command (examples/xbd-net, modules/minerva_gcoap/     *)
(* client.c), which follows a Block2 response with a request for the next  *)
(* block, directly or through a proxy, and the /cli/stats resource         *)
(* (server.c), which counts requests and is observed.  Commands and        *)
(* answers interleave; each is one uninterrupted run of the main thread.   *)
(* gcoap is external: it answers every request it took once, by a response *)
(* or by a timeout.                                                        *)
(***************************************************************************)
EXTENDS Naturals, Sequences

CONSTANTS
    Transfer,       \* one member per request typed; also the resource it names
    PathLen,        \* length of its path
    PrefixLen,      \* length of the "coap://[host]:port" of a proxy uri
    _LAST_REQ_PATH_MAX, \* size of _last_req_path and of proxy_uri
    LastBlock,      \* number of the last block of every resource (a bound)
    PutValue,       \* the numbers written to /cli/stats
    MaxPuts,        \* bound on how often that happens
    MaxPings,       \* bound on the `gcoap ping`s
    Liberties,      \* what the user does all the same, see below
    None            \* an empty string, or nothing

(***************************************************************************)
(* "User must not start a new request (with a new path) until any          *)
(* blockwise transfer completes or times out", says client.c.  A run may   *)
(* grant the user "request_midway", to do it all the same.  Nothing keeps  *)
(* the user from setting or unsetting the proxy at any time.               *)
(***************************************************************************)
ASSUME CliAssumption ==
    /\ PathLen \in [Transfer -> Nat]
    /\ PrefixLen \in Nat
    /\ _LAST_REQ_PATH_MAX \in Nat
    /\ LastBlock \in Nat
    /\ PutValue \subseteq Nat
    /\ MaxPuts \in Nat /\ MaxPings \in Nat
    /\ Liberties \subseteq {"request_midway"}
    /\ None \notin Transfer \cup Nat

VARIABLES
    _proxied,       \* client.c: a proxy is configured
    _last_req_path, \* client.c: the uri to ask for again, or None if empty
    req_count,      \* client.c: a uint16_t
    memos,          \* requests gcoap has not answered yet
    started,        \* history: the transfers started
    cut,            \* history: those whose proxy uri did not fit proxy_uri
    switched,       \* history: those during which the proxy was set or unset
    got,            \* history: the blocks received in each transfer
    observed,       \* the count last sent to the observer of /cli/stats, if any
    puts,           \* history: writes to /cli/stats
    unseen,         \* history: one came, or a notification failed, after the
                    \* last notification that was sent
    pings           \* history: `gcoap ping`s

cliVars == <<_proxied, _last_req_path, req_count, memos, started, cut, switched, got, observed, puts, unseen, pings>>

\* A path as typed, or the absolute uri that a proxy is asked for
Uri == [form : {"path", "absolute"}, of : Transfer \cup {None}]

\* An empty _last_req_path is no uri.
ASSUME NoneAssumption == None \notin Uri

\* A request carries its uri in Uri-Path options or in a Proxy-Uri option;
\* None is the empty path.
Request == [option : {"Uri-Path", "Proxy-Uri"}, uri : Uri \cup {None},
            block : 0 .. LastBlock]

\* A memo, and the transfer the user takes its answer for
Memo == [for : Transfer, req : Request]

Uint16 == {n \in Nat : n < 65536}

CliInit ==
    /\ _proxied = FALSE
    /\ _last_req_path = None
    /\ req_count = 0
    /\ memos = {}
    /\ started = {}
    /\ cut = {}
    /\ switched = {}
    /\ got = [t \in Transfer |-> <<>>]
    /\ observed = None
    /\ puts = 0
    /\ unseen = FALSE
    /\ pings = 0

----------------------------------------------------------------------------
(* gcoap_cli_cmd *)

MayRequest == "request_midway" \in Liberties \/ memos = {}

\* What a change of _proxied happens in the middle of
InProgress == {m.for : m \in memos}

proxy_set ==
    /\ _proxied' = TRUE
    /\ switched' = IF _proxied THEN switched ELSE switched \cup InProgress
    /\ UNCHANGED <<_last_req_path, req_count, memos, started, cut, got, observed, puts, unseen, pings>>

proxy_unset ==
    /\ _proxied' = FALSE
    /\ switched' = IF _proxied THEN switched \cup InProgress ELSE switched
    /\ UNCHANGED <<_last_req_path, req_count, memos, started, cut, got, observed, puts, unseen, pings>>

\* uri_len: of the path, or what snprintf() says of the absolute uri
uri_len(t) == PathLen[t] + (IF _proxied THEN PrefixLen ELSE 0)

uri_of(t) == [form |-> IF _proxied THEN "absolute" ELSE "path", of |-> t]

\* Leaves room for the terminating NUL.
Fits(t) == uri_len(t) < _LAST_REQ_PATH_MAX

\* Which option a request is made with depends on _proxied at that moment.
RequestFor(uri, blk) ==
    [option |-> IF _proxied THEN "Proxy-Uri" ELSE "Uri-Path", uri |-> uri, block |-> blk]

\* The observer, if there is one, is sent the count.  GCOAP_OBS_INIT_ERR says
\* so in debugging output only, and what gcoap_obs_send() returns is ignored.
notify_observers(count) ==
    \/ /\ observed = None
       /\ UNCHANGED <<observed, unseen>>
    \/ /\ observed # None
       /\ observed' = count
       /\ unseen' = FALSE
    \/ /\ observed # None
       /\ UNCHANGED observed
       /\ unseen' = TRUE

\* Faulty variants, here and below, are slips the code could have made; each
\* has to be caught by one of the properties.

\* Faulty: the notification is made before the request is counted
CountAfterNotify ==
    /\ req_count' = (req_count + 1) % 65536
    /\ notify_observers(req_count)

\* _send() counts the request; then the observers are notified.
CountAndNotify ==
    /\ req_count' = (req_count + 1) % 65536
    /\ notify_observers(req_count')

\* Faulty: _last_req_path is not cleared first
GetKeepsPath(t) ==
    /\ MayRequest
    /\ t \notin started
    /\ _last_req_path' = IF Fits(t) THEN uri_of(t) ELSE _last_req_path
    /\ cut' = IF _proxied /\ ~Fits(t) THEN cut \cup {t} ELSE cut
    /\ started' = started \cup {t}
    /\ memos' = memos \cup {[for |-> t, req |-> RequestFor(uri_of(t), 0)]}
    /\ CountAndNotify
    /\ UNCHANGED <<_proxied, switched, got, puts, pings>>

\* `gcoap get`, `post` or `put`, sent
get(t) ==
    /\ MayRequest
    /\ t \notin started
    /\ _last_req_path' = IF Fits(t) THEN uri_of(t) ELSE None
    /\ cut' = IF _proxied /\ ~Fits(t) THEN cut \cup {t} ELSE cut
    /\ started' = started \cup {t}
    /\ memos' = memos \cup {[for |-> t, req |-> RequestFor(uri_of(t), 0)]}
    /\ CountAndNotify
    /\ UNCHANGED <<_proxied, switched, got, puts, pings>>

\* The same, "msg buffer too small" or "msg send failed": the path has been
\* replaced by then.
get_fails(t) ==
    /\ MayRequest
    /\ t \notin started
    /\ _last_req_path' = IF Fits(t) THEN uri_of(t) ELSE None
    /\ UNCHANGED <<_proxied, req_count, memos, started, cut, switched, got, observed, puts, unseen, pings>>

\* `gcoap ping`: there is no path, but with a proxy an absolute uri is made
\* of it.  No answer to a ping has a block.
ping ==
    /\ MayRequest
    /\ pings < MaxPings
    /\ pings' = pings + 1
    /\ _last_req_path' = IF _proxied THEN uri_of(None) ELSE None
    /\ CountAndNotify
    /\ UNCHANGED <<_proxied, memos, started, cut, switched, got, puts>>

----------------------------------------------------------------------------
(* _resp_handler *)

\* The resource a server sends a block of, if it understands the request.
\* An absolute uri that was cut names something else.
Answered(r) ==
    IF r.uri # None /\ (r.option = "Proxy-Uri" <=> r.uri.form = "absolute")
    THEN IF r.uri.form = "absolute" /\ r.uri.of \in cut THEN None ELSE r.uri.of
    ELSE None

\* A timeout, an error, or a response without a Block2 option
RespondPlain(m) ==
    /\ memos' = memos \ {m}
    /\ UNCHANGED <<_proxied, _last_req_path, req_count, started, cut, switched, got, observed, puts, unseen, pings>>

\* The block is shown to the user.
Show(m) == got' = [got EXCEPT ![m.for] = Append(@, <<Answered(m.req), m.req.block>>)]

\* Faulty: asks for the same block again
RespondMoreSame(m) ==
    /\ m.req.block < LastBlock
    /\ ~(m.req.block = 0 /\ _last_req_path = None)
    /\ Show(m)
    /\ memos' = (memos \ {m}) \cup
           {[for |-> m.for, req |-> RequestFor(_last_req_path, m.req.block)]}
    /\ UNCHANGED <<_proxied, _last_req_path, req_count, started, cut, switched, observed, puts, unseen, pings>>

\* Block2 with `more`: the next block is requested, and gcoap may refuse.
RespondMore(m) ==
    /\ m.req.block < LastBlock
    /\ ~(m.req.block = 0 /\ _last_req_path = None)
    /\ Show(m)
    /\ \/ memos' = (memos \ {m}) \cup
              {[for |-> m.for, req |-> RequestFor(_last_req_path, m.req.block + 1)]}
       \/ memos' = memos \ {m}
    /\ UNCHANGED <<_proxied, _last_req_path, req_count, started, cut, switched, observed, puts, unseen, pings>>

\* "Path too long; can't complete blockwise"
RespondTooLong(m) ==
    /\ m.req.block = 0 /\ m.req.block < LastBlock
    /\ _last_req_path = None
    /\ Show(m)
    /\ memos' = memos \ {m}
    /\ UNCHANGED <<_proxied, _last_req_path, req_count, started, cut, switched, observed, puts, unseen, pings>>

\* "--- blockwise complete ---"
RespondLast(m) ==
    /\ m.req.block = LastBlock
    /\ Show(m)
    /\ memos' = memos \ {m}
    /\ UNCHANGED <<_proxied, _last_req_path, req_count, started, cut, switched, observed, puts, unseen, pings>>

_resp_handler(m) ==
    RespondPlain(m) \/ RespondMore(m) \/ RespondTooLong(m) \/ RespondLast(m)

----------------------------------------------------------------------------
(* _stats_handler, for the requests of others *)

\* An observer registers with a GET.
stats_observe ==
    /\ observed' = req_count
    /\ unseen' = FALSE
    /\ UNCHANGED <<_proxied, _last_req_path, req_count, memos, started, cut, switched, got, puts, pings>>

\* Faulty: the number is not cut to 16 bits
StatsPutWide(v) ==
    /\ puts < MaxPuts
    /\ v <= 99999
    /\ req_count' = v
    /\ puts' = puts + 1
    /\ unseen' = TRUE
    /\ UNCHANGED <<_proxied, _last_req_path, memos, started, cut, switched, got, observed, pings>>

\* PUT or POST of up to five digits: strtoul(), cut to 16 bits; no notification.
stats_put(v) ==
    /\ puts < MaxPuts
    /\ v <= 99999
    /\ req_count' = v % 65536
    /\ puts' = puts + 1
    /\ unseen' = TRUE
    /\ UNCHANGED <<_proxied, _last_req_path, memos, started, cut, switched, got, observed, pings>>

----------------------------------------------------------------------------
CliNext ==
    \/ proxy_set \/ proxy_unset
    \/ \E t \in Transfer : get(t) \/ get_fails(t)
    \/ ping
    \/ \E m \in memos : _resp_handler(m)
    \/ stats_observe
    \/ \E v \in PutValue : stats_put(v)

CliSpec == CliInit /\ [][CliNext]_cliVars

----------------------------------------------------------------------------
TypeOK ==
    /\ _proxied \in BOOLEAN
    /\ _last_req_path \in Uri \cup {None}
    /\ req_count \in Uint16
    /\ memos \subseteq Memo
    /\ started \subseteq Transfer
    /\ cut \subseteq started
    /\ switched \subseteq Transfer
    /\ got \in [Transfer -> Seq((Transfer \cup {None}) \X (0 .. LastBlock))]
    /\ observed \in Uint16 \cup {None}
    /\ puts \in 0 .. MaxPuts
    /\ unseen \in BOOLEAN
    /\ pings \in 0 .. MaxPings

\* For a user who keeps to the rule, every request in flight asks for the
\* block after those already shown, never for another transfer's, and it asks
\* the right way unless the uri was cut from the start or the proxy was set or
\* unset since: _proxied is read again for each block, the uri is not made
\* again.
AsksNext ==
    \A m \in memos :
        /\ m.req.block = Len(got[m.for])
        /\ Answered(m.req) \in {m.for, None}
        /\ m.for \notin cut \cup switched => Answered(m.req) = m.for

\* A transfer whose uri did not fit _last_req_path stops after its first
\* block: it is never continued with an empty, a cut or an older path.
TooLongStops ==
    \A t \in started :
        PathLen[t] >= _LAST_REQ_PATH_MAX \/ t \in cut => Len(got[t]) <= 1

\* The observer of /cli/stats was sent the current count, unless someone wrote
\* to it, or a notification failed, since the last one that was sent: every
\* request that is counted notifies, and of the count it made.
ObserverLags == observed # None /\ observed # req_count => unseen
==============================================================================
