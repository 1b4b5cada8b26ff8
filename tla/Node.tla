-------------------------------- MODULE Node --------------------------------
(***************************************************************************)
(* The firmware of examples/xbd-net from main() on: network set-up, the    *)
(* file server's resources, and embassy's executor with its four tasks.    *)
(* What the tasks do is in modules of their own; here they share the one   *)
(* thread.  A shell command runs within a poll of the shell's task: the    *)
(* command libcoap, LibcoapClient, keeps the thread until it ends, while   *)
(* gcoap's thread goes on adding socket events to the server's stream.     *)
(* The streams are bounded channels, as XStream shows.                     *)
(***************************************************************************)
EXTENDS LibcoapClient, FiniteSets, FiniteSetsExt

CONSTANTS
    MaxIfces,   \* bound on the number of network interfaces
    MaxEvents,  \* bound on socket events; the capacity of the server's stream
    MaxLines    \* bound on lines typed

ASSUME NodeAssumption == MaxIfces \in Nat /\ MaxEvents \in Nat /\ MaxLines \in Nat

Task == {"main", "shell", "server", "api"}

\* Whether NETOPT_MAX_PDU_SIZE of an interface is ETHERNET_DATA_LEN, is another
\* size, or cannot be got, in which case mtu keeps the value it had
Pdu == {"eth", "other", "fails"}

VARIABLES
    boot,       \* how far main() is
    net,        \* the interfaces, what the uninitialized mtu holds, and which
                \* interfaces were found, 0 for none
    ips,        \* the steps of set_ips() that were done
    listeners,  \* calls of gcoap_register_listener
    server_init_done,
    credFailed, \* credman_add() failed
    panicked,   \* a task's result was unwrapped that was an Err
    round,      \* tasks the current poll() of the executor will poll
    queued,     \* tasks in the run queue
    running,    \* the task being polled
    up,         \* tasks whose first poll began
    events,     \* the server's stream: "self" for the libcoap client's request
    reply,      \* that request was answered
    line,       \* a line accepted by the shell and not yet run
    seen        \* how many events and lines there were

bootVars == <<boot, net, ips>>
serverVars == <<listeners, server_init_done, credFailed, panicked>>
execVars == <<round, queued, running, up>>
inVars == <<events, reply, line, seen>>
vars == <<libVars, bootVars, serverVars, execVars, inVars>>

Init ==
    /\ LibInit
    /\ boot = "ifces"
    /\ net \in [pdu : SeqOf(Pdu, MaxIfces), mtu : {"eth", "other"}, outer : {0}, inner : {0}]
    /\ ips = <<>>
    /\ listeners = <<>>
    /\ server_init_done = FALSE /\ credFailed = FALSE /\ panicked = FALSE
    /\ round = <<>> /\ queued = <<>> /\ running = "none" /\ up = {}
    /\ events = <<>> /\ reply = FALSE /\ line = "none"
    /\ seen = [events |-> 0, lines |-> 0]

----------------------------------------------------------------------------
(* main() *)

\* Before the loop over the interfaces
NoneFound == [mtu |-> net.mtu, outer |-> 0, inner |-> 0]

\* One round of the loop, not entered once both are found
FindStep(acc, i) ==
    LET mtu == IF net.pdu[i] = "fails" THEN acc.mtu ELSE net.pdu[i]
    IN  IF acc.outer # 0 /\ acc.inner # 0 THEN acc
        ELSE IF acc.outer = 0 /\ mtu = "eth" THEN [mtu |-> mtu, outer |-> i, inner |-> acc.inner]
        ELSE IF acc.inner = 0 /\ mtu # "eth" THEN [mtu |-> mtu, outer |-> acc.outer, inner |-> i]
        ELSE [acc EXCEPT !.mtu = mtu]

\* Faulty: the second test lacks its `mtu !=`
FindStepAny(acc, i) ==
    LET mtu == IF net.pdu[i] = "fails" THEN acc.mtu ELSE net.pdu[i]
    IN  IF acc.outer # 0 /\ acc.inner # 0 THEN acc
        ELSE IF acc.outer = 0 /\ mtu = "eth" THEN [mtu |-> mtu, outer |-> i, inner |-> acc.inner]
        ELSE IF acc.inner = 0 THEN [mtu |-> mtu, outer |-> acc.outer, inner |-> i]
        ELSE [acc EXCEPT !.mtu = mtu]

FindIfcesAny ==
    LET loop[i \in 0 .. Len(net.pdu)] ==
            IF i = 0 THEN NoneFound ELSE FindStepAny(loop[i - 1], i)
        r == loop[Len(net.pdu)]
    IN  net' = [net EXCEPT !.outer = r.outer, !.inner = r.inner]

\* The loop: what mtu, *outer and *inner hold after each interface
FindLoop ==
    LET loop[i \in 0 .. Len(net.pdu)] ==
            IF i = 0 THEN NoneFound ELSE FindStep(loop[i - 1], i)
    IN  loop

find_ifces ==
    LET r == FindLoop[Len(net.pdu)]
    IN  net' = [net EXCEPT !.outer = r.outer, !.inner = r.inner]

\* The steps of set_ips() in the default build, or in one with IPV6_AUTO=0.
IpSteps(addr) ==
    IF net.outer = 0 THEN <<>>
    ELSE (IF addr THEN <<"outer address", "default route">> ELSE <<>>)
         \o <<"no router advert">>
         \o (IF net.inner = 0 THEN <<>> ELSE <<"inner iid", "inner address">>)

\* Each step may fail, but for the router advert's, and ends it then.
set_ips ==
    \E addr \in BOOLEAN : \E n \in 0 .. Len(IpSteps(addr)) :
        /\ n < Len(IpSteps(addr)) => IpSteps(addr)[n + 1] # "no router advert"
        /\ ips' = SubSeq(IpSteps(addr), 1, n)

\* vfs_mount() and gcoap_register_listener() of /const and /vfs
init_gcoap_fileserver == listeners' = Append(listeners, "fileserver")

\* Faulty: the shell's task is spawned after the server's
ShellSpawnedLate == <<"api", "shell", "server", "main">>

\* Runtime::run(): the run queue gives back last what was spawned first.
Spawned == <<"api", "server", "shell", "main">>

\* What was found and set up is read no more, and forgotten in the model.
NoNet == [pdu |-> <<>>, mtu |-> "other", outer |-> 0, inner |-> 0]

\* main() goes on whatever set_ips() returns.
NetUp ==
    /\ \/ boot = "ifces" /\ boot' = "ips" /\ find_ifces /\ UNCHANGED ips
       \/ boot = "ips" /\ boot' = "fileserver" /\ set_ips /\ UNCHANGED net
    /\ UNCHANGED <<listeners, queued>>

\* The branches under `if (0)` in between are not modelled.
main ==
    /\ \/ NetUp
       \/ /\ boot = "fileserver" /\ boot' = "rustmod_start"
          /\ init_gcoap_fileserver
          /\ UNCHANGED <<net, ips, queued>>
       \/ /\ boot = "rustmod_start" /\ boot' = "done"
          /\ queued' = Spawned
          /\ net' = NoNet /\ ips' = <<>> /\ UNCHANGED listeners
    /\ UNCHANGED <<libVars, server_init_done, credFailed, panicked, round, running, up, inVars>>

----------------------------------------------------------------------------
(* The executor *)

\* poll() takes over the run queue
StartRound ==
    /\ round = <<>> /\ running = "none" /\ queued # <<>>
    /\ round' = queued /\ queued' = <<>>
    /\ UNCHANGED <<libVars, bootVars, serverVars, running, up, inVars>>

\* and polls its tasks one after the other.
PollTask ==
    /\ running = "none" /\ round # <<>>
    /\ running' = Head(round) /\ round' = Tail(round)
    /\ up' = up \cup ({Head(round)} \ {"shell", "server"})
    /\ UNCHANGED <<libVars, bootVars, serverVars, queued, inVars>>

\* The task being polled awaits, and has left its waker.
Pending == running' = "none" /\ UNCHANGED <<round, queued, up>>

\* Faulty: a wake-up during a poll is lost
WakeBetweenPolls(t) ==
    IF t \in up /\ running = "none" /\ t \notin Range(round) \cup Range(queued)
    THEN queued' = <<t>> \o queued ELSE UNCHANGED queued

\* A waker puts its task in front of the run queue, unless it is there.
wake(t) ==
    IF t \in up /\ running # t /\ t \notin Range(round) \cup Range(queued)
    THEN queued' = <<t>> \o queued ELSE UNCHANGED queued

\* The tasks xbd_main and process_api_stream, whose polls are short
OtherPoll ==
    /\ running \in {"main", "api"}
    /\ Pending
    /\ UNCHANGED <<libVars, bootVars, serverVars, inVars>>

----------------------------------------------------------------------------
(* The server's task *)

\* server_init() and what it returns: 1 if it was called before, 2 if the
\* credential could not be added, which it does not undo.
server_init(ret) ==
    \/ /\ ret = 1 /\ server_init_done
       /\ UNCHANGED <<server_init_done, listeners, credFailed>>
    \/ /\ ret = 0 /\ ~server_init_done
       /\ server_init_done' = TRUE
       /\ listeners' = Append(listeners, "server")
       /\ UNCHANGED credFailed
    \/ /\ ret = 2 /\ ~server_init_done
       /\ server_init_done' = TRUE /\ credFailed' = TRUE
       /\ UNCHANGED listeners

\* Its first poll: what server_init() returns is unwrapped, if it is not 0.
ServerStart ==
    /\ running = "server" /\ "server" \notin up
    /\ up' = up \cup {"server"}
    /\ \E ret \in 0 .. 2 : server_init(ret) /\ panicked' = (ret # 0)
    /\ UNCHANGED <<libVars, bootVars, round, queued, running, inVars>>

\* The loop over the stream
ServerNext ==
    /\ running = "server" /\ "server" \in up
    /\ \/ /\ events = <<>> /\ Pending
          /\ UNCHANGED inVars
       \/ /\ events # <<>>
          /\ events' = Tail(events)
          /\ reply' = (reply \/ Head(events) = "self")
          /\ UNCHANGED <<line, seen, execVars>>
    /\ UNCHANGED <<libVars, bootVars, serverVars>>

\* Faulty: messages are handled in gcoap's thread, as other events are
SockEventDirect(e) ==
    /\ boot = "done"
    /\ seen.events < MaxEvents
    /\ e = "self" => call.target = "self" /\ ~call.delayed
    /\ reply' = (reply \/ e = "self")
    /\ seen' = [seen EXCEPT !.events = @ + 1]
    /\ UNCHANGED <<libVars, bootVars, serverVars, execVars, events, line>>

\* gcoap's thread adds a message event to the stream; it cannot be another
\* request of the command's if that is not running.
SockEvent(e) ==
    /\ boot = "done"
    /\ seen.events < MaxEvents
    /\ e = "self" => call.target = "self" /\ ~call.delayed
    /\ events' = Append(events, e)
    /\ seen' = [seen EXCEPT !.events = @ + 1]
    /\ wake("server")
    /\ UNCHANGED <<libVars, bootVars, serverVars, round, running, up, reply, line>>

----------------------------------------------------------------------------
(* The shell's task *)

\* Its first poll: xbd_async_shell_init(), from when on lines arrive
ShellStart ==
    /\ running = "shell" /\ "shell" \notin up
    /\ up' = up \cup {"shell"}
    /\ UNCHANGED <<libVars, bootVars, serverVars, round, queued, running, inVars>>

\* io_signal_handler(): a line is accepted if none is pending, also while a
\* command runs.
Line(cmd) ==
    /\ "shell" \in up
    /\ line = "none"
    /\ seen.lines < MaxLines
    /\ line' = cmd
    /\ seen' = [seen EXCEPT !.lines = @ + 1]
    /\ wake("shell")
    /\ UNCHANGED <<libVars, bootVars, serverVars, round, running, up, events, reply>>

\* `gcoap server`: the result is not looked at.
CmdServer ==
    /\ line = "gcoap server"
    /\ line' = "none"
    /\ \E ret \in 0 .. 2 : server_init(ret)
    /\ UNCHANGED <<libVars, panicked, events, reply, seen, execVars>>

\* `libcoap <uri>`: client_coap_init() within this poll
CmdLibcoap ==
    /\ line = "libcoap"
    /\ line' = "none"
    /\ reply' = FALSE
    /\ \E t \in Target :
          \/ \E delayed \in BOOLEAN : (t = "mcast" => ~delayed) /\ client_coap_init(t, delayed)
          \/ \E s \in Stage : InitFails(t, s)
    /\ UNCHANGED <<serverVars, events, seen, execVars>>

\* The loop over the lines; `libcoap` takes the thread until it is Idle again.
ShellNext ==
    /\ running = "shell" /\ "shell" \in up /\ Idle
    /\ \/ CmdServer
       \/ CmdLibcoap
       \/ line = "none" /\ Pending /\ UNCHANGED <<libVars, serverVars, inVars>>
    /\ UNCHANGED bootVars

\* libcoap's callbacks; the node's own answer needs the server's task.
Answer ==
    /\ \/ (call.target = "self" => reply) /\ message_handler
       \/ nack_handler
       \/ Established
    /\ UNCHANGED <<bootVars, serverVars, execVars, inVars>>

LibcoapTime == (Tick \/ CleanUp) /\ UNCHANGED <<bootVars, serverVars, execVars, inVars>>

----------------------------------------------------------------------------
Thread ==
    \/ main \/ StartRound \/ PollTask \/ OtherPoll
    \/ ServerStart \/ ServerNext \/ ShellStart \/ ShellNext \/ LibcoapTime

Inputs ==
    \/ \E e \in {"self", "other"} : SockEvent(e)
    \/ \E cmd \in {"gcoap server", "libcoap"} : Line(cmd)

Next == ~panicked /\ (Thread \/ Answer \/ Inputs)

Spec == Init /\ [][Next]_vars

\* The main thread runs, and time passes in coap_io_process().
FairSpec == Spec /\ WF_vars(~panicked /\ Thread)

----------------------------------------------------------------------------
\* The interfaces found are the first whose size is Ethernet's and the first
\* whose size is not, where one that tells no size is taken to have that of the
\* interface before it.  Nothing is set up of the inner one without an outer.
IfcesFound ==
    LET size(i) == LET told == {j \in 1 .. i : net.pdu[j] # "fails"}
                   IN  IF told = {} THEN net.mtu ELSE net.pdu[Max(told)]
        first(S) == IF S = {} THEN 0 ELSE Min(S)
    IN  boot # "ifces" =>
            /\ net.outer = first({i \in DOMAIN net.pdu : size(i) = "eth"})
            /\ net.inner = first({i \in DOMAIN net.pdu : size(i) # "eth"})
            /\ "inner address" \in Range(ips) => net.outer # 0 /\ "no router advert" \in Range(ips)

\* The server's task calls server_init() before any line can: no order of lines
\* and polls makes the task unwrap the 1 that a second call gives, and each
\* listener is registered once.
ServerUp ==
    /\ panicked => credFailed
    /\ server_init_done => listeners \in {<<"fileserver">>, <<"fileserver", "server">>}
    /\ server_init_done /\ ~credFailed => Len(listeners) = 2

\* A request that libcoap makes to this node is not answered while it waits:
\* the server's task is not polled before the command ends.
SelfUnanswered == call.target = "self" => ~reply

\* No wake-up is lost between gcoap's thread or the signal handler and the
\* executor: a task that has something to take is being polled, or will be in
\* this round or the next, wherever in a round the event or the line came.
InputsNoticed ==
    LET due(t) == running = t \/ t \in Range(round) \/ t \in Range(queued)
    IN  /\ events # <<>> /\ "server" \in up => due("server")
        /\ line # "none" => due("shell")

\* Commands end, and with them the wait of everyone else in the thread: every
\* socket event is taken from the stream in the end.
EventsServed == events # <<>> ~> events = <<>> \/ panicked
=============================================================================
