-------------------------------- MODULE Shell --------------------------------
(***************************************************************************)
(* The asynchronous shell of examples/xbd-net (src/xbd/shell.rs,           *)
(* modules/minerva_xbd/shell.c) on top of its XStream: the signal handler  *)
(* that collects a line and adds it, and the task that takes lines and     *)
(* runs them.  A line may be a function alias, whose body awaits CoAP      *)
(* requests (ReqInner, src/xbd/gcoap.rs) or a Timeout (src/xbd/timeout.rs).*)
(*                                                                         *)
(* The signal handler interrupts the main thread and finishes before the   *)
(* main thread goes on: no step of the task happens while prod = "wake".   *)
(***************************************************************************)
EXTENDS XStream

CONSTANTS
    SHELL_BUFSIZE,\* capacity of SHELL_BUF
    Kind,         \* the kinds of lines that are typed, see LineKind
    Length,       \* how long they are
    MaxTyped,     \* bound on the lines typed
    Requests      \* how many requests a "request" alias awaits in turn

(***************************************************************************)
(* "blank": nothing but white space; "command": a shell command, as typed  *)
(* or as a named or enumerated alias expands to; "request", "sleep": the   *)
(* function aliases that await requests (f, b, f2, f3) or a Timeout (f1).  *)
(***************************************************************************)
LineKind == {"blank", "command", "request", "sleep"}

\* A line as it travels: when and how it was typed, and the text that is added
\* to the stream: what was typed, a blank line in its place ("\0"), or "nul",
\* a text that starts with a NUL.
Line == [id : 1 .. MaxTyped, kind : LineKind, len : Length,
         text : LineKind \cup {"nul"}]

\* The items of the stream are lines.
ASSUME ShellAssumption ==
    /\ SHELL_BUFSIZE \in Nat \ {0}
    /\ Kind \subseteq LineKind
    /\ Length \subseteq Nat
    /\ MaxTyped \in Nat /\ MaxTyped <= MaxAdds
    /\ Item = Line
    /\ Requests \in Nat \ {0}

VARIABLES
    typed,      \* how many lines were typed
    buflen,     \* SHELL_BUF.len() between inputs; what it holds is a NUL
    fut,        \* the future the body awaits; a request is "Unsent" if it is
                \* Registered and gcoap refused to send it
    left,       \* requests still to be made by the current line
    timers,     \* lines whose ztimer is still to fire
    ran,        \* history: lines whose text was run to its end
    early,      \* a Timeout became ready before its timer fired
    repolled,   \* a request was polled while Registered: panic!()
    raced       \* history: input came between register and second dequeue

shellVars == <<typed, buflen, fut, left, timers, ran, early, repolled, raced>>
allVars == <<vars, shellVars>>

ShellInit ==
    /\ Init
    /\ typed = 0
    /\ buflen = 0
    /\ fut = "none"
    /\ left = 0
    /\ timers = {}
    /\ ran = <<>>
    /\ early = FALSE
    /\ repolled = FALSE
    /\ raced = FALSE

----------------------------------------------------------------------------
(* The signal handler: io_signal_handler and xbd_async_shell_on_char *)

\* Faulty variants, here and below, are slips the code could have made; each
\* has to be caught by one of the properties.

\* Faulty: accepts input at any time
PromptAlwaysReady == TRUE

\* prompt_is_ready: no pending line.  It cannot change within one input.
prompt_is_ready == Len(queue) = 0

Arrival ==
    /\ prod = "idle"
    /\ typed < MaxTyped
    /\ typed' = typed + 1
    /\ raced' = (raced \/ pc = "recheck")

\* Every character is ignored while a line is pending.
InputIgnored ==
    /\ Arrival
    /\ ~prompt_is_ready
    /\ UNCHANGED <<vars, buflen, fut, left, timers, ran, early, repolled>>

\* SHELL_BUF.push('\0') succeeds: the characters that were kept, '\0' itself
\* included, fit.
Fits(len) == buflen + len < SHELL_BUFSIZE

\* What '\0' adds: the line after whatever SHELL_BUF still held or, if it does
\* not fit, an empty line.
LineOf(kind, len) ==
    [id |-> typed + 1, kind |-> kind, len |-> len,
     text |-> IF ~Fits(len) THEN "blank" ELSE IF buflen > 0 THEN "nul" ELSE kind]

\* Faulty: SHELL_BUF is not cleared
InputNotCleared(kind, len) ==
    /\ Arrival
    /\ prompt_is_ready
    /\ add(LineOf(kind, len))
    /\ buflen' = buflen + 1
    /\ UNCHANGED <<fut, left, timers, ran, early, repolled>>

\* SHELL_BUF is cleared after a line that fits; after one that does not it
\* keeps the NUL just pushed.
Input(kind, len) ==
    /\ Arrival
    /\ prompt_is_ready
    /\ add(LineOf(kind, len))
    /\ buflen' = IF Fits(len) THEN 0 ELSE 1
    /\ UNCHANGED <<fut, left, timers, ran, early, repolled>>

----------------------------------------------------------------------------
(* The task: process_shell_stream *)

line == got[Len(got)]

Finish ==
    /\ pc' = "dequeue"
    /\ fut' = "none"
    /\ left' = 0

Suspend(future) ==
    /\ pc' = "await"
    /\ fut' = future

InBody == pc = "body" /\ prod = "idle"

\* A blank line is skipped; one that starts with a NUL is an empty string to
\* handle_input_line_minerva, and no alias.
SkipLine ==
    /\ InBody /\ fut = "none"
    /\ line.text \in {"blank", "nul"}
    /\ Finish
    /\ UNCHANGED <<queue, waker, runq, prod, sent, got, panicked>>
    /\ UNCHANGED <<typed, buflen, timers, ran, early, repolled, raced>>

RunCommand ==
    /\ InBody /\ fut = "none"
    /\ line.text = "command"
    /\ Finish
    /\ ran' = Append(ran, line.id)
    /\ UNCHANGED <<queue, waker, runq, prod, sent, got, panicked>>
    /\ UNCHANGED <<typed, buflen, timers, early, repolled, raced>>

\* ReqInner::poll, FutureState::New: register and send.  If gcoap does not
\* take the request, xbd_gcoap_req_send() says "msg send failed" and nothing
\* will resolve the future.
PollNewRequest == \E f \in {"Registered", "Unsent"} : Suspend(f)

\* run_function_alias: the first poll of the first request, or of the Timeout
StartAlias ==
    /\ InBody /\ fut = "none"
    /\ \/ /\ line.text = "request"
          /\ PollNewRequest
          /\ left' = Requests - 1
          /\ UNCHANGED timers
       \/ /\ line.text = "sleep"
          /\ Suspend("sleeping")
          /\ timers' = timers \cup {line.id}
          /\ UNCHANGED left
    /\ UNCHANGED <<queue, waker, runq, prod, sent, got, panicked>>
    /\ UNCHANGED <<typed, buflen, ran, early, repolled, raced>>

\* ReqInner::poll: take the result; await the next request, or end the line.
ResumeRequest ==
    /\ InBody /\ fut = "Resolved"
    /\ \/ /\ left > 0
          /\ PollNewRequest
          /\ left' = left - 1
          /\ UNCHANGED ran
       \/ /\ left = 0
          /\ Finish
          /\ ran' = Append(ran, line.id)
    /\ UNCHANGED <<queue, waker, runq, prod, sent, got, panicked>>
    /\ UNCHANGED <<typed, buflen, timers, early, repolled, raced>>

\* ReqInner::poll: `_ => panic!()`
RepollRequest ==
    /\ InBody /\ fut \in {"Registered", "Unsent"}
    /\ repolled' = TRUE
    /\ UNCHANGED <<vars, typed, buflen, fut, left, timers, ran, early, raced>>

\* Timeout::poll: any poll after the first is Ready.
ResumeSleep ==
    /\ InBody /\ fut \in {"sleeping", "fired"}
    /\ Finish
    /\ early' = (early \/ fut = "sleeping")
    /\ ran' = Append(ran, line.id)
    /\ UNCHANGED <<queue, waker, runq, prod, sent, got, panicked>>
    /\ UNCHANGED <<typed, buflen, timers, repolled, raced>>

\* The task's own steps, which the signal handler shuts out while it runs.
TaskStep ==
    \/ /\ prod = "idle"
       /\ Poll \/ Dequeue \/ Register \/ Recheck
       /\ UNCHANGED shellVars
    \/ SkipLine \/ RunCommand \/ StartAlias
    \/ ResumeRequest \/ RepollRequest \/ ResumeSleep

----------------------------------------------------------------------------
(* What wakes the task while it awaits *)

\* Faulty: resolves the future and does not wake its task
ResolveSilently ==
    /\ prod = "idle"
    /\ fut = "Registered"
    /\ fut' = "Resolved"
    /\ UNCHANGED <<vars, typed, buflen, left, timers, ran, early, repolled, raced>>

\* FutureState::resolve, from the response handler or from gcoap's timeout
Resolve ==
    /\ prod = "idle"
    /\ fut = "Registered"
    /\ fut' = "Resolved"
    /\ OtherWake
    /\ UNCHANGED <<typed, buflen, left, timers, ran, early, repolled, raced>>

\* task_api_stream runs the Timeout's callback, between two polls of the
\* shell task; the callback owns the waker and wakes the task whatever it
\* is doing by then.
TimerFires(id) ==
    /\ prod = "idle"
    /\ pc \in {"parked", "await"}
    /\ timers' = timers \ {id}
    /\ fut' = IF fut = "sleeping" /\ line.id = id THEN "fired" ELSE fut
    /\ OtherWake
    /\ UNCHANGED <<typed, buflen, left, ran, early, repolled, raced>>

----------------------------------------------------------------------------
Handler ==
    \/ InputIgnored
    \/ \E kind \in Kind, len \in Length : Input(kind, len)
    \/ Wake /\ UNCHANGED shellVars

Wakers == Resolve \/ \E id \in timers : TimerFires(id)

\* A panic stops the program.
ShellNext ==
    /\ ~panicked /\ ~repolled
    /\ Handler \/ TaskStep \/ Wakers

ShellSpec == ShellInit /\ [][ShellNext]_allVars

(***************************************************************************)
(* The executor's loop keeps polling, a signal handler that has started    *)
(* finishes, gcoap answers or times out, a timer fires.                    *)
(***************************************************************************)
FairShellSpec ==
    /\ ShellSpec
    /\ WF_allVars(~panicked /\ ~repolled /\ TaskStep)
    /\ WF_allVars(~panicked /\ ~repolled /\ Wake /\ UNCHANGED shellVars)
    /\ WF_allVars(~panicked /\ ~repolled /\ Wakers)

----------------------------------------------------------------------------
\* prompt_is_ready() keeps the handler's add() off a full queue, whatever the
\* task is doing when the signal comes.
QueueNeverFull == ~panicked

\* Lines run in the order they were typed, none twice.
RunInOrder ==
    \A i, j \in 1 .. Len(ran) : i < j => ran[i] < ran[j]

\* A request is not polled again before it is resolved: ReqInner::poll has
\* no case for that but `_ => panic!()`.
NeverRepolled == ~repolled

\* The only way to that panic, and to an async_sleep() that is over before
\* its timer has fired, is input between poll_next()'s register and its
\* second dequeue: no other input, timer or answer polls a future too soon.
OnlyRaceRepolls == repolled \/ early => raced

\* "input too long (> 127); to be ignored".  The NUL that stands for a long
\* line stays in SHELL_BUF and costs the next line too; if that one has the
\* greatest allowed length, it does not fit after the NUL and leaves one itself.
AfterTooLong(i) ==
    \E j \in 1 .. i - 1 :
        /\ got[j].len >= SHELL_BUFSIZE
        /\ \A k \in j + 1 .. i - 1 : got[k].len >= SHELL_BUFSIZE - 1

\* Of the commands that were accepted and handled, exactly those did not run
\* that were too long, or that follow such a line in the way above.
IgnoredOnlyByLong ==
    \A i \in 1 .. Len(got) :
        got[i].kind = "command" /\ (i < Len(got) \/ pc \in {"parked", "dequeue"}) =>
            ((\A j \in 1 .. Len(ran) : ran[j] # got[i].id)
                <=> (got[i].len >= SHELL_BUFSIZE \/ AfterTooLong(i)))

\* A line accepted from the user is run to its end, but for the panic of
\* NeverRepolled and for a request of this line or an earlier one that was
\* not sent: its task awaits it forever.
AcceptedRuns ==
    \A n \in 1 .. MaxTyped :
        (\E i \in 1 .. Len(sent) : sent[i].id = n /\ sent[i].text \in Kind \ {"blank"})
            ~> (repolled \/ fut = "Unsent" \/ \E j \in 1 .. Len(ran) : ran[j] = n)
==============================================================================
