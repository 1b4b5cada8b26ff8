------------------------------- MODULE ApiTimer -------------------------------
(***************************************************************************)
(* Xbd::set_timeout (examples/xbd-net/src/xbd/mod.rs), xbd_ztimer_set      *)
(* (modules/minerva_xbd/xbd.c) and the task that runs the callbacks,       *)
(* process_api_stream (src/xbd/callback.rs), on top of the API XStream.    *)
(* Each call hands four heap blocks to C and takes them back when the      *)
(* timer has fired; the timer's interrupt may come at any step of the main *)
(* thread and finishes before that thread goes on.                         *)
(***************************************************************************)
EXTENDS XStream, FiniteSets

CONSTANTS
    MaxPending  \* how many timers callers have pending at a time

NoTimer == "none"
NULL == "NULL"

\* Items of the stream are the timers, named by the set_timeout() call.
ASSUME TimerAssumption ==
    /\ MaxPending \in Nat
    /\ NoTimer \notin Item

VARIABLES
    setting,    \* the set_timeout() call the main thread is in
    live,       \* heap blocks allocated and not freed, as <<timer, block>>
    misuse,     \* a block was freed or read when it was not allocated
    timeout_pp, \* what the block timeout_pp points to holds
    armed,      \* timers set and not yet fired
    running,    \* the callback process_api_stream is calling
    called      \* history: callbacks called

timerVars == <<setting, live, misuse, timeout_pp, armed, running, called>>
allVars == <<vars, timerVars>>

Block == {"timeout_pp", "cb", "arg", "ztimer"}

TimerInit ==
    /\ Init
    /\ setting = <<NoTimer, "idle">>
    /\ live = {}
    /\ misuse = FALSE
    /\ timeout_pp = [t \in Item |-> NULL]
    /\ armed = {}
    /\ running = NoTimer
    /\ called = <<>>

----------------------------------------------------------------------------
(* set_timeout, from a task while the API task is parked, or from a callback *)

\* Timers whose callback is still to be called
Pending == {t \in Item : \E b \in Block : <<t, b>> \in live}

CallerRuns == prod = "idle" /\ pc \in {"parked", "body"}

\* Box the null pointer, the callback and the argument pair.
SetTimeout(t) ==
    /\ CallerRuns
    /\ setting = <<NoTimer, "idle">>
    /\ t \notin Pending
    /\ \A i \in 1 .. Len(called) : called[i] # t
    /\ Cardinality(Pending) < MaxPending
    /\ setting' = <<t, "calloc">>
    /\ live' = live \cup {<<t, "timeout_pp">>, <<t, "cb">>, <<t, "arg">>}
    /\ UNCHANGED <<vars, misuse, timeout_pp, armed, running, called>>

\* Faulty variants, here and below, are slips the code could have made; each
\* has to be caught by one of the properties.

\* Faulty: *timeout_pp is not assigned
CallocForgetsPp(t) ==
    /\ CallerRuns
    /\ setting = <<t, "calloc">>
    /\ setting' = <<t, "set">>
    /\ live' = live \cup {<<t, "ztimer">>}
    /\ UNCHANGED <<vars, misuse, timeout_pp, armed, running, called>>

\* xbd_ztimer_set: calloc, fill in, *timeout_pp = timeout
ZtimerCalloc(t) ==
    /\ CallerRuns
    /\ setting = <<t, "calloc">>
    /\ setting' = <<t, "set">>
    /\ live' = live \cup {<<t, "ztimer">>}
    /\ timeout_pp' = [timeout_pp EXCEPT ![t] = "ztimer"]
    /\ UNCHANGED <<vars, misuse, armed, running, called>>

\* ztimer_set; set_timeout returns
ZtimerSet(t) ==
    /\ CallerRuns
    /\ setting = <<t, "set">>
    /\ setting' = <<NoTimer, "idle">>
    /\ armed' = armed \cup {t}
    /\ UNCHANGED <<vars, live, misuse, timeout_pp, running, called>>

----------------------------------------------------------------------------
(* The timer interrupt: add_xbd_timeout_callback *)

Fire(t) ==
    /\ t \in armed
    /\ armed' = armed \ {t}
    /\ misuse' = (misuse \/ <<t, "ztimer">> \notin live)
    /\ add(t)
    /\ UNCHANGED <<setting, live, timeout_pp, running, called>>

----------------------------------------------------------------------------
(* process_api_stream *)

\* Faulty: the ztimer_t is not freed
ReleaseKeepsZtimer ==
    LET t == got[Len(got)]
        freed == {<<t, "arg">>, <<t, "timeout_pp">>}
    IN  /\ pc = "body" /\ prod = "idle" /\ running = NoTimer
        /\ Len(called) < Len(got)
        /\ live' = live \ freed
        /\ misuse' = (misuse \/ ~(freed \subseteq live))
        /\ running' = t
        /\ UNCHANGED <<vars, setting, timeout_pp, armed, called>>

\* arg_from, Box::from_raw(timeout_pp), assert_ne!(timeout_ptr, null()), free
ReleaseTimer ==
    LET t == got[Len(got)]
        freed == {<<t, "arg">>, <<t, "timeout_pp">>, <<t, "ztimer">>}
    IN  /\ pc = "body" /\ prod = "idle" /\ running = NoTimer
        /\ Len(called) < Len(got)
        /\ live' = live \ freed
        /\ misuse' = (misuse \/ ~(freed \subseteq live)
                             \/ timeout_pp[t] = NULL \/ t \in armed)
        /\ running' = t
        /\ UNCHANGED <<vars, setting, timeout_pp, armed, called>>

\* call: the callback runs, maybe setting other timers, and is dropped.
CallBack ==
    /\ running # NoTimer /\ prod = "idle"
    /\ setting = <<NoTimer, "idle">>
    /\ called' = Append(called, running)
    /\ live' = live \ {<<running, "cb">>}
    /\ misuse' = (misuse \/ <<running, "cb">> \notin live)
    /\ running' = NoTimer
    /\ BodyEnds
    /\ UNCHANGED <<setting, timeout_pp, armed>>

----------------------------------------------------------------------------
Caller == \E t \in Item : SetTimeout(t) \/ ZtimerCalloc(t) \/ ZtimerSet(t)

ApiTask ==
    \/ /\ prod = "idle" /\ setting = <<NoTimer, "idle">>
       /\ Poll \/ Dequeue \/ Register \/ Recheck
       /\ UNCHANGED timerVars
    \/ ReleaseTimer \/ CallBack

TimerNext ==
    /\ ~panicked
    /\ \/ Caller
       \/ ApiTask
       \/ \E t \in armed : Fire(t)
       \/ Wake /\ UNCHANGED timerVars

TimerSpec == TimerInit /\ [][TimerNext]_allVars

\* The main thread runs, timers fire and their interrupt finishes.
FairTimerSpec ==
    /\ TimerSpec
    /\ WF_allVars(~panicked /\ ApiTask)
    /\ WF_allVars(~panicked /\ \E t \in Item : ZtimerCalloc(t) \/ ZtimerSet(t))
    /\ WF_allVars(~panicked /\ \E t \in armed : Fire(t))
    /\ WF_allVars(~panicked /\ Wake /\ UNCHANGED timerVars)

----------------------------------------------------------------------------
\* The four blocks of a timer are freed once each, none while the interrupt
\* or the callback may still use it, and *timeout_pp is never read as NULL.
NoMisuse == ~misuse

\* A timer that fired or will fire and that process_api_stream has not
\* released yet
OnItsWay(t) ==
    \/ t \in armed
    \/ \E i \in 1 .. Len(queue) : queue[i] = t
    \/ pc = "body" /\ running # t /\ got[Len(got)] = t

\* Nothing leaks: once set_timeout() has returned, a timer's argument, its
\* pointer cell and the ztimer_t are allocated exactly while it is on its way
\* to the callback, and the callback until it has run.
NoLeak ==
    \A t \in Item : setting[1] # t =>
        /\ \A b \in {"arg", "timeout_pp", "ztimer"} : <<t, b>> \in live <=> OnItsWay(t)
        /\ <<t, "cb">> \in live <=> OnItsWay(t) \/ running = t

\* The 64-entry API stream cannot overflow while callers keep no more timers
\* pending than it has room for, wherever the interrupts come.
NoOverflow == ~panicked

\* A timer that was set has its callback called.
TimerCalls ==
    \A t \in Item : t \in armed ~> (\E i \in 1 .. Len(called) : called[i] = t)
==============================================================================
