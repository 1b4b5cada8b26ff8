----------------------------- MODULE ShellProofs -----------------------------
(***************************************************************************)
(* Theorems about Shell, for every capacity of SHELL_BUF, every size of    *)
(* the stream, every number and length of lines and of requests.           *)
(***************************************************************************)
EXTENDS Shell, XStreamProofs

InLine == pc \in {"body", "await"}

\* SHELL_BUF holds a NUL when the line after the first i - 1 accepted is typed:
\* one of them was too long, and the ones after that did not fit either.
Spoilt(i) ==
    \E j \in 1 .. i - 1 :
        /\ sent[j].len >= SHELL_BUFSIZE
        /\ \A k \in j + 1 .. i - 1 : sent[k].len >= SHELL_BUFSIZE - 1

\* The text of an accepted line of the given kind and length
TextOf(kind, len, spoilt) ==
    IF len >= SHELL_BUFSIZE \/ (spoilt /\ len >= SHELL_BUFSIZE - 1) THEN "blank"
    ELSE IF spoilt THEN "nul" ELSE kind

AcceptedInv ==
    /\ buflen \in {0, 1}
    /\ buflen = 1 <=> Spoilt(Len(sent) + 1)
    /\ \A i \in 1 .. Len(sent) :
          /\ sent[i].id <= typed
          /\ sent[i].text = TextOf(sent[i].kind, sent[i].len, Spoilt(i))
    /\ \A i, j \in 1 .. Len(sent) : i < j => sent[i].id < sent[j].id

\* The same of the lines that the task has taken
GotInv ==
    /\ \A i \in 1 .. Len(got) :
          /\ got[i] \in Line
          /\ got[i].text = TextOf(got[i].kind, got[i].len, AfterTooLong(i))
    /\ \A i, j \in 1 .. Len(got) : i < j => got[i].id < got[j].id

\* Where the task is in its line
Phases ==
    /\ InLine => got # <<>>
    /\ fut # "none" => InLine /\ line.text \in {"request", "sleep"}

Ran(id) == \E j \in 1 .. Len(ran) : ran[j] = id

RanInv ==
    /\ Phases
    /\ ran \in Seq(Nat)
    /\ RunInOrder
    /\ \A j \in 1 .. Len(ran) :
          /\ got # <<>> /\ ran[j] <= line.id
          /\ InLine => ran[j] # line.id
    /\ \A i \in 1 .. Len(got) :
          got[i].kind = "command" /\ (i < Len(got) \/ ~InLine) =>
              (Ran(got[i].id) <=> got[i].text = "command")

\* Until input comes between register and second dequeue, the waker is in
\* place only while the task waits for a line, and an await is polled only
\* once what it waits for is there.
Calm ==
    /\ ~repolled /\ ~early
    /\ waker => pc \in {"parked", "recheck"} /\ ~runq
    /\ runq => pc = "parked" \/ (pc = "await" /\ fut \in {"Resolved", "fired"})
    /\ prod = "wake" => pc # "recheck"
    /\ fut \in {"none", "Registered", "Unsent", "sleeping", "Resolved", "fired"}
    /\ fut \in {"Registered", "Unsent", "sleeping"} => pc = "await"
    /\ fut # "none" => InLine
    /\ timers = IF fut = "sleeping" THEN {line.id} ELSE {}
CalmInv == raced \/ Calm

----------------------------------------------------------------------------
LEMMA TypedType == ShellSpec => [](typed \in 0 .. MaxTyped)
<1>1. ShellInit => typed \in 0 .. MaxTyped
  BY ShellAssumption DEF ShellInit
<1>2. typed \in 0 .. MaxTyped /\ [ShellNext]_allVars => (typed \in 0 .. MaxTyped)'
  <2> SUFFICES ASSUME typed \in 0 .. MaxTyped, [ShellNext]_allVars
               PROVE  typed' \in 0 .. MaxTyped
    OBVIOUS
  <2> USE ShellAssumption
  <2>1. ASSUME Arrival PROVE typed' \in 0 .. MaxTyped
    BY <2>1 DEF Arrival
  <2>2. CASE Handler
    BY <2>1, <2>2 DEF Handler, InputIgnored, Input, shellVars
  <2>3. CASE TaskStep
    BY <2>3 DEF TaskStep, SkipLine, RunCommand, StartAlias, ResumeRequest, RepollRequest,
                ResumeSleep, shellVars
  <2>4. CASE Wakers
    BY <2>4 DEF Wakers, Resolve, TimerFires
  <2>5. CASE UNCHANGED allVars
    BY <2>5 DEF allVars, shellVars
  <2> QED
    BY <2>2, <2>3, <2>4, <2>5 DEF ShellNext
<1> QED
  BY <1>1, <1>2, PTL DEF ShellSpec

\* What the handler adds is a line.
LEMMA LineOfType ==
    ASSUME typed \in 0 .. MaxTyped, typed < MaxTyped, NEW kind \in Kind, NEW len \in Length
    PROVE  LineOf(kind, len) \in Item
<1>1. typed + 1 \in 1 .. MaxTyped
  BY ShellAssumption
<1>2. kind \in LineKind
  BY ShellAssumption
<1>3. PICK text : text = (IF ~Fits(len) THEN "blank" ELSE IF buflen > 0 THEN "nul" ELSE kind)
  OBVIOUS
<1>4. text \in LineKind \cup {"nul"}
  BY <1>2, <1>3 DEF LineKind
<1>5. LineOf(kind, len) = [id |-> typed + 1, kind |-> kind, len |-> len, text |-> text]
  BY <1>3 DEF LineOf
<1> QED
  BY <1>1, <1>2, <1>4, <1>5, ShellAssumption DEF Line

\* The task's steps within a line are those of a loop's body.
LEMMA LineSteps ==
    ASSUME SkipLine \/ RunCommand \/ StartAlias \/ ResumeRequest \/ RepollRequest \/ ResumeSleep
    PROVE  BodyEnds \/ BodyAwaits \/ UNCHANGED vars
<1>1. ASSUME pc = "body", pc' \in {"dequeue", "await"},
             UNCHANGED <<queue, waker, runq, prod, sent, got, panicked>>
      PROVE  BodyEnds \/ BodyAwaits
  BY <1>1 DEF BodyEnds, BodyAwaits
<1> QED
  BY <1>1 DEF SkipLine, RunCommand, StartAlias, ResumeRequest, RepollRequest, ResumeSleep,
              InBody, Finish, Suspend, PollNewRequest

\* The signal handler, the shell's task and what wakes it use their XStream
\* only as an XStream may be used.
THEOREM ShellStream == ShellSpec => Spec
<1>1. ShellInit => Init
  BY DEF ShellInit
<1>2. typed \in 0 .. MaxTyped /\ [ShellNext]_allVars => [Next]_vars
  <2> SUFFICES ASSUME typed \in 0 .. MaxTyped, [ShellNext]_allVars PROVE Next \/ UNCHANGED vars
    OBVIOUS
  <2>1. ASSUME ~panicked, NEW kind \in Kind, NEW len \in Length, Input(kind, len) PROVE Next
    BY <2>1, LineOfType DEF Input, Arrival, Next, Producer
  <2>2. CASE InputIgnored
    BY <2>2 DEF InputIgnored
  <2>3. CASE ~panicked /\ (Wake \/ Poll \/ Dequeue \/ Register \/ Recheck)
    BY <2>3 DEF Next, Producer, Consumer
  <2>4. CASE ~panicked /\ (SkipLine \/ RunCommand \/ StartAlias \/ ResumeRequest
                           \/ RepollRequest \/ ResumeSleep)
    BY <2>4, LineSteps DEF Next, Consumer
  <2>5. CASE ~panicked /\ Wakers
    BY <2>5 DEF Wakers, Resolve, TimerFires, Next
  <2>6. CASE UNCHANGED allVars
    BY <2>6 DEF allVars
  <2> QED
    BY <2>1, <2>2, <2>3, <2>4, <2>5, <2>6 DEF ShellNext, Handler, TaskStep
<1> QED
  BY <1>1, <1>2, TypedType, PTL DEF ShellSpec, Spec

\* The handler adds only to an empty queue, and the stream holds at least one
\* line: add() does not panic.
THEOREM QueueNeverFullHolds == ShellSpec => []QueueNeverFull
<1>1. ShellInit => QueueNeverFull
  BY DEF ShellInit, Init, QueueNeverFull
<1>2. QueueNeverFull /\ [ShellNext]_allVars => QueueNeverFull'
  <2> SUFFICES ASSUME ~panicked, [ShellNext]_allVars PROVE ~panicked'
    BY DEF QueueNeverFull
  <2>1. ASSUME NEW kind \in Kind, NEW len \in Length, Input(kind, len) PROVE ~panicked'
    <3>1. Len(queue) # Capacity
      BY <2>1, StreamAssumption DEF Input, prompt_is_ready, Capacity
    <3> QED
      BY <2>1, <3>1 DEF Input, add, Enqueue, QueueFull
  <2>2. CASE UNCHANGED panicked
    BY <2>2
  <2>3. Poll \/ Dequeue \/ Register \/ Recheck \/ Wake \/ OtherWake \/ BodyEnds \/ BodyAwaits
          \/ UNCHANGED vars => UNCHANGED panicked
    BY DEF Poll, Dequeue, Register, Recheck, Wake, OtherWake, BodyEnds, BodyAwaits, vars
  <2> QED
    BY <2>1, <2>2, <2>3, LineSteps
       DEF ShellNext, Handler, TaskStep, Wakers, InputIgnored, Resolve, TimerFires, allVars
<1> QED
  BY <1>1, <1>2, PTL DEF ShellSpec

----------------------------------------------------------------------------
(* Which text an accepted line gets *)

\* Only input adds to the stream.
LEMMA SentKept ==
    ASSUME [ShellNext]_allVars, \A kind \in Kind, len \in Length : ~Input(kind, len)
    PROVE  /\ UNCHANGED <<sent, buflen>>
           /\ typed' = typed \/ Arrival
<1>1. Poll \/ Dequeue \/ Register \/ Recheck \/ Wake \/ OtherWake \/ BodyEnds \/ BodyAwaits
        \/ UNCHANGED vars => UNCHANGED sent
  BY DEF Poll, Dequeue, Register, Recheck, Wake, OtherWake, BodyEnds, BodyAwaits, vars
<1>2. CASE Handler
  BY <1>1, <1>2 DEF Handler, InputIgnored, shellVars
<1>3. CASE TaskStep
  <2>1. UNCHANGED <<buflen, typed>>
    BY <1>3 DEF TaskStep, SkipLine, RunCommand, StartAlias, ResumeRequest, RepollRequest,
                ResumeSleep, shellVars
  <2> QED
    BY <1>1, <1>3, <2>1, LineSteps DEF TaskStep
<1>4. CASE Wakers
  BY <1>1, <1>4 DEF Wakers, Resolve, TimerFires
<1>5. CASE UNCHANGED allVars
  BY <1>5 DEF allVars, shellVars, vars
<1> QED
  BY <1>2, <1>3, <1>4, <1>5 DEF ShellNext

LEMMA LineFields ==
    ASSUME NEW l \in Line
    PROVE  l.id \in Nat /\ l.len \in Nat /\ l.kind \in LineKind
<1>1. l.id \in 1 .. MaxTyped /\ l.len \in Length /\ l.kind \in LineKind
  BY DEF Line
<1>2. Length \subseteq Nat /\ MaxTyped \in Nat
  BY ShellAssumption
<1>3. \A n \in 1 .. MaxTyped : n \in Nat
  BY <1>2
<1>4. l.id \in Nat
  BY <1>1, <1>3, Zenon
<1>5. l.len \in Nat
  BY <1>1, <1>2, Zenon
<1> QED
  BY <1>1, <1>4, <1>5, Zenon

\* A line leaves a NUL behind if it is too long, or fills SHELL_BUF after one.
LEMMA SpoiltStep ==
    ASSUME sent \in Seq(Line), NEW l \in Line, sent' = Append(sent, l)
    PROVE  /\ \A i \in 1 .. Len(sent) + 1 : Spoilt(i)' <=> Spoilt(i)
           /\ Spoilt(Len(sent) + 1)' <=>
                 \/ l.len >= SHELL_BUFSIZE
                 \/ Spoilt(Len(sent) + 1) /\ l.len >= SHELL_BUFSIZE - 1
<1>0. PICK n : n = Len(sent)
  OBVIOUS
<1>1. /\ n \in Nat /\ Len(sent') = n + 1
      /\ \A k \in 1 .. n : sent'[k] = sent[k]
      /\ sent'[n + 1] = l
  BY <1>0, AppendAt
<1>2. \A k \in 1 .. n : sent[k].len \in Nat
  BY <1>0, ElementOfSeq, LineFields
<1>3. l.len \in Nat /\ SHELL_BUFSIZE \in Nat
  BY LineFields, ShellAssumption
<1>4. ASSUME NEW i \in 1 .. n + 1 PROVE Spoilt(i)' <=> Spoilt(i)
  <2>1. \A k \in 1 .. i - 1 : k \in 1 .. n
    BY <1>1
  <2>2. \A j \in 1 .. i - 1 : \A k \in j + 1 .. i - 1 : k \in 1 .. n
    BY <1>1
  <2> QED
    BY <1>1, <2>1, <2>2 DEF Spoilt
<1>5. ASSUME l.len >= SHELL_BUFSIZE PROVE Spoilt(n + 2)'
  <2>1. n + 1 \in 1 .. (n + 2) - 1 /\ \A k \in (n + 1) + 1 .. (n + 2) - 1 : FALSE
    BY <1>1
  <2> QED
    BY <1>1, <1>5, <2>1 DEF Spoilt
<1>6. ASSUME Spoilt(n + 1), l.len >= SHELL_BUFSIZE - 1 PROVE Spoilt(n + 2)'
  <2>1. PICK j \in 1 .. (n + 1) - 1 :
            /\ sent[j].len >= SHELL_BUFSIZE
            /\ \A k \in j + 1 .. (n + 1) - 1 : sent[k].len >= SHELL_BUFSIZE - 1
    BY <1>6 DEF Spoilt
  <2>2. j \in 1 .. n /\ j \in 1 .. (n + 2) - 1 /\ sent'[j].len >= SHELL_BUFSIZE
    BY <1>1, <2>1
  <2>3. ASSUME NEW k \in j + 1 .. (n + 2) - 1 PROVE sent'[k].len >= SHELL_BUFSIZE - 1
    <3>1. CASE k = n + 1
      BY <1>1, <1>6, <3>1
    <3>2. CASE k # n + 1
      <4>1. k \in j + 1 .. (n + 1) - 1 /\ k \in 1 .. n
        BY <1>1, <2>1, <3>2
      <4> QED
        BY <1>1, <2>1, <4>1
    <3> QED
      BY <3>1, <3>2
  <2> QED
    BY <2>2, <2>3 DEF Spoilt
<1>7. ASSUME Spoilt(n + 2)', ~(l.len >= SHELL_BUFSIZE)
      PROVE  Spoilt(n + 1) /\ l.len >= SHELL_BUFSIZE - 1
  <2>1. PICK j \in 1 .. (n + 2) - 1 :
            /\ sent'[j].len >= SHELL_BUFSIZE
            /\ \A k \in j + 1 .. (n + 2) - 1 : sent'[k].len >= SHELL_BUFSIZE - 1
    BY <1>7 DEF Spoilt
  <2>2. j # n + 1
    BY <1>1, <1>7, <2>1
  <2>3. j \in 1 .. n /\ n + 1 \in j + 1 .. (n + 2) - 1
    BY <1>1, <2>1, <2>2
  <2>4. l.len >= SHELL_BUFSIZE - 1 /\ sent[j].len >= SHELL_BUFSIZE
    BY <1>1, <2>1, <2>3
  <2>5. ASSUME NEW k \in j + 1 .. (n + 1) - 1 PROVE sent[k].len >= SHELL_BUFSIZE - 1
    <3>1. k \in j + 1 .. (n + 2) - 1 /\ k \in 1 .. n
      BY <1>1, <2>3
    <3> QED
      BY <1>1, <2>1, <3>1
  <2>6. j \in 1 .. (n + 1) - 1
    BY <1>1, <2>3
  <2> QED
    BY <2>4, <2>5, <2>6 DEF Spoilt
<1> QED
  <2>1. \A m : m = n + 2 => (Spoilt(Len(sent) + 1)' <=> Spoilt(m)')
    <3>1. Len(sent') + 1 = n + 2
      BY <1>1
    <3> QED
      BY <3>1 DEF Spoilt
  <2> QED
    BY <1>0, <1>4, <1>5, <1>6, <1>7, <2>1

\* AcceptedInv is inductive.
LEMMA AcceptedStep ==
    ASSUME TypeOK, typed \in 0 .. MaxTyped, AcceptedInv, ~panicked, ~panicked',
           [ShellNext]_allVars
    PROVE  AcceptedInv'
<1>a. PICK n : n = Len(sent)
  OBVIOUS
<1>0. /\ sent \in Seq(Line) /\ n \in Nat
      /\ \A i \in 1 .. n : sent[i] \in Line /\ sent[i].id \in Nat
  BY <1>a, ShellAssumption, ElementOfSeq, LenProperties, LineFields DEF TypeOK
<1>1. ASSUME NEW kind \in Kind, NEW len \in Length, Input(kind, len) PROVE AcceptedInv'
  <2>1. PICK l : l = LineOf(kind, len)
    OBVIOUS
  <2>2. /\ typed < MaxTyped /\ typed' = typed + 1
        /\ sent' = Append(sent, l)
        /\ buflen' = IF Fits(len) THEN 0 ELSE 1
    BY <1>1, <2>1 DEF Input, Arrival, add, Enqueue, QueueFull
  <2>3. /\ l \in Line /\ l.id = typed + 1 /\ l.kind = kind /\ l.len = len
        /\ l.text = IF ~Fits(len) THEN "blank" ELSE IF buflen > 0 THEN "nul" ELSE kind
        /\ len \in Nat
    BY <2>1, <2>2, LineOfType, ShellAssumption DEF LineOf
  <2>4. /\ Len(sent') = n + 1
        /\ \A k \in 1 .. n : sent'[k] = sent[k]
        /\ sent'[n + 1] = l
    BY <1>a, <1>0, <2>2, <2>3, AppendAt
  <2>5. /\ \A i \in 1 .. n + 1 : Spoilt(i)' <=> Spoilt(i)
        /\ Spoilt(Len(sent) + 1)' <=>
              \/ len >= SHELL_BUFSIZE
              \/ Spoilt(n + 1) /\ len >= SHELL_BUFSIZE - 1
    BY <1>a, <1>0, <2>2, <2>3, SpoiltStep
  <2>6. buflen \in {0, 1} /\ (buflen = 1 <=> Spoilt(n + 1))
    BY <1>a DEF AcceptedInv
  <2>7. Fits(len) <=> ~(len >= SHELL_BUFSIZE \/ (Spoilt(n + 1) /\ len >= SHELL_BUFSIZE - 1))
    BY <2>3, <2>6, ShellAssumption DEF Fits
  <2>8. l.text = TextOf(kind, len, Spoilt(n + 1))
    BY <2>3, <2>6, <2>7 DEF TextOf
  <2>9. buflen' \in {0, 1} /\ (buflen' = 1 <=> Spoilt(Len(sent) + 1)')
    BY <2>2, <2>5, <2>7
  <2>10. \A i \in 1 .. Len(sent') : i \in 1 .. n + 1 /\ (i \in 1 .. n \/ i = n + 1)
    BY <1>0, <2>4
  <2>11. ASSUME NEW i \in 1 .. Len(sent')
         PROVE  /\ sent'[i].id <= typed'
                /\ sent'[i].text = TextOf(sent'[i].kind, sent'[i].len, Spoilt(i)')
    <3>1. CASE i \in 1 .. n
      <4>1. Spoilt(i)' = Spoilt(i)
        BY <2>5, <2>10 DEF Spoilt
      <4>2. sent[i].id <= typed /\ sent[i].id \in Nat /\ typed \in Nat
        BY <1>a, <1>0, <3>1, ShellAssumption DEF AcceptedInv
      <4> QED
        BY <1>a, <2>2, <2>4, <3>1, <4>1, <4>2 DEF AcceptedInv
    <3>2. CASE i = n + 1
      <4>1. Spoilt(i)' = Spoilt(n + 1)
        BY <2>5, <2>10, <3>2 DEF Spoilt
      <4> QED
        BY <2>2, <2>3, <2>4, <2>8, <3>2, <4>1
    <3> QED
      BY <2>10, <3>1, <3>2
  <2>12. ASSUME NEW i \in 1 .. Len(sent'), NEW j \in 1 .. Len(sent'), i < j
         PROVE  sent'[i].id < sent'[j].id
    <3>1. i \in 1 .. n
      BY <1>0, <2>4, <2>12
    <3>2. CASE j \in 1 .. n
      BY <1>a, <2>4, <2>12, <3>1, <3>2 DEF AcceptedInv
    <3>3. CASE j = n + 1
      <4>1. sent[i].id <= typed /\ sent[i].id \in Nat /\ typed \in Nat
        BY <1>a, <1>0, <3>1, ShellAssumption DEF AcceptedInv
      <4> QED
        BY <2>3, <2>4, <3>1, <3>3, <4>1
    <3> QED
      BY <2>10, <3>2, <3>3
  <2> QED
    BY <2>9, <2>11, <2>12 DEF AcceptedInv
<1>2. CASE \A kind \in Kind, len \in Length : ~Input(kind, len)
  <2>1. UNCHANGED <<sent, buflen>> /\ typed' \in Nat /\ typed <= typed'
    BY <1>2, SentKept, ShellAssumption DEF Arrival
  <2>2. \A i : Spoilt(i)' = Spoilt(i)
    BY <2>1 DEF Spoilt
  <2>3. \A i \in 1 .. n : sent[i].id <= typed'
    <3>1. typed \in Nat
      BY ShellAssumption
    <3> QED
      BY <1>a, <1>0, <2>1, <3>1 DEF AcceptedInv
  <2> QED
    BY <1>a, <2>1, <2>2, <2>3 DEF AcceptedInv
<1> QED
  BY <1>1, <1>2

LEMMA AcceptedHolds == ShellSpec => []AcceptedInv
<1>1. ShellInit => AcceptedInv
  <2> SUFFICES ASSUME ShellInit PROVE AcceptedInv
    OBVIOUS
  <2>1. sent = <<>> /\ buflen = 0
    BY DEF ShellInit, Init
  <2>2. Len(sent) = 0 /\ 1 .. Len(sent) = {} /\ 1 .. (Len(sent) + 1) - 1 = {}
    BY <2>1
  <2>3. ~Spoilt(Len(sent) + 1)
    BY <2>2 DEF Spoilt
  <2> QED
    BY <2>1, <2>2, <2>3 DEF AcceptedInv
<1>2. TypeOK /\ typed \in 0 .. MaxTyped /\ AcceptedInv /\ QueueNeverFull /\ QueueNeverFull'
        /\ [ShellNext]_allVars => AcceptedInv'
  BY AcceptedStep DEF QueueNeverFull
<1> QED
  BY <1>1, <1>2, TypedType, QueueNeverFullHolds, ShellStream, TypeCorrect, PTL DEF ShellSpec

\* What the task has taken is the beginning of what was accepted.
LEMMA GotHolds == ShellSpec => []GotInv
<1>1. TypeOK /\ Fifo /\ AcceptedInv => GotInv
  <2> SUFFICES ASSUME TypeOK, Fifo, AcceptedInv PROVE GotInv
    OBVIOUS
  <2>1. got \in Seq(Item) /\ queue \in Seq(Item) /\ sent = got \o queue
    BY DEF TypeOK, Fifo, Chan!Fifo
  <2>2. /\ Len(got) \in Nat /\ Len(queue) \in Nat /\ Len(sent) = Len(got) + Len(queue)
        /\ \A i \in 1 .. Len(got) : got[i] \in Line
    BY <2>1, ShellAssumption, ConcatProperties, LenProperties, ElementOfSeq
  <2>3. ASSUME NEW i \in 1 .. Len(got) PROVE i \in 1 .. Len(sent) /\ got[i] = sent[i]
    <3>1. i \in 1 .. Len(got) + Len(queue) /\ i <= Len(got)
      BY <2>2
    <3> QED
      BY <2>1, <2>2, <3>1, ConcatProperties
  <2>4. ASSUME NEW i \in 1 .. Len(got) PROVE AfterTooLong(i) = Spoilt(i)
    <3>1. \A k \in 1 .. i - 1 : k \in 1 .. Len(got)
      BY <2>2
    <3>2. \A j \in 1 .. i - 1 : \A k \in j + 1 .. i - 1 : k \in 1 .. Len(got)
      BY <2>2
    <3> QED
      BY <2>3, <3>1, <3>2 DEF AfterTooLong, Spoilt
  <2>5. ASSUME NEW i \in 1 .. Len(got)
        PROVE  got[i].text = TextOf(got[i].kind, got[i].len, AfterTooLong(i))
    BY <2>3, <2>4 DEF AcceptedInv
  <2>6. ASSUME NEW i \in 1 .. Len(got), NEW j \in 1 .. Len(got), i < j
        PROVE  got[i].id < got[j].id
    BY <2>3, <2>6 DEF AcceptedInv
  <2> QED
    BY <2>2, <2>5, <2>6 DEF GotInv
<1> QED
  BY <1>1, AcceptedHolds, ShellStream, TypeCorrect, FifoHolds, PTL

----------------------------------------------------------------------------
(* Which lines have run *)

\* The line in the body ends; run: it ran.
LEMMA LineEnds ==
    ASSUME TypeOK, GotInv, RanInv, UNCHANGED got, pc = "body", pc' = "dequeue", fut' = "none",
           \/ ran' = ran /\ line.text \in {"blank", "nul"}
           \/ ran' = Append(ran, line.id) /\ line.text \in {"command", "request", "sleep"}
    PROVE  RanInv'
<1> DEFINE n == Len(got)
<1>1. /\ n \in 1 .. Len(got) /\ n \in Nat /\ got # <<>> /\ line \in Line
      /\ line.id \in Nat
      /\ \A i \in 1 .. n : got[i].id \in Nat /\ (i < n => got[i].id < line.id)
  <2>1. n \in Nat /\ got # <<>> /\ n # 0
    BY EmptySeq, LenProperties DEF TypeOK, RanInv, Phases, InLine
  <2>2. n \in 1 .. n
    BY <2>1
  <2> QED
    BY <2>1, <2>2, LineFields DEF GotInv, line
<1>2. line.kind = "command" => line.text \in {"command", "blank", "nul"}
  BY <1>1 DEF GotInv, TextOf, line
<1>3. ran \in Seq(Nat) /\ Len(ran) \in Nat /\ \A j \in 1 .. Len(ran) : ran[j] \in Nat /\ ran[j] < line.id
  <2>1. ran \in Seq(Nat) /\ Len(ran) \in Nat /\ \A j \in 1 .. Len(ran) : ran[j] \in Nat
    BY LenProperties, ElementOfSeq DEF RanInv
  <2>2. \A j \in 1 .. Len(ran) : ran[j] <= line.id /\ ran[j] # line.id
    BY DEF RanInv, InLine
  <2> QED
    BY <1>1, <2>1, <2>2
<1>4. ~InLine' /\ line' = line /\ Phases'
  BY DEF InLine, line, Phases
<1>5. \A i \in 1 .. n : i < n \/ i = n
  BY <1>1
<1>6. CASE ran' = ran /\ line.text \in {"blank", "nul"}
  <2>1. \A id : Ran(id)' <=> Ran(id)
    BY <1>6 DEF Ran
  <2>2. ~Ran(line.id)
    BY <1>3 DEF Ran
  <2>3. RunInOrder'
    BY <1>6 DEF RanInv, RunInOrder
  <2>4. ASSUME NEW i \in 1 .. n, got[i].kind = "command"
        PROVE  Ran(got[i].id)' <=> got[i].text = "command"
    <3>1. CASE i < n
      BY <2>1, <2>4, <3>1 DEF RanInv
    <3>2. CASE i = n
      BY <1>6, <2>1, <2>2, <3>2 DEF line
    <3> QED
      BY <1>5, <3>1, <3>2
  <2> QED
    BY <1>1, <1>3, <1>4, <1>6, <2>3, <2>4 DEF RanInv
<1>7. CASE ran' = Append(ran, line.id) /\ line.text \in {"command", "request", "sleep"}
  <2>1. /\ ran' \in Seq(Nat) /\ Len(ran') = Len(ran) + 1
        /\ \A k \in 1 .. Len(ran) : ran'[k] = ran[k]
        /\ ran'[Len(ran) + 1] = line.id
    BY <1>1, <1>3, <1>7, AppendAt
  <2>2. /\ \A k \in 1 .. Len(ran') : k \in 1 .. Len(ran) \/ k = Len(ran) + 1
        /\ \A k \in 1 .. Len(ran) : k \in 1 .. Len(ran')
        /\ Len(ran) + 1 \in 1 .. Len(ran')
    BY <1>3, <2>1
  <2>3. \A id : Ran(id)' <=> Ran(id) \/ id = line.id
    BY <2>1, <2>2 DEF Ran
  <2>4. RunInOrder'
    <3>1. ASSUME NEW i \in 1 .. Len(ran'), NEW j \in 1 .. Len(ran'), i < j PROVE ran'[i] < ran'[j]
      <4>1. i \in 1 .. Len(ran)
        BY <1>3, <2>1, <3>1
      <4>2. CASE j \in 1 .. Len(ran)
        BY <2>1, <3>1, <4>1, <4>2 DEF RanInv, RunInOrder
      <4>3. CASE j = Len(ran) + 1
        BY <1>3, <2>1, <4>1, <4>3
      <4> QED
        BY <2>2, <4>2, <4>3
    <3> QED
      BY <3>1 DEF RunInOrder
  <2>5. \A k \in 1 .. Len(ran') : ran'[k] <= line.id
    BY <1>1, <1>3, <2>1, <2>2
  <2>6. ASSUME NEW i \in 1 .. n, got[i].kind = "command"
        PROVE  Ran(got[i].id)' <=> got[i].text = "command"
    <3>1. CASE i < n
      <4>1. got[i].id # line.id
        BY <1>1, <3>1
      <4> QED
        BY <2>3, <2>6, <3>1, <4>1 DEF RanInv
    <3>2. CASE i = n
      BY <1>2, <1>7, <2>3, <2>6, <3>2 DEF line
    <3> QED
      BY <1>5, <3>1, <3>2
  <2> QED
    BY <1>1, <1>4, <2>1, <2>4, <2>5, <2>6 DEF RanInv
<1> QED
  BY <1>6, <1>7

\* A line is taken from the queue.
LEMMA LineTaken ==
    ASSUME TypeOK, GotInv, GotInv', RanInv, queue # <<>>, queue' = Tail(queue),
           got' = Append(got, Head(queue)), ~InLine, pc' = "body", UNCHANGED <<fut, ran>>
    PROVE  RanInv'
<1>1. /\ Len(got) \in Nat /\ Len(got') = Len(got) + 1 /\ got' # <<>>
      /\ \A i \in 1 .. Len(got) : got'[i] = got[i]
  <2>1. Head(queue) \in Item
    BY HeadTailProperties DEF TypeOK
  <2> QED
    BY <2>1, AppendAt, TakeHead DEF TypeOK
<1>2. InLine' /\ fut = "none"
  BY DEF InLine, RanInv, Phases
<1>3. \A j \in 1 .. Len(ran) : ran[j] \in Nat
  BY ElementOfSeq DEF RanInv
<1>4. ASSUME NEW j \in 1 .. Len(ran) PROVE ran[j] <= line'.id /\ ran[j] # line'.id
  <2>1. ran[j] <= line.id /\ Len(got) # 0
    BY EmptySeq DEF RanInv, TypeOK
  <2>2. /\ Len(got) \in 1 .. Len(got') /\ Len(got') \in 1 .. Len(got') /\ Len(got) < Len(got')
        /\ Len(got) \in 1 .. Len(got)
    BY <1>1, <2>1
  <2>3. line = got'[Len(got)] /\ line' = got'[Len(got')]
    BY <1>1, <2>2 DEF line
  <2>4. line.id < line'.id
    BY <2>2, <2>3 DEF GotInv
  <2>5. line.id \in Nat /\ line'.id \in Nat
    BY <2>2, <2>3, LineFields DEF GotInv
  <2> QED
    BY <1>3, <2>1, <2>4, <2>5
<1>5. ASSUME NEW i \in 1 .. Len(got'), i < Len(got'), got'[i].kind = "command"
      PROVE  Ran(got[i].id)' <=> got'[i].text = "command"
  <2>1. i \in 1 .. Len(got)
    BY <1>1, <1>5
  <2>2. Ran(got[i].id) <=> got[i].text = "command"
    BY <1>1, <1>5, <2>1 DEF RanInv
  <2>3. \A id : Ran(id)' <=> Ran(id)
    BY DEF Ran
  <2> QED
    BY <1>1, <2>1, <2>2, <2>3
<1>6. Phases'
  BY <1>1, <1>2 DEF Phases
<1>7. RunInOrder' /\ ran' \in Seq(Nat)
  BY DEF RanInv, RunInOrder
<1> QED
  BY <1>1, <1>2, <1>4, <1>5, <1>6, <1>7 DEF RanInv

\* RanInv is inductive.
LEMMA RanStep ==
    ASSUME TypeOK, GotInv, GotInv', RanInv, [ShellNext]_allVars
    PROVE  RanInv'
<1>1. ASSUME UNCHANGED <<got, ran>>, InLine' <=> InLine,
             \/ fut' = "none" \/ (fut # "none" /\ fut' # "none")
             \/ InLine /\ line.text \in {"request", "sleep"}
      PROVE  RanInv'
  <2>1. line' = line /\ (\A id : Ran(id)' <=> Ran(id))
    BY <1>1 DEF line, Ran
  <2>2. Phases'
    BY <1>1, <2>1 DEF RanInv, Phases
  <2> QED
    BY <1>1, <2>1, <2>2 DEF RanInv, RunInOrder
<1>2. ASSUME NEW kind \in Kind, NEW len \in Length, Input(kind, len) PROVE RanInv'
  <2>1. UNCHANGED <<got, ran, pc, fut>>
    BY <1>2 DEF Input, add, Enqueue, QueueFull
  <2> QED
    BY <1>1, <2>1 DEF InLine
<1>3. CASE InputIgnored \/ (Wake /\ UNCHANGED shellVars) \/ UNCHANGED allVars \/ RepollRequest
  <2>1. UNCHANGED <<got, ran, pc, fut>>
    BY <1>3 DEF InputIgnored, Wake, RepollRequest, allVars, shellVars, vars
  <2> QED
    BY <1>1, <2>1 DEF InLine
<1>4. CASE (Poll \/ Dequeue \/ Register \/ Recheck) /\ UNCHANGED shellVars
  <2>1. UNCHANGED <<fut, ran>>
    BY <1>4 DEF shellVars
  <2>2. CASE Poll \/ Register \/ ((Dequeue \/ Recheck) /\ queue = <<>>)
    <3>1. UNCHANGED got /\ (InLine' <=> InLine)
      BY <2>2 DEF Poll, Register, Dequeue, Recheck, InLine
    <3> QED
      BY <1>1, <2>1, <3>1
  <2>3. CASE (Dequeue \/ Recheck) /\ queue # <<>>
    <3>1. queue' = Tail(queue) /\ got' = Append(got, Head(queue)) /\ ~InLine /\ pc' = "body"
      BY <2>3 DEF Dequeue, Recheck, InLine
    <3> QED
      BY <2>1, <2>3, <3>1, LineTaken
  <2> QED
    BY <1>4, <2>2, <2>3
<1>5. CASE SkipLine
  BY <1>5, LineEnds DEF SkipLine, InBody, Finish
<1>6. CASE RunCommand
  BY <1>6, LineEnds DEF RunCommand, InBody, Finish
<1>7. CASE StartAlias
  <2>1. /\ UNCHANGED <<got, ran>> /\ pc = "body" /\ pc' = "await"
        /\ line.text \in {"request", "sleep"}
    BY <1>7 DEF StartAlias, InBody, Suspend, PollNewRequest
  <2> QED
    BY <1>1, <2>1 DEF InLine
<1>8. CASE ResumeRequest \/ ResumeSleep
  <2>1. fut # "none" /\ pc = "body" /\ UNCHANGED got /\ line.text \in {"request", "sleep"}
    BY <1>8 DEF ResumeRequest, ResumeSleep, InBody, RanInv, Phases
  <2>2. CASE PollNewRequest /\ UNCHANGED ran
    BY <1>1, <2>1, <2>2 DEF Suspend, PollNewRequest, InLine
  <2>3. CASE Finish /\ ran' = Append(ran, line.id)
    BY <2>1, <2>3, LineEnds DEF Finish
  <2> QED
    BY <1>8, <2>2, <2>3 DEF ResumeRequest, ResumeSleep
<1>9. CASE Wakers
  <2>1. UNCHANGED <<got, ran, pc>> /\ (fut' = fut \/ (fut # "none" /\ fut' # "none"))
    BY <1>9 DEF Wakers, Resolve, TimerFires, OtherWake
  <2> QED
    BY <1>1, <2>1 DEF InLine
<1> QED
  BY <1>2, <1>3, <1>4, <1>5, <1>6, <1>7, <1>8, <1>9 DEF ShellNext, Handler, TaskStep

LEMMA RanHolds == ShellSpec => []RanInv
<1>1. ShellInit => RanInv
  <2> SUFFICES ASSUME ShellInit PROVE RanInv
    OBVIOUS
  <2>1. got = <<>> /\ ran = <<>> /\ pc = "parked" /\ fut = "none"
    BY DEF ShellInit, Init
  <2>2. 1 .. Len(got) = {} /\ 1 .. Len(ran) = {} /\ ran \in Seq(Nat)
    BY <2>1
  <2> QED
    BY <2>1, <2>2 DEF RanInv, Phases, InLine, RunInOrder
<1>2. TypeOK /\ GotInv /\ GotInv' /\ RanInv /\ [ShellNext]_allVars => RanInv'
  BY RanStep
<1> QED
  BY <1>1, <1>2, GotHolds, ShellStream, TypeCorrect, PTL DEF ShellSpec

\* Lines run in the order they were typed, and none twice, whatever the lines
\* are and whenever they, the answers and the timers come.
THEOREM RunInOrderHolds == ShellSpec => []RunInOrder
<1>1. RanInv => RunInOrder
  BY DEF RanInv
<1> QED
  BY <1>1, RanHolds, PTL

\* Of the commands that were handled, exactly those did not run that were too
\* long or came after such a line.
THEOREM IgnoredOnlyByLongHolds == ShellSpec => []IgnoredOnlyByLong
<1>1. GotInv /\ RanInv => IgnoredOnlyByLong
  <2> SUFFICES ASSUME GotInv, RanInv, NEW i \in 1 .. Len(got), got[i].kind = "command",
                      i < Len(got) \/ pc \in {"parked", "dequeue"}
               PROVE  ~Ran(got[i].id) <=> (got[i].len >= SHELL_BUFSIZE \/ AfterTooLong(i))
    BY DEF IgnoredOnlyByLong, Ran
  <2>1. Ran(got[i].id) <=> got[i].text = "command"
    BY DEF RanInv, InLine
  <2>2. got[i].text = TextOf("command", got[i].len, AfterTooLong(i))
    BY DEF GotInv
  <2>3. got[i].text = "command" <=> ~(got[i].len >= SHELL_BUFSIZE \/ AfterTooLong(i))
    BY <2>2 DEF TextOf
  <2> QED
    BY <2>1, <2>3
<1> QED
  BY <1>1, GotHolds, RanHolds, PTL

----------------------------------------------------------------------------
(* When a future is polled *)

\* CalmInv is inductive.
LEMMA CalmStep ==
    ASSUME TypeOK, CalmInv, [ShellNext]_allVars
    PROVE  CalmInv'
<1> SUFFICES ASSUME Calm, ~raced, ~raced' PROVE Calm'
  <2>1. raced => raced'
    BY DEF ShellNext, Handler, InputIgnored, Input, Arrival, TaskStep, SkipLine, RunCommand,
           StartAlias, ResumeRequest, RepollRequest, ResumeSleep, Wakers, Resolve, TimerFires,
           shellVars, allVars
  <2> QED
    BY <2>1 DEF CalmInv
<1> USE DEF Calm, InLine
<1>0. waker \in BOOLEAN /\ runq \in BOOLEAN
  BY DEF TypeOK
<1>1. ASSUME NEW kind \in Kind, NEW len \in Length, Input(kind, len) PROVE Calm'
  <2>1. /\ pc # "recheck"
        /\ UNCHANGED <<got, pc, waker, runq, fut, timers, early, repolled>>
    BY <1>1 DEF Input, Arrival, add, Enqueue, QueueFull
  <2>2. line' = line
    BY <2>1 DEF line
  <2> QED
    BY <2>1, <2>2
<1>2. CASE InputIgnored \/ UNCHANGED allVars
  <2>1. UNCHANGED <<got, pc, prod, waker, runq, fut, timers, early, repolled>>
    BY <1>2 DEF InputIgnored, allVars, shellVars, vars
  <2>2. line' = line
    BY <2>1 DEF line
  <2> QED
    BY <2>1, <2>2
<1>3. CASE (Wake \/ Poll \/ (prod = "idle" /\ Register)) /\ UNCHANGED shellVars
  <2>1. UNCHANGED <<fut, timers, early, repolled>> /\ UNCHANGED got
    BY <1>3 DEF Wake, Poll, Register, shellVars
  <2>2. line' = line
    BY <2>1 DEF line
  <2>3. CASE Wake
    BY <1>0, <2>1, <2>2, <2>3 DEF Wake
  <2>4. CASE Poll
    BY <1>0, <2>1, <2>2, <2>4 DEF Poll, TypeOK
  <2>5. CASE prod = "idle" /\ Register
    BY <1>0, <2>1, <2>2, <2>5 DEF Register
  <2> QED
    BY <1>3, <2>3, <2>4, <2>5
<1>4. CASE prod = "idle" /\ (Dequeue \/ Recheck) /\ UNCHANGED shellVars
  <2>1. UNCHANGED <<fut, timers, early, repolled>> /\ fut = "none"
    BY <1>4 DEF Dequeue, Recheck, shellVars
  <2>2. CASE Dequeue
    BY <1>0, <1>4, <2>1, <2>2 DEF Dequeue
  <2>3. CASE Recheck
    BY <1>0, <1>4, <2>1, <2>3 DEF Recheck
  <2> QED
    BY <1>4, <2>2, <2>3
<1>5. CASE SkipLine \/ RunCommand \/ StartAlias \/ ResumeRequest \/ RepollRequest \/ ResumeSleep
  <2>1. pc = "body" /\ prod = "idle" /\ ~waker /\ ~runq /\ fut \notin {"Registered", "Unsent", "sleeping"}
    BY <1>5 DEF SkipLine, RunCommand, StartAlias, ResumeRequest, RepollRequest, ResumeSleep, InBody
  <2>2. UNCHANGED <<got, prod, waker, runq>>
    BY <1>5 DEF SkipLine, RunCommand, StartAlias, ResumeRequest, RepollRequest, ResumeSleep, vars
  <2>3. line' = line
    BY <2>2 DEF line
  <2>4. CASE SkipLine \/ RunCommand
    BY <2>1, <2>2, <2>3, <2>4 DEF SkipLine, RunCommand, Finish
  <2>5. CASE StartAlias
    BY <2>1, <2>2, <2>3, <2>5 DEF StartAlias, Suspend, PollNewRequest
  <2>6. CASE ResumeRequest
    BY <2>1, <2>2, <2>3, <2>6 DEF ResumeRequest, Suspend, PollNewRequest, Finish
  <2>7. ~RepollRequest
    BY <2>1 DEF RepollRequest
  <2>8. CASE ResumeSleep
    <3>1. fut = "fired" /\ fut' = "none" /\ pc' = "dequeue" /\ UNCHANGED <<timers, repolled>>
      BY <2>1, <2>8 DEF ResumeSleep, Finish
    <3>2. ~early'
      BY <2>1, <2>8, Zenon DEF ResumeSleep
    <3> QED
      BY <2>1, <2>2, <3>1, <3>2
  <2> QED
    BY <1>5, <2>4, <2>5, <2>6, <2>7, <2>8
<1>6. CASE Resolve
  BY <1>0, <1>6 DEF Resolve, OtherWake
<1>7. ASSUME NEW id \in timers, TimerFires(id) PROVE Calm'
  <2>1. fut = "sleeping" /\ id = line.id /\ pc = "await"
    BY <1>7
  <2>2. fut' = "fired" /\ timers' = {}
    BY <1>7, <2>1 DEF TimerFires
  <2> QED
    BY <1>0, <1>7, <2>1, <2>2 DEF TimerFires, OtherWake
<1> QED
  BY <1>1, <1>2, <1>3, <1>4, <1>5, <1>6, <1>7 DEF ShellNext, Handler, TaskStep, Wakers

\* No request is polled before its answer, and no Timeout is over early, unless
\* input came between poll_next()'s register and its second dequeue.
THEOREM OnlyRaceRepollsHolds == ShellSpec => []OnlyRaceRepolls
<1>1. ShellInit => CalmInv
  BY DEF ShellInit, Init, CalmInv, Calm, InLine
<1>2. TypeOK /\ CalmInv /\ [ShellNext]_allVars => CalmInv'
  BY CalmStep
<1>3. CalmInv => OnlyRaceRepolls
  BY DEF CalmInv, Calm, OnlyRaceRepolls
<1> QED
  BY <1>1, <1>2, <1>3, ShellStream, TypeCorrect, PTL DEF ShellSpec
==============================================================================
