---------------------------- MODULE ApiTimerProofs ----------------------------
(***************************************************************************)
(* Theorems about ApiTimer, for every set of timers and every size of the  *)
(* API stream.                                                             *)
(***************************************************************************)
EXTENDS ApiTimer, XStreamProofs, FiniteSetTheorems

\* Only timers are armed.
LEMMA ArmedType == TimerSpec => [](armed \subseteq Item)
<1>1. TimerInit => armed \subseteq Item
  BY DEF TimerInit
<1>2. armed \subseteq Item /\ [TimerNext]_allVars => (armed \subseteq Item)'
  <2> SUFFICES ASSUME armed \subseteq Item, [TimerNext]_allVars PROVE armed' \subseteq Item
    OBVIOUS
  <2>1. CASE Caller
    BY <2>1 DEF Caller, SetTimeout, ZtimerCalloc, ZtimerSet
  <2>2. CASE ApiTask
    BY <2>2 DEF ApiTask, ReleaseTimer, CallBack, timerVars
  <2>3. ASSUME NEW t \in armed, Fire(t) PROVE armed' \subseteq Item
    BY <2>3 DEF Fire
  <2>4. CASE UNCHANGED timerVars \/ UNCHANGED allVars
    BY <2>4 DEF timerVars, allVars
  <2> QED
    BY <2>1, <2>2, <2>3, <2>4 DEF TimerNext
<1> QED
  BY <1>1, <1>2, PTL DEF TimerSpec

\* set_timeout(), the interrupt and process_api_stream use the API stream only
\* as an XStream may be used.
THEOREM TimerStream == TimerSpec => Spec
<1>1. TimerInit => Init
  BY DEF TimerInit
<1>2. armed \subseteq Item /\ [TimerNext]_allVars => [Next]_vars
  <2> SUFFICES ASSUME armed \subseteq Item, [TimerNext]_allVars PROVE Next \/ UNCHANGED vars
    OBVIOUS
  <2>1. CASE Caller
    BY <2>1 DEF Caller, SetTimeout, ZtimerCalloc, ZtimerSet
  <2>2. CASE ~panicked /\ ApiTask
    BY <2>2 DEF ApiTask, ReleaseTimer, CallBack, Next, Consumer
  <2>3. ASSUME ~panicked, NEW t \in armed, Fire(t) PROVE Next
    BY <2>3 DEF Fire, Next, Producer
  <2>4. CASE ~panicked /\ Wake
    BY <2>4 DEF Next, Producer
  <2>5. CASE UNCHANGED allVars
    BY <2>5 DEF allVars
  <2> QED
    BY <2>1, <2>2, <2>3, <2>4, <2>5 DEF TimerNext
<1> QED
  BY <1>1, <1>2, ArmedType, PTL DEF TimerSpec, Spec

----------------------------------------------------------------------------
(***************************************************************************)
(* Where a timer is: being set, armed, in the stream, or in the body of    *)
(* process_api_stream.  It is in one of these places at a time, and which  *)
(* of its blocks are allocated follows from the place.                     *)
(***************************************************************************)
InQueue(t) == \E k \in 1 .. Len(queue) : queue[k] = t
AtBody(t) == pc = "body" /\ Body = t
Underway(t) == t \in armed \/ InQueue(t) \/ (AtBody(t) /\ running = NoTimer)

Places ==
    /\ setting = <<NoTimer, "idle">> \/ setting \in Item \X {"calloc", "set"}
    /\ armed \subseteq Item
    /\ live \subseteq Item \X Block
    /\ timeout_pp \in [Item -> {NULL, "ztimer"}]
    /\ pc # "await"
    /\ pc = "body" => got # <<>>
    /\ running # NoTimer => AtBody(running)

OnePlace ==
    /\ \A t \in Item :
          /\ setting[1] = t => t \notin armed /\ ~InQueue(t) /\ ~AtBody(t)
          /\ t \in armed => ~InQueue(t) /\ ~AtBody(t)
          /\ InQueue(t) => ~AtBody(t)
    /\ \A k, l \in 1 .. Len(queue) : queue[k] = queue[l] => k = l

Blocks ==
    \A t \in Item :
        /\ <<t, "timeout_pp">> \in live <=> setting[1] = t \/ Underway(t)
        /\ <<t, "arg">> \in live <=> setting[1] = t \/ Underway(t)
        /\ <<t, "cb">> \in live <=> setting[1] = t \/ Underway(t) \/ AtBody(t)
        /\ <<t, "ztimer">> \in live <=> setting = <<t, "set">> \/ Underway(t)
        /\ <<t, "ztimer">> \in live => timeout_pp[t] = "ztimer"

TimerInv == ~misuse /\ Places /\ (~panicked => OnePlace /\ Blocks)

\* What an item at the end of the queue, or one taken from its head, does to
\* the places.
LEMMA EnqueuePlaces ==
    ASSUME TypeOK, NEW t \in Item, queue' = Append(queue, t)
    PROVE  /\ \A u : InQueue(u)' <=> InQueue(u) \/ u = t
           /\ ~InQueue(t) /\ (\A k, l \in 1 .. Len(queue) : queue[k] = queue[l] => k = l)
              => \A k, l \in 1 .. Len(queue') : queue'[k] = queue'[l] => k = l
<1>1. /\ Len(queue) \in Nat /\ Len(queue') = Len(queue) + 1
      /\ \A k \in 1 .. Len(queue) : queue'[k] = queue[k]
      /\ queue'[Len(queue) + 1] = t
  BY AppendAt DEF TypeOK
<1>2. /\ \A k \in 1 .. Len(queue') : k \in 1 .. Len(queue) \/ k = Len(queue) + 1
      /\ \A k \in 1 .. Len(queue) : k \in 1 .. Len(queue')
      /\ Len(queue) + 1 \in 1 .. Len(queue')
  BY <1>1
<1>3. \A u : InQueue(u)' <=> InQueue(u) \/ u = t
  BY <1>1, <1>2 DEF InQueue
<1> QED
  BY <1>1, <1>2, <1>3 DEF InQueue

LEMMA TakePlaces ==
    ASSUME TypeOK, queue # <<>>, queue' = Tail(queue), got' = Append(got, Head(queue)),
           \A k, l \in 1 .. Len(queue) : queue[k] = queue[l] => k = l
    PROVE  /\ got' # <<>> /\ Body' \in Item /\ InQueue(Body')
           /\ \A u : InQueue(u)' <=> InQueue(u) /\ u # Body'
           /\ \A k, l \in 1 .. Len(queue') : queue'[k] = queue'[l] => k = l
<1>1. /\ Len(queue) \in Nat /\ Len(queue) >= 1 /\ Len(queue') = Len(queue) - 1
      /\ \A k \in 1 .. Len(queue') : queue'[k] = queue[k + 1]
      /\ got' # <<>> /\ Body' = queue[1]
  BY TakeHead
<1>2. /\ 1 \in 1 .. Len(queue)
      /\ \A k \in 1 .. Len(queue') : k \in Nat /\ k + 1 \in 1 .. Len(queue) /\ k + 1 # 1
      /\ \A k \in 1 .. Len(queue) : k = 1 \/ (k - 1 \in 1 .. Len(queue') /\ queue'[k - 1] = queue[k])
  BY <1>1
<1>3. Body' \in Item /\ InQueue(Body')
  BY <1>1, <1>2, ElementOfSeq DEF InQueue, TypeOK
<1>4. ASSUME NEW k \in 1 .. Len(queue'), NEW l \in 1 .. Len(queue'), queue'[k] = queue'[l]
      PROVE  k = l
  <2>1. k + 1 = l + 1
    BY <1>1, <1>2, <1>4
  <2> QED
    BY <1>2, <2>1
<1>5. ASSUME NEW u PROVE InQueue(u)' <=> InQueue(u) /\ u # Body'
  <2>1. ASSUME NEW k \in 1 .. Len(queue'), queue'[k] = u PROVE InQueue(u) /\ u # Body'
    BY <1>1, <1>2, <2>1 DEF InQueue
  <2>2. ASSUME NEW k \in 1 .. Len(queue), queue[k] = u, u # Body' PROVE InQueue(u)'
    BY <1>1, <1>2, <2>2 DEF InQueue
  <2> QED
    BY <2>1, <2>2 DEF InQueue
<1> QED
  BY <1>1, <1>3, <1>4, <1>5

\* TimerInv is inductive.
LEMMA TimerStep ==
    ASSUME TypeOK, TimerInv, [TimerNext]_allVars
    PROVE  TimerInv'
<1> USE TimerAssumption DEF TimerInv
<1>1. ASSUME NEW t \in Item, SetTimeout(t), ~panicked PROVE TimerInv'
  <2>1. /\ setting = <<NoTimer, "idle">> /\ setting' = <<t, "calloc">>
        /\ \A b \in Block : <<t, b>> \notin live
        /\ live' = live \cup {<<t, "timeout_pp">>, <<t, "cb">>, <<t, "arg">>}
        /\ UNCHANGED <<queue, pc, got, panicked, misuse, timeout_pp, armed, running>>
    BY <1>1 DEF SetTimeout, Pending, vars
  <2>2. ~Underway(t) /\ ~AtBody(t) /\ t \notin armed /\ ~InQueue(t)
    BY <1>1, <2>1 DEF Blocks, Block, Underway
  <2>3. /\ Body' = Body
        /\ \A u : (InQueue(u)' <=> InQueue(u)) /\ (AtBody(u)' <=> AtBody(u))
                  /\ (Underway(u)' <=> Underway(u))
    BY <2>1 DEF InQueue, AtBody, Underway, Body
  <2>4. Places'
    BY <2>1, <2>3 DEF Places, Block
  <2>5. OnePlace'
    BY <1>1, <2>1, <2>2, <2>3 DEF OnePlace
  <2>6. Blocks'
    BY <1>1, <2>1, <2>2, <2>3 DEF Blocks, Block
  <2> QED
    BY <2>1, <2>4, <2>5, <2>6
<1>2. ASSUME NEW t \in Item, ZtimerCalloc(t), ~panicked PROVE TimerInv'
  <2>1. /\ setting = <<t, "calloc">> /\ setting' = <<t, "set">>
        /\ live' = live \cup {<<t, "ztimer">>}
        /\ timeout_pp' = [timeout_pp EXCEPT ![t] = "ztimer"]
        /\ UNCHANGED <<queue, pc, got, panicked, misuse, armed, running>>
    BY <1>2 DEF ZtimerCalloc, vars
  <2>2. /\ Body' = Body
        /\ \A u : (InQueue(u)' <=> InQueue(u)) /\ (AtBody(u)' <=> AtBody(u))
                  /\ (Underway(u)' <=> Underway(u))
    BY <2>1 DEF InQueue, AtBody, Underway, Body
  <2>3. Places'
    BY <2>1, <2>2 DEF Places, Block
  <2>4. OnePlace'
    BY <1>2, <2>1, <2>2 DEF OnePlace
  <2>5. Blocks'
    BY <1>2, <2>1, <2>2 DEF Blocks, Places
  <2> QED
    BY <2>1, <2>3, <2>4, <2>5
<1>3. ASSUME NEW t \in Item, ZtimerSet(t), ~panicked PROVE TimerInv'
  <2>1. /\ setting = <<t, "set">> /\ setting' = <<NoTimer, "idle">>
        /\ armed' = armed \cup {t}
        /\ UNCHANGED <<queue, pc, got, panicked, misuse, live, timeout_pp, running>>
    BY <1>3 DEF ZtimerSet, vars
  <2>2. /\ Body' = Body
        /\ \A u : (InQueue(u)' <=> InQueue(u)) /\ (AtBody(u)' <=> AtBody(u))
                  /\ (Underway(u)' <=> Underway(u) \/ u = t)
    BY <2>1 DEF InQueue, AtBody, Underway, Body
  <2>3. Places'
    BY <2>1, <2>2 DEF Places, Block
  <2>4. OnePlace'
    BY <1>3, <2>1, <2>2 DEF OnePlace
  <2>5. Blocks'
    BY <1>3, <2>1, <2>2 DEF Blocks
  <2> QED
    BY <2>1, <2>3, <2>4, <2>5
<1>4. ASSUME NEW t \in armed, Fire(t), ~panicked PROVE TimerInv'
  <2>1. /\ armed' = armed \ {t}
        /\ misuse' = (misuse \/ <<t, "ztimer">> \notin live)
        /\ UNCHANGED <<setting, live, timeout_pp, running, pc, got>>
    BY <1>4 DEF Fire, add, Enqueue, QueueFull
  <2>2. t \in Item /\ ~misuse'
    BY <1>4, <2>1 DEF Places, Blocks, Underway
  <2>3. Body' = Body /\ \A u : AtBody(u)' <=> AtBody(u)
    BY <2>1 DEF AtBody, Body
  <2>4. Places'
    BY <2>1, <2>3 DEF Places
  <2>5. CASE QueueFull
    <3>1. panicked'
      BY <2>5 DEF QueueFull
    <3> QED
      BY <2>2, <2>4, <3>1
  <2>6. CASE Enqueue(t)
    <3>1. queue' = Append(queue, t) /\ UNCHANGED panicked
      BY <2>6 DEF Enqueue
    <3>2. ~InQueue(t) /\ ~AtBody(t)
      BY <1>4, <2>2 DEF OnePlace
    <3>3. \A u : InQueue(u)' <=> InQueue(u) \/ u = t
      BY <2>2, <3>1, EnqueuePlaces
    <3>4. \A u : Underway(u)' <=> Underway(u)
      BY <1>4, <2>1, <2>3, <3>3 DEF Underway
    <3>5. OnePlace'
      <4>1. \A k, l \in 1 .. Len(queue') : queue'[k] = queue'[l] => k = l
        BY <1>4, <2>2, <3>1, <3>2, EnqueuePlaces DEF OnePlace
      <4> QED
        BY <1>4, <2>1, <2>2, <2>3, <3>2, <3>3, <4>1 DEF OnePlace
    <3>6. Blocks'
      BY <1>4, <2>1, <2>3, <3>4 DEF Blocks
    <3> QED
      BY <2>2, <2>4, <3>5, <3>6
  <2> QED
    BY <1>4, <2>5, <2>6 DEF Fire, add
<1>5. ASSUME ReleaseTimer, ~panicked PROVE TimerInv'
  <2> DEFINE t == Body
             freed == {<<t, "arg">>, <<t, "timeout_pp">>, <<t, "ztimer">>}
  <2>1. /\ pc = "body" /\ running = NoTimer /\ running' = t
        /\ live' = live \ freed
        /\ misuse' = (misuse \/ ~(freed \subseteq live)
                             \/ timeout_pp[t] = NULL \/ t \in armed)
        /\ UNCHANGED <<queue, pc, got, panicked, setting, timeout_pp, armed>>
    BY <1>5 DEF ReleaseTimer, vars, Body
  <2>2. t \in Item
    BY <2>1, EmptySeq, LenProperties, ElementOfSeq DEF TypeOK, Places, Body
  <2>3. AtBody(t) /\ Underway(t) /\ t \notin armed /\ ~InQueue(t) /\ setting[1] # t
    BY <1>5, <2>1, <2>2 DEF AtBody, Underway, OnePlace
  <2>4. ~misuse'
    BY <1>5, <2>1, <2>2, <2>3 DEF Blocks, NULL
  <2>5. /\ Body' = Body
        /\ \A u : (InQueue(u)' <=> InQueue(u)) /\ (AtBody(u)' <=> AtBody(u))
    BY <2>1 DEF InQueue, AtBody, Body
  <2>6. \A u \in Item : Underway(u)' <=> Underway(u) /\ u # t
    BY <2>1, <2>2, <2>3, <2>5 DEF Underway, AtBody
  <2>7. Places'
    BY <2>1, <2>2, <2>3, <2>5 DEF Places
  <2>8. OnePlace'
    BY <1>5, <2>1, <2>5 DEF OnePlace
  <2>9. Blocks'
    <3>1. \A u \in Item : u # t => (AtBody(u) <=> FALSE)
      BY DEF AtBody
    <3>2. setting # <<t, "set">>
      BY <2>3
    <3> HIDE DEF t
    <3> QED
      BY <1>5, <2>1, <2>2, <2>3, <2>5, <2>6, <3>1, <3>2 DEF Blocks
  <2> QED
    BY <2>4, <2>7, <2>8, <2>9
<1>6. ASSUME CallBack, ~panicked PROVE TimerInv'
  <2>1. /\ running # NoTimer /\ running' = NoTimer
        /\ setting = <<NoTimer, "idle">>
        /\ live' = live \ {<<running, "cb">>}
        /\ misuse' = (misuse \/ <<running, "cb">> \notin live)
        /\ pc = "body" /\ pc' = "dequeue"
        /\ UNCHANGED <<queue, got, panicked, setting, timeout_pp, armed>>
    BY <1>6 DEF CallBack, BodyEnds
  <2>2. AtBody(running) /\ running \in Item
    <3>1. AtBody(running)
      BY <2>1 DEF Places
    <3> QED
      BY <3>1, EmptySeq, LenProperties, ElementOfSeq DEF TypeOK, Places, Body, AtBody
  <2>3. ~misuse'
    BY <1>6, <2>1, <2>2 DEF Blocks
  <2>4. \A u : /\ InQueue(u)' <=> InQueue(u)
               /\ ~AtBody(u)'
               /\ AtBody(u) <=> u = running
    BY <2>1, <2>2 DEF InQueue, AtBody
  <2>5. \A u : Underway(u)' <=> Underway(u)
    BY <2>1, <2>4 DEF Underway
  <2>6. Places'
    BY <2>1, <2>4 DEF Places
  <2>7. OnePlace'
    BY <1>6, <2>1, <2>4 DEF OnePlace
  <2>8. ~Underway(running)
    BY <1>6, <2>1, <2>2, <2>4 DEF Underway, OnePlace
  <2>9. Blocks'
    BY <1>6, <2>1, <2>2, <2>4, <2>5, <2>8 DEF Blocks
  <2> QED
    BY <2>3, <2>6, <2>7, <2>9
<1>7. ASSUME UNCHANGED <<queue, got, panicked, timerVars>>, pc # "body", pc' # "body", pc' # "await"
      PROVE  TimerInv'
  <2>1. UNCHANGED <<setting, live, misuse, timeout_pp, armed, running>>
    BY <1>7 DEF timerVars
  <2>2. \A u : /\ InQueue(u)' <=> InQueue(u)
               /\ ~AtBody(u) /\ ~AtBody(u)'
               /\ Underway(u)' <=> Underway(u)
    BY <1>7, <2>1 DEF InQueue, AtBody, Underway
  <2>3. Places'
    BY <1>7, <2>1, <2>2 DEF Places
  <2>4. ~panicked => OnePlace' /\ Blocks'
    BY <1>7, <2>1, <2>2 DEF OnePlace, Blocks
  <2> QED
    BY <1>7, <2>1, <2>3, <2>4
<1>8. ASSUME queue # <<>>, queue' = Tail(queue), got' = Append(got, Head(queue)),
             pc # "body", pc' = "body", ~panicked, UNCHANGED <<panicked, timerVars>>
      PROVE  TimerInv'
  <2>1. UNCHANGED <<setting, live, misuse, timeout_pp, armed, running>>
    BY <1>8 DEF timerVars
  <2>2. /\ got' # <<>> /\ Body' \in Item /\ InQueue(Body')
        /\ \A u : InQueue(u)' <=> InQueue(u) /\ u # Body'
        /\ \A k, l \in 1 .. Len(queue') : queue'[k] = queue'[l] => k = l
    BY <1>8, TakePlaces DEF OnePlace
  <2>3. running = NoTimer /\ \A u : ~AtBody(u) /\ (AtBody(u)' <=> u = Body')
    BY <1>8 DEF AtBody, Places
  <2>4. \A u : Underway(u)' <=> Underway(u)
    BY <2>1, <2>2, <2>3 DEF Underway
  <2>5. Places'
    BY <1>8, <2>1, <2>2, <2>3 DEF Places
  <2>6. OnePlace'
    BY <1>8, <2>1, <2>2, <2>3 DEF OnePlace
  <2>7. \A u \in Item : u = Body' => Underway(u)
    BY <2>2 DEF Underway
  <2>8. Blocks'
    BY <1>8, <2>1, <2>3, <2>4, <2>7 DEF Blocks
  <2> QED
    BY <2>1, <2>5, <2>6, <2>8
<1>9. CASE ~panicked /\ (Poll \/ Dequeue \/ Register \/ Recheck) /\ UNCHANGED timerVars
  <2>1. CASE Poll
    BY <1>7, <1>9, <2>1 DEF Poll, Places
  <2>2. CASE (Dequeue \/ Recheck) /\ queue = <<>>
    BY <1>7, <1>9, <2>2 DEF Dequeue, Recheck
  <2>3. CASE (Dequeue \/ Recheck) /\ queue # <<>>
    BY <1>8, <1>9, <2>3 DEF Dequeue, Recheck
  <2>4. CASE Register
    BY <1>7, <1>9, <2>4 DEF Register
  <2> QED
    BY <1>9, <2>1, <2>2, <2>3, <2>4
<1>10. CASE (Wake /\ UNCHANGED timerVars) \/ UNCHANGED allVars
  <2>1. UNCHANGED <<queue, got, panicked, pc, setting, live, misuse, timeout_pp, armed, running>>
    BY <1>10 DEF Wake, allVars, vars, timerVars
  <2>2. \A u : /\ InQueue(u)' <=> InQueue(u)
               /\ AtBody(u)' <=> AtBody(u)
               /\ Underway(u)' <=> Underway(u)
    BY <2>1 DEF InQueue, AtBody, Underway, Body
  <2>3. Places'
    BY <2>1, <2>2 DEF Places
  <2>4. ~panicked => OnePlace' /\ Blocks'
    BY <2>1, <2>2 DEF OnePlace, Blocks
  <2> QED
    BY <2>1, <2>3, <2>4
<1> QED
  BY <1>1, <1>2, <1>3, <1>4, <1>5, <1>6, <1>9, <1>10 DEF TimerNext, Caller, ApiTask

LEMMA TimerHolds == TimerSpec => []TimerInv
<1>1. TimerInit => TimerInv
  <2> SUFFICES ASSUME TimerInit PROVE TimerInv
    OBVIOUS
  <2>1. /\ queue = <<>> /\ pc = "parked" /\ setting = <<NoTimer, "idle">> /\ live = {}
        /\ misuse = FALSE /\ timeout_pp = [t \in Item |-> NULL] /\ armed = {}
        /\ running = NoTimer
    BY DEF TimerInit, Init
  <2>2. 1 .. Len(queue) = {} /\ setting[1] = NoTimer /\ \A t \in Item : setting # <<t, "set">>
    BY <2>1, TimerAssumption
  <2>3. Places
    BY <2>1 DEF Places
  <2>4. \A t \in Item : ~Underway(t) /\ ~AtBody(t) /\ ~InQueue(t) /\ t \notin armed /\ setting[1] # t
    BY <2>1, <2>2, TimerAssumption DEF Underway, AtBody, InQueue
  <2>5. OnePlace /\ Blocks
    BY <2>1, <2>2, <2>4 DEF OnePlace, Blocks
  <2> QED
    BY <2>1, <2>3, <2>5 DEF TimerInv
<1>2. TypeOK /\ TimerInv /\ [TimerNext]_allVars => TimerInv'
  BY TimerStep
<1> QED
  BY <1>1, <1>2, TimerStream, TypeCorrect, PTL DEF TimerSpec

\* No block of a timer is freed twice, or read or written after it was freed,
\* and *timeout_pp is never NULL when the callback's task looks at it.
THEOREM NoMisuseHolds == TimerSpec => []NoMisuse
<1>1. TimerInv => NoMisuse
  BY DEF TimerInv, NoMisuse
<1> QED
  BY <1>1, TimerHolds, PTL

----------------------------------------------------------------------------
(***************************************************************************)
(* The stream cannot overflow while callers keep at most Capacity timers   *)
(* pending: the timers in the queue and the one that fires are distinct,   *)
(* and all of them are pending.                                            *)
(***************************************************************************)
CountInv == IsFiniteSet(Pending) /\ Cardinality(Pending) <= MaxPending /\ ~panicked

\* A timer that fires finds room.
LEMMA RoomToFire ==
    ASSUME TypeOK, TimerInv, CountInv, MaxPending <= Capacity, NEW t \in armed
    PROVE  Len(queue) < Capacity
<1> DEFINE rest == Pending \ {t}
           I == 1 .. Len(queue)
           f == [k \in I |-> queue[k]]
<1>1. OnePlace /\ Blocks /\ Places
  BY DEF TimerInv, CountInv
<1>2. \A u \in Item : Underway(u) => u \in Pending
  BY <1>1 DEF Blocks, Pending, Block
<1>3. t \in Pending
  BY <1>1, <1>2 DEF Places, Underway
<1>4. IsFiniteSet(rest) /\ Cardinality(rest) = Cardinality(Pending) - 1
  BY <1>3, FS_RemoveElement DEF CountInv
<1>5. Len(queue) \in Nat
  BY LenProperties DEF TypeOK
<1>6. IsFiniteSet(I) /\ Cardinality(I) = Len(queue)
  <2>1. 1 \in Int /\ Len(queue) \in Int
    BY <1>5
  <2>2. IsFiniteSet(I) /\ Cardinality(I) = IF 1 > Len(queue) THEN 0 ELSE Len(queue) - 1 + 1
    BY <2>1, FS_Interval
  <2> QED
    BY <1>5, <2>2
<1>7. ASSUME NEW k \in I PROVE queue[k] \in rest
  <2>1. queue[k] \in Item /\ InQueue(queue[k])
    BY <1>7, ElementOfSeq DEF TypeOK, InQueue
  <2>2. queue[k] # t
    BY <1>1, <2>1 DEF OnePlace, Places
  <2> QED
    BY <1>2, <2>1, <2>2 DEF Underway
<1>8. f \in Injection(I, rest)
  BY <1>1, <1>7 DEF OnePlace, Injection, IsInjective
<1>9. Cardinality(I) <= Cardinality(rest)
  BY <1>4, <1>8, FS_Injection
<1>10. Cardinality(Pending) \in Nat
  BY FS_CardinalityType DEF CountInv
<1> QED
  BY <1>4, <1>5, <1>6, <1>9, <1>10, TimerAssumption, StreamAssumption DEF CountInv, Capacity

LEMMA CountStep ==
    ASSUME TypeOK, TimerInv, CountInv, MaxPending <= Capacity, [TimerNext]_allVars
    PROVE  CountInv'
<1> USE TimerAssumption
<1>1. OnePlace /\ Blocks /\ Places
  BY DEF TimerInv, CountInv
<1>2. Cardinality(Pending) \in Nat
  BY FS_CardinalityType DEF CountInv
<1>3. ASSUME NEW t \in Item, SetTimeout(t) PROVE CountInv'
  <2>1. /\ t \notin Pending /\ Cardinality(Pending) < MaxPending /\ UNCHANGED panicked
        /\ live' = live \cup {<<t, "timeout_pp">>, <<t, "cb">>, <<t, "arg">>}
    BY <1>3 DEF SetTimeout, vars
  <2>2. Pending' = Pending \cup {t}
    BY <2>1 DEF Pending, Block
  <2>3. IsFiniteSet(Pending') /\ Cardinality(Pending') = Cardinality(Pending) + 1
    BY <2>1, <2>2, FS_AddElement DEF CountInv
  <2> QED
    BY <1>2, <2>1, <2>3 DEF CountInv
<1>4. ASSUME Pending' \subseteq Pending, UNCHANGED panicked PROVE CountInv'
  <2>1. IsFiniteSet(Pending') /\ Cardinality(Pending') <= Cardinality(Pending)
    BY <1>4, FS_Subset DEF CountInv
  <2>2. Cardinality(Pending') \in Nat
    BY <2>1, FS_CardinalityType
  <2> QED
    BY <1>2, <1>4, <2>1, <2>2 DEF CountInv
<1>5. ASSUME NEW t \in Item, ZtimerCalloc(t) PROVE CountInv'
  <2>1. /\ setting = <<t, "calloc">> /\ live' = live \cup {<<t, "ztimer">>}
        /\ UNCHANGED panicked
    BY <1>5 DEF ZtimerCalloc, vars
  <2>2. t \in Pending
    BY <1>1, <2>1 DEF Blocks, Pending, Block
  <2>3. Pending' \subseteq Pending
    BY <2>1, <2>2 DEF Pending
  <2> QED
    BY <1>4, <2>1, <2>3
<1>6. ASSUME live' \subseteq live, UNCHANGED panicked PROVE CountInv'
  BY <1>4, <1>6 DEF Pending
<1>7. ASSUME NEW t \in Item, ZtimerSet(t) PROVE CountInv'
  BY <1>6, <1>7 DEF ZtimerSet, vars
<1>8. ASSUME NEW t \in armed, Fire(t) PROVE CountInv'
  <2>1. Len(queue) < Capacity /\ Len(queue) \in Nat
    BY RoomToFire, LenProperties DEF TypeOK
  <2>2. ~QueueFull
    BY <2>1, StreamAssumption DEF QueueFull, Capacity
  <2> QED
    BY <1>6, <1>8, <2>2 DEF Fire, add, Enqueue
<1>9. CASE ApiTask
  BY <1>6, <1>9 DEF ApiTask, ReleaseTimer, CallBack, BodyEnds, Poll, Dequeue, Register, Recheck,
                    timerVars, vars
<1>10. CASE (Wake /\ UNCHANGED timerVars) \/ UNCHANGED allVars
  BY <1>6, <1>10 DEF Wake, timerVars, allVars, vars
<1> QED
  BY <1>3, <1>5, <1>7, <1>8, <1>9, <1>10 DEF TimerNext, Caller

LEMMA CountHolds == ASSUME MaxPending <= Capacity PROVE TimerSpec => []CountInv
<1>1. TimerInit => CountInv
  <2> SUFFICES ASSUME TimerInit PROVE CountInv
    OBVIOUS
  <2>1. Pending = {} /\ panicked = FALSE
    BY DEF TimerInit, Init, Pending
  <2> QED
    BY <2>1, FS_EmptySet, TimerAssumption DEF CountInv
<1>2. TypeOK /\ TimerInv /\ CountInv /\ [TimerNext]_allVars => CountInv'
  BY CountStep
<1> QED
  BY <1>1, <1>2, TimerHolds, TimerStream, TypeCorrect, PTL DEF TimerSpec

\* If callers never have more timers pending than the API stream has room for,
\* add() does not panic, wherever the interrupts come.
THEOREM NoOverflowHolds == ASSUME MaxPending <= Capacity PROVE TimerSpec => []NoOverflow
<1>1. CountInv => NoOverflow
  BY DEF CountInv, NoOverflow
<1> QED
  BY <1>1, CountHolds, PTL

\* Under the same condition none of a timer's four heap blocks leaks: three are
\* allocated exactly while it is on its way, the callback until it has run.
THEOREM NoLeakHolds == ASSUME MaxPending <= Capacity PROVE TimerSpec => []NoLeak
<1>1. TimerInv /\ CountInv => NoLeak
  <2> SUFFICES ASSUME TimerInv, CountInv, NEW t \in Item, setting[1] # t
               PROVE  /\ \A b \in {"arg", "timeout_pp", "ztimer"} :
                            <<t, b>> \in live <=> OnItsWay(t)
                      /\ <<t, "cb">> \in live <=> OnItsWay(t) \/ running = t
    BY DEF NoLeak
  <2>1. OnItsWay(t) <=> t \in armed \/ InQueue(t) \/ (AtBody(t) /\ running # t)
    BY DEF OnItsWay, InQueue, AtBody, Body
  <2>2. AtBody(t) => (running = NoTimer <=> running # t)
    BY TimerAssumption DEF TimerInv, Places, AtBody
  <2>3. OnItsWay(t) <=> Underway(t)
    BY <2>1, <2>2 DEF Underway
  <2>4. setting # <<t, "set">>
    OBVIOUS
  <2>5. Blocks
    BY DEF TimerInv, CountInv
  <2>6. \A b \in {"arg", "timeout_pp", "ztimer"} : <<t, b>> \in live <=> Underway(t)
    BY <2>4, <2>5 DEF Blocks
  <2>7. <<t, "cb">> \in live <=> Underway(t) \/ AtBody(t)
    BY <2>5 DEF Blocks
  <2>8. Underway(t) \/ AtBody(t) <=> Underway(t) \/ running = t
    <3>1. running = t => AtBody(t)
      BY TimerAssumption DEF TimerInv, Places
    <3> QED
      BY <2>2, <3>1 DEF Underway
  <2> QED
    BY <2>3, <2>6, <2>7, <2>8
<1> QED
  BY <1>1, CountHolds, TimerHolds, PTL
==============================================================================
