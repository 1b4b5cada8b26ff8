-------------------------- MODULE ServerEventsProofs --------------------------
(***************************************************************************)
(* Theorems about ServerEvents, for every set of sockets and flags, every  *)
(* size of the stream and every number of events.                          *)
(***************************************************************************)
EXTENDS ServerEvents, XStreamProofs

\* The server uses its XStream only as an XStream may be used: whatever is
\* proved of XStream's own specification holds of the server's stream.
THEOREM ServerStream == ServerSpec => Spec
<1>1. ServerInit => Init
  BY DEF ServerInit
<1>2. [ServerNext]_allVars => [Next]_vars
  <2> SUFFICES ASSUME [ServerNext]_allVars PROVE Next \/ UNCHANGED vars
    OBVIOUS
  <2>1. CASE ~panicked /\ on_sock_evt
    BY <2>1 DEF on_sock_evt, Defer, Bypass, Next, Producer
  <2>2. CASE ~panicked /\ Wake
    BY <2>2 DEF Next, Producer
  <2>3. CASE ~panicked /\ ServerTask
    BY <2>3 DEF ServerTask, StartServer, PollServer, Handle, Next, Consumer
  <2>4. CASE UNCHANGED allVars
    BY <2>4 DEF allVars
  <2> QED
    BY <2>1, <2>2, <2>3, <2>4 DEF ServerNext
<1> QED
  BY <1>1, <1>2, PTL DEF ServerSpec, Spec

----------------------------------------------------------------------------
(***************************************************************************)
(* Ids grow along the way of a message: those handled, the one in the      *)
(* loop's body, those in the queue in their order, those still to come.    *)
(***************************************************************************)
MSG(e) == "MSG_RECV" \in e.flags

Typed ==
    /\ seen \in Nat
    /\ misuse \in BOOLEAN
    /\ handled \in Seq(Event)
    /\ pc # "await"
    /\ pc = "body" => got # <<>>

QueueOrder ==
    /\ \A k \in 1 .. Len(queue) : MSG(queue[k]) /\ queue[k].id <= seen
    /\ \A k, l \in 1 .. Len(queue) : k < l => queue[k].id < queue[l].id

BodyOrder ==
    pc = "body" =>
        /\ MSG(Body) /\ Body.id <= seen
        /\ \A k \in 1 .. Len(queue) : Body.id < queue[k].id

HandledOrder ==
    \A i \in 1 .. Len(handled) :
        /\ handled[i].id <= seen
        /\ MSG(handled[i]) =>
              /\ \A k \in 1 .. Len(queue) : handled[i].id < queue[k].id
              /\ pc = "body" => handled[i].id < Body.id

ServerInv ==
    /\ Typed
    /\ QueueOrder
    /\ BodyOrder
    /\ HandledOrder
    /\ OnlyMessagesOvertaken
    /\ BoxesOwned

\* ServerInv is inductive.
LEMMA ServerStep ==
    ASSUME TypeOK, ServerInv, [ServerNext]_allVars
    PROVE  ServerInv'
<1> USE ServerAssumption DEF ServerInv, Typed
<1>0. /\ queue \in Seq(Item) /\ got \in Seq(Item) /\ Len(queue) \in Nat
      /\ \A k \in 1 .. Len(queue) : queue[k] \in Item /\ queue[k].id \in Nat
      /\ \A i \in 1 .. Len(handled) : handled[i].id \in Nat
      /\ Len(handled) \in Nat
      /\ pc = "body" => Body.id \in Nat
  <2>1. \A e \in Event : e.id \in Nat
    BY DEF Event
  <2>2. queue \in Seq(Item) /\ got \in Seq(Item) /\ Len(queue) \in Nat
    BY LenProperties DEF TypeOK
  <2>3. \A k \in 1 .. Len(queue) : queue[k] \in Item
    BY <2>2, ElementOfSeq
  <2>4. Len(handled) \in Nat /\ \A i \in 1 .. Len(handled) : handled[i] \in Event
    BY ElementOfSeq, LenProperties
  <2>5. pc = "body" => Body \in Item
    <3>1. Len(got) \in Nat /\ (got # <<>> => Len(got) \in 1 .. Len(got))
      BY <2>2, EmptySeq, LenProperties
    <3> QED
      BY <2>2, <3>1, ElementOfSeq DEF Body
  <2> QED
    BY <2>1, <2>2, <2>3, <2>4, <2>5
<1>1. ASSUME NEW e \in Item, Defer(e), Enqueue(e), ~panicked PROVE ServerInv'
  <2>1. /\ e.id = seen + 1 /\ seen' = seen + 1 /\ MSG(e)
        /\ box' = box \cup {e.id} /\ queue' = Append(queue, e)
        /\ UNCHANGED <<pc, got, panicked, server_init_done, misuse, handled>>
    BY <1>1 DEF Defer, Reported, Enqueue, MSG
  <2>2. /\ Len(queue') = Len(queue) + 1
        /\ \A k \in 1 .. Len(queue) : queue'[k] = queue[k]
        /\ queue'[Len(queue) + 1] = e
    BY <1>0, <2>1, AppendAt
  <2>3. \A k \in 1 .. Len(queue') : k \in 1 .. Len(queue) \/ k = Len(queue) + 1
    BY <1>0, <2>2
  <2>4. Body' = Body
    BY <2>1 DEF Body
  <2>5. Typed'
    BY <2>1
  <2>6. QueueOrder'
    <3>1. ASSUME NEW k \in 1 .. Len(queue') PROVE MSG(queue'[k]) /\ queue'[k].id <= seen'
      BY <1>0, <2>1, <2>2, <2>3 DEF QueueOrder
    <3>2. ASSUME NEW k \in 1 .. Len(queue'), NEW l \in 1 .. Len(queue'), k < l
          PROVE  queue'[k].id < queue'[l].id
      <4>1. k \in 1 .. Len(queue)
        BY <1>0, <2>2, <3>2
      <4>2. CASE l \in 1 .. Len(queue)
        BY <2>2, <3>2, <4>1, <4>2 DEF QueueOrder
      <4>3. CASE l = Len(queue) + 1
        BY <1>0, <2>1, <2>2, <4>1, <4>3 DEF QueueOrder
      <4> QED
        BY <2>3, <4>2, <4>3
    <3> QED
      BY <3>1, <3>2 DEF QueueOrder, MSG
  <2>7. BodyOrder'
    BY <1>0, <2>1, <2>2, <2>3, <2>4 DEF BodyOrder
  <2>8. HandledOrder'
    BY <1>0, <2>1, <2>2, <2>3, <2>4 DEF HandledOrder
  <2>9. OnlyMessagesOvertaken'
    BY <2>1 DEF OnlyMessagesOvertaken
  <2>10. {queue[k].id : k \in 1 .. Len(queue)}' = {queue[k].id : k \in 1 .. Len(queue)} \cup {e.id}
    <3>1. ASSUME NEW k \in 1 .. Len(queue')
          PROVE  queue'[k].id \in {queue[l].id : l \in 1 .. Len(queue)} \cup {e.id}
      BY <2>2, <2>3
    <3>2. ASSUME NEW l \in 1 .. Len(queue)
          PROVE  l \in 1 .. Len(queue') /\ queue'[l].id = queue[l].id
      BY <1>0, <2>2
    <3>3. Len(queue) + 1 \in 1 .. Len(queue') /\ queue'[Len(queue) + 1].id = e.id
      BY <1>0, <2>2
    <3> QED
      BY <3>1, <3>2, <3>3
  <2>11. BoxesOwned'
    BY <1>1, <2>1, <2>4, <2>10 DEF BoxesOwned, Body
  <2> QED
    BY <2>5, <2>6, <2>7, <2>8, <2>9, <2>11
<1>2. ASSUME NEW e \in Item, Defer(e), QueueFull PROVE ServerInv'
  <2>1. /\ seen' = seen + 1 /\ panicked' = TRUE
        /\ UNCHANGED <<queue, pc, got, misuse, handled>>
    BY <1>2 DEF Defer, Reported, QueueFull
  <2>2. Body' = Body
    BY <2>1 DEF Body
  <2>3. Typed' /\ OnlyMessagesOvertaken' /\ BoxesOwned'
    BY <2>1 DEF OnlyMessagesOvertaken, BoxesOwned
  <2>4. QueueOrder'
    BY <1>0, <2>1 DEF QueueOrder
  <2>5. BodyOrder'
    BY <1>0, <2>1, <2>2 DEF BodyOrder
  <2>6. HandledOrder'
    BY <1>0, <2>1, <2>2 DEF HandledOrder
  <2> QED
    BY <2>3, <2>4, <2>5, <2>6
<1>3. ASSUME NEW e \in Item, Bypass(e) PROVE ServerInv'
  <2>1. /\ e.id = seen + 1 /\ seen' = seen + 1 /\ ~MSG(e) /\ e \in Event
        /\ handled' = Append(handled, e)
        /\ UNCHANGED <<queue, pc, got, panicked, box, misuse>>
    BY <1>3 DEF Bypass, Reported, MSG, vars
  <2>2. /\ handled' \in Seq(Event) /\ Len(handled') = Len(handled) + 1
        /\ \A i \in 1 .. Len(handled) : handled'[i] = handled[i]
        /\ handled'[Len(handled) + 1] = e
    BY <2>1, AppendAt
  <2>3. \A i \in 1 .. Len(handled') : i \in 1 .. Len(handled) \/ i = Len(handled) + 1
    BY <1>0, <2>2
  <2>4. Body' = Body
    BY <2>1 DEF Body
  <2>5. Typed'
    BY <2>1, <2>2
  <2>6. QueueOrder' /\ BodyOrder'
    BY <1>0, <2>1, <2>4 DEF QueueOrder, BodyOrder
  <2>7. HandledOrder'
    BY <1>0, <2>1, <2>2, <2>3, <2>4 DEF HandledOrder
  <2>8. OnlyMessagesOvertaken'
    <3>1. ASSUME NEW i \in 1 .. Len(handled) PROVE handled[i].id < e.id
      <4>1. handled[i].id \in Nat /\ handled[i].id <= seen
        BY <1>0 DEF HandledOrder
      <4> QED
        BY <2>1, <4>1
    <3> QED
      BY <1>0, <2>1, <2>2, <2>3, <3>1 DEF OnlyMessagesOvertaken
  <2>9. BoxesOwned'
    BY <2>1 DEF BoxesOwned
  <2> QED
    BY <2>5, <2>6, <2>7, <2>8, <2>9
<1>4. ASSUME UNCHANGED <<queue, got, panicked, serverVars>>, pc # "body",
             pc' \notin {"body", "await"}
      PROVE  ServerInv'
  BY <1>4 DEF serverVars, QueueOrder, BodyOrder, HandledOrder, OnlyMessagesOvertaken, BoxesOwned
<1>5. ASSUME queue # <<>>, queue' = Tail(queue), got' = Append(got, Head(queue)),
             pc # "body", pc' = "body", ~panicked, UNCHANGED <<panicked, serverVars>>
      PROVE  ServerInv'
  <2>1. /\ Len(queue) >= 1 /\ Len(queue') = Len(queue) - 1
        /\ \A k \in 1 .. Len(queue') : queue'[k] = queue[k + 1]
        /\ got' # <<>> /\ Body' = queue[1]
    BY <1>5, TakeHead
  <2>2. UNCHANGED <<seen, box, misuse, handled>>
    BY <1>5 DEF serverVars
  <2>3. Typed' /\ OnlyMessagesOvertaken'
    BY <1>5, <2>1, <2>2 DEF OnlyMessagesOvertaken
  <2>4. \A k \in 1 .. Len(queue') :
           /\ k + 1 \in 1 .. Len(queue) /\ queue'[k] = queue[k + 1]
           /\ 1 \in 1 .. Len(queue) /\ 1 < k + 1
    BY <1>0, <2>1
  <2>5. QueueOrder' /\ BodyOrder'
    <3>1. ASSUME NEW k \in 1 .. Len(queue') PROVE MSG(queue'[k]) /\ queue'[k].id <= seen'
      BY <2>2, <2>4 DEF QueueOrder
    <3>2. ASSUME NEW k \in 1 .. Len(queue'), NEW l \in 1 .. Len(queue'), k < l
          PROVE  queue'[k].id < queue'[l].id
      <4>1. k + 1 < l + 1
        BY <3>2
      <4> QED
        BY <2>4, <4>1 DEF QueueOrder
    <3>3. BodyOrder'
      <4>1. 1 \in 1 .. Len(queue)
        BY <1>0, <2>1
      <4>2. MSG(queue[1]) /\ queue[1].id <= seen
        BY <4>1 DEF QueueOrder
      <4>3. \A k \in 1 .. Len(queue') : queue[1].id < queue'[k].id
        BY <2>4 DEF QueueOrder
      <4> QED
        BY <2>1, <2>2, <4>2, <4>3 DEF BodyOrder, MSG
    <3> QED
      BY <3>1, <3>2, <3>3 DEF QueueOrder, MSG
  <2>6. HandledOrder'
    <3>1. 1 \in 1 .. Len(queue)
      BY <1>0, <2>1
    <3> QED
      BY <2>1, <2>2, <2>4, <3>1 DEF HandledOrder, MSG
  <2>7. {queue[k].id : k \in 1 .. Len(queue)} =
           {queue[k].id : k \in 1 .. Len(queue)}' \cup {Body'.id}
    <3>1. \A k \in 1 .. Len(queue) : k = 1 \/ (k - 1 \in 1 .. Len(queue') /\ queue'[k - 1] = queue[k])
      BY <1>0, <2>1
    <3>2. 1 \in 1 .. Len(queue) /\ Body'.id = queue[1].id
      BY <1>0, <2>1
    <3>3. \A k \in 1 .. Len(queue) :
             queue[k].id \in {queue[l].id : l \in 1 .. Len(queue)}' \cup {Body'.id}
      BY <3>1, <3>2
    <3>4. \A k \in 1 .. Len(queue') :
             queue'[k].id \in {queue[l].id : l \in 1 .. Len(queue)}
      BY <2>4
    <3> QED
      BY <3>2, <3>3, <3>4
  <2>8. BoxesOwned'
    BY <1>5, <2>2, <2>7 DEF BoxesOwned, Body
  <2> QED
    BY <2>3, <2>5, <2>6, <2>8
<1>6. CASE ~panicked /\ (StartServer \/ PollServer)
  <2>0. CASE StartServer
    <3>1. /\ pc = "parked" /\ pc' = "dequeue"
          /\ UNCHANGED <<queue, got, panicked, seen, box, misuse, handled>>
      BY <2>0 DEF StartServer, Poll
    <3> QED
      BY <3>1 DEF QueueOrder, BodyOrder, HandledOrder, OnlyMessagesOvertaken, BoxesOwned
  <2>1. CASE Poll /\ UNCHANGED serverVars
    BY <1>4, <2>1 DEF Poll
  <2>2. CASE (Dequeue \/ Recheck) /\ queue = <<>> /\ UNCHANGED serverVars
    BY <1>4, <2>2 DEF Dequeue, Recheck
  <2>3. CASE ~panicked /\ (Dequeue \/ Recheck) /\ queue # <<>> /\ UNCHANGED serverVars
    BY <1>5, <2>3 DEF Dequeue, Recheck
  <2>4. CASE Register /\ UNCHANGED serverVars
    BY <1>4, <2>4 DEF Register
  <2> QED
    BY <1>6, <2>0, <2>1, <2>2, <2>3, <2>4 DEF PollServer
<1>7. CASE ~panicked /\ Handle
  <2>1. /\ pc = "body" /\ pc' = "dequeue" /\ Body \in Event
        /\ misuse' = (misuse \/ Body.id \notin box)
        /\ box' = box \ {Body.id}
        /\ handled' = Append(handled, Body)
        /\ UNCHANGED <<queue, got, panicked, seen>>
    BY <1>0, <1>7, EmptySeq, LenProperties, ElementOfSeq DEF Handle, BodyEnds, Body
  <2>2. /\ handled' \in Seq(Event) /\ Len(handled') = Len(handled) + 1
        /\ \A i \in 1 .. Len(handled) : handled'[i] = handled[i]
        /\ handled'[Len(handled) + 1] = Body
    BY <2>1, AppendAt
  <2>3. \A i \in 1 .. Len(handled') : i \in 1 .. Len(handled) \/ i = Len(handled) + 1
    BY <1>0, <2>2
  <2>4. QueueOrder' /\ BodyOrder'
    BY <2>1 DEF QueueOrder, BodyOrder
  <2>5. HandledOrder'
    BY <1>0, <2>1, <2>2, <2>3 DEF HandledOrder, BodyOrder
  <2>6. OnlyMessagesOvertaken'
    <3>1. \A i \in 1 .. Len(handled) : MSG(handled[i]) => handled[i].id < Body.id
      BY <2>1 DEF HandledOrder
    <3>2. MSG(Body)
      BY <2>1 DEF BodyOrder
    <3> QED
      BY <1>0, <2>1, <2>2, <2>3, <3>1, <3>2 DEF OnlyMessagesOvertaken, MSG
  <2>7. BoxesOwned'
    <3>1. box = {queue[k].id : k \in 1 .. Len(queue)} \cup {Body.id} /\ ~misuse
      BY <1>7, <2>1 DEF BoxesOwned, Body
    <3>2. Body.id \notin {queue[k].id : k \in 1 .. Len(queue)}
      BY <1>0, <2>1 DEF BodyOrder
    <3> QED
      BY <2>1, <3>1, <3>2 DEF BoxesOwned
  <2>8. Typed'
    <3>1. misuse' = FALSE
      BY <2>7 DEF BoxesOwned
    <3> QED
      BY <2>1, <2>2, <3>1
  <2> QED
    BY <2>4, <2>5, <2>6, <2>7, <2>8
<1>8. CASE (Wake /\ UNCHANGED serverVars) \/ UNCHANGED allVars
  <2>1. UNCHANGED <<queue, got, panicked, pc, seen, box, misuse, handled>>
    BY <1>8 DEF Wake, allVars, vars, serverVars
  <2> QED
    BY <2>1 DEF QueueOrder, BodyOrder, HandledOrder, OnlyMessagesOvertaken, BoxesOwned, Body
<1> QED
  BY <1>1, <1>2, <1>3, <1>6, <1>7, <1>8
     DEF ServerNext, on_sock_evt, ServerTask, Defer, add

LEMMA ServerHolds == ServerSpec => []ServerInv
<1>1. ServerInit => ServerInv
  <2> SUFFICES ASSUME ServerInit PROVE ServerInv
    OBVIOUS
  <2>1. /\ queue = <<>> /\ handled = <<>> /\ box = {} /\ misuse = FALSE /\ seen = 0
        /\ pc = "parked"
    BY DEF ServerInit, Init
  <2>2. 1 .. Len(queue) = {} /\ 1 .. Len(handled) = {} /\ handled \in Seq(Event)
    BY <2>1
  <2>3. Typed /\ BodyOrder
    BY <2>1, <2>2 DEF Typed, BodyOrder
  <2>4. QueueOrder /\ HandledOrder /\ OnlyMessagesOvertaken
    BY <2>2 DEF QueueOrder, HandledOrder, OnlyMessagesOvertaken
  <2>5. BoxesOwned
    BY <2>1, <2>2 DEF BoxesOwned
  <2> QED
    BY <2>3, <2>4, <2>5 DEF ServerInv
<1>2. TypeOK /\ ServerInv /\ [ServerNext]_allVars => ServerInv'
  BY ServerStep
<1> QED
  BY <1>1, <1>2, ServerStream, TypeCorrect, PTL DEF ServerSpec

\* arg_from() opens each box once, and the boxes allocated are those of the
\* events in the stream and in the loop's body.
THEOREM BoxesOwnedHolds == ServerSpec => []BoxesOwned
<1>1. ServerInv => BoxesOwned
  BY DEF ServerInv
<1> QED
  BY <1>1, ServerHolds, PTL

\* An event handled at once in gcoap's thread may overtake messages that wait
\* in the stream; nothing else is reordered.
THEOREM OnlyMessagesOvertakenHolds == ServerSpec => []OnlyMessagesOvertaken
<1>1. ServerInv => OnlyMessagesOvertaken
  BY DEF ServerInv
<1> QED
  BY <1>1, ServerHolds, PTL
==============================================================================
