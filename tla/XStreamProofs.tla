---------------------------- MODULE XStreamProofs ----------------------------
(***************************************************************************)
(* Theorems about XStream, for every item set, queue size and bound: the   *)
(* type invariant, the FIFO property, the absence of lost wake-ups, and    *)
(* that every step is a step of Channel.                                   *)
(***************************************************************************)
EXTENDS XStream, SequenceTheorems, TLAPS

\* An item appended to the queue is appended to what left plus what is left.
LEMMA AppendConcat ==
    ASSUME NEW S, NEW s \in Seq(S), NEW t \in Seq(S), NEW x \in S
    PROVE  s \o Append(t, x) = Append(s \o t, x)
<1>1. <<x>> \in Seq(S)
  OBVIOUS
<1>2. s \o Append(t, x) = s \o (t \o <<x>>)
  BY AppendIsConcat
<1>3. @ = (s \o t) \o <<x>>
  BY <1>1, ConcatAssociative
<1>4. s \o t \in Seq(S)
  BY ConcatProperties
<1>5. (s \o t) \o <<x>> = Append(s \o t, x)
  BY <1>4, AppendIsConcat
<1> QED
  BY <1>2, <1>3, <1>5

\* Taking the head of the queue to the end of what left changes nothing.
LEMMA MoveHead ==
    ASSUME NEW S, NEW s \in Seq(S), NEW t \in Seq(S), t # <<>>
    PROVE  Append(s, Head(t)) \o Tail(t) = s \o t
<1> DEFINE h == Head(t)
<1>1. /\ h \in S /\ Tail(t) \in Seq(S) /\ Len(Tail(t)) = Len(t) - 1
      /\ \A i \in 1 .. Len(Tail(t)) : Tail(t)[i] = t[i + 1]
  BY HeadTailProperties
<1>2. <<h>> \in Seq(S) /\ Len(<<h>>) = 1 /\ <<h>>[1] = h /\ h = t[1]
  BY <1>1
<1>3. <<h>> \o Tail(t) = t
  <2>1. /\ <<h>> \o Tail(t) \in Seq(S)
        /\ Len(<<h>> \o Tail(t)) = Len(<<h>>) + Len(Tail(t))
        /\ \A i \in 1 .. Len(<<h>>) + Len(Tail(t)) :
              (<<h>> \o Tail(t))[i] =
                  IF i <= Len(<<h>>) THEN <<h>>[i] ELSE Tail(t)[i - Len(<<h>>)]
    BY <1>1, <1>2, ConcatProperties
  <2>2. Len(t) \in Nat
    BY LenProperties
  <2>3. Len(<<h>> \o Tail(t)) = Len(t)
    BY <1>1, <1>2, <2>1, <2>2
  <2>4. ASSUME NEW i \in 1 .. Len(t)
        PROVE  (<<h>> \o Tail(t))[i] = t[i]
    BY <1>1, <1>2, <2>1, <2>2, <2>3
  <2> QED
    BY <2>1, <2>3, <2>4, SeqEqual
<1>4. Append(s, h) = s \o <<h>>
  BY <1>1, AppendIsConcat
<1>5. (s \o <<h>>) \o Tail(t) = s \o (<<h>> \o Tail(t))
  BY <1>1, <1>2, ConcatAssociative
<1> QED
  BY <1>3, <1>4, <1>5

----------------------------------------------------------------------------
\* Every variable of XStream keeps its type and the queue its bound: add()
\* checks for room, poll_next() only removes.
THEOREM TypeCorrect == Spec => []TypeOK
<1>1. Init => TypeOK
  <2>1. <<>> \in Seq(Item) /\ Len(<<>>) = 0 /\ 0 <= Capacity
    BY StreamAssumption DEF Capacity
  <2> QED
    BY <2>1 DEF Init, TypeOK, ConsumerPC
<1>2. TypeOK /\ [Next]_vars => TypeOK'
  <2> SUFFICES ASSUME TypeOK, [Next]_vars
               PROVE  TypeOK'
    OBVIOUS
  <2> USE StreamAssumption DEF TypeOK, ConsumerPC, Capacity
  <2>1. ASSUME NEW item \in Item, Enqueue(item) PROVE TypeOK'
    BY <2>1, AppendProperties DEF Enqueue
  <2>2. CASE QueueFull
    BY <2>2 DEF QueueFull
  <2>3. CASE Wake
    BY <2>3 DEF Wake
  <2>4. CASE Poll
    BY <2>4 DEF Poll
  <2>5. CASE Dequeue
    <3>1. CASE queue = <<>>
      BY <2>5, <3>1 DEF Dequeue
    <3>2. CASE queue # <<>>
      <4>1. /\ queue' = Tail(queue) /\ got' = Append(got, Head(queue))
            /\ Tail(queue) \in Seq(Item) /\ Len(Tail(queue)) = Len(queue) - 1
            /\ Append(got, Head(queue)) \in Seq(Item)
        BY <2>5, <3>2, HeadTailProperties, AppendProperties DEF Dequeue
      <4>2. Len(queue') <= Capacity
        BY <4>1, LenProperties
      <4> QED
        BY <2>5, <3>2, <4>1, <4>2 DEF Dequeue
    <3> QED
      BY <3>1, <3>2
  <2>6. CASE Register
    BY <2>6 DEF Register
  <2>7. CASE Recheck
    <3>1. CASE queue = <<>>
      BY <2>7, <3>1 DEF Recheck
    <3>2. CASE queue # <<>>
      <4>1. /\ queue' = Tail(queue) /\ got' = Append(got, Head(queue))
            /\ Tail(queue) \in Seq(Item) /\ Len(Tail(queue)) = Len(queue) - 1
            /\ Append(got, Head(queue)) \in Seq(Item)
        BY <2>7, <3>2, HeadTailProperties, AppendProperties DEF Recheck
      <4>2. Len(queue') <= Capacity
        BY <4>1, LenProperties
      <4> QED
        BY <2>7, <3>2, <4>1, <4>2 DEF Recheck
    <3> QED
      BY <3>1, <3>2
  <2>8. CASE BodyEnds \/ BodyAwaits
    BY <2>8 DEF BodyEnds, BodyAwaits
  <2>9. CASE OtherWake
    BY <2>9 DEF OtherWake
  <2>10. CASE UNCHANGED vars
    BY <2>10 DEF vars
  <2> QED
    BY <2>1, <2>2, <2>3, <2>4, <2>5, <2>6, <2>7, <2>8, <2>9, <2>10
       DEF Next, Producer, add, Consumer
<1> QED
  BY <1>1, <1>2, PTL DEF Spec

----------------------------------------------------------------------------
(***************************************************************************)
(* Why no wake-up is lost.  NoLostWakeup is not inductive: it does not say *)
(* that a task which registered its waker and found the queue empty still  *)
(* has the waker in place, or has been woken since.  With that, a producer *)
(* that enqueues after the second dequeue finds the waker, and one that    *)
(* enqueued before it is seen by the second dequeue.                       *)
(***************************************************************************)
WakeInv ==
    /\ pc \in {"recheck", "parked"} => waker \/ runq
    /\ pc = "parked" /\ queue # <<>> => runq \/ prod = "wake"

\* WakeInv is inductive.
LEMMA WakeInvInductive == TypeOK /\ WakeInv /\ [Next]_vars => WakeInv'
<1> SUFFICES ASSUME TypeOK, WakeInv, [Next]_vars
             PROVE  WakeInv'
  OBVIOUS
<1> USE DEF TypeOK, WakeInv, ConsumerPC
<1>1. ASSUME NEW item \in Item, Enqueue(item) PROVE WakeInv'
  BY <1>1 DEF Enqueue
<1>2. CASE QueueFull
  BY <1>2 DEF QueueFull
<1>3. CASE Wake
  BY <1>3 DEF Wake
<1>4. CASE Poll
  BY <1>4 DEF Poll
<1>5. CASE Dequeue
  BY <1>5 DEF Dequeue
<1>6. CASE Register
  BY <1>6 DEF Register
<1>7. CASE Recheck
  BY <1>7 DEF Recheck
<1>8. CASE BodyEnds \/ BodyAwaits
  BY <1>8 DEF BodyEnds, BodyAwaits
<1>9. CASE OtherWake
  BY <1>9 DEF OtherWake
<1>10. CASE UNCHANGED vars
  BY <1>10 DEF vars
<1> QED
  BY <1>1, <1>2, <1>3, <1>4, <1>5, <1>6, <1>7, <1>8, <1>9, <1>10
     DEF Next, Producer, add, Consumer

\* poll_next() and add() never leave the task parked on an item with nobody
\* to wake it.
THEOREM NoLostWakeupHolds == Spec => []NoLostWakeup
<1>1. Init => WakeInv
  BY DEF Init, WakeInv
<1>2. TypeOK /\ WakeInv => NoLostWakeup
  BY DEF TypeOK, WakeInv, NoLostWakeup
<1> QED
  BY <1>1, <1>2, TypeCorrect, WakeInvInductive, PTL DEF Spec

----------------------------------------------------------------------------
\* Every step of add(), of poll_next() and of the executor is a step of the
\* channel or leaves it alone, so an XStream implements a bounded FIFO.
THEOREM ImplementsChannelHolds == Spec => ImplementsChannel
<1>1. Init => Chan!ChanInit
  BY DEF Init, Chan!ChanInit
<1>2. TypeOK /\ [Next]_vars => [Chan!ChanNext]_(Chan!chanVars)
  <2> SUFFICES ASSUME TypeOK, [Next]_vars
               PROVE  Chan!ChanNext \/ UNCHANGED Chan!chanVars
    OBVIOUS
  <2> USE DEF Chan!chanVars
  <2>1. ASSUME NEW item \in Item, ~panicked, Enqueue(item) PROVE Chan!ChanNext
    BY <2>1 DEF TypeOK, Enqueue, Chan!ChanNext, Chan!Send
  <2>2. CASE ~panicked /\ QueueFull
    BY <2>2 DEF QueueFull, Chan!ChanNext, Chan!Overflow
  <2>3. CASE Wake
    BY <2>3 DEF Wake
  <2>4. CASE Poll
    BY <2>4 DEF Poll
  <2>5. CASE ~panicked /\ Dequeue
    BY <2>5 DEF Dequeue, Chan!ChanNext, Chan!Receive
  <2>6. CASE Register
    BY <2>6 DEF Register
  <2>7. CASE ~panicked /\ Recheck
    BY <2>7 DEF Recheck, Chan!ChanNext, Chan!Receive
  <2>8. CASE BodyEnds \/ BodyAwaits
    BY <2>8 DEF BodyEnds, BodyAwaits
  <2>9. CASE OtherWake
    BY <2>9 DEF OtherWake
  <2>10. CASE UNCHANGED vars
    BY <2>10 DEF vars
  <2> QED
    BY <2>1, <2>2, <2>3, <2>4, <2>5, <2>6, <2>7, <2>8, <2>9, <2>10
       DEF Next, Producer, add, Consumer
<1> QED
  BY <1>1, <1>2, TypeCorrect, PTL DEF Spec, ImplementsChannel, Chan!ChanSpec

\* What add() took in is what poll_next() gave out followed by what is still
\* queued: a step of the channel keeps it so.
LEMMA FifoHolds == Spec => []Fifo
<1>1. Init => Fifo
  BY ConcatEmptySeq, EmptySeq DEF Init, Fifo, Chan!Fifo
<1>2. TypeOK /\ Fifo /\ [Next]_vars => Fifo'
  <2> SUFFICES ASSUME TypeOK, Fifo, [Next]_vars
               PROVE  Fifo'
    OBVIOUS
  <2> USE DEF Fifo, Chan!Fifo
  <2>0. queue \in Seq(Item) /\ got \in Seq(Item)
    BY DEF TypeOK
  <2>1. ASSUME NEW item \in Item, Enqueue(item) PROVE Fifo'
    <3>1. got \o Append(queue, item) = Append(got \o queue, item)
      BY <2>0, AppendConcat
    <3> QED
      BY <2>1, <3>1 DEF Enqueue
  <2>2. CASE Dequeue \/ Recheck
    <3>1. CASE queue = <<>>
      BY <2>2, <3>1 DEF Dequeue, Recheck
    <3>2. CASE queue # <<>>
      BY <2>0, <2>2, <3>2, MoveHead DEF Dequeue, Recheck
    <3> QED
      BY <3>1, <3>2
  <2>3. CASE QueueFull \/ Wake \/ Poll \/ Register \/ BodyEnds \/ BodyAwaits \/ OtherWake
    BY <2>3 DEF QueueFull, Wake, Poll, Register, BodyEnds, BodyAwaits, OtherWake
  <2>4. CASE UNCHANGED vars
    BY <2>4 DEF vars
  <2> QED
    BY <2>1, <2>2, <2>3, <2>4 DEF Next, Producer, add, Consumer
<1> QED
  BY <1>1, <1>2, TypeCorrect, PTL DEF Spec

----------------------------------------------------------------------------
(* What the modules that build on a stream need of it *)

\* The item the loop's body was given
Body == got[Len(got)]

\* What taking the head of the queue into the body does to positions.
LEMMA TakeHead ==
    ASSUME TypeOK, queue # <<>>, queue' = Tail(queue), got' = Append(got, Head(queue))
    PROVE  /\ Len(queue) \in Nat /\ Len(queue) >= 1 /\ Len(queue') = Len(queue) - 1
           /\ \A k \in 1 .. Len(queue') : queue'[k] = queue[k + 1]
           /\ got' # <<>> /\ Body' = queue[1]
<1>1. /\ Head(queue) \in Item /\ Head(queue) = queue[1] /\ Tail(queue) \in Seq(Item)
      /\ Len(Tail(queue)) = Len(queue) - 1
      /\ \A k \in 1 .. Len(Tail(queue)) : Tail(queue)[k] = queue[k + 1]
  BY HeadTailProperties DEF TypeOK
<1>2. Len(queue) \in Nat /\ Len(queue) # 0
  BY EmptySeq, LenProperties DEF TypeOK
<1>3. /\ Len(got') = Len(got) + 1 /\ got'[Len(got) + 1] = Head(queue) /\ Len(got) \in Nat
      /\ got' # <<>>
  BY <1>1, AppendProperties, LenProperties DEF TypeOK
<1> QED
  BY <1>1, <1>2, <1>3 DEF Body

\* A sequence with one more element at its end.
LEMMA AppendAt ==
    ASSUME NEW S, NEW s \in Seq(S), NEW x \in S
    PROVE  /\ Append(s, x) \in Seq(S) /\ Len(s) \in Nat
           /\ Len(Append(s, x)) = Len(s) + 1
           /\ \A k \in 1 .. Len(s) : Append(s, x)[k] = s[k]
           /\ Append(s, x)[Len(s) + 1] = x
  BY AppendProperties, LenProperties
==============================================================================
