------------------------------- MODULE XStream -------------------------------
(***************************************************************************)
(* XStream<T, N> (examples/xbd-net/src/xbd/stream.rs): a heapless          *)
(* single-producer single-consumer queue and an AtomicWaker, with          *)
(*  - a producer in an interrupt handler or in another RIOT thread, which  *)
(*    calls add(): it enqueues, then wakes, and anything may happen        *)
(*    between the two;                                                     *)
(*  - a consumer, an embassy task running                                  *)
(*        while let Some(item) = stream.next().await { body }              *)
(*    polled by the executor of the main thread whenever its run-queue bit *)
(*    is set.  poll_next() is three steps the producer can interleave      *)
(*    with: dequeue, register the waker, dequeue again.                    *)
(* The body may itself await other futures, as process_shell_stream does.  *)
(***************************************************************************)
EXTENDS Naturals, Sequences

CONSTANTS
    Item,       \* the items the producer adds
    N,          \* the const generic N: heapless holds N - 1 items
    MaxAdds     \* bound on the calls of add(), to keep the model finite

ASSUME StreamAssumption ==
    /\ N \in Nat /\ N >= 2
    /\ MaxAdds \in Nat

VARIABLES
    queue,      \* XStream.queue
    waker,      \* XStream.waker holds the consumer's waker
    runq,       \* the run-queue bit of the consumer's task
    pc,         \* where the consumer's task is
    prod,       \* where the producer is inside add()
    sent,       \* history: items enqueued
    got,        \* history: items poll_next() returned
    panicked    \* add() reached panic!("queue is full")

vars == <<queue, waker, runq, pc, prod, sent, got, panicked>>

(***************************************************************************)
(* "parked": poll_next() returned Pending and the executor has the task;   *)
(* "dequeue", "register", "recheck": inside poll_next();                   *)
(* "body": running the loop's body; "await": the body is suspended on      *)
(* another future.                                                         *)
(***************************************************************************)
ConsumerPC == {"parked", "dequeue", "register", "recheck", "body", "await"}

\* Faulty variants, here and below, are slips the code could have made; each
\* has to be caught by one of the properties.
CapacityOneLess == N - 2

\* heapless::spsc::Queue<T, N> keeps one entry free.
Capacity == N - 1

Init ==
    /\ queue = <<>>
    /\ waker = FALSE
    /\ runq = TRUE          \* spawner.spawn() queues the task
    /\ pc = "parked"
    /\ prod = "idle"
    /\ sent = <<>>
    /\ got = <<>>
    /\ panicked = FALSE

----------------------------------------------------------------------------
(* The producer: XStream::add. *)

\* Faulty: one item more than fits
EnqueueOffByOne(item) ==
    /\ prod = "idle"
    /\ Len(sent) < MaxAdds
    /\ Len(queue) <= Capacity
    /\ queue' = Append(queue, item)
    /\ sent' = Append(sent, item)
    /\ prod' = "wake"
    /\ UNCHANGED <<waker, runq, pc, got, panicked>>

Enqueue(item) ==
    /\ prod = "idle"
    /\ Len(sent) < MaxAdds
    /\ Len(queue) < Capacity
    /\ queue' = Append(queue, item)
    /\ sent' = Append(sent, item)
    /\ prod' = "wake"
    /\ UNCHANGED <<waker, runq, pc, got, panicked>>

QueueFull ==
    /\ prod = "idle"
    /\ Len(sent) < MaxAdds
    /\ Len(queue) = Capacity
    /\ panicked' = TRUE
    /\ UNCHANGED <<queue, waker, runq, pc, prod, sent, got>>

\* Faulty: takes the waker and does not wake
WakeLost ==
    /\ prod = "wake"
    /\ waker' = FALSE
    /\ prod' = "idle"
    /\ UNCHANGED <<queue, runq, pc, sent, got, panicked>>

\* AtomicWaker::wake takes the waker, if there is one, and wakes its task.
Wake ==
    /\ prod = "wake"
    /\ runq' = (runq \/ waker)
    /\ waker' = FALSE
    /\ prod' = "idle"
    /\ UNCHANGED <<queue, pc, sent, got, panicked>>

\* XStream::add, up to the call of wake()
add(item) == Enqueue(item) \/ QueueFull

Producer == (\E item \in Item : add(item)) \/ Wake

----------------------------------------------------------------------------
(* The consumer: the executor's poll and the three steps of poll_next. *)

\* The executor clears the bit, then polls the task where it is suspended.
Poll ==
    /\ pc \in {"parked", "await"}
    /\ runq
    /\ runq' = FALSE
    /\ pc' = IF pc = "parked" THEN "dequeue" ELSE "body"
    /\ UNCHANGED <<queue, waker, prod, sent, got, panicked>>

\* Faulty: peeks at the item and leaves it in the queue
DequeueKeeps ==
    /\ pc = "dequeue"
    /\ IF queue = <<>>
       THEN pc' = "register" /\ UNCHANGED got
       ELSE pc' = "body" /\ got' = Append(got, Head(queue))
    /\ UNCHANGED <<queue, waker, runq, prod, sent, panicked>>

\* Fast path: `if let Some(item) = self.queue.dequeue()`.
Dequeue ==
    /\ pc = "dequeue"
    /\ IF queue = <<>>
       THEN /\ pc' = "register"
            /\ UNCHANGED <<queue, got>>
       ELSE /\ pc' = "body"
            /\ got' = Append(got, Head(queue))
            /\ queue' = Tail(queue)
    /\ UNCHANGED <<waker, runq, prod, sent, panicked>>

\* `self.waker.register(cx.waker())`
Register ==
    /\ pc = "register"
    /\ waker' = TRUE
    /\ pc' = "recheck"
    /\ UNCHANGED <<queue, runq, prod, sent, got, panicked>>

\* Faulty: no second look at the queue
RecheckSkipped ==
    /\ pc = "recheck"
    /\ pc' = "parked"
    /\ UNCHANGED <<queue, waker, runq, prod, sent, got, panicked>>

\* Faulty: no self.waker.take() when the second dequeue succeeds
RecheckKeepsWaker ==
    /\ pc = "recheck"
    /\ IF queue = <<>>
       THEN /\ pc' = "parked"
            /\ UNCHANGED <<queue, got>>
       ELSE /\ pc' = "body"
            /\ got' = Append(got, Head(queue))
            /\ queue' = Tail(queue)
    /\ UNCHANGED <<waker, runq, prod, sent, panicked>>

\* The second dequeue: Ready, dropping the waker again, or Pending.
Recheck ==
    /\ pc = "recheck"
    /\ IF queue = <<>>
       THEN /\ pc' = "parked"
            /\ UNCHANGED <<queue, waker, got>>
       ELSE /\ pc' = "body"
            /\ waker' = FALSE
            /\ got' = Append(got, Head(queue))
            /\ queue' = Tail(queue)
    /\ UNCHANGED <<runq, prod, sent, panicked>>

\* The body ends and the loop calls next() again.
BodyEnds ==
    /\ pc = "body"
    /\ pc' = "dequeue"
    /\ UNCHANGED <<queue, waker, runq, prod, sent, got, panicked>>

\* The body awaits another future.
BodyAwaits ==
    /\ pc = "body"
    /\ pc' = "await"
    /\ UNCHANGED <<queue, waker, runq, prod, sent, got, panicked>>

\* That future wakes the task; it may do so late, and more than once.
OtherWake ==
    /\ runq' = TRUE
    /\ UNCHANGED <<queue, waker, pc, prod, sent, got, panicked>>

Consumer == Poll \/ Dequeue \/ Register \/ Recheck \/ BodyEnds \/ BodyAwaits

----------------------------------------------------------------------------
\* A panic stops the program.
Next == ~panicked /\ (Producer \/ Consumer \/ OtherWake)

Spec == Init /\ [][Next]_vars

(***************************************************************************)
(* The main thread runs the executor in a loop (Executor::run), so the     *)
(* task's next step is taken if it stays possible; a producer that has     *)
(* enqueued finishes add().  A body is a finite program, and what it       *)
(* awaits wakes it.  Nothing obliges the producer to add.                  *)
(***************************************************************************)
FairSpec ==
    /\ Spec
    /\ WF_vars(~panicked /\ Consumer)
    /\ WF_vars(~panicked /\ Wake)
    /\ WF_vars(~panicked /\ pc = "await" /\ OtherWake)
    /\ SF_vars(~panicked /\ BodyEnds)

----------------------------------------------------------------------------
TypeOK ==
    /\ queue \in Seq(Item)
    /\ Len(queue) <= Capacity
    /\ waker \in BOOLEAN
    /\ runq \in BOOLEAN
    /\ pc \in ConsumerPC
    /\ prod \in {"idle", "wake"}
    /\ sent \in Seq(Item)
    /\ got \in Seq(Item)
    /\ panicked \in BOOLEAN

(***************************************************************************)
(* poll_next() never parks the task on an item nobody will wake it for:    *)
(* if the task is parked and the queue holds something, the task is queued *)
(* to run or the producer is still to call wake() with the waker in place. *)
(* The second dequeue of poll_next() is there for this.                    *)
(***************************************************************************)
NoLostWakeup ==
    pc = "parked" /\ queue # <<>> => runq \/ (prod = "wake" /\ waker)

\* An XStream is a bounded FIFO channel, received by a consumer that never
\* stops receiving: every item added comes out of poll_next(), in order.
Chan == INSTANCE Channel WITH chan <- queue

ImplementsChannel == Chan!ChanSpec
ImplementsFairChannel == Chan!FairChanSpec

\* Items leave in the order add() put them, none lost and none twice.
Fifo == Chan!Fifo
==============================================================================
