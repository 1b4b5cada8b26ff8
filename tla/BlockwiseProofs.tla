--------------------------- MODULE BlockwiseProofs ---------------------------
(***************************************************************************)
(* Theorems about Blockwise, for every set of transfers and tasks, every   *)
(* number of states and every size of resource.                            *)
(***************************************************************************)
EXTENDS Blockwise, FiniteSetTheorems, SequenceTheorems, TLAPS

----------------------------------------------------------------------------
(* What holds whatever clients do *)

\* A stream's queue holds at most one request, or the None that ends it.
One(x) == <<x>>
Queue == {<<>>} \cup {One(r) : r \in Req \cup {None}}

TypeOK ==
    /\ states \in [Slot -> TransferState \cup {None}]
    /\ sd \in [Slot -> Queue]
    /\ last \in Slot \cup {None}
    /\ handle \in [Transfer -> {"new", "refused", "open", "closed", "done"}]
    /\ index \in [Transfer -> Slot \cup {None}]
    /\ held \in [Transfer -> Req \cup {None}]
    /\ fstat \in [Transfer -> {"none", "New", "Registered", "Resolved"}]
    /\ ret \in [Transfer -> Block \cup {None}]
    /\ out \in [Transfer -> {"none", "err", "fail", "block"}]
    /\ got \in [Transfer -> Seq(Block)]
    /\ memos \subseteq [context : Transfer, pdu : Block]
    /\ \A t \in Transfer : handle[t] \in {"open", "closed"} => index[t] \in Slot
    /\ \A t \in Transfer : held[t] = None <=> fstat[t] = "none"

\* A set of slots that is not empty has a least member, so Min is in it.
LEMMA MinInSet ==
    ASSUME NEW S \in SUBSET Nat, S # {}
    PROVE  Min(S) \in S
<1>1. PICK x \in S : \A y \in S : ~(<<y, x>> \in OpToRel(<, Nat))
  BY NatLessThanWellFounded, WFMin
<1>2. ASSUME NEW y \in S PROVE x =< y
  <2>1. ASSUME y < x PROVE <<y, x>> \in OpToRel(<, Nat)
    <3>1. <<y, x>> \in Nat \X Nat /\ <<y, x>>[1] = y /\ <<y, x>>[2] = x
      OBVIOUS
    <3> QED
      BY <2>1, <3>1, Zenon DEF OpToRel
  <2>2. ~(y < x)
    BY <1>1, <2>1
  <2> QED
    BY <2>2
<1> QED
  BY <1>1, <1>2 DEF Min

\* The state a new stream takes is one of the free ones.
LEMMA MinFree ==
    ASSUME FreeSlots # {}
    PROVE  Min(FreeSlots) \in Slot /\ states[Min(FreeSlots)] = None
<1>1. FreeSlots \in SUBSET Nat
  BY BlockwiseAssumption DEF FreeSlots, Slot
<1>2. Min(FreeSlots) \in FreeSlots
  BY <1>1, MinInSet
<1> QED
  BY <1>2 DEF FreeSlots

\* Taking the one item of a queue.
LEMMA QueueTake ==
    ASSUME NEW q \in Queue, q # <<>>
    PROVE  /\ Head(q) \in Req \cup {None}
           /\ Tail(q) = <<>>
           /\ q = One(Head(q))
<1>1. PICK r \in Req \cup {None} : q = One(r)
  BY DEF Queue
<1>2. Head(One(r)) = r /\ Tail(One(r)) = <<>>
  BY DEF One
<1> QED
  BY <1>1, <1>2

\* A handler that passes its checks has a state to work on.
LEMMA HandlerPasses ==
    HandlerCheck = None <=> last # None /\ states[last] # None
  BY NoneAssumption DEF HandlerCheck, Check

\* What poll stores and sends, and what the handler adds to a stream.
LEMMA UpdateType ==
    ASSUME NEW s \in TransferState, NEW r \in Req
    PROVE  /\ update_state(s, r) \in TransferState
           /\ pdu_of(update_state(s, r)) \in Block
<1>1. update_state(s, r) \in TransferState
  BY DEF update_state, TransferState, Req
<1> QED
  BY <1>1, BlockwiseAssumption DEF pdu_of, Block, TransferState

LEMMA GetNextType ==
    ASSUME NEW s \in TransferState, NEW i \in Slot, NEW b \in Block, b[2] < LastBlock
    PROVE  blockwise_get_next(s.uri, i, <<s.uri, b[2] + 1>>) \in Req
  BY BlockwiseAssumption DEF blockwise_get_next, Req, TransferState, Block

\* A check that fails when a stream is opened, polled or closed changes
\* nothing else: the program stops.
LEMMA PanicsFrame ==
    ASSUME NEW t \in Transfer, OpenPanics(t) \/ PollReqPanics(t) \/ ClosePanics(t)
    PROVE  UNCHANGED <<states, sd, last, handle, index, held, fstat, ret, out, got, memos>>
  BY Zenon DEF OpenPanics, PollReqPanics, ClosePanics

\* Every variable of Blockwise keeps its type.
LEMMA TypeStep == TypeOK /\ ResolveSafe /\ [Next]_vars => TypeOK'
<1> SUFFICES ASSUME TypeOK, ResolveSafe, [Next]_vars
             PROVE  TypeOK'
  OBVIOUS
<1> USE BlockwiseAssumption, NoneAssumption DEF TypeOK
<1>1. ASSUME NEW t \in Transfer, Open(t) PROVE TypeOK'
  <2> DEFINE i == Min(FreeSlots)
  <2>1. i \in Slot
    BY <1>1, MinFree DEF Open
  <2>2. FreshState \in TransferState
    BY DEF FreshState, TransferState
  <2>3. blockwise_get_new(t, i) \in Req
    BY <2>1 DEF blockwise_get_new, Req
  <2> HIDE DEF i
  <2>4. <<blockwise_get_new(t, i)>> \in Queue
    BY <2>3 DEF Queue, One
  <2> QED
    BY <1>1, <2>1, <2>2, <2>4 DEF Open, i
<1>2. ASSUME NEW t \in Transfer, OpenRefused(t) PROVE TypeOK'
  BY <1>2 DEF OpenRefused
<1>3. ASSUME NEW t \in Transfer, NextReq(t) PROVE TypeOK'
  <2>1. index[t] \in Slot /\ sd[index[t]] \in Queue
    BY <1>3 DEF NextReq
  <2>2. Head(sd[index[t]]) \in Req /\ Tail(sd[index[t]]) = <<>>
    BY <1>3, <2>1, QueueTake DEF NextReq
  <2>3. <<>> \in Queue
    BY DEF Queue
  <2> QED
    BY <1>3, <2>1, <2>2, <2>3 DEF NextReq
<1>4. ASSUME NEW t \in Transfer, NextNone(t) PROVE TypeOK'
  <2>1. index[t] \in Slot /\ sd[index[t]] \in Queue
    BY <1>4 DEF NextNone
  <2>2. Tail(sd[index[t]]) \in Queue
    BY <1>4, <2>1, QueueTake DEF NextNone, Queue
  <2> QED
    BY <1>4, <2>1, <2>2 DEF NextNone
<1>5. ASSUME NEW t \in Transfer, PollReq(t) PROVE TypeOK'
  <2> DEFINE i == held[t].idx
             s == update_state(states[i], held[t])
  <2>1. held[t] \in Req /\ i \in Slot /\ states[i] \in TransferState
    BY <1>5 DEF PollReq, MayPoll, Req
  <2>2. s \in TransferState /\ pdu_of(s) \in Block
    BY <2>1, UpdateType
  <2> HIDE DEF i, s
  <2>4. [context |-> t, pdu |-> pdu_of(s)] \in [context : Transfer, pdu : Block]
    BY <2>2
  <2> QED
    BY <1>5, <2>1, <2>2, <2>4 DEF PollReq, MayPoll, i, s
<1>6. ASSUME NEW t \in Transfer, PollReqClosed(t) PROVE TypeOK'
  BY <1>6 DEF PollReqClosed
<1>7. ASSUME NEW t \in Transfer, TakeResolved(t) PROVE TypeOK'
  <2>1. got' \in [Transfer -> Seq(Block)]
    <3>1. CASE ret[t] = None
      BY <1>7, <3>1 DEF TakeResolved
    <3>2. CASE ret[t] # None
      <4>1. Append(got[t], ret[t]) \in Seq(Block)
        BY <3>2, AppendProperties
      <4> QED
        BY <1>7, <3>2, <4>1 DEF TakeResolved
    <3> QED
      BY <3>1, <3>2
  <2> QED
    BY <1>7, <2>1 DEF TakeResolved
<1>8. ASSUME NEW t \in Transfer, Close(t) PROVE TypeOK'
  <2>1. <<None>> \in Queue
    BY DEF Queue, One
  <2> QED
    BY <1>8, <2>1 DEF Close, MayClose
<1>9. ASSUME NEW t \in Transfer, OpenPanics(t) \/ PollReqPanics(t) \/ ClosePanics(t)
      PROVE  TypeOK'
  BY <1>9, PanicsFrame
<1>10. ASSUME NEW t \in Transfer, Drop(t) PROVE TypeOK'
  BY <1>10 DEF Drop
<1>11. ASSUME NEW m \in memos, NEW v \in Block \cup {None}, resolve(m, v)
       PROVE  /\ fstat' \in [Transfer -> {"none", "New", "Registered", "Resolved"}]
              /\ ret' \in [Transfer -> Block \cup {None}]
              /\ memos' \subseteq [context : Transfer, pdu : Block]
              /\ \A t \in Transfer : fstat[t] = "none" <=> fstat'[t] = "none"
  BY <1>11 DEF resolve, ResolveSafe
<1>12. ASSUME NEW m \in memos, RespondFail(m) PROVE TypeOK'
  BY <1>11, <1>12 DEF RespondFail
<1>13. ASSUME NEW m \in memos, RespondMore(m) PROVE TypeOK'
  <2>1. last \in Slot /\ states[last] \in TransferState
    BY <1>13, HandlerPasses DEF RespondMore
  <2>2. m.pdu \in Block
    OBVIOUS
  <2>3. sd' \in [Slot -> Queue]
    <3> DEFINE r == blockwise_get_next(states[last].uri, last,
                                       <<states[last].uri, m.pdu[2] + 1>>)
    <3>1. r \in Req
      BY <1>13, <2>1, <2>2, GetNextType DEF RespondMore
    <3> HIDE DEF r
    <3>2. <<r>> \in Queue
      BY <3>1 DEF Queue, One
    <3> QED
      BY <1>13, <3>2 DEF RespondMore, r
  <2> QED
    BY <1>11, <1>13, <2>2, <2>3 DEF RespondMore
<1>14. ASSUME NEW m \in memos, RespondLast(m) PROVE TypeOK'
  <2>1. <<None>> \in Queue
    BY DEF Queue, One
  <2> QED
    BY <1>11, <1>14, <2>1 DEF RespondLast
<1>15. ASSUME NEW m \in memos, RespondPanics(m) PROVE TypeOK'
  BY <1>15 DEF RespondPanics
<1>16. CASE UNCHANGED vars
  BY <1>16 DEF vars
<1> QED
  BY <1>1, <1>2, <1>3, <1>4, <1>5, <1>6, <1>7, <1>8, <1>9, <1>10,
     <1>12, <1>13, <1>14, <1>15, <1>16 DEF Next, Client, Loop, Respond

\* An answer under way always has its future, and it is the only one for it.
LEMMA ResolveStep == TypeOK /\ ResolveSafe /\ [Next]_vars => ResolveSafe'
<1> SUFFICES ASSUME TypeOK, ResolveSafe, [Next]_vars
             PROVE  ResolveSafe'
  OBVIOUS
<1> USE DEF TypeOK, ResolveSafe
<1>1. ASSUME NEW t \in Transfer,
             \/ Open(t) \/ OpenPanics(t) \/ OpenRefused(t) \/ NextNone(t)
             \/ PollReqPanics(t) \/ Close(t) \/ ClosePanics(t)
      PROVE  ResolveSafe'
  BY <1>1 DEF Open, OpenPanics, OpenRefused, NextNone, PollReqPanics, Close, ClosePanics
<1>2. ASSUME NEW t \in Transfer, ~Awaiting(t), fstat' = [fstat EXCEPT ![t] = "New"] \/ fstat' = [fstat EXCEPT ![t] = "none"],
             UNCHANGED memos
      PROVE  ResolveSafe'
  BY <1>2 DEF Awaiting
<1>3. ASSUME NEW t \in Transfer, NextReq(t) \/ PollReqClosed(t) \/ Drop(t)
      PROVE  ResolveSafe'
  BY <1>2, <1>3 DEF NextReq, PollReqClosed, Drop, MayPoll, TaskFree
<1>4. ASSUME NEW t \in Transfer, PollReq(t) PROVE ResolveSafe'
  <2>1. fstat[t] = "New" /\ fstat' = [fstat EXCEPT ![t] = "Registered"]
    BY <1>4 DEF PollReq, MayPoll
  <2>2. PICK p : \/ memos' = memos \cup {[context |-> t, pdu |-> p]}
                 \/ UNCHANGED memos
    BY <1>4 DEF PollReq
  <2> QED
    BY <2>1, <2>2
<1>5. ASSUME NEW t \in Transfer, TakeResolved(t) PROVE ResolveSafe'
  BY <1>5 DEF TakeResolved
<1>6. ASSUME NEW m \in memos, NEW v, resolve(m, v) PROVE ResolveSafe'
  BY <1>6 DEF resolve
<1>7. ASSUME NEW m \in memos, Respond(m) PROVE ResolveSafe'
  BY <1>6, <1>7 DEF Respond, RespondFail, RespondMore, RespondLast, RespondPanics
<1>8. CASE UNCHANGED vars
  BY <1>8 DEF vars
<1> QED
  BY <1>1, <1>3, <1>4, <1>5, <1>7, <1>8 DEF Next, Client, Loop

\* Blockwise's variables keep their types: sd never holds two requests, and a
\* client holds a request exactly while its future lives.
THEOREM TypeCorrect == Spec => []TypeOK
<1>1. Init => TypeOK /\ ResolveSafe
  <2>1. <<>> \in Queue /\ <<>> \in Seq(Block)
    BY DEF Queue
  <2> QED
    BY <2>1 DEF Init, TypeOK, ResolveSafe
<1> QED
  BY <1>1, TypeStep, ResolveStep, PTL DEF Spec

\* Whatever clients do, every answer of gcoap finds the future it resolves
\* there and Registered.
THEOREM ResolveSafeHolds == Spec => []ResolveSafe
<1>1. Init => ResolveSafe
  BY DEF Init, ResolveSafe
<1> QED
  BY <1>1, TypeCorrect, ResolveStep, PTL DEF Spec

(***************************************************************************)
(* How the table, the streams and the handles fit together: a state in use *)
(* has an open handle, the stream of a state in use is not ended and that  *)
(* of a free state holds no request; a request names the state of the      *)
(* stream it came from.                                                    *)
(***************************************************************************)
Owned == \A i \in Slot : states[i] # None =>
            \E t \in Transfer : handle[t] = "open" /\ index[t] = i

StreamFits == \A i \in Slot :
    /\ states[i] # None => sd[i] # One(None)
    /\ \A r \in Req : sd[i] = One(r) => states[i] # None /\ r.idx = i

HeldFits == \A t \in Transfer : held[t] # None =>
    /\ handle[t] \in {"open", "closed"}
    /\ held[t].idx = index[t]

TableInv == Owned /\ StreamFits /\ HeldFits

\* What a queue of one item is and is not.
LEMMA Singles ==
    /\ \A a, b : One(a) = One(b) <=> a = b
    /\ \A a : One(a) # <<>>
  BY DEF One

\* TableInv is inductive.
LEMMA TableStep == TypeOK /\ ResolveSafe /\ TableInv /\ [Next]_vars => TableInv'
<1> SUFFICES ASSUME TypeOK, ResolveSafe, TableInv, [Next]_vars
             PROVE  TableInv'
  OBVIOUS
<1>0. TypeOK'
  BY TypeStep
<1> USE NoneAssumption DEF TypeOK, TableInv, Owned, StreamFits, HeldFits
<1>1. ASSUME NEW t \in Transfer, Open(t) PROVE TableInv'
  <2> DEFINE i == Min(FreeSlots)
             r == blockwise_get_new(t, i)
  <2>1. i \in Slot /\ states[i] = None
    BY <1>1, MinFree DEF Open
  <2>2. r \in Req /\ r.idx = i
    BY <2>1 DEF blockwise_get_new, Req
  <2>3. FreshState # None
    BY DEF FreshState, TransferState
  <2>4. /\ handle[t] = "new"
        /\ states' = [states EXCEPT ![i] = FreshState]
        /\ sd' = [sd EXCEPT ![i] = One(r)]
        /\ index' = [index EXCEPT ![t] = i]
        /\ handle' = [handle EXCEPT ![t] = "open"]
        /\ held' = held
    BY <1>1 DEF Open, One
  <2> HIDE DEF i, r
  <2>5. Owned'
    BY <2>1, <2>4
  <2>6. StreamFits'
    BY <2>1, <2>2, <2>3, <2>4, Singles
  <2>7. HeldFits'
    BY <2>4
  <2> QED
    BY <2>5, <2>6, <2>7
<1>2. ASSUME NEW t \in Transfer, OpenRefused(t) PROVE TableInv'
  BY <1>2 DEF OpenRefused
<1>3. ASSUME NEW t \in Transfer, NextReq(t) PROVE TableInv'
  <2> DEFINE i == index[t]
             r == Head(sd[i])
  <2>1. i \in Slot /\ r \in Req /\ Tail(sd[i]) = <<>> /\ sd[i] = One(r)
    BY <1>3, QueueTake DEF NextReq
  <2>2. /\ handle[t] \in {"open", "closed"}
        /\ held' = [held EXCEPT ![t] = r]
        /\ sd' = [sd EXCEPT ![i] = <<>>]
        /\ UNCHANGED <<states, handle, index>>
    BY <1>3, <2>1 DEF NextReq
  <2> HIDE DEF i, r
  <2>3. StreamFits'
    BY <2>1, <2>2, Singles
  <2>4. HeldFits'
    BY <2>1, <2>2 DEF i
  <2> QED
    BY <2>2, <2>3, <2>4
<1>4. ASSUME NEW t \in Transfer, NextNone(t) PROVE TableInv'
  <2> DEFINE i == index[t]
  <2>1. i \in Slot /\ Tail(sd[i]) = <<>> /\ sd[i] = One(None)
    BY <1>4, QueueTake DEF NextNone
  <2>2. /\ handle' = [handle EXCEPT ![t] = IF held[t] = None THEN "done" ELSE @]
        /\ sd' = [sd EXCEPT ![i] = <<>>]
        /\ UNCHANGED <<states, held, index>>
    BY <1>4, <2>1 DEF NextNone
  <2> HIDE DEF i
  <2>3. Owned'
    BY <2>1, <2>2 DEF i
  <2>4. StreamFits'
    BY <2>1, <2>2, Singles
  <2>5. HeldFits'
    BY <2>2
  <2> QED
    BY <2>3, <2>4, <2>5
<1>5. ASSUME NEW t \in Transfer, PollReq(t) PROVE TableInv'
  <2> DEFINE i == held[t].idx
  <2>1. /\ held[t] \in Req /\ i \in Slot /\ states[i] \in TransferState
        /\ UNCHANGED <<sd, handle, index, held>>
    BY <1>5 DEF PollReq, MayPoll, Req
  <2>2. update_state(states[i], held[t]) # None
    BY <2>1, UpdateType
  <2>3. PICK s : states' = [states EXCEPT ![i] = s] /\ s # None
    BY <1>5, <2>2 DEF PollReq
  <2> HIDE DEF i
  <2> QED
    BY <2>1, <2>3
<1>6. ASSUME NEW t \in Transfer, PollReqClosed(t) \/ TakeResolved(t) PROVE TableInv'
  <2>1. UNCHANGED <<states, sd, handle, index>> /\ held' = [held EXCEPT ![t] = None]
    BY <1>6 DEF PollReqClosed, TakeResolved
  <2> QED
    BY <2>1
<1>7. ASSUME NEW t \in Transfer, Close(t) PROVE TableInv'
  <2> DEFINE i == index[t]
  <2>1. /\ i \in Slot /\ handle[t] = "open"
        /\ states' = [states EXCEPT ![i] = None]
        /\ sd' = [sd EXCEPT ![i] = One(None)]
        /\ handle' = [handle EXCEPT ![t] = "closed"]
        /\ UNCHANGED <<index, held>>
    BY <1>7 DEF Close, MayClose, One
  <2> HIDE DEF i
  <2>2. Owned'
    BY <2>1 DEF i
  <2>3. StreamFits'
    BY <2>1, Singles
  <2>4. HeldFits'
    BY <2>1
  <2> QED
    BY <2>2, <2>3, <2>4
<1>8. ASSUME NEW t \in Transfer,
             OpenPanics(t) \/ PollReqPanics(t) \/ ClosePanics(t) \/ Drop(t)
      PROVE  TableInv'
  <2>1. CASE OpenPanics(t) \/ PollReqPanics(t) \/ ClosePanics(t)
    BY <2>1, PanicsFrame
  <2>2. CASE Drop(t)
    <3>1. /\ UNCHANGED <<states, sd, index>> /\ handle[t] = "closed"
          /\ handle' = [handle EXCEPT ![t] = "done"]
          /\ held' = [held EXCEPT ![t] = None]
      BY <2>2 DEF Drop
    <3> QED
      BY <3>1
  <2> QED
    BY <1>8, <2>1, <2>2
<1>9. ASSUME NEW m \in memos, RespondFail(m) \/ RespondPanics(m) PROVE TableInv'
  BY <1>9 DEF RespondFail, RespondPanics
<1>10. ASSUME NEW m \in memos, RespondMore(m) PROVE TableInv'
  <2> DEFINE r == blockwise_get_next(states[last].uri, last,
                                     <<states[last].uri, m.pdu[2] + 1>>)
  <2>1. last \in Slot /\ states[last] # None
    BY <1>10, HandlerPasses DEF RespondMore
  <2>2. /\ UNCHANGED sd \/ sd' = [sd EXCEPT ![last] = One(r)]
        /\ UNCHANGED <<states, handle, index, held>>
    BY <1>10 DEF RespondMore, One
  <2>3. r.idx = last
    BY DEF blockwise_get_next
  <2>4. CASE UNCHANGED sd
    BY <2>2, <2>4
  <2>5. CASE sd' = [sd EXCEPT ![last] = One(r)]
    <3>1. r # None
      BY <1>10, <2>1, GetNextType DEF RespondMore
    <3> HIDE DEF r
    <3> QED
      BY <2>1, <2>2, <2>3, <2>5, <3>1, Singles
  <2> QED
    BY <2>2, <2>4, <2>5
<1>11. ASSUME NEW m \in memos, RespondLast(m) PROVE TableInv'
  <2>1. /\ last \in Slot
        /\ states' = [states EXCEPT ![last] = None]
        /\ sd' = [sd EXCEPT ![last] = One(None)]
        /\ UNCHANGED <<handle, index, held>>
    BY <1>11, HandlerPasses DEF RespondLast, One
  <2> QED
    BY <2>1, Singles
<1>12. CASE UNCHANGED vars
  BY <1>12 DEF vars
<1> QED
  BY <1>1, <1>2, <1>3, <1>4, <1>5, <1>6, <1>7, <1>8, <1>9, <1>10, <1>11, <1>12
     DEF Next, Client, Loop, Respond

\* Initially the table is empty.
LEMMA TableInit == Init => TableInv
  BY Singles DEF Init, TableInv, Owned, StreamFits, HeldFits

LEMMA TableHolds == Spec => []TableInv
  BY TableInit, TableStep, TypeCorrect, ResolveSafeHolds, PTL DEF Spec

\* The check in ReqInner::poll lets a request of a closed stream through only if
\* another client's open stream has the state now, whatever clients do.
THEOREM StaleOnlyByReuseHolds == Spec => StaleOnlyByReuse
<1> DEFINE Stale(t) ==
        handle[t] = "closed" /\ fstat[t] = "New" /\ fstat'[t] = "Registered" =>
            /\ states[index[t]] # None
            /\ \E u \in Transfer \ {t} : handle[u] = "open" /\ index[u] = index[t]
<1>1. ASSUME TypeOK, ResolveSafe, TableInv, [Next]_vars,
             NEW t \in Transfer,
             handle[t] = "closed", fstat[t] = "New", fstat'[t] = "Registered"
      PROVE  /\ states[index[t]] # None
             /\ \E u \in Transfer \ {t} : handle[u] = "open" /\ index[u] = index[t]
  <2>1. PollReq(t)
    <3>1. ASSUME NEW u \in Transfer, Client(u) PROVE PollReq(t)
      BY <1>1, <3>1 DEF TypeOK, Client, Loop, Open, OpenPanics, OpenRefused, NextReq,
         NextNone, PollReq, PollReqPanics, PollReqClosed, TakeResolved, Close,
         ClosePanics, Drop
    <3>2. ASSUME NEW m \in memos, Respond(m) PROVE FALSE
      <4>1. m.context \in Transfer
        BY <1>1 DEF TypeOK
      <4> QED
        BY <1>1, <3>2, <4>1 DEF TypeOK, Respond, RespondFail, RespondMore, RespondLast,
           RespondPanics, resolve
    <3>3. CASE UNCHANGED vars
      BY <1>1, <3>3 DEF vars
    <3> QED
      BY <1>1, <3>1, <3>2, <3>3 DEF Next
  <2>2. held[t] # None /\ states[held[t].idx] # None
    BY <1>1, <2>1, NoneAssumption DEF TypeOK, PollReq
  <2>3. held[t].idx = index[t] /\ index[t] \in Slot
    BY <1>1, <2>2 DEF TypeOK, TableInv, HeldFits
  <2>4. PICK u \in Transfer : handle[u] = "open" /\ index[u] = index[t]
    BY <1>1, <2>2, <2>3 DEF TableInv, Owned
  <2> QED
    BY <1>1, <2>2, <2>3, <2>4
<1>2. TypeOK /\ ResolveSafe /\ TableInv /\ [Next]_vars => \A t \in Transfer : Stale(t)
  BY <1>1
<1> QED
  BY <1>2, TypeCorrect, ResolveSafeHolds, TableHolds, PTL DEF Spec, StaleOnlyByReuse

----------------------------------------------------------------------------
(***************************************************************************)
(* Clients that make one request at a time and are done with a freed state *)
(* before another stream is opened.                                        *)
(***************************************************************************)
Sequential == Liberties \subseteq {"send_fails"}

\* A handle in use has its state to itself; only one request is awaited.
Exclusive ==
    /\ \A t, u \in Transfer :
          /\ handle[t] \in {"open", "closed"} /\ handle[u] \in {"open", "closed"}
          /\ index[t] = index[u]
          => t = u
    /\ \A t, u \in Transfer : Awaiting(t) /\ Awaiting(u) => t = u

\* r asks for block n of t's resource, now that the state of t's stream is s.
Asks(r, s, t, n) ==
    /\ r.uri = t
    /\ n \in 0 .. LastBlock
    /\ r.hdr = IF n = 0 THEN None ELSE <<t, n>>
    /\ n = 0 => s.hdr = None

\* Where an open transfer is, block by block.  n is what its client has.
Progress(t) ==
    LET i == index[t]  n == Len(got[t]) IN
    /\ fstat[t] = "none" =>
          \/ states[i] # None /\ sd[i] = <<>> /\ out[t] # "block"
          \/ states[i] # None /\ \E r \in Req : sd[i] = One(r) /\ Asks(r, states[i], t, n)
          \/ states[i] = None /\ sd[i] = One(None) /\ out[t] = "block" /\ n = LastBlock + 1
    /\ fstat[t] = "New" =>
          states[i] # None /\ sd[i] = <<>> /\ Asks(held[t], states[i], t, n)
    /\ fstat[t] = "Registered" =>
          /\ states[i] # None /\ sd[i] = <<>> /\ last = i
          /\ states[i].uri = t /\ n <= LastBlock
          /\ \A m \in memos : m.pdu = <<t, n>>
    /\ fstat[t] = "Resolved" =>
          \/ ret[t] = None /\ states[i] # None /\ sd[i] = <<>>
          \/ /\ ret[t] = <<t, n>> /\ n <= LastBlock /\ states[i] # None
             /\ \E r \in Req : sd[i] = One(r) /\ Asks(r, states[i], t, n + 1)
          \/ /\ ret[t] = <<t, n>> /\ n = LastBlock /\ states[i] = None
             /\ sd[i] = One(None)

SeqInv ==
    /\ PanicsOnly
    /\ Exclusive
    /\ \A t \in Transfer : Awaiting(t) => handle[t] = "open"
    /\ \A t \in Transfer : handle[t] = "new" => got[t] = <<>>
    /\ \A t \in Transfer : handle[t] = "open" => Progress(t)

\* The state of a closed stream is free: nobody else has it.
LEMMA ClosedFree ==
    ASSUME TypeOK, TableInv, Exclusive, NEW t \in Transfer, handle[t] = "closed"
    PROVE  index[t] \in Slot /\ states[index[t]] = None
  BY DEF TypeOK, TableInv, Owned, Exclusive

\* Progress(u) is about u's handle, its state and its stream, and while u
\* awaits an answer about last and memos.
LEMMA ProgressFrame ==
    ASSUME NEW u \in Transfer, Progress(u),
           index'[u] = index[u], got'[u] = got[u], fstat'[u] = fstat[u],
           out'[u] = out[u], held'[u] = held[u], ret'[u] = ret[u],
           states'[index[u]] = states[index[u]], sd'[index[u]] = sd[index[u]],
           fstat[u] = "Registered" => last' = last /\ memos' \subseteq memos
    PROVE  Progress(u)'
  BY DEF Progress, Asks

LEMMA SeqStep ==
    ASSUME Sequential, TypeOK, ResolveSafe, TableInv, SeqInv, [Next]_vars
    PROVE  SeqInv'
<1> USE NoneAssumption DEF TypeOK
<1>0. "overlap" \notin Liberties /\ "reuse" \notin Liberties
  BY DEF Sequential
<1>p. ASSUME PanicsOnly',
             UNCHANGED <<states, sd, last, handle, index, held, fstat, ret, out, got, memos>>
      PROVE  SeqInv'
  <2>1. ASSUME NEW u \in Transfer, handle'[u] = "open" PROVE Progress(u)'
    BY <1>p, <2>1, ProgressFrame DEF SeqInv
  <2> QED
    BY <1>p, <2>1 DEF SeqInv, Exclusive, Awaiting
<1>q. ASSUME NEW t \in Transfer, handle[t] \in {"new", "open"}, ~Fits(t),
             panic' \in LengthCheck,
             UNCHANGED <<states, sd, last, handle, index, held, fstat, ret, out, got, memos>>
      PROVE  SeqInv'
  <2>1. PanicsOnly'
    BY <1>q DEF PanicsOnly, Fits
  <2> QED
    BY <1>p, <1>q, <2>1
<1>r. ASSUME panic = None, panic' = panic PROVE PanicsOnly'
  BY <1>r DEF PanicsOnly
<1>s. CASE \E t \in Transfer : OpenPanics(t) \/ PollReqPanics(t)
  <2>1. ASSUME NEW t \in Transfer, OpenPanics(t) PROVE SeqInv'
    <3>1. ~Fits(t)
      <4>1. UriLen[t] > REQ_URI_MAX /\ UriLen[t] \in Nat /\ REQ_URI_MAX \in Nat
        BY <2>1, LengthAssumption, BlockwiseAssumption, Zenon DEF OpenPanics
      <4>2. ~(UriLen[t] < REQ_URI_MAX)
        BY <4>1
      <4> QED
        BY <4>2, Zenon DEF Fits
    <3> QED
      BY <1>q, <2>1, <3>1, PanicsFrame, Zenon DEF OpenPanics, LengthCheck
  <2>2. ASSUME NEW t \in Transfer, PollReqPanics(t) PROVE SeqInv'
    <3>0. /\ fstat[t] = "New" /\ ~Storable(held[t])
          /\ states[held[t].idx] # None
          /\ panic' = "update: assert len"
          /\ UNCHANGED <<states, sd, last, handle, index, held, fstat, ret, out, got, memos>>
      BY <2>2, Zenon DEF PollReqPanics, MayPoll
    <3>a. held[t] # None /\ held[t] \in Req
      <4>1. (held[t] = None <=> fstat[t] = "none") /\ held[t] \in Req \cup {None}
        BY DEF TypeOK
      <4>2. fstat[t] = "New"
        BY <3>0
      <4> QED
        BY <4>1, <4>2
    <3>1. /\ fstat[t] = "New" /\ held[t] \in Req /\ ~Storable(held[t])
          /\ states[held[t].idx] # None
          /\ panic' = "update: assert len"
          /\ UNCHANGED <<states, sd, last, handle, index, held, fstat, ret, out, got, memos>>
      BY <3>0, <3>a
    <3>2. handle[t] = "open"
      <4>1. handle[t] \in {"open", "closed"} /\ held[t].idx = index[t]
        BY <3>a DEF TableInv, HeldFits
      <4>2. Exclusive
        BY DEF SeqInv
      <4> QED
        BY <3>0, <4>1, <4>2, ClosedFree
    <3>3. Asks(held[t], states[index[t]], t, Len(got[t]))
      BY <3>1, <3>2 DEF SeqInv, Progress
    <3>4. ~Fits(t)
      <4>1. CASE ~(UriLen[held[t].uri] < REQ_URI_MAX)
        BY <3>3, <4>1 DEF Asks, Fits
      <4>2. CASE held[t].hdr # None /\ ~(HdrLen[held[t].hdr] < BLOCKWISE_HDR_MAX)
        <5>1. held[t].hdr = <<t, Len(got[t])>> /\ Len(got[t]) \in 1 .. LastBlock
          BY <3>3, <4>2, BlockwiseAssumption DEF Asks
        <5> QED
          BY <4>2, <5>1 DEF Fits
      <4> QED
        BY <3>1, <4>1, <4>2 DEF Storable
    <3> QED
      BY <1>q, <3>1, <3>2, <3>4 DEF LengthCheck
  <2> QED
    BY <1>s, <2>1, <2>2
<1>1. ASSUME NEW t \in Transfer, panic = None, Open(t) PROVE SeqInv'
  <2> DEFINE i == Min(FreeSlots)
             r == blockwise_get_new(t, i)
  <2>1. i \in Slot /\ states[i] = None
    BY <1>1, MinFree DEF Open
  <2>2. /\ handle[t] = "new"
        /\ \A u \in Transfer : ~Freed(u)
        /\ states' = [states EXCEPT ![i] = FreshState]
        /\ sd' = [sd EXCEPT ![i] = One(r)]
        /\ index' = [index EXCEPT ![t] = i]
        /\ handle' = [handle EXCEPT ![t] = "open"]
        /\ UNCHANGED <<last, held, fstat, ret, out, got, memos, panic>>
    BY <1>0, <1>1 DEF Open, One
  <2>3. /\ r \in Req /\ r.uri = t /\ r.hdr = None
        /\ FreshState.hdr = None /\ FreshState # None
    BY <2>1 DEF blockwise_get_new, Req, FreshState, TransferState
  <2> HIDE DEF i, r
  <2>4. ASSUME NEW u \in Transfer, handle[u] \in {"open", "closed"}
        PROVE  u # t /\ index[u] \in Slot \ {i}
    BY <2>1, <2>2, <2>4 DEF Freed
  <2>5. Exclusive'
    BY <2>2, <2>4 DEF SeqInv, Exclusive, Awaiting
  <2>6. ASSUME NEW u \in Transfer, u # t, handle'[u] = "open" PROVE Progress(u)'
    <3>1. handle[u] = "open"
      BY <2>2, <2>6
    <3> QED
      BY <2>2, <2>4, <2>6, <3>1, ProgressFrame DEF SeqInv
  <2>7. Progress(t)'
    <3>1. fstat'[t] = "none"
      BY <2>2 DEF TableInv, HeldFits
    <3>2. Len(got'[t]) = 0 /\ index'[t] = i /\ states'[i] = FreshState /\ sd'[i] = One(r)
      BY <2>1, <2>2 DEF SeqInv
    <3>3. Asks(r, FreshState, t, 0)
      BY <2>3, BlockwiseAssumption DEF Asks
    <3> QED
      BY <2>3, <3>1, <3>2, <3>3 DEF Progress
  <2> QED
    BY <1>1, <1>r, <2>2, <2>5, <2>6, <2>7 DEF SeqInv, Awaiting
<1>2. ASSUME NEW t \in Transfer, panic = None, OpenRefused(t) PROVE SeqInv'
  <2>1. /\ handle[t] = "new"
        /\ handle' = [handle EXCEPT ![t] = "refused"]
        /\ UNCHANGED <<states, sd, last, index, held, fstat, ret, out, got, memos, panic>>
    BY <1>2 DEF OpenRefused
  <2>2. ASSUME NEW u \in Transfer, handle'[u] = "open" PROVE Progress(u)'
    <3>1. handle[u] = "open"
      BY <2>1, <2>2
    <3> QED
      BY <2>1, <3>1, ProgressFrame DEF SeqInv
  <2> QED
    BY <1>2, <1>r, <2>1, <2>2 DEF SeqInv, Exclusive, Awaiting
<1>3. ASSUME NEW t \in Transfer, panic = None, NextReq(t) PROVE SeqInv'
  <2> DEFINE i == index[t]
  <2>1. PICK r \in Req :
          /\ i \in Slot /\ sd[i] = One(r)
          /\ held' = [held EXCEPT ![t] = r]
          /\ sd' = [sd EXCEPT ![i] = <<>>]
    BY <1>3, QueueTake DEF NextReq
  <2>2. /\ handle[t] \in {"open", "closed"} /\ fstat[t] = "none"
        /\ fstat' = [fstat EXCEPT ![t] = "New"]
        /\ UNCHANGED <<states, last, handle, index, ret, out, got, memos, panic>>
    BY <1>3 DEF NextReq
  <2>3. states[i] # None
    BY <2>1 DEF TableInv, StreamFits
  <2>4. handle[t] = "open"
    BY <2>2, <2>3, ClosedFree DEF SeqInv
  <2>5. ASSUME NEW u \in Transfer, u # t, handle[u] = "open" PROVE Progress(u)'
    <3>1. index[u] \in Slot /\ index[u] # i
      BY <2>4, <2>5 DEF SeqInv, Exclusive
    <3> QED
      BY <2>1, <2>2, <2>5, <3>1, ProgressFrame DEF SeqInv
  <2>6. Progress(t)'
    <3>1. Asks(r, states[i], t, Len(got[t]))
      BY <2>1, <2>2, <2>3, <2>4, Singles DEF SeqInv, Progress
    <3> QED
      BY <2>1, <2>2, <2>3, <3>1 DEF Progress
  <2> QED
    BY <1>3, <1>r, <2>2, <2>4, <2>5, <2>6 DEF SeqInv, Exclusive, Awaiting
<1>4. ASSUME NEW t \in Transfer, panic = None, NextNone(t) PROVE SeqInv'
  <2> DEFINE i == index[t]
  <2>1. /\ i \in Slot /\ handle[t] \in {"open", "closed"}
        /\ handle[t] = "open" => held[t] = None
        /\ ~Awaiting(t)
        /\ sd' = [sd EXCEPT ![i] = <<>>]
        /\ handle' = [handle EXCEPT ![t] = IF held[t] = None THEN "done" ELSE @]
        /\ UNCHANGED <<states, last, index, held, fstat, ret, out, got, memos, panic>>
    BY <1>4, QueueTake DEF NextNone, TaskFree
  <2>2. handle'[t] # "open" /\ handle'[t] # "new"
    BY <2>1
  <2>3. ASSUME NEW u \in Transfer, handle'[u] = "open" PROVE Progress(u)'
    <3>1. handle[u] = "open" /\ index[u] \in Slot /\ index[u] # i
      BY <2>1, <2>2, <2>3 DEF SeqInv, Exclusive
    <3> QED
      BY <2>1, <3>1, ProgressFrame DEF SeqInv
  <2> QED
    BY <1>4, <1>r, <2>1, <2>2, <2>3 DEF SeqInv, Exclusive, Awaiting
<1>5. ASSUME NEW t \in Transfer, panic = None, PollReq(t) PROVE SeqInv'
  <2> DEFINE i == index[t]
             n == Len(got[t])
             s == update_state(states[i], held[t])
  <2>1. /\ fstat[t] = "New" /\ held[t] \in Req /\ held[t].idx = i
        /\ \A u \in Transfer : ~Awaiting(u)
        /\ i \in Slot /\ states[i] \in TransferState
    BY <1>0, <1>5 DEF PollReq, MayPoll, TableInv, HeldFits
  <2>2. /\ last' = i
        /\ states' = [states EXCEPT ![i] = s]
        /\ fstat' = [fstat EXCEPT ![t] = "Registered"]
        /\ memos' = memos \cup {[context |-> t, pdu |-> pdu_of(s)]} \/ UNCHANGED memos
        /\ UNCHANGED <<sd, handle, index, held, ret, out, got, panic>>
    BY <1>5, <2>1 DEF PollReq
  <2>3. handle[t] = "open"
    BY <2>1, ClosedFree DEF SeqInv, TableInv, HeldFits
  <2>4. Asks(held[t], states[i], t, n) /\ sd[i] = <<>>
    BY <2>1, <2>3 DEF SeqInv, Progress
  <2>5. s.uri = t /\ s # None /\ pdu_of(s) = <<t, n>> /\ n <= LastBlock
    <3>1. s \in TransferState
      BY <2>1, UpdateType
    <3>2. n <= LastBlock /\ <<t, n>> # None
      BY <2>4, BlockwiseAssumption DEF Asks, Block
    <3>3. s.uri = t
      BY <2>4 DEF update_state, Asks
    <3>4. CASE n = 0
      <4>1. s.hdr = None
        BY <2>4, <3>4 DEF update_state, Asks
      <4> QED
        BY <3>1, <3>2, <3>3, <3>4, <4>1 DEF pdu_of
    <3>5. CASE n # 0
      <4>1. s.hdr = <<t, n>>
        BY <2>4, <3>2, <3>5 DEF update_state, Asks
      <4> QED
        BY <3>1, <3>2, <3>3, <4>1 DEF pdu_of
    <3> QED
      BY <3>4, <3>5
  <2>6. memos = {}
    BY <2>1 DEF ResolveSafe, Awaiting
  <2> HIDE DEF s
  <2>7. ASSUME NEW u \in Transfer, u # t, handle[u] = "open" PROVE Progress(u)'
    <3>1. index[u] \in Slot /\ index[u] # i /\ fstat[u] # "Registered"
      BY <2>1, <2>3, <2>7 DEF SeqInv, Exclusive, Awaiting
    <3> QED
      BY <2>1, <2>2, <2>7, <3>1, ProgressFrame DEF SeqInv
  <2>8. Progress(t)'
    <3>1. \A m \in memos' : m.pdu = <<t, n>>
      BY <2>2, <2>5, <2>6
    <3>2. /\ fstat'[t] = "Registered" /\ index'[t] = i /\ got'[t] = got[t]
          /\ states'[i] = s /\ sd'[i] = <<>>
      BY <2>1, <2>2, <2>4
    <3> QED
      BY <2>2, <2>5, <3>1, <3>2 DEF Progress
  <2> QED
    BY <1>5, <1>r, <2>1, <2>2, <2>3, <2>7, <2>8 DEF SeqInv, Exclusive, Awaiting
<1>6. ASSUME NEW t \in Transfer, panic = None, PollReqClosed(t) PROVE SeqInv'
  <2>1. /\ fstat[t] = "New"
        /\ \A u \in Transfer : ~Awaiting(u)
        /\ states[index[t]] = None
        /\ held' = [held EXCEPT ![t] = None]
        /\ fstat' = [fstat EXCEPT ![t] = "none"]
        /\ out' = [out EXCEPT ![t] = "err"]
        /\ UNCHANGED <<states, sd, handle, index, ret, got, memos, panic>>
    BY <1>0, <1>6 DEF PollReqClosed, MayPoll, TableInv, HeldFits
  <2>2. handle[t] # "open"
    BY <2>1 DEF SeqInv, Progress
  <2>3. ASSUME NEW u \in Transfer, handle[u] = "open" PROVE Progress(u)'
    <3>1. u # t /\ fstat[u] # "Registered"
      BY <2>1, <2>2, <2>3 DEF Awaiting
    <3> QED
      BY <2>1, <2>3, <3>1, ProgressFrame DEF SeqInv
  <2> QED
    BY <1>6, <1>r, <2>1, <2>3 DEF SeqInv, Exclusive, Awaiting
<1>7. ASSUME NEW t \in Transfer, panic = None, TakeResolved(t) PROVE SeqInv'
  <2> DEFINE i == index[t]
             n == Len(got[t])
  <2>1. /\ fstat[t] = "Resolved"
        /\ out' = [out EXCEPT ![t] = IF ret[t] = None THEN "fail" ELSE "block"]
        /\ got' = [got EXCEPT ![t] = IF ret[t] = None THEN @ ELSE Append(@, ret[t])]
        /\ held' = [held EXCEPT ![t] = None]
        /\ fstat' = [fstat EXCEPT ![t] = "none"]
        /\ ret' = [ret EXCEPT ![t] = None]
        /\ UNCHANGED <<states, sd, last, handle, index, memos, panic>>
    BY <1>7 DEF TakeResolved
  <2>2. handle[t] = "open" /\ i \in Slot
    BY <2>1 DEF SeqInv, Awaiting
  <2>3. ASSUME NEW u \in Transfer, u # t, handle[u] = "open" PROVE Progress(u)'
    BY <2>1, <2>3, ProgressFrame DEF SeqInv
  <2>4. Progress(t)'
    <3>1. CASE ret[t] = None
      <4>1. n \in Nat /\ (n <= LastBlock => <<t, n>> # None)
        BY BlockwiseAssumption, LenProperties DEF Block
      <4>2. states[i] # None /\ sd[i] = <<>>
        <5>1. Progress(t)
          BY <2>2 DEF SeqInv
        <5>2. ret[t] = <<t, n>> => ~(n <= LastBlock)
          BY <3>1, <4>1
        <5>3. n = LastBlock => n <= LastBlock
          BY BlockwiseAssumption
        <5> QED
          BY <2>1, <3>1, <5>1, <5>2, <5>3 DEF Progress
      <4> QED
        BY <2>1, <3>1, <4>2 DEF Progress
    <3>2. CASE ret[t] # None
      <4>1. /\ fstat'[t] = "none" /\ out'[t] = "block" /\ index'[t] = i
            /\ got'[t] = Append(got[t], ret[t])
        BY <2>1, <3>2
      <4>2. Len(got'[t]) = n + 1
        BY <3>2, <4>1, AppendProperties
      <4>3. \/ states[i] # None /\ \E r \in Req : sd[i] = One(r) /\ Asks(r, states[i], t, n + 1)
            \/ states[i] = None /\ sd[i] = One(None) /\ n + 1 = LastBlock + 1
        BY <2>1, <2>2, <3>2 DEF SeqInv, Progress
      <4> QED
        BY <2>1, <4>1, <4>2, <4>3 DEF Progress
    <3> QED
      BY <3>1, <3>2
  <2> QED
    BY <1>7, <1>r, <2>1, <2>2, <2>3, <2>4 DEF SeqInv, Exclusive, Awaiting
<1>8. ASSUME NEW t \in Transfer, panic = None, Close(t) PROVE SeqInv'
  <2> DEFINE i == index[t]
  <2>1. /\ i \in Slot /\ handle[t] = "open" /\ ~Awaiting(t)
        /\ states' = [states EXCEPT ![i] = None]
        /\ sd' = [sd EXCEPT ![i] = One(None)]
        /\ handle' = [handle EXCEPT ![t] = "closed"]
        /\ UNCHANGED <<last, index, held, fstat, ret, out, got, memos, panic>>
    BY <1>8 DEF Close, MayClose, TaskFree, One
  <2>2. ASSUME NEW u \in Transfer, handle'[u] = "open" PROVE Progress(u)'
    <3>1. handle[u] = "open" /\ index[u] \in Slot /\ index[u] # i
      BY <2>1, <2>2 DEF SeqInv, Exclusive
    <3> QED
      BY <2>1, <3>1, ProgressFrame DEF SeqInv
  <2> QED
    BY <1>8, <1>r, <2>1, <2>2 DEF SeqInv, Exclusive, Awaiting
<1>9. ASSUME NEW t \in Transfer, ClosePanics(t) PROVE SeqInv'
  <2>1. /\ handle[t] = "open" /\ fstat[t] \in {"none", "New"}
        /\ states[index[t]] = None
    BY <1>9 DEF ClosePanics, MayClose, TaskFree, Awaiting
  <2>2. Len(got[t]) = LastBlock + 1
    BY <2>1 DEF SeqInv, Progress
  <2>3. /\ panic' = "close: state unwrap"
        /\ UNCHANGED <<states, sd, last, handle, index, held, fstat, ret, out, got, memos>>
    BY <1>9 DEF ClosePanics
  <2>4. PanicsOnly'
    BY <2>1, <2>2, <2>3 DEF PanicsOnly
  <2> QED
    BY <2>3, <2>4, <1>p
<1>10. ASSUME NEW t \in Transfer, panic = None, Drop(t) PROVE SeqInv'
  <2>1. /\ handle[t] = "closed" /\ ~Awaiting(t)
        /\ handle' = [handle EXCEPT ![t] = "done"]
        /\ held' = [held EXCEPT ![t] = None]
        /\ fstat' = [fstat EXCEPT ![t] = "none"]
        /\ UNCHANGED <<states, sd, last, index, ret, out, got, memos, panic>>
    BY <1>10 DEF Drop, TaskFree
  <2>2. ASSUME NEW u \in Transfer, handle'[u] = "open" PROVE Progress(u)'
    <3>1. handle[u] = "open" /\ u # t
      BY <2>1, <2>2
    <3> QED
      BY <2>1, <3>1, ProgressFrame DEF SeqInv
  <2> QED
    BY <1>10, <1>r, <2>1, <2>2 DEF SeqInv, Exclusive, Awaiting
<1>11. ASSUME NEW m \in memos, panic = None, RespondFail(m) \/ RespondMore(m) \/ RespondLast(m)
       PROVE  SeqInv'
  <2> DEFINE t == m.context
             i == index[t]
             n == Len(got[t])
  <2>1. t \in Transfer /\ fstat[t] = "Registered"
    BY DEF ResolveSafe
  <2>2. handle[t] = "open" /\ i \in Slot
    BY <2>1 DEF SeqInv, Awaiting
  <2>3. /\ states[i] # None /\ sd[i] = <<>> /\ last = i
        /\ states[i].uri = t /\ n <= LastBlock /\ m.pdu = <<t, n>>
    BY <2>1, <2>2 DEF SeqInv, Progress
  <2>6. PICK v \in Block \cup {None} :
          /\ fstat' = [fstat EXCEPT ![t] = "Resolved"]
          /\ ret' = [ret EXCEPT ![t] = v]
          /\ memos' = memos \ {m}
          /\ UNCHANGED <<last, handle, index, held, out, got, panic>>
          /\ \/ /\ v = None
                /\ UNCHANGED <<states, sd>>
             \/ /\ v = <<t, n>> /\ n < LastBlock
                /\ states' = states
                /\ sd' = [sd EXCEPT ![i] = One(blockwise_get_next(t, i, <<t, n + 1>>))]
             \/ /\ v = <<t, n>> /\ n = LastBlock
                /\ states' = [states EXCEPT ![i] = None]
                /\ sd' = [sd EXCEPT ![i] = One(None)]
    <3>1. m.pdu \in Block /\ m.pdu[2] = n /\ t # None
      <4>1. m.pdu \in Block
        OBVIOUS
      <4>2. m.pdu[2] = n
        BY <2>3
      <4>3. t # None
        BY <2>1, BlockwiseAssumption
      <4> QED
        BY <4>1, <4>2, <4>3
    <3>2. CASE RespondFail(m)
      BY <3>2 DEF RespondFail, resolve
    <3>3. CASE RespondMore(m)
      <4>1. sd' = [sd EXCEPT ![i] = One(blockwise_get_next(t, i, <<t, n + 1>>))]
        BY <2>3, <3>1, <3>3 DEF RespondMore, One
      <4> QED
        BY <2>3, <3>1, <3>3, <4>1 DEF RespondMore, resolve
    <3>4. CASE RespondLast(m)
      <4>1. /\ states' = [states EXCEPT ![i] = None]
            /\ sd' = [sd EXCEPT ![i] = One(None)]
        BY <2>3, <3>4 DEF RespondLast, One
      <4> QED
        BY <2>3, <3>1, <3>4, <4>1 DEF RespondLast, resolve
    <3> QED
      BY <1>11, <3>2, <3>3, <3>4
  <2> HIDE DEF t, i, n
  <2>7. ASSUME NEW u \in Transfer, u # t, handle[u] = "open" PROVE Progress(u)'
    <3>1. index[u] \in Slot /\ index[u] # i /\ fstat[u] # "Registered"
      BY <2>1, <2>2, <2>7 DEF SeqInv, Exclusive, Awaiting, i
    <3> QED
      BY <2>1, <2>2, <2>6, <2>7, <3>1, ProgressFrame DEF SeqInv
  <2>8. Progress(t)'
    <3>1. /\ fstat'[t] = "Resolved" /\ ret'[t] = v /\ index'[t] = i
          /\ Len(got'[t]) = n /\ n \in Nat
      BY <2>1, <2>6, LenProperties DEF i, n
    <3>2. CASE v = None /\ UNCHANGED <<states, sd>>
      BY <2>3, <3>1, <3>2 DEF Progress
    <3>3. CASE /\ v = <<t, n>> /\ n < LastBlock
               /\ states' = states
               /\ sd' = [sd EXCEPT ![i] = One(blockwise_get_next(t, i, <<t, n + 1>>))]
      <4> DEFINE r == blockwise_get_next(t, i, <<t, n + 1>>)
      <4>1. r \in Req /\ Asks(r, states[i], t, n + 1)
        BY <2>1, <2>2, <3>1, <3>3, BlockwiseAssumption DEF blockwise_get_next, Req, Asks, Block
      <4> HIDE DEF r
      <4>2. states'[i] # None /\ sd'[i] = One(r)
        BY <2>2, <2>3, <3>3 DEF r
      <4> QED
        BY <2>3, <3>1, <3>3, <4>1, <4>2 DEF Progress
    <3>4. CASE /\ v = <<t, n>> /\ n = LastBlock
               /\ states' = [states EXCEPT ![i] = None]
               /\ sd' = [sd EXCEPT ![i] = One(None)]
      BY <2>2, <2>3, <3>1, <3>4 DEF Progress
    <3> QED
      BY <2>6, <3>2, <3>3, <3>4
  <2> QED
    BY <1>11, <1>r, <2>1, <2>2, <2>6, <2>7, <2>8 DEF SeqInv, Exclusive, Awaiting
<1>12. CASE UNCHANGED vars
  <2>1. PanicsOnly'
    BY <1>12 DEF vars, SeqInv, PanicsOnly, Fits
  <2> QED
    BY <1>12, <1>p, <2>1 DEF vars
<1>13. ASSUME NEW m \in memos, RespondPanics(m) PROVE SeqInv'
  <2> DEFINE t == m.context
             i == index[t]
             n == Len(got[t])
  <2>1. t \in Transfer /\ fstat[t] = "Registered"
    BY DEF ResolveSafe
  <2>2. handle[t] = "open" /\ i \in Slot
    BY <2>1 DEF SeqInv, Awaiting
  <2>3. /\ states[i] # None /\ sd[i] = <<>> /\ last = i
        /\ states[i].uri = t /\ n <= LastBlock /\ m.pdu = <<t, n>> /\ m.pdu[2] = n
    BY <2>1, <2>2 DEF SeqInv, Progress
  <2>4. HandlerCheck = None /\ AddCheck = None
    BY <2>2, <2>3, HandlerPasses DEF AddCheck
  <2>5. /\ NextCheck(m) # None /\ panic' = NextCheck(m)
        /\ UNCHANGED <<states, sd, last, handle, index, held, fstat, ret, out, got, memos>>
    BY <1>13, <2>4 DEF RespondPanics
  <2> HIDE DEF t, i, n
  <2>6. n < LastBlock /\ HdrCheck(<<t, n + 1>>) # None /\ NextCheck(m) = HdrCheck(<<t, n + 1>>)
    BY <2>3, <2>4, <2>5 DEF NextCheck
  <2>7. HdrLen[<<t, n + 1>>] > BLOCKWISE_HDR_MAX /\ NextCheck(m) = "next: hdr unwrap"
    BY <2>6 DEF HdrCheck
  <2>8. n \in Nat
    BY <2>1, LenProperties DEF n
  <2>9. ~Fits(t)
    <3>1. n + 1 \in 1 .. LastBlock /\ <<t, n + 1>> \in Block
      BY <2>1, <2>6, <2>8, BlockwiseAssumption DEF Block
    <3>2. ~(HdrLen[<<t, n + 1>>] < BLOCKWISE_HDR_MAX)
      <4>1. HdrLen[<<t, n + 1>>] \in Nat /\ BLOCKWISE_HDR_MAX \in Nat
        BY <3>1, LengthAssumption, BlockwiseAssumption, Zenon
      <4>2. HdrLen[<<t, n + 1>>] > BLOCKWISE_HDR_MAX
        BY <2>7
      <4> QED
        BY <4>1, <4>2
    <3> QED
      BY <3>1, <3>2 DEF Fits
  <2> QED
    BY <1>q, <2>1, <2>2, <2>5, <2>7, <2>9 DEF LengthCheck
<1> QED
  BY <1>s, <1>1, <1>2, <1>3, <1>4, <1>5, <1>6, <1>7, <1>8, <1>9, <1>10, <1>11, <1>12, <1>13
     DEF Next, Client, Loop, Respond

\* For clients that take turns, SeqInv holds from the start.
LEMMA SeqHolds == ASSUME Sequential PROVE Spec => []SeqInv
<1>1. Init => SeqInv
  BY DEF Init, SeqInv, PanicsOnly, Exclusive, Awaiting
<1>2. TypeOK /\ ResolveSafe /\ TableInv /\ SeqInv /\ [Next]_vars => SeqInv'
  BY SeqStep
<1> QED
  BY <1>1, <1>2, TypeCorrect, ResolveSafeHolds, TableHolds, PTL DEF Spec

\* For clients that take turns, at whatever point they close(): the code's
\* unwraps and assertions fail only for a uri or header that does not fit, or
\* for a close() after the last block.
THEOREM PanicsOnlyHolds == ASSUME Sequential PROVE Spec => []PanicsOnly
<1>1. SeqInv => PanicsOnly
  BY DEF SeqInv
<1> QED
  BY <1>1, SeqHolds, PTL

\* A client that has just received a block finds its stream ready.
THEOREM NextReadyHolds == ASSUME Sequential PROVE Spec => []NextReady
<1>1. TypeOK /\ SeqInv => NextReady
  <2> SUFFICES ASSUME TypeOK, SeqInv, NEW t \in Transfer,
                      handle[t] = "open", held[t] = None, out[t] = "block"
               PROVE  sd[index[t]] # <<>>
    BY DEF NextReady
  <2>1. fstat[t] = "none" /\ Progress(t)
    BY DEF TypeOK, SeqInv
  <2> QED
    BY <2>1, Singles DEF Progress
<1> QED
  BY <1>1, TypeCorrect, SeqHolds, PTL

\* Every state in use belongs to exactly one open stream.
THEOREM SlotsOwnedHolds == ASSUME Sequential PROVE Spec => []SlotsOwned
<1>1. TableInv /\ SeqInv => SlotsOwned
  <2> SUFFICES ASSUME TableInv, SeqInv, NEW i \in Slot, states[i] # None
               PROVE  Cardinality({t \in Transfer : handle[t] = "open" /\ index[t] = i}) = 1
    BY DEF SlotsOwned
  <2>1. PICK t \in Transfer : handle[t] = "open" /\ index[t] = i
    BY DEF TableInv, Owned
  <2>2. {u \in Transfer : handle[u] = "open" /\ index[u] = i} = {t}
    BY <2>1 DEF SeqInv, Exclusive
  <2> QED
    BY <2>2, FS_Singleton
<1> QED
  BY <1>1, TableHolds, SeqHolds, PTL

----------------------------------------------------------------------------
(* The refinement *)

\* The phase of a transfer, as Service's mapping has it
PhaseOf(t) ==
    IF handle[t] \in {"new", "refused"} THEN handle[t]
    ELSE IF handle[t] = "open" /\ states[index[t]] # None
    THEN "active" ELSE "ended"

ActiveTransfers == {t \in Transfer : PhaseOf(t) = "active"}

\* There are as many active transfers as states in use.
LEMMA ActiveCount ==
    ASSUME TypeOK, TableInv, SeqInv
    PROVE  /\ FreeSlots # {} => Cardinality(ActiveTransfers) < BLOCKWISE_STATES_MAX
           /\ FreeSlots = {} => Cardinality(ActiveTransfers) = BLOCKWISE_STATES_MAX
<1> DEFINE Used == Slot \ FreeSlots
           f == [t \in ActiveTransfers |-> index[t]]
<1>1. IsFiniteSet(Slot) /\ Cardinality(Slot) = BLOCKWISE_STATES_MAX
  BY BlockwiseAssumption, FS_Interval DEF Slot
<1>2. IsFiniteSet(Used) /\ Cardinality(Used) <= Cardinality(Slot)
      /\ (Cardinality(Slot) = Cardinality(Used) => Slot = Used)
  BY <1>1, FS_Subset
<1>3. \A t \in ActiveTransfers : t \in Transfer /\ handle[t] = "open" /\ index[t] \in Used
  BY DEF ActiveTransfers, PhaseOf, TypeOK, FreeSlots
<1>4. f \in Injection(ActiveTransfers, Used)
  BY <1>3 DEF Injection, IsInjective, SeqInv, Exclusive
<1>5. \A i \in Used : \E t \in ActiveTransfers : f[t] = i
  BY DEF TableInv, Owned, FreeSlots, ActiveTransfers, PhaseOf
<1>6. f \in Surjection(ActiveTransfers, Used)
  BY <1>4, <1>5 DEF Injection, Surjection
<1> HIDE DEF f, Used
<1>7. Cardinality(ActiveTransfers) = Cardinality(Used)
  BY <1>2, <1>4, <1>6, FS_Injection
<1>8. Cardinality(Used) \in Nat
  BY <1>2, FS_CardinalityType
<1> QED
  BY <1>1, <1>2, <1>7, <1>8, BlockwiseAssumption DEF Used, FreeSlots

\* Service counts as this module does.
LEMMA SameCardinality == \A S : Service!Cardinality(S) = Cardinality(S)
  BY DEF Service!Cardinality, Cardinality

\* A step that moves one transfer to another phase, or none.
Moves(t, p) ==
    \A u \in Transfer : PhaseOf(u)' = IF u = t THEN p ELSE PhaseOf(u)

\* Every step of the client, of poll, of close() and of the handler is a step
\* of the service, or none.
LEMMA ServiceStep ==
    ASSUME Sequential, TypeOK, ResolveSafe, TableInv, SeqInv, [Next]_vars
    PROVE  Service!ServiceNext \/ UNCHANGED Service!serviceVars
<1> DEFINE phase == [u \in Transfer |-> PhaseOf(u)]
<1>1. ASSUME NEW t \in Transfer, NEW p, Moves(t, p)
      PROVE  phase' = [phase EXCEPT ![t] = p]
  BY <1>1 DEF Moves
<1>2. ASSUME NEW t \in Transfer, PhaseOf(t) = "new", Moves(t, "active"),
             Cardinality(ActiveTransfers) < BLOCKWISE_STATES_MAX, UNCHANGED got
      PROVE  Service!Start(t)
  <2>1. phase' = [phase EXCEPT ![t] = "active"]
    BY <1>1, <1>2
  <2>2. ActiveTransfers = Service!Active
    BY DEF ActiveTransfers, Service!Active, PhaseOf
  <2>3. Service!Cardinality(Service!Active) < BLOCKWISE_STATES_MAX
    BY <1>2, <2>2, SameCardinality
  <2>4. phase[t] = "new"
    BY <1>2
  <2> QED
    BY <1>2, <2>1, <2>3, <2>4 DEF Service!Start, PhaseOf
<1>3. ASSUME NEW t \in Transfer, PhaseOf(t) = "new", Moves(t, "refused"),
             Cardinality(ActiveTransfers) = BLOCKWISE_STATES_MAX, UNCHANGED got
      PROVE  Service!Refuse(t)
  <2>1. phase' = [phase EXCEPT ![t] = "refused"]
    BY <1>1, <1>3
  <2>2. ActiveTransfers = Service!Active
    BY DEF ActiveTransfers, Service!Active, PhaseOf
  <2>3. Service!Cardinality(Service!Active) = BLOCKWISE_STATES_MAX
    BY <1>3, <2>2, SameCardinality
  <2>4. phase[t] = "new"
    BY <1>3
  <2> QED
    BY <1>3, <2>1, <2>3, <2>4 DEF Service!Refuse, PhaseOf
<1>4. ASSUME NEW t \in Transfer, PhaseOf(t) = "active", Moves(t, "ended"), UNCHANGED got
      PROVE  Service!End(t)
  <2>1. phase' = [phase EXCEPT ![t] = "ended"]
    BY <1>1, <1>4
  <2> QED
    BY <1>4, <2>1 DEF Service!End, PhaseOf
<1>5. ASSUME \A u \in Transfer : PhaseOf(u)' = PhaseOf(u)
      PROVE  phase' = phase
  BY <1>5
<1>6. ASSUME \A u \in Transfer : PhaseOf(u)' = PhaseOf(u), UNCHANGED got
      PROVE  UNCHANGED Service!serviceVars
  <2>1. phase' = phase
    BY <1>5, <1>6
  <2> QED
    BY <1>6, <2>1 DEF Service!serviceVars, PhaseOf
<1>7. ASSUME NEW t \in Transfer, PhaseOf(t) \in {"active", "ended"},
             \A u \in Transfer : PhaseOf(u)' = PhaseOf(u),
             Len(got[t]) <= LastBlock,
             got' = [got EXCEPT ![t] = Append(@, <<t, Len(@)>>)]
      PROVE  Service!Deliver(t)
  <2>1. phase' = phase
    BY <1>5, <1>7
  <2> QED
    BY <1>7, <2>1 DEF Service!Deliver, PhaseOf
<1> USE DEF TypeOK
<1>8. ASSUME NEW t \in Transfer, Open(t) PROVE Service!ServiceNext
  <2> DEFINE i == Min(FreeSlots)
  <2>1. i \in Slot /\ states[i] = None
    BY <1>8, MinFree DEF Open
  <2>2. /\ handle[t] = "new" /\ FreeSlots # {}
        /\ states' = [states EXCEPT ![i] = FreshState]
        /\ index' = [index EXCEPT ![t] = i]
        /\ handle' = [handle EXCEPT ![t] = "open"]
        /\ UNCHANGED got
        /\ \A u \in Transfer : ~Freed(u)
    BY <1>8 DEF Open, Sequential
  <2>3. FreshState # None
    BY NoneAssumption DEF FreshState, TransferState
  <2> HIDE DEF i
  <2>4. Moves(t, "active")
    BY <2>1, <2>2, <2>3 DEF Moves, PhaseOf, Freed
  <2> QED
    BY <1>2, <2>2, <2>4, ActiveCount DEF PhaseOf, Service!ServiceNext
<1>9. ASSUME NEW t \in Transfer, OpenRefused(t) PROVE Service!ServiceNext
  <2>1. /\ handle[t] = "new" /\ FreeSlots = {}
        /\ handle' = [handle EXCEPT ![t] = "refused"]
        /\ UNCHANGED <<states, index, got>>
    BY <1>9 DEF OpenRefused
  <2>2. Moves(t, "refused")
    BY <2>1 DEF Moves, PhaseOf
  <2> QED
    BY <1>3, <2>1, <2>2, ActiveCount DEF PhaseOf, Service!ServiceNext
<1>10. ASSUME NEW t \in Transfer, NextReq(t) \/ PollReqClosed(t)
       PROVE  UNCHANGED Service!serviceVars
  <2>1. UNCHANGED <<states, handle, index, got>>
    BY <1>10 DEF NextReq, PollReqClosed
  <2> QED
    BY <1>6, <2>1 DEF PhaseOf
<1>11. ASSUME NEW t \in Transfer, NextNone(t) PROVE UNCHANGED Service!serviceVars
  <2>1. index[t] \in Slot /\ sd[index[t]] = One(None)
    BY <1>11, QueueTake DEF NextNone
  <2>2. states[index[t]] = None
    BY <2>1 DEF TableInv, StreamFits
  <2>3. /\ handle[t] \in {"open", "closed"}
        /\ handle' = [handle EXCEPT ![t] = IF held[t] = None THEN "done" ELSE @]
        /\ UNCHANGED <<states, index, got>>
    BY <1>11 DEF NextNone
  <2>4. \A u \in Transfer : PhaseOf(u)' = PhaseOf(u)
    BY <2>2, <2>3 DEF PhaseOf
  <2> QED
    BY <1>6, <2>3, <2>4
<1>12. ASSUME NEW t \in Transfer, PollReq(t) PROVE UNCHANGED Service!serviceVars
  <2> DEFINE i == held[t].idx
             s == update_state(states[i], held[t])
  <2>1. held[t] \in Req /\ i \in Slot /\ states[i] \in TransferState
    BY <1>12, NoneAssumption DEF PollReq, MayPoll, Req
  <2>2. s # None /\ states[i] # None
    BY <2>1, UpdateType, NoneAssumption
  <2>3. /\ states' = [states EXCEPT ![i] = s]
        /\ UNCHANGED <<handle, index, got>>
    BY <1>12 DEF PollReq
  <2> HIDE DEF i, s
  <2>4. \A u \in Transfer : PhaseOf(u)' = PhaseOf(u)
    BY <2>1, <2>2, <2>3 DEF PhaseOf
  <2> QED
    BY <1>6, <2>3, <2>4
<1>13. ASSUME NEW t \in Transfer, TakeResolved(t)
       PROVE  Service!ServiceNext \/ UNCHANGED Service!serviceVars
  <2>1. /\ fstat[t] = "Resolved"
        /\ got' = [got EXCEPT ![t] = IF ret[t] = None THEN @ ELSE Append(@, ret[t])]
        /\ UNCHANGED <<states, handle, index>>
    BY <1>13 DEF TakeResolved
  <2>2. \A u \in Transfer : PhaseOf(u)' = PhaseOf(u)
    BY <2>1 DEF PhaseOf
  <2>3. CASE ret[t] = None
    <3>1. UNCHANGED got
      BY <2>1, <2>3
    <3> QED
      BY <1>6, <2>2, <3>1
  <2>4. CASE ret[t] # None
    <3>1. handle[t] = "open"
      BY <2>1 DEF SeqInv, Awaiting
    <3>2. ret[t] = <<t, Len(got[t])>> /\ Len(got[t]) <= LastBlock
      BY <2>1, <2>4, <3>1 DEF SeqInv, Progress
    <3>3. got' = [got EXCEPT ![t] = Append(@, <<t, Len(@)>>)]
      BY <2>1, <2>4, <3>2
    <3>4. PhaseOf(t) \in {"active", "ended"}
      BY <3>1 DEF PhaseOf
    <3> QED
      BY <1>7, <2>2, <3>2, <3>3, <3>4 DEF Service!ServiceNext
  <2> QED
    BY <2>3, <2>4
<1>14. ASSUME NEW t \in Transfer, Close(t) PROVE Service!ServiceNext
  <2>1. /\ handle[t] = "open" /\ states[index[t]] # None
        /\ states' = [states EXCEPT ![index[t]] = None]
        /\ handle' = [handle EXCEPT ![t] = "closed"]
        /\ UNCHANGED <<index, got>>
    BY <1>14 DEF Close, MayClose
  <2>2. Moves(t, "ended")
    BY <2>1 DEF Moves, PhaseOf, SeqInv, Exclusive
  <2> QED
    BY <1>4, <2>1, <2>2 DEF PhaseOf, Service!ServiceNext
<1>15. ASSUME NEW t \in Transfer,
              OpenPanics(t) \/ PollReqPanics(t) \/ ClosePanics(t) \/ Drop(t)
       PROVE  UNCHANGED Service!serviceVars
  <2>1. /\ \/ UNCHANGED handle
           \/ handle[t] = "closed" /\ handle' = [handle EXCEPT ![t] = "done"]
        /\ UNCHANGED <<states, index, got>>
    BY <1>15 DEF OpenPanics, PollReqPanics, ClosePanics, Drop
  <2>2. \A u \in Transfer : PhaseOf(u)' = PhaseOf(u)
    BY <2>1 DEF PhaseOf
  <2> QED
    BY <1>6, <2>1, <2>2
<1>16. ASSUME NEW m \in memos, RespondFail(m) \/ RespondMore(m) \/ RespondPanics(m)
       PROVE  UNCHANGED Service!serviceVars
  <2>1. UNCHANGED <<states, handle, index, got>>
    BY <1>16 DEF RespondFail, RespondMore, RespondPanics
  <2> QED
    BY <1>6, <2>1 DEF PhaseOf
<1>17. ASSUME NEW m \in memos, RespondLast(m) PROVE Service!ServiceNext
  <2> DEFINE t == m.context
  <2>1. t \in Transfer /\ fstat[t] = "Registered"
    BY DEF ResolveSafe
  <2>2. handle[t] = "open" /\ index[t] \in Slot
    BY <2>1 DEF SeqInv, Awaiting
  <2>3. states[index[t]] # None /\ last = index[t]
    BY <2>1, <2>2 DEF SeqInv, Progress
  <2>4. states' = [states EXCEPT ![index[t]] = None] /\ UNCHANGED <<handle, index, got>>
    BY <1>17, <2>3 DEF RespondLast
  <2> HIDE DEF t
  <2>5. Moves(t, "ended")
    BY <2>1, <2>2, <2>4 DEF Moves, PhaseOf, SeqInv, Exclusive
  <2> QED
    BY <1>4, <2>1, <2>2, <2>3, <2>4, <2>5 DEF PhaseOf, Service!ServiceNext
<1>18. CASE UNCHANGED vars
  BY <1>6, <1>18 DEF vars, PhaseOf
<1> QED
  BY <1>8, <1>9, <1>10, <1>11, <1>12, <1>13, <1>14, <1>15, <1>16, <1>17, <1>18
     DEF Next, Client, Loop, Respond

\* Each transfer of clients that take turns gets the blocks of its own
\* resource, in order and once each, and gcoap_get_blockwise() refuses one only
\* if every state is in use.
THEOREM ImplementsServiceHolds == ASSUME Sequential PROVE Spec => ImplementsService
<1>1. Init => Service!ServiceInit
  BY DEF Init, Service!ServiceInit
<1>2. TypeOK /\ ResolveSafe /\ TableInv /\ SeqInv /\ [Next]_vars
         => [Service!ServiceNext]_(Service!serviceVars)
  BY ServiceStep
<1> QED
  BY <1>1, <1>2, TypeCorrect, ResolveSafeHolds, TableHolds, SeqHolds, PTL
     DEF Spec, ImplementsService, Service!ServiceSpec
==============================================================================
