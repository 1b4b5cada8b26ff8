------------------------------- MODULE Channel -------------------------------
(***************************************************************************)
(* What an XStream (examples/xbd-net/src/xbd/stream.rs) promises to the    *)
(* code on its two ends: a bounded first-in first-out channel.  An item    *)
(* that was added is received once, in order; adding to a full channel is  *)
(* a panic, after which nothing moves.                                     *)
(***************************************************************************)
EXTENDS Naturals, Sequences

CONSTANTS
    Item,       \* what travels through the channel
    Capacity    \* how many items it holds

VARIABLES
    chan,       \* the items under way
    sent,       \* history: every item ever added
    got,        \* history: every item ever received
    panicked    \* an add found the channel full

chanVars == <<chan, sent, got, panicked>>

ChanInit ==
    /\ chan = <<>>
    /\ sent = <<>>
    /\ got = <<>>
    /\ panicked = FALSE

Send(x) ==
    /\ ~panicked
    /\ Len(chan) < Capacity
    /\ chan' = Append(chan, x)
    /\ sent' = Append(sent, x)
    /\ UNCHANGED <<got, panicked>>

Overflow ==
    /\ ~panicked
    /\ Len(chan) = Capacity
    /\ panicked' = TRUE
    /\ UNCHANGED <<chan, sent, got>>

Receive ==
    /\ ~panicked
    /\ chan # <<>>
    /\ got' = Append(got, Head(chan))
    /\ chan' = Tail(chan)
    /\ UNCHANGED <<sent, panicked>>

ChanNext == (\E x \in Item : Send(x)) \/ Overflow \/ Receive

ChanSpec == ChanInit /\ [][ChanNext]_chanVars

\* The receiver keeps receiving while there is something to receive.
FairChanSpec == ChanSpec /\ WF_chanVars(Receive)

\* Nothing is lost, duplicated or reordered between the two ends.
Fifo == sent = got \o chan
==============================================================================
