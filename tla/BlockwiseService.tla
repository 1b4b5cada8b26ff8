--------------------------- MODULE BlockwiseService ---------------------------
(***************************************************************************)
(* What gcoap_get_blockwise() (examples/xbd-net/src/xbd/gcoap.rs) promises *)
(* its callers: a bounded number of transfers at a time, each of which     *)
(* hands its client the blocks of its own resource, in order, once each.   *)
(***************************************************************************)
EXTENDS Naturals, Sequences, FiniteSets

CONSTANTS
    Transfer,   \* the transfers clients may start
    MaxActive,  \* how many may be active at a time
    LastBlock   \* number of the last block of a resource

VARIABLES
    phase,      \* where each transfer is
    delivered   \* the blocks its client has received

serviceVars == <<phase, delivered>>

Active == {t \in Transfer : phase[t] = "active"}

ServiceInit ==
    /\ phase = [t \in Transfer |-> "new"]
    /\ delivered = [t \in Transfer |-> <<>>]

Start(t) ==
    /\ phase[t] = "new"
    /\ Cardinality(Active) < MaxActive
    /\ phase' = [phase EXCEPT ![t] = "active"]
    /\ UNCHANGED delivered

\* StateNotAvailable is returned only when every state is in use.
Refuse(t) ==
    /\ phase[t] = "new"
    /\ Cardinality(Active) = MaxActive
    /\ phase' = [phase EXCEPT ![t] = "refused"]
    /\ UNCHANGED delivered

\* The next block; the last one may reach the client after the transfer ended.
Deliver(t) ==
    /\ phase[t] \in {"active", "ended"}
    /\ Len(delivered[t]) <= LastBlock
    /\ delivered' = [delivered EXCEPT ![t] = Append(@, <<t, Len(@)>>)]
    /\ UNCHANGED phase

End(t) ==
    /\ phase[t] = "active"
    /\ phase' = [phase EXCEPT ![t] = "ended"]
    /\ UNCHANGED delivered

ServiceNext == \E t \in Transfer : Start(t) \/ Refuse(t) \/ Deliver(t) \/ End(t)

ServiceSpec == ServiceInit /\ [][ServiceNext]_serviceVars
==============================================================================
