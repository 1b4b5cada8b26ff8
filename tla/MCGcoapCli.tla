------------------------------ MODULE MCGcoapCli ------------------------------
(* An instance of GcoapCli for TLC: a path that fits with a proxy's prefix and *)
(* without, one that fits only without, and one that fills the buffer.       *)
EXTENDS GcoapCli, TLC

CONSTANTS short, edge, long

MCTransfer == {short, edge, long}
MCPathLen == (short :> 43) @@ (edge :> 44) @@ (long :> 64)
==============================================================================
