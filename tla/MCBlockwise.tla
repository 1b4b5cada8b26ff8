----------------------------- MODULE MCBlockwise -----------------------------
(* Instances of Blockwise for TLC: transfers of task_xbd_main and of        *)
(* task_shell_stream.                                                       *)
EXTENDS Blockwise, TLC

CONSTANTS a, b, c, d, main, shell

MCTransfer == {a, b, c}
MCTask == {main, shell}
MCTaskOf == (a :> main) @@ (b :> shell) @@ (c :> shell)

\* Uris and headers fill their buffers but for the last byte, and one header
\* has a byte too many: it is kept by the handler and refused by update_state().
MCUriLen == [t \in MCTransfer \cup {None} |-> IF t = None THEN 0 ELSE REQ_URI_MAX - 1]
MCHdrLen == [m \in (MCTransfer \cup {None}) \X (0 .. LastBlock) |->
    IF m = <<c, 1>> THEN BLOCKWISE_HDR_MAX ELSE BLOCKWISE_HDR_MAX - 1]

\* One more, whose uri is too long already for a request to be made.
FreeTransfer == MCTransfer \cup {d}
FreeTaskOf == MCTaskOf @@ (d :> main)
FreeUriLen == MCUriLen @@ (d :> REQ_URI_MAX + 1)
FreeHdrLen == [m \in (FreeTransfer \cup {None}) \X (0 .. LastBlock) |-> BLOCKWISE_HDR_MAX - 1]

\* The two transfers of the shell task are interchangeable.
ShellSymmetry == Permutations({b, c})
==============================================================================
