---------------------------- MODULE MCLwipSockets ----------------------------
(* An instance of LwipSockets for TLC: the test's affe:abe, which has an odd *)
(* number of digits, and the characters at, and next to, the ends of the     *)
(* digits' ranges.                                                           *)
EXTENDS LwipSockets

MCHexData == {<<97, 102, 102, 101, 58, 97, 98, 101>>,
              <<47, 48, 57, 58, 64, 65, 70, 71, 96, 97, 102, 103>>}
==============================================================================
