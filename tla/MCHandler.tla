------------------------------ MODULE MCHandler ------------------------------
(***************************************************************************)
(* Three requests: one to break the stream, one to replace it, and one to  *)
(* meet what the two have left behind.                                     *)
(***************************************************************************)
EXTENDS Handler, TLC

CONSTANTS r1, r2, r3

Three == {r1, r2, r3}
Alike == Permutations(Three)
=============================================================================
