----------------------------- MODULE MCFilePool -----------------------------
(***************************************************************************)
(* Small pools for TLC.  Two members are room for three callers to contend *)
(* for; a third identity lets one opened member be refused for its tier.   *)
(***************************************************************************)
EXTENDS FilePool, TLC

CONSTANTS c1, c2, c3, c4, m1, m2, m3

Four == {c1, c2, c3, c4}
Three == {c1, c2, c3}
Two == {c1, c2}
Pair == {m1, m2}
Trio == {m1, m2, m3}
=============================================================================
