--------------------------- MODULE MCTargetFiles ---------------------------
(***************************************************************************)
(* A shell that uploads, a handler and a shell beside it; one payload of   *)
(* one block and one of two, so that a chunk is all of a file or half.     *)
(***************************************************************************)
EXTENDS TargetFiles

CONSTANTS shell, other, handler, f, g, short, long

TierDef == [c \in Clients |-> IF c = handler THEN "handler" ELSE "posix"]
SizeDef == [v \in Versions |-> IF v = long THEN 2 ELSE 1]
InitiallyDef == [p \in Paths |-> IF p = f THEN short ELSE long]
=============================================================================
