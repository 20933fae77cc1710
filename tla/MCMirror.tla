------------------------------- MODULE MCMirror -------------------------------
(***************************************************************************)
(* One file, which others may change to a content of theirs, put back or   *)
(* delete while two or three tool calls work on it.                        *)
(***************************************************************************)
EXTENDS Mirror, TLC

CONSTANTS a, b, c

AllTools == {"Read", "Edit", "Write"}
Two == {a, b}
Three == {a, b, c}
Same == Permutations(ToolCalls)
=============================================================================
