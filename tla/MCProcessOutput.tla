--------------------------- MODULE MCProcessOutput ---------------------------
(***************************************************************************)
(* Three writes, three bytes of buffer and pages of two: the first two     *)
(* writes fit one page or need two, and the third evicts both and is       *)
(* larger than the buffer and the page.                                    *)
(***************************************************************************)
EXTENDS ProcessOutput

OneReader == {"client"}
ThreeWrites == <<{1}, {1, 2}, {4}>>
=============================================================================
