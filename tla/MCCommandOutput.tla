-------------------------- MODULE MCCommandOutput --------------------------
(***************************************************************************)
(* A status of two digits, and buffers short enough for the ring to go     *)
(* round more than once.                                                   *)
(***************************************************************************)
EXTENDS CommandOutput

StatusDef == <<1, 3>>
=============================================================================
