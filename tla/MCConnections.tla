---------------------------- MODULE MCConnections ----------------------------
(***************************************************************************)
(* One process with two commands at once, a `reach up` that probes,        *)
(* perhaps a `reach down`, and an sshd that takes one channel on each      *)
(* connection.                                                             *)
(***************************************************************************)
EXTENDS Connections, TLC

CONSTANTS agent, up, down, one, two, trueCommand

OfDef == [r \in Requests |-> IF r = trueCommand THEN up ELSE agent]

\* Where both are streamed.
Same == Permutations({one, two})
=============================================================================
