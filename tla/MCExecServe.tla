----------------------------- MODULE MCExecServe -----------------------------
(***************************************************************************)
(* One path and one process: all that queues, queues together.  The        *)
(* handshake, then a start and requests about the process, sets and gets   *)
(* of the path, or both.                                                   *)
(***************************************************************************)
EXTENDS ExecServe

OnePath == {"path"}
OneProcess == {"process"}

Of(op) == CHOOSE r \in Requests : r.op = op

FiveRequests ==
    << {Of("init"), Of("get")},
       {Of("start"), Of("set")},
       {Of("write"), Of("set")},
       {Of("write"), Of("get"), Of("stop")},
       {Of("write"), Of("get"), Of("poll")} >>
=============================================================================
