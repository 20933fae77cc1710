----------------------------- MODULE MCSessions -----------------------------
(***************************************************************************)
(* Targets whose paths end alike derive one name, "app".  The names with a *)
(* digest stand for the numbered ones as well.                             *)
(***************************************************************************)
EXTENDS Sessions

CONSTANTS first, second, again, up, call, down, srv, opt, other

DirectoryDef == <<"app", "app-digest-srv", "app-digest-opt">>
NameOfDef == [p \in Ups \cup Calls \cup Downs |-> "app"]
SpecOfDef == [p \in Savers |->
                CASE p \in {first, again} -> srv [] p = second -> opt [] p = up -> other]
HostDef == [s \in {srv, opt, other} |-> IF s = other THEN "cloud" ELSE "box"]
LandsDef == [s \in {srv, opt, other} |->
                CASE s = srv -> "/srv/app" [] s = opt -> "/opt/app" [] s = other -> "/app"]
CandidatesDef == [s \in {srv, opt, other} |->
                <<"app", IF s = opt THEN "app-digest-opt" ELSE "app-digest-srv">>]
ModeOfDef == [p \in Savers |-> IF p = second THEN "mirror" ELSE "exec"]
=============================================================================
