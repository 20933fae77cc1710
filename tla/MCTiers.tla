------------------------------- MODULE MCTiers -------------------------------
EXTENDS Tiers, TLC

CONSTANTS p1, p2, s1, s2, i1, i2, b1, b2, old

MCProcs == {p1, p2}
MCSessions == {s1, s2}
MCSymmetry == Permutations(MCProcs) \cup Permutations(MCSessions)
MCInstalls == {i1, i2}
MCBuilds == {b1, b2, old}
MCRelease == [i \in MCInstalls |-> 2]
MCStamp == [b \in MCBuilds |-> IF b = old THEN 1 ELSE 2]
MCShipped == [i \in MCInstalls |-> IF i = i1 THEN b1 ELSE b2]
=============================================================================
