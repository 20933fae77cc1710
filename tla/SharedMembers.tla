---------------------------- MODULE SharedMembers ----------------------------
(***************************************************************************)
(* What a pool of file strategies promises its callers, apart from how it  *)
(* waits and counts: at most Max members are in service, each is used by   *)
(* one caller at a time, a member goes back to the pool or, once the pool  *)
(* is shut, out of service, and none is handed out again after that.       *)
(***************************************************************************)
EXTENDS Integers, FiniteSets

CONSTANTS Callers, Members, First, NoMember, Max

VARIABLES
    free,   \* members in service that no caller uses
    user,   \* the member each caller uses
    shut,   \* the pool takes no more members back
    fresh   \* members never brought into service

vars == <<free, user, shut, fresh>>

InUse == {user[c] : c \in Callers} \ {NoMember}

Init ==
    /\ free = {First}
    /\ user = [c \in Callers |-> NoMember]
    /\ shut = FALSE
    /\ fresh = Members \ {First}

\* A caller is given a member nobody uses.
Take(c) ==
    /\ ~shut /\ user[c] = NoMember
    /\ \E m \in free : /\ free' = free \ {m}
                       /\ user' = [user EXCEPT ![c] = m]
    /\ UNCHANGED <<shut, fresh>>

\* A caller is given a new member, if there is room for one.
Make(c) ==
    /\ user[c] = NoMember
    /\ Cardinality(free \cup InUse) < Max
    /\ \E m \in fresh : /\ fresh' = fresh \ {m}
                        /\ user' = [user EXCEPT ![c] = m]
    /\ UNCHANGED <<free, shut>>

\* A member that does not fit never enters service.
Reject ==
    /\ \E m \in fresh : fresh' = fresh \ {m}
    /\ UNCHANGED <<free, user, shut>>

\* A caller is done with its member.
GiveBack(c) ==
    /\ user[c] # NoMember
    /\ user' = [user EXCEPT ![c] = NoMember]
    /\ free' = IF shut THEN free ELSE free \cup {user[c]}
    /\ UNCHANGED <<shut, fresh>>

Shut ==
    /\ ~shut /\ shut' = TRUE
    /\ UNCHANGED <<free, user, fresh>>

\* Members nobody uses leave service once the pool is shut.
Discard ==
    /\ shut
    /\ \E m \in free : free' = free \ {m}
    /\ UNCHANGED <<user, shut, fresh>>

Next ==
    \/ \E c \in Callers : Take(c) \/ Make(c) \/ GiveBack(c)
    \/ Reject \/ Shut \/ Discard

Spec == Init /\ [][Next]_vars
=============================================================================
