---------------------------- MODULE FilePoolProofs ----------------------------
(***************************************************************************)
(* What FilePool promises, for any number of callers, any limit and any    *)
(* number of operations.  The invariants are not inductive one by one:     *)
(* that p.live stays a natural number needs a slot behind every caller     *)
(* that gives one up, and that a member is in one place needs callers that *)
(* are not using a member to hold none.  IInv is their conjunction with    *)
(* these two facts.                                                        *)
(***************************************************************************)
EXTENDS FilePool, FiniteSetTheorems, TLAPS

\* A caller holds a member exactly while it uses it.
HeldInUse == \A c \in Callers : pc[c] = "using" <=> held[c] # NoMember

\* Members are only ended by Close once the pool is closed.
ClosingIsClosed == closing # {} => closed

IInv ==
    /\ TypeOK /\ OnePlace /\ HeldInUse /\ ClosingIsClosed
    /\ WithinLimit /\ GrowFailureStaysInside

\* The callers that hold a slot and no member, on the program counters p.
ReservingAt(p) == {c \in Callers : p[c] \in {"growing", "failed"}}

-----------------------------------------------------------------------------
\* Reserving counts a finite set of callers, by the program counters alone.
LEMMA ReservingFacts ==
    /\ Reserving = ReservingAt(pc)
    /\ \A p : IsFiniteSet(ReservingAt(p)) /\ Cardinality(ReservingAt(p)) \in Nat
<1>1. Reserving = ReservingAt(pc)
  BY DEF Reserving, ReservingAt, At
<1>2. ASSUME NEW p PROVE IsFiniteSet(ReservingAt(p))
  BY PoolAssumption, FS_Subset DEF ReservingAt
<1>. QED
  BY <1>1, <1>2, FS_CardinalityType

\* Open is finite.
LEMMA OpenFacts == IsFiniteSet(Open) /\ Cardinality(Open) \in Nat
  BY PoolAssumption, FS_Subset, FS_CardinalityType DEF Open

\* A broadcast moves waiting callers only.
LEMMA AwakeFacts ==
  ASSUME NEW p \in [Callers -> PC]
  PROVE  /\ Awake(p) \in [Callers -> PC]
         /\ \A c \in Callers :
               \/ Awake(p)[c] = p[c]
               \/ p[c] = "waiting" /\ Awake(p)[c] = "woken"
         /\ ReservingAt(Awake(p)) = ReservingAt(p)
  BY DEF Awake, PC, ReservingAt

\* The limit is a positive number.
LEMMA MaxFacts == Max \in Nat \ {0}
  BY PoolAssumption DEF Max

(***************************************************************************)
(* One pass of get's loop by a caller that holds nothing: either it leaves *)
(* the slots as they are, or it takes one below the limit; and it takes at *)
(* most one member, an idle one, and uses it.                              *)
(***************************************************************************)
LEMMA LoopBodyFacts ==
  ASSUME NEW p \in [Callers -> PC], NEW c \in Callers, NEW n \in Nat, NEW w,
         TypeOK, LoopBody(c, p, n, w)
  PROVE  /\ pc' \in [Callers -> PC] /\ live' \in Nat
         /\ watching' \in {w, w \cup {c}}
         /\ \A d \in Callers \ {c} : pc'[d] = p[d]
         /\ \/ /\ live' = n
               /\ ReservingAt(pc') = ReservingAt(p) \ {c}
            \/ /\ live' = n + 1 /\ n < Max /\ ~closed
               /\ ReservingAt(pc') = ReservingAt(p) \cup {c}
         /\ \/ pc'[c] # "using" /\ UNCHANGED <<idle, held>>
            \/ \E m \in idle : /\ ~closed /\ pc'[c] = "using"
                               /\ idle' = idle \ {m}
                               /\ held' = [held EXCEPT ![c] = m]
<1>. USE DEF PC
<1>1. CASE /\ closed
           /\ pc' = [p EXCEPT ![c] = "out"]
           /\ live' = n /\ watching' = w
           /\ UNCHANGED <<idle, held>>
  BY <1>1 DEF ReservingAt
<1>2. CASE /\ ~closed
           /\ \E m \in idle : /\ idle' = idle \ {m}
                              /\ held' = [held EXCEPT ![c] = m]
           /\ pc' = [p EXCEPT ![c] = "using"]
           /\ live' = n /\ watching' = w
  BY <1>2 DEF ReservingAt
<1>3. CASE /\ ~closed /\ idle = {} /\ n >= Max
           /\ pc' = [p EXCEPT ![c] = "waiting"]
           /\ live' = n /\ watching' = w \cup {c}
           /\ UNCHANGED <<idle, held>>
  BY <1>3 DEF ReservingAt
<1>4. CASE /\ ~closed /\ idle = {} /\ n < Max
           /\ pc' = [p EXCEPT ![c] = "growing"]
           /\ live' = n + 1 /\ watching' = w
           /\ UNCHANGED <<idle, held>>
  BY <1>4 DEF ReservingAt
<1>. QED
  BY <1>1, <1>2, <1>3, <1>4 DEF LoopBody, LoopBodyNoGrowth

\* The slots, for k callers that hold one and no member, n counted in all.
Slots(k, n) ==
    /\ n <= Max /\ k < n
    /\ Cardinality(Open) + k <= n
    /\ ~closed => n = Cardinality(Open) + k

\* The invariants about slots say this, with Reserving counted by the pcs.
LEMMA SlotsFacts ==
    WithinLimit /\ GrowFailureStaysInside <=> Slots(Cardinality(ReservingAt(pc)), live)
BY ReservingFacts DEF WithinLimit, GrowFailureStaysInside, Slots

(***************************************************************************)
(* A pass of get's loop keeps the invariant, whether it is the first one,  *)
(* the one after a wait or the one after a failed grow: all it needs is    *)
(* that, without the caller, the slots are right.                          *)
(***************************************************************************)
LEMMA LoopBodyKeeps ==
  ASSUME IInv,
         NEW c \in Callers, held[c] = NoMember,
         NEW p \in [Callers -> PC], NEW n \in Nat, NEW w \in SUBSET Callers,
         \A d \in Callers \ {c} : p[d] = "using" <=> pc[d] = "using",
         Slots(Cardinality(ReservingAt(p) \ {c}), n),
         LoopBody(c, p, n, w),
         UNCHANGED <<closed, member, closing>>
  PROVE  /\ pc' \in [Callers -> PC] /\ live' \in Nat
         /\ watching' \in SUBSET Callers
         /\ held' \in [Callers -> Members \cup {NoMember}]
         /\ idle' \in SUBSET Members
         /\ OnePlace' /\ HeldInUse' /\ ClosingIsClosed'
         /\ WithinLimit' /\ GrowFailureStaysInside'
<1>. DEFINE R == ReservingAt(p) \ {c}
<1>. USE DEF IInv
<1>1. /\ pc' \in [Callers -> PC] /\ live' \in Nat
      /\ watching' \in {w, w \cup {c}}
      /\ \A d \in Callers \ {c} : pc'[d] = p[d]
      /\ \/ /\ live' = n
            /\ ReservingAt(pc') = R
         \/ /\ live' = n + 1 /\ n < Max /\ ~closed
            /\ ReservingAt(pc') = ReservingAt(p) \cup {c}
      /\ \/ pc'[c] # "using" /\ UNCHANGED <<idle, held>>
         \/ \E m \in idle : /\ pc'[c] = "using"
                            /\ idle' = idle \ {m}
                            /\ held' = [held EXCEPT ![c] = m]
  BY LoopBodyFacts
<1>2. /\ held' \in [Callers -> Members \cup {NoMember}]
      /\ idle' \in SUBSET Members
      /\ watching' \in SUBSET Callers
  BY <1>1 DEF TypeOK
<1>3. Open' = Open
  BY DEF Open
<1>4. OnePlace' /\ HeldInUse'
  <2>1. CASE pc'[c] # "using" /\ UNCHANGED <<idle, held>>
    BY <2>1, <1>1, <1>3 DEF OnePlace, HeldInUse
  <2>2. CASE \E m \in idle : /\ pc'[c] = "using"
                             /\ idle' = idle \ {m}
                             /\ held' = [held EXCEPT ![c] = m]
    <3>1. PICK m \in idle : /\ pc'[c] = "using"
                            /\ idle' = idle \ {m}
                            /\ held' = [held EXCEPT ![c] = m]
      BY <2>2
    <3>2. m \in Members /\ m # NoMember /\ m \notin closing
          /\ \A d \in Callers : held[d] # m
      BY PoolAssumption DEF TypeOK, OnePlace
    <3>3. held'[c] = m /\ \A d \in Callers \ {c} : held'[d] = held[d]
      BY <3>1 DEF TypeOK
    <3>4. {held'[d] : d \in Callers} \ {NoMember}
            = ({held[d] : d \in Callers} \ {NoMember}) \cup {m}
      BY <3>2, <3>3
    <3>5. OnePlace'
      BY <3>1, <3>2, <3>3, <3>4, <1>3 DEF OnePlace
    <3>6. HeldInUse'
      BY <3>1, <3>2, <3>3, <1>1 DEF HeldInUse
    <3>. QED  BY <3>5, <3>6
  <2>. QED  BY <1>1, <2>1, <2>2
<1>5. ClosingIsClosed'
  BY DEF ClosingIsClosed
<1>6. Slots(Cardinality(ReservingAt(pc')), live')
  <2>1. IsFiniteSet(R) /\ Cardinality(R) \in Nat /\ c \notin R
    BY ReservingFacts, FS_Subset, FS_CardinalityType
  <2>2. CASE live' = n /\ ReservingAt(pc') = R
    BY <2>2
  <2>3. CASE /\ live' = n + 1 /\ n < Max /\ ~closed
             /\ ReservingAt(pc') = ReservingAt(p) \cup {c}
    <3>1. ReservingAt(pc') = R \cup {c}
      BY <2>3
    <3>2. Cardinality(ReservingAt(pc')) = Cardinality(R) + 1
      BY <2>1, <3>1, FS_AddElement
    <3>. QED  BY <2>1, <2>3, <3>2, OpenFacts, MaxFacts DEF Slots
  <2>. QED  BY <1>1, <2>2, <2>3
<1>7. Reserving' = ReservingAt(pc')
  BY DEF Reserving, ReservingAt, At
<1>8. WithinLimit' /\ GrowFailureStaysInside'
  BY <1>3, <1>6, <1>7 DEF Slots, WithinLimit, GrowFailureStaysInside
<1>. QED
  BY <1>1, <1>2, <1>4, <1>5, <1>8

-----------------------------------------------------------------------------
\* The pool as NewPool makes it.
LEMMA InitIInv == Init => IInv
<1>. SUFFICES ASSUME Init PROVE IInv
  OBVIOUS
<1>. USE DEF Init
<1>1. TypeOK /\ HeldInUse /\ ClosingIsClosed
  BY PoolAssumption DEF TypeOK, HeldInUse, ClosingIsClosed, PC
<1>2. Open = {First} /\ Reserving = {}
  BY PoolAssumption DEF Open, Reserving, At
<1>3. OnePlace
  BY <1>2, PoolAssumption DEF OnePlace
<1>4. Cardinality(Open) = 1 /\ Cardinality(Reserving) = 0
  BY <1>2, FS_Singleton, FS_EmptySet
<1>5. WithinLimit /\ GrowFailureStaysInside
  BY <1>4, MaxFacts DEF WithinLimit, GrowFailureStaysInside
<1>. QED
  BY <1>1, <1>3, <1>5 DEF IInv

\* get's first pass, and the one after a wait.
LEMMA GetKeeps == ASSUME IInv, NEW c \in Callers, Get(c) PROVE IInv'
<1>. USE DEF IInv, Get
<1>1. /\ held[c] = NoMember
      /\ pc \in [Callers -> PC] /\ live \in Nat /\ watching \in SUBSET Callers
  BY DEF TypeOK, HeldInUse
<1>2. ReservingAt(pc) \ {c} = ReservingAt(pc)
  BY DEF ReservingAt
<1>3. Slots(Cardinality(ReservingAt(pc) \ {c}), live)
  BY <1>2, SlotsFacts
<1>4. /\ pc' \in [Callers -> PC] /\ live' \in Nat
      /\ watching' \in SUBSET Callers
      /\ held' \in [Callers -> Members \cup {NoMember}]
      /\ idle' \in SUBSET Members
      /\ OnePlace' /\ HeldInUse' /\ ClosingIsClosed'
      /\ WithinLimit' /\ GrowFailureStaysInside'
  BY <1>1, <1>3, LoopBodyKeeps
<1>5. calls' \in [Callers -> Nat]
  BY DEF TypeOK
<1>6. TypeOK'
  BY <1>4, <1>5 DEF TypeOK
<1>. QED  BY <1>4, <1>6

\* A woken caller goes round the loop with IInv intact.
LEMMA ResumeKeeps == ASSUME IInv, NEW c \in Callers, Resume(c) PROVE IInv'
<1>. USE DEF IInv, Resume
<1>1. /\ held[c] = NoMember
      /\ pc \in [Callers -> PC] /\ live \in Nat
      /\ watching \ {c} \in SUBSET Callers
  BY DEF TypeOK, HeldInUse
<1>2. ReservingAt(pc) \ {c} = ReservingAt(pc)
  BY DEF ReservingAt
<1>3. Slots(Cardinality(ReservingAt(pc) \ {c}), live)
  BY <1>2, SlotsFacts
<1>4. /\ pc' \in [Callers -> PC] /\ live' \in Nat
      /\ watching' \in SUBSET Callers
      /\ held' \in [Callers -> Members \cup {NoMember}]
      /\ idle' \in SUBSET Members
      /\ OnePlace' /\ HeldInUse' /\ ClosingIsClosed'
      /\ WithinLimit' /\ GrowFailureStaysInside'
  BY <1>1, <1>3, LoopBodyKeeps
<1>5. TypeOK'
  BY <1>4 DEF TypeOK, LeaveWait
<1>. QED  BY <1>4, <1>5

(***************************************************************************)
(* A failed grow gives its slot up.  There is another one, so p.live does  *)
(* not get to zero, and the loop goes round.                               *)
(***************************************************************************)
LEMMA RetryKeeps == ASSUME IInv, NEW c \in Callers, Retry(c) PROVE IInv'
<1>. USE DEF IInv
<1>. DEFINE p == Awake(pc)
<1>1. /\ held[c] = NoMember /\ c \in ReservingAt(pc)
      /\ pc \in [Callers -> PC] /\ live \in Nat /\ watching \in SUBSET Callers
  BY DEF Retry, TypeOK, HeldInUse, ReservingAt
<1>2. /\ p \in [Callers -> PC] /\ ReservingAt(p) = ReservingAt(pc)
      /\ \A d \in Callers \ {c} : p[d] = "using" <=> pc[d] = "using"
  BY <1>1, AwakeFacts
<1>3. Cardinality(ReservingAt(p) \ {c}) = Cardinality(ReservingAt(pc)) - 1
      /\ Cardinality(ReservingAt(pc)) \in Nat \ {0}
  BY <1>1, <1>2, ReservingFacts, FS_RemoveElement, FS_EmptySet
<1>4. Slots(Cardinality(ReservingAt(pc)), live)
  BY SlotsFacts
<1>5. Slots(Cardinality(ReservingAt(p) \ {c}), live - 1)
      /\ live - 1 \in Nat \ {0}
  BY <1>1, <1>3, <1>4, OpenFacts, MaxFacts DEF Slots
<1>6. LoopBody(c, p, live - 1, watching)
      /\ UNCHANGED <<ended, closed, member, closing, calls, firing, late>>
  BY <1>1, <1>5 DEF Retry
<1>7. /\ pc' \in [Callers -> PC] /\ live' \in Nat
      /\ watching' \in SUBSET Callers
      /\ held' \in [Callers -> Members \cup {NoMember}]
      /\ idle' \in SUBSET Members
      /\ OnePlace' /\ HeldInUse' /\ ClosingIsClosed'
      /\ WithinLimit' /\ GrowFailureStaysInside'
  <2>. HIDE DEF p
  <2>. QED  BY <1>1, <1>2, <1>5, <1>6, LoopBodyKeeps
<1>8. TypeOK'
  BY <1>6, <1>7 DEF TypeOK
<1>. QED  BY <1>7, <1>8

\* A step that leaves members and slots alone keeps what is said about them.
LEMMA PlacesKept ==
  ASSUME IInv, TypeOK',
         \A c \in Callers :
            /\ pc'[c] = "using" <=> pc[c] = "using"
            /\ pc'[c] \in {"growing", "failed"} <=> pc[c] \in {"growing", "failed"},
         UNCHANGED <<held, idle, live, closed, member, closing>>
  PROVE  IInv'
<1>. USE DEF IInv
<1>1. Open' = Open /\ Reserving' = Reserving
  BY DEF Open, Reserving, At
<1>2. OnePlace' /\ HeldInUse' /\ ClosingIsClosed'
  BY <1>1 DEF OnePlace, HeldInUse, ClosingIsClosed
<1>3. WithinLimit' /\ GrowFailureStaysInside'
  BY <1>1 DEF WithinLimit, GrowFailureStaysInside
<1>. QED  BY <1>2, <1>3

\* A new member takes the place of the slot that was reserved for it.
LEMMA GrowKeeps == ASSUME IInv, NEW c \in Callers, Grow(c) PROVE IInv'
<1>. USE DEF IInv
<1>1. PICK m \in Members : /\ member[m] = "unopened"
                           /\ member' = [member EXCEPT ![m] = "open"]
                           /\ held' = [held EXCEPT ![c] = m]
  BY DEF Grow
<1>2. /\ pc[c] = "growing" /\ pc' = [pc EXCEPT ![c] = "using"]
      /\ UNCHANGED <<ended, idle, live, closed, closing, calls, watching,
                     firing, late>>
  BY DEF Grow
<1>3. TypeOK'
  BY <1>1, <1>2 DEF TypeOK, PC
<1>4. m \notin Open /\ Open' = Open \cup {m} /\ m # NoMember
  BY <1>1, PoolAssumption DEF TypeOK, Open
<1>5. /\ m \notin idle \cup closing
      /\ \A d \in Callers : held[d] # m
  BY <1>4 DEF OnePlace
<1>6. held[c] = NoMember
  BY <1>2 DEF HeldInUse
<1>7. held'[c] = m /\ \A d \in Callers \ {c} : held'[d] = held[d]
  BY <1>1 DEF TypeOK
<1>8. {held'[d] : d \in Callers} \ {NoMember}
        = ({held[d] : d \in Callers} \ {NoMember}) \cup {m}
  BY <1>4, <1>6, <1>7
<1>9. OnePlace'
  BY <1>2, <1>4, <1>5, <1>7, <1>8 DEF OnePlace
<1>10. HeldInUse' /\ ClosingIsClosed'
  BY <1>2, <1>4, <1>7 DEF TypeOK, HeldInUse, ClosingIsClosed
<1>11. Reserving' = Reserving \ {c} /\ c \in Reserving
  BY <1>2 DEF TypeOK, Reserving, At
<1>12. /\ Cardinality(Reserving') = Cardinality(Reserving) - 1
       /\ Cardinality(Reserving) \in Nat
  BY <1>11, ReservingFacts, FS_RemoveElement
<1>13. /\ Cardinality(Open') = Cardinality(Open) + 1
       /\ Cardinality(Open) \in Nat
  BY <1>4, OpenFacts, FS_AddElement
<1>14. WithinLimit' /\ GrowFailureStaysInside'
  BY <1>2, <1>12, <1>13, MaxFacts DEF TypeOK, WithinLimit, GrowFailureStaysInside
<1>. QED  BY <1>3, <1>9, <1>10, <1>14

\* A failed grow keeps its slot for now; a member of another tier is ended.
LEMMA GrowFailsKeeps == ASSUME IInv, NEW c \in Callers, GrowFails(c) PROVE IInv'
<1>. USE DEF IInv
<1>1. /\ pc[c] = "growing" /\ pc' = [pc EXCEPT ![c] = "failed"]
      /\ UNCHANGED <<held, ended, idle, live, closed, closing, calls, watching,
                     firing, late>>
  BY DEF GrowFails
<1>2. /\ member' \in [Members -> {"unopened", "open", "shut"}]
      /\ \A m \in Members : member'[m] = "open" <=> member[m] = "open"
  BY DEF GrowFails, TypeOK
<1>3. TypeOK'
  BY <1>1, <1>2 DEF TypeOK, PC
<1>4. Open' = Open /\ Reserving' = Reserving
  BY <1>1, <1>2 DEF TypeOK, Open, Reserving, At
<1>5. OnePlace' /\ HeldInUse' /\ ClosingIsClosed'
  BY <1>1, <1>4 DEF TypeOK, OnePlace, HeldInUse, ClosingIsClosed
<1>6. WithinLimit' /\ GrowFailureStaysInside'
  BY <1>1, <1>4 DEF WithinLimit, GrowFailureStaysInside
<1>. QED  BY <1>3, <1>5, <1>6

\* The member goes from the caller to p.idle; at most one waiter is woken.
LEMMA PutKeeps == ASSUME IInv, NEW c \in Callers, Put(c) PROVE IInv'
<1>. USE DEF IInv
<1>1. /\ pc[c] = "using" /\ ~closed
      /\ idle' = idle \cup {held[c]}
      /\ held' = [held EXCEPT ![c] = NoMember]
      /\ UNCHANGED <<ended, live, closed, member, closing, calls, watching,
                     firing, late>>
  BY DEF Put
<1>2. /\ pc' \in [Callers -> PC] /\ pc'[c] = "out"
      /\ \A d \in Callers \ {c} : \/ pc'[d] = pc[d]
                                  \/ pc[d] = "waiting" /\ pc'[d] = "woken"
  BY <1>1 DEF Put, TypeOK, PC, At
<1>3. held[c] \in Members /\ held[c] # NoMember
  BY <1>1 DEF TypeOK, HeldInUse
<1>4. TypeOK'
  BY <1>1, <1>2, <1>3 DEF TypeOK
<1>5. Open' = Open /\ Reserving' = Reserving
  BY <1>1, <1>2 DEF Open, Reserving, At
<1>6. held'[c] = NoMember /\ \A d \in Callers \ {c} : held'[d] = held[d]
  BY <1>1 DEF TypeOK
<1>7. \A d \in Callers \ {c} : held[d] # held[c]
  BY <1>3 DEF OnePlace
<1>8. {held'[d] : d \in Callers} \ {NoMember}
        = ({held[d] : d \in Callers} \ {NoMember}) \ {held[c]}
  BY <1>3, <1>6, <1>7
<1>9. held[c] \notin closing
  BY DEF OnePlace
<1>10. OnePlace'
  <2>1. idle' \cap closing' = {}
    BY <1>1, <1>9 DEF OnePlace
  <2>2. \A m \in (idle \cup closing)' : \A d \in Callers : held'[d] # m
    BY <1>1, <1>3, <1>6, <1>7, PoolAssumption DEF OnePlace, TypeOK
  <2>3. \A d, e \in Callers : held'[d] = held'[e] /\ held'[d] # NoMember => d = e
    BY <1>6 DEF OnePlace
  <2>4. held[c] \in {held[d] : d \in Callers} \ {NoMember}
    BY <1>3
  <2>5. Open' = (idle \cup closing)' \cup ({held'[d] : d \in Callers} \ {NoMember})
    BY <1>1, <1>5, <1>8, <2>4 DEF OnePlace
  <2>. QED  BY <2>1, <2>2, <2>3, <2>5 DEF OnePlace
<1>11. HeldInUse' /\ ClosingIsClosed'
  BY <1>1, <1>2, <1>6 DEF HeldInUse, ClosingIsClosed
<1>12. WithinLimit' /\ GrowFailureStaysInside'
  BY <1>1, <1>5 DEF WithinLimit, GrowFailureStaysInside
<1>. QED  BY <1>4, <1>10, <1>11, <1>12

\* On a closed pool the member is ended, and leaves the count behind.
LEMMA PutClosedKeeps == ASSUME IInv, NEW c \in Callers, PutClosed(c) PROVE IInv'
<1>. USE DEF IInv
<1>1. /\ pc[c] = "using" /\ closed
      /\ member' = [member EXCEPT ![held[c]] = "shut"]
      /\ held' = [held EXCEPT ![c] = NoMember]
      /\ pc' = [pc EXCEPT ![c] = "out"]
      /\ UNCHANGED <<ended, idle, live, closed, closing, calls, watching,
                     firing, late>>
  BY DEF PutClosed
<1>2. held[c] \in Members /\ held[c] # NoMember
  BY <1>1 DEF TypeOK, HeldInUse
<1>3. TypeOK'
  BY <1>1, <1>2 DEF TypeOK, PC
<1>4. Open' = Open \ {held[c]} /\ held[c] \in Open
  BY <1>1, <1>2 DEF TypeOK, Open, OnePlace
<1>5. Reserving' = Reserving
  BY <1>1 DEF TypeOK, Reserving, At
<1>6. held'[c] = NoMember /\ \A d \in Callers \ {c} : held'[d] = held[d]
  BY <1>1 DEF TypeOK
<1>7. \A d \in Callers \ {c} : held[d] # held[c]
  BY <1>2 DEF OnePlace
<1>8. {held'[d] : d \in Callers} \ {NoMember}
        = ({held[d] : d \in Callers} \ {NoMember}) \ {held[c]}
  BY <1>2, <1>6, <1>7
<1>9. held[c] \notin idle \cup closing
  BY DEF OnePlace
<1>10. OnePlace'
  <2>1. \A m \in (idle \cup closing)' : \A d \in Callers : held'[d] # m
    BY <1>1, <1>6, PoolAssumption DEF OnePlace, TypeOK
  <2>2. \A d, e \in Callers : held'[d] = held'[e] /\ held'[d] # NoMember => d = e
    BY <1>6 DEF OnePlace
  <2>3. Open' = (idle \cup closing)' \cup ({held'[d] : d \in Callers} \ {NoMember})
    BY <1>1, <1>4, <1>8, <1>9 DEF OnePlace
  <2>. QED  BY <1>1, <2>1, <2>2, <2>3 DEF OnePlace
<1>11. HeldInUse' /\ ClosingIsClosed'
  BY <1>1, <1>6 DEF TypeOK, HeldInUse, ClosingIsClosed
<1>12. /\ Cardinality(Open') = Cardinality(Open) - 1
       /\ Cardinality(Open) \in Nat /\ Cardinality(Reserving) \in Nat
  BY <1>4, OpenFacts, ReservingFacts, FS_RemoveElement
<1>13. WithinLimit' /\ GrowFailureStaysInside'
  BY <1>1, <1>5, <1>12 DEF TypeOK, WithinLimit, GrowFailureStaysInside, Max
<1>. QED  BY <1>3, <1>10, <1>11, <1>13

\* Close takes what is idle, and wakes everybody.
LEMMA CloseKeeps == ASSUME IInv, Close PROVE IInv'
<1>. USE DEF IInv
<1>1. /\ ~closed /\ closed' /\ closing' = idle /\ idle' = {} /\ pc' = Awake(pc)
      /\ UNCHANGED <<held, ended, live, member, calls, watching, firing, late>>
  BY DEF Close
<1>2. pc' \in [Callers -> PC] /\ ReservingAt(pc') = ReservingAt(pc)
      /\ \A c \in Callers : pc'[c] = "using" <=> pc[c] = "using"
  BY <1>1, AwakeFacts DEF TypeOK
<1>3. TypeOK'
  BY <1>1, <1>2 DEF TypeOK, Close
<1>4. closing = {}
  BY <1>1 DEF ClosingIsClosed
<1>5. Open' = Open /\ Reserving' = Reserving
  BY <1>1, <1>2, ReservingFacts DEF Open, Reserving, At, ReservingAt
<1>6. OnePlace'
  BY <1>1, <1>4, <1>5 DEF OnePlace
<1>7. HeldInUse' /\ ClosingIsClosed'
  BY <1>1, <1>2 DEF HeldInUse, ClosingIsClosed
<1>8. WithinLimit' /\ GrowFailureStaysInside'
  BY <1>1, <1>5, OpenFacts, ReservingFacts DEF WithinLimit, GrowFailureStaysInside
<1>. QED  BY <1>3, <1>6, <1>7, <1>8

\* Close ends the members it took; they were in its hands alone.
LEMMA CloseMemberKeeps == ASSUME IInv, NEW m \in Members, CloseMember(m) PROVE IInv'
<1>. USE DEF IInv
<1>1. /\ m \in closing /\ closing' = closing \ {m}
      /\ member' = [member EXCEPT ![m] = "shut"]
      /\ UNCHANGED <<pc, held, ended, idle, live, closed, calls, watching,
                     firing, late>>
  BY DEF CloseMember
<1>2. TypeOK'
  BY <1>1 DEF TypeOK
<1>3. /\ m \in Open /\ m \notin idle /\ \A c \in Callers : held[c] # m
  BY <1>1 DEF OnePlace
<1>4. Open' = Open \ {m} /\ Reserving' = Reserving
  BY <1>1 DEF TypeOK, Open, Reserving, At
<1>5. OnePlace'
  BY <1>1, <1>3, <1>4 DEF OnePlace
<1>6. HeldInUse' /\ ClosingIsClosed' /\ closed
  BY <1>1 DEF HeldInUse, ClosingIsClosed
<1>7. /\ Cardinality(Open') = Cardinality(Open) - 1
      /\ Cardinality(Open) \in Nat /\ Cardinality(Reserving) \in Nat
  BY <1>3, <1>4, OpenFacts, ReservingFacts, FS_RemoveElement
<1>8. WithinLimit' /\ GrowFailureStaysInside'
  BY <1>1, <1>4, <1>6, <1>7 DEF TypeOK, WithinLimit, GrowFailureStaysInside, Max
<1>. QED  BY <1>2, <1>5, <1>6, <1>8

\* The steps around a wait move no member and no slot.
LEMMA WaitingKeeps ==
  ASSUME IInv, NEW c \in Callers, GiveUp(c) \/ CtxEnds(c) \/ Watcher(c)
  PROVE  IInv'
<1>. USE DEF IInv
<1>1. CASE GiveUp(c)
  <2>1. TypeOK'
    BY <1>1 DEF GiveUp, LeaveWait, TypeOK, PC
  <2>. QED  BY <1>1, <2>1, PlacesKept DEF GiveUp, TypeOK
<1>2. CASE CtxEnds(c)
  <2>1. TypeOK'
    BY <1>2 DEF CtxEnds, TypeOK
  <2>. QED  BY <1>2, <2>1, PlacesKept DEF CtxEnds
<1>3. CASE WatcherFires(c)
  <2>1. TypeOK'
    BY <1>3 DEF WatcherFires, TypeOK
  <2>. QED  BY <1>3, <2>1, PlacesKept DEF WatcherFires
<1>4. CASE WatcherBroadcasts(c)
  <2>1. pc' \in [Callers -> PC]
        /\ \A d \in Callers : \/ pc'[d] = pc[d]
                              \/ pc[d] = "waiting" /\ pc'[d] = "woken"
    BY <1>4, AwakeFacts DEF WatcherBroadcasts, TypeOK
  <2>2. TypeOK'
    BY <1>4, <2>1 DEF WatcherBroadcasts, TypeOK
  <2>. QED  BY <1>4, <2>1, <2>2, PlacesKept DEF WatcherBroadcasts
<1>5. CASE LateWatcher(c)
  <2>1. TypeOK'
    BY <1>5 DEF LateWatcher, TypeOK
  <2>. QED  BY <1>5, <2>1, PlacesKept DEF LateWatcher
<1>. QED
  BY <1>1, <1>2, <1>3, <1>4, <1>5 DEF Watcher

\* IInv is inductive: every step of the pool keeps it.
LEMMA NextKeeps == ASSUME IInv, [Next]_vars PROVE IInv'
<1>1. ASSUME NEW c \in Callers, Get(c) \/ Step(c) \/ CtxEnds(c) \/ Watcher(c)
      PROVE  IInv'
  BY <1>1, GetKeeps, ResumeKeeps, GrowKeeps, GrowFailsKeeps, RetryKeeps, PutKeeps,
     PutClosedKeeps, WaitingKeeps
  DEF Step
<1>2. ASSUME NEW m \in Members, CloseMember(m) PROVE IInv'
  BY <1>2, CloseMemberKeeps
<1>3. CASE UNCHANGED vars
  <2>1. TypeOK'
    BY <1>3 DEF IInv, TypeOK, vars
  <2>. QED  BY <1>3, <2>1, PlacesKept DEF vars
<1>. QED
  BY <1>1, <1>2, <1>3, CloseKeeps DEF Next, Rest

\* Every state the pool reaches satisfies IInv.
THEOREM Inductive == Spec => []IInv
<1>1. Init => IInv
  BY InitIInv
<1>2. IInv /\ [Next]_vars => IInv'
  BY NextKeeps
<1>. QED  BY <1>1, <1>2, PTL DEF Spec

-----------------------------------------------------------------------------
\* Every variable of the pool stays in its type; p.live never goes below zero.
THEOREM TypeCorrect == Spec => []TypeOK
  BY Inductive, PTL DEF IInv

(***************************************************************************)
(* A member that runs is idle, checked out by one caller, or in the hands  *)
(* of Close: no two operations of the pool ever share a handler, and none  *)
(* is left running with nobody to end it.                                  *)
(***************************************************************************)
THEOREM MembersInOnePlace == Spec => []OnePlace
  BY Inductive, PTL DEF IInv

(***************************************************************************)
(* p.live is exact until Close and never above the limit, for any number   *)
(* of callers that find the pool empty at once.                            *)
(***************************************************************************)
THEOREM LimitKept == Spec => []WithinLimit
  BY Inductive, PTL DEF IInv

(***************************************************************************)
(* get never takes its "p.live == 0" return: a grow that fails leaves the  *)
(* operation to wait for a member that works.                              *)
(***************************************************************************)
THEOREM GrowFailureIsAbsorbed == Spec => []GrowFailureStaysInside
  BY Inductive, PTL DEF IInv

-----------------------------------------------------------------------------
(***************************************************************************)
(* No wakeup is lost.  While no context has ended, an idle member and a    *)
(* waiting caller can only be there together because a Signal was sent and *)
(* the caller it woke has not run yet.  That argument needs two more facts *)
(* about the pool: a closed one has nothing idle, and only an operation    *)
(* that has started can be over.                                           *)
(***************************************************************************)
ClosedIsEmpty == closed => idle = {}

Started == \A c \in Callers : pc[c] # "out" => calls[c] > 0

WInv == IInv /\ ClosedIsEmpty /\ Started /\ NoLostWakeup

\* The woken callers are finitely many, and so are the idle members.
LEMMA WokenFacts ==
  ASSUME IInv
  PROVE  /\ IsFiniteSet(At("woken")) /\ Cardinality(At("woken")) \in Nat
         /\ IsFiniteSet(idle) /\ Cardinality(idle) \in Nat
<1>1. IsFiniteSet(At("woken")) /\ IsFiniteSet(idle)
  BY PoolAssumption, FS_Subset DEF At, IInv, TypeOK
<1>. QED  BY <1>1, FS_CardinalityType

\* Where a pass of the loop leaves the caller, and why.
LEMMA LoopBodyLeaves ==
  ASSUME NEW p \in [Callers -> PC], NEW c \in Callers, NEW n, NEW w,
         LoopBody(c, p, n, w)
  PROVE  /\ \A d \in Callers \ {c} : pc'[d] = p[d]
         /\ \/ pc'[c] = "out" /\ closed /\ idle' = idle
            \/ pc'[c] \in {"waiting", "growing"} /\ idle = {} /\ idle' = idle
            \/ pc'[c] = "using" /\ ~closed /\ \E m \in idle : idle' = idle \ {m}
BY DEF LoopBody, LoopBodyNoGrowth, PC

\* The woken are enough for what is idle.
Enough == At("waiting") # {} => Cardinality(idle) <= Cardinality(At("woken"))

\* A pass by a caller that is neither waiting nor woken leaves them enough.
LEMMA LoopBodyEnough ==
  ASSUME WInv, NEW c \in Callers, NEW n, NEW w, NEW p \in [Callers -> PC],
         pc[c] \notin {"waiting", "woken"}, p[c] = pc[c],
         p = pc \/ \A d \in Callers : p[d] # "waiting",
         Enough,
         LoopBody(c, p, n, w)
  PROVE  Enough'
<1>. USE DEF WInv
<1>1. CASE idle' = {}
  <2>1. IsFiniteSet(At("woken")')
    BY PoolAssumption, FS_Subset DEF At
  <2>. QED  BY <1>1, <2>1, FS_EmptySet, FS_CardinalityType DEF Enough
<1>2. CASE idle' # {} /\ p = pc
  <2>1. PICK m \in idle : pc'[c] = "using" /\ idle' = idle \ {m}
    BY <1>2, LoopBodyLeaves DEF ClosedIsEmpty
  <2>2. At("waiting")' = At("waiting") /\ At("woken")' = At("woken")
    BY <1>2, <2>1, LoopBodyLeaves DEF At
  <2>3. Cardinality(idle') = Cardinality(idle) - 1
    BY <2>1, WokenFacts, FS_RemoveElement
  <2>. QED  BY <2>2, <2>3, WokenFacts DEF Enough
<1>3. CASE idle' # {} /\ \A d \in Callers : p[d] # "waiting"
  <2>1. pc'[c] = "using"
    BY <1>3, LoopBodyLeaves DEF ClosedIsEmpty
  <2>2. At("waiting")' = {}
    BY <1>3, <2>1, LoopBodyLeaves DEF At
  <2>. QED  BY <2>2 DEF Enough
<1>. QED  BY <1>1, <1>2, <1>3

\* A woken caller that goes round takes one member, if there is one, with it.
LEMMA ResumeEnough ==
  ASSUME WInv, Enough, NEW c \in Callers, Resume(c) PROVE Enough'
<1>. USE DEF WInv
<1>1. /\ pc \in [Callers -> PC] /\ pc[c] = "woken"
      /\ LoopBody(c, pc, live, watching \ {c})
  BY DEF Resume, IInv, TypeOK
<1>2. CASE idle' = {}
  <2>1. IsFiniteSet(At("woken")')
    BY PoolAssumption, FS_Subset DEF At
  <2>. QED  BY <1>2, <2>1, FS_EmptySet, FS_CardinalityType DEF Enough
<1>3. CASE idle' # {}
  <2>1. PICK m \in idle : pc'[c] = "using" /\ idle' = idle \ {m}
    BY <1>1, <1>3, LoopBodyLeaves DEF ClosedIsEmpty
  <2>2. /\ At("waiting")' = At("waiting")
        /\ c \in At("woken") /\ At("woken")' = At("woken") \ {c}
    BY <1>1, <2>1, LoopBodyLeaves DEF At
  <2>3. /\ Cardinality(idle') = Cardinality(idle) - 1
        /\ Cardinality(At("woken")') = Cardinality(At("woken")) - 1
    BY <2>1, <2>2, WokenFacts, FS_RemoveElement
  <2>. QED  BY <2>2, <2>3, WokenFacts DEF Enough
<1>. QED  BY <1>2, <1>3

\* put makes one member idle and wakes one waiter, if there is one.
LEMMA PutEnough ==
  ASSUME WInv, Enough, NEW c \in Callers, Put(c) PROVE Enough'
<1>. USE DEF WInv
<1>1. /\ pc \in [Callers -> PC] /\ pc[c] = "using"
      /\ idle' = idle \cup {held[c]} /\ held[c] \notin idle
  BY DEF Put, IInv, TypeOK, OnePlace
<1>2. CASE At("waiting") = {} /\ pc' = [pc EXCEPT ![c] = "out"]
  <2>1. At("waiting")' = {}
    BY <1>1, <1>2 DEF At
  <2>. QED  BY <2>1 DEF Enough
<1>3. ASSUME NEW d \in At("waiting"), pc' = [pc EXCEPT ![c] = "out", ![d] = "woken"]
      PROVE  Enough'
  <2>1. /\ At("woken")' = At("woken") \cup {d} /\ d \notin At("woken")
        /\ At("waiting") # {}
    BY <1>1, <1>3 DEF At
  <2>2. /\ Cardinality(idle') = Cardinality(idle) + 1
        /\ Cardinality(At("woken")') = Cardinality(At("woken")) + 1
    BY <1>1, <2>1, WokenFacts, FS_AddElement
  <2>. QED  BY <2>1, <2>2, WokenFacts DEF Enough
<1>. QED  BY <1>2, <1>3 DEF Put

\* The wakeups: what each step does to those who wait and those who are woken.
LEMMA EnoughKept ==
  ASSUME WInv, Enough, Untroubled, Untroubled', [Next]_vars PROVE Enough'
<1>. USE DEF WInv
<1>1. ASSUME NEW c \in Callers, Get(c) PROVE Enough'
  BY <1>1, LoopBodyEnough DEF Get, IInv, TypeOK
<1>2. ASSUME NEW c \in Callers, Retry(c) PROVE Enough'
  <2>. DEFINE p == Awake(pc)
  <2>1. /\ p \in [Callers -> PC] /\ p[c] = pc[c] /\ pc[c] = "failed"
        /\ \A d \in Callers : p[d] # "waiting"
    BY <1>2 DEF Retry, IInv, TypeOK, Awake, PC
  <2>2. CASE LoopBody(c, p, live - 1, watching)
    <3>. HIDE DEF p
    <3>. QED  BY <2>1, <2>2, LoopBodyEnough
  <2>3. CASE pc' = [p EXCEPT ![c] = "out"]
    <3>1. At("waiting")' = {}
      <4>. HIDE DEF p
      <4>. QED  BY <2>1, <2>3 DEF At
    <3>. QED  BY <3>1 DEF Enough
  <2>. QED  BY <1>2, <2>2, <2>3 DEF Retry
<1>3. ASSUME NEW c \in Callers, GiveUp(c) PROVE FALSE
  BY <1>3 DEF GiveUp, CtxOver, Untroubled, Started
<1>4. ASSUME NEW c \in Callers, CtxEnds(c) PROVE FALSE
  BY <1>4 DEF CtxEnds, Untroubled, Started, IInv, TypeOK
<1>5. ASSUME NEW c \in Callers, WatcherBroadcasts(c) PROVE Enough'
  <2>1. At("waiting")' = {}
    BY <1>5 DEF WatcherBroadcasts, Awake, At
  <2>. QED  BY <2>1 DEF Enough
<1>6. CASE Close
  <2>1. At("waiting")' = {}
    BY <1>6 DEF Close, Awake, At
  <2>. QED  BY <2>1 DEF Enough
<1>7. ASSUME NEW c \in Callers, Grow(c) \/ GrowFails(c) \/ PutClosed(c) PROVE Enough'
  <2>1. idle' = idle /\ At("waiting")' = At("waiting") /\ At("woken")' = At("woken")
    BY <1>7 DEF Grow, GrowFails, PutClosed, At, IInv, TypeOK
  <2>. QED  BY <2>1 DEF Enough
<1>8. ASSUME NEW c \in Callers, WatcherFires(c) \/ LateWatcher(c) PROVE Enough'
  BY <1>8 DEF WatcherFires, LateWatcher, Enough, At
<1>9. ASSUME NEW m \in Members, CloseMember(m) PROVE Enough'
  BY <1>9 DEF CloseMember, Enough, At
<1>10. CASE UNCHANGED vars
  BY <1>10 DEF vars, Enough, At
<1>. QED
  BY <1>1, <1>2, <1>3, <1>4, <1>5, <1>6, <1>7, <1>8, <1>9, <1>10, ResumeEnough,
     PutEnough
  DEF Next, Step, Watcher, Rest

\* A closed pool stays empty, and callers that are in the pool have started.
LEMMA StartedKept ==
  ASSUME WInv, [Next]_vars PROVE ClosedIsEmpty' /\ Started'
<1>. USE DEF WInv, ClosedIsEmpty, Started
<1>1. /\ pc \in [Callers -> PC] /\ Awake(pc) \in [Callers -> PC]
      /\ calls \in [Callers -> Nat]
      /\ \A d \in Callers : Awake(pc)[d] = "out" <=> pc[d] = "out"
  BY AwakeFacts DEF IInv, TypeOK
<1>2. ASSUME NEW c \in Callers, Get(c) PROVE ClosedIsEmpty' /\ Started'
  BY <1>1, <1>2, LoopBodyLeaves DEF Get
<1>3. ASSUME NEW c \in Callers, Resume(c) PROVE ClosedIsEmpty' /\ Started'
  BY <1>1, <1>3, LoopBodyLeaves DEF Resume
<1>4. ASSUME NEW c \in Callers, Retry(c) PROVE ClosedIsEmpty' /\ Started'
  BY <1>1, <1>4, LoopBodyLeaves DEF Retry
<1>5. ASSUME NEW c \in Callers, Put(c) PROVE ClosedIsEmpty' /\ Started'
  BY <1>1, <1>5 DEF Put, At
<1>6. ASSUME NEW c \in Callers,
             \/ GiveUp(c) \/ Grow(c) \/ GrowFails(c) \/ PutClosed(c)
             \/ CtxEnds(c) \/ Watcher(c)
      PROVE  ClosedIsEmpty' /\ Started'
  BY <1>1, <1>6 DEF GiveUp, Grow, GrowFails, PutClosed, CtxEnds, Watcher,
     WatcherFires, WatcherBroadcasts, LateWatcher
<1>7. CASE Close
  BY <1>1, <1>7 DEF Close
<1>8. ASSUME NEW m \in Members, CloseMember(m) PROVE ClosedIsEmpty' /\ Started'
  BY <1>8 DEF CloseMember
<1>9. CASE UNCHANGED vars
  BY <1>9 DEF vars
<1>. QED
  BY <1>2, <1>3, <1>4, <1>5, <1>6, <1>7, <1>8, <1>9 DEF Next, Step, Rest

(***************************************************************************)
(* put's single Signal is enough: as long as no context has ended, every   *)
(* idle member that somebody could wait for has a woken caller coming.     *)
(***************************************************************************)
THEOREM WakeupsKept == Spec => []NoLostWakeup
<1>1. Init => WInv
  <2>. SUFFICES ASSUME Init PROVE WInv
    OBVIOUS
  <2>1. At("waiting") = {}
    BY DEF Init, At
  <2>. QED
    BY <2>1, InitIInv DEF Init, WInv, ClosedIsEmpty, Started, NoLostWakeup
<1>2. ASSUME WInv, [Next]_vars PROVE WInv'
  <2>1. ended' = ended \/ \E c \in Callers : CtxEnds(c)
    BY <1>2 DEF Next, Step, Watcher, Rest, vars, Get, Resume, GiveUp, Grow,
       GrowFails, Retry, Put, PutClosed, WatcherFires, WatcherBroadcasts,
       LateWatcher, Close, CloseMember
  <2>2. ASSUME NEW c \in Callers, CtxEnds(c) PROVE ~Untroubled'
    BY <1>2, <2>2 DEF CtxEnds, Untroubled, WInv, Started, IInv, TypeOK
  <2>3. Untroubled' => Untroubled
    BY <2>1, <2>2 DEF Untroubled
  <2>4. NoLostWakeup'
    BY <1>2, <2>3, EnoughKept DEF WInv, NoLostWakeup, Enough
  <2>. QED  BY <1>2, <2>4, NextKeeps, StartedKept DEF WInv
<1>3. WInv => NoLostWakeup
  BY DEF WInv
<1>. QED  BY <1>1, <1>2, <1>3, PTL DEF Spec

-----------------------------------------------------------------------------
(***************************************************************************)
(* The pool implements SharedMembers: what Close holds is still free until *)
(* it is ended, and everything about slots, waiting and contexts is a      *)
(* stutter.                                                                *)
(***************************************************************************)

\* Steps that change nothing a user of the pool sees.
LEMMA StutterRefines ==
  ASSUME UNCHANGED <<held, idle, closed, member, closing>>
  PROVE  UNCHANGED Abstract!vars
BY DEF Abstract!vars

\* The instance counts as FiniteSets does.
LEMMA SameCardinality == \A S : Abstract!Cardinality(S) = Cardinality(S)
BY DEF Cardinality, Abstract!Cardinality

\* A pass of get's loop is a Take of the abstract pool, or changes nothing in it.
LEMMA LoopBodyRefines ==
  ASSUME IInv,
         NEW c \in Callers, held[c] = NoMember,
         NEW p \in [Callers -> PC], NEW n \in Nat, NEW w,
         LoopBody(c, p, n, w),
         UNCHANGED <<closed, member, closing>>
  PROVE  Abstract!Take(c) \/ UNCHANGED Abstract!vars
<1>1. CASE UNCHANGED <<idle, held>>
  BY <1>1, StutterRefines
<1>2. CASE \E m \in idle : /\ ~closed
                           /\ idle' = idle \ {m}
                           /\ held' = [held EXCEPT ![c] = m]
  <2>1. PICK m \in idle : /\ ~closed
                          /\ idle' = idle \ {m}
                          /\ held' = [held EXCEPT ![c] = m]
    BY <1>2
  <2>2. m \notin closing
    BY DEF IInv, OnePlace
  <2>3. (idle \cup closing)' = (idle \cup closing) \ {m}
    BY <2>1, <2>2
  <2>. QED  BY <2>1, <2>3 DEF Abstract!Take
<1>. QED
  BY <1>1, <1>2, LoopBodyFacts DEF IInv

\* There is room for the member a grow brings: its slot was reserved.
LEMMA GrowRefines == ASSUME IInv, NEW c \in Callers, Grow(c) PROVE Abstract!Make(c)
<1>. USE DEF IInv
<1>1. PICK m \in Members : /\ member[m] = "unopened"
                           /\ member' = [member EXCEPT ![m] = "open"]
                           /\ held' = [held EXCEPT ![c] = m]
  BY DEF Grow
<1>2. pc[c] = "growing" /\ UNCHANGED <<idle, closed, closing>>
  BY DEF Grow
<1>3. held[c] = NoMember
  BY <1>2 DEF HeldInUse
<1>4. Abstract!Cardinality((idle \cup closing) \cup Abstract!InUse) < Max
  <2>1. (idle \cup closing) \cup Abstract!InUse = Open
    BY DEF OnePlace, Abstract!InUse
  <2>2. Cardinality(Reserving) \in Nat \ {0}
    BY <1>2, ReservingFacts, FS_EmptySet DEF Reserving, At
  <2>3. Cardinality(Open) < Max
    BY <2>2, OpenFacts, MaxFacts DEF TypeOK, WithinLimit
  <2>. QED  BY <2>1, <2>3, SameCardinality
<1>5. {x \in Members : member'[x] = "unopened"}
        = {x \in Members : member[x] = "unopened"} \ {m}
  BY <1>1 DEF TypeOK
<1>. QED  BY <1>1, <1>2, <1>3, <1>4, <1>5 DEF Abstract!Make

\* A failed grow is a Reject of the abstract pool, or changes nothing in it.
LEMMA GrowFailsRefines ==
  ASSUME IInv, NEW c \in Callers, GrowFails(c)
  PROVE  Abstract!Reject \/ UNCHANGED Abstract!vars
<1>1. UNCHANGED <<held, idle, closed, closing>>
  BY DEF GrowFails
<1>2. CASE UNCHANGED member
  BY <1>1, <1>2, StutterRefines
<1>3. CASE \E m \in Members : /\ member[m] = "unopened"
                              /\ member' = [member EXCEPT ![m] = "shut"]
  <2>1. PICK m \in Members : /\ member[m] = "unopened"
                             /\ member' = [member EXCEPT ![m] = "shut"]
    BY <1>3
  <2>2. {x \in Members : member'[x] = "unopened"}
          = {x \in Members : member[x] = "unopened"} \ {m}
    BY <2>1 DEF IInv, TypeOK
  <2>. QED  BY <1>1, <2>1, <2>2 DEF Abstract!Reject
<1>. QED  BY <1>2, <1>3 DEF GrowFails

\* put gives the member back, or out of service when the pool is closed.
LEMMA PutRefines ==
  ASSUME IInv, NEW c \in Callers, Put(c) \/ PutClosed(c)
  PROVE  Abstract!GiveBack(c)
<1>1. held[c] \in Members /\ held[c] # NoMember
  BY DEF IInv, TypeOK, HeldInUse, Put, PutClosed
<1>2. CASE Put(c)
  <2>1. (idle \cup closing)' = (idle \cup closing) \cup {held[c]}
    BY <1>2 DEF Put
  <2>. QED  BY <1>1, <1>2, <2>1 DEF Put, Abstract!GiveBack
<1>3. CASE PutClosed(c)
  <2>1. {x \in Members : member'[x] = "unopened"}
          = {x \in Members : member[x] = "unopened"}
    <3>1. member[held[c]] = "open"
      BY <1>1 DEF IInv, OnePlace, Open
    <3>. QED  BY <1>3, <3>1 DEF IInv, TypeOK, PutClosed
  <2>. QED  BY <1>1, <1>3, <2>1 DEF PutClosed, Abstract!GiveBack
<1>. QED  BY <1>2, <1>3

\* Close, under the lock, is the abstract pool's Shut.
LEMMA CloseRefines == ASSUME IInv, Close PROVE Abstract!Shut
<1>1. closing = {}
  BY DEF IInv, ClosingIsClosed, Close
<1>. QED  BY <1>1 DEF Close, Abstract!Shut

\* Ending one of the members Close took is a Discard.
LEMMA CloseMemberRefines ==
  ASSUME IInv, NEW m \in Members, CloseMember(m) PROVE Abstract!Discard
<1>1. closed /\ m \notin idle /\ member[m] = "open"
  BY DEF IInv, ClosingIsClosed, OnePlace, CloseMember, Open
<1>2. (idle \cup closing)' = (idle \cup closing) \ {m}
  BY <1>1 DEF CloseMember
<1>3. {x \in Members : member'[x] = "unopened"}
        = {x \in Members : member[x] = "unopened"}
  BY <1>1 DEF IInv, TypeOK, CloseMember
<1>. QED  BY <1>1, <1>2, <1>3 DEF CloseMember, Abstract!Discard

\* Every step of the pool is a step of SharedMembers or a stutter.
LEMMA StepRefines ==
  ASSUME IInv, [Next]_vars PROVE [Abstract!Next]_(Abstract!vars)
<1>. USE DEF Abstract!Next
<1>1. ASSUME NEW c \in Callers, Get(c) \/ Resume(c) \/ Retry(c)
      PROVE  Abstract!Take(c) \/ UNCHANGED Abstract!vars
  <2>1. pc \in [Callers -> PC] /\ live \in Nat /\ held[c] = NoMember
    BY <1>1 DEF IInv, TypeOK, HeldInUse, Get, Resume, Retry
  <2>2. CASE Get(c)
    BY <2>1, <2>2, LoopBodyRefines DEF Get
  <2>3. CASE Resume(c)
    BY <2>1, <2>3, LoopBodyRefines DEF Resume
  <2>4. CASE Retry(c) /\ live - 1 = 0
    BY <2>4, StutterRefines DEF Retry
  <2>5. CASE Retry(c) /\ live - 1 # 0
    <3>1. live # 0
      BY ReservingFacts DEF IInv, GrowFailureStaysInside
    <3>2. live - 1 \in Nat /\ Awake(pc) \in [Callers -> PC]
      BY <2>1, <3>1, AwakeFacts
    <3>. QED  BY <2>1, <2>5, <3>2, LoopBodyRefines DEF Retry
  <2>. QED  BY <1>1, <2>2, <2>3, <2>4, <2>5
<1>2. ASSUME NEW c \in Callers, GiveUp(c) \/ CtxEnds(c) \/ Watcher(c)
      PROVE  UNCHANGED Abstract!vars
  BY <1>2, StutterRefines
  DEF GiveUp, CtxEnds, Watcher, WatcherFires, WatcherBroadcasts, LateWatcher
<1>3. CASE UNCHANGED vars
  BY <1>3, StutterRefines DEF vars
<1>. QED
  BY <1>1, <1>2, <1>3, GrowRefines, GrowFailsRefines, PutRefines, CloseRefines,
     CloseMemberRefines
  DEF Next, Step, Rest

(***************************************************************************)
(* The pool implements the abstract one: callers see members shared one at *)
(* a time and bounded in number, whatever waits, grows or fails inside.    *)
(***************************************************************************)
THEOREM PoolRefines == Spec => RefinesSharedMembers
<1>1. Init => Abstract!Init
  <2>1. ASSUME Init
        PROVE  {m \in Members : member[m] = "unopened"} = Members \ {First}
    BY <2>1 DEF Init
  <2>. QED  BY <2>1 DEF Init, Abstract!Init
<1>2. IInv /\ [Next]_vars => [Abstract!Next]_(Abstract!vars)
  BY StepRefines
<1>. QED
  BY <1>1, <1>2, Inductive, PTL DEF Spec, RefinesSharedMembers, Abstract!Spec
=============================================================================
