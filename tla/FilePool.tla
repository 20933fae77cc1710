------------------------------ MODULE FilePool ------------------------------
(***************************************************************************)
(* The pool that spreads concurrent file operations over several           *)
(* strategies, internal/fileops/pool.go.                                   *)
(*                                                                         *)
(* A caller is one goroutine running one file operation: it checks a       *)
(* member out with get, runs the operation on it and gives it back with    *)
(* put.  One action is one critical section of p.mu, or one step taken     *)
(* outside it (opening a member, ending one, cancelling a context).  The   *)
(* condition variable p.free is the set of callers whose pc is "waiting":  *)
(* Signal moves one of them to "woken", Broadcast all of them.             *)
(*                                                                         *)
(* idle is a set: which idle member a caller is given (the code takes the  *)
(* last one returned) is not told apart by any property.                   *)
(***************************************************************************)
EXTENDS Integers, FiniteSets

CONSTANTS
    Callers,      \* the goroutines that run file operations
    Cancellable,  \* the callers whose context may end before they are served
    Members,      \* identities of strategies; bounds how many are ever opened
    First,        \* the member NewPool is given
    NoMember,     \* the caller holds no member
    Limit,        \* NewPool's limit
    MaxCalls      \* bound: operations each caller runs

ASSUME PoolAssumption ==
    /\ IsFiniteSet(Callers) /\ Cancellable \subseteq Callers
    /\ IsFiniteSet(Members) /\ First \in Members /\ NoMember \notin Members
    /\ Limit \in Nat /\ MaxCalls \in Nat

\* NewPool takes a limit below one as one.
Max == IF Limit < 1 THEN 1 ELSE Limit

VARIABLES
    pc,       \* where each caller is
    held,     \* the member each caller has checked out
    ended,    \* the last operation of each caller whose context ended
    idle,     \* p.idle
    live,     \* p.live
    closed,   \* p.closed
    member,   \* what has become of each strategy on the target
    closing,  \* members Close has taken and not ended yet
    calls,    \* operations each caller has started
    watching, \* callers whose current wait still has its watcher
    firing,   \* callers a watcher of whom saw the context end: it broadcasts next
    late      \* callers a watcher of whom outlived its wait and has not run yet

vars == <<pc, held, ended, idle, live, closed, member, closing, calls,
          watching, firing, late>>

PC == {"out", "waiting", "woken", "growing", "failed", "using"}

At(where) == {c \in Callers : pc[c] = where}

\* The context of c's current operation has ended: ctx.Err() # nil.
CtxOver(c) == ended[c] = calls[c]

\* No context has ended so far.
Untroubled == \A c \in Callers : ended[c] = 0

\* NewPool: one idle member, counted.
Init ==
    /\ pc = [c \in Callers |-> "out"]
    /\ held = [c \in Callers |-> NoMember]
    /\ ended = [c \in Callers |-> 0]
    /\ idle = {First}
    /\ live = 1
    /\ closed = FALSE
    /\ member = [m \in Members |-> IF m = First THEN "open" ELSE "unopened"]
    /\ closing = {}
    /\ calls = [c \in Callers |-> 0]
    /\ watching = {} /\ firing = {} /\ late = {}
-----------------------------------------------------------------------------
\* free.Broadcast(), on the program counters p.
Awake(p) == [c \in Callers |-> IF p[c] = "waiting" THEN "woken" ELSE p[c]]

\* get, the three ways out of its loop that do not grow the pool.
LoopBodyNoGrowth(c, p, n, w) ==
    \/ /\ closed
       /\ pc' = [p EXCEPT ![c] = "out"]
       /\ live' = n /\ watching' = w
       /\ UNCHANGED <<idle, held>>
    \/ /\ ~closed
       /\ \E m \in idle : /\ idle' = idle \ {m}
                          /\ held' = [held EXCEPT ![c] = m]
       /\ pc' = [p EXCEPT ![c] = "using"]
       /\ live' = n /\ watching' = w
    \/ /\ ~closed /\ idle = {} /\ n >= Max
       /\ pc' = [p EXCEPT ![c] = "waiting"]
       /\ live' = n /\ watching' = w \cup {c}
       /\ UNCHANGED <<idle, held>>

\* Mutant of LoopBody: the slot is not reserved before p.mu is given up.
LoopBodyUnreserved(c, p, n, w) ==
    \/ LoopBodyNoGrowth(c, p, n, w)
    \/ /\ ~closed /\ idle = {} /\ n < Max
       /\ pc' = [p EXCEPT ![c] = "growing"]
       /\ live' = n /\ watching' = w
       /\ UNCHANGED <<idle, held>>

\* Mutant of LoopBody: the limit is off by one.
LoopBodyOneTooMany(c, p, n, w) ==
    \/ LoopBodyNoGrowth(c, p, n, w)
    \/ /\ ~closed /\ idle = {} /\ n <= Max
       /\ pc' = [p EXCEPT ![c] = "growing"]
       /\ live' = n + 1 /\ watching' = w
       /\ UNCHANGED <<idle, held>>

(***************************************************************************)
(* One pass of get's loop with p.mu held, from the program counters p,     *)
(* with n members counted live and the watchers w: fail on a closed pool,  *)
(* take an idle member, reserve a slot and go and grow, or start to wait.  *)
(***************************************************************************)
LoopBody(c, p, n, w) ==
    \/ LoopBodyNoGrowth(c, p, n, w)
    \/ /\ ~closed /\ idle = {} /\ n < Max
       /\ pc' = [p EXCEPT ![c] = "growing"]
       /\ live' = n + 1 /\ watching' = w
       /\ UNCHANGED <<idle, held>>

\* An operation starts, with a context of its own: get's first pass.
Get(c) ==
    /\ pc[c] = "out" /\ calls[c] < MaxCalls
    /\ calls' = [calls EXCEPT ![c] = @ + 1]
    /\ LoopBody(c, pc, live, watching)
    /\ UNCHANGED <<ended, closed, member, closing, firing, late>>

\* waitForFree closes done.  A watcher still in its select is left behind.
LeaveWait(c) == late' = late \cup (watching \cap {c})

\* A woken caller whose context goes on: round the loop again.
Resume(c) ==
    /\ pc[c] = "woken" /\ ~CtxOver(c)
    /\ LeaveWait(c)
    /\ LoopBody(c, pc, live, watching \ {c})
    /\ UNCHANGED <<ended, closed, member, closing, calls, firing>>

\* A woken caller whose context has ended: get returns, and wakes nobody.
GiveUp(c) ==
    /\ pc[c] = "woken" /\ CtxOver(c)
    /\ LeaveWait(c)
    /\ watching' = watching \ {c}
    /\ pc' = [pc EXCEPT ![c] = "out"]
    /\ UNCHANGED <<held, ended, idle, live, closed, member, closing, calls,
                   firing>>

\* open answers with a member of the pool's tier: grow returns it checked out.
Grow(c) ==
    /\ pc[c] = "growing"
    /\ \E m \in Members :
          /\ member[m] = "unopened"
          /\ member' = [member EXCEPT ![m] = "open"]
          /\ held' = [held EXCEPT ![c] = m]
    /\ pc' = [pc EXCEPT ![c] = "using"]
    /\ UNCHANGED <<ended, idle, live, closed, closing, calls, watching,
                   firing, late>>

\* open fails, or answers with a member of another tier, which grow ends.
GrowFails(c) ==
    /\ pc[c] = "growing"
    /\ \/ UNCHANGED member
       \/ \E m \in Members : /\ member[m] = "unopened"
                             /\ member' = [member EXCEPT ![m] = "shut"]
    /\ pc' = [pc EXCEPT ![c] = "failed"]
    /\ UNCHANGED <<held, ended, idle, live, closed, closing, calls, watching,
                   firing, late>>

\* Mutant of Retry: the slot of a failed grow is given up twice.
RetryTwice(c) ==
    /\ pc[c] = "failed"
    /\ IF live - 2 = 0
         THEN /\ pc' = [Awake(pc) EXCEPT ![c] = "out"]
              /\ live' = 0
              /\ UNCHANGED <<held, idle, watching>>
         ELSE LoopBody(c, Awake(pc), live - 2, watching)
    /\ UNCHANGED <<ended, closed, member, closing, calls, firing, late>>

(***************************************************************************)
(* get has p.mu again after a failed grow: it gives the slot up, wakes     *)
(* everybody and, unless no member at all is left, goes round its loop.    *)
(***************************************************************************)
Retry(c) ==
    /\ pc[c] = "failed"
    /\ IF live - 1 = 0
         THEN /\ pc' = [Awake(pc) EXCEPT ![c] = "out"]
              /\ live' = 0
              /\ UNCHANGED <<held, idle, watching>>
         ELSE LoopBody(c, Awake(pc), live - 1, watching)
    /\ UNCHANGED <<ended, closed, member, closing, calls, firing, late>>

\* Mutant of Put: no waiter is signalled.
PutSilently(c) ==
    /\ pc[c] = "using" /\ ~closed
    /\ idle' = idle \cup {held[c]}
    /\ held' = [held EXCEPT ![c] = NoMember]
    /\ pc' = [pc EXCEPT ![c] = "out"]
    /\ UNCHANGED <<ended, live, closed, member, closing, calls, watching,
                   firing, late>>

\* The operation is over: put gives the member back and signals one waiter.
Put(c) ==
    /\ pc[c] = "using" /\ ~closed
    /\ idle' = idle \cup {held[c]}
    /\ held' = [held EXCEPT ![c] = NoMember]
    /\ \/ /\ At("waiting") = {}
          /\ pc' = [pc EXCEPT ![c] = "out"]
       \/ \E w \in At("waiting") :
             pc' = [pc EXCEPT ![c] = "out", ![w] = "woken"]
    /\ UNCHANGED <<ended, live, closed, member, closing, calls, watching,
                   firing, late>>

\* put on a closed pool ends the member instead.
PutClosed(c) ==
    /\ pc[c] = "using" /\ closed
    /\ member' = [member EXCEPT ![held[c]] = "shut"]
    /\ held' = [held EXCEPT ![c] = NoMember]
    /\ pc' = [pc EXCEPT ![c] = "out"]
    /\ UNCHANGED <<ended, idle, live, closed, closing, calls, watching,
                   firing, late>>
-----------------------------------------------------------------------------
(***************************************************************************)
(* A caller's context ends (cancelled, or its deadline passes).  Once it   *)
(* has a member that matters to the member alone.                          *)
(***************************************************************************)
CtxEnds(c) ==
    /\ c \in Cancellable /\ pc[c] \notin {"out", "using"} /\ ~CtxOver(c)
    /\ ended' = [ended EXCEPT ![c] = calls[c]]
    /\ UNCHANGED <<pc, held, idle, live, closed, member, closing, calls,
                   watching, firing, late>>

\* The watcher of a wait takes ctx.Done and queues for p.mu.
WatcherFires(c) ==
    /\ c \in watching /\ CtxOver(c)
    /\ watching' = watching \ {c}
    /\ firing' = firing \cup {c}
    /\ UNCHANGED <<pc, held, ended, idle, live, closed, member, closing, calls,
                   late>>

\* It has p.mu, and wakes everybody.
WatcherBroadcasts(c) ==
    /\ c \in firing
    /\ firing' = firing \ {c}
    /\ pc' = Awake(pc)
    /\ UNCHANGED <<held, ended, idle, live, closed, member, closing, calls,
                   watching, late>>

(***************************************************************************)
(* A watcher runs its select only after its wait is over.  done is ready;  *)
(* ctx.Done may be ready too, and select then takes either.                *)
(***************************************************************************)
LateWatcher(c) ==
    /\ c \in late
    /\ late' = late \ {c}
    /\ \/ UNCHANGED firing
       \/ firing' = firing \cup {c} /\ ended[c] # 0
    /\ UNCHANGED <<pc, held, ended, idle, live, closed, member, closing, calls,
                   watching>>

\* Mutant of Close: p.idle keeps the members Close is about to end.
CloseKeepingIdle ==
    /\ ~closed
    /\ closed' = TRUE
    /\ closing' = idle
    /\ pc' = Awake(pc)
    /\ UNCHANGED <<held, ended, idle, live, member, calls, watching, firing,
                   late>>

\* Mutant of Close: the waiters are not woken.
CloseSilently ==
    /\ ~closed
    /\ closed' = TRUE
    /\ closing' = idle
    /\ idle' = {}
    /\ UNCHANGED <<pc, held, ended, live, member, calls, watching, firing,
                   late>>

\* Close, under p.mu: no more members are given out, and everybody is woken.
Close ==
    /\ ~closed
    /\ closed' = TRUE
    /\ closing' = idle
    /\ idle' = {}
    /\ pc' = Awake(pc)
    /\ UNCHANGED <<held, ended, live, member, calls, watching, firing, late>>

\* Close, after p.mu: the members that were idle are ended one by one.
CloseMember(m) ==
    /\ m \in closing
    /\ closing' = closing \ {m}
    /\ member' = [member EXCEPT ![m] = "shut"]
    /\ UNCHANGED <<pc, held, ended, idle, live, closed, calls, watching,
                   firing, late>>

\* Every operation is over and no more will come: the pool may rest.
Rest ==
    /\ \A c \in Callers : pc[c] = "out" /\ calls[c] = MaxCalls
    /\ closed /\ closing = {} /\ firing = {} /\ late = {}
    /\ UNCHANGED vars

Step(c) == \/ Resume(c) \/ GiveUp(c)
           \/ Grow(c) \/ GrowFails(c) \/ Retry(c)
           \/ Put(c) \/ PutClosed(c)

Watcher(c) == WatcherFires(c) \/ WatcherBroadcasts(c) \/ LateWatcher(c)

Next ==
    \/ \E c \in Callers : Get(c) \/ Step(c) \/ CtxEnds(c) \/ Watcher(c)
    \/ Close
    \/ \E m \in Members : CloseMember(m)
    \/ Rest

(***************************************************************************)
(* The Go scheduler runs every runnable goroutine, an operation ends (its  *)
(* context has a deadline), opening a member ends, and Close goes through  *)
(* its list.  Nobody has to call, to cancel or to close.                   *)
(***************************************************************************)
Fairness ==
    /\ \A c \in Callers : WF_vars(Step(c)) /\ WF_vars(Watcher(c))
    /\ \A m \in Members : WF_vars(CloseMember(m))

Spec == Init /\ [][Next]_vars
FairSpec == Spec /\ Fairness
-----------------------------------------------------------------------------
TypeOK ==
    /\ pc \in [Callers -> PC]
    /\ held \in [Callers -> Members \cup {NoMember}]
    /\ ended \in [Callers -> Nat]
    /\ idle \in SUBSET Members
    /\ live \in Nat
    /\ closed \in BOOLEAN
    /\ member \in [Members -> {"unopened", "open", "shut"}]
    /\ closing \in SUBSET Members
    /\ calls \in [Callers -> Nat]
    /\ watching \in SUBSET Callers
    /\ firing \in SUBSET Callers
    /\ late \in SUBSET Callers

\* The members that run on the target.
Open == {m \in Members : member[m] = "open"}

\* The callers that hold a slot of the pool and no member yet.
Reserving == At("growing") \cup At("failed")

(***************************************************************************)
(* get and put: a member that runs on the target is in exactly one place,  *)
(* idle, checked out by one caller, or in the hands of Close, and one that *)
(* does not run is in none.  So no operation is given a member another one *)
(* is using or that Close has ended, and no handler is left running with   *)
(* nobody to end it.                                                       *)
(***************************************************************************)
OnePlace ==
    /\ idle \cap closing = {}
    /\ \A m \in idle \cup closing : \A c \in Callers : held[c] # m
    /\ \A c, d \in Callers : held[c] = held[d] /\ held[c] # NoMember => c = d
    /\ Open = idle \cup closing \cup ({held[c] : c \in Callers} \ {NoMember})

(***************************************************************************)
(* p.live "counts members that exist or are being created": it is exact    *)
(* until Close, never below the truth afterwards, and never above the      *)
(* limit, however many callers find the pool empty at once.                *)
(***************************************************************************)
WithinLimit ==
    /\ live <= Max
    /\ Cardinality(Open) + Cardinality(Reserving) <= live
    /\ ~closed => live = Cardinality(Open) + Cardinality(Reserving)

(***************************************************************************)
(* A failed grow never fails the operation while the pool has a member     *)
(* that works: some slot is always held by a member and not by a caller    *)
(* that is creating one, so get's "p.live == 0" return is never taken.     *)
(***************************************************************************)
GrowFailureStaysInside == Cardinality(Reserving) < live

(***************************************************************************)
(* put's single Signal is enough as long as no context has ended: while    *)
(* somebody waits, there is a woken caller for every idle member.          *)
(***************************************************************************)
NoLostWakeup ==
    Untroubled /\ At("waiting") # {} => Cardinality(idle) <= Cardinality(At("woken"))

(***************************************************************************)
(* "waitForFree blocks until a member is returned, the pool closes, or ctx *)
(* ends": no caller sits in Wait, its context alive and a member idle,     *)
(* when nobody else is left in the pool to wake it.                        *)
(***************************************************************************)
NoStrandedWaiter ==
    ~ /\ idle # {} /\ \E c \in At("waiting") : ~CtxOver(c)
      /\ \A c \in Callers : pc[c] \in {"out", "waiting"}
      /\ firing = {} /\ late = {} /\ \A c \in watching : ~CtxOver(c)

(***************************************************************************)
(* As long as no context ends, every call of get ends with a member or an  *)
(* error, and so does the operation: no waiter is forgotten.               *)
(***************************************************************************)
EveryCallReturns ==
    []Untroubled => \A c \in Callers : pc[c] # "out" ~> pc[c] = "out"

(***************************************************************************)
(* Close ends every member, the ones checked out and the ones still being  *)
(* opened included, and leaves nobody waiting, though contexts may end.    *)
(***************************************************************************)
ClosedPoolDrains == closed ~> [](Open = {} /\ At("waiting") = {})

(***************************************************************************)
(* Nobody waits for good: neither while the pool runs, for a signal that   *)
(* went elsewhere, nor once it is closed, for a member that will not come  *)
(* back.                                                                   *)
(***************************************************************************)
NobodyIsForgotten == EveryCallReturns /\ ClosedPoolDrains
-----------------------------------------------------------------------------
\* What the pool promises, without the lock, the slots and the waiting.
Abstract == INSTANCE SharedMembers
    WITH free <- idle \cup closing,
         user <- held,
         shut <- closed,
         fresh <- {m \in Members : member[m] = "unopened"}

\* The pool implements a bounded set of members shared one at a time.
RefinesSharedMembers == Abstract!Spec
=============================================================================
