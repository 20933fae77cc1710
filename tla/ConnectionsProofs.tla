-------------------------- MODULE ConnectionsProofs --------------------------
(***************************************************************************)
(* What Connections promises, for any number of transports and requests,   *)
(* of spare connections, and of channels that sshd takes on each.  The     *)
(* retry of Run and RunStream is safe because a request is sent again only *)
(* from states in which its shell was never started; IInv says so of every *)
(* state a request passes through.  A refusal is true for two reasons: the *)
(* moves of one request and those of its transport can be compared, as     *)
(* IInv does; and Earned counts what the transport was refused against the *)
(* moves it made and the refusals that wait to be moved on from.           *)
(*                                                                         *)
(* The second half is about CommandOutput: what the ends of such a request *)
(* make of the output that comes back over the connection.  CommandInv     *)
(* says what the buffer and the filter hold of what has arrived.           *)
(***************************************************************************)
EXTENDS Connections, CommandOutput, FiniteSetTheorems, SequenceTheorems,
        WellFoundedInduction, TLAPS

\* A request that has not started a shell, or is to be sent again, has none to
\* show; one that has started one is not sent again.
NotYetRun ==
    \A r \in Requests \ echoed :
        /\ shells[r] <= 1
        /\ pc[r] \in {"idle", "again", "asking", "refused"} => shells[r] = 0

\* Under way, a request has moved its transport at most as far as that is from
\* where the request began.  If nobody else moved it, every connection on the
\* way refused the request.
CountedFor(r) ==
    LET o == overflow[Of[r]]
        t == tries[r]
    IN  /\ pc[r] = "idle" => t.moves = 0 /\ Refusing(r) = {}
        /\ pc[r] \notin {"idle", "done"} => t.first + t.moves <= o
        /\ r \notin echoed /\ t.first + t.moves = o =>
              /\ pc[r] \in {"again", "asking"} => Refusing(r) = t.first..(o - 1)
              /\ pc[r] = "asking" => t.conn = o
              /\ pc[r] = "refused" => Refusing(r) = t.first..o

Counted == \A r \in Requests : CountedFor(r)

\* A refusal is reported when there is no connection left to move to.
Reported ==
    \A r \in Requests : result[r] = "refused" =>
        /\ overflow[Of[r]] = MaxOverflow
        /\ r \notin echoed /\ tries[r].first + tries[r].moves = MaxOverflow =>
              Refusing(r) = tries[r].first..MaxOverflow

\* A transport that is closing has nothing under way, was used on no connection
\* past the current one, and has ended those up to the one it is at.
Swept ==
    /\ \A p \in Transports : sweep[p] <= overflow[p]
    /\ \A p \in Probes :
        /\ opened[p] \subseteq 0..overflow[p]
        /\ 0..(sweep[p] - 1) \subseteq exited[p]
        /\ life[p] = "ended" => 0..overflow[p] \subseteq exited[p]
        /\ life[p] \in {"closing", "ended", "late"} =>
              \A r \in Requests : Of[r] = p => pc[r] = "done"

IInv == TypeOK /\ NotYetRun /\ Counted /\ Reported /\ Swept

-----------------------------------------------------------------------------
\* The channels of a connection are finitely many.
LEMMA ChannelsFinite ==
    \A n : IsFiniteSet(Channels(n)) /\ Cardinality(Channels(n)) \in Nat
BY ConnectionsAssumption, FS_Subset, FS_CardinalityType DEF Channels

\* A step that opens no channel, and ends those of a master it ends.
LEMMA ChannelsKept ==
  ASSUME ChannelsOK,
         \A r \in Requests : pc'[r] = "shell" =>
            /\ pc[r] = "shell" /\ tries'[r].conn = tries[r].conn
            /\ tries[r].conn \in master => tries[r].conn \in master'
  PROVE  ChannelsOK'
<1>1. ASSUME NEW n \in Conns
      PROVE  /\ Cardinality(Channels(n)') <= MaxSessions
             /\ Channels(n)' # {} => n \in master'
  <2>1. Channels(n)' \subseteq Channels(n)
    BY DEF Channels
  <2>2. Cardinality(Channels(n)') <= Cardinality(Channels(n)) /\ Cardinality(Channels(n)') \in Nat
    BY <2>1, ChannelsFinite, FS_Subset, FS_CardinalityType
  <2>3. Cardinality(Channels(n)) \in Nat /\ MaxSessions \in Nat
    BY ChannelsFinite, ConnectionsAssumption
  <2>4. Channels(n)' # {} => n \in master'
    BY <2>1 DEF Channels, ChannelsOK
  <2>. QED
    BY <2>2, <2>3, <2>4 DEF ChannelsOK
<1>. QED
  BY <1>1 DEF ChannelsOK

\* Every request runs on a transport that is not the one of a `reach down`.
LEMMA OfFacts == \A r \in Requests : Of[r] \in Transports /\ Of[r] \notin Downs
BY ConnectionsAssumption DEF Transports

\* What a request was refused changes with refused alone.
LEMMA RefusingSame == UNCHANGED refused => \A q \in Requests : Refusing(q)' = Refusing(q)
BY DEF Refusing

LEMMA InitHolds == Init => IInv
<1>. SUFFICES ASSUME Init PROVE IInv
  OBVIOUS
<1>1. \A n : Channels(n) = {}
  BY DEF Init, Channels
<1>2. TypeOK
  <2>1. 0 \in Conns /\ {0} \subseteq Conns
    BY ConnectionsAssumption DEF Conns
  <2>2. tries \in [Requests -> Tries]
    BY <2>1 DEF Init, Fresh, Tries
  <2>3. ChannelsOK
    BY <1>1, FS_EmptySet, ConnectionsAssumption DEF ChannelsOK
  <2>. QED
    BY <2>1, <2>2, <2>3 DEF Init, TypeOK
<1>3. NotYetRun /\ Reported
  BY DEF Init, NotYetRun, Reported
<1>4. Counted
  BY DEF Init, Counted, CountedFor, Fresh, Refusing
<1>5. Swept
  BY ConnectionsAssumption DEF Init, Swept, Transports
<1>. QED
  BY <1>2, <1>3, <1>4, <1>5 DEF IInv

-----------------------------------------------------------------------------
(***************************************************************************)
(* Requests: one lemma per action.                                         *)
(***************************************************************************)
LEMMA DialKeeps ==
  ASSUME IInv, NEW r \in Requests, Dial(r)
  PROVE  IInv'
<1>. DEFINE n == overflow[Of[r]]
<1>0. n \in Conns /\ n \in Nat /\ Conns = 0..MaxOverflow /\ MaxOverflow \in Nat
  BY OfFacts, ConnectionsAssumption DEF IInv, TypeOK, Conns
<1>1. /\ pc[r] \in {"idle", "again"} /\ pc' = [pc EXCEPT ![r] = "asking"]
      /\ pc[r] = "idle" => life[Of[r]] = "asking"
      /\ UNCHANGED <<ends, overflow, refused, result, shells, echoed>>
      /\ opened' = [p \in Probes |-> opened[p] \cup (IF p = Of[r] THEN {n} ELSE {})]
  BY DEF Dial, Goto
<1>2. /\ tries' \in [Requests -> Tries]
      /\ \A q \in Requests \ {r} : tries'[q] = tries[q]
      /\ tries'[r].conn = n
      /\ tries'[r].first = IF pc[r] = "idle" THEN n ELSE tries[r].first
      /\ tries'[r].moves = tries[r].moves /\ \A q \in Requests : Refusing(q)' = Refusing(q)
  <2>1. tries \in [Requests -> Tries] /\ tries[r] \in Tries
    BY DEF IInv, TypeOK
  <2>2. tries' = [tries EXCEPT ![r] =
                    [conn |-> n, first |-> IF pc[r] = "idle" THEN n ELSE tries[r].first,
                     moves |-> tries[r].moves]]
    BY <2>1 DEF Dial
  <2>3. \A q \in Requests : Refusing(q)' = Refusing(q)
    BY <1>1 DEF Refusing
  <2>. QED
    BY <1>0, <2>1, <2>2, <2>3 DEF Tries
<1>3. TypeOK'
  <2>1. ChannelsOK'
    BY <1>1, <1>2, ChannelsKept DEF IInv, TypeOK, ends
  <2>2. pc' \in [Requests -> {"idle", "again", "asking", "shell", "severed",
                               "refused", "done"}]
    BY <1>1 DEF IInv, TypeOK
  <2>3. \A q \in Requests : pc'[q] = "done" <=> result'[q] # "none"
    BY <1>1 DEF IInv, TypeOK
  <2>4. opened' \in [Probes -> SUBSET Conns]
    BY <1>0, <1>1 DEF IInv, TypeOK
  <2>5. /\ master' = master /\ life' = life /\ sweep' = sweep /\ exited' = exited
        /\ overflow' = overflow /\ result' = result
        /\ shells' = shells /\ echoed' = echoed /\ tries' \in [Requests -> Tries]
        /\ refused' = refused
    BY <1>1, <1>2 DEF ends
  <2>6. TypeOK
    BY DEF IInv
  <2>. HIDE DEF n
  <2>. QED
    BY <2>1, <2>2, <2>3, <2>4, <2>5, <2>6 DEF TypeOK
<1>4. NotYetRun'
  BY <1>1 DEF IInv, TypeOK, NotYetRun
<1>5. Counted'
  <2>. SUFFICES ASSUME NEW q \in Requests
                PROVE  CountedFor(q)'
    BY DEF Counted
  <2>1. CASE q # r
    BY <1>1, <1>2, <2>1 DEF IInv, TypeOK, Counted, CountedFor
  <2>2. CASE q = r
    <3>1. /\ tries[r].first \in Nat /\ tries[r].moves \in Nat
          /\ tries'[r].first \in Nat /\ tries'[r].moves \in Nat
      BY <1>0, <1>2 DEF IInv, TypeOK, Tries
    <3>2. /\ pc'[r] = "asking" /\ overflow'[Of[r]] = n /\ (r \in echoed' <=> r \in echoed)
          /\ CountedFor(r)
      BY <1>1 DEF IInv, TypeOK, Counted
    <3>3. CASE pc[r] = "idle"
      <4>. HIDE DEF n
      <4>1. n..(n - 1) = {}
        BY <1>0
      <4>2. /\ tries'[r].first = n /\ tries'[r].moves = 0 /\ tries'[r].conn = n
            /\ Refusing(r)' = n..(n - 1)
        BY <1>2, <3>2, <3>3, <4>1 DEF CountedFor
      <4>. QED
        BY <1>0, <2>2, <3>2, <4>2 DEF CountedFor
    <3>4. CASE pc[r] = "again"
      BY <1>0, <1>2, <2>2, <3>1, <3>2, <3>4 DEF CountedFor
    <3>. QED
      BY <1>1, <3>3, <3>4
  <2>. QED
    BY <2>1, <2>2
<1>6. Reported'
  BY <1>1, <1>2, OfFacts DEF IInv, TypeOK, Reported
<1>7. Swept'
  BY <1>0, <1>1 DEF IInv, TypeOK, Swept, ends
<1>. QED
  BY <1>3, <1>4, <1>5, <1>6, <1>7 DEF IInv

LEMMA ConnectKeeps ==
  ASSUME IInv, NEW r \in Requests, Connect(r)
  PROVE  IInv'
<1>1. /\ master' = master \cup {tries[r].conn} /\ tries[r].conn \in Conns
      /\ UNCHANGED <<overflow, life, sweep, pc, told, exited>>
  BY DEF Connect, IInv, TypeOK, Tries
<1>2. TypeOK'
  <2>1. ChannelsOK'
    BY <1>1, ChannelsKept DEF IInv, TypeOK, told
  <2>. QED
    BY <1>1, <2>1 DEF IInv, TypeOK, told
<1>3. NotYetRun' /\ Reported' /\ Swept'
  BY <1>1 DEF IInv, NotYetRun, Reported, Refusing, Swept, told
<1>4. Counted'
  BY <1>1 DEF IInv, Counted, CountedFor, Refusing, told
<1>. QED
  BY <1>2, <1>3, <1>4 DEF IInv

\* The only step that opens a channel, under sshd's limit.
LEMMA AdmitKeeps ==
  ASSUME IInv, NEW r \in Requests, Admit(r)
  PROVE  IInv'
<1>1. /\ pc[r] = "asking" /\ pc' = [pc EXCEPT ![r] = "shell"]
      /\ shells' = [shells EXCEPT ![r] = @ + 1]
      /\ tries[r].conn \in master /\ tries[r].conn \in Conns
      /\ Cardinality(Channels(tries[r].conn)) < MaxSessions
      /\ UNCHANGED <<ends, overflow, tries, refused, result, echoed, opened>>
  BY DEF Admit, Goto, IInv, TypeOK, Tries
<1>2. TypeOK'
  <2>1. ASSUME NEW n \in Conns
        PROVE  /\ Cardinality(Channels(n)') <= MaxSessions
               /\ Channels(n)' # {} => n \in master'
    <3>1. CASE n = tries[r].conn
      <4>1. Channels(n)' = Channels(n) \cup {r} /\ r \notin Channels(n)
        BY <1>1, <3>1 DEF IInv, TypeOK, Channels
      <4>2. Cardinality(Channels(n)') = Cardinality(Channels(n)) + 1
        BY <4>1, ChannelsFinite, FS_AddElement
      <4>. QED
        BY <1>1, <3>1, <4>2, ChannelsFinite, ConnectionsAssumption DEF ends
    <3>2. CASE n # tries[r].conn
      <4>1. Channels(n)' = Channels(n)
        BY <1>1, <3>2 DEF IInv, TypeOK, Channels
      <4>. QED
        BY <1>1, <4>1 DEF IInv, TypeOK, ChannelsOK, ends
    <3>. QED
      BY <3>1, <3>2
  <2>2. ChannelsOK'
    BY <2>1 DEF ChannelsOK
  <2>3. pc' \in [Requests -> {"idle", "again", "asking", "shell", "severed",
                               "refused", "done"}]
    BY <1>1 DEF IInv, TypeOK
  <2>4. shells' \in [Requests -> Nat]
    BY <1>1 DEF IInv, TypeOK
  <2>5. \A q \in Requests : pc'[q] = "done" <=> result'[q] # "none"
    BY <1>1 DEF IInv, TypeOK
  <2>. QED
    BY <1>1, <2>2, <2>3, <2>4, <2>5 DEF IInv, TypeOK, ends
<1>3. NotYetRun'
  BY <1>1 DEF IInv, TypeOK, NotYetRun
<1>4. Counted'
  BY <1>1, RefusingSame DEF IInv, TypeOK, Counted, CountedFor
<1>5. Reported'
  BY <1>1, RefusingSame DEF IInv, Reported
<1>6. Swept'
  BY <1>1 DEF IInv, TypeOK, Swept, ends
<1>. QED
  BY <1>2, <1>3, <1>4, <1>5, <1>6 DEF IInv

LEMMA RefuseKeeps ==
  ASSUME IInv, NEW r \in Requests, Refuse(r)
  PROVE  IInv'
<1>1. /\ pc[r] = "asking" /\ pc' = [pc EXCEPT ![r] = "refused"]
      /\ refused' = refused \cup {<<r, tries[r].conn>>}
      /\ UNCHANGED <<ends, overflow, tries, result, shells, echoed, opened>>
  BY DEF Refuse, Goto
<1>2. /\ tries[r] \in Tries /\ tries[r].conn \in Conns
      /\ \A q \in Requests \ {r} : Refusing(q)' = Refusing(q)
      /\ Refusing(r)' = Refusing(r) \cup {tries[r].conn}
  <2>1. tries[r] \in Tries /\ tries[r].conn \in Conns
    BY DEF IInv, TypeOK, Tries
  <2>2. ASSUME NEW q \in Requests, NEW n \in Conns
        PROVE  <<q, n>> \in refused' <=> <<q, n>> \in refused \/ (q = r /\ n = tries[r].conn)
    BY <1>1
  <2>3. \A q \in Requests \ {r} : Refusing(q)' = Refusing(q)
    BY <2>2 DEF Refusing
  <2>4. Refusing(r)' = Refusing(r) \cup {tries[r].conn}
    BY <2>1, <2>2 DEF Refusing
  <2>. QED
    BY <2>1, <2>3, <2>4
<1>3. TypeOK'
  <2>1. ChannelsOK'
    BY <1>1, <1>2, ChannelsKept DEF IInv, TypeOK, ends
  <2>2. pc' \in [Requests -> {"idle", "again", "asking", "shell", "severed",
                               "refused", "done"}]
    BY <1>1 DEF IInv, TypeOK
  <2>3. refused' \subseteq Requests \X Conns
    BY <1>1, <1>2 DEF IInv, TypeOK
  <2>4. \A q \in Requests : pc'[q] = "done" <=> result'[q] # "none"
    BY <1>1 DEF IInv, TypeOK
  <2>. QED
    BY <1>1, <2>1, <2>2, <2>3, <2>4 DEF IInv, TypeOK, ends
<1>4. NotYetRun'
  BY <1>1 DEF IInv, TypeOK, NotYetRun
<1>5. Counted'
  <2>. SUFFICES ASSUME NEW q \in Requests
                PROVE  CountedFor(q)'
    BY DEF Counted
  <2>1. CASE q # r
    BY <1>1, <1>2, <2>1 DEF IInv, TypeOK, Counted, CountedFor
  <2>2. CASE q = r
    <3>. DEFINE o == overflow[Of[r]]
    <3>1. /\ tries[r].first \in Nat /\ tries[r].moves \in Nat /\ o \in Nat
      BY <1>2, OfFacts DEF IInv, TypeOK, Tries, Conns
    <3>2. /\ pc'[r] = "refused" /\ overflow' = overflow /\ echoed' = echoed
          /\ CountedFor(r)
      BY <1>1 DEF IInv, TypeOK, Counted
    <3>3. /\ tries[r].first + tries[r].moves <= o
          /\ r \notin echoed /\ tries[r].first + tries[r].moves = o =>
                Refusing(r) = tries[r].first..(o - 1) /\ tries[r].conn = o
      BY <1>1, <3>2 DEF CountedFor
    <3>. HIDE DEF o
    <3>4. (tries[r].first..(o - 1)) \cup {o} = tries[r].first..o
      BY <3>1, <3>3
    <3>5. r \notin echoed /\ tries[r].first + tries[r].moves = o =>
             Refusing(r)' = tries[r].first..o
      BY <1>2, <3>3, <3>4
    <3>6. tries' = tries /\ overflow'[Of[r]] = o
      BY <1>1 DEF o
    <3>. QED
      BY <2>2, <3>2, <3>3, <3>5, <3>6 DEF CountedFor
  <2>. QED
    BY <2>1, <2>2
<1>6. Reported'
  BY <1>1, <1>2 DEF IInv, TypeOK, Reported
<1>7. Swept'
  BY <1>1 DEF IInv, TypeOK, Swept, ends
<1>. QED
  BY <1>3, <1>4, <1>5, <1>6, <1>7 DEF IInv

\* A request that is over, however it ended; its attempts may be forgotten.
LEMMA ReturnKeeps ==
  ASSUME IInv, NEW r \in Requests, pc[r] \notin {"idle", "done"},
         NEW how \in {"ok", "lost"}, Return(r, how),
         UNCHANGED <<ends, overflow, refused, shells, opened>>, echoed' = echoed
  PROVE  IInv'
<1>1. /\ pc' = [pc EXCEPT ![r] = "done"] /\ result' = [result EXCEPT ![r] = how]
      /\ tries' = [tries EXCEPT ![r] = Fresh]
  BY DEF Return, Goto
<1>2. TypeOK'
  <2>1. ChannelsOK'
    BY <1>1, ChannelsKept DEF IInv, TypeOK, ends
  <2>2. Fresh \in Tries
    BY ConnectionsAssumption DEF Fresh, Tries, Conns
  <2>3. pc' \in [Requests -> {"idle", "again", "asking", "shell", "severed",
                               "refused", "done"}]
    BY <1>1 DEF IInv, TypeOK
  <2>4. tries' \in [Requests -> Tries]
    BY <1>1, <2>2 DEF IInv, TypeOK
  <2>5. result' \in [Requests -> {"none", "ok", "lost", "refused"}]
    BY <1>1 DEF IInv, TypeOK
  <2>6. \A q \in Requests : pc'[q] = "done" <=> result'[q] # "none"
    BY <1>1 DEF IInv, TypeOK
  <2>. QED
    BY <2>1, <2>3, <2>4, <2>5, <2>6 DEF IInv, TypeOK, ends
<1>3. NotYetRun'
  BY <1>1 DEF IInv, TypeOK, NotYetRun
<1>4. Counted'
  <2>. SUFFICES ASSUME NEW q \in Requests
                PROVE  CountedFor(q)'
    BY DEF Counted
  <2>. QED
    BY <1>1, RefusingSame DEF IInv, TypeOK, Counted, CountedFor
<1>5. Reported'
  BY <1>1, RefusingSame DEF IInv, TypeOK, Reported
<1>6. Swept'
  BY <1>1 DEF IInv, TypeOK, Swept, ends
<1>. QED
  BY <1>2, <1>3, <1>4, <1>5, <1>6 DEF IInv

LEMMA FinishKeeps ==
  ASSUME IInv, NEW r \in Requests, Finish(r)
  PROVE  IInv'
BY ReturnKeeps DEF Finish

LEMMA GiveUpKeeps ==
  ASSUME IInv, NEW r \in Requests, GiveUp(r)
  PROVE  IInv'
BY ReturnKeeps DEF GiveUp

LEMMA CutKeeps ==
  ASSUME IInv, NEW r \in Requests, Cut(r)
  PROVE  IInv'
<1>0. pc[r] \in {"shell", "severed"} /\ UNCHANGED <<ends, overflow, refused, shells, opened>>
  BY DEF Cut
<1>1. CASE Return(r, "lost") /\ UNCHANGED echoed
  BY <1>0, <1>1, ReturnKeeps
<1>2. CASE /\ Goto(r, "refused") /\ echoed' = echoed \cup {r}
           /\ UNCHANGED <<result, tries>>
  <2>1. pc' = [pc EXCEPT ![r] = "refused"]
    BY <1>2 DEF Goto
  <2>2. TypeOK'
    <3>1. ChannelsOK'
      BY <1>0, <1>2, <2>1, ChannelsKept DEF IInv, TypeOK, ends
    <3>2. pc' \in [Requests -> {"idle", "again", "asking", "shell", "severed",
                                 "refused", "done"}]
      BY <2>1 DEF IInv, TypeOK
    <3>3. \A q \in Requests : pc'[q] = "done" <=> result'[q] # "none"
      BY <1>0, <1>2, <2>1 DEF IInv, TypeOK
    <3>. QED
      BY <1>0, <1>2, <3>1, <3>2, <3>3 DEF IInv, TypeOK, ends
  <2>3. NotYetRun'
    BY <1>0, <1>2, <2>1 DEF IInv, TypeOK, NotYetRun
  <2>4. Counted'
    BY <1>0, <1>2, <2>1, RefusingSame DEF IInv, TypeOK, Counted, CountedFor
  <2>5. Reported'
    BY RefusingSame, <1>0, <1>2, <2>1 DEF IInv, TypeOK, Reported
  <2>6. Swept'
    BY <1>0, <1>2, <2>1 DEF IInv, TypeOK, Swept, ends
  <2>. QED
    BY <2>2, <2>3, <2>4, <2>5, <2>6 DEF IInv
<1>. QED
  BY <1>1, <1>2 DEF Cut

\* The transport moves on for this request; to the others that run on it, it
\* was moved by somebody else.
LEMMA MoveOnKeeps ==
  ASSUME IInv, NEW r \in Requests, MoveOn(r)
  PROVE  IInv'
<1>. DEFINE o == overflow[Of[r]]
<1>0. /\ pc[r] = "refused" /\ UNCHANGED <<ends, refused, shells, echoed, opened>>
      /\ o \in Nat /\ o <= MaxOverflow /\ MaxOverflow \in Nat
      /\ tries[r] \in Tries /\ tries[r].first \in Nat /\ tries[r].moves \in Nat
      /\ tries[r].first + tries[r].moves <= o
  <2>1. /\ pc[r] = "refused" /\ UNCHANGED <<ends, refused, shells, echoed, opened>>
        /\ o \in Conns /\ tries[r] \in Tries
    BY OfFacts DEF MoveOn, IInv, TypeOK
  <2>2. CountedFor(r)
    BY DEF IInv, Counted
  <2>. QED
    BY <2>1, <2>2, ConnectionsAssumption DEF Conns, Tries, CountedFor
<1>1. CASE /\ CanMoveOn(Of[r])
           /\ overflow' = [overflow EXCEPT ![Of[r]] = @ + 1]
           /\ tries' = [tries EXCEPT ![r].moves = @ + 1]
           /\ Goto(r, "again") /\ UNCHANGED result
  <2>1. /\ o < MaxOverflow /\ pc' = [pc EXCEPT ![r] = "again"]
        /\ overflow' \in [Transports -> Conns]
        /\ overflow'[Of[r]] = o + 1
        /\ \A p \in Transports \ {Of[r]} : overflow'[p] = overflow[p]
    BY <1>0, <1>1, OfFacts DEF CanMoveOn, Goto, IInv, TypeOK, Conns
  <2>2. tries[r].moves + 1 \in Conns
    BY <1>0, <2>1 DEF Conns
  <2>3. /\ tries' \in [Requests -> Tries]
        /\ \A q \in Requests \ {r} : tries'[q] = tries[q]
        /\ tries'[r].conn = tries[r].conn /\ tries'[r].first = tries[r].first
        /\ tries'[r].moves = tries[r].moves + 1
        /\ \A q \in Requests : Refusing(q)' = Refusing(q)
    <3>1. \A q \in Requests : Refusing(q)' = Refusing(q)
      BY <1>0 DEF Refusing
    <3>. QED
      BY <1>1, <2>2, <3>1 DEF IInv, TypeOK, Tries
  <2>4. \A q \in Requests : /\ Of[q] \in Transports /\ overflow[Of[q]] \in Nat
                            /\ tries[q].first \in Nat /\ tries[q].moves \in Nat
    BY OfFacts DEF IInv, TypeOK, Conns, Tries
  <2>5. TypeOK'
    <3>1. ChannelsOK'
      BY <1>0, <2>1, <2>3, ChannelsKept DEF IInv, TypeOK, ends
    <3>2. pc' \in [Requests -> {"idle", "again", "asking", "shell", "severed",
                                 "refused", "done"}]
      BY <2>1 DEF IInv, TypeOK
    <3>3. \A q \in Requests : pc'[q] = "done" <=> result'[q] # "none"
      BY <1>0, <1>1, <2>1 DEF IInv, TypeOK
    <3>. QED
      BY <1>0, <1>1, <2>1, <2>3, <3>1, <3>2, <3>3 DEF IInv, TypeOK, ends
  <2>6. NotYetRun'
    BY <1>0, <2>1 DEF IInv, TypeOK, NotYetRun
  <2>7. Counted'
    <3>. SUFFICES ASSUME NEW q \in Requests
                  PROVE  CountedFor(q)'
      BY DEF Counted
    <3>. HIDE DEF o
    <3>1. CountedFor(q) /\ CountedFor(r)
      BY DEF IInv, Counted
    <3>2. CASE q = r
      <4>1. pc'[r] = "again" /\ (o + 1) - 1 = o /\ echoed' = echoed
        BY <1>0, <2>1 DEF IInv, TypeOK
      <4>2. /\ tries'[r].first + tries'[r].moves <= o + 1
            /\ tries'[r].first + tries'[r].moves = o + 1
                  => tries[r].first + tries[r].moves = o
        BY <1>0, <2>3
      <4>3. r \notin echoed /\ tries[r].first + tries[r].moves = o
               => Refusing(r) = tries[r].first..o
        BY <1>0, <3>1 DEF CountedFor, o
      <4>. QED
        BY <2>1, <2>3, <3>2, <4>1, <4>2, <4>3 DEF CountedFor
    <3>3. CASE q # r /\ Of[q] = Of[r]
      <4>1. tries'[q] = tries[q] /\ pc'[q] = pc[q] /\ overflow'[Of[q]] = o + 1
        BY <2>1, <2>3, <3>3 DEF IInv, TypeOK
      <4>2. /\ pc[q] = "idle" => tries[q].moves = 0 /\ Refusing(q) = {}
            /\ pc[q] \notin {"idle", "done"} =>
                  tries[q].first + tries[q].moves <= o
        BY <3>1, <3>3 DEF CountedFor, o
      <4>3. /\ pc[q] \notin {"idle", "done"} =>
                  tries[q].first + tries[q].moves <= o + 1
            /\ pc[q] \notin {"idle", "done"} =>
                  tries[q].first + tries[q].moves # o + 1
        BY <1>0, <2>4, <4>2
      <4>4. Refusing(q)' = Refusing(q)
        BY <2>3
      <4>. QED
        BY <4>1, <4>2, <4>3, <4>4 DEF CountedFor
    <3>4. CASE q # r /\ Of[q] # Of[r]
      BY <1>0, <2>1, <2>3, <2>4, <3>1, <3>4 DEF CountedFor, IInv, TypeOK
    <3>. QED
      BY <3>2, <3>3, <3>4
  <2>8. Reported'
    <3>. SUFFICES ASSUME NEW q \in Requests, result'[q] = "refused"
                  PROVE  /\ overflow'[Of[q]] = MaxOverflow
                         /\ q \notin echoed' /\ tries'[q].first + tries'[q].moves = MaxOverflow =>
                               Refusing(q)' = tries'[q].first..MaxOverflow
      BY DEF Reported
    <3>1. q # r /\ tries'[q] = tries[q] /\ Refusing(q)' = Refusing(q) /\ result[q] = "refused"
      BY <1>0, <1>1, <2>3 DEF IInv, TypeOK
    <3>2. overflow[Of[q]] = MaxOverflow
      BY <3>1 DEF IInv, Reported
    <3>3. Of[q] # Of[r]
      BY <1>0, <2>1, <3>2
    <3>4. overflow'[Of[q]] = MaxOverflow
      BY <2>1, <2>4, <3>2, <3>3
    <3>. QED
      BY <1>0, <3>1, <3>4 DEF IInv, Reported
  <2>9. Swept'
    <3>1. \A p \in Transports : overflow[p] \in Nat /\ overflow[p] <= overflow'[p] /\ overflow'[p] \in Nat
      BY <1>0, <2>1 DEF IInv, TypeOK, Conns
    <3>2. \A p \in Probes : life[p] \in {"closing", "ended", "late"} => Of[r] # p
      BY <1>0 DEF IInv, Swept
    <3>3. \A p \in Transports : sweep[p] \in Nat
      BY DEF IInv, TypeOK, Conns
    <3>4. Probes \subseteq Transports
      BY DEF Transports
    <3>5. \A p \in Transports : sweep'[p] <= overflow'[p]
      BY <1>0, <3>1, <3>3 DEF IInv, Swept, ends
    <3>6. ASSUME NEW p \in Probes
          PROVE  /\ opened'[p] \subseteq 0..overflow'[p]
                 /\ 0..(sweep'[p] - 1) \subseteq exited'[p]
      BY <1>0, <3>1, <3>4 DEF IInv, Swept, ends
    <3>7. ASSUME NEW p \in Probes
          PROVE  /\ life'[p] = "ended" => 0..overflow'[p] \subseteq exited'[p]
                 /\ life'[p] \in {"closing", "ended", "late"} =>
                       \A q \in Requests : Of[q] = p => pc'[q] = "done"
      BY <1>0, <2>1, <3>2, <3>4 DEF IInv, TypeOK, Swept, ends
    <3>. QED
      BY <3>5, <3>6, <3>7 DEF Swept
  <2>. QED
    BY <2>5, <2>6, <2>7, <2>8, <2>9 DEF IInv
<1>2. CASE ~CanMoveOn(Of[r]) /\ Return(r, "refused") /\ UNCHANGED overflow
  <2>1. /\ o = MaxOverflow /\ pc' = [pc EXCEPT ![r] = "done"]
        /\ result' = [result EXCEPT ![r] = "refused"] /\ tries' = tries
    BY <1>0, <1>2 DEF CanMoveOn, Return, Goto
  <2>2. TypeOK'
    <3>1. ChannelsOK'
      BY <1>0, <2>1, ChannelsKept DEF IInv, TypeOK, ends
    <3>2. pc' \in [Requests -> {"idle", "again", "asking", "shell", "severed",
                                 "refused", "done"}]
      BY <2>1 DEF IInv, TypeOK
    <3>3. result' \in [Requests -> {"none", "ok", "lost", "refused"}]
      BY <2>1 DEF IInv, TypeOK
    <3>4. \A q \in Requests : pc'[q] = "done" <=> result'[q] # "none"
      BY <1>0, <2>1 DEF IInv, TypeOK
    <3>. QED
      BY <1>0, <1>2, <2>1, <3>1, <3>2, <3>3, <3>4 DEF IInv, TypeOK, ends
  <2>3. NotYetRun'
    BY <1>0, <2>1 DEF IInv, TypeOK, NotYetRun
  <2>4. Counted'
    BY <1>0, <1>2, <2>1, RefusingSame DEF IInv, TypeOK, Counted, CountedFor
  <2>5. Reported'
    <3>1. CountedFor(r)
      BY DEF IInv, Counted
    <3>2. r \notin echoed /\ tries[r].first + tries[r].moves = MaxOverflow =>
             Refusing(r) = tries[r].first..MaxOverflow
      BY <1>0, <2>1, <3>1 DEF CountedFor
    <3>. QED
      BY <1>0, <1>2, <2>1, <3>2, RefusingSame DEF IInv, TypeOK, Reported
  <2>6. Swept'
    BY <1>0, <1>2, <2>1 DEF IInv, TypeOK, Swept, ends
  <2>. QED
    BY <2>2, <2>3, <2>4, <2>5, <2>6 DEF IInv
<1>. QED
  BY <1>1, <1>2 DEF MoveOn

-----------------------------------------------------------------------------
(***************************************************************************)
(* Masters, probes and Close: one lemma per action.                        *)
(***************************************************************************)
\* A master that ends moves the requests whose shells it carried, no others.
LEMMA EndMasterFacts ==
  ASSUME IInv, NEW n \in Conns, EndMaster(n)
  PROVE  /\ master' = master \ {n} /\ master' \subseteq Conns
         /\ pc' \in [Requests -> {"idle", "again", "asking", "shell", "severed",
                                  "refused", "done"}]
         /\ \A r \in Requests :
               \/ pc'[r] = pc[r] /\ (pc[r] = "shell" => tries[r].conn # n)
               \/ pc[r] = "shell" /\ pc'[r] = "severed"
BY DEF EndMaster, Channels, IInv, TypeOK

\* So the requests lose nothing by it.
LEMMA EndMasterKeeps ==
  ASSUME IInv, NEW n \in Conns, EndMaster(n), UNCHANGED <<overflow, told>>
  PROVE  /\ ChannelsOK' /\ NotYetRun' /\ Counted' /\ Reported'
         /\ \A r \in Requests : pc'[r] = "done" <=> result'[r] # "none"
<1>1. ChannelsOK'
  BY EndMasterFacts, ChannelsKept DEF IInv, TypeOK, told
<1>2. NotYetRun'
  BY EndMasterFacts DEF IInv, NotYetRun, told
<1>3. Counted'
  <2>. SUFFICES ASSUME NEW q \in Requests
                PROVE  CountedFor(q)'
    BY DEF Counted
  <2>. QED
    BY EndMasterFacts DEF IInv, Counted, CountedFor, Refusing, told
<1>4. Reported'
  BY DEF IInv, Reported, Refusing, told
<1>5. \A r \in Requests : pc'[r] = "done" <=> result'[r] # "none"
  BY EndMasterFacts DEF IInv, TypeOK, told
<1>. QED
  BY <1>1, <1>2, <1>3, <1>4, <1>5

LEMMA MasterGoesKeeps ==
  ASSUME IInv, NEW n \in Conns, MasterGoes(n)
  PROVE  IInv'
<1>1. EndMaster(n) /\ UNCHANGED <<overflow, life, sweep, told, exited>>
  BY DEF MasterGoes
<1>2. TypeOK'
  BY <1>1, EndMasterFacts, EndMasterKeeps DEF IInv, TypeOK, told
<1>3. Swept'
  BY <1>1, EndMasterFacts DEF IInv, Swept, told
<1>. QED
  BY <1>1, <1>2, <1>3, EndMasterKeeps DEF IInv

\* A transport goes on without anything being ended.
LEMMA LifeKeeps ==
  ASSUME IInv, NEW p \in Transports,
         NEW where \in {"asking", "kept", "closing", "late"},
         life' = [life EXCEPT ![p] = where],
         where \in {"closing", "late"} /\ p \in Probes =>
            \A r \in Requests : Of[r] = p => pc[r] = "done",
         UNCHANGED <<master, overflow, sweep, pc, told, exited>>
  PROVE  IInv'
<1>1. TypeOK'
  <2>1. ChannelsOK'
    BY ChannelsKept DEF IInv, TypeOK, told
  <2>. QED
    BY <2>1 DEF IInv, TypeOK, told
<1>2. NotYetRun' /\ Reported'
  BY DEF IInv, NotYetRun, Reported, Refusing, told
<1>3. Counted'
  BY DEF IInv, Counted, CountedFor, Refusing, told
<1>4. Swept'
  BY DEF IInv, TypeOK, Swept, told
<1>. QED
  BY <1>1, <1>2, <1>3, <1>4 DEF IInv

LEMMA FirstCheckKeeps ==
  ASSUME IInv, NEW p \in Transports, FirstCheck(p)
  PROVE  IInv'
BY LifeKeeps DEF FirstCheck

LEMMA SecondCheckKeeps ==
  ASSUME IInv, NEW p \in Transports, SecondCheck(p)
  PROVE  IInv'
<1>1. \A r \in Requests : Of[r] = p => pc[r] = "done"
  BY ConnectionsAssumption DEF SecondCheck
<1>. QED
  BY <1>1, LifeKeeps DEF SecondCheck

LEMMA SweepTimesOutKeeps ==
  ASSUME IInv, NEW p \in Transports, SweepTimesOut(p)
  PROVE  IInv'
<1>1. p \in Probes => \A r \in Requests : Of[r] = p => pc[r] = "done"
  BY DEF SweepTimesOut, IInv, Swept
<1>. QED
  BY <1>1, LifeKeeps DEF SweepTimesOut

LEMMA SweepKeeps ==
  ASSUME IInv, NEW p \in Transports, Sweep(p)
  PROVE  IInv'
<1>. DEFINE n == sweep[p]
<1>0. /\ n \in Conns /\ n \in Nat /\ n <= overflow[p] /\ overflow[p] \in Nat
      /\ overflow[p] <= MaxOverflow /\ MaxOverflow \in Nat
  BY ConnectionsAssumption DEF IInv, TypeOK, Swept, Conns
<1>1. /\ life[p] = "closing" /\ EndMaster(n) /\ UNCHANGED <<overflow, told>>
      /\ exited' = [q \in Probes |-> IF q = p THEN exited[q] \cup {n} ELSE exited[q]]
      /\ \/ /\ n = overflow[p] /\ sweep' = sweep
            /\ life' = [life EXCEPT ![p] = "ended"]
         \/ /\ n # overflow[p] /\ life' = life
            /\ sweep' = [sweep EXCEPT ![p] = n + 1]
  BY DEF Sweep
<1>2. TypeOK'
  <2>1. n # overflow[p] => n + 1 \in Conns
    BY <1>0 DEF Conns
  <2>. QED
    BY <1>0, <1>1, <2>1, EndMasterFacts, EndMasterKeeps DEF IInv, TypeOK, told
<1>3. Swept'
  <2>1. ASSUME NEW q \in Transports
        PROVE  sweep'[q] <= overflow'[q]
    <3>1. sweep[q] <= overflow[q] /\ overflow' = overflow
      BY <1>1 DEF IInv, Swept
    <3>2. \/ sweep'[q] = sweep[q]
          \/ q = p /\ sweep'[q] = n + 1 /\ n # overflow[p]
      BY <1>1 DEF IInv, TypeOK
    <3>. QED
      BY <1>0, <3>1, <3>2
  <2>2. ASSUME NEW q \in Probes
        PROVE  /\ opened'[q] \subseteq 0..overflow'[q]
               /\ 0..(sweep'[q] - 1) \subseteq exited'[q]
               /\ life'[q] = "ended" => 0..overflow'[q] \subseteq exited'[q]
    <3>1. CASE q # p
      BY <1>1, <2>2, <3>1 DEF IInv, TypeOK, Swept, told, Transports
    <3>2. CASE q = p
      <4>1. (0..(n - 1)) \cup {n} = 0..n /\ (n + 1) - 1 = n
        BY <1>0
      <4>2. 0..(n - 1) \subseteq exited[p] /\ opened[p] \subseteq 0..overflow[p]
        BY <2>2, <3>2 DEF IInv, Swept
      <4>3. exited'[p] = exited[p] \cup {n}
        BY <1>1, <2>2, <3>2
      <4>4. sweep' = sweep \/ sweep'[p] = n + 1
        BY <1>1 DEF IInv, TypeOK
      <4>5. life'[p] = "ended" => n = overflow[p]
        BY <1>1 DEF IInv, TypeOK
      <4>. QED
        BY <1>1, <3>2, <4>1, <4>2, <4>3, <4>4, <4>5 DEF told
    <3>. QED
      BY <3>1, <3>2
  <2>3. ASSUME NEW q \in Probes, life'[q] \in {"closing", "ended", "late"},
               NEW r \in Requests, Of[r] = q
        PROVE  pc'[r] = "done"
    <3>1. life[q] \in {"closing", "ended", "late"}
      BY <1>1, <2>3 DEF IInv, TypeOK, Transports
    <3>2. pc[r] = "done"
      BY <2>3, <3>1 DEF IInv, Swept
    <3>. QED
      BY <1>0, <1>1, <3>2, EndMasterFacts
  <2>. QED
    BY <2>1, <2>2, <2>3 DEF Swept
<1>. QED
  BY <1>0, <1>1, <1>2, <1>3, EndMasterKeeps DEF IInv

LEMMA StepKeeps == IInv /\ [Next]_vars => IInv'
<1>. SUFFICES ASSUME IInv, [Next]_vars PROVE IInv'
  OBVIOUS
<1>1. ASSUME NEW r \in Requests, Step(r)
      PROVE  IInv'
  BY <1>1, DialKeeps, ConnectKeeps, AdmitKeeps, RefuseKeeps, MoveOnKeeps DEF Step
<1>2. ASSUME NEW r \in Requests, Finish(r) \/ Cut(r) \/ GiveUp(r)
      PROVE  IInv'
  BY <1>2, FinishKeeps, CutKeeps, GiveUpKeeps
<1>3. ASSUME NEW n \in Conns, MasterGoes(n)
      PROVE  IInv'
  BY <1>3, MasterGoesKeeps
<1>4. ASSUME NEW p \in Transports,
             FirstCheck(p) \/ SecondCheck(p) \/ Sweep(p) \/ SweepTimesOut(p)
      PROVE  IInv'
  BY <1>4, FirstCheckKeeps, SecondCheckKeeps, SweepKeeps, SweepTimesOutKeeps
<1>5. CASE UNCHANGED vars
  <2>1. ChannelsOK'
    BY <1>5, ChannelsKept DEF vars, IInv, TypeOK
  <2>2. TypeOK' /\ NotYetRun' /\ Reported' /\ Swept'
    BY <1>5, <2>1 DEF vars, IInv, TypeOK, NotYetRun, Reported, Refusing, Swept
  <2>3. Counted'
    BY <1>5 DEF vars, IInv, Counted, CountedFor, Refusing
  <2>. QED
    BY <2>2, <2>3 DEF IInv
<1>. QED
  BY <1>1, <1>2, <1>3, <1>4, <1>5 DEF Next

LEMMA Inductive == Spec => []IInv
BY InitHolds, StepKeeps, PTL DEF Spec

-----------------------------------------------------------------------------
(***************************************************************************)
(* What a transport was refused, against what it made of it.               *)
(***************************************************************************)
\* The connections that refused a request lie below the one it is sent to next.
AscendingFor(r) ==
    /\ pc[r] = "idle" => Refusing(r) = {}
    /\ pc[r] \in {"asking", "shell", "severed"} =>
          tries[r].conn <= overflow[Of[r]] /\ Refusing(r) \subseteq 0..(tries[r].conn - 1)
    /\ pc[r] = "again" => Refusing(r) \subseteq 0..(overflow[Of[r]] - 1)
    /\ pc[r] = "refused" => Refusing(r) \subseteq 0..overflow[Of[r]]

Ascending == \A r \in Requests : AscendingFor(r)

\* The requests whose last refusal has not moved their transport.
Waiting(p) == {r \in Requests : Of[r] = p /\ (pc[r] = "refused" \/ result[r] = "refused")}

\* Each move of a transport was paid for with a refusal of its own.
Paid ==
    \A p \in Transports : NoEcho(p) =>
        overflow[p] + Cardinality(Waiting(p)) <= Cardinality(Refusals(p))

Earned == Ascending /\ Paid

\* The sets that Paid counts are finite.
LEMMA EarnedFinite ==
  ASSUME TypeOK, NEW p
  PROVE  /\ IsFiniteSet(Waiting(p)) /\ Cardinality(Waiting(p)) \in Nat
         /\ IsFiniteSet(Refusals(p)) /\ Cardinality(Refusals(p)) \in Nat
<1>1. IsFiniteSet(Waiting(p))
  BY ConnectionsAssumption, FS_Subset DEF Waiting
<1>2. IsFiniteSet(Conns)
  BY ConnectionsAssumption, FS_Interval DEF Conns
<1>3. IsFiniteSet(Requests \X Conns)
  BY <1>2, ConnectionsAssumption, FS_Product
<1>4. IsFiniteSet(Refusals(p))
  BY <1>3, FS_Subset DEF Refusals, TypeOK
<1>. QED
  BY <1>1, <1>4, FS_CardinalityType

LEMMA EarnedInit == Init => Earned
<1>. SUFFICES ASSUME Init PROVE Earned
  OBVIOUS
<1>1. Ascending
  BY DEF Init, Ascending, AscendingFor, Refusing
<1>2. \A p \in Transports : Waiting(p) = {} /\ Refusals(p) = {} /\ overflow[p] = 0
  BY DEF Init, Waiting, Refusals
<1>. QED
  BY <1>1, <1>2, FS_EmptySet DEF Earned, Paid

\* A step after which the same requests wait to move on, and no other was refused.
LEMMA PaidSame ==
  ASSUME Paid, UNCHANGED <<overflow, refused>>, echoed \subseteq echoed',
         NEW p \in Transports, NoEcho(p)',
         \A r \in Requests : Of[r] = p =>
            ((pc'[r] = "refused" \/ result'[r] = "refused") <=>
             (pc[r] = "refused" \/ result[r] = "refused"))
  PROVE  overflow'[p] + Cardinality(Waiting(p)') <= Cardinality(Refusals(p)')
<1>1. Waiting(p)' = Waiting(p) /\ Refusals(p)' = Refusals(p)
  BY DEF Waiting, Refusals
<1>2. NoEcho(p)
  BY DEF NoEcho
<1>. QED
  BY <1>1, <1>2 DEF Paid

\* sshd refuses: one refusal more, and one request that may move the transport.
LEMMA EarnedRefuse ==
  ASSUME IInv, Earned, NEW r \in Requests, Refuse(r)
  PROVE  Earned'
<1>1. /\ pc[r] = "asking" /\ pc' = [pc EXCEPT ![r] = "refused"] /\ result[r] = "none"
      /\ refused' = refused \cup {<<r, tries[r].conn>>}
      /\ UNCHANGED <<overflow, tries, result, echoed>>
  BY DEF Refuse, Goto, IInv, TypeOK
<1>2. /\ tries[r].conn \in Nat /\ tries[r].conn \in Conns /\ tries[r].conn <= overflow[Of[r]]
      /\ Refusing(r) \subseteq 0..(tries[r].conn - 1) /\ overflow[Of[r]] \in Nat
  <2>1. tries[r].conn \in Conns /\ overflow[Of[r]] \in Conns
    BY OfFacts DEF IInv, TypeOK, Tries
  <2>2. tries[r].conn <= overflow[Of[r]] /\ Refusing(r) \subseteq 0..(tries[r].conn - 1)
    BY <1>1 DEF Earned, Ascending, AscendingFor
  <2>. QED
    BY <2>1, <2>2, ConnectionsAssumption DEF Conns
<1>3. Ascending'
  <2>. SUFFICES ASSUME NEW q \in Requests PROVE AscendingFor(q)'
    BY DEF Ascending
  <2>1. CASE q = r
    <3>1. Refusing(r)' \subseteq Refusing(r) \cup {tries[r].conn}
      BY <1>1 DEF Refusing
    <3>2. Refusing(r)' \subseteq 0..overflow[Of[r]]
      BY <1>2, <3>1
    <3>3. pc'[r] = "refused" /\ overflow' = overflow
      BY <1>1 DEF IInv, TypeOK
    <3>. QED
      BY <2>1, <3>2, <3>3 DEF AscendingFor
  <2>2. CASE q # r
    <3>1. Refusing(q)' = Refusing(q)
      BY <1>1, <2>2 DEF Refusing
    <3>2. pc'[q] = pc[q] /\ tries' = tries /\ overflow' = overflow
      BY <1>1, <2>2 DEF IInv, TypeOK
    <3>3. AscendingFor(q)
      BY DEF Earned, Ascending
    <3>. QED
      BY <3>1, <3>2, <3>3 DEF AscendingFor
  <2>. QED
    BY <2>1, <2>2
<1>4. ASSUME NEW p \in Transports, NoEcho(p)'
      PROVE  overflow'[p] + Cardinality(Waiting(p)') <= Cardinality(Refusals(p)')
  <2>1. CASE Of[r] # p
    <3>1. Refusals(p)' = Refusals(p)
      BY <1>1, <2>1 DEF Refusals
    <3>2. Waiting(p)' = Waiting(p)
      BY <1>1, <2>1 DEF Waiting, IInv, TypeOK
    <3>3. NoEcho(p)
      BY <1>1, <1>4 DEF NoEcho
    <3>. QED
      BY <1>1, <3>1, <3>2, <3>3 DEF Earned, Paid
  <2>2. CASE Of[r] = p
    <3>1. Waiting(p)' = Waiting(p) \cup {r} /\ r \notin Waiting(p)
      BY <1>1, <2>2 DEF Waiting, IInv, TypeOK
    <3>2. <<r, tries[r].conn>> \notin Refusals(p)
      <4>1. tries[r].conn \notin Refusing(r)
        BY <1>2
      <4>. QED
        BY <1>2, <4>1 DEF Refusing, Refusals
    <3>3. Refusals(p)' = Refusals(p) \cup {<<r, tries[r].conn>>}
      BY <1>1, <2>2 DEF Refusals
    <3>4. /\ Cardinality(Waiting(p)') = Cardinality(Waiting(p)) + 1
          /\ Cardinality(Refusals(p)') = Cardinality(Refusals(p)) + 1
      BY <3>1, <3>2, <3>3, EarnedFinite, FS_AddElement DEF IInv
    <3>5. overflow[p] + Cardinality(Waiting(p)) <= Cardinality(Refusals(p))
      BY <1>1, <1>4 DEF Earned, Paid, NoEcho
    <3>6. /\ overflow[p] \in Nat /\ Cardinality(Waiting(p)) \in Nat
          /\ Cardinality(Refusals(p)) \in Nat /\ overflow' = overflow
      BY <1>1, <1>2, <2>2, EarnedFinite DEF IInv
    <3>. QED
      BY <3>4, <3>5, <3>6
  <2>. QED
    BY <2>1, <2>2
<1>. QED
  BY <1>3, <1>4 DEF Earned, Paid

\* A refusal is spent on a move, or reported.
LEMMA EarnedMoveOn ==
  ASSUME IInv, Earned, NEW r \in Requests, MoveOn(r)
  PROVE  Earned'
<1>1. /\ pc[r] = "refused" /\ result[r] = "none" /\ UNCHANGED <<refused, echoed>>
      /\ \A q \in Requests : Refusing(q)' = Refusing(q)
  BY DEF MoveOn, IInv, TypeOK, Refusing
<1>2. \A q \in Requests : /\ Of[q] \in Transports /\ overflow[Of[q]] \in Nat
                          /\ tries[q].conn \in Nat
  BY OfFacts DEF IInv, TypeOK, Conns, Tries
<1>3. CASE /\ CanMoveOn(Of[r])
           /\ overflow' = [overflow EXCEPT ![Of[r]] = @ + 1]
           /\ tries' = [tries EXCEPT ![r].moves = @ + 1]
           /\ Goto(r, "again") /\ UNCHANGED result
  <2>1. /\ pc' = [pc EXCEPT ![r] = "again"]
        /\ overflow'[Of[r]] = overflow[Of[r]] + 1
        /\ \A p \in Transports \ {Of[r]} : overflow'[p] = overflow[p]
        /\ \A q \in Requests : tries'[q].conn = tries[q].conn
    BY <1>2, <1>3 DEF Goto, IInv, TypeOK, Tries
  <2>2. Ascending'
    <3>. SUFFICES ASSUME NEW q \in Requests PROVE AscendingFor(q)'
      BY DEF Ascending
    <3>0. AscendingFor(q) /\ AscendingFor(r)
      BY DEF Earned, Ascending
    <3>1. CASE q = r
      <4>1. pc'[r] = "again" /\ Refusing(r)' \subseteq 0..overflow[Of[r]]
        BY <1>1, <2>1, <3>0 DEF AscendingFor, IInv, TypeOK
      <4>2. overflow'[Of[r]] - 1 = overflow[Of[r]]
        BY <1>2, <2>1
      <4>. QED
        BY <3>1, <4>1, <4>2 DEF AscendingFor
    <3>2. CASE q # r
      <4>1. pc'[q] = pc[q] /\ tries'[q].conn = tries[q].conn /\ Refusing(q)' = Refusing(q)
        BY <1>1, <2>1, <3>2 DEF IInv, TypeOK
      <4>2. overflow[Of[q]] <= overflow'[Of[q]] /\ overflow'[Of[q]] \in Nat
        BY <1>2, <2>1
      <4>3. \A k \in Nat : k <= overflow[Of[q]] => k <= overflow'[Of[q]]
        BY <1>2, <4>2
      <4>4. /\ 0..overflow[Of[q]] \subseteq 0..overflow'[Of[q]]
            /\ 0..(overflow[Of[q]] - 1) \subseteq 0..(overflow'[Of[q]] - 1)
        BY <1>2, <4>2
      <4>. QED
        BY <1>2, <3>0, <4>1, <4>3, <4>4 DEF AscendingFor
    <3>. QED
      BY <3>1, <3>2
  <2>3. ASSUME NEW p \in Transports, NoEcho(p)'
        PROVE  overflow'[p] + Cardinality(Waiting(p)') <= Cardinality(Refusals(p)')
    <3>1. Refusals(p)' = Refusals(p) /\ NoEcho(p)
      BY <1>1, <2>3 DEF Refusals, NoEcho
    <3>2. overflow[p] + Cardinality(Waiting(p)) <= Cardinality(Refusals(p))
      BY <3>1 DEF Earned, Paid
    <3>3. CASE Of[r] # p
      <4>1. Waiting(p)' = Waiting(p)
        BY <1>3, <2>1, <3>3 DEF Waiting, IInv, TypeOK
      <4>. QED
        BY <2>1, <3>1, <3>2, <3>3, <4>1
    <3>4. CASE Of[r] = p
      <4>1. Waiting(p)' = Waiting(p) \ {r} /\ r \in Waiting(p)
        BY <1>1, <1>3, <2>1, <3>4 DEF Waiting, IInv, TypeOK
      <4>2. Cardinality(Waiting(p)') = Cardinality(Waiting(p)) - 1
        BY <4>1, EarnedFinite, FS_RemoveElement DEF IInv
      <4>3. /\ Cardinality(Waiting(p)) \in Nat /\ Cardinality(Refusals(p)) \in Nat
            /\ overflow[p] \in Nat /\ overflow'[p] = overflow[p] + 1
        BY <1>2, <2>1, <3>4, EarnedFinite DEF IInv
      <4>. QED
        BY <3>1, <3>2, <4>2, <4>3
    <3>. QED
      BY <3>3, <3>4
  <2>. QED
    BY <2>2, <2>3 DEF Earned, Paid
<1>4. CASE Return(r, "refused") /\ UNCHANGED overflow
  <2>1. /\ pc' = [pc EXCEPT ![r] = "done"] /\ result' = [result EXCEPT ![r] = "refused"]
        /\ tries' = tries
    BY <1>4 DEF Return, Goto
  <2>2. Ascending'
    <3>. SUFFICES ASSUME NEW q \in Requests PROVE AscendingFor(q)'
      BY DEF Ascending
    <3>1. pc'[q] \in {pc[q], "done"} /\ Refusing(q)' = Refusing(q) /\ AscendingFor(q)
      BY <1>1, <2>1 DEF Earned, Ascending, IInv, TypeOK
    <3>. QED
      BY <1>4, <2>1, <3>1 DEF AscendingFor
  <2>3. \A q \in Requests : (pc'[q] = "refused" \/ result'[q] = "refused") <=>
                            (pc[q] = "refused" \/ result[q] = "refused")
    BY <1>1, <2>1 DEF IInv, TypeOK
  <2>. QED
    BY <1>1, <1>4, <2>2, <2>3, PaidSame DEF Earned, Paid
<1>. QED
  BY <1>3, <1>4 DEF MoveOn

\* A command's own stderr is taken for a refusal: its transport is counted no more.
LEMMA EarnedCut ==
  ASSUME IInv, Earned, NEW r \in Requests, Cut(r)
  PROVE  Earned'
<1>1. /\ pc[r] \in {"shell", "severed"} /\ result[r] = "none" /\ UNCHANGED <<overflow, refused>>
      /\ \A q \in Requests : Refusing(q)' = Refusing(q)
      /\ \/ Return(r, "lost") /\ UNCHANGED echoed
         \/ /\ Goto(r, "refused") /\ echoed' = echoed \cup {r}
            /\ UNCHANGED <<result, tries>>
  BY DEF Cut, IInv, TypeOK, Refusing
<1>2. /\ \A q \in Requests \ {r} : /\ pc'[q] = pc[q] /\ result'[q] = result[q]
                                   /\ tries'[q] = tries[q]
      /\ pc'[r] \in {"done", "refused"} /\ echoed \subseteq echoed'
      /\ \/ pc'[r] = "done" /\ result'[r] = "lost"
         \/ pc'[r] = "refused" /\ r \in echoed'
  BY <1>1 DEF Return, Goto, IInv, TypeOK
<1>3. Ascending'
  <2>. SUFFICES ASSUME NEW q \in Requests PROVE AscendingFor(q)'
    BY DEF Ascending
  <2>0. AscendingFor(q) /\ Refusing(q)' = Refusing(q)
    BY <1>1 DEF Earned, Ascending
  <2>1. CASE q = r
    <3>1. /\ tries[r].conn \in Nat /\ overflow[Of[r]] \in Nat
          /\ tries[r].conn <= overflow[Of[r]] /\ Refusing(r) \subseteq 0..(tries[r].conn - 1)
      BY <1>1, <2>0, <2>1, OfFacts DEF AscendingFor, IInv, TypeOK, Conns, Tries
    <3>2. Refusing(r) \subseteq 0..overflow[Of[r]]
      BY <3>1
    <3>. QED
      BY <1>1, <1>2, <2>0, <2>1, <3>2 DEF AscendingFor
  <2>2. CASE q # r
    BY <1>1, <1>2, <2>0, <2>2 DEF AscendingFor
  <2>. QED
    BY <2>1, <2>2
<1>4. ASSUME NEW p \in Transports, NoEcho(p)'
      PROVE  overflow'[p] + Cardinality(Waiting(p)') <= Cardinality(Refusals(p)')
  <2>1. \A q \in Requests : Of[q] = p =>
            ((pc'[q] = "refused" \/ result'[q] = "refused") <=>
             (pc[q] = "refused" \/ result[q] = "refused"))
    BY <1>1, <1>2, <1>4 DEF NoEcho
  <2>. QED
    BY <1>1, <1>2, <1>4, <2>1, PaidSame DEF Earned
<1>. QED
  BY <1>3, <1>4 DEF Earned, Paid

\* What a request does otherwise, and what masters and transports do.
LEMMA EarnedOtherwise ==
  ASSUME IInv, IInv', Earned, UNCHANGED <<overflow, refused, echoed>>,
         \A r \in Requests :
            /\ \/ pc'[r] = pc[r] /\ tries'[r].conn = tries[r].conn
               \/ pc[r] \in {"idle", "again"} /\ pc'[r] = "asking" /\ tries'[r].conn = overflow[Of[r]]
               \/ pc[r] \in {"asking", "shell"} /\ pc'[r] \in {"shell", "severed"}
                     /\ tries'[r].conn = tries[r].conn
               \/ pc[r] # "refused" /\ pc'[r] = "done"
            /\ result'[r] # "refused" <=> result[r] # "refused"
  PROVE  Earned'
<1>1. \A q \in Requests : Refusing(q)' = Refusing(q)
  BY DEF Refusing
<1>2. Ascending'
  <2>. SUFFICES ASSUME NEW q \in Requests PROVE AscendingFor(q)'
    BY DEF Ascending
  <2>1. AscendingFor(q) /\ Refusing(q)' = Refusing(q) /\ overflow[Of[q]] \in Nat
    BY <1>1, OfFacts DEF Earned, Ascending, IInv, TypeOK, Conns
  <2>2. CASE pc[q] \in {"idle", "again"} /\ pc'[q] = "asking" /\ tries'[q].conn = overflow[Of[q]]
    BY <2>1, <2>2 DEF AscendingFor
  <2>3. CASE ~(pc[q] \in {"idle", "again"} /\ pc'[q] = "asking")
    BY <2>1, <2>3 DEF AscendingFor
  <2>. QED
    BY <2>2, <2>3
<1>3. \A q \in Requests : (pc'[q] = "refused" \/ result'[q] = "refused") <=>
                          (pc[q] = "refused" \/ result[q] = "refused")
  OBVIOUS
<1>. QED
  BY <1>2, <1>3, PaidSame DEF Earned, Paid

LEMMA EarnedStep == IInv /\ IInv' /\ Earned /\ [Next]_vars => Earned'
<1>. SUFFICES ASSUME IInv, IInv', Earned, [Next]_vars PROVE Earned'
  OBVIOUS
<1>1. ASSUME NEW r \in Requests, Dial(r) \/ Connect(r) \/ Admit(r) PROVE Earned'
  BY <1>1, EarnedOtherwise DEF Dial, Connect, Admit, Goto, told, IInv, TypeOK
<1>2. ASSUME NEW r \in Requests, Finish(r) \/ GiveUp(r) PROVE Earned'
  BY <1>2, EarnedOtherwise DEF Finish, GiveUp, Return, Goto, IInv, TypeOK
<1>3. ASSUME NEW n \in Conns, EndMaster(n), UNCHANGED <<overflow, told>> PROVE Earned'
  BY <1>3, EndMasterFacts, EarnedOtherwise DEF told
<1>4. ASSUME UNCHANGED <<overflow, pc, told>> PROVE Earned'
  BY <1>4, EarnedOtherwise DEF told
<1>5. ASSUME NEW p \in Transports, Sweep(p) PROVE Earned'
  <2>1. sweep[p] \in Conns
    BY DEF IInv, TypeOK
  <2>. QED
    BY <1>3, <1>5, <2>1 DEF Sweep
<1>6. ASSUME NEW p \in Transports, FirstCheck(p) \/ SecondCheck(p) \/ SweepTimesOut(p)
      PROVE  Earned'
  BY <1>4, <1>6 DEF FirstCheck, SecondCheck, SweepTimesOut
<1>7. ASSUME NEW n \in Conns, MasterGoes(n) PROVE Earned'
  BY <1>3, <1>7 DEF MasterGoes
<1>8. CASE UNCHANGED vars
  BY <1>4, <1>8 DEF vars, told
<1>. QED
  BY <1>1, <1>2, <1>5, <1>6, <1>7, <1>8, EarnedRefuse, EarnedMoveOn, EarnedCut DEF Next, Step

LEMMA EarnedAlways == Spec => []Earned
BY InitHolds, StepKeeps, EarnedInit, EarnedStep, PTL DEF Spec

-----------------------------------------------------------------------------
(***************************************************************************)
(* Every variable keeps its type, no connection carries more channels than *)
(* sshd allows, and every channel has a master behind it.                  *)
(***************************************************************************)
THEOREM TypeCorrect == Spec => []TypeOK
<1>1. IInv => TypeOK
  BY DEF IInv
<1>. QED
  BY <1>1, Inductive, PTL

(***************************************************************************)
(* Run and RunStream never run a command twice, however many connections   *)
(* refuse it, unless its own output reads like a refusal.                  *)
(***************************************************************************)
THEOREM NothingRunsTwice == Spec => []RetriedNeverRan
<1>1. IInv => RetriedNeverRan
  BY DEF IInv, NotYetRun, RetriedNeverRan
<1>. QED
  BY <1>1, Inductive, PTL

(***************************************************************************)
(* Before a request is told that sshd has no room, sshd has refused its    *)
(* transport at least as many channels as there are connections, though    *)
(* other requests moved it meanwhile; and if none did, the request was     *)
(* itself refused on every connection from the one it began on.            *)
(***************************************************************************)
THEOREM RefusalsAreEarned == Spec => []RefusalIsEarned
<1>1. IInv /\ Earned => RefusalIsEarned
  <2>. SUFFICES ASSUME IInv, Earned, NEW r \in Requests, result[r] = "refused", NoEcho(Of[r])
                PROVE  /\ Cardinality(Refusals(Of[r])) > MaxOverflow
                       /\ tries[r].first + tries[r].moves = overflow[Of[r]] =>
                             Refusing(r) = tries[r].first..MaxOverflow
    BY DEF RefusalIsEarned
  <2>1. overflow[Of[r]] = MaxOverflow /\ r \notin echoed
    BY DEF IInv, Reported, NoEcho
  <2>2. r \in Waiting(Of[r])
    BY DEF Waiting
  <2>3. Cardinality(Waiting(Of[r])) \in Nat /\ Cardinality(Waiting(Of[r])) # 0
    BY <2>2, EarnedFinite, FS_EmptySet DEF IInv
  <2>4. MaxOverflow + Cardinality(Waiting(Of[r])) <= Cardinality(Refusals(Of[r]))
    BY <2>1, OfFacts DEF Earned, Paid
  <2>5. Cardinality(Refusals(Of[r])) \in Nat /\ MaxOverflow \in Nat
    BY EarnedFinite, ConnectionsAssumption DEF IInv
  <2>6. Cardinality(Refusals(Of[r])) > MaxOverflow
    BY <2>3, <2>4, <2>5
  <2>. QED
    BY <2>1, <2>6 DEF IInv, Reported
<1>. QED
  BY <1>1, Inductive, EarnedAlways, PTL

(***************************************************************************)
(* A Close that gets to its end has ended every connection its transport   *)
(* ran ssh on: nothing moves the transport while Close goes through them.  *)
(***************************************************************************)
THEOREM CloseCovers == Spec => []CloseCoversOwn
<1>1. IInv => CloseCoversOwn
  BY DEF IInv, Swept, CloseCoversOwn
<1>. QED
  BY <1>1, Inductive, PTL

-----------------------------------------------------------------------------
(***************************************************************************)
(* CommandOutput.  Whatever the bounds, what has arrived of Wrapped is in  *)
(* the head and the ring, or handed on and held back (Captured, Filtered); *)
(* so the last marker in it is the wrapper's, or there is none (SplitFinds *)
(* and others), and the outcome says so (RunEnds, StreamEnds).                  *)
(***************************************************************************)
Lesser(m, n) == IF m < n THEN m ELSE n
StatusLen == Len(Status)
BodyLen == 2 * records

Unit ==
    ({"half"} \X Nat \X {1, 2})
        \cup ({"mark", "digit", "newline", "notice", "trail"} \X Nat)
Kinds == {"half", "mark", "digit", "newline", "notice", "trail"}

Rings == [buf : Seq(Unit), pos : Nat, full : BOOLEAN, omitted : Nat, used : BOOLEAN]

\* A ring holds the last of the units that were put into it, in their order.
RingHolds(r, units) ==
    LET count == Len(units)
    IN  /\ r.pos \in 1..TailMax
        /\ r.full <=> count >= TailMax
        /\ r.used <=> count > 0
        /\ r.omitted = IF count > TailMax THEN count - TailMax ELSE 0
        /\ Len(r.buf) = Lesser(count, TailMax)
        /\ count < TailMax =>
              r.pos = count + 1 /\ \A i \in 1..count : r.buf[i] = units[i]
        /\ count >= TailMax =>
              /\ \A i \in r.pos..TailMax :
                    r.buf[i] = units[count - TailMax + (i - r.pos) + 1]
              /\ \A i \in 1..(r.pos - 1) : r.buf[i] = units[count - r.pos + 1 + i]

\* What has been written is in its place, on its way or handed on.
Bounded ==
    /\ records \in 0..MaxRecords /\ trail \in 0..MaxTrail
    /\ arrives \in 0..Len(Wrapped) /\ fed \in 0..arrives
    /\ path \in {"run", "stream"}

Captured ==
    path = "run" =>
        /\ head = SubSeq(Wrapped, 1, Lesser(fed, HeadMax))
        /\ ring \in Rings
        /\ RingHolds(ring, SubSeq(Wrapped, Lesser(fed, HeadMax) + 1, fed))
        /\ pending = <<>>

Filtered ==
    LET held == Lesser(fed, Hold)
    IN  path = "stream" =>
            /\ head = <<>> /\ ring.buf = <<>> /\ ring.pos = 1
            /\ ~outcome.done =>
                  /\ emitted = SubSeq(Wrapped, 1, fed - held)
                  /\ pending = SubSeq(Wrapped, fed - held + 1, fed)

\* What Run and RunStream made of it.
RunEnds ==
    path = "run" /\ outcome.done =>
        /\ fed = arrives
        /\ LET s == Split(Bytes)
           IN  outcome = [done |-> TRUE, ok |-> s.ok, out |-> IF s.ok THEN s.out ELSE <<>>,
                          code |-> s.code, truncated |-> Truncated]

StreamEnds ==
    LET held == Lesser(arrives, Hold)
        left == SubSeq(Wrapped, arrives - held + 1, arrives)
        at == CHOOSE i \in MarksIn(left) : \A j \in MarksIn(left) : j <= i
    IN  path = "stream" /\ outcome.done =>
            /\ fed = arrives /\ pending = <<>>
            /\ outcome.ok = Split(left).ok /\ outcome.code = Split(left).code
            /\ emitted = SubSeq(Wrapped, 1, arrives - held)
                            \o (IF MarksIn(left) = {} THEN left ELSE SubSeq(left, 1, at - 1))

CommandInv == Bounded /\ Captured /\ Filtered /\ RunEnds /\ StreamEnds
-----------------------------------------------------------------------------
LEMMA Consts ==
  /\ MarkLen \in Nat \ {0} /\ StatusLen \in Nat \ {0} /\ TailMax \in Nat \ {0}
  /\ HeadMax \in Nat /\ Slack \in Nat \ {0} /\ Hold \in Nat \ {0}
  /\ MarkLen + StatusLen + 1 <= TailMax
  /\ StatusLen + 1 <= Slack /\ Hold = MarkLen + Slack
  /\ MaxResults \in Nat \ {0}
<1>1. /\ MarkLen \in Nat \ {0} /\ Limit \in Nat \ {0} /\ Floor \in Nat \ {0}
      /\ Slack \in Nat \ {0} /\ MaxResults \in Nat \ {0}
      /\ Status \in Seq(0..9) /\ Status # <<>>
      /\ MarkLen + Len(Status) + 1 <= TailMax /\ Len(Status) + 1 <= Slack
  BY CommandAssumption DEF CommandAssumption
<1>2. Len(Status) \in Nat \ {0}
  BY <1>1, EmptySeq
<1>3. Limit \div 4 \in Nat /\ Limit \div 2 \in Nat /\ Limit \div 2 <= Limit
  BY <1>1
<1>4. TailMax \in Nat \ {0} /\ Limit - TailMax \in Nat
  BY <1>1, <1>3 DEF TailMax
<1>. QED
  BY <1>1, <1>2, <1>4 DEF HeadMax, Hold, StatusLen

LEMMA UnitFacts ==
  /\ \A u \in Unit : u[1] \in Kinds
  /\ \A k \in Nat : /\ <<"half", k, 1>> \in Unit /\ <<"half", k, 2>> \in Unit
                    /\ <<"mark", k>> \in Unit /\ <<"digit", k>> \in Unit
                    /\ <<"trail", k>> \in Unit
  /\ Newline \in Unit /\ Notice \in Unit
BY DEF Unit, Kinds, Newline, Notice

\* One sequence and then another.
Joint(p, s, t) ==
    /\ p \in Seq(Unit) /\ Len(p) = Len(s) + Len(t)
    /\ \A i \in 1..Len(s) : p[i] = s[i]
    /\ \A i \in 1..Len(t) : p[Len(s) + i] = t[i]

LEMMA Joined ==
  ASSUME NEW s \in Seq(Unit), NEW t \in Seq(Unit)
  PROVE  Joint(s \o t, s, t)
<1>1. Len(s) \in Nat /\ Len(t) \in Nat
  BY LenProperties
<1>. QED
  BY <1>1, ConcatProperties DEF Joint

LEMMA Regroup ==
  ASSUME NEW s \in Seq(Unit), NEW t \in Seq(Unit), NEW u \in Seq(Unit)
  PROVE  (s \o t) \o u = s \o (t \o u)
BY ConcatAssociative

LEMMA AppendLast ==
  ASSUME NEW s \in Seq(Unit), NEW t \in Seq(Unit), NEW e \in Unit
  PROVE  s \o Append(t, e) = Append(s \o t, e)
<1>1. Append(t, e) = t \o <<e>> /\ <<e>> \in Seq(Unit)
  BY AppendIsConcat
<1>2. s \o t \in Seq(Unit)
  BY ConcatProperties
<1>3. Append(s \o t, e) = (s \o t) \o <<e>>
  BY <1>2, AppendIsConcat
<1>. QED
  BY <1>1, <1>3, Regroup

\* What the parts of the wrapper's output look like.
LEMMA PartsFacts ==
  ASSUME records \in Nat, trail \in Nat
  PROVE  /\ Payload \in Seq(Unit) /\ Len(Payload) = BodyLen /\ BodyLen \in Nat
         /\ \A i \in 1..BodyLen : Payload[i][1] = "half"
         /\ Mark \in Seq(Unit) /\ Len(Mark) = MarkLen
         /\ \A i \in 1..MarkLen : Mark[i] = <<"mark", i>>
         /\ Digits \in Seq(Unit) /\ Len(Digits) = StatusLen
         /\ \A i \in 1..StatusLen : Digits[i][1] = "digit"
         /\ Trail \in Seq(Unit) /\ Len(Trail) = trail
         /\ \A i \in 1..trail : Trail[i][1] = "trail"
<1>1. /\ MarkLen \in Nat /\ StatusLen \in Nat /\ Status \in Seq(0..9)
  BY Consts, CommandAssumption DEF CommandAssumption
<1>2. BodyLen \in Nat /\ \A i \in 1..BodyLen : (i + 1) \div 2 \in Nat
  BY DEF BodyLen
<1>3. \A i \in 1..BodyLen : Payload[i] \in Unit /\ Payload[i][1] = "half"
  BY <1>2, UnitFacts DEF Payload, BodyLen
<1>4. Payload \in Seq(Unit) /\ Len(Payload) = BodyLen
  BY <1>2, <1>3 DEF Payload, BodyLen
<1>5. Mark \in Seq(Unit) /\ Len(Mark) = MarkLen /\ \A i \in 1..MarkLen : Mark[i] = <<"mark", i>>
  <2>1. \A i \in 1..MarkLen : <<"mark", i>> \in Unit
    BY DEF Unit
  <2>. QED
    BY <1>1, <2>1 DEF Mark
<1>6. \A i \in 1..StatusLen : Status[i] \in Nat
  BY <1>1, ElementOfSeq DEF StatusLen
<1>7. /\ Digits \in Seq(Unit) /\ Len(Digits) = StatusLen
      /\ \A i \in 1..StatusLen : Digits[i][1] = "digit"
  <2>1. \A i \in 1..StatusLen : <<"digit", Status[i]>> \in Unit
    BY <1>6 DEF Unit
  <2>. QED
    BY <1>1, <2>1 DEF Digits, StatusLen
<1>8. /\ Trail \in Seq(Unit) /\ Len(Trail) = trail
      /\ \A i \in 1..trail : Trail[i][1] = "trail"
  <2>1. \A i \in 1..trail : <<"trail", i>> \in Unit
    BY DEF Unit
  <2>. QED
    BY <2>1 DEF Trail
<1>. QED
  BY <1>2, <1>3, <1>4, <1>5, <1>7, <1>8

\* Where they are in it.
LEMMA WrappedFacts ==
  ASSUME records \in Nat, trail \in Nat
  PROVE  /\ Wrapped \in Seq(Unit) /\ Len(Wrapped) = BodyLen + MarkLen + StatusLen + 1 + trail
         /\ \A i \in 1..BodyLen : Wrapped[i] = Payload[i]
         /\ \A i \in 1..MarkLen : Wrapped[BodyLen + i] = <<"mark", i>>
         /\ \A i \in 1..StatusLen : Wrapped[BodyLen + MarkLen + i] = Digits[i]
         /\ Wrapped[BodyLen + MarkLen + StatusLen + 1] = Newline
         /\ \A i \in 1..trail :
               Wrapped[BodyLen + MarkLen + StatusLen + 1 + i] = Trail[i]
<1>. DEFINE p1 == Payload \o Mark
            p2 == p1 \o Digits
            p3 == p2 \o <<Newline>>
<1>0. MarkLen \in Nat /\ StatusLen \in Nat /\ BodyLen \in Nat
  BY Consts, PartsFacts
<1>a. Payload \in Seq(Unit) /\ Len(Payload) = BodyLen
  BY PartsFacts
<1>b. Mark \in Seq(Unit) /\ Len(Mark) = MarkLen
  BY PartsFacts
<1>c. Digits \in Seq(Unit) /\ Len(Digits) = StatusLen
  BY PartsFacts
<1>d. <<Newline>> \in Seq(Unit) /\ Len(<<Newline>>) = 1 /\ <<Newline>>[1] = Newline
  BY UnitFacts
<1>e. Trail \in Seq(Unit) /\ Len(Trail) = trail
  BY PartsFacts
<1>1. /\ p1 \in Seq(Unit) /\ Len(p1) = BodyLen + MarkLen
      /\ \A i \in 1..BodyLen : p1[i] = Payload[i]
      /\ \A i \in 1..MarkLen : p1[BodyLen + i] = Mark[i]
  <2>. HIDE DEF p1
  <2>1. p1 = Payload \o Mark
    BY DEF p1
  <2>2. Payload \in Seq(Unit) /\ Mark \in Seq(Unit)
    BY <1>a, <1>b
  <2>3. Joint(p1, Payload, Mark)
    BY <2>1, <2>2, Joined, Zenon
  <2>. QED
    BY <1>0, <1>a, <1>b, <2>3 DEF Joint
<1>. HIDE DEF p1
<1>2. /\ p2 \in Seq(Unit) /\ Len(p2) = BodyLen + MarkLen + StatusLen
      /\ \A i \in 1..(BodyLen + MarkLen) : p2[i] = p1[i]
      /\ \A i \in 1..StatusLen : p2[BodyLen + MarkLen + i] = Digits[i]
  <2>. HIDE DEF p2
  <2>1. p2 = p1 \o Digits
    BY DEF p2
  <2>2. p1 \in Seq(Unit) /\ Digits \in Seq(Unit)
    BY <1>1, <1>c
  <2>3. Joint(p2, p1, Digits)
    BY <2>1, <2>2, Joined, Zenon
  <2>. QED
    BY <1>0, <1>1, <1>c, <2>3 DEF Joint
<1>. HIDE DEF p2
<1>3. /\ p3 \in Seq(Unit) /\ Len(p3) = BodyLen + MarkLen + StatusLen + 1
      /\ \A i \in 1..(BodyLen + MarkLen + StatusLen) : p3[i] = p2[i]
      /\ p3[BodyLen + MarkLen + StatusLen + 1] = Newline
  <2>. HIDE DEF p3
  <2>1. p3 = p2 \o <<Newline>>
    BY DEF p3
  <2>2. p2 \in Seq(Unit) /\ <<Newline>> \in Seq(Unit)
    BY <1>2, <1>d
  <2>3. Joint(p3, p2, <<Newline>>)
    BY <2>1, <2>2, Joined, Zenon
  <2>. QED
    BY <1>0, <1>2, <1>d, <2>3 DEF Joint
<1>. HIDE DEF p3
<1>4. /\ Wrapped \in Seq(Unit) /\ Len(Wrapped) = BodyLen + MarkLen + StatusLen + 1 + trail
      /\ \A i \in 1..(BodyLen + MarkLen + StatusLen + 1) : Wrapped[i] = p3[i]
      /\ \A i \in 1..trail :
            Wrapped[BodyLen + MarkLen + StatusLen + 1 + i] = Trail[i]
  <2>1. Wrapped = p3 \o Trail
    BY DEF Wrapped, p3, p2, p1
  <2>2. p3 \in Seq(Unit) /\ Trail \in Seq(Unit)
    BY <1>3, <1>e
  <2>3. Joint(Wrapped, p3, Trail)
    BY <2>1, <2>2, Joined, Zenon
  <2>. QED
    BY <1>0, <1>3, <1>e, <2>3 DEF Joint
<1>5. ASSUME NEW i \in 1..BodyLen PROVE Wrapped[i] = Payload[i]
  <2>1. /\ i \in 1..(BodyLen + MarkLen) /\ i \in 1..(BodyLen + MarkLen + StatusLen)
        /\ i \in 1..(BodyLen + MarkLen + StatusLen + 1)
    BY <1>0
  <2>. QED
    BY <1>1, <1>2, <1>3, <1>4, <2>1
<1>6. ASSUME NEW i \in 1..MarkLen PROVE Wrapped[BodyLen + i] = <<"mark", i>>
  <2>1. /\ BodyLen + i \in 1..(BodyLen + MarkLen)
        /\ BodyLen + i \in 1..(BodyLen + MarkLen + StatusLen)
        /\ BodyLen + i \in 1..(BodyLen + MarkLen + StatusLen + 1)
    BY <1>0
  <2>2. Mark[i] = <<"mark", i>>
    BY PartsFacts
  <2>. QED
    BY <1>1, <1>2, <1>3, <1>4, <2>1, <2>2
<1>7. ASSUME NEW i \in 1..StatusLen PROVE Wrapped[BodyLen + MarkLen + i] = Digits[i]
  <2>1. BodyLen + MarkLen + i \in 1..(BodyLen + MarkLen + StatusLen)
        /\ BodyLen + MarkLen + i \in 1..(BodyLen + MarkLen + StatusLen + 1)
    BY <1>0
  <2>. QED
    BY <1>2, <1>3, <1>4, <2>1
<1>8. Wrapped[BodyLen + MarkLen + StatusLen + 1] = Newline
  BY <1>0, <1>3, <1>4, PartsFacts
<1>. QED
  BY <1>4, <1>5, <1>6, <1>7, <1>8

\* The kind of a unit tells which part it is of.
LEMMA KindsInOrder ==
  ASSUME records \in Nat, trail \in Nat, NEW i \in 1..Len(Wrapped)
  PROVE  /\ Wrapped[i] \in Unit /\ Wrapped[i] # Notice
         /\ Wrapped[i][1] = "mark" => i > BodyLen
         /\ Wrapped[i][1] = "digit" =>
               i > BodyLen + MarkLen /\ i <= BodyLen + MarkLen + StatusLen
         /\ Wrapped[i] = <<"mark", 1>> => i = BodyLen + 1
<1>0. BodyLen \in Nat /\ MarkLen \in Nat \ {0} /\ StatusLen \in Nat
  BY Consts, PartsFacts
<1>1. Wrapped[i] \in Unit
  BY WrappedFacts, ElementOfSeq
<1>2. CASE i \in 1..BodyLen
  <2>1. Wrapped[i][1] = "half"
    BY <1>2, PartsFacts, WrappedFacts
  <2>. QED
    BY <1>1, <2>1 DEF Notice
<1>3. CASE i \in (BodyLen + 1)..(BodyLen + MarkLen)
  <2>1. i - BodyLen \in 1..MarkLen /\ BodyLen + (i - BodyLen) = i
    BY <1>0, <1>3
  <2>2. Wrapped[i] = <<"mark", i - BodyLen>>
    BY <2>1, WrappedFacts
  <2>3. Wrapped[i][1] = "mark" /\ Wrapped[i][2] = i - BodyLen
    BY <2>2
  <2>. QED
    BY <1>0, <1>1, <1>3, <2>3 DEF Notice
<1>4. CASE i > BodyLen + MarkLen
  <2>0. /\ Len(Wrapped) = BodyLen + MarkLen + StatusLen + 1 + trail
        /\ \A n \in 1..StatusLen : Wrapped[BodyLen + MarkLen + n][1] = "digit"
        /\ Wrapped[BodyLen + MarkLen + StatusLen + 1] = Newline
        /\ \A n \in 1..trail :
              Wrapped[BodyLen + MarkLen + StatusLen + 1 + n][1] = "trail"
    <3>1. /\ \A n \in 1..StatusLen : Wrapped[BodyLen + MarkLen + n] = Digits[n]
          /\ \A n \in 1..trail : Wrapped[BodyLen + MarkLen + StatusLen + 1 + n] = Trail[n]
          /\ Len(Wrapped) = BodyLen + MarkLen + StatusLen + 1 + trail
          /\ Wrapped[BodyLen + MarkLen + StatusLen + 1] = Newline
      BY WrappedFacts, Zenon
    <3>2. /\ \A n \in 1..StatusLen : Digits[n][1] = "digit"
          /\ \A n \in 1..trail : Trail[n][1] = "trail"
      BY PartsFacts, Zenon
    <3>3. \A n \in 1..StatusLen : Wrapped[BodyLen + MarkLen + n][1] = "digit"
      BY <3>1, <3>2
    <3>4. \A n \in 1..trail :
             Wrapped[BodyLen + MarkLen + StatusLen + 1 + n][1] = "trail"
      BY <3>1, <3>2
    <3>. QED
      BY <3>1, <3>3, <3>4, Zenon
  <2>1. /\ Wrapped[i][1] \in {"digit", "newline", "trail"}
        /\ Wrapped[i][1] = "digit" => i <= BodyLen + MarkLen + StatusLen
    <3>1. CASE i <= BodyLen + MarkLen + StatusLen
      <4>1. i - BodyLen - MarkLen \in 1..StatusLen
            /\ BodyLen + MarkLen + (i - BodyLen - MarkLen) = i
        BY <1>0, <1>4, <3>1
      <4>2. Wrapped[i][1] = "digit"
        BY <2>0, <4>1
      <4>. QED
        BY <3>1, <4>2, Zenon
    <3>2. CASE i = BodyLen + MarkLen + StatusLen + 1
      BY <2>0, <3>2 DEF Newline
    <3>3. CASE i > BodyLen + MarkLen + StatusLen + 1
      <4>1. i - BodyLen - MarkLen - StatusLen - 1 \in 1..trail
            /\ BodyLen + MarkLen + StatusLen + 1 + (i - BodyLen - MarkLen - StatusLen - 1) = i
        <5>1. /\ i \in Nat /\ i <= BodyLen + MarkLen + StatusLen + 1 + trail /\ trail \in Nat
              /\ BodyLen \in Nat /\ MarkLen \in Nat /\ StatusLen \in Nat
          BY <1>0, <2>0
        <5>. QED
          BY <3>3, <5>1
      <4>2. Wrapped[i][1] = "trail"
        BY <2>0, <4>1
      <4>. QED
        BY <4>2
    <3>. QED
      BY <1>0, <3>1, <3>2, <3>3
  <2>. QED
    BY <1>0, <1>1, <1>4, <2>1 DEF Notice
<1>. QED
  BY <1>0, <1>2, <1>3, <1>4

-----------------------------------------------------------------------------
LEMMA Least ==
  ASSUME NEW T, T \subseteq Nat, T # {}
  PROVE  \E x \in T : \A y \in T : x <= y
<1>. DEFINE R == OpToRel(<, Nat)
<1>1. IsWellFoundedOn(R, Nat)
  BY NatLessThanWellFounded
<1>2. \A x, y \in Nat : y < x => <<y, x>> \in R
  BY DEF OpToRel
<1>. HIDE DEF R
<1>3. PICK x \in T : \A y \in T : <<y, x>> \notin R
  BY <1>1, WFMin
<1>4. ASSUME NEW y \in T PROVE x <= y
  <2>1. x \in Nat /\ y \in Nat
    OBVIOUS
  <2>2. ~(y < x)
    BY <2>1, <1>2, <1>3, Zenon
  <2>. QED
    BY <2>1, <2>2, SMT
<1>. QED
  BY <1>4

\* A place in the ring is a place among the last units that came.
LEMMA InWindow ==
  ASSUME NEW n \in Nat, NEW t \in Nat, NEW p \in Nat, NEW i \in Nat,
         1 <= p, p <= i, i <= t, t <= n
  PROVE  n - t + (i - p) + 1 \in 1..n
<1>1. i - p \in 0..(t - 1)
  OBVIOUS
<1>2. \A d \in 0..(t - 1) : n - t + d + 1 \in 1..n
  OBVIOUS
<1>. QED
  BY <1>1, <1>2

\* One unit more goes round the ring.
LEMMA PutHolds ==
  ASSUME NEW units \in Seq(Unit), NEW u \in Unit, NEW r \in Rings, RingHolds(r, units)
  PROVE  Put(r, u) \in Rings /\ RingHolds(Put(r, u), Append(units, u))
<1>. DEFINE count == Len(units)
            more == Append(units, u)
            next == Put(r, u)
<1>0. TailMax \in Nat \ {0} /\ count \in Nat
  BY Consts, LenProperties
<1>1. /\ more \in Seq(Unit) /\ Len(more) = count + 1 /\ more[count + 1] = u
      /\ \A i \in 1..count : more[i] = units[i]
  BY <1>0, AppendProperties
<1>2. /\ r.pos \in 1..TailMax /\ r.buf \in Seq(Unit) /\ r.full \in BOOLEAN
      /\ r.omitted \in Nat /\ r.used \in BOOLEAN
      /\ r.full <=> count >= TailMax
      /\ r.omitted = IF count > TailMax THEN count - TailMax ELSE 0
      /\ Len(r.buf) = IF count < TailMax THEN count ELSE TailMax
      /\ count < TailMax => r.pos = count + 1
  BY DEF Rings, RingHolds, Lesser
<1>3. /\ next.buf = IF Len(r.buf) < TailMax THEN Append(r.buf, u)
                                            ELSE [r.buf EXCEPT ![r.pos] = u]
      /\ next.pos = IF r.pos = TailMax THEN 1 ELSE r.pos + 1
      /\ next.full <=> r.full \/ r.pos = TailMax
      /\ next.omitted = IF r.full THEN r.omitted + 1 ELSE r.omitted
      /\ next.used
  BY DEF Put
<1>3a. next.buf \in Seq(Unit) => next \in Rings
  <2>1. next.pos \in Nat /\ next.omitted \in Nat
    BY <1>0, <1>2, <1>3
  <2>2. next.full \in BOOLEAN /\ next.used \in BOOLEAN
    BY <1>2 DEF Put
  <2>3. next = [buf |-> next.buf, pos |-> next.pos, full |-> next.full,
                omitted |-> next.omitted, used |-> next.used]
    BY DEF Put
  <2>. HIDE DEF next
  <2>. QED
    BY <2>1, <2>2, <2>3 DEF Rings
<1>. HIDE DEF more, next
<1>3b. ASSUME next.pos \in 1..TailMax, next.buf \in Seq(Unit),
              Len(next.buf) = IF Len(more) < TailMax THEN Len(more) ELSE TailMax,
              Len(more) < TailMax =>
                 next.pos = Len(more) + 1 /\ \A i \in 1..Len(more) : next.buf[i] = more[i],
              Len(more) >= TailMax =>
                 /\ \A i \in next.pos..TailMax :
                       next.buf[i] = more[Len(more) - TailMax + (i - next.pos) + 1]
                 /\ \A i \in 1..(next.pos - 1) :
                       next.buf[i] = more[Len(more) - next.pos + 1 + i]
       PROVE  next \in Rings /\ RingHolds(next, more)
  <2>1. next.full <=> Len(more) >= TailMax
    BY <1>0, <1>1, <1>2, <1>3
  <2>2. next.used <=> Len(more) > 0
    BY <1>0, <1>1, <1>3
  <2>3. next.omitted = IF Len(more) > TailMax THEN Len(more) - TailMax ELSE 0
    BY <1>0, <1>1, <1>2, <1>3
  <2>4. Len(next.buf) = Lesser(Len(more), TailMax)
    BY <1>3b DEF Lesser
  <2>. QED
    BY <1>3a, <1>3b, <2>1, <2>2, <2>3, <2>4, Zenon DEF RingHolds
<1>. HIDE DEF count
<1>4. CASE count < TailMax
  <2>1. next.buf = Append(r.buf, u) /\ Len(r.buf) = count /\ r.pos = count + 1
    BY <1>2, <1>3, <1>4
  <2>2. /\ next.buf \in Seq(Unit) /\ Len(next.buf) = count + 1 /\ next.buf[count + 1] = u
        /\ \A i \in 1..count : next.buf[i] = r.buf[i]
    BY <1>2, <2>1, AppendProperties
  <2>3. \A i \in 1..(count + 1) : next.buf[i] = more[i]
    <3>1. \A i \in 1..count : r.buf[i] = units[i]
      BY <1>4 DEF RingHolds, count
    <3>. QED
      BY <1>0, <1>1, <2>2, <3>1
  <2>4. next.pos = IF count + 1 = TailMax THEN 1 ELSE count + 2
    BY <1>0, <1>3, <2>1
  <2>5. Len(more) >= TailMax =>
           \A i \in next.pos..TailMax :
              next.buf[i] = more[Len(more) - TailMax + (i - next.pos) + 1]
    <3>. SUFFICES ASSUME Len(more) >= TailMax, NEW i \in next.pos..TailMax
                  PROVE  next.buf[i] = more[Len(more) - TailMax + (i - next.pos) + 1]
      OBVIOUS
    <3>1. next.pos = 1 /\ Len(more) - TailMax + (i - next.pos) + 1 = i /\ i \in 1..(count + 1)
      BY <1>0, <1>1, <1>4, <2>4
    <3>. QED
      BY <2>3, <3>1
  <2>6. Len(more) >= TailMax => next.pos = 1
    BY <1>0, <1>1, <1>4, <2>4
  <2>7. /\ next.pos \in 1..TailMax
        /\ Len(next.buf) = IF Len(more) < TailMax THEN Len(more) ELSE TailMax
        /\ Len(more) < TailMax => next.pos = Len(more) + 1
    BY <1>0, <1>1, <1>4, <2>2, <2>4
  <2>8. Len(more) >= TailMax =>
           \A i \in 1..(next.pos - 1) : next.buf[i] = more[Len(more) - next.pos + 1 + i]
    BY <2>6
  <2>9. \A i \in 1..Len(more) : next.buf[i] = more[i]
    BY <1>1, <2>3
  <2>10. next \in Rings /\ RingHolds(next, more)
    BY <1>3b, <2>2, <2>5, <2>7, <2>8, <2>9, Zenon
  <2>. QED
    BY <2>10 DEF next, more
<1>5. CASE count >= TailMax
  <2>1. /\ next.buf = [r.buf EXCEPT ![r.pos] = u] /\ Len(r.buf) = TailMax
        /\ \A i \in r.pos..TailMax : r.buf[i] = units[count - TailMax + (i - r.pos) + 1]
        /\ \A i \in 1..(r.pos - 1) : r.buf[i] = units[count - r.pos + 1 + i]
    BY <1>0, <1>2, <1>3, <1>5 DEF RingHolds, count
  <2>2. /\ next.buf \in Seq(Unit) /\ Len(next.buf) = TailMax /\ next.buf[r.pos] = u
        /\ \A i \in 1..TailMax : i # r.pos => next.buf[i] = r.buf[i]
    BY <1>0, <1>2, <2>1, ExceptSeq
  <2>4. next.pos \in 1..TailMax
    <3>1. TailMax \in Nat \ {0} /\ r.pos \in 1..TailMax
      BY <1>0, <1>2
    <3>2. next.pos = IF r.pos = TailMax THEN 1 ELSE r.pos + 1
      BY <1>3
    <3>. QED
      BY <3>1, <3>2
  <2>5. ASSUME NEW i \in next.pos..TailMax
        PROVE  next.buf[i] = more[Len(more) - TailMax + (i - next.pos) + 1]
    <3>1. CASE r.pos = TailMax
      <4>1. next.pos = 1 /\ i \in 1..TailMax
        BY <1>3, <2>5, <3>1
      <4>2. CASE i = TailMax
        <5>1. Len(more) - TailMax + (i - next.pos) + 1 = count + 1
          BY <1>0, <1>1, <4>1, <4>2
        <5>. QED
          BY <1>1, <2>2, <3>1, <4>2, <5>1
      <4>3. CASE i < TailMax
        <5>1. i \in 1..(r.pos - 1) /\ count - r.pos + 1 + i \in 1..count
              /\ Len(more) - TailMax + (i - next.pos) + 1 = count - r.pos + 1 + i
          BY <1>0, <1>1, <1>5, <3>1, <4>1, <4>3
        <5>2. next.buf[i] = r.buf[i]
          BY <2>2, <3>1, <4>1, <4>3
        <5>3. r.buf[i] = units[count - r.pos + 1 + i]
          BY <2>1, <5>1
        <5>. QED
          BY <1>1, <5>1, <5>2, <5>3
      <4>. QED
        BY <1>0, <4>1, <4>2, <4>3
    <3>2. CASE r.pos # TailMax
      <4>1. next.pos = r.pos + 1
        BY <1>3, <3>2
      <4>2. /\ i \in r.pos..TailMax /\ i # r.pos /\ i \in 1..TailMax
            /\ count - TailMax + (i - r.pos) + 1 \in 1..count
            /\ Len(more) - TailMax + (i - next.pos) + 1 = count - TailMax + (i - r.pos) + 1
        <5>1. i \in (r.pos + 1)..TailMax /\ r.pos \in 1..TailMax /\ count >= TailMax
          BY <1>2, <1>5, <2>5, <4>1
        <5>2. Len(more) = count + 1
          BY <1>1
        <5>3. i \in Nat /\ r.pos \in Nat /\ next.pos \in Nat
          BY <1>0, <4>1, <5>1
        <5>4. i \in r.pos..TailMax /\ i # r.pos /\ i \in 1..TailMax
          BY <1>0, <5>1, <5>3
        <5>5. count - TailMax + (i - r.pos) + 1 \in 1..count
          <6>1. r.pos <= i /\ 1 <= r.pos /\ i <= TailMax /\ TailMax <= count
            BY <1>0, <5>1, <5>3
          <6>2. TailMax \in Nat /\ count \in Nat
            BY <1>0
          <6>. QED
            BY <5>3, <6>1, <6>2, InWindow
        <5>6. Len(more) - TailMax + (i - next.pos) + 1 = count - TailMax + (i - r.pos) + 1
          BY <1>0, <4>1, <5>2, <5>3
        <5>. QED
          BY <5>4, <5>5, <5>6
      <4>3. next.buf[i] = r.buf[i]
        BY <2>2, <4>2
      <4>4. r.buf[i] = units[count - TailMax + (i - r.pos) + 1]
        BY <2>1, <4>2
      <4>5. more[count - TailMax + (i - r.pos) + 1] = units[count - TailMax + (i - r.pos) + 1]
        BY <1>1, <4>2
      <4>. QED
        BY <4>2, <4>3, <4>4, <4>5
    <3>. QED
      BY <3>1, <3>2
  <2>6. ASSUME NEW i \in 1..(next.pos - 1)
        PROVE  next.buf[i] = more[Len(more) - next.pos + 1 + i]
    <3>1. next.pos = r.pos + 1 /\ i \in 1..r.pos /\ r.pos < TailMax
      BY <1>0, <1>2, <1>3, <2>6
    <3>2. CASE i = r.pos
      <4>1. Len(more) - next.pos + 1 + i = count + 1
        BY <1>0, <1>1, <3>1, <3>2
      <4>. QED
        BY <1>1, <2>2, <3>2, <4>1
    <3>3. CASE i < r.pos
      <4>1. /\ i \in 1..(r.pos - 1) /\ i \in 1..TailMax /\ i # r.pos
            /\ count - r.pos + 1 + i \in 1..count
            /\ Len(more) - next.pos + 1 + i = count - r.pos + 1 + i
        <5>1. r.pos \in Nat /\ count >= TailMax /\ i \in 1..r.pos
          BY <1>0, <1>2, <1>5, <3>1
        <5>2. Len(more) = count + 1
          BY <1>1
        <5>. QED
          BY <1>0, <3>1, <3>3, <5>1, <5>2
      <4>2. next.buf[i] = r.buf[i]
        BY <2>2, <4>1
      <4>3. r.buf[i] = units[count - r.pos + 1 + i]
        BY <2>1, <4>1
      <4>4. more[count - r.pos + 1 + i] = units[count - r.pos + 1 + i]
        BY <1>1, <4>1
      <4>. QED
        BY <4>1, <4>2, <4>3, <4>4
    <3>. QED
      BY <1>2, <3>1, <3>2, <3>3
  <2>7. /\ Len(next.buf) = IF Len(more) < TailMax THEN Len(more) ELSE TailMax
        /\ ~(Len(more) < TailMax)
    BY <1>0, <1>1, <1>5, <2>2
  <2>8. next \in Rings /\ RingHolds(next, more)
    BY <1>3b, <2>2, <2>4, <2>5, <2>6, <2>7, Zenon
  <2>. QED
    BY <2>8 DEF next, more
<1>. QED
  BY <1>0, <1>4, <1>5

\* The loop of capWriter.Write leaves the ring as if its units had come one by one:
\* were there a shortest piece that it does not treat so, a shorter one would do.
LEMMA PutAllHolds ==
  ASSUME NEW units \in Seq(Unit), NEW piece \in Seq(Unit), NEW r \in Rings,
         RingHolds(r, units)
  PROVE  PutAll(r, piece) \in Rings /\ RingHolds(PutAll(r, piece), units \o piece)
<1>. DEFINE N == Len(piece)
            Loop(n, f) == f = [k \in 0..n |-> IF k = 0 THEN r ELSE Put(f[k - 1], piece[k])]
            Good(n, f) == \A k \in 0..n :
                             f[k] \in Rings /\ RingHolds(f[k], units \o SubSeq(piece, 1, k))
            Wrong == {n \in 0..N : ~(\E f : Loop(n, f)) \/ ~(\A f : Loop(n, f) => Good(n, f))}
<1>0. N \in Nat /\ \A k \in 1..N : piece[k] \in Unit
  BY LenProperties, ElementOfSeq
<1>1. \A k \in 0..N : SubSeq(piece, 1, k) \in Seq(Unit)
  BY <1>0, SubSeqProperties
<1>2. units \o SubSeq(piece, 1, 0) = units
  BY SubSeqEmpty, ConcatEmptySeq
<1>3. \A k \in 1..N :
         units \o SubSeq(piece, 1, k) = Append(units \o SubSeq(piece, 1, k - 1), piece[k])
  <2>. TAKE k \in 1..N
  <2>1. SubSeq(piece, 1, k) = Append(SubSeq(piece, 1, k - 1), piece[k])
    BY <1>0
  <2>2. SubSeq(piece, 1, k - 1) \in Seq(Unit) /\ piece[k] \in Unit
    BY <1>0, <1>1
  <2>. QED
    BY <2>1, <2>2, AppendLast
<1>4. Wrong = {}
  <2>. SUFFICES ASSUME Wrong # {} PROVE FALSE
    OBVIOUS
  <2>0. Wrong \subseteq Nat
    BY <1>0
  <2>1. PICK n \in Wrong : \A m \in Wrong : n <= m
    <3>. HIDE DEF Wrong
    <3>. QED
      BY <2>0, Least
  <2>2. CASE n = 0
    <3>1. Loop(0, [k \in 0..0 |-> r])
      OBVIOUS
    <3>2. ASSUME NEW f, Loop(0, f) PROVE Good(0, f)
      <4>1. f[0] = r
        BY <3>2
      <4>2. \A k \in 0..0 : f[k] \in Rings /\ RingHolds(f[k], units \o SubSeq(piece, 1, k))
        <5>. TAKE k \in 0..0
        <5>1. k = 0
          OBVIOUS
        <5>. QED
          BY <1>2, <4>1, <5>1, Zenon
      <4>. QED
        BY <4>2
    <3>. HIDE DEF Loop, Good
    <3>. QED
      BY <2>1, <2>2, <3>1, <3>2
  <2>3. CASE n # 0
    <3>1. n - 1 \in 0..N /\ n \in 1..N /\ n - 1 \notin Wrong
      <4>1. n \in 0..N
        OBVIOUS
      <4>. HIDE DEF Wrong, N
      <4>. QED
        BY <1>0, <2>0, <2>1, <2>3, <4>1
    <3>2. PICK f : Loop(n - 1, f)
      BY <3>1
    <3>3. \E g : Loop(n, g)
      <4>. DEFINE g == [k \in 0..n |-> IF k = n THEN Put(f[n - 1], piece[n]) ELSE f[k]]
      <4>1. \A k \in 0..n : g[k] = IF k = 0 THEN r ELSE Put(g[k - 1], piece[k])
        <5>. TAKE k \in 0..n
        <5>1. CASE k = n
          BY <3>1, <5>1
        <5>2. CASE k # n
          <6>1. k \in 0..(n - 1)
            BY <3>1, <5>2
          <6>2. f[k] = IF k = 0 THEN r ELSE Put(f[k - 1], piece[k])
            BY <3>2, <6>1
          <6>3. k # 0 => g[k - 1] = f[k - 1]
            BY <3>1, <6>1
          <6>. QED
            BY <5>2, <6>2, <6>3
        <5>. QED
          BY <5>1, <5>2
      <4>2. Loop(n, g)
        <5>. HIDE DEF N
        <5>1. g = [k \in 0..n |-> g[k]]
          OBVIOUS
        <5>. QED
          BY <4>1, <5>1
      <4>. QED
        BY <4>2
    <3>4. ASSUME NEW g, Loop(n, g) PROVE Good(n, g)
      <4>1. \A k \in 0..n : g[k] = IF k = 0 THEN r ELSE Put(g[k - 1], piece[k])
        BY <3>4
      <4>. DEFINE h == [k \in 0..(n - 1) |-> g[k]]
      <4>2. Loop(n - 1, h)
        <5>1. \A k \in 0..(n - 1) : h[k] = IF k = 0 THEN r ELSE Put(h[k - 1], piece[k])
          BY <3>1, <4>1
        <5>2. h = [k \in 0..(n - 1) |-> h[k]]
          OBVIOUS
        <5>. QED
          BY <5>1, <5>2
      <4>3. Good(n - 1, h)
        BY <3>1, <4>2
      <4>4. \A k \in 0..(n - 1) : g[k] \in Rings /\ RingHolds(g[k], units \o SubSeq(piece, 1, k))
        BY <4>3
      <4>5. g[n] = Put(g[n - 1], piece[n]) /\ n - 1 \in 0..(n - 1)
        BY <3>1, <4>1
      <4>6. units \o SubSeq(piece, 1, n - 1) \in Seq(Unit) /\ piece[n] \in Unit
        BY <1>0, <1>1, <3>1, ConcatProperties
      <4>7. g[n] \in Rings /\ RingHolds(g[n], units \o SubSeq(piece, 1, n))
        <5>1. g[n - 1] \in Rings /\ RingHolds(g[n - 1], units \o SubSeq(piece, 1, n - 1))
          BY <4>4, <4>5
        <5>2. units \o SubSeq(piece, 1, n) = Append(units \o SubSeq(piece, 1, n - 1), piece[n])
          BY <1>3, <3>1
        <5>3. /\ Put(g[n - 1], piece[n]) \in Rings
              /\ RingHolds(Put(g[n - 1], piece[n]),
                           Append(units \o SubSeq(piece, 1, n - 1), piece[n]))
          BY <4>6, <5>1, PutHolds, Zenon
        <5>4. g[n] = Put(g[n - 1], piece[n])
          BY <4>5
        <5>. QED
          BY <5>2, <5>3, <5>4, Zenon
      <4>. QED
        BY <3>1, <4>4, <4>7
    <3>. QED
      BY <2>1, <3>3, <3>4
  <2>. HIDE DEF Wrong
  <2>. QED
    BY <2>2, <2>3
<1>5. N \notin Wrong /\ N \in 0..N
  <2>1. N \in 0..N
    BY <1>0
  <2>. HIDE DEF Wrong
  <2>. QED
    BY <1>4, <2>1
<1>. DEFINE loop == CHOOSE f : Loop(N, f)
<1>6. Loop(N, loop)
  BY <1>5
<1>7. Good(N, loop)
  BY <1>5, <1>6
<1>8. PutAll(r, piece) = loop[N]
  BY DEF PutAll
<1>9. SubSeq(piece, 1, N) = piece
  BY SubSeqFull
<1>. QED
  BY <1>5, <1>7, <1>8, <1>9


-----------------------------------------------------------------------------
LEMMA CutFacts ==
  ASSUME NEW s \in Seq(Unit), NEW m \in Nat \ {0}, NEW n \in Nat, m <= n + 1, n <= Len(s)
  PROVE  /\ SubSeq(s, m, n) \in Seq(Unit) /\ Len(SubSeq(s, m, n)) = n - m + 1
         /\ \A i \in 1..(n - m + 1) : SubSeq(s, m, n)[i] = s[m + i - 1]
<1>1. \A i \in m..n : s[i] \in Unit
  BY LenProperties, ElementOfSeq
<1>2. m \in Int /\ n \in Int
  OBVIOUS
<1>3. /\ SubSeq(s, m, n) \in Seq(Unit)
      /\ Len(SubSeq(s, m, n)) = IF m <= n THEN n - m + 1 ELSE 0
      /\ \A i \in 1..(n - m + 1) : SubSeq(s, m, n)[i] = s[m + i - 1]
  BY <1>1, <1>2, SubSeqProperties
<1>4. n - m + 1 = IF m <= n THEN n - m + 1 ELSE 0
  OBVIOUS
<1>. QED
  BY <1>3, <1>4

\* The same, of a cut that has a name.
LEMMA Stretch ==
  ASSUME NEW s \in Seq(Unit), NEW m \in Nat \ {0}, NEW n \in Nat, m <= n + 1, n <= Len(s),
         NEW t, t = SubSeq(s, m, n)
  PROVE  /\ t \in Seq(Unit) /\ Len(t) = n - m + 1
         /\ \A i \in 1..(n - m + 1) : t[i] = s[m + i - 1]
BY CutFacts

\* Two cuts side by side are one.
LEMMA Adjacent ==
  ASSUME NEW s \in Seq(Unit), NEW m \in Nat \ {0}, NEW k \in Nat, NEW n \in Nat,
         m <= k + 1, k <= n, n <= Len(s)
  PROVE  SubSeq(s, m, k) \o SubSeq(s, k + 1, n) = SubSeq(s, m, n)
<1>1. Len(s) \in Nat
  BY LenProperties
<1>2. m \in 1..Len(s) + 1 /\ k \in m - 1..Len(s) /\ n \in k..Len(s)
  BY <1>1
<1>. QED
  BY <1>2, ConcatAdjacentSubSeq

\* Where a marker is.
LEMMA MarkPlace ==
  ASSUME records \in Nat, trail \in Nat, NEW out \in Seq(Unit), NEW at
  PROVE  at \in MarksIn(out) <=>
            /\ at \in 1..(Len(out) - MarkLen + 1)
            /\ \A k \in 1..MarkLen : out[at + k - 1] = <<"mark", k>>
<1>0. MarkLen \in Nat \ {0} /\ Len(out) \in Nat
  BY Consts, LenProperties
<1>1. Mark \in Seq(Unit) /\ Len(Mark) = MarkLen /\ \A k \in 1..MarkLen : Mark[k] = <<"mark", k>>
  BY PartsFacts
<1>. SUFFICES ASSUME at \in 1..(Len(out) - MarkLen + 1)
              PROVE  SubSeq(out, at, at + MarkLen - 1) = Mark
                        <=> \A k \in 1..MarkLen : out[at + k - 1] = <<"mark", k>>
  BY DEF MarksIn
<1>. DEFINE cut == SubSeq(out, at, at + MarkLen - 1)
<1>2. /\ at \in Nat \ {0} /\ at + MarkLen - 1 \in Nat /\ at <= (at + MarkLen - 1) + 1
      /\ at + MarkLen - 1 <= Len(out) /\ (at + MarkLen - 1) - at + 1 = MarkLen
  BY <1>0
<1>3. cut \in Seq(Unit) /\ Len(cut) = MarkLen /\ \A k \in 1..MarkLen : cut[k] = out[at + k - 1]
  BY <1>2, Stretch
<1>. HIDE DEF cut
<1>4. cut = Mark <=> \A k \in 1..MarkLen : cut[k] = Mark[k]
  BY <1>1, <1>3, SeqEqual
<1>. QED
  BY <1>1, <1>3, <1>4 DEF cut

\* Among places there is a last one.
LEMMA Last ==
  ASSUME NEW n \in Nat, NEW T, T \subseteq 1..n, T # {}
  PROVE  LET at == CHOOSE i \in T : \A j \in T : j <= i
         IN  at \in T /\ \A j \in T : j <= at
<1>. DEFINE D == {n - i : i \in T}
<1>1. D \subseteq Nat /\ D # {}
  <2>1. ASSUME NEW i \in T PROVE n - i \in Nat
    <3>1. i \in 1..n
      OBVIOUS
    <3>. QED
      BY <3>1
  <2>. QED
    BY <2>1
<1>2. PICK x \in D : \A y \in D : x <= y
  <2>. HIDE DEF D
  <2>. QED
    BY <1>1, Least
<1>3. PICK i \in T : x = n - i
  OBVIOUS
<1>4. ASSUME NEW j \in T PROVE j <= i
  <2>1. n - i <= n - j
    BY <1>2, <1>3
  <2>2. i \in 1..n /\ j \in 1..n
    OBVIOUS
  <2>. QED
    BY <2>1, <2>2
<1>. QED
  BY <1>4

LEMMA LastMark ==
  ASSUME records \in Nat, trail \in Nat, NEW out \in Seq(Unit), MarksIn(out) # {},
         NEW at, at = CHOOSE i \in MarksIn(out) : \A j \in MarksIn(out) : j <= i
  PROVE  at \in MarksIn(out)
<1>1. Len(out) \in Nat /\ MarkLen \in Nat \ {0}
  BY Consts, LenProperties
<1>2. MarksIn(out) \subseteq 1..Len(out)
  BY <1>1 DEF MarksIn
<1>. QED
  BY <1>1, <1>2, Last

\* What a successful split found: a marker, and digits behind it.
LEMMA SplitFinds ==
  ASSUME records \in Nat, trail \in Nat, NEW out \in Seq(Unit), Split(out).ok
  PROVE  \E at \in MarksIn(out) : \E m \in Nat \ {0} :
            /\ Split(out).out = SubSeq(out, 1, at - 1)
            /\ Split(out).code \in Seq(Unit) /\ Len(Split(out).code) = m
            /\ at + MarkLen + m - 1 <= Len(out)
            /\ \A k \in 1..m : /\ Split(out).code[k] = out[at + MarkLen + k - 1]
                               /\ Split(out).code[k][1] = "digit"
<1>. DEFINE at == CHOOSE i \in MarksIn(out) : \A j \in MarksIn(out) : j <= i
            behind == SubSeq(out, at + MarkLen, Len(out))
            lineEnds == {i \in DOMAIN behind : behind[i] \in {Newline, Notice}}
            first == CHOOSE i \in lineEnds : \A j \in lineEnds : i <= j
            code == Split(out).code
<1>0. Len(out) \in Nat /\ MarkLen \in Nat \ {0}
  BY Consts, LenProperties
<1>1. /\ MarksIn(out) # {} /\ IsNumber(code) /\ code = StatusAt(out, at)
      /\ Split(out).out = SubSeq(out, 1, at - 1)
  BY DEF Split
<1>2. at \in MarksIn(out)
  BY <1>1, LastMark
<1>. HIDE DEF at
<1>3. at \in 1..(Len(out) - MarkLen + 1)
  BY <1>2 DEF MarksIn
<1>4. /\ behind \in Seq(Unit) /\ Len(behind) = Len(out) - at - MarkLen + 1
      /\ \A i \in 1..Len(behind) : behind[i] = out[at + MarkLen + i - 1]
  <2>1. /\ at + MarkLen \in Nat \ {0} /\ at + MarkLen <= Len(out) + 1
        /\ Len(out) - (at + MarkLen) + 1 = Len(out) - at - MarkLen + 1
    BY <1>0, <1>3
  <2>2. /\ behind \in Seq(Unit) /\ Len(behind) = Len(out) - (at + MarkLen) + 1
        /\ \A i \in 1..(Len(out) - (at + MarkLen) + 1) : behind[i] = out[(at + MarkLen) + i - 1]
    BY <1>0, <2>1, Stretch
  <2>. HIDE DEF behind
  <2>. QED
    BY <2>1, <2>2
<1>5. code = IF lineEnds = {} THEN behind ELSE SubSeq(behind, 1, first - 1)
  BY <1>1 DEF StatusAt
<1>. HIDE DEF behind
<1>6. DOMAIN behind = 1..Len(behind) /\ Len(behind) \in Nat
  BY <1>4, LenProperties
<1>7. /\ code \in Seq(Unit) /\ Len(code) <= Len(behind)
      /\ \A i \in 1..Len(code) : code[i] = behind[i]
  <2>1. CASE lineEnds = {}
    BY <1>4, <1>5, <1>6, <2>1
  <2>2. CASE lineEnds # {}
    <3>1. first \in lineEnds /\ first \in 1..Len(behind)
      <4>1. lineEnds \subseteq Nat
        BY <1>6
      <4>2. \E i \in lineEnds : \A j \in lineEnds : i <= j
        <5>. HIDE DEF lineEnds
        <5>. QED
          BY <2>2, <4>1, Least
      <4>. QED
        BY <1>6, <4>2
    <3>2. code = SubSeq(behind, 1, first - 1)
      BY <1>5, <2>2
    <3>. HIDE DEF first, lineEnds, code
    <3>3. first - 1 \in Nat /\ 1 <= (first - 1) + 1 /\ first - 1 <= Len(behind)
          /\ (first - 1) - 1 + 1 = first - 1 /\ 1 \in Nat \ {0}
      BY <1>6, <3>1
    <3>4. /\ code \in Seq(Unit) /\ Len(code) = (first - 1) - 1 + 1
          /\ \A i \in 1..((first - 1) - 1 + 1) : code[i] = behind[1 + i - 1]
      BY <1>4, <3>2, <3>3, Stretch
    <3>. QED
      BY <3>3, <3>4
  <2>. QED
    BY <2>1, <2>2
<1>. HIDE DEF lineEnds, first, code
<1>8. /\ code # <<>> /\ DOMAIN code = 1..Len(code) /\ Len(code) \in Nat
      /\ \A i \in 1..Len(code) : code[i][1] = "digit"
  BY <1>1, <1>7, LenProperties DEF IsNumber
<1>9. Len(code) \in Nat \ {0}
  BY <1>7, <1>8, EmptySeq
<1>10. at + MarkLen + Len(code) - 1 <= Len(out)
  BY <1>0, <1>3, <1>4, <1>6, <1>7, <1>9
<1>11. ASSUME NEW k \in 1..Len(code)
       PROVE  code[k] = out[at + MarkLen + k - 1] /\ code[k][1] = "digit"
  <2>1. k \in 1..Len(behind) /\ code[k] = behind[k]
    BY <1>6, <1>7, <1>9
  <2>2. behind[k] = out[at + MarkLen + k - 1]
    BY <1>4, <2>1
  <2>3. code[k][1] = "digit"
    BY <1>8, Zenon
  <2>. QED
    BY <2>1, <2>2, <2>3
<1>12. /\ Split(out).out = SubSeq(out, 1, at - 1)
       /\ code \in Seq(Unit) /\ Len(code) = Len(code)
       /\ at + MarkLen + Len(code) - 1 <= Len(out)
       /\ \A k \in 1..Len(code) : /\ code[k] = out[at + MarkLen + k - 1]
                                  /\ code[k][1] = "digit"
  BY <1>1, <1>7, <1>10, <1>11
<1>. QED
  BY <1>2, <1>9, <1>12 DEF code

-----------------------------------------------------------------------------
\* What is read without a gap is a stretch of what arrived.
Unbroken(out, n) ==
    \A a, b \in 1..Len(out) :
        (\A i \in a..b : out[i] # Notice)
            => \E d \in Int : \A i \in a..b : i + d \in 1..n /\ out[i] = Wrapped[i + d]

\* A status is only found in what has the first digit of it, and is no other.
LEMMA NeedsMarker ==
  ASSUME records \in Nat, trail \in Nat, NEW n \in 0..Len(Wrapped), NEW out \in Seq(Unit),
         Unbroken(out, n), Split(out).ok
  PROVE  \E m \in 1..StatusLen : n >= BodyLen + MarkLen + m
                                 /\ Split(out).code = SubSeq(Digits, 1, m)
<1>. DEFINE code == Split(out).code
<1>1. PICK at \in MarksIn(out), m \in Nat \ {0} :
            /\ code \in Seq(Unit) /\ Len(code) = m
            /\ at + MarkLen + m - 1 <= Len(out)
            /\ \A k \in 1..m : /\ code[k] = out[at + MarkLen + k - 1]
                               /\ code[k][1] = "digit"
  BY SplitFinds
<1>. HIDE DEF code
<1>2. /\ Len(Wrapped) \in Nat /\ Wrapped \in Seq(Unit) /\ BodyLen \in Nat /\ MarkLen \in Nat \ {0}
      /\ StatusLen \in Nat \ {0} /\ Len(out) \in Nat
  BY WrappedFacts, LenProperties, PartsFacts, Consts
<1>3. /\ at \in 1..(Len(out) - MarkLen + 1)
      /\ \A k \in 1..MarkLen : out[at + k - 1] = <<"mark", k>>
  BY MarkPlace, Zenon
<1>. DEFINE b == at + MarkLen + m - 1
<1>4. /\ at \in 1..Len(out) /\ b \in 1..Len(out) /\ at \in at..b
      /\ \A k \in 1..m : at + MarkLen + k - 1 \in at..b
  <2>1. /\ at \in Nat /\ at >= 1 /\ m \in Nat /\ m >= 1 /\ b <= Len(out)
        /\ MarkLen \in Nat /\ MarkLen >= 1 /\ Len(out) \in Nat
    BY <1>1, <1>2, <1>3
  <2>2. b \in Nat /\ at <= b
    BY <2>1
  <2>3. at \in 1..Len(out) /\ b \in 1..Len(out) /\ at \in at..b
    BY <2>1, <2>2
  <2>4. ASSUME NEW k \in 1..m PROVE at + MarkLen + k - 1 \in at..b
    BY <2>1
  <2>. QED
    BY <2>3, <2>4
<1>5. ASSUME NEW i \in at..b PROVE out[i] # Notice
  <2>1. CASE i < at + MarkLen
    <3>1. i - at + 1 \in 1..MarkLen /\ at + (i - at + 1) - 1 = i
      BY <1>2, <1>3, <2>1
    <3>2. out[i] = <<"mark", i - at + 1>>
      BY <1>3, <3>1
    <3>. QED
      BY <3>2 DEF Notice
  <2>2. CASE ~(i < at + MarkLen)
    <3>1. i - at - MarkLen + 1 \in 1..m /\ at + MarkLen + (i - at - MarkLen + 1) - 1 = i
      BY <1>2, <1>3, <2>2
    <3>2. out[i][1] = "digit"
      BY <1>1, <3>1
    <3>. QED
      BY <3>2 DEF Notice
  <2>. QED
    BY <2>1, <2>2
<1>6. PICK d \in Int : \A i \in at..b : i + d \in 1..n /\ out[i] = Wrapped[i + d]
  BY <1>4, <1>5 DEF Unbroken
<1>7. at + d = BodyLen + 1
  <2>1. out[at] = <<"mark", 1>>
    <3>1. 1 \in 1..MarkLen /\ at + 1 - 1 = at
      BY <1>2, <1>3
    <3>. QED
      BY <1>3, <3>1
  <2>2. at + d \in 1..Len(Wrapped) /\ Wrapped[at + d] = <<"mark", 1>>
    BY <1>2, <1>4, <1>6, <2>1
  <2>. QED
    BY <2>2, KindsInOrder
<1>8. ASSUME NEW k \in 1..m
      PROVE  /\ BodyLen + MarkLen + k \in 1..n /\ k \in 1..StatusLen
             /\ code[k] = Digits[k]
  <2>1. at + MarkLen + k - 1 \in at..b /\ at + MarkLen + k - 1 + d = BodyLen + MarkLen + k
    <3>1. at \in Nat /\ MarkLen \in Nat /\ BodyLen \in Nat /\ k \in Nat /\ d \in Int
      BY <1>1, <1>2, <1>3, <1>6
    <3>2. at + MarkLen + k - 1 \in at..b
      BY <1>4
    <3>3. at + MarkLen + k - 1 + d = (at + d) + MarkLen + k - 1
      BY <3>1
    <3>4. (BodyLen + 1) + MarkLen + k - 1 = BodyLen + MarkLen + k
      BY <3>1
    <3>. QED
      BY <1>7, <3>2, <3>3, <3>4
  <2>2. BodyLen + MarkLen + k \in 1..n /\ code[k] = Wrapped[BodyLen + MarkLen + k]
    BY <1>1, <1>6, <2>1
  <2>3. BodyLen + MarkLen + k \in 1..Len(Wrapped)
    BY <1>2, <2>2
  <2>4. k \in 1..StatusLen
    <3>1. code[k][1] = "digit"
      BY <1>1
    <3>2. Wrapped[BodyLen + MarkLen + k][1] = "digit"
      BY <2>2, <3>1
    <3>3. BodyLen + MarkLen + k <= BodyLen + MarkLen + StatusLen
      BY <2>3, <3>2, KindsInOrder
    <3>. QED
      BY <1>2, <3>3
  <2>5. Wrapped[BodyLen + MarkLen + k] = Digits[k]
    BY <2>4, WrappedFacts
  <2>. QED
    BY <2>2, <2>4, <2>5
<1>9. m \in 1..m
  BY <1>1
<1>10. m \in 1..StatusLen /\ n >= BodyLen + MarkLen + m
  <2>1. m \in 1..StatusLen /\ BodyLen + MarkLen + m \in 1..n
    BY <1>8, <1>9
  <2>. QED
    BY <1>2, <2>1
<1>11. SubSeq(Digits, 1, m) = code
  <2>. DEFINE line == SubSeq(Digits, 1, m)
  <2>1. 1 \in Nat \ {0} /\ 1 <= m + 1 /\ m <= Len(Digits) /\ m - 1 + 1 = m /\ m \in Nat
        /\ Digits \in Seq(Unit)
    BY <1>1, <1>10, PartsFacts
  <2>2. /\ line \in Seq(Unit) /\ Len(line) = m - 1 + 1
        /\ \A i \in 1..(m - 1 + 1) : line[i] = Digits[1 + i - 1]
    BY <2>1, Stretch
  <2>. HIDE DEF line
  <2>3. \A i \in 1..m : line[i] = code[i]
    BY <1>8, <2>1, <2>2
  <2>4. line = code
    BY <1>1, <2>1, <2>2, <2>3, SeqEqual
  <2>. QED
    BY <2>4 DEF line
<1>. QED
  BY <1>10, <1>11 DEF code

\* A start of what the wrapper prints.
LEMMA Start ==
  ASSUME records \in Nat, trail \in Nat, NEW n \in 0..Len(Wrapped),
         NEW out, out = SubSeq(Wrapped, 1, n)
  PROVE  out \in Seq(Unit) /\ Len(out) = n /\ \A i \in 1..n : out[i] = Wrapped[i]
<1>0. Wrapped \in Seq(Unit) /\ Len(Wrapped) \in Nat
  BY WrappedFacts, LenProperties
<1>1. 1 \in Nat \ {0} /\ n \in Nat /\ 1 <= n + 1 /\ n <= Len(Wrapped) /\ n - 1 + 1 = n
  BY <1>0
<1>2. /\ out \in Seq(Unit) /\ Len(out) = n - 1 + 1
      /\ \A i \in 1..(n - 1 + 1) : out[i] = Wrapped[1 + i - 1]
  BY <1>0, <1>1, Stretch
<1>. QED
  BY <1>1, <1>2

\* What comes before the marker in a start of the wrapper's output.
LEMMA PrefixSplit ==
  ASSUME records \in Nat, trail \in Nat, NEW n \in 0..Len(Wrapped),
         NEW out, out = SubSeq(Wrapped, 1, n), Split(out).ok
  PROVE  Split(out).out = Payload
<1>0. /\ Wrapped \in Seq(Unit) /\ Len(Wrapped) \in Nat
      /\ BodyLen \in Nat /\ MarkLen \in Nat \ {0}
  BY WrappedFacts, LenProperties, PartsFacts, Consts
<1>1. out \in Seq(Unit) /\ Len(out) = n /\ \A i \in 1..n : out[i] = Wrapped[i]
  BY Start
<1>2. PICK at \in MarksIn(out) : Split(out).out = SubSeq(out, 1, at - 1)
  BY <1>1, SplitFinds
<1>3. at \in 1..(n - MarkLen + 1) /\ out[at + 1 - 1] = <<"mark", 1>>
  <2>1. /\ at \in 1..(Len(out) - MarkLen + 1)
        /\ \A k \in 1..MarkLen : out[at + k - 1] = <<"mark", k>>
    BY <1>1, MarkPlace, Zenon
  <2>2. 1 \in 1..MarkLen
    BY <1>0
  <2>. QED
    BY <1>1, <2>1, <2>2
<1>4. at \in 1..Len(Wrapped) /\ at \in 1..n /\ Wrapped[at] = <<"mark", 1>>
  BY <1>0, <1>1, <1>3
<1>5. at = BodyLen + 1
  BY <1>4, KindsInOrder
<1>6. SubSeq(out, 1, BodyLen) \in Seq(Unit) /\ Len(SubSeq(out, 1, BodyLen)) = BodyLen
      /\ \A i \in 1..BodyLen : SubSeq(out, 1, BodyLen)[i] = out[i]
  <2>1. 1 \in Nat \ {0} /\ 1 <= BodyLen + 1 /\ BodyLen <= Len(out) /\ BodyLen - 1 + 1 = BodyLen
    BY <1>0, <1>1, <1>4, <1>5
  <2>. DEFINE cut == SubSeq(out, 1, BodyLen)
  <2>2. /\ cut \in Seq(Unit) /\ Len(cut) = BodyLen - 1 + 1
        /\ \A i \in 1..(BodyLen - 1 + 1) : cut[i] = out[1 + i - 1]
    BY <1>0, <1>1, <2>1, Stretch
  <2>. HIDE DEF cut
  <2>3. cut \in Seq(Unit) /\ Len(cut) = BodyLen /\ \A i \in 1..BodyLen : cut[i] = out[i]
    BY <2>1, <2>2
  <2>. QED
    BY <2>3 DEF cut
<1>7. Payload \in Seq(Unit) /\ Len(Payload) = BodyLen
      /\ \A i \in 1..BodyLen : out[i] = Payload[i]
  <2>1. Payload \in Seq(Unit) /\ Len(Payload) = BodyLen
    BY PartsFacts
  <2>2. \A i \in 1..BodyLen : Wrapped[i] = Payload[i]
    BY WrappedFacts
  <2>3. \A i \in 1..BodyLen : i \in 1..n
    BY <1>0, <1>4, <1>5
  <2>. QED
    BY <1>1, <2>1, <2>2, <2>3
<1>8. SubSeq(out, 1, BodyLen) = Payload
  <2>. DEFINE cut == SubSeq(out, 1, BodyLen)
  <2>1. /\ cut \in Seq(Unit) /\ Len(cut) = BodyLen /\ Len(Payload) = BodyLen
        /\ Payload \in Seq(Unit) /\ \A i \in 1..BodyLen : cut[i] = Payload[i]
    BY <1>6, <1>7
  <2>. HIDE DEF cut
  <2>2. cut = Payload
    BY <2>1, SeqEqual
  <2>. QED
    BY <2>2 DEF cut
<1>9. at - 1 = BodyLen
  BY <1>0, <1>5
<1>. QED
  BY <1>2, <1>8, <1>9

\* An output that ends like the wrapper's has the marker and the status in it,
\* whatever it begins with.
LEMMA SplitEnds ==
  ASSUME records \in Nat, trail \in Nat, NEW out \in Seq(Unit), NEW at \in Nat \ {0},
         Len(out) = at + MarkLen + StatusLen + trail,
         \A k \in 0..(MarkLen + StatusLen + trail) : out[at + k] = Wrapped[BodyLen + 1 + k],
         \A i \in 1..(at - 1) : out[i][1] # "mark"
  PROVE  /\ MarksIn(out) = {at}
         /\ Split(out) = [ok |-> TRUE, out |-> SubSeq(out, 1, at - 1), code |-> Digits]
<1>. DEFINE behind == SubSeq(out, at + MarkLen, Len(out))
            lineEnds == {i \in DOMAIN behind : behind[i] \in {Newline, Notice}}
            first == CHOOSE i \in lineEnds : \A j \in lineEnds : i <= j
<1>0. /\ Wrapped \in Seq(Unit) /\ Len(Wrapped) = BodyLen + MarkLen + StatusLen + 1 + trail
      /\ BodyLen \in Nat /\ MarkLen \in Nat \ {0} /\ StatusLen \in Nat \ {0}
      /\ Len(out) \in Nat
  BY WrappedFacts, LenProperties, PartsFacts, Consts
<1>1. at \in MarksIn(out)
  <2>1. at \in 1..(Len(out) - MarkLen + 1)
    BY <1>0
  <2>2. ASSUME NEW k \in 1..MarkLen PROVE out[at + k - 1] = <<"mark", k>>
    <3>1. k - 1 \in 0..(MarkLen + StatusLen + trail) /\ at + (k - 1) = at + k - 1
          /\ BodyLen + 1 + (k - 1) = BodyLen + k
      BY <1>0
    <3>2. Wrapped[BodyLen + k] = <<"mark", k>>
      BY WrappedFacts
    <3>3. out[at + (k - 1)] = Wrapped[BodyLen + 1 + (k - 1)]
      BY <3>1
    <3>. QED
      BY <3>1, <3>2, <3>3
  <2>. QED
    BY <2>1, <2>2, MarkPlace
<1>2. ASSUME NEW i \in MarksIn(out) PROVE i = at
  <2>1. i \in 1..(Len(out) - MarkLen + 1) /\ out[i + 1 - 1] = <<"mark", 1>>
    BY <1>0, MarkPlace
  <2>2. out[i] = <<"mark", 1>> /\ out[i][1] = "mark" /\ i \in Nat
    BY <2>1
  <2>3. ~(i < at)
    BY <2>1, <2>2
  <2>4. /\ i - at \in 0..(MarkLen + StatusLen + trail) /\ at + (i - at) = i
        /\ BodyLen + 1 + (i - at) \in 1..Len(Wrapped)
    BY <1>0, <2>1, <2>3
  <2>5. Wrapped[BodyLen + 1 + (i - at)] = <<"mark", 1>>
    BY <2>2, <2>4
  <2>6. BodyLen + 1 + (i - at) = BodyLen + 1
    BY <2>4, <2>5, KindsInOrder
  <2>. QED
    BY <1>0, <2>1, <2>6
<1>3. MarksIn(out) = {at}
  BY <1>1, <1>2
<1>4. (CHOOSE i \in MarksIn(out) : \A j \in MarksIn(out) : j <= i) = at
  BY <1>3
<1>5. /\ behind \in Seq(Unit) /\ Len(behind) = StatusLen + 1 + trail
      /\ \A i \in 1..(StatusLen + 1 + trail) : behind[i] = Wrapped[BodyLen + MarkLen + i]
  <2>1. /\ at + MarkLen \in Nat \ {0} /\ at + MarkLen <= Len(out) + 1
        /\ Len(out) - (at + MarkLen) + 1 = StatusLen + 1 + trail
    BY <1>0
  <2>2. /\ behind \in Seq(Unit) /\ Len(behind) = Len(out) - (at + MarkLen) + 1
        /\ \A i \in 1..(Len(out) - (at + MarkLen) + 1) : behind[i] = out[(at + MarkLen) + i - 1]
    BY <1>0, <2>1, Stretch
  <2>. HIDE DEF behind
  <2>3. ASSUME NEW i \in 1..(StatusLen + 1 + trail)
        PROVE  behind[i] = Wrapped[BodyLen + MarkLen + i]
    <3>1. MarkLen + i - 1 \in 0..(MarkLen + StatusLen + trail)
          /\ at + (MarkLen + i - 1) = (at + MarkLen) + i - 1
          /\ BodyLen + 1 + (MarkLen + i - 1) = BodyLen + MarkLen + i
      BY <1>0
    <3>2. behind[i] = out[(at + MarkLen) + i - 1]
      BY <2>1, <2>2
    <3>3. out[at + (MarkLen + i - 1)] = Wrapped[BodyLen + 1 + (MarkLen + i - 1)]
      BY <3>1
    <3>. QED
      BY <3>1, <3>2, <3>3
  <2>. QED
    BY <2>1, <2>2, <2>3
<1>6. StatusAt(out, at) = IF lineEnds = {} THEN behind ELSE SubSeq(behind, 1, first - 1)
  BY DEF StatusAt
<1>. HIDE DEF behind
<1>7. DOMAIN behind = 1..(StatusLen + 1 + trail)
  BY <1>5, LenProperties
<1>8. StatusLen + 1 \in lineEnds
  <2>1. StatusLen + 1 \in 1..(StatusLen + 1 + trail)
        /\ BodyLen + MarkLen + (StatusLen + 1) = BodyLen + MarkLen + StatusLen + 1
    BY <1>0
  <2>2. Wrapped[BodyLen + MarkLen + StatusLen + 1] = Newline
    BY WrappedFacts
  <2>3. behind[StatusLen + 1] = Newline
    BY <1>5, <2>1, <2>2
  <2>. QED
    BY <1>7, <2>1, <2>3
<1>9. ASSUME NEW i \in 1..StatusLen PROVE behind[i] = Digits[i] /\ behind[i] \notin {Newline, Notice}
  <2>1. Wrapped[BodyLen + MarkLen + i] = Digits[i]
    BY WrappedFacts
  <2>2. Digits[i][1] = "digit"
    BY PartsFacts
  <2>3. i \in 1..(StatusLen + 1 + trail)
    BY <1>0
  <2>4. behind[i] = Digits[i]
    BY <1>5, <2>1, <2>3
  <2>. QED
    BY <2>2, <2>4 DEF Newline, Notice
<1>10. ASSUME NEW j \in lineEnds PROVE StatusLen + 1 <= j
  <2>1. j \in 1..(StatusLen + 1 + trail) /\ behind[j] \in {Newline, Notice}
    BY <1>7
  <2>2. ~(j \in 1..StatusLen)
    BY <1>9, <2>1
  <2>. QED
    BY <1>0, <2>1, <2>2
<1>11. lineEnds \subseteq Nat
  BY <1>7
<1>. HIDE DEF lineEnds
<1>12. first = StatusLen + 1
  <2>1. \E i \in lineEnds : \A j \in lineEnds : i <= j
    BY <1>8, <1>10
  <2>2. first \in lineEnds /\ \A j \in lineEnds : first <= j
    BY <2>1
  <2>. HIDE DEF first
  <2>3. first \in Nat /\ first <= StatusLen + 1 /\ StatusLen + 1 <= first
    BY <1>8, <1>10, <1>11, <2>2
  <2>. QED
    BY <1>0, <2>3
<1>. HIDE DEF first
<1>13. SubSeq(behind, 1, StatusLen) = Digits
  <2>. DEFINE line == SubSeq(behind, 1, StatusLen)
  <2>1. 1 \in Nat \ {0} /\ 1 <= StatusLen + 1 /\ StatusLen <= Len(behind)
        /\ StatusLen - 1 + 1 = StatusLen /\ StatusLen \in Nat
    BY <1>0, <1>5
  <2>2. /\ line \in Seq(Unit) /\ Len(line) = StatusLen - 1 + 1
        /\ \A i \in 1..(StatusLen - 1 + 1) : line[i] = behind[1 + i - 1]
    BY <1>5, <2>1, Stretch
  <2>. HIDE DEF line
  <2>3. \A i \in 1..StatusLen : line[i] = Digits[i]
    BY <1>9, <2>1, <2>2
  <2>4. Digits \in Seq(Unit) /\ Len(Digits) = StatusLen
    BY PartsFacts
  <2>5. line = Digits
    BY <2>1, <2>2, <2>3, <2>4, SeqEqual
  <2>. QED
    BY <2>5 DEF line
<1>14. StatusAt(out, at) = Digits
  <2>1. StatusLen + 1 - 1 = StatusLen /\ lineEnds # {}
    BY <1>0, <1>8
  <2>2. first - 1 = StatusLen
    BY <1>0, <1>12
  <2>3. StatusAt(out, at) = SubSeq(behind, 1, first - 1)
    BY <1>6, <2>1, Zenon
  <2>. QED
    BY <1>13, <2>2, <2>3, Zenon
<1>15. IsNumber(StatusAt(out, at))
  <2>1. Digits # <<>> /\ \A i \in DOMAIN Digits : Digits[i][1] = "digit"
    <3>1. /\ Digits \in Seq(Unit) /\ Len(Digits) = StatusLen
          /\ \A i \in 1..StatusLen : Digits[i][1] = "digit"
      BY PartsFacts
    <3>. QED
      BY <1>0, <3>1, LenProperties, EmptySeq
  <2>. QED
    BY <1>14, <2>1 DEF IsNumber
<1>. QED
  BY <1>3, <1>4, <1>14, <1>15 DEF Split

-----------------------------------------------------------------------------
\* A sequence read from a place on, and then from its start to there.
TurnedAt(all, buf, pos) ==
    /\ all \in Seq(Unit) /\ Len(all) = Len(buf)
    /\ \A i \in 1..(Len(buf) - pos + 1) : all[i] = buf[pos + i - 1]
    /\ \A i \in 1..(pos - 1) : all[Len(buf) - pos + 1 + i] = buf[i]

LEMMA Turned ==
  ASSUME NEW buf \in Seq(Unit), NEW pos \in 1..Len(buf)
  PROVE  TurnedAt(SubSeq(buf, pos, Len(buf)) \o SubSeq(buf, 1, pos - 1), buf, pos)
<1>. DEFINE all == SubSeq(buf, pos, Len(buf)) \o SubSeq(buf, 1, pos - 1)
            old == SubSeq(buf, pos, Len(buf))
            new == SubSeq(buf, 1, pos - 1)
<1>0. Len(buf) \in Nat /\ pos \in Nat \ {0} /\ pos - 1 \in Nat /\ pos <= Len(buf)
  BY LenProperties
<1>1. /\ old \in Seq(Unit) /\ Len(old) = Len(buf) - pos + 1
      /\ \A i \in 1..(Len(buf) - pos + 1) : old[i] = buf[pos + i - 1]
  <2>1. pos <= Len(buf) + 1 /\ Len(buf) <= Len(buf)
    BY <1>0
  <2>. QED
    BY <1>0, <2>1, Stretch
<1>2. new \in Seq(Unit) /\ Len(new) = pos - 1 /\ \A i \in 1..(pos - 1) : new[i] = buf[i]
  <2>1. 1 \in Nat \ {0} /\ 1 <= (pos - 1) + 1 /\ pos - 1 <= Len(buf) /\ (pos - 1) - 1 + 1 = pos - 1
    BY <1>0
  <2>2. /\ new \in Seq(Unit) /\ Len(new) = (pos - 1) - 1 + 1
        /\ \A i \in 1..((pos - 1) - 1 + 1) : new[i] = buf[1 + i - 1]
    BY <1>0, <2>1, Stretch
  <2>. HIDE DEF new
  <2>. QED
    BY <2>1, <2>2
<1>3. all = old \o new
  OBVIOUS
<1>. HIDE DEF old, new, all
<1>4. old \in Seq(Unit) /\ new \in Seq(Unit)
  BY <1>1, <1>2
<1>5. Joint(all, old, new)
  BY <1>3, <1>4, Joined, Zenon
<1>6. /\ all \in Seq(Unit) /\ Len(all) = Len(old) + Len(new)
      /\ \A i \in 1..Len(old) : all[i] = old[i]
      /\ \A i \in 1..Len(new) : all[Len(old) + i] = new[i]
  BY <1>5 DEF Joint
<1>7. Len(all) = Len(buf)
  BY <1>0, <1>1, <1>2, <1>6
<1>8. TurnedAt(all, buf, pos)
  BY <1>0, <1>1, <1>2, <1>6, <1>7 DEF TurnedAt
<1>. QED
  BY <1>8 DEF all

\* What is read out of a ring: the last units, oldest first.
LEMMA RingSays ==
  ASSUME NEW units \in Seq(Unit), NEW r \in Rings, RingHolds(r, units)
  PROVE  LET count == Len(units)
         IN  /\ ~r.full => r.buf = units
             /\ r.full =>
                   SubSeq(r.buf, r.pos, TailMax) \o SubSeq(r.buf, 1, r.pos - 1)
                      = SubSeq(units, count - TailMax + 1, count)
<1>. DEFINE count == Len(units)
<1>0. /\ TailMax \in Nat \ {0} /\ count \in Nat /\ r.buf \in Seq(Unit)
      /\ r.pos \in 1..TailMax /\ Len(r.buf) = Lesser(count, TailMax)
      /\ r.full <=> count >= TailMax
  BY Consts, LenProperties DEF Rings, RingHolds
<1>1. ASSUME ~r.full PROVE r.buf = units
  <2>1. count < TailMax
    BY <1>0, <1>1
  <2>2. Len(r.buf) = count /\ \A i \in 1..count : r.buf[i] = units[i]
    BY <1>0, <2>1 DEF RingHolds, Lesser
  <2>. QED
    BY <1>0, <2>2, SeqEqual
<1>2. ASSUME r.full
      PROVE  SubSeq(r.buf, r.pos, TailMax) \o SubSeq(r.buf, 1, r.pos - 1)
                = SubSeq(units, count - TailMax + 1, count)
  <2>. DEFINE buf == r.buf
              pos == r.pos
              all == SubSeq(buf, pos, TailMax) \o SubSeq(buf, 1, pos - 1)
              last == SubSeq(units, count - TailMax + 1, count)
  <2>1. /\ count >= TailMax /\ Len(buf) = TailMax
        /\ \A i \in pos..TailMax : buf[i] = units[count - TailMax + (i - pos) + 1]
        /\ \A i \in 1..(pos - 1) : buf[i] = units[count - pos + 1 + i]
    BY <1>0, <1>2 DEF RingHolds, Lesser
  <2>2. buf \in Seq(Unit) /\ pos \in 1..TailMax
    BY <1>0
  <2>. HIDE DEF buf, pos
  <2>3. TurnedAt(all, buf, pos)
    <3>1. TurnedAt(SubSeq(buf, pos, Len(buf)) \o SubSeq(buf, 1, pos - 1), buf, pos)
      BY <2>1, <2>2, Turned
    <3>. QED
      BY <2>1, <3>1
  <2>4. /\ last \in Seq(Unit) /\ Len(last) = TailMax
        /\ \A i \in 1..TailMax : last[i] = units[count - TailMax + i]
    <3>1. count - TailMax + 1 \in Nat \ {0} /\ count - TailMax + 1 <= count + 1
          /\ count <= Len(units) /\ count - (count - TailMax + 1) + 1 = TailMax
      BY <1>0, <2>1
    <3>2. /\ last \in Seq(Unit) /\ Len(last) = count - (count - TailMax + 1) + 1
          /\ \A i \in 1..(count - (count - TailMax + 1) + 1) :
                last[i] = units[(count - TailMax + 1) + i - 1]
      BY <1>0, <3>1, Stretch
    <3>. HIDE DEF last, count
    <3>3. \A i \in 1..TailMax : (count - TailMax + 1) + i - 1 = count - TailMax + i
      BY <1>0
    <3>. QED
      BY <3>1, <3>2, <3>3
  <2>5. count \in Nat /\ TailMax \in Nat
    BY <1>0
  <2>. HIDE DEF all, last, count
  <2>6. /\ all \in Seq(Unit) /\ Len(all) = TailMax
        /\ \A i \in 1..(TailMax - pos + 1) : all[i] = buf[pos + i - 1]
        /\ \A i \in 1..(pos - 1) : all[TailMax - pos + 1 + i] = buf[i]
    BY <2>1, <2>3 DEF TurnedAt
  <2>7. ASSUME NEW i \in 1..TailMax PROVE all[i] = last[i]
    <3>1. CASE i <= TailMax - pos + 1
      <4>1. /\ i \in 1..(TailMax - pos + 1) /\ pos + i - 1 \in pos..TailMax
            /\ count - TailMax + ((pos + i - 1) - pos) + 1 = count - TailMax + i
        BY <2>2, <2>5, <3>1
      <4>2. buf[pos + i - 1] = units[count - TailMax + ((pos + i - 1) - pos) + 1]
        BY <2>1, <4>1
      <4>. QED
        BY <2>4, <2>6, <4>1, <4>2
    <3>2. CASE i > TailMax - pos + 1
      <4>. DEFINE k == i - (TailMax - pos + 1)
      <4>1. /\ k \in 1..(pos - 1) /\ TailMax - pos + 1 + k = i
            /\ count - pos + 1 + k = count - TailMax + i
        BY <2>2, <2>5, <3>2
      <4>. HIDE DEF k
      <4>2. all[i] = buf[k]
        BY <2>6, <4>1
      <4>3. buf[k] = units[count - pos + 1 + k]
        BY <2>1, <4>1
      <4>. QED
        BY <2>4, <4>1, <4>2, <4>3
    <3>. QED
      BY <2>2, <2>5, <3>1, <3>2
  <2>8. all = last
    BY <2>4, <2>6, <2>7, SeqEqual
  <2>. QED
    BY <2>8 DEF all, last, buf, pos
<1>. QED
  BY <1>1, <1>2

\* capWriter.Bytes: everything, or the start and the end of it with a notice
\* between them.
LEMMA BytesAre ==
  ASSUME records \in Nat, trail \in Nat, fed \in 0..Len(Wrapped),
         head = SubSeq(Wrapped, 1, Lesser(fed, HeadMax)), ring \in Rings,
         RingHolds(ring, SubSeq(Wrapped, Lesser(fed, HeadMax) + 1, fed))
  PROVE  /\ fed <= Limit => Bytes = SubSeq(Wrapped, 1, fed) /\ ring.omitted = 0
         /\ fed > Limit =>
               /\ ring.omitted > 0
               /\ Bytes = SubSeq(Wrapped, 1, HeadMax) \o <<Notice>>
                             \o SubSeq(Wrapped, fed - TailMax + 1, fed)
<1>. DEFINE from == Lesser(fed, HeadMax)
            units == SubSeq(Wrapped, from + 1, fed)
<1>0. /\ Wrapped \in Seq(Unit) /\ Len(Wrapped) \in Nat /\ fed \in Nat /\ fed <= Len(Wrapped)
      /\ TailMax \in Nat \ {0} /\ HeadMax \in Nat
  BY WrappedFacts, LenProperties, Consts
<1>1. Limit = HeadMax + TailMax
  <2>1. Limit \in Nat
    BY CommandAssumption DEF CommandAssumption
  <2>. QED
    BY <1>0, <2>1 DEF HeadMax
<1>2. /\ from = IF fed < HeadMax THEN fed ELSE HeadMax
      /\ from \in Nat /\ from <= fed
  BY <1>0 DEF Lesser
<1>3. /\ units \in Seq(Unit) /\ Len(units) = fed - from
      /\ \A i \in 1..(fed - from) : units[i] = Wrapped[from + i]
  <2>1. from + 1 \in Nat \ {0} /\ from + 1 <= fed + 1 /\ fed - (from + 1) + 1 = fed - from
        /\ \A i \in 1..(fed - from) : (from + 1) + i - 1 = from + i
    BY <1>0, <1>2
  <2>2. /\ units \in Seq(Unit) /\ Len(units) = fed - (from + 1) + 1
        /\ \A i \in 1..(fed - (from + 1) + 1) : units[i] = Wrapped[(from + 1) + i - 1]
    <3>1. units = SubSeq(Wrapped, from + 1, fed)
      OBVIOUS
    <3>. HIDE DEF units, from
    <3>. QED
      BY <1>0, <2>1, <3>1, Stretch
  <2>. HIDE DEF units, from
  <2>. QED
    BY <2>1, <2>2
<1>4. RingHolds(ring, units)
  OBVIOUS
<1>5. head \o units = SubSeq(Wrapped, 1, fed)
  <2>1. 1 \in Nat \ {0} /\ 1 <= from + 1
    BY <1>2
  <2>2. SubSeq(Wrapped, 1, from) \o SubSeq(Wrapped, from + 1, fed) = SubSeq(Wrapped, 1, fed)
    <3>. HIDE DEF from
    <3>. QED
      BY <1>0, <1>2, <2>1, Adjacent
  <2>. QED
    BY <2>2
<1>6. head = SubSeq(Wrapped, 1, from) /\ head \in Seq(Unit)
  <2>1. 1 \in Nat \ {0} /\ 1 <= from + 1 /\ from <= Len(Wrapped)
    BY <1>0, <1>2
  <2>2. SubSeq(Wrapped, 1, from) \in Seq(Unit)
    <3>. HIDE DEF from
    <3>. QED
      BY <1>0, <1>2, <2>1, Stretch
  <2>. QED
    BY <2>2
<1>. HIDE DEF units, from
<1>7. /\ ring.full <=> Len(units) >= TailMax
      /\ ring.used <=> Len(units) > 0
      /\ ring.omitted = IF Len(units) > TailMax THEN Len(units) - TailMax ELSE 0
  BY <1>4 DEF RingHolds
<1>8. /\ ~ring.full => ring.buf = units
      /\ ring.full =>
            SubSeq(ring.buf, ring.pos, TailMax) \o SubSeq(ring.buf, 1, ring.pos - 1)
               = SubSeq(units, Len(units) - TailMax + 1, Len(units))
  BY <1>3, <1>4, RingSays
<1>9. ring.full => ring.buf \in Seq(Unit) /\ ring.pos \in 1..TailMax /\ Len(ring.buf) = TailMax
  <2>1. Len(ring.buf) = Lesser(Len(units), TailMax)
    BY <1>4 DEF RingHolds
  <2>. QED
    BY <1>0, <1>2, <1>3, <1>4, <1>7, <2>1 DEF RingHolds, Rings, Lesser
<1>10. CASE fed <= Limit
  <2>0. ~(fed > Limit)
    BY <1>0, <1>1, <1>10
  <2>1. ring.omitted = 0
    BY <1>0, <1>1, <1>2, <1>3, <1>7, <1>10
  <2>1a. ~(ring.omitted > 0)
    BY <2>1
  <2>2. CASE ~ring.used
    <3>1. Len(units) = 0 /\ Bytes = head
      <4>1. Bytes = head
        BY <2>2, Zenon DEF Bytes
      <4>. QED
        BY <1>0, <1>2, <1>3, <1>7, <2>2, <4>1
    <3>2. units = <<>>
      BY <1>3, <3>1, EmptySeq
    <3>3. head \o units = head
      BY <1>6, <3>2, ConcatEmptySeq
    <3>4. Bytes = SubSeq(Wrapped, 1, fed)
      BY <1>5, <3>1, <3>3, Zenon
    <3>. QED
      BY <2>0, <2>1, <3>4, Zenon
  <2>3. CASE ring.used /\ ~ring.full
    <3>1. Bytes = head \o <<>> \o ring.buf
      BY <2>1a, <2>3, Zenon DEF Bytes
    <3>2. Bytes = head \o units
      BY <1>6, <1>8, <2>3, <3>1, ConcatEmptySeq
    <3>. QED
      BY <1>5, <2>0, <2>1, <3>2, Zenon
  <2>4. CASE ring.used /\ ring.full
    <3>1. Len(units) = TailMax
      BY <1>0, <1>1, <1>2, <1>3, <1>7, <1>10, <2>4
    <3>2. SubSeq(units, Len(units) - TailMax + 1, Len(units)) = units
      BY <1>0, <1>3, <3>1, SubSeqFull
    <3>3. Bytes = head \o <<>> \o SubSeq(ring.buf, ring.pos, TailMax)
                     \o SubSeq(ring.buf, 1, ring.pos - 1)
      BY <2>1a, <2>4, Zenon DEF Bytes
    <3>4. Bytes = head \o (SubSeq(ring.buf, ring.pos, TailMax) \o SubSeq(ring.buf, 1, ring.pos - 1))
      <4>1. SubSeq(ring.buf, ring.pos, TailMax) \in Seq(Unit)
            /\ SubSeq(ring.buf, 1, ring.pos - 1) \in Seq(Unit)
        <5>1. ring.buf \in Seq(Unit) /\ ring.pos \in 1..TailMax /\ Len(ring.buf) = TailMax
          BY <1>9, <2>4
        <5>2. SubSeq(ring.buf, ring.pos, TailMax) \in Seq(Unit)
          <6>1. ring.pos \in Nat \ {0} /\ TailMax \in Nat /\ ring.pos <= TailMax + 1 /\ TailMax <= Len(ring.buf)
            BY <1>0, <5>1
          <6>. QED
            BY <5>1, <6>1, Stretch
        <5>3. SubSeq(ring.buf, 1, ring.pos - 1) \in Seq(Unit)
          <6>1. 1 \in Nat \ {0} /\ ring.pos - 1 \in Nat /\ 1 <= (ring.pos - 1) + 1
                /\ ring.pos - 1 <= Len(ring.buf)
            BY <1>0, <5>1
          <6>. QED
            BY <5>1, <6>1, Stretch
        <5>. QED
          BY <5>2, <5>3
      <4>2. Bytes = head \o SubSeq(ring.buf, ring.pos, TailMax) \o SubSeq(ring.buf, 1, ring.pos - 1)
        BY <1>6, <3>3, ConcatEmptySeq
      <4>. QED
        BY <1>6, <4>1, <4>2, Regroup, Zenon
    <3>5. Bytes = head \o units
      BY <1>8, <2>4, <3>2, <3>4
    <3>. QED
      BY <1>5, <2>0, <2>1, <3>5, Zenon
  <2>. QED
    BY <2>2, <2>3, <2>4
<1>11. CASE fed > Limit
  <2>1. /\ from = HeadMax /\ Len(units) = fed - HeadMax /\ Len(units) > TailMax
        /\ ring.full /\ ring.used /\ ring.omitted > 0
    BY <1>0, <1>1, <1>2, <1>3, <1>7, <1>11
  <2>. DEFINE old == SubSeq(ring.buf, ring.pos, TailMax)
              new == SubSeq(ring.buf, 1, ring.pos - 1)
              tail == SubSeq(Wrapped, fed - TailMax + 1, fed)
  <2>2. Bytes = head \o <<Notice>> \o old \o new
    BY <2>1 DEF Bytes
  <2>3. old \in Seq(Unit) /\ new \in Seq(Unit)
    <3>1. ring.buf \in Seq(Unit) /\ ring.pos \in 1..TailMax /\ Len(ring.buf) = TailMax
      BY <1>9, <2>1
    <3>2. old \in Seq(Unit)
      <4>1. ring.pos \in Nat \ {0} /\ TailMax \in Nat /\ ring.pos <= TailMax + 1 /\ TailMax <= Len(ring.buf)
        BY <1>0, <3>1
      <4>. QED
        BY <3>1, <4>1, Stretch
    <3>3. new \in Seq(Unit)
      <4>1. 1 \in Nat \ {0} /\ ring.pos - 1 \in Nat /\ 1 <= (ring.pos - 1) + 1
            /\ ring.pos - 1 <= Len(ring.buf)
        BY <1>0, <3>1
      <4>. QED
        BY <3>1, <4>1, Stretch
    <3>. QED
      BY <3>2, <3>3
  <2>4. old \o new = SubSeq(units, Len(units) - TailMax + 1, Len(units))
    BY <1>8, <2>1
  <2>5. SubSeq(units, Len(units) - TailMax + 1, Len(units)) = tail
    <3>. DEFINE mine == SubSeq(units, Len(units) - TailMax + 1, Len(units))
    <3>1. /\ mine \in Seq(Unit) /\ Len(mine) = TailMax
          /\ \A i \in 1..TailMax : mine[i] = units[(Len(units) - TailMax + 1) + i - 1]
      <4>1. Len(units) - TailMax + 1 \in Nat \ {0} /\ Len(units) \in Nat
            /\ Len(units) - TailMax + 1 <= Len(units) + 1 /\ Len(units) <= Len(units)
            /\ Len(units) - (Len(units) - TailMax + 1) + 1 = TailMax
        BY <1>0, <1>2, <1>3, <2>1
      <4>0. mine = SubSeq(units, Len(units) - TailMax + 1, Len(units)) /\ units \in Seq(Unit)
        BY <1>3
      <4>. HIDE DEF mine
      <4>2. /\ mine \in Seq(Unit) /\ Len(mine) = Len(units) - (Len(units) - TailMax + 1) + 1
            /\ \A i \in 1..(Len(units) - (Len(units) - TailMax + 1) + 1) :
                  mine[i] = units[(Len(units) - TailMax + 1) + i - 1]
        BY <4>0, <4>1, Stretch
      <4>3. 1..TailMax = 1..(Len(units) - (Len(units) - TailMax + 1) + 1)
        BY <4>1, Zenon
      <4>. QED
        BY <4>1, <4>2, <4>3, Zenon
    <3>2. /\ tail \in Seq(Unit) /\ Len(tail) = TailMax
          /\ \A i \in 1..TailMax : tail[i] = Wrapped[(fed - TailMax + 1) + i - 1]
      <4>1. fed - TailMax + 1 \in Nat \ {0} /\ fed - TailMax + 1 <= fed + 1
            /\ fed - (fed - TailMax + 1) + 1 = TailMax
        BY <1>0, <1>1, <1>11
      <4>2. /\ tail \in Seq(Unit) /\ Len(tail) = fed - (fed - TailMax + 1) + 1
            /\ \A i \in 1..(fed - (fed - TailMax + 1) + 1) :
                  tail[i] = Wrapped[(fed - TailMax + 1) + i - 1]
        BY <1>0, <4>1, Stretch
      <4>. HIDE DEF tail
      <4>. QED
        BY <4>1, <4>2
    <3>. HIDE DEF mine, tail
    <3>3. ASSUME NEW i \in 1..TailMax PROVE mine[i] = tail[i]
      <4>1. /\ (Len(units) - TailMax + 1) + i - 1 \in 1..(fed - from)
            /\ from + ((Len(units) - TailMax + 1) + i - 1) = (fed - TailMax + 1) + i - 1
        BY <1>0, <2>1
      <4>2. units[(Len(units) - TailMax + 1) + i - 1]
               = Wrapped[from + ((Len(units) - TailMax + 1) + i - 1)]
        BY <1>3, <4>1
      <4>. QED
        BY <3>1, <3>2, <4>1, <4>2
    <3>4. mine = tail
      BY <3>1, <3>2, <3>3, SeqEqual
    <3>. QED
      BY <3>4 DEF mine
  <2>. HIDE DEF old, new, tail
  <2>6. Bytes = head \o <<Notice>> \o tail
    <3>1. <<Notice>> \in Seq(Unit)
      BY UnitFacts
    <3>2. head \o <<Notice>> \in Seq(Unit)
      <4>1. head \in Seq(Unit)
        BY <1>6
      <4>2. Joint(head \o <<Notice>>, head, <<Notice>>)
        BY <3>1, <4>1, Joined, Zenon
      <4>. QED
        BY <4>2 DEF Joint
    <3>3. (head \o <<Notice>>) \o old \o new = (head \o <<Notice>>) \o (old \o new)
      BY <2>3, <3>2, Regroup, Zenon
    <3>. QED
      BY <2>2, <2>4, <2>5, <3>3
  <2>. QED
    <3>1. head = SubSeq(Wrapped, 1, HeadMax) /\ ~(fed <= Limit)
      BY <1>0, <1>1, <1>6, <1>11, <2>1
    <3>2. Bytes = SubSeq(Wrapped, 1, HeadMax) \o <<Notice>> \o SubSeq(Wrapped, fed - TailMax + 1, fed)
      BY <2>6, <3>1 DEF tail
    <3>. QED
      BY <2>1, <3>1, <3>2, Zenon
<1>12. fed <= Limit \/ fed > Limit
  BY <1>0, <1>1
<1>. QED
  BY <1>10, <1>11, <1>12, Zenon

-----------------------------------------------------------------------------
\* The first n even numbers.
Evens(n) == {2 * k : k \in 1..n}

LEMMA EvensCount ==
  ASSUME NEW n \in Nat
  PROVE  IsFiniteSet(Evens(n)) /\ Cardinality(Evens(n)) = n
<1>. DEFINE f == [k \in 1..n |-> 2 * k]
<1>1. f \in Bijection(1..n, Evens(n))
  <2>1. f \in [1..n -> Evens(n)]
    BY DEF Evens
  <2>2. \A k, l \in 1..n : f[k] = f[l] => k = l
    OBVIOUS
  <2>3. \A e \in Evens(n) : \E k \in 1..n : f[k] = e
    BY DEF Evens
  <2>. HIDE DEF f
  <2>. QED
    BY <2>1, <2>2, <2>3 DEF Bijection, Injection, Surjection, IsInjective
<1>2. IsFiniteSet(1..n) /\ Cardinality(1..n) = n
  BY FS_Interval
<1>. HIDE DEF f
<1>3. ExistsBijection(1..n, Evens(n))
  BY <1>1 DEF ExistsBijection
<1>4. IsFiniteSet(Evens(n)) /\ Cardinality(Evens(n)) = Cardinality(1..n)
  BY <1>2, <1>3, FS_Bijection, Zenon
<1>. QED
  BY <1>2, <1>4

LEMMA NthEven ==
  ASSUME NEW n \in Nat, NEW m \in 1..n
  PROVE  Nth(Evens(n), m) = 2 * m
<1>1. ASSUME NEW k \in 1..n PROVE Cardinality({j \in Evens(n) : j <= 2 * k}) = k
  <2>1. {j \in Evens(n) : j <= 2 * k} = Evens(k)
    <3>1. ASSUME NEW j \in Evens(n), j <= 2 * k PROVE j \in Evens(k)
      <4>1. PICK l \in 1..n : j = 2 * l
        BY DEF Evens
      <4>2. l \in 1..k
        BY <3>1, <4>1
      <4>. QED
        BY <4>1, <4>2 DEF Evens
    <3>2. ASSUME NEW j \in Evens(k) PROVE j \in Evens(n) /\ j <= 2 * k
      <4>1. PICK l \in 1..k : j = 2 * l
        BY DEF Evens
      <4>2. l \in 1..n /\ 2 * l <= 2 * k
        BY <4>1
      <4>. QED
        BY <4>1, <4>2 DEF Evens
    <3>. QED
      BY <3>1, <3>2
  <2>. QED
    BY <2>1, EvensCount
<1>2. 2 * m \in Evens(n)
  BY DEF Evens
<1>3. ASSUME NEW i \in Evens(n), Cardinality({j \in Evens(n) : j <= i}) = m PROVE i = 2 * m
  <2>1. PICK k \in 1..n : i = 2 * k
    BY DEF Evens
  <2>2. k = m
    BY <1>1, <1>3, <2>1
  <2>. QED
    BY <2>1, <2>2
<1>4. Cardinality({j \in Evens(n) : j <= 2 * m}) = m
  BY <1>1
<1>. QED
  BY <1>2, <1>3, <1>4 DEF Nth

\* A search finds every record of an output that is all there.
LEMMA MatchesOfPayload ==
  ASSUME records \in Nat, trail \in Nat, Len(Matches(Payload)) < MaxResults
  PROVE  Matches(Payload) = AllRecords
<1>. DEFINE whole == {i \in LineEnds(Payload) : Line(Payload, i) # 0}
            count == IF Cardinality(whole) < MaxResults THEN Cardinality(whole) ELSE MaxResults
<1>0. Payload \in Seq(Unit) /\ Len(Payload) = BodyLen /\ BodyLen \in Nat
      /\ DOMAIN Payload = 1..BodyLen
  BY PartsFacts, LenProperties
<1>1. ASSUME NEW i \in 1..BodyLen
      PROVE  /\ Payload[i] = <<"half", (i + 1) \div 2, IF i % 2 = 1 THEN 1 ELSE 2>>
             /\ Payload[i] # Notice
  BY DEF Payload, BodyLen, Notice
<1>2. ASSUME NEW k \in 1..records
      PROVE  /\ 2 * k \in 1..BodyLen /\ 2 * k - 1 \in 1..BodyLen
             /\ Payload[2 * k] = <<"half", k, 2>> /\ Payload[2 * k - 1] = <<"half", k, 1>>
  <2>1. /\ 2 * k \in 1..BodyLen /\ 2 * k - 1 \in 1..BodyLen
        /\ (2 * k + 1) \div 2 = k /\ (2 * k) % 2 = 0
        /\ ((2 * k - 1) + 1) \div 2 = k /\ (2 * k - 1) % 2 = 1
    BY DEF BodyLen
  <2>. QED
    BY <1>1, <2>1
<1>3. ASSUME NEW k \in 1..records PROVE Line(Payload, 2 * k) = k
  <2>0. Payload[2 * k] = <<"half", k, 2>>
    BY <1>2
  <2>1. 2 * k > 1 /\ Payload[2 * k][1] = "half" /\ Payload[2 * k][2] = k /\ Payload[2 * k][3] = 2
    BY <2>0
  <2>2. Payload[2 * k - 1] = <<"half", k, 1>>
    BY <1>2
  <2>. QED
    BY <2>1, <2>2 DEF Line
<1>4. LineEnds(Payload) = Evens(records)
  <2>1. ASSUME NEW i \in LineEnds(Payload) PROVE i \in Evens(records)
    <3>1. i \in 1..BodyLen
      BY <1>0 DEF LineEnds
    <3>2. Payload[i] # Notice /\ (i < BodyLen => Payload[i + 1] # Notice)
      <4>1. i < BodyLen => i + 1 \in 1..BodyLen
        BY <1>0, <3>1
      <4>. QED
        BY <1>1, <3>1, <4>1
    <3>3. Payload[i][3] = 2
      BY <1>0, <3>2 DEF LineEnds
    <3>4. Payload[i][3] = IF i % 2 = 1 THEN 1 ELSE 2
      BY <1>1, <3>1
    <3>5. i % 2 = 0
      BY <3>1, <3>3, <3>4
    <3>6. i \div 2 \in 1..records /\ i = 2 * (i \div 2)
      BY <3>1, <3>5 DEF BodyLen
    <3>. QED
      BY <3>6 DEF Evens
  <2>2. ASSUME NEW i \in Evens(records) PROVE i \in LineEnds(Payload)
    <3>1. PICK k \in 1..records : i = 2 * k
      BY DEF Evens
    <3>2. Payload[2 * k] = <<"half", k, 2>> /\ 2 * k \in DOMAIN Payload
      BY <1>0, <1>2
    <3>3. Payload[2 * k][1] = "half" /\ Payload[2 * k][3] = 2
      BY <3>2
    <3>. QED
      BY <3>1, <3>2, <3>3 DEF LineEnds
  <2>. QED
    BY <2>1, <2>2
<1>5. whole = Evens(records)
  <2>1. ASSUME NEW i \in Evens(records) PROVE Line(Payload, i) # 0
    <3>1. PICK k \in 1..records : i = 2 * k
      BY DEF Evens
    <3>2. Line(Payload, 2 * k) = k /\ k # 0
      BY <1>3
    <3>. QED
      BY <3>1, <3>2, Zenon
  <2>. QED
    BY <1>4, <2>1
<1>6. Cardinality(whole) = records
  BY <1>5, EvensCount
<1>7. Matches(Payload) = LinesAt(Payload, whole, count)
  BY DEF Matches
<1>. HIDE DEF whole
<1>8. count \in Nat /\ MaxResults \in Nat
  BY <1>6, Consts
<1>9. Matches(Payload) = [n \in 1..count |-> Line(Payload, Nth(whole, n))]
  BY <1>7 DEF LinesAt
<1>10. Len(Matches(Payload)) = count
  <2>. HIDE DEF count
  <2>. QED
    BY <1>8, <1>9
<1>11. count = records
  BY <1>6, <1>8, <1>10
<1>12. \A n \in 1..records : Line(Payload, Nth(whole, n)) = n
  BY <1>3, <1>5, NthEven
<1>. HIDE DEF count
<1>. QED
  BY <1>9, <1>11, <1>12 DEF AllRecords

-----------------------------------------------------------------------------
LEMMA CutOfCut ==
  ASSUME NEW s \in Seq(Unit), NEW a \in Nat \ {0}, NEW b \in Nat, a <= b + 1, b <= Len(s),
         NEW m \in Nat \ {0}, NEW n \in Nat, m <= n + 1, n <= b - a + 1
  PROVE  SubSeq(SubSeq(s, a, b), m, n) = SubSeq(s, a + m - 1, a + n - 1)
<1>. DEFINE t == SubSeq(s, a, b)
            u == SubSeq(t, m, n)
            v == SubSeq(s, a + m - 1, a + n - 1)
<1>1. t \in Seq(Unit) /\ Len(t) = b - a + 1 /\ \A i \in 1..(b - a + 1) : t[i] = s[a + i - 1]
  BY Stretch
<1>2. /\ v \in Seq(Unit) /\ Len(v) = n - m + 1
      /\ \A i \in 1..(n - m + 1) : v[i] = s[(a + m - 1) + i - 1]
  <2>1. /\ a + m - 1 \in Nat \ {0} /\ a + n - 1 \in Nat /\ a + m - 1 <= (a + n - 1) + 1
        /\ a + n - 1 <= Len(s) /\ (a + n - 1) - (a + m - 1) + 1 = n - m + 1
    <3>1. Len(s) \in Nat
      BY LenProperties
    <3>. QED
      BY <3>1
  <2>2. /\ v \in Seq(Unit) /\ Len(v) = (a + n - 1) - (a + m - 1) + 1
        /\ \A i \in 1..((a + n - 1) - (a + m - 1) + 1) : v[i] = s[(a + m - 1) + i - 1]
    BY <2>1, Stretch
  <2>. HIDE DEF v
  <2>. QED
    BY <2>1, <2>2
<1>. HIDE DEF t
<1>3. /\ u \in Seq(Unit) /\ Len(u) = n - m + 1
      /\ \A i \in 1..(n - m + 1) : u[i] = t[m + i - 1]
  <2>. HIDE DEF v
  <2>1. t \in Seq(Unit) /\ n <= Len(t)
    BY <1>1
  <2>. HIDE DEF u
  <2>2. ASSUME NEW w \in Seq(Unit), n <= Len(w)
        PROVE  /\ SubSeq(w, m, n) \in Seq(Unit) /\ Len(SubSeq(w, m, n)) = n - m + 1
               /\ \A i \in 1..(n - m + 1) : SubSeq(w, m, n)[i] = w[m + i - 1]
    BY <2>2, CutFacts
  <2>3. /\ SubSeq(t, m, n) \in Seq(Unit) /\ Len(SubSeq(t, m, n)) = n - m + 1
        /\ \A i \in 1..(n - m + 1) : SubSeq(t, m, n)[i] = t[m + i - 1]
    BY <2>1, <2>2
  <2>. QED
    BY <2>3 DEF u
<1>. HIDE DEF u, v
<1>4. ASSUME NEW i \in 1..(n - m + 1) PROVE u[i] = v[i]
  <2>1. m + i - 1 \in 1..(b - a + 1) /\ a + (m + i - 1) - 1 = (a + m - 1) + i - 1
    OBVIOUS
  <2>2. t[m + i - 1] = s[a + (m + i - 1) - 1]
    BY <1>1, <2>1
  <2>. QED
    BY <1>2, <1>3, <2>1, <2>2
<1>5. u = v
  BY <1>2, <1>3, <1>4, SeqEqual
<1>. QED
  BY <1>5 DEF u, v, t

\* A cut in two, both of them cuts of the whole.
LEMMA CutInTwo ==
  ASSUME NEW s \in Seq(Unit), NEW m \in Nat, NEW l \in Nat, NEW j \in Nat, j <= l,
         m + l <= Len(s)
  PROVE  /\ SubSeq(SubSeq(s, m + 1, m + l), 1, j) = SubSeq(s, m + 1, m + j)
         /\ SubSeq(SubSeq(s, m + 1, m + l), j + 1, l) = SubSeq(s, m + j + 1, m + l)
<1>1. /\ m + 1 \in Nat \ {0} /\ m + l \in Nat /\ m + 1 <= (m + l) + 1
      /\ 1 \in Nat \ {0} /\ 1 <= j + 1 /\ j <= (m + l) - (m + 1) + 1
      /\ j + 1 \in Nat \ {0} /\ j + 1 <= l + 1 /\ l <= (m + l) - (m + 1) + 1
  OBVIOUS
<1>2. /\ (m + 1) + 1 - 1 = m + 1 /\ (m + 1) + j - 1 = m + j
      /\ (m + 1) + (j + 1) - 1 = m + j + 1 /\ (m + 1) + l - 1 = m + l
  OBVIOUS
<1>3. SubSeq(SubSeq(s, m + 1, m + l), 1, j) = SubSeq(s, (m + 1) + 1 - 1, (m + 1) + j - 1)
  BY <1>1, CutOfCut
<1>4. SubSeq(SubSeq(s, m + 1, m + l), j + 1, l)
         = SubSeq(s, (m + 1) + (j + 1) - 1, (m + 1) + l - 1)
  BY <1>1, CutOfCut
<1>. QED
  BY <1>2, <1>3, <1>4

\* What Bounded says of the lengths.
LEMMA BoundedFacts ==
  ASSUME Bounded
  PROVE  /\ records \in Nat /\ trail \in Nat
         /\ Wrapped \in Seq(Unit) /\ Len(Wrapped) \in Nat
         /\ fed \in Nat /\ arrives \in Nat /\ fed <= arrives /\ arrives <= Len(Wrapped)
         /\ fed \in 0..Len(Wrapped)
<1>1. records \in Nat /\ trail \in Nat
  BY CommandAssumption DEF Bounded, CommandAssumption
<1>2. Wrapped \in Seq(Unit) /\ Len(Wrapped) \in Nat
  BY <1>1, WrappedFacts, LenProperties
<1>. QED
  BY <1>1, <1>2 DEF Bounded

LEMMA CommandInitHolds == CommandInit => CommandInv
<1>. SUFFICES ASSUME CommandInit PROVE CommandInv
  OBVIOUS
<1>1. records \in Nat /\ trail \in Nat
  BY CommandAssumption DEF CommandInit, CommandAssumption
<1>2. Wrapped \in Seq(Unit) /\ Len(Wrapped) = BodyLen + MarkLen + StatusLen + 1 + trail
  BY <1>1, WrappedFacts
<1>3. Len(Digits) = StatusLen
  BY <1>1, PartsFacts
<1>4. /\ TailMax \in Nat \ {0} /\ HeadMax \in Nat /\ Hold \in Nat /\ MarkLen \in Nat
      /\ StatusLen \in Nat
  BY Consts
<1>5. Bounded
  <2>1. arrives \in 0..Len(Wrapped)
    BY <1>2, <1>3 DEF CommandInit, BodyLen
  <2>2. 0 \in 0..arrives
    BY <1>1, <1>2, <1>4, <2>1 DEF BodyLen
  <2>. QED
    BY <2>1, <2>2 DEF CommandInit, Bounded
<1>6. SubSeq(Wrapped, 1, 0) = <<>> /\ SubSeq(Wrapped, 0 - 0 + 1, 0) = <<>>
      /\ SubSeq(Wrapped, 0 + 1, 0) = <<>>
  BY SubSeqEmpty
<1>7. Lesser(fed, HeadMax) = 0 /\ Lesser(fed, Hold) = 0 /\ fed = 0
  BY <1>4 DEF CommandInit, Lesser
<1>8. Captured
  <2>1. ring \in Rings
    BY DEF CommandInit, Rings
  <2>2. RingHolds(ring, <<>>)
    <3>1. Len(<<>>) = 0 /\ TailMax > 0 /\ Lesser(0, TailMax) = 0 /\ 1 \in 1..TailMax
      BY <1>4 DEF Lesser
    <3>. QED
      BY <1>4, <3>1 DEF CommandInit, RingHolds
  <2>3. head = <<>> /\ pending = <<>>
    BY DEF CommandInit
  <2>. QED
    BY <1>6, <1>7, <2>1, <2>2, <2>3 DEF Captured
<1>9. Filtered
  <2>1. head = <<>> /\ ring.buf = <<>> /\ ring.pos = 1 /\ emitted = <<>> /\ pending = <<>>
    BY DEF CommandInit
  <2>2. SubSeq(Wrapped, 1, 0 - 0) = <<>>
    BY <1>6
  <2>. QED
    BY <1>6, <1>7, <2>1, <2>2 DEF Filtered
<1>10. ~outcome.done
  BY DEF CommandInit, Unfinished
<1>. QED
  BY <1>5, <1>8, <1>9, <1>10 DEF CommandInv, RunEnds, StreamEnds

\* What the command and the wrapper print does not change.
LEMMA WrappedKept ==
  ASSUME records' = records, trail' = trail
  PROVE  Wrapped' = Wrapped /\ Payload' = Payload
<1>1. Payload' = Payload /\ Trail' = Trail
  BY DEF Payload, Trail
<1>. QED
  BY <1>1 DEF Wrapped

LEMMA CappedKeeps ==
  ASSUME CommandInv, NEW n \in 1..(arrives - fed), WriteCapped(n)
  PROVE  CommandInv'
<1>. DEFINE piece == SubSeq(Arriving, fed + 1, fed + n)
            room == IF HeadMax - Len(head) < n THEN HeadMax - Len(head) ELSE n
            rest == SubSeq(piece, room + 1, n)
            a == Lesser(fed, HeadMax)
            b == Lesser(fed + n, HeadMax)
            units == SubSeq(Wrapped, a + 1, fed)
<1>1. /\ records \in Nat /\ trail \in Nat
      /\ Wrapped \in Seq(Unit) /\ Len(Wrapped) \in Nat
      /\ fed \in Nat /\ arrives \in Nat /\ fed <= arrives /\ arrives <= Len(Wrapped)
  BY BoundedFacts DEF CommandInv
<1>2. /\ path = "run" /\ ~outcome.done
      /\ head' = head \o SubSeq(piece, 1, room)
      /\ ring' = PutAll(ring, rest)
      /\ fed' = fed + n
      /\ UNCHANGED <<records, trail, arrives, path, pending, emitted, outcome>>
  BY DEF WriteCapped
<1>3. /\ head = SubSeq(Wrapped, 1, a) /\ ring \in Rings /\ RingHolds(ring, units)
      /\ pending = <<>>
  BY <1>2 DEF CommandInv, Captured
<1>4. Wrapped' = Wrapped
  BY <1>2, WrappedKept
<1>5. HeadMax \in Nat
  BY Consts
<1>6. n \in Nat /\ n >= 1 /\ fed + n <= arrives
  BY <1>1
<1>7. piece = SubSeq(Wrapped, fed + 1, fed + n)
  <2>1. /\ 1 \in Nat \ {0} /\ 1 <= arrives + 1
        /\ fed + 1 \in Nat \ {0} /\ fed + n \in Nat /\ fed + 1 <= (fed + n) + 1
        /\ fed + n <= arrives - 1 + 1
        /\ 1 + (fed + 1) - 1 = fed + 1 /\ 1 + (fed + n) - 1 = fed + n
    BY <1>1, <1>6
  <2>2. SubSeq(SubSeq(Wrapped, 1, arrives), fed + 1, fed + n)
           = SubSeq(Wrapped, 1 + (fed + 1) - 1, 1 + (fed + n) - 1)
    BY <1>1, <2>1, CutOfCut
  <2>. QED
    BY <2>1, <2>2 DEF Arriving
<1>8. /\ a = IF fed < HeadMax THEN fed ELSE HeadMax
      /\ b = IF fed + n < HeadMax THEN fed + n ELSE HeadMax
      /\ a \in Nat /\ b \in Nat /\ a <= fed /\ b <= fed + n
  BY <1>1, <1>5, <1>6 DEF Lesser
<1>. HIDE DEF a, b, piece
<1>9. Len(head) = a
  <2>1. 1 \in Nat \ {0} /\ 1 <= a + 1 /\ a <= Len(Wrapped) /\ a - 1 + 1 = a
    BY <1>1, <1>8
  <2>2. Len(SubSeq(Wrapped, 1, a)) = a - 1 + 1
    BY <1>1, <1>8, <2>1, Stretch
  <2>. QED
    BY <1>3, <2>1, <2>2
<1>10. room = b - a /\ room \in 0..n /\ a <= b
  BY <1>1, <1>5, <1>6, <1>8, <1>9
<1>. HIDE DEF room
<1>11. /\ SubSeq(piece, 1, room) = SubSeq(Wrapped, fed + 1, fed + room)
       /\ rest = SubSeq(Wrapped, fed + room + 1, fed + n)
  <2>1. room \in Nat /\ room <= n /\ fed + n <= Len(Wrapped)
    BY <1>1, <1>6, <1>10
  <2>. QED
    BY <1>1, <1>6, <1>7, <2>1, CutInTwo
<1>12. head' = SubSeq(Wrapped, 1, b)
  <2>1. head' = SubSeq(Wrapped, 1, a) \o SubSeq(Wrapped, fed + 1, fed + room)
    BY <1>2, <1>3, <1>11
  <2>2. CASE a = fed
    <3>0. fed + room = b
      BY <1>1, <1>8, <1>10, <2>2
    <3>1. 1 \in Nat \ {0} /\ 1 <= a + 1 /\ a <= b /\ b <= Len(Wrapped)
      <4>2. a <= b /\ 1 <= a + 1
        <5>1. a \in Nat /\ a <= b
          BY <1>8, <1>10
        <5>. QED
          BY <5>1
      <4>3. b <= Len(Wrapped)
        BY <1>1, <1>6, <1>8
      <4>. QED
        BY <4>2, <4>3
    <3>2. SubSeq(Wrapped, 1, a) \o SubSeq(Wrapped, a + 1, b) = SubSeq(Wrapped, 1, b)
      <4>1. Wrapped \in Seq(Unit) /\ a \in Nat /\ b \in Nat
        BY <1>1, <1>8
      <4>. QED
        BY <3>1, <4>1, Adjacent, Zenon
    <3>. QED
      BY <2>1, <2>2, <3>0, <3>2
  <2>3. CASE a # fed
    <3>1. a = b /\ room = 0
      BY <1>1, <1>5, <1>6, <1>8, <1>10, <2>3
    <3>2. SubSeq(Wrapped, fed + 1, fed + room) = <<>>
      BY <1>1, <3>1, SubSeqEmpty
    <3>3. SubSeq(Wrapped, 1, a) \in Seq(Unit)
      <4>1. 1 \in Nat \ {0} /\ 1 <= a + 1 /\ a <= Len(Wrapped)
        BY <1>1, <1>8
      <4>. QED
        BY <1>1, <1>8, <4>1, Stretch
    <3>4. head' = SubSeq(Wrapped, 1, a)
      BY <2>1, <3>2, <3>3, ConcatEmptySeq
    <3>. QED
      BY <3>1, <3>4
  <2>. QED
    BY <2>2, <2>3
<1>13. units \in Seq(Unit)
  <2>1. a + 1 \in Nat \ {0} /\ a + 1 <= fed + 1 /\ fed <= Len(Wrapped)
    BY <1>1, <1>8
  <2>. QED
    BY <1>1, <2>1, Stretch
<1>14. rest \in Seq(Unit)
  <2>1. fed + room + 1 \in Nat \ {0} /\ fed + n \in Nat /\ fed + room + 1 <= (fed + n) + 1
        /\ fed + n <= Len(Wrapped)
    BY <1>1, <1>6, <1>10
  <2>2. SubSeq(Wrapped, fed + room + 1, fed + n) \in Seq(Unit)
    BY <1>1, <2>1, Stretch
  <2>. QED
    BY <1>11, <2>2
<1>15. units \o rest = SubSeq(Wrapped, b + 1, fed + n)
  <2>1. CASE a = fed
    <3>1. fed + room = b
      BY <1>1, <1>8, <1>10, <2>1
    <3>2. units = <<>>
      BY <1>1, <2>1, SubSeqEmpty
    <3>3. units \o rest = rest
      BY <1>14, <3>2, ConcatEmptySeq
    <3>. QED
      BY <1>11, <3>1, <3>3
  <2>2. CASE a # fed
    <3>1. a = b /\ room = 0 /\ fed + room + 1 = fed + 1
      BY <1>1, <1>5, <1>6, <1>8, <1>10, <2>2
    <3>2. /\ b + 1 \in Nat \ {0} /\ b + 1 <= fed + 1 /\ fed <= fed + n /\ fed + n <= Len(Wrapped)
          /\ fed + n \in Nat
      BY <1>1, <1>6, <1>8, <3>1
    <3>3. SubSeq(Wrapped, b + 1, fed) \o SubSeq(Wrapped, fed + 1, fed + n)
             = SubSeq(Wrapped, b + 1, fed + n)
      BY <1>1, <3>2, Adjacent
    <3>. QED
      BY <1>11, <3>1, <3>3
  <2>. QED
    BY <2>1, <2>2
<1>. HIDE DEF rest, units
<1>16. ring' \in Rings /\ RingHolds(ring', units \o rest)
  <2>1. PutAll(ring, rest) \in Rings /\ RingHolds(PutAll(ring, rest), units \o rest)
    BY <1>3, <1>13, <1>14, PutAllHolds, Zenon
  <2>. QED
    BY <1>2, <2>1
<1>17. Captured'
  <2>1. Lesser(fed', HeadMax) = b
    BY <1>2 DEF b
  <2>2. head' = SubSeq(Wrapped', 1, Lesser(fed', HeadMax))
    BY <1>4, <1>12, <2>1
  <2>3. RingHolds(ring', SubSeq(Wrapped', Lesser(fed', HeadMax) + 1, fed'))
    BY <1>2, <1>4, <1>15, <1>16, <2>1
  <2>4. pending' = <<>>
    BY <1>2, <1>3
  <2>. QED
    BY <1>16, <2>2, <2>3, <2>4, Zenon DEF Captured
<1>18. Bounded'
  <2>1. fed' \in 0..arrives'
    BY <1>1, <1>2, <1>6
  <2>. QED
    BY <1>2, <1>4, <2>1 DEF CommandInv, Bounded
<1>19. path' = "run" /\ ~outcome'.done
  BY <1>2
<1>. QED
  BY <1>17, <1>18, <1>19 DEF CommandInv, Filtered, RunEnds, StreamEnds

LEMMA FilteredKeeps ==
  ASSUME CommandInv, NEW n \in 1..(arrives - fed), WriteFiltered(n)
  PROVE  CommandInv'
<1>. DEFINE piece == SubSeq(Arriving, fed + 1, fed + n)
            all == pending \o piece
            emit == IF Len(all) > Hold THEN Len(all) - Hold ELSE 0
            held == Lesser(fed, Hold)
            kept == Lesser(fed + n, Hold)
            from == fed - held
<1>1. /\ records \in Nat /\ trail \in Nat
      /\ Wrapped \in Seq(Unit) /\ Len(Wrapped) \in Nat
      /\ fed \in Nat /\ arrives \in Nat /\ fed <= arrives /\ arrives <= Len(Wrapped)
  BY BoundedFacts DEF CommandInv
<1>2. /\ path = "stream" /\ ~outcome.done
      /\ emitted' = emitted \o SubSeq(all, 1, emit)
      /\ pending' = SubSeq(all, emit + 1, Len(all))
      /\ fed' = fed + n
      /\ UNCHANGED <<records, trail, arrives, path, head, ring, outcome>>
  BY DEF WriteFiltered
<1>3. /\ head = <<>> /\ ring.buf = <<>> /\ ring.pos = 1
      /\ emitted = SubSeq(Wrapped, 1, from) /\ pending = SubSeq(Wrapped, from + 1, fed)
  BY <1>2 DEF CommandInv, Filtered
<1>4. Wrapped' = Wrapped
  BY <1>2, WrappedKept
<1>5. Hold \in Nat
  BY Consts
<1>6. n \in Nat /\ n >= 1 /\ fed + n <= arrives /\ fed + n \in Nat /\ fed + n <= Len(Wrapped)
  BY <1>1
<1>7. piece = SubSeq(Wrapped, fed + 1, fed + n)
  <2>1. /\ 1 \in Nat \ {0} /\ 1 <= arrives + 1
        /\ fed + 1 \in Nat \ {0} /\ fed + n \in Nat /\ fed + 1 <= (fed + n) + 1
        /\ fed + n <= arrives - 1 + 1
        /\ 1 + (fed + 1) - 1 = fed + 1 /\ 1 + (fed + n) - 1 = fed + n
    BY <1>1, <1>6
  <2>2. SubSeq(SubSeq(Wrapped, 1, arrives), fed + 1, fed + n)
           = SubSeq(Wrapped, 1 + (fed + 1) - 1, 1 + (fed + n) - 1)
    BY <1>1, <2>1, CutOfCut
  <2>. QED
    BY <2>1, <2>2 DEF Arriving
<1>8. /\ held = IF fed < Hold THEN fed ELSE Hold
      /\ kept = IF fed + n < Hold THEN fed + n ELSE Hold
      /\ from \in Nat /\ from <= fed /\ kept \in Nat
  BY <1>1, <1>5, <1>6 DEF Lesser
<1>9. all = SubSeq(Wrapped, from + 1, fed + n)
  <2>1. from + 1 \in Nat \ {0} /\ from + 1 <= fed + 1 /\ fed <= fed + n
    BY <1>1, <1>6, <1>8
  <2>. HIDE DEF from
  <2>2. SubSeq(Wrapped, from + 1, fed) \o SubSeq(Wrapped, fed + 1, fed + n)
           = SubSeq(Wrapped, from + 1, fed + n)
    BY <1>1, <1>6, <2>1, Adjacent
  <2>. QED
    BY <1>3, <1>7, <2>2
<1>. HIDE DEF all
<1>10. Len(all) = fed + n - from
  <2>. HIDE DEF from
  <2>1. from + 1 \in Nat \ {0} /\ from + 1 <= (fed + n) + 1
        /\ (fed + n) - (from + 1) + 1 = fed + n - from
    BY <1>1, <1>6, <1>8
  <2>2. Len(SubSeq(Wrapped, from + 1, fed + n)) = (fed + n) - (from + 1) + 1
    BY <1>1, <1>6, <2>1, Stretch
  <2>. QED
    BY <1>9, <2>1, <2>2
<1>11. emit = (fed + n - kept) - from /\ emit \in 0..(fed + n - from)
  <2>1. CASE fed + n <= Hold
    <3>1. kept = fed + n /\ held = fed /\ from = 0 /\ emit = 0
      BY <1>1, <1>5, <1>6, <1>8, <1>10, <2>1
    <3>. HIDE DEF emit, from, kept, held
    <3>. QED
      BY <1>1, <1>6, <3>1
  <2>2. CASE fed + n > Hold
    <3>1. kept = Hold /\ held <= Hold /\ held \in Nat
      BY <1>1, <1>5, <1>6, <1>8, <2>2
    <3>2. from + held = fed
      BY <1>1, <3>1
    <3>. HIDE DEF from, kept, held
    <3>3. emit = fed + n - from - Hold \/ (emit = 0 /\ fed + n - from <= Hold)
      BY <1>1, <1>5, <1>6, <1>8, <1>10
    <3>4. held < Hold => held = fed
      BY <1>1, <1>5, <1>8
    <3>. HIDE DEF emit
    <3>. QED
      BY <1>1, <1>5, <1>6, <1>8, <2>2, <3>1, <3>2, <3>3, <3>4
  <2>. QED
    BY <1>1, <1>5, <1>6, <2>1, <2>2
<1>. HIDE DEF emit, from, kept, held, piece
<1>12. /\ SubSeq(all, 1, emit) = SubSeq(Wrapped, from + 1, from + emit)
       /\ SubSeq(all, emit + 1, Len(all)) = SubSeq(Wrapped, from + emit + 1, fed + n)
  <2>. DEFINE size == fed + n - from
  <2>0. Len(all) = size
    BY <1>10
  <2>0a. emit \in Nat /\ size \in Nat /\ emit <= size /\ from + size = fed + n
    BY <1>1, <1>6, <1>8, <1>11
  <2>. HIDE DEF size
  <2>1. from \in Nat /\ from + size <= Len(Wrapped)
    BY <1>6, <1>8, <2>0a
  <2>2. /\ SubSeq(SubSeq(Wrapped, from + 1, from + size), 1, emit)
              = SubSeq(Wrapped, from + 1, from + emit)
        /\ SubSeq(SubSeq(Wrapped, from + 1, from + size), emit + 1, size)
              = SubSeq(Wrapped, from + emit + 1, from + size)
    BY <1>1, <2>0a, <2>1, CutInTwo
  <2>. QED
    BY <1>9, <2>0, <2>0a, <2>2
<1>13. from + emit = fed + n - kept /\ from + emit \in Nat /\ from + emit <= fed + n
  BY <1>1, <1>5, <1>6, <1>8, <1>11
<1>14. emitted' = SubSeq(Wrapped, 1, fed + n - kept)
  <2>1. /\ 1 \in Nat \ {0} /\ 1 <= from + 1 /\ from <= from + emit
        /\ from + emit <= Len(Wrapped)
    <3>1. from \in Nat /\ emit \in Nat
      BY <1>1, <1>6, <1>8, <1>11
    <3>2. from + emit <= Len(Wrapped)
      BY <1>1, <1>6, <1>13, <3>1
    <3>. QED
      BY <3>1, <3>2
  <2>2. SubSeq(Wrapped, 1, from) \o SubSeq(Wrapped, from + 1, from + emit)
           = SubSeq(Wrapped, 1, from + emit)
    <3>1. Wrapped \in Seq(Unit) /\ from \in Nat /\ from + emit \in Nat
      BY <1>1, <1>8, <1>13
    <3>. QED
      BY <2>1, <3>1, Adjacent, Zenon
  <2>. QED
    BY <1>2, <1>3, <1>12, <1>13, <2>2
<1>15. pending' = SubSeq(Wrapped, fed + n - kept + 1, fed + n)
  BY <1>2, <1>12, <1>13
<1>16. Filtered'
  <2>1. head' = <<>> /\ ring'.buf = <<>> /\ ring'.pos = 1
    BY <1>2, <1>3
  <2>1a. fed' - Lesser(fed', Hold) = fed + n - kept
    <3>1. fed' = fed + n /\ Lesser(fed', Hold) = kept
      BY <1>2 DEF kept
    <3>2. fed \in Nat /\ n \in Nat /\ kept \in Nat
      BY <1>1, <1>6, <1>8
    <3>. QED
      BY <3>1, <3>2
  <2>2. emitted' = SubSeq(Wrapped', 1, fed' - Lesser(fed', Hold))
    BY <1>4, <1>14, <2>1a
  <2>3. pending' = SubSeq(Wrapped', fed' - Lesser(fed', Hold) + 1, fed')
    BY <1>2, <1>4, <1>15, <2>1a
  <2>. QED
    BY <2>1, <2>2, <2>3, Zenon DEF Filtered
<1>17. Bounded'
  <2>1. fed' \in 0..arrives'
    BY <1>1, <1>2, <1>6
  <2>. QED
    BY <1>2, <1>4, <2>1 DEF CommandInv, Bounded
<1>18. path' = "stream" /\ ~outcome'.done
  BY <1>2
<1>. QED
  BY <1>16, <1>17, <1>18 DEF CommandInv, Captured, RunEnds, StreamEnds

LEMMA FinishRunKeeps ==
  ASSUME CommandInv, FinishRun
  PROVE  CommandInv'
<1>1. /\ path = "run" /\ fed = arrives
      /\ outcome' = LET s == Split(Bytes)
                    IN  [done |-> TRUE, ok |-> s.ok, out |-> IF s.ok THEN s.out ELSE <<>>,
                         code |-> s.code, truncated |-> Truncated]
      /\ UNCHANGED <<records, trail, arrives, path, fed, head, ring, pending, emitted>>
  BY DEF FinishRun
<1>2. Wrapped' = Wrapped
  BY <1>1, WrappedKept
<1>3. Bytes' = Bytes /\ Truncated' = Truncated
  BY <1>1 DEF Bytes, Truncated
<1>4. Bounded' /\ Captured' /\ path' = "run"
  BY <1>1, <1>2 DEF CommandInv, Bounded, Captured
<1>5. RunEnds'
  BY <1>1, <1>3 DEF RunEnds
<1>. QED
  BY <1>4, <1>5 DEF CommandInv, Filtered, StreamEnds

LEMMA FlushKeeps ==
  ASSUME CommandInv, Flush
  PROVE  CommandInv'
<1>. DEFINE held == Lesser(arrives, Hold)
            left == SubSeq(Wrapped, arrives - held + 1, arrives)
            at == CHOOSE i \in MarksIn(left) : \A j \in MarksIn(left) : j <= i
            rest == IF MarksIn(left) = {} THEN left ELSE SubSeq(left, 1, at - 1)
<1>1. /\ path = "stream" /\ ~outcome.done /\ fed = arrives /\ pending' = <<>>
      /\ UNCHANGED <<records, trail, arrives, path, fed, head, ring>>
  BY DEF Flush
<1>2. /\ head = <<>> /\ ring.buf = <<>> /\ ring.pos = 1
      /\ emitted = SubSeq(Wrapped, 1, arrives - held) /\ pending = left
  BY <1>1 DEF CommandInv, Filtered
<1>. HIDE DEF left, held
<1>3. /\ emitted' = emitted \o rest
      /\ outcome' = [done |-> TRUE, ok |-> Split(left).ok, out |-> emitted \o rest,
                     code |-> Split(left).code, truncated |-> FALSE]
  BY <1>2 DEF Flush
<1>4. Wrapped' = Wrapped
  BY <1>1, WrappedKept
<1>5. arrives' = arrives /\ fed' = fed /\ path' = path
  BY <1>1
<1>6. outcome'.done /\ outcome'.ok = Split(left).ok /\ outcome'.code = Split(left).code
  BY <1>3
<1>7. emitted' = SubSeq(Wrapped, 1, arrives - held) \o rest
  BY <1>2, <1>3
<1>8. StreamEnds'
  BY <1>1, <1>4, <1>5, <1>6, <1>7 DEF StreamEnds, left, held
<1>9. Filtered'
  BY <1>1, <1>2, <1>6 DEF Filtered
<1>10. Bounded'
  BY <1>1, <1>4 DEF CommandInv, Bounded
<1>. QED
  BY <1>1, <1>8, <1>9, <1>10 DEF CommandInv, Captured, RunEnds

LEMMA NothingKeeps ==
  ASSUME CommandInv, UNCHANGED commandVars
  PROVE  CommandInv'
<1>1. UNCHANGED <<records, trail, arrives, path, fed, head, ring, pending, emitted, outcome>>
  BY DEF commandVars
<1>2. Wrapped' = Wrapped
  BY <1>1, WrappedKept
<1>3. Bytes' = Bytes /\ Truncated' = Truncated
  BY <1>1 DEF Bytes, Truncated
<1>4. Bounded' /\ Captured' /\ Filtered'
  BY <1>1, <1>2 DEF CommandInv, Bounded, Captured, Filtered
<1>5. RunEnds'
  BY <1>1, <1>3 DEF CommandInv, RunEnds
<1>6. StreamEnds'
  BY <1>1, <1>2 DEF CommandInv, StreamEnds
<1>. QED
  BY <1>4, <1>5, <1>6 DEF CommandInv

\* CommandInv holds in every state.
THEOREM CommandInvariant == CommandSpec => []CommandInv
<1>1. CommandInit => CommandInv
  BY CommandInitHolds
<1>2. CommandInv /\ [CommandNext]_commandVars => CommandInv'
  BY CappedKeeps, FilteredKeeps, FinishRunKeeps, FlushKeeps, NothingKeeps DEF CommandNext
<1>. QED
  BY <1>1, <1>2, PTL DEF CommandSpec

-----------------------------------------------------------------------------
\* The notice between two parts.
Between(p, h, t) ==
    /\ p \in Seq(Unit) /\ Len(p) = Len(h) + 1 + Len(t)
    /\ \A i \in 1..Len(h) : p[i] = h[i]
    /\ p[Len(h) + 1] = Notice
    /\ \A i \in 1..Len(t) : p[Len(h) + 1 + i] = t[i]

LEMMA Around ==
  ASSUME NEW h \in Seq(Unit), NEW t \in Seq(Unit), NEW p, p = h \o <<Notice>> \o t
  PROVE  Between(p, h, t)
<1>. DEFINE q == h \o <<Notice>>
<1>0. Len(h) \in Nat /\ Len(t) \in Nat
  BY LenProperties
<1>1. <<Notice>> \in Seq(Unit) /\ Len(<<Notice>>) = 1 /\ <<Notice>>[1] = Notice
  BY UnitFacts
<1>1a. <<Notice>> \in Seq(Unit)
  BY <1>1
<1>. HIDE DEF q
<1>2. q = h \o <<Notice>>
  BY DEF q
<1>3. p = q \o t
  BY DEF q
<1>4. Joint(q, h, <<Notice>>)
  BY <1>1a, <1>2, Joined, Zenon
<1>5. q \in Seq(Unit)
  BY <1>4 DEF Joint
<1>6. Joint(p, q, t)
  BY <1>3, <1>5, Joined, Zenon
<1>7. Len(q) = Len(h) + 1 /\ q[Len(h) + 1] = Notice /\ \A i \in 1..Len(h) : q[i] = h[i]
  BY <1>0, <1>1, <1>4 DEF Joint
<1>8. /\ p \in Seq(Unit) /\ Len(p) = Len(q) + Len(t)
      /\ \A i \in 1..Len(q) : p[i] = q[i]
      /\ \A i \in 1..Len(t) : p[Len(q) + i] = t[i]
  BY <1>6 DEF Joint
<1>9. p[Len(h) + 1] = Notice
  BY <1>0, <1>7, <1>8
<1>10. \A i \in 1..Len(h) : p[i] = h[i]
  BY <1>0, <1>7, <1>8
<1>. QED
  BY <1>0, <1>7, <1>8, <1>9, <1>10 DEF Between

\* What capWriter has of the wrapper's output, by the invariant.
LEMMA BytesHeld ==
  ASSUME Bounded, Captured, path = "run"
  PROVE  /\ Bytes \in Seq(Unit)
         /\ fed <= Limit => Bytes = SubSeq(Wrapped, 1, fed) /\ ring.omitted = 0
         /\ fed > Limit =>
               /\ ring.omitted > 0
               /\ Len(Bytes) = HeadMax + 1 + TailMax
               /\ \A i \in 1..HeadMax : Bytes[i] = Wrapped[i]
               /\ Bytes[HeadMax + 1] = Notice
               /\ \A i \in 1..TailMax : Bytes[HeadMax + 1 + i] = Wrapped[fed - TailMax + i]
         /\ \A i \in 1..Len(Bytes) :
               Bytes[i] = Notice \/ \E j \in 1..fed : Bytes[i] = Wrapped[j]
         /\ Limit = HeadMax + TailMax
<1>1. /\ records \in Nat /\ trail \in Nat /\ Wrapped \in Seq(Unit) /\ Len(Wrapped) \in Nat
      /\ fed \in Nat /\ fed <= Len(Wrapped) /\ fed \in 0..Len(Wrapped)
  BY BoundedFacts
<1>2. TailMax \in Nat \ {0} /\ HeadMax \in Nat /\ Limit \in Nat
  BY Consts, CommandAssumption DEF CommandAssumption
<1>3. Limit = HeadMax + TailMax
  BY <1>2 DEF HeadMax
<1>4. /\ fed <= Limit => Bytes = SubSeq(Wrapped, 1, fed) /\ ring.omitted = 0
      /\ fed > Limit =>
            /\ ring.omitted > 0
            /\ Bytes = SubSeq(Wrapped, 1, HeadMax) \o <<Notice>>
                          \o SubSeq(Wrapped, fed - TailMax + 1, fed)
  BY <1>1, BytesAre DEF Captured
<1>5. CASE fed <= Limit
  <2>1. 1 \in Nat \ {0} /\ 1 <= fed + 1 /\ fed - 1 + 1 = fed
    BY <1>1
  <2>. DEFINE all == SubSeq(Wrapped, 1, fed)
  <2>2. all \in Seq(Unit) /\ Len(all) = fed - 1 + 1
        /\ \A i \in 1..(fed - 1 + 1) : all[i] = Wrapped[1 + i - 1]
    BY <1>1, <2>1, Stretch
  <2>. HIDE DEF all
  <2>3. \A i \in 1..Len(all) : i \in 1..fed /\ all[i] = Wrapped[i]
    BY <2>1, <2>2
  <2>4. \A i \in 1..Len(all) : \E j \in 1..fed : all[i] = Wrapped[j]
    BY <2>3
  <2>5. Bytes = all
    BY <1>4, <1>5 DEF all
  <2>6. ~(fed > Limit)
    BY <1>1, <1>2, <1>5
  <2>7. Bytes \in Seq(Unit) /\ \A i \in 1..Len(Bytes) : \E j \in 1..fed : Bytes[i] = Wrapped[j]
    BY <2>2, <2>4, <2>5
  <2>. QED
    BY <1>3, <1>4, <2>6, <2>7, Zenon
<1>6. CASE fed > Limit
  <2>. DEFINE h == SubSeq(Wrapped, 1, HeadMax)
              t == SubSeq(Wrapped, fed - TailMax + 1, fed)
  <2>1. h \in Seq(Unit) /\ Len(h) = HeadMax /\ \A i \in 1..HeadMax : h[i] = Wrapped[i]
    <3>1. 1 \in Nat \ {0} /\ 1 <= HeadMax + 1 /\ HeadMax <= Len(Wrapped) /\ HeadMax - 1 + 1 = HeadMax
      BY <1>1, <1>2, <1>3, <1>6
    <3>2. h \in Seq(Unit) /\ Len(h) = HeadMax - 1 + 1
          /\ \A i \in 1..(HeadMax - 1 + 1) : h[i] = Wrapped[1 + i - 1]
      BY <1>1, <1>2, <3>1, Stretch
    <3>. HIDE DEF h
    <3>. QED
      BY <3>1, <3>2
  <2>2. t \in Seq(Unit) /\ Len(t) = TailMax
        /\ \A i \in 1..TailMax : t[i] = Wrapped[fed - TailMax + i]
    <3>1. fed - TailMax + 1 \in Nat \ {0} /\ fed - TailMax + 1 <= fed + 1
          /\ fed - (fed - TailMax + 1) + 1 = TailMax
          /\ \A i \in 1..TailMax : (fed - TailMax + 1) + i - 1 = fed - TailMax + i
      BY <1>1, <1>2, <1>3, <1>6
    <3>2. t \in Seq(Unit) /\ Len(t) = fed - (fed - TailMax + 1) + 1
          /\ \A i \in 1..(fed - (fed - TailMax + 1) + 1) :
                t[i] = Wrapped[(fed - TailMax + 1) + i - 1]
      <4>1. t = SubSeq(Wrapped, fed - TailMax + 1, fed)
        OBVIOUS
      <4>. HIDE DEF t
      <4>. QED
        BY <1>1, <3>1, <4>1, Stretch
    <3>. HIDE DEF t
    <3>. QED
      BY <3>1, <3>2
  <2>3. Bytes = h \o <<Notice>> \o t /\ ring.omitted > 0
    BY <1>1, <1>2, <1>4, <1>6
  <2>. HIDE DEF h, t
  <2>4. h \in Seq(Unit) /\ t \in Seq(Unit)
    BY <2>1, <2>2
  <2>. DEFINE p == Bytes
  <2>5. p = h \o <<Notice>> \o t
    BY <2>3
  <2>. HIDE DEF p
  <2>6. /\ p \in Seq(Unit) /\ Len(p) = Len(h) + 1 + Len(t)
        /\ \A i \in 1..Len(h) : p[i] = h[i]
        /\ p[Len(h) + 1] = Notice
        /\ \A i \in 1..Len(t) : p[Len(h) + 1 + i] = t[i]
    <3>1. Between(p, h, t)
      BY <2>4, <2>5, Around, Zenon
    <3>. QED
      BY <3>1 DEF Between
  <2>7. /\ Len(p) = HeadMax + 1 + TailMax
        /\ \A i \in 1..HeadMax : p[i] = Wrapped[i]
        /\ p[HeadMax + 1] = Notice
        /\ \A i \in 1..TailMax : p[HeadMax + 1 + i] = Wrapped[fed - TailMax + i]
    BY <2>1, <2>2, <2>6
  <2>8. ASSUME NEW i \in 1..Len(p), p[i] # Notice PROVE \E j \in 1..fed : p[i] = Wrapped[j]
    <3>1. CASE i <= HeadMax
      <4>1. i \in 1..HeadMax /\ i \in 1..fed
        BY <1>1, <1>2, <1>3, <1>6, <3>1
      <4>2. p[i] = Wrapped[i]
        BY <2>7, <4>1
      <4>. QED
        BY <4>1, <4>2
    <3>2. CASE i > HeadMax
      <4>1. i # HeadMax + 1
        BY <2>7, <2>8
      <4>2. i - HeadMax - 1 \in 1..TailMax /\ HeadMax + 1 + (i - HeadMax - 1) = i
        BY <1>2, <2>7, <3>2, <4>1
      <4>3. fed - TailMax + (i - HeadMax - 1) \in 1..fed
        BY <1>1, <1>2, <1>3, <1>6, <4>2
      <4>. QED
        BY <2>7, <4>2, <4>3
    <3>. QED
      BY <1>2, <2>7, <3>1, <3>2
  <2>9. ~(fed <= Limit)
    BY <1>1, <1>2, <1>6
  <2>. QED
    <3>1. \A i \in 1..Len(p) : p[i] = Notice \/ \E j \in 1..fed : p[i] = Wrapped[j]
      BY <2>8, Zenon
    <3>. QED
      BY <1>3, <2>3, <2>6, <2>7, <2>9, <3>1, Zenon DEF p
<1>7. fed <= Limit \/ fed > Limit
  BY <1>1, <1>2
<1>. QED
  BY <1>5, <1>6, <1>7, Zenon

LEMMA PayloadStart ==
  ASSUME records \in Nat, trail \in Nat
  PROVE  SubSeq(Wrapped, 1, BodyLen) = Payload
<1>. DEFINE cut == SubSeq(Wrapped, 1, BodyLen)
<1>0. /\ Wrapped \in Seq(Unit) /\ Len(Wrapped) = BodyLen + MarkLen + StatusLen + 1 + trail
      /\ BodyLen \in Nat /\ MarkLen \in Nat /\ StatusLen \in Nat
  BY WrappedFacts, PartsFacts, Consts
<1>1. 1 \in Nat \ {0} /\ 1 <= BodyLen + 1 /\ BodyLen <= Len(Wrapped) /\ BodyLen - 1 + 1 = BodyLen
  BY <1>0
<1>2. cut \in Seq(Unit) /\ Len(cut) = BodyLen - 1 + 1
      /\ \A i \in 1..(BodyLen - 1 + 1) : cut[i] = Wrapped[1 + i - 1]
  BY <1>0, <1>1, Stretch
<1>. HIDE DEF cut
<1>3. Payload \in Seq(Unit) /\ Len(Payload) = BodyLen
  BY PartsFacts
<1>4. \A i \in 1..BodyLen : Wrapped[i] = Payload[i]
  BY WrappedFacts
<1>5. \A i \in 1..BodyLen : cut[i] = Payload[i]
  BY <1>1, <1>2, <1>4
<1>6. cut = Payload
  BY <1>1, <1>2, <1>3, <1>5, SeqEqual
<1>. QED
  BY <1>6 DEF cut

\* RunKnowsTheEnd when the output fits.
LEMMA WholeIsSplit ==
  ASSUME records \in Nat, trail \in Nat
  PROVE  Split(Wrapped) = [ok |-> TRUE, out |-> Payload, code |-> Digits]
<1>0. /\ Wrapped \in Seq(Unit) /\ Len(Wrapped) = BodyLen + MarkLen + StatusLen + 1 + trail
      /\ BodyLen \in Nat /\ MarkLen \in Nat /\ StatusLen \in Nat
  BY WrappedFacts, PartsFacts, Consts
<1>. DEFINE at == BodyLen + 1
<1>1. at \in Nat \ {0} /\ Len(Wrapped) = at + MarkLen + StatusLen + trail /\ at - 1 = BodyLen
  BY <1>0
<1>2. \A k \in 0..(MarkLen + StatusLen + trail) : Wrapped[at + k] = Wrapped[BodyLen + 1 + k]
  OBVIOUS
<1>3. ASSUME NEW i \in 1..(at - 1) PROVE Wrapped[i][1] # "mark"
  <2>1. i \in 1..Len(Wrapped) /\ ~(i > BodyLen)
    BY <1>0
  <2>. QED
    BY <2>1, KindsInOrder
<1>. HIDE DEF at
<1>4. \A k \in 0..(MarkLen + StatusLen + trail) : Wrapped[at + k] = Wrapped[BodyLen + 1 + k]
  BY <1>2
<1>5. Split(Wrapped) = [ok |-> TRUE, out |-> SubSeq(Wrapped, 1, at - 1), code |-> Digits]
  BY <1>0, <1>1, <1>3, <1>4, SplitEnds
<1>. QED
  BY <1>1, <1>5, PayloadStart

LEMMA RunKnows == CommandInv => RunKnowsTheEnd
<1>. DEFINE E == MarkLen + StatusLen + 1 + trail
<1>. SUFFICES ASSUME CommandInv, path = "run", outcome.done, arrives = Len(Wrapped),
                     MarkLen + Len(Digits) + 1 + trail <= TailMax
              PROVE  outcome.ok /\ outcome.code = Digits /\ Ends(outcome.out)
  BY DEF RunKnowsTheEnd
<1>1. /\ records \in Nat /\ trail \in Nat /\ Wrapped \in Seq(Unit)
      /\ fed = arrives /\ fed = Len(Wrapped) /\ fed \in Nat
  BY BoundedFacts DEF CommandInv, RunEnds
<1>2. /\ Len(Wrapped) = BodyLen + E /\ BodyLen \in Nat /\ MarkLen \in Nat \ {0}
      /\ StatusLen \in Nat \ {0} /\ TailMax \in Nat \ {0} /\ HeadMax \in Nat /\ E \in Nat
      /\ E >= 1
  BY <1>1, WrappedFacts, PartsFacts, Consts
<1>3. E <= TailMax
  <2>1. Len(Digits) = StatusLen
    BY <1>1, PartsFacts
  <2>. QED
    BY <2>1
<1>4. Payload \in Seq(Unit) /\ Len(Payload) = BodyLen
      /\ \A i \in 1..BodyLen : Wrapped[i] = Payload[i]
  BY <1>1, PartsFacts, WrappedFacts
<1>5. outcome = [done |-> TRUE, ok |-> Split(Bytes).ok,
                 out |-> IF Split(Bytes).ok THEN Split(Bytes).out ELSE <<>>,
                 code |-> Split(Bytes).code, truncated |-> Truncated]
  BY DEF CommandInv, RunEnds
<1>6. Bytes \in Seq(Unit) /\ Limit = HeadMax + TailMax
  BY BytesHeld DEF CommandInv
<1>7. CASE fed <= Limit
  <2>1. Bytes = SubSeq(Wrapped, 1, Len(Wrapped))
    BY <1>1, <1>7, BytesHeld DEF CommandInv
  <2>2. Bytes = Wrapped
    BY <1>1, <2>1, SubSeqFull
  <2>3. Split(Bytes) = [ok |-> TRUE, out |-> Payload, code |-> Digits]
    BY <1>1, <2>2, WholeIsSplit
  <2>4. outcome.ok /\ outcome.code = Digits /\ outcome.out = Payload
    BY <1>5, <2>3
  <2>. QED
    BY <2>4 DEF Ends
<1>8. CASE fed > Limit
  <2>. DEFINE at == HeadMax + 1 + (TailMax - E) + 1
              i == HeadMax
              j == TailMax - E
              p == Bytes
  <2>1. /\ Len(p) = HeadMax + 1 + TailMax
        /\ \A k \in 1..HeadMax : p[k] = Wrapped[k]
        /\ p[HeadMax + 1] = Notice
        /\ \A k \in 1..TailMax : p[HeadMax + 1 + k] = Wrapped[fed - TailMax + k]
        /\ p \in Seq(Unit)
    BY <1>6, <1>8, BytesHeld DEF CommandInv
  <2>. HIDE DEF p, E
  <2>1a. fed = BodyLen + E /\ HeadMax + TailMax < fed
    BY <1>1, <1>2, <1>6, <1>8
  <2>2. /\ at \in Nat \ {0} /\ at + E = Len(p) + 1 /\ at - 1 = HeadMax + 1 + (TailMax - E)
        /\ i \in Nat /\ j \in Nat /\ i + j < BodyLen
    BY <1>2, <1>3, <2>1, <2>1a
  <2>3. ASSUME NEW k \in 0..(MarkLen + StatusLen + trail)
        PROVE  p[at + k] = Wrapped[BodyLen + 1 + k]
    <3>0. k \in Nat /\ k + 1 <= E
      BY <1>1, <1>2 DEF E
    <3>1. /\ (TailMax - E) + 1 + k \in 1..TailMax
          /\ HeadMax + 1 + ((TailMax - E) + 1 + k) = at + k
          /\ fed - TailMax + ((TailMax - E) + 1 + k) = BodyLen + 1 + k
      BY <1>2, <1>3, <2>1a, <3>0
    <3>2. p[HeadMax + 1 + ((TailMax - E) + 1 + k)] = Wrapped[fed - TailMax + ((TailMax - E) + 1 + k)]
      BY <2>1, <3>1
    <3>. QED
      BY <3>1, <3>2
  <2>4. ASSUME NEW k \in 1..(at - 1)
        PROVE  /\ k <= HeadMax => k \in 1..BodyLen /\ p[k] = Payload[k]
               /\ k = HeadMax + 1 => p[k] = Notice
               /\ k > HeadMax + 1 =>
                     /\ fed - TailMax + (k - HeadMax - 1) \in 1..BodyLen
                     /\ p[k] = Payload[fed - TailMax + (k - HeadMax - 1)]
               /\ p[k][1] # "mark"
    <3>0. k \in Nat /\ k >= 1 /\ k <= HeadMax + 1 + (TailMax - E)
      BY <2>2
    <3>1. CASE k <= HeadMax
      <4>1. k \in 1..HeadMax /\ k \in 1..BodyLen
        BY <1>2, <1>3, <2>1a, <3>0, <3>1
      <4>2. p[k] = Payload[k]
        BY <1>4, <2>1, <4>1
      <4>3. Payload[k][1] = "half"
        BY <1>1, <4>1, PartsFacts
      <4>. QED
        BY <1>2, <3>0, <3>1, <4>1, <4>2, <4>3
    <3>2. CASE k = HeadMax + 1
      <4>1. p[k] = Notice /\ Notice[1] # "mark"
        BY <2>1, <3>2 DEF Notice
      <4>. QED
        BY <1>2, <3>2, <4>1
    <3>3. CASE k > HeadMax + 1
      <4>. DEFINE l == k - HeadMax - 1
      <4>1. l \in 1..TailMax /\ HeadMax + 1 + l = k /\ fed - TailMax + l \in 1..BodyLen
        BY <1>2, <1>3, <2>1a, <3>0, <3>3
      <4>. HIDE DEF l
      <4>2. p[k] = Wrapped[fed - TailMax + l]
        BY <2>1, <4>1
      <4>3. p[k] = Payload[fed - TailMax + l]
        BY <1>4, <4>1, <4>2
      <4>4. Payload[fed - TailMax + l][1] = "half"
        BY <1>1, <4>1, PartsFacts
      <4>. QED
        BY <1>2, <3>0, <3>3, <4>1, <4>3, <4>4 DEF l
    <3>. QED
      BY <1>2, <3>0, <3>1, <3>2, <3>3
  <2>. HIDE DEF at
  <2>5. Len(p) = at + MarkLen + StatusLen + trail
    BY <1>1, <1>2, <2>1, <2>2 DEF E
  <2>6. Split(p) = [ok |-> TRUE, out |-> SubSeq(p, 1, at - 1), code |-> Digits]
    <3>1. \A k \in 0..(MarkLen + StatusLen + trail) : p[at + k] = Wrapped[BodyLen + 1 + k]
      BY <2>3, Zenon
    <3>2. \A k \in 1..(at - 1) : p[k][1] # "mark"
      BY <2>4, Zenon
    <3>3. records \in Nat /\ trail \in Nat /\ p \in Seq(Unit) /\ at \in Nat \ {0}
      BY <1>1, <2>1, <2>2
    <3>. QED
      BY <2>5, <3>1, <3>2, <3>3, SplitEnds, Zenon
  <2>. DEFINE cut == SubSeq(p, 1, at - 1)
              h == SubSeq(Payload, 1, i)
              t == SubSeq(Payload, BodyLen - j + 1, BodyLen)
              q == h \o <<Notice>> \o t
  <2>7. /\ cut \in Seq(Unit) /\ Len(cut) = i + 1 + j
        /\ \A k \in 1..(i + 1 + j) : k \in 1..(at - 1) /\ cut[k] = p[k]
    <3>1. 1 \in Nat \ {0} /\ at - 1 \in Nat /\ 1 <= (at - 1) + 1 /\ at - 1 <= Len(p)
          /\ (at - 1) - 1 + 1 = i + 1 + j /\ at - 1 = i + 1 + j
      BY <1>2, <1>3, <2>2
    <3>2. /\ cut \in Seq(Unit) /\ Len(cut) = (at - 1) - 1 + 1
          /\ \A k \in 1..((at - 1) - 1 + 1) : cut[k] = p[1 + k - 1]
      BY <2>1, <3>1, Stretch
    <3>. HIDE DEF cut, i, j
    <3>. QED
      BY <3>1, <3>2
  <2>8. h \in Seq(Unit) /\ Len(h) = i /\ \A k \in 1..i : h[k] = Payload[k]
    <3>1. 1 \in Nat \ {0} /\ 1 <= i + 1 /\ i <= Len(Payload) /\ i - 1 + 1 = i /\ i \in Nat
      BY <1>2, <1>3, <1>4, <2>2
    <3>. HIDE DEF i
    <3>2. h \in Seq(Unit) /\ Len(h) = i - 1 + 1
          /\ \A k \in 1..(i - 1 + 1) : h[k] = Payload[1 + k - 1]
      BY <1>4, <3>1, Stretch
    <3>. HIDE DEF h
    <3>. QED
      BY <3>1, <3>2
  <2>9. t \in Seq(Unit) /\ Len(t) = j /\ \A k \in 1..j : t[k] = Payload[BodyLen - j + k]
    <3>0. j \in Nat /\ j <= BodyLen
      BY <1>2, <2>2
    <3>. HIDE DEF j, i
    <3>1. /\ BodyLen - j + 1 \in Nat \ {0} /\ BodyLen - j + 1 <= BodyLen + 1
          /\ BodyLen <= Len(Payload) /\ BodyLen - (BodyLen - j + 1) + 1 = j
          /\ \A k \in 1..j : (BodyLen - j + 1) + k - 1 = BodyLen - j + k
      BY <1>2, <1>4, <3>0
    <3>2. /\ t \in Seq(Unit) /\ Len(t) = BodyLen - (BodyLen - j + 1) + 1
          /\ \A k \in 1..(BodyLen - (BodyLen - j + 1) + 1) :
                t[k] = Payload[(BodyLen - j + 1) + k - 1]
      <4>1. /\ Payload \in Seq(Unit) /\ BodyLen \in Nat /\ BodyLen - j + 1 \in Nat \ {0}
            /\ BodyLen - j + 1 <= BodyLen + 1 /\ BodyLen <= Len(Payload)
        BY <1>2, <1>4, <3>1
      <4>. HIDE DEF t, h, q, cut
      <4>2. t = SubSeq(Payload, BodyLen - j + 1, BodyLen)
        BY DEF t
      <4>. QED
        BY <4>1, <4>2, Stretch
    <3>. HIDE DEF t
    <3>. QED
      BY <3>1, <3>2
  <2>. HIDE DEF h, t, cut, q
  <2>10. /\ q \in Seq(Unit) /\ Len(q) = Len(h) + 1 + Len(t)
         /\ \A k \in 1..Len(h) : q[k] = h[k]
         /\ q[Len(h) + 1] = Notice
         /\ \A k \in 1..Len(t) : q[Len(h) + 1 + k] = t[k]
    <3>1. q = h \o <<Notice>> \o t /\ h \in Seq(Unit) /\ t \in Seq(Unit)
      BY <2>8, <2>9 DEF q
    <3>2. Between(q, h, t)
      BY <3>1, Around, Zenon
    <3>. QED
      BY <3>2 DEF Between
  <2>11. ASSUME NEW k \in 1..(i + 1 + j) PROVE cut[k] = q[k]
    <3>0. k \in 1..(at - 1) /\ cut[k] = p[k] /\ k \in Nat /\ k >= 1 /\ k <= i + 1 + j
      BY <2>2, <2>7
    <3>1. CASE k <= i
      <4>1. k \in 1..i /\ k \in 1..Len(h)
        BY <2>2, <2>8, <3>0, <3>1
      <4>2. p[k] = Payload[k]
        BY <2>4, <3>0, <3>1
      <4>3. q[k] = h[k] /\ h[k] = Payload[k]
        BY <2>8, <2>10, <4>1
      <4>. QED
        BY <3>0, <4>2, <4>3
    <3>2. CASE k = i + 1
      <4>1. p[k] = Notice
        BY <2>4, <3>0, <3>2
      <4>2. q[i + 1] = Notice
        BY <2>8, <2>10
      <4>. QED
        BY <3>0, <3>2, <4>1, <4>2
    <3>3. CASE k > i + 1
      <4>. DEFINE l == k - HeadMax - 1
      <4>1. l \in 1..j /\ i + 1 + l = k /\ fed - TailMax + l = BodyLen - j + l
        BY <1>2, <1>3, <2>1a, <2>2, <3>0, <3>3
      <4>2. p[k] = Payload[fed - TailMax + l]
        BY <2>4, <3>0, <3>3
      <4>. HIDE DEF l
      <4>3. q[k] = t[l] /\ t[l] = Payload[BodyLen - j + l]
        BY <2>8, <2>9, <2>10, <4>1
      <4>. QED
        BY <3>0, <4>1, <4>2, <4>3
    <3>. QED
      BY <1>2, <3>0, <3>1, <3>2, <3>3
  <2>12. cut = q
    BY <2>7, <2>8, <2>9, <2>10, <2>11, SeqEqual
  <2>13. outcome.ok /\ outcome.code = Digits /\ outcome.out = cut
    <3>1. Split(Bytes) = [ok |-> TRUE, out |-> cut, code |-> Digits]
      BY <2>6 DEF p, cut
    <3>. QED
      BY <1>5, <3>1
  <2>14. i \in 0..Len(Payload) /\ j \in 0..Len(Payload) /\ i + j < Len(Payload)
    <3>1. i \in Nat /\ j \in Nat /\ i + j < BodyLen
      BY <2>2
    <3>. HIDE DEF i, j
    <3>. QED
      BY <1>2, <1>4, <3>1
  <2>15. outcome.out = SubSeq(Payload, 1, i) \o <<Notice>>
                          \o SubSeq(Payload, Len(Payload) - j + 1, Len(Payload))
    BY <1>4, <2>12, <2>13 DEF q, h, t
  <2>16. Ends(outcome.out)
    <3>. HIDE DEF i, j
    <3>. QED
      BY <2>14, <2>15 DEF Ends
  <2>. QED
    BY <2>13, <2>16
<1>9. Limit \in Nat
  BY CommandAssumption DEF CommandAssumption
<1>. QED
  BY <1>1, <1>7, <1>8, <1>9

-----------------------------------------------------------------------------
LEMMA LossTold == CommandInv => LossIsTold
<1>. SUFFICES ASSUME CommandInv, path = "run", outcome.done, outcome.ok, ~outcome.truncated
              PROVE  outcome.out = Payload
  BY DEF LossIsTold, ReadRange
<1>1. /\ records \in Nat /\ trail \in Nat /\ fed \in 0..Len(Wrapped) /\ fed \in Nat
  BY BoundedFacts DEF CommandInv
<1>2. outcome = [done |-> TRUE, ok |-> Split(Bytes).ok,
                 out |-> IF Split(Bytes).ok THEN Split(Bytes).out ELSE <<>>,
                 code |-> Split(Bytes).code, truncated |-> Truncated]
  BY DEF CommandInv, RunEnds
<1>3. Split(Bytes).ok /\ outcome.out = Split(Bytes).out /\ ~(ring.omitted > 0)
  BY <1>2 DEF Truncated
<1>4. Bytes = SubSeq(Wrapped, 1, fed)
  <2>1. fed <= Limit \/ fed > Limit
    BY <1>1, CommandAssumption DEF CommandAssumption
  <2>. QED
    BY <1>3, <2>1, BytesHeld DEF CommandInv
<1>. QED
  BY <1>1, <1>3, <1>4, PrefixSplit

\* What the filter of a stream held back at the end.
LEMMA LeftFacts ==
  ASSUME Bounded, NEW held, held = Lesser(arrives, Hold),
         NEW left, left = SubSeq(Wrapped, arrives - held + 1, arrives)
  PROVE  /\ held \in Nat /\ held <= arrives /\ held <= Hold /\ (arrives < Hold => held = arrives)
         /\ (arrives >= Hold => held = Hold)
         /\ left \in Seq(Unit) /\ Len(left) = held
         /\ \A i \in 1..held :
               arrives - held + i \in 1..arrives /\ left[i] = Wrapped[arrives - held + i]
<1>1. /\ Wrapped \in Seq(Unit) /\ Len(Wrapped) \in Nat /\ arrives \in Nat
      /\ arrives <= Len(Wrapped)
  BY BoundedFacts
<1>2. Hold \in Nat
  BY Consts
<1>3. /\ held \in Nat /\ held <= arrives /\ held <= Hold /\ (arrives < Hold => held = arrives)
      /\ (arrives >= Hold => held = Hold)
  BY <1>1, <1>2 DEF Lesser
<1>4. /\ arrives - held + 1 \in Nat \ {0} /\ arrives - held + 1 <= arrives + 1
      /\ arrives - (arrives - held + 1) + 1 = held
  BY <1>1, <1>3
<1>5. /\ left \in Seq(Unit) /\ Len(left) = arrives - (arrives - held + 1) + 1
      /\ \A i \in 1..(arrives - (arrives - held + 1) + 1) :
            left[i] = Wrapped[(arrives - held + 1) + i - 1]
  BY <1>1, <1>4, Stretch
<1>6. ASSUME NEW i \in 1..held
      PROVE  /\ (arrives - held + 1) + i - 1 = arrives - held + i
             /\ arrives - held + i \in 1..arrives
  BY <1>1, <1>3
<1>7. ASSUME NEW i \in 1..held PROVE left[i] = Wrapped[arrives - held + i]
  BY <1>4, <1>5, <1>6
<1>. QED
  BY <1>3, <1>4, <1>5, <1>6, <1>7

LEMMA MarkerNeeded == CommandInv => StatusNeedsMarker
<1>. SUFFICES ASSUME CommandInv, outcome.done, outcome.ok
              PROVE  \E n \in 1..Len(Digits) : /\ arrives >= Len(Payload) + MarkLen + n
                                               /\ outcome.code = SubSeq(Digits, 1, n)
  BY DEF StatusNeedsMarker
<1>0. Len(Payload) = BodyLen /\ Len(Digits) = StatusLen
  BY BoundedFacts, PartsFacts DEF CommandInv
<1>1. /\ records \in Nat /\ trail \in Nat /\ fed \in 0..Len(Wrapped)
      /\ arrives \in 0..Len(Wrapped) /\ fed \in Nat /\ arrives \in Nat
      /\ HeadMax \in Nat /\ TailMax \in Nat /\ Limit \in Nat /\ HeadMax + TailMax = Limit
  <2>1. /\ records \in Nat /\ trail \in Nat /\ fed \in 0..Len(Wrapped)
        /\ arrives \in 0..Len(Wrapped) /\ fed \in Nat /\ arrives \in Nat
    BY BoundedFacts DEF CommandInv, Bounded
  <2>2. Limit \in Nat /\ HeadMax \in Nat /\ TailMax \in Nat
    <3>1. Limit \in Nat
      BY CommandAssumption DEF CommandAssumption
    <3>. QED
      BY <3>1, Consts
  <2>3. HeadMax + TailMax = Limit
    BY <2>2 DEF HeadMax
  <2>. QED
    BY <2>1, <2>2, <2>3
<1>2. CASE path = "run"
  <2>1. /\ fed = arrives
        /\ outcome = [done |-> TRUE, ok |-> Split(Bytes).ok,
                      out |-> IF Split(Bytes).ok THEN Split(Bytes).out ELSE <<>>,
                      code |-> Split(Bytes).code, truncated |-> Truncated]
    BY <1>2 DEF CommandInv, RunEnds
  <2>2. Split(Bytes).ok /\ outcome.code = Split(Bytes).code
    BY <2>1
  <2>3. /\ Bytes \in Seq(Unit)
        /\ fed <= Limit => Bytes = SubSeq(Wrapped, 1, fed)
        /\ fed > Limit =>
              /\ Len(Bytes) = HeadMax + 1 + TailMax
              /\ \A i \in 1..HeadMax : Bytes[i] = Wrapped[i]
              /\ Bytes[HeadMax + 1] = Notice
              /\ \A i \in 1..TailMax : Bytes[HeadMax + 1 + i] = Wrapped[fed - TailMax + i]
    BY <1>2, BytesHeld DEF CommandInv
  <2>4. Unbroken(Bytes, fed)
    <3>. SUFFICES ASSUME NEW a \in 1..Len(Bytes), NEW b \in 1..Len(Bytes),
                         \A i \in a..b : Bytes[i] # Notice
                  PROVE  \E d \in Int : \A i \in a..b : i + d \in 1..fed /\ Bytes[i] = Wrapped[i + d]
      BY DEF Unbroken
    <3>. DEFINE e == fed - TailMax - HeadMax - 1
    <3>0. Len(Bytes) \in Nat /\ 0 \in Int /\ e \in Int
      BY <1>1, <2>3, LenProperties
    <3>1. CASE fed <= Limit
      <4>1. \A i \in 1..fed : Bytes[i] = Wrapped[i]
        BY <1>1, <2>3, <3>1, Start
      <4>2. Len(Bytes) = fed
        BY <1>1, <2>3, <3>1, Start
      <4>3. \A i \in a..b : i + 0 \in 1..fed /\ Bytes[i] = Wrapped[i + 0]
        BY <1>1, <4>1, <4>2
      <4>. QED
        BY <3>0, <4>3
    <3>2. CASE fed > Limit /\ b <= HeadMax
      <4>1. \A i \in a..b : i + 0 \in 1..fed /\ Bytes[i] = Wrapped[i + 0]
        BY <1>1, <2>3, <3>0, <3>2
      <4>. QED
        BY <3>0, <4>1
    <3>3. CASE fed > Limit /\ a > HeadMax + 1
      <4>1. ASSUME NEW i \in a..b
            PROVE  i + e \in 1..fed /\ Bytes[i] = Wrapped[i + e]
        <5>1. /\ i - HeadMax - 1 \in 1..TailMax /\ HeadMax + 1 + (i - HeadMax - 1) = i
              /\ fed - TailMax + (i - HeadMax - 1) = i + e /\ i + e \in 1..fed
          BY <1>1, <2>3, <3>0, <3>3
        <5>2. Bytes[HeadMax + 1 + (i - HeadMax - 1)] = Wrapped[fed - TailMax + (i - HeadMax - 1)]
          BY <2>3, <3>3, <5>1
        <5>. QED
          BY <5>1, <5>2
      <4>. HIDE DEF e
      <4>. QED
        BY <3>0, <4>1
    <3>4. CASE fed > Limit /\ b > HeadMax /\ a <= HeadMax + 1 /\ a <= b
      <4>1. HeadMax + 1 \in a..b
        BY <1>1, <3>0, <3>4
      <4>. QED
        BY <2>3, <3>4, <4>1
    <3>5. CASE b < a
      <4>1. \A i \in a..b : i + 0 \in 1..fed /\ Bytes[i] = Wrapped[i + 0]
        BY <3>0, <3>5
      <4>. QED
        BY <3>0, <4>1
    <3>. HIDE DEF e
    <3>. QED
      BY <1>1, <3>0, <3>1, <3>2, <3>3, <3>4, <3>5
  <2>. QED
    BY <1>0, <1>1, <2>1, <2>2, <2>3, <2>4, NeedsMarker
<1>3. CASE path = "stream"
  <2>. DEFINE held == Lesser(arrives, Hold)
              left == SubSeq(Wrapped, arrives - held + 1, arrives)
  <2>1. Split(left).ok /\ outcome.code = Split(left).code
    BY <1>3 DEF CommandInv, StreamEnds
  <2>2. /\ held \in Nat /\ left \in Seq(Unit) /\ Len(left) = held
        /\ \A i \in 1..held :
              arrives - held + i \in 1..arrives /\ left[i] = Wrapped[arrives - held + i]
    BY LeftFacts DEF CommandInv
  <2>. HIDE DEF left, held
  <2>3. Unbroken(left, arrives)
    <3>. SUFFICES ASSUME NEW a \in 1..Len(left), NEW b \in 1..Len(left)
                  PROVE  \E d \in Int : \A i \in a..b : i + d \in 1..arrives /\ left[i] = Wrapped[i + d]
      BY DEF Unbroken
    <3>1. arrives - held \in Int
      BY <1>1, <2>2
    <3>2. ASSUME NEW i \in a..b
          PROVE  i + (arrives - held) \in 1..arrives /\ left[i] = Wrapped[i + (arrives - held)]
      <4>1. i \in 1..held /\ arrives - held + i = i + (arrives - held)
        BY <1>1, <2>2
      <4>. QED
        BY <2>2, <4>1
    <3>. QED
      BY <3>1, <3>2
  <2>. QED
    BY <1>0, <1>1, <2>1, <2>2, <2>3, NeedsMarker
<1>. QED
  BY <1>2, <1>3 DEF CommandInv, Bounded

\* A start of the wrapper's output that ends before its marker is one of the command's.
LEMMA StartOfPayload ==
  ASSUME records \in Nat, trail \in Nat, NEW n \in 0..BodyLen
  PROVE  /\ SubSeq(Wrapped, 1, n) = SubSeq(Payload, 1, n)
         /\ Len(SubSeq(Wrapped, 1, n)) = n
<1>. DEFINE u == SubSeq(Wrapped, 1, n)
            v == SubSeq(Payload, 1, n)
<1>0. /\ Wrapped \in Seq(Unit) /\ Len(Wrapped) = BodyLen + MarkLen + StatusLen + 1 + trail
      /\ BodyLen \in Nat /\ MarkLen \in Nat /\ StatusLen \in Nat /\ n \in Nat /\ n <= BodyLen
      /\ Payload \in Seq(Unit) /\ Len(Payload) = BodyLen
  BY WrappedFacts, PartsFacts, Consts
<1>1. 1 \in Nat \ {0} /\ 1 <= n + 1 /\ n <= Len(Wrapped) /\ n <= Len(Payload) /\ n - 1 + 1 = n
  BY <1>0
<1>2. u \in Seq(Unit) /\ Len(u) = n - 1 + 1 /\ \A i \in 1..(n - 1 + 1) : u[i] = Wrapped[1 + i - 1]
  BY <1>0, <1>1, Stretch
<1>3. v \in Seq(Unit) /\ Len(v) = n - 1 + 1 /\ \A i \in 1..(n - 1 + 1) : v[i] = Payload[1 + i - 1]
  BY <1>0, <1>1, Stretch
<1>. HIDE DEF u, v
<1>4. \A i \in 1..BodyLen : Wrapped[i] = Payload[i]
  BY WrappedFacts
<1>5. \A i \in 1..n : u[i] = v[i]
  BY <1>0, <1>1, <1>2, <1>3, <1>4
<1>6. u = v /\ Len(u) = n
  BY <1>1, <1>2, <1>3, <1>5, SeqEqual
<1>. QED
  BY <1>6 DEF u, v

LEMMA StreamKnows == CommandInv => StreamAgrees
<1>. DEFINE E == MarkLen + StatusLen + 1 + trail
<1>. SUFFICES ASSUME CommandInv, path = "stream", Len(Digits) + 1 + trail <= Slack
              PROVE  /\ ~outcome.done => \E n \in 0..Len(Payload) : emitted = SubSeq(Payload, 1, n)
                     /\ outcome.done /\ arrives = Len(Wrapped) =>
                          emitted = Payload /\ outcome.ok /\ outcome.code = Digits
  BY DEF StreamAgrees
<1>1. /\ records \in Nat /\ trail \in Nat /\ Wrapped \in Seq(Unit)
      /\ fed \in Nat /\ arrives \in Nat /\ fed <= arrives /\ arrives <= Len(Wrapped)
  BY BoundedFacts DEF CommandInv
<1>2. /\ Len(Wrapped) = BodyLen + E /\ BodyLen \in Nat /\ MarkLen \in Nat \ {0}
      /\ StatusLen \in Nat \ {0} /\ E \in Nat /\ E >= 1
      /\ Slack \in Nat /\ Hold = MarkLen + Slack
  <2>1. /\ BodyLen \in Nat /\ MarkLen \in Nat \ {0} /\ StatusLen \in Nat \ {0}
        /\ Slack \in Nat /\ Hold = MarkLen + Slack
    BY <1>1, PartsFacts, Consts
  <2>2. Len(Wrapped) = BodyLen + MarkLen + StatusLen + 1 + trail
    BY <1>1, WrappedFacts
  <2>. QED
    BY <1>1, <2>1, <2>2
<1>3. E <= Hold /\ Hold \in Nat
  <2>1. Len(Digits) = StatusLen
    BY <1>1, PartsFacts
  <2>2. StatusLen + 1 + trail <= Slack
    BY <2>1
  <2>. QED
    BY <1>1, <1>2, <2>2
<1>4. ASSUME ~outcome.done PROVE \E n \in 0..Len(Payload) : emitted = SubSeq(Payload, 1, n)
  <2>. DEFINE n == fed - Lesser(fed, Hold)
  <2>1. emitted = SubSeq(Wrapped, 1, n)
    BY <1>4 DEF CommandInv, Filtered
  <2>2. n \in 0..BodyLen
    <3>1. Lesser(fed, Hold) = IF fed < Hold THEN fed ELSE Hold
      BY DEF Lesser
    <3>2. fed <= BodyLen + E
      BY <1>1, <1>2
    <3>. HIDE DEF E
    <3>3. CASE fed < Hold
      BY <1>1, <1>2, <3>1, <3>3
    <3>4. CASE ~(fed < Hold)
      BY <1>1, <1>2, <1>3, <3>1, <3>2, <3>4
    <3>. QED
      BY <3>3, <3>4
  <2>. HIDE DEF n
  <2>3. emitted = SubSeq(Payload, 1, n)
    BY <1>1, <2>1, <2>2, StartOfPayload
  <2>4. Len(Payload) = BodyLen
    BY <1>1, PartsFacts
  <2>. QED
    BY <2>2, <2>3, <2>4
<1>5. ASSUME outcome.done, arrives = Len(Wrapped)
      PROVE  emitted = Payload /\ outcome.ok /\ outcome.code = Digits
  <2>. DEFINE held == Lesser(arrives, Hold)
              left == SubSeq(Wrapped, arrives - held + 1, arrives)
              last == CHOOSE i \in MarksIn(left) : \A j \in MarksIn(left) : j <= i
              at == held - E + 1
  <2>1. /\ outcome.ok = Split(left).ok /\ outcome.code = Split(left).code
        /\ emitted = SubSeq(Wrapped, 1, arrives - held)
                        \o (IF MarksIn(left) = {} THEN left ELSE SubSeq(left, 1, last - 1))
    BY <1>5 DEF CommandInv, StreamEnds
  <2>2. /\ held \in Nat /\ held <= arrives /\ (arrives < Hold => held = arrives)
        /\ (arrives >= Hold => held = Hold)
        /\ left \in Seq(Unit) /\ Len(left) = held
        /\ \A i \in 1..held :
              arrives - held + i \in 1..arrives /\ left[i] = Wrapped[arrives - held + i]
    BY LeftFacts DEF CommandInv
  <2>. HIDE DEF left, held, E
  <2>3. arrives = BodyLen + E /\ E <= held
    BY <1>1, <1>2, <1>3, <1>5, <2>2
  <2>4. at \in Nat \ {0} /\ at + E = held + 1 /\ at - 1 = held - E
    BY <1>2, <2>2, <2>3
  <2>5. Len(left) = at + MarkLen + StatusLen + trail
    BY <1>1, <1>2, <2>2, <2>4 DEF E
  <2>6. ASSUME NEW k \in 0..(MarkLen + StatusLen + trail)
        PROVE  left[at + k] = Wrapped[BodyLen + 1 + k]
    <3>0. k \in Nat /\ k + 1 <= E
      BY <1>1, <1>2 DEF E
    <3>1. at + k \in 1..held /\ arrives - held + (at + k) = BodyLen + 1 + k
      BY <1>2, <2>2, <2>3, <2>4, <3>0
    <3>. QED
      BY <2>2, <3>1
  <2>7. ASSUME NEW i \in 1..(at - 1) PROVE left[i][1] # "mark"
    <3>1. i \in 1..held /\ arrives - held + i \in 1..Len(Wrapped) /\ ~(arrives - held + i > BodyLen)
      <4>1. i \in Nat /\ i >= 1 /\ i <= held - E
        BY <2>4
      <4>2. E \in Nat /\ E >= 1 /\ BodyLen \in Nat
        BY <1>2
      <4>3. i \in 1..held
        BY <2>2, <4>1, <4>2
      <4>4. arrives - held + i <= BodyLen
        BY <1>1, <2>2, <2>3, <4>1, <4>2
      <4>5. arrives - held + i \in 1..Len(Wrapped)
        BY <1>1, <1>5, <2>2, <4>3
      <4>. QED
        BY <4>2, <4>3, <4>4, <4>5
    <3>2. Wrapped[arrives - held + i][1] # "mark"
      BY <1>1, <3>1, KindsInOrder
    <3>. QED
      BY <2>2, <3>1, <3>2
  <2>. HIDE DEF at
  <2>8. /\ MarksIn(left) = {at}
        /\ Split(left) = [ok |-> TRUE, out |-> SubSeq(left, 1, at - 1), code |-> Digits]
    <3>1. \A k \in 0..(MarkLen + StatusLen + trail) : left[at + k] = Wrapped[BodyLen + 1 + k]
      BY <2>6, Zenon
    <3>2. \A i \in 1..(at - 1) : left[i][1] # "mark"
      BY <2>7, Zenon
    <3>3. records \in Nat /\ trail \in Nat /\ left \in Seq(Unit) /\ at \in Nat \ {0}
      BY <1>1, <2>2, <2>4
    <3>. QED
      BY <2>5, <3>1, <3>2, <3>3, SplitEnds, Zenon
  <2>9. last = at /\ MarksIn(left) # {}
    BY <2>8
  <2>. HIDE DEF last
  <2>10. emitted = SubSeq(Wrapped, 1, arrives - held) \o SubSeq(left, 1, at - 1)
    BY <2>1, <2>9
  <2>11. SubSeq(left, 1, at - 1) = SubSeq(Wrapped, arrives - held + 1, BodyLen)
    <3>. DEFINE m == arrives - held
                j == held - E
    <3>1. /\ m \in Nat /\ j \in Nat /\ j <= held /\ m + held = arrives /\ m + held <= Len(Wrapped)
          /\ m + j = BodyLen /\ at - 1 = j /\ arrives - held = m
      BY <1>1, <1>2, <2>2, <2>3, <2>4
    <3>2. left = SubSeq(Wrapped, m + 1, m + held)
      BY <3>1 DEF left
    <3>. HIDE DEF m, j
    <3>3. SubSeq(SubSeq(Wrapped, m + 1, m + held), 1, j) = SubSeq(Wrapped, m + 1, m + j)
      <4>1. /\ Wrapped \in Seq(Unit) /\ m \in Nat /\ held \in Nat /\ j \in Nat /\ j <= held
            /\ m + held <= Len(Wrapped)
        BY <1>1, <2>2, <3>1
      <4>. QED
        BY <4>1, CutInTwo
    <3>. QED
      BY <3>1, <3>2, <3>3, Zenon
  <2>12. SubSeq(Wrapped, 1, arrives - held) \o SubSeq(Wrapped, arrives - held + 1, BodyLen)
            = SubSeq(Wrapped, 1, BodyLen)
    <3>. DEFINE m == arrives - held
    <3>1. /\ 1 \in Nat \ {0} /\ m \in Nat /\ 1 <= m + 1 /\ m <= BodyLen /\ BodyLen <= Len(Wrapped)
      BY <1>1, <1>2, <2>2, <2>3
    <3>. HIDE DEF m
    <3>2. SubSeq(Wrapped, 1, m) \o SubSeq(Wrapped, m + 1, BodyLen) = SubSeq(Wrapped, 1, BodyLen)
      BY <1>1, <1>2, <3>1, Adjacent
    <3>. QED
      BY <3>2 DEF m
  <2>13. emitted = Payload
    BY <1>1, <2>10, <2>11, <2>12, PayloadStart
  <2>. QED
    <3>1. Split(left).ok /\ Split(left).code = Digits
      BY <2>8
    <3>. QED
      BY <2>1, <2>13, <3>1
<1>. QED
  BY <1>4, <1>5

LEMMA SearchFinds == CommandInv => SearchHasThemAll
<1>. SUFFICES ASSUME CommandInv, path = "run", outcome.done, Search(outcome).ok,
                     Len(Search(outcome).found) < MaxResults
              PROVE  Search(outcome).found = AllRecords
  BY DEF SearchHasThemAll
<1>1. /\ outcome.ok /\ ~(outcome.truncated /\ Len(Matches(outcome.out)) < MaxResults)
      /\ Search(outcome).found = Matches(outcome.out)
  BY DEF Search
<1>2. ~outcome.truncated
  BY <1>1
<1>3. outcome.out = Payload
  BY <1>1, <1>2, LossTold DEF LossIsTold
<1>4. records \in Nat /\ trail \in Nat
  BY BoundedFacts DEF CommandInv
<1>. QED
  BY <1>1, <1>3, <1>4, MatchesOfPayload

LEMMA CommandTypesHold == CommandInv => CommandTypeOK
<1>. SUFFICES ASSUME CommandInv PROVE CommandTypeOK
  OBVIOUS
<1>1. /\ records \in Nat /\ trail \in Nat /\ Wrapped \in Seq(Unit) /\ Len(Wrapped) \in Nat
      /\ fed \in Nat /\ arrives \in Nat /\ fed <= arrives /\ arrives <= Len(Wrapped)
  BY BoundedFacts DEF CommandInv
<1>2. TailMax \in Nat \ {0} /\ HeadMax \in Nat /\ Hold \in Nat
  BY Consts
<1>3. CASE path = "run"
  <2>. DEFINE a == Lesser(fed, HeadMax)
              units == SubSeq(Wrapped, a + 1, fed)
  <2>1. head = SubSeq(Wrapped, 1, a) /\ RingHolds(ring, units) /\ pending = <<>>
    BY <1>3 DEF CommandInv, Captured
  <2>2. a \in Nat /\ a <= fed /\ a <= HeadMax
    BY <1>1, <1>2 DEF Lesser
  <2>. HIDE DEF a
  <2>3. Len(head) = a
    <3>1. 1 \in Nat \ {0} /\ 1 <= a + 1 /\ a <= Len(Wrapped) /\ a - 1 + 1 = a
      BY <1>1, <2>2
    <3>2. Len(SubSeq(Wrapped, 1, a)) = a - 1 + 1
      BY <1>1, <2>2, <3>1, Stretch
    <3>. QED
      BY <2>1, <3>1, <3>2
  <2>4. Len(units) = fed - a
    <3>1. a + 1 \in Nat \ {0} /\ a + 1 <= fed + 1 /\ fed <= Len(Wrapped)
          /\ fed - (a + 1) + 1 = fed - a
      BY <1>1, <2>2
    <3>2. Len(units) = fed - (a + 1) + 1
      BY <1>1, <3>1, Stretch
    <3>. HIDE DEF units
    <3>. QED
      BY <3>1, <3>2
  <2>. HIDE DEF units
  <2>5. /\ ring.pos \in 1..TailMax
        /\ ring.omitted = IF Len(units) > TailMax THEN Len(units) - TailMax ELSE 0
        /\ Len(ring.buf) = IF Len(units) < TailMax THEN Len(units) ELSE TailMax
    BY <2>1 DEF RingHolds, Lesser
  <2>6. Len(ring.buf) <= TailMax /\ Len(head) + Len(ring.buf) + ring.omitted = fed
    BY <1>1, <1>2, <2>2, <2>3, <2>4, <2>5
  <2>7. Len(pending) <= Hold
    BY <1>2, <2>1, EmptySeq
  <2>. QED
    BY <1>3, <2>2, <2>3, <2>5, <2>6, <2>7 DEF CommandTypeOK
<1>4. CASE path = "stream"
  <2>1. /\ Len(head) <= HeadMax /\ Len(ring.buf) <= TailMax /\ ring.pos \in 1..TailMax
    <3>1. head = <<>> /\ ring.buf = <<>> /\ ring.pos = 1
      BY <1>4 DEF CommandInv, Filtered
    <3>. QED
      BY <1>2, <3>1, EmptySeq
  <2>2. CASE outcome.done
    <3>1. pending = <<>>
      BY <1>4, <2>2 DEF CommandInv, StreamEnds
    <3>2. Len(pending) <= Hold
      BY <1>2, <3>1, EmptySeq
    <3>. QED
      BY <1>4, <2>1, <2>2, <3>2 DEF CommandTypeOK
  <2>3. CASE ~outcome.done
    <3>. DEFINE held == Lesser(fed, Hold)
                m == fed - held
    <3>1. emitted = SubSeq(Wrapped, 1, m) /\ pending = SubSeq(Wrapped, m + 1, fed)
      BY <1>4, <2>3 DEF CommandInv, Filtered
    <3>2. held \in Nat /\ held <= fed /\ held <= Hold /\ m \in Nat /\ m <= fed /\ fed - m = held
      BY <1>1, <1>2 DEF Lesser
    <3>. HIDE DEF held, m
    <3>3. /\ 1 \in Nat \ {0} /\ 1 <= m + 1 /\ m + 1 \in Nat \ {0} /\ m + 1 <= fed + 1
          /\ fed <= Len(Wrapped) /\ fed - (m + 1) + 1 = held
      BY <1>1, <3>2
    <3>4. Len(SubSeq(Wrapped, m + 1, fed)) = fed - (m + 1) + 1
      BY <1>1, <3>2, <3>3, Stretch
    <3>5. SubSeq(Wrapped, 1, m) \o SubSeq(Wrapped, m + 1, fed) = SubSeq(Wrapped, 1, fed)
      BY <1>1, <3>2, <3>3, Adjacent
    <3>6. SubSeq(Arriving, 1, fed) = SubSeq(Wrapped, 1, fed)
      <4>1. /\ 0 \in Nat /\ 0 + arrives <= Len(Wrapped) /\ 0 + 1 = 1 /\ 0 + arrives = arrives
            /\ 0 + fed = fed
        BY <1>1
      <4>2. SubSeq(SubSeq(Wrapped, 0 + 1, 0 + arrives), 1, fed) = SubSeq(Wrapped, 0 + 1, 0 + fed)
        BY <1>1, <4>1, CutInTwo
      <4>. QED
        BY <4>1, <4>2 DEF Arriving
    <3>7. Len(pending) <= Hold /\ emitted \o pending = SubSeq(Arriving, 1, fed)
      BY <3>1, <3>2, <3>3, <3>4, <3>5, <3>6
    <3>. QED
      BY <1>4, <2>1, <2>3, <3>7 DEF CommandTypeOK
  <2>. QED
    BY <2>2, <2>3
<1>. QED
  BY <1>3, <1>4 DEF CommandInv, Bounded

\* Neither buffer of capWriter grows past its bound, the filter holds back no more
\* than it may, and nothing that arrived is lost on the way (exec.go:145-195,
\* stream.go:255-284).
THEOREM CommandTypes == CommandSpec => []CommandTypeOK
BY CommandInvariant, CommandTypesHold, PTL

\* Where the end of a command's output arrives, however it is cut into pieces and
\* however much there is of it, Run knows the status the command ended with and
\* returns its output or both ends of it, and RunStream hands on the output and
\* nothing of the marker.  Where the connection breaks before that, what either
\* reports is no status at all or the digits of it that arrived
\* (exec.go:36-111, stream.go:236-284).
THEOREM StatusTrue == CommandSpec => []StatusIsTheCommands
<1>1. CommandInv => StatusIsTheCommands
  BY RunKnows, MarkerNeeded, StreamKnows DEF StatusIsTheCommands
<1>. QED
  BY <1>1, CommandInvariant, PTL

\* An output with a gap is flagged, a chunk of a file with a gap is refused, and a
\* search that returns less than its limit has every record (exec.go:197-206,
\* posix.go:172-174, 407-416).
THEOREM NoPartPassedOff == CommandSpec => []NoPartForTheWhole
<1>1. CommandInv => NoPartForTheWhole
  BY LossTold, SearchFinds DEF NoPartForTheWhole
<1>. QED
  BY <1>1, CommandInvariant, PTL
=============================================================================
