----------------------------- MODULE Connections -----------------------------
(***************************************************************************)
(* The multiplexed ssh connections to one destination: ssh.go, mux.go and  *)
(* the retry loops of ssh.go and stream.go in internal/transport.          *)
(*                                                                         *)
(* A connection is a control socket with a master process behind it.  The  *)
(* sockets are named after the destination, so every transport to it, in   *)
(* whatever process, meets the others there.  A transport runs requests on *)
(* one connection at a time, connection 0 first, and moves on to the next  *)
(* when sshd refuses it another channel.  Users are the transports of tool *)
(* calls and of the exec-server, which nobody closes; Probes are           *)
(* DetectMultiplexing; Downs are those of `reach down`.                    *)
(*                                                                         *)
(* A step is one invocation of ssh, or what ssh and sshd do.  Nobody uses  *)
(* a transport after closing it, so the checks of `closed` never fire and  *)
(* are left out, as is the client without multiplexing, which has a        *)
(* connection for every command and no Overflow.                           *)
(***************************************************************************)
EXTENDS Naturals, FiniteSets

CONSTANTS
    Users, Probes, Downs, \* transports
    Requests,             \* commands
    Of,                   \* the transport of each request; a probe has one
    Streamed,             \* those that run through RunStream, the rest through Run
    MaxOverflow,          \* the last connection
    MaxSessions           \* sshd's limit of channels on a connection

Transports == Users \cup Probes \cup Downs
Conns == 0..MaxOverflow

ASSUME ConnectionsAssumption ==
    /\ Users \cap (Probes \cup Downs) = {} /\ Probes \cap Downs = {}
    /\ IsFiniteSet(Requests) /\ Streamed \subseteq Requests
    /\ Of \in [Requests -> Users \cup Probes]
    /\ \A p \in Probes : \E r \in Requests \ Streamed :
            \A q \in Requests : Of[q] = p <=> q = r
    /\ MaxOverflow \in Nat /\ MaxSessions \in Nat \ {0}

VARIABLES
    master,   \* connections whose master is running
    overflow, \* the connection each transport runs on
    life,     \* where each transport is
    sweep,    \* the connection its Close ends next
    pc,       \* where each request is
    tries,    \* its attempts: the connection it is sent to, the first it was
              \* sent to, and its moves of the transport
    refused,  \* the requests that were refused, each with the connection
    result,   \* how it ended
    shells,   \* how many remote shells it started
    echoed,   \* requests whose own output read like a refusal
    opened,   \* connections each probe ran ssh on
    exited    \* connections each probe's Close ended

ends == <<master, life, sweep, exited>>
told == <<tries, refused, result, shells, echoed, opened>>
vars == <<master, overflow, life, sweep, pc, tries, refused, result, shells,
          echoed, opened, exited>>

Channels(n) == {r \in Requests : pc[r] = "shell" /\ tries[r].conn = n}
Tries == [conn : Conns, first : Conns, moves : Conns]
Fresh == [conn |-> 0, first |-> 0, moves |-> 0]

\* The connections that refused a request, and what a transport was refused.
Refusing(r) == {n \in Conns : <<r, n>> \in refused}
Refusals(p) == {pair \in refused : Of[pair[1]] = p}

\* sshd's limit, and a master behind every channel.
ChannelsOK ==
    \A n \in Conns : /\ Cardinality(Channels(n)) <= MaxSessions
                     /\ Channels(n) # {} => n \in master

TypeOK ==
    /\ master \subseteq Conns
    /\ overflow \in [Transports -> Conns]
    /\ life \in [Transports -> {"new", "asking", "kept", "closing", "ended", "late"}]
    /\ sweep \in [Transports -> Conns]
    /\ pc \in [Requests -> {"idle", "again", "asking", "shell", "severed",
                            "refused", "done"}]
    /\ tries \in [Requests -> Tries] /\ refused \subseteq Requests \X Conns
    /\ result \in [Requests -> {"none", "ok", "lost", "refused"}]
    /\ shells \in [Requests -> Nat] /\ echoed \subseteq Requests
    /\ opened \in [Probes -> SUBSET Conns] /\ exited \in [Probes -> SUBSET Conns]
    /\ \A r \in Requests : pc[r] = "done" <=> result[r] # "none"
    /\ ChannelsOK

Init ==
    /\ master \in {{}, {0}}
    /\ overflow = [p \in Transports |-> 0]
    /\ life = [p \in Transports |->
                    IF p \in Users THEN "asking" ELSE IF p \in Probes THEN "new" ELSE "closing"]
    /\ sweep = [p \in Transports |-> 0]
    /\ pc = [r \in Requests |-> "idle"]
    /\ tries = [r \in Requests |-> Fresh] /\ refused = {}
    /\ result = [r \in Requests |-> "none"]
    /\ shells = [r \in Requests |-> 0]
    /\ echoed = {}
    /\ opened = [p \in Probes |-> {}]
    /\ exited = [p \in Probes |-> {}]

-----------------------------------------------------------------------------
(* Requests.                                                               *)

Goto(r, where) == pc' = [pc EXCEPT ![r] = where]

Return(r, how) ==
    /\ Goto(r, "done")
    /\ result' = [result EXCEPT ![r] = how]
    /\ tries' = IF how = "refused" THEN tries ELSE [tries EXCEPT ![r] = Fresh]

\* ssh is started on the control path of the current connection.
Dial(r) ==
    /\ pc[r] = "again" \/ (pc[r] = "idle" /\ life[Of[r]] = "asking")
    /\ Goto(r, "asking")
    /\ LET n == overflow[Of[r]] IN
        /\ tries' = [tries EXCEPT ![r] =
               [conn |-> n, first |-> IF pc[r] = "idle" THEN n ELSE @.first,
                moves |-> @.moves]]
        /\ opened' = [p \in Probes |-> opened[p] \cup (IF p = Of[r] THEN {n} ELSE {})]
    /\ UNCHANGED <<ends, overflow, refused, result, shells, echoed>>

\* ControlMaster=auto: where no master answers, this ssh becomes it.
Connect(r) ==
    /\ pc[r] = "asking" /\ tries[r].conn \notin master
    /\ master' = master \cup {tries[r].conn}
    /\ UNCHANGED <<overflow, life, sweep, pc, told, exited>>

Admit(r) ==
    /\ pc[r] = "asking" /\ tries[r].conn \in master
    /\ Cardinality(Channels(tries[r].conn)) < MaxSessions
    /\ Goto(r, "shell")
    /\ shells' = [shells EXCEPT ![r] = @ + 1]
    /\ UNCHANGED <<ends, overflow, tries, refused, result, echoed, opened>>

Refuse(r) ==
    /\ pc[r] = "asking" /\ tries[r].conn \in master
    /\ Cardinality(Channels(tries[r].conn)) = MaxSessions
    /\ Goto(r, "refused")
    /\ refused' = refused \cup {<<r, tries[r].conn>>}
    /\ UNCHANGED <<ends, overflow, tries, result, shells, echoed, opened>>

\* The marker arrived: the command's own status is returned.
Finish(r) ==
    /\ pc[r] = "shell"
    /\ Return(r, "ok")
    /\ UNCHANGED <<ends, overflow, refused, shells, echoed, opened>>

\* Mutant of Cut: whatever was cut off is tried again.
CutRetrying(r) ==
    /\ pc[r] \in {"shell", "severed"}
    /\ Goto(r, "refused")
    /\ UNCHANGED <<ends, overflow, told>>

\* The marker never arrived, because the connection was cut or the remote shell
\* was killed.  The error quotes the command's stderr, in which
\* IsChannelOpenFailure then looks for a refusal; RunStream believes it only of
\* a command that has written nothing.
Cut(r) ==
    /\ pc[r] \in {"shell", "severed"}
    /\ \E echo, wrote \in BOOLEAN :
            IF echo /\ ~(r \in Streamed /\ wrote)
            THEN /\ Goto(r, "refused") /\ echoed' = echoed \cup {r}
                 /\ UNCHANGED <<result, tries>>
            ELSE Return(r, "lost") /\ UNCHANGED echoed
    /\ UNCHANGED <<ends, overflow, refused, shells, opened>>

\* The context ends.  ssh is killed; what it started goes on, or does not.
GiveUp(r) ==
    /\ pc[r] \in {"asking", "shell", "severed"}
    /\ Return(r, "lost")
    /\ UNCHANGED <<ends, overflow, refused, shells, echoed, opened>>

\* Mutant of CanMoveOn: the last connection is never used.
CanMoveOnEarly(p) == overflow[p] < MaxOverflow - 1

CanMoveOn(p) == overflow[p] < MaxOverflow

\* Overflow, and another attempt; or the refusal is reported.
MoveOn(r) ==
    /\ pc[r] = "refused"
    /\ IF CanMoveOn(Of[r])
       THEN /\ overflow' = [overflow EXCEPT ![Of[r]] = @ + 1]
            /\ tries' = [tries EXCEPT ![r].moves = @ + 1]
            /\ Goto(r, "again") /\ UNCHANGED result
       ELSE Return(r, "refused") /\ UNCHANGED overflow
    /\ UNCHANGED <<ends, refused, shells, echoed, opened>>

-----------------------------------------------------------------------------
(* Masters, probes and Close.                                              *)

\* A master ends, and with it every channel it carries.
EndMaster(n) ==
    /\ master' = master \ {n}
    /\ pc' = [r \in Requests |-> IF r \in Channels(n) THEN "severed" ELSE pc[r]]

\* An idle master reaches ControlPersist, or the network drops a busy one.
MasterGoes(n) ==
    /\ n \in master
    /\ EndMaster(n)
    /\ UNCHANGED <<overflow, life, sweep, told, exited>>

\* A master that answers has answered the question.
FirstCheck(p) ==
    /\ p \in Probes /\ life[p] = "new"
    /\ life' = [life EXCEPT ![p] = IF overflow[p] \in master THEN "kept" ELSE "asking"]
    /\ UNCHANGED <<master, overflow, sweep, pc, told, exited>>

\* The probe's command has returned; it keeps the master if that ran on it, and
\* tears it down otherwise.
SecondCheck(p) ==
    /\ p \in Probes /\ life[p] = "asking"
    /\ \E r \in Requests :
        /\ Of[r] = p /\ pc[r] = "done"
        /\ IF result[r] = "ok" /\ overflow[p] \in master
           THEN life' = [life EXCEPT ![p] = "kept"]
           ELSE life' = [life EXCEPT ![p] = "closing"]
    /\ UNCHANGED <<master, overflow, sweep, pc, told, exited>>

\* Mutant of Sweep: only the current connection is asked to exit.
SweepLast(p) ==
    /\ life[p] = "closing"
    /\ EndMaster(overflow[p])
    /\ exited' = [q \in Probes |-> IF q = p THEN {overflow[p]} ELSE exited[q]]
    /\ life' = [life EXCEPT ![p] = "ended"]
    /\ UNCHANGED <<overflow, sweep, told>>

\* Close asks every connection up to the current one to exit.  A `reach down`
\* does nothing else, so that its transport has never moved.
Sweep(p) ==
    /\ life[p] = "closing"
    /\ EndMaster(sweep[p])
    /\ exited' = [q \in Probes |-> IF q = p THEN exited[q] \cup {sweep[p]} ELSE exited[q]]
    /\ IF sweep[p] = overflow[p]
       THEN life' = [life EXCEPT ![p] = "ended"] /\ UNCHANGED sweep
       ELSE sweep' = [sweep EXCEPT ![p] = @ + 1] /\ UNCHANGED life
    /\ UNCHANGED <<overflow, told>>

\* All of it has five seconds.
SweepTimesOut(p) ==
    /\ life[p] = "closing"
    /\ life' = [life EXCEPT ![p] = "late"]
    /\ UNCHANGED <<master, overflow, sweep, pc, told, exited>>

-----------------------------------------------------------------------------
Step(r) == Dial(r) \/ Connect(r) \/ Admit(r) \/ Refuse(r) \/ MoveOn(r)

Next ==
    \/ \E r \in Requests : Step(r) \/ Finish(r) \/ Cut(r) \/ GiveUp(r)
    \/ \E n \in Conns : MasterGoes(n)
    \/ \E p \in Transports :
            FirstCheck(p) \/ SecondCheck(p) \/ Sweep(p) \/ SweepTimesOut(p)

Spec == Init /\ [][Next]_vars

-----------------------------------------------------------------------------
(* Properties.                                                             *)

\* A command is tried again only where its shell was never started, as the
\* comment on Run argues.  The argument rests on the error text alone, so it
\* cannot hold of a command whose own stderr reads like a refusal.
RetriedNeverRan == \A r \in Requests \ echoed : shells[r] <= 1

\* What the comment says, of all commands.
NeverRunTwice == \A r \in Requests : shells[r] <= 1

\* No request of the transport took its command's own stderr for a refusal.
NoEcho(p) == \A r \in echoed : Of[r] # p

\* A request is told that sshd has no room only after sshd refused its transport
\* as many channels as there are connections, however the requests that run on
\* it meet: each refusal moves it by one, and none is counted for two moves.  If
\* nobody else moved the transport meanwhile, every connection from the one the
\* request began on to the last refused that request itself.
RefusalIsEarned ==
    \A r \in Requests :
        result[r] = "refused" /\ NoEcho(Of[r])
            => /\ Cardinality(Refusals(Of[r])) > MaxOverflow
               /\ tries[r].first + tries[r].moves = overflow[Of[r]] =>
                     Refusing(r) = tries[r].first..MaxOverflow

\* "It only ever moves forward, and only when the target refuses a new channel on
\* the one before it", says the comment on overflow.  But two requests refused by
\* the same connection move it twice, past one that nobody has tried.
MovesPastRefusals ==
    \A p \in Transports : NoEcho(p) =>
        \A n \in 0..(overflow[p] - 1) : \E r \in Requests : <<r, n>> \in Refusals(p)

\* Close ends every connection its transport ran ssh on, not only the last.
CloseCoversOwn ==
    \A p \in Probes : life[p] = "ended" => opened[p] \subseteq exited[p]

=============================================================================
