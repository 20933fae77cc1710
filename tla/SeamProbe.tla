------------------------------ MODULE SeamProbe ------------------------------
(***************************************************************************)
(* One run of the seam probe, internal/harnessprobe: Verify (probe.go)     *)
(* starts the harness against a mock model (server.go), which scripts a    *)
(* canary command and records what the harness reports of it.  The verdict *)
(* is read off that output: whose machine ran the command.                 *)
(*                                                                         *)
(* A harness may hold more than one conversation with its model (a title   *)
(* beside the turn); every request carries the tool outputs of its         *)
(* conversation so far.  Of an output the model keeps what the verdict     *)
(* looks at: the canary echoed with the target's hostname ("target"), with *)
(* this machine's ("local") or with none ("bare"); anything else, a refusal*)
(* that quotes the command at worst ("quoted"); or nothing ("empty").      *)
(***************************************************************************)
EXTENDS Integers, Sequences, FiniteSets

CONSTANTS
    Probers,        \* the processes that may probe
    Conversations,  \* what a harness may ask its model about at once
    Binaries,       \* the harness binaries there are
    Asks,           \* [Binaries -> SUBSET Conversations], those a harness holds
    Seam,           \* [Binaries -> {"target", "local"}], where its commands run
    Dialect,        \* [Binaries -> "responses", "chat", "gemini" or "anthropic"]
    Tools,          \* [Conversations -> "shell", "other" or "none"], what its requests advertise
    Hostnames,      \* "distinct", "same", or "within": ours contains the target's
    NoBinary,       \* the process has probed nothing yet
    MaxRounds       \* bound: tool calls in a conversation

ASSUME SeamAssumption ==
    /\ Seam \in [Binaries -> {"target", "local"}]
    /\ Asks \in [Binaries -> SUBSET Conversations]
    /\ Dialect \in [Binaries -> {"responses", "chat", "gemini", "anthropic"}]
    /\ Tools \in [Conversations -> {"shell", "other", "none"}]
    /\ Hostnames \in {"distinct", "same", "within"}
    /\ NoBinary \notin Binaries
    /\ MaxRounds \in Nat

VARIABLES
    probed,   \* [Probers -> the binary the probe runs]
    running,  \* probers whose harness, or what it started, holds its output open
    turn,     \* [Probers -> [Conversations -> where the harness is in it]]
    outputs,  \* [Probers -> [Conversations -> tool outputs so far]]
    result,   \* [Probers -> what Mock.record kept, or "none"]
    done,     \* probers whose mock has answered a report
    context,  \* [Probers -> "open", or what ended the probe: "deadline", "cancelled"]
    verdict,  \* [Probers -> what Verify returned, or "none"]
    judged    \* [Probers -> the output it was read off, or "none"]

probeVars == <<probed, running, turn, outputs, result, done, context, verdict, judged>>

ProbeInit ==
    /\ probed = [p \in Probers |-> NoBinary]
    /\ running = {} /\ done = {}
    /\ context = [p \in Probers |-> "open"]
    /\ turn = [p \in Probers |-> [c \in Conversations |-> "idle"]]
    /\ outputs = [p \in Probers |-> [c \in Conversations |-> <<>>]]
    /\ result = [p \in Probers |-> "none"]
    /\ verdict = [p \in Probers |-> "none"]
    /\ judged = [p \in Probers |-> "none"]

\* The two machines must be told apart by their names.
CanTell == Hostnames # "same"

StartProbe(p, b) ==
    /\ CanTell
    /\ probed' = [probed EXCEPT ![p] = b]
    /\ running' = running \cup {p}
    /\ UNCHANGED <<turn, outputs, result, done, context, verdict, judged>>

\* No session, no answer from the target, nothing to install the shim with.
CannotProbe(p) ==
    /\ verdict' = [verdict EXCEPT ![p] = "error"]
    /\ UNCHANGED <<probed, running, turn, outputs, result, done, context, judged>>

(***************************************************************************)
(* The mock.  A request is a first turn as long as no result is known: it  *)
(* is answered with a tool call, any other with the output observed.       *)
(***************************************************************************)
\* record: an empty output is not a result; of several the last counts.
Recorded(known, reported) ==
    LET told == {i \in DOMAIN reported : reported[i] # "empty"}
    IN IF told = {} THEN known ELSE reported[CHOOSE i \in told : \A j \in told : j <= i]

\* The output as its dialect spells it: where gemini reports none, the object
\* around it is taken instead; elsewhere it is the text, joined if in parts.
Told(b, o) == IF o = "empty" /\ Dialect[b] = "gemini" THEN "quoted" ELSE o

Script(p, c) ==
    /\ turn' = [turn EXCEPT ![p][c] = "called"]
    /\ UNCHANGED done

Close(p, c) ==
    /\ turn' = [turn EXCEPT ![p][c] = "closed"]
    /\ done' = done \cup {p}

Serve(p, c) ==
    LET reported == [i \in DOMAIN outputs[p][c] |-> Told(probed[p], outputs[p][c][i])]
        now == Recorded(result[p], reported)
    IN /\ result' = [result EXCEPT ![p] = now]
       /\ IF now = "none" THEN Script(p, c) ELSE Close(p, c)

Post(p, c) ==
    /\ p \in running /\ c \in Asks[probed[p]] /\ turn[p][c] \in {"idle", "reporting"}
    /\ Serve(p, c)
    /\ UNCHANGED <<probed, running, outputs, context, verdict, judged>>

(***************************************************************************)
(* The mock calls a shell if one is advertised, else what is advertised    *)
(* first, else a name it expects.  The harness runs that, or refuses, or   *)
(* reports an error.  The canary is echoed before the hostname is printed: *)
(* a command cut or yielded between the two is reported without the name,  *)
(* wherever it ran.                                                        *)
(***************************************************************************)
Outcomes(b, tool) ==
    {"quoted", "empty"} \cup (IF tool = "shell" THEN {Seam[b], "bare"} ELSE {})

CallTool(p, c) ==
    /\ p \in running /\ turn[p][c] = "called" /\ Len(outputs[p][c]) < MaxRounds
    /\ \E o \in Outcomes(probed[p], Tools[c]) :
          outputs' = [outputs EXCEPT ![p][c] = Append(@, o)]
    /\ turn' = [turn EXCEPT ![p][c] = "reporting"]
    /\ UNCHANGED <<probed, running, result, done, context, verdict, judged>>

HarnessGone(p) ==
    /\ running' = running \ {p}
    /\ turn' = [turn EXCEPT ![p] = [c \in Conversations |-> "idle"]]
    /\ outputs' = [outputs EXCEPT ![p] = [c \in Conversations |-> <<>>]]

Exit(p) ==
    /\ p \in running
    /\ HarnessGone(p)
    /\ UNCHANGED <<probed, result, done, context, verdict, judged>>

\* The deadline, or a signal to reach, kills the process that was started: it is
\* all of the harness, or something it started still holds its output, and may
\* go on with the conversations.
EndContext(p, why) ==
    /\ probed[p] # NoBinary /\ verdict[p] = "none" /\ context[p] = "open"
    /\ context' = [context EXCEPT ![p] = why]
    /\ HarnessGone(p) \/ UNCHANGED <<running, turn, outputs>>
    /\ UNCHANGED <<probed, result, done, verdict, judged>>

Expire(p) == EndContext(p, "deadline")
Cancel(p) == EndContext(p, "cancelled")

(***************************************************************************)
(* The verdict, once nothing holds the harness's output open (cmd.Run) and *)
(* the mock has answered or the context is over (Mock.Wait).  The mock goes*)
(* with the probe.                                                         *)
(***************************************************************************)
\* echoedMarker: the canary ends a line that is not the command quoted back.
EchoedMarker(o) == o \in {"target", "local", "bare"}

\* The output contains the target's hostname.
NamesTarget(o) == o = "target" \/ (o = "local" /\ Hostnames = "within")

Judge(o) ==
    CASE ~EchoedMarker(o) -> "error"
      [] EchoedMarker(o) /\ NamesTarget(o) -> "ok"
      [] EchoedMarker(o) /\ ~NamesTarget(o) -> "bypassed"

MockGone(p) == result' = [result EXCEPT ![p] = "none"] /\ done' = done \ {p}

\* Mutant of Conclude: Wait only waits for the answer.
ConcludeAnswered(p) ==
    /\ probed[p] # NoBinary /\ p \notin running /\ verdict[p] = "none"
    /\ p \in done
    /\ verdict' = [verdict EXCEPT ![p] = IF context[p] = "deadline" THEN "error" ELSE Judge(result[p])]
    /\ judged' = [judged EXCEPT ![p] = result[p]]
    /\ MockGone(p)
    /\ UNCHANGED <<probed, running, turn, outputs, context>>

Conclude(p) ==
    /\ probed[p] # NoBinary /\ p \notin running /\ verdict[p] = "none"
    /\ p \in done \/ context[p] # "open"
    /\ verdict' = [verdict EXCEPT ![p] = IF context[p] = "deadline" THEN "error" ELSE Judge(result[p])]
    /\ judged' = [judged EXCEPT ![p] = result[p]]
    /\ MockGone(p)
    /\ UNCHANGED <<probed, running, turn, outputs, context>>

HarnessStep(p) ==
    \/ \E c \in Conversations : Post(p, c) \/ CallTool(p, c)
    \/ Exit(p)

ProbeTypeOK ==
    /\ probed \in [Probers -> Binaries \cup {NoBinary}]
    /\ running \subseteq Probers /\ done \subseteq Probers
    /\ context \in [Probers -> {"open", "deadline", "cancelled"}]
    /\ \A p \in Probers, c \in Conversations :
         /\ turn[p][c] \in {"idle", "called", "reporting", "closed"}
         /\ Len(outputs[p][c]) <= MaxRounds
    /\ result \in [Probers -> {"none", "target", "local", "bare", "quoted"}]
    /\ judged \in [Probers -> {"none", "target", "local", "bare", "quoted"}]
    /\ verdict \in [Probers -> {"none", "ok", "bypassed", "error"}]
=============================================================================
