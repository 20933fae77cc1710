-------------------------------- MODULE Tiers --------------------------------
(***************************************************************************)
(* How a reach process gets its file-operation strategy                    *)
(* (internal/fileops/select.go, probe.go, helper.go): an `up` probes the   *)
(* target and builds a tier, a tool call builds the one its session        *)
(* recorded.  The helper tier is the only one that leaves something on the *)
(* target, a program under a name that carries reach's version, shared by  *)
(* every reach of that version; each has a build of its own to put there.  *)
(* `reach helper uninstall` and `down --clean` remove them all.            *)
(***************************************************************************)
EXTENDS Integers, FiniteSets

CONSTANTS
    Procs, Sessions, Installs,
    Builds,       \* helper binaries
    Release,      \* [Installs -> versions], reach.Version
    Stamp,        \* [Builds -> versions], the version built into each
    Shipped,      \* [Installs -> Builds], what LocateHelperBinary finds at first
    Absent, Torn, \* no file; the beginning of an upload
    MaxRuns,      \* bound: commands run
    MaxFaults     \* bound: failed steps on the target

ASSUME TiersAssumption ==
    /\ Shipped \in [Installs -> Builds]
    /\ Absent \notin Builds /\ Torn \notin Builds /\ Absent # Torn
    /\ \A i \in Installs : Release[i] # Absent
    /\ MaxRuns \in Nat /\ MaxFaults \in Nat

Versions == {Release[i] : i \in Installs}
Helper == 2
Pipe == 1
Posix == 0
NoRun == [session |-> Absent, install |-> Absent, saves |-> FALSE]
NoRecord == [tier |-> Posix, pinned |-> FALSE, path |-> Absent, digest |-> Absent]

VARIABLES
    python,    \* the target has one
    local,     \* [Installs -> Builds \cup {Absent}]
    file,      \* [Versions -> Builds \cup {Absent, Torn}], the helpers on the target
    record,    \* [Sessions -> saved tier, pin and verified helper]
    up,        \* sessions that have been saved
    pc,
    run,       \* [Procs -> the command: session, install, whether it saves]
    want,      \* [Procs -> the tier asked for]
    caps,      \* [Procs -> the record in memory]
    try,       \* [Procs -> the tier being built]
    payload,   \* [Procs -> the build read from disk]
    told,      \* processes that reported a degradation
    runs, faults,
    verified,  \* history: <<version, build>> that identified itself
    uploads    \* history: processes that uploaded a helper

vars == <<python, local, file, record, up, pc, run, want, caps, try, payload, told,
          runs, faults, verified, uploads>>

Init ==
    /\ python \in BOOLEAN
    /\ local = Shipped
    /\ file = [v \in Versions |-> Absent]
    /\ record = [s \in Sessions |-> NoRecord] /\ up = {}
    /\ pc = [p \in Procs |-> "idle"]
    /\ run = [p \in Procs |-> NoRun]
    /\ want = [p \in Procs |-> Posix] /\ try = want
    /\ caps = [p \in Procs |-> NoRecord]
    /\ payload = [p \in Procs |-> Absent]
    /\ told = {} /\ runs = 0 /\ faults = 0
    /\ verified = {} /\ uploads = {}

At(p, where) == pc[p] = where
Go(p, where) == pc' = [pc EXCEPT ![p] = where]
Version(p) == Release[run[p].install]

Fault == faults < MaxFaults /\ faults' = faults + 1

Begin(p, s, i, saves, c, tier) ==
    /\ At(p, "idle") /\ runs < MaxRuns
    /\ runs' = runs + 1
    /\ run' = [run EXCEPT ![p] = [session |-> s, install |-> i, saves |-> saves]]
    /\ caps' = [caps EXCEPT ![p] = c]
    /\ want' = [want EXCEPT ![p] = tier] /\ try' = [try EXCEPT ![p] = tier]
    /\ told' = told \ {p}
    /\ Go(p, "build")
    /\ UNCHANGED <<python, local, file, record, up, payload, faults, verified, uploads>>

\* BestTier: the helper is never chosen for the operator.
BestTier == IF python THEN Pipe ELSE Posix

\* Session.Probe, with --fileops or without; the capabilities are new.
Up(p, s, i) ==
    \/ \E tier \in {Posix, Pipe, Helper} :
          Begin(p, s, i, TRUE, [NoRecord EXCEPT !.tier = tier, !.pinned = TRUE], tier)
    \/ Begin(p, s, i, TRUE, [NoRecord EXCEPT !.tier = BestTier], BestTier)

\* Session.FileOps in a command on the session.
Call(p, s, i) == s \in up /\ Begin(p, s, i, FALSE, record[s], record[s].tier)

(***************************************************************************)
(* build and New: one tier after the other, downwards, unless it was pinned.*)
(***************************************************************************)
\* Mutant of BuildFails: a pin is only a preference.
BuildFailsPinned(p) ==
    IF try[p] = Posix
    THEN /\ Go(p, "failed")
         /\ UNCHANGED <<try, told>>
    ELSE /\ try' = [try EXCEPT ![p] = @ - 1]
         /\ told' = told \cup {p}
         /\ Go(p, "build")

BuildFails(p) ==
    IF caps[p].pinned \/ try[p] = Posix
    THEN /\ Go(p, "failed")
         /\ UNCHANGED <<try, told>>
    ELSE /\ try' = [try EXCEPT ![p] = @ - 1]
         /\ told' = told \cup {p}
         /\ Go(p, "build")

BuildPosix(p) ==
    /\ At(p, "build") /\ try[p] = Posix
    /\ Go(p, "built")
    /\ UNCHANGED <<python, local, file, record, up, run, want, caps, try, payload, told,
                   runs, faults, verified, uploads>>

BuildPipe(p) ==
    /\ At(p, "build") /\ try[p] = Pipe
    /\ \/ python /\ Go(p, "open") /\ UNCHANGED <<try, told>>
       \/ ~python /\ BuildFails(p)
    /\ UNCHANGED <<python, local, file, record, up, run, want, caps, payload,
                   runs, faults, verified, uploads>>

\* NewHelper up to the first question: what this session has verified, at this
\* path and with this content, is not asked again.
\* Mutant of Known: the path carries the version, so that it is enough.
KnownPath(p, build) == caps[p].path = Version(p)

Known(p, build) == caps[p].path = Version(p) /\ caps[p].digest = build

BuildHelper(p) ==
    /\ At(p, "build") /\ try[p] = Helper
    /\ payload' = [payload EXCEPT ![p] = local[run[p].install]]
    /\ CASE payload'[p] = Absent -> BuildFails(p)
         [] payload'[p] # Absent /\ Known(p, payload'[p]) -> Go(p, "open") /\ UNCHANGED <<try, told>>
         [] OTHER -> Go(p, "check") /\ UNCHANGED <<try, told>>
    /\ UNCHANGED <<python, local, file, record, up, run, want, caps,
                   runs, faults, verified, uploads>>

\* helperMatches: the file tells its own version and digest, if it runs at all.
Matches(p) ==
    /\ file[Version(p)] = payload[p]
    /\ Stamp[payload[p]] = Version(p)

Accept(p) ==
    /\ caps' = [caps EXCEPT ![p].path = Version(p), ![p].digest = payload[p]]
    /\ verified' = verified \cup {<<Version(p), payload[p]>>}
    /\ Go(p, "open")

\* A question that fails is answered no.
Check(p) ==
    /\ At(p, "check") \/ At(p, "recheck")
    /\ \/ Matches(p) /\ Accept(p) /\ UNCHANGED faults
       \/ /\ ~Matches(p) \/ faults < MaxFaults
          /\ faults' = IF Matches(p) THEN faults + 1 ELSE faults
          /\ Go(p, IF At(p, "check") THEN "upload" ELSE "reject")
          /\ UNCHANGED <<caps, verified>>
    /\ UNCHANGED <<python, local, file, record, up, run, want, try, payload, told,
                   runs, uploads>>

\* installHelper, by POSIX.Write; one that is cut off may leave a beginning.
Upload(p) ==
    /\ At(p, "upload")
    /\ uploads' = uploads \cup {p}
    /\ \/ /\ file' = [file EXCEPT ![Version(p)] = payload[p]]
          /\ Go(p, "recheck")
          /\ UNCHANGED <<try, told, faults>>
       \/ /\ Fault
          /\ file' \in {file, [file EXCEPT ![Version(p)] = Torn]}
          /\ BuildFails(p)
    /\ UNCHANGED <<python, local, record, up, run, want, caps, payload, runs, verified>>

\* Mutant of Reject: the refusal is reported, the binary stays.
RejectOnly(p) ==
    /\ At(p, "reject")
    /\ BuildFails(p)
    /\ UNCHANGED <<python, local, file, record, up, run, want, caps, payload, runs, faults, verified, uploads>>

\* What did not identify itself is taken back.
Reject(p) ==
    /\ At(p, "reject")
    /\ \/ file' = [file EXCEPT ![Version(p)] = Absent] /\ UNCHANGED faults
       \/ Fault /\ UNCHANGED file
    /\ BuildFails(p)
    /\ UNCHANGED <<python, local, record, up, run, want, caps, payload, runs, verified, uploads>>

\* startHandler: the program is started; that it answers is not waited for.
Open(p) ==
    /\ At(p, "open")
    /\ \/ Go(p, "built") /\ UNCHANGED <<try, told, faults>>
       \/ Fault /\ BuildFails(p)
    /\ UNCHANGED <<python, local, file, record, up, run, want, caps, payload,
                   runs, verified, uploads>>

\* The process is over, and what it knew with it.
Exit(p) ==
    /\ Go(p, "idle")
    /\ run' = [run EXCEPT ![p] = NoRun]
    /\ caps' = [caps EXCEPT ![p] = NoRecord]
    /\ want' = [want EXCEPT ![p] = Posix] /\ try' = [try EXCEPT ![p] = Posix]
    /\ payload' = [payload EXCEPT ![p] = Absent]
    /\ told' = told \ {p} /\ uploads' = uploads \ {p}

\* The end of Probe, and Save; a tool call keeps what it found out to itself.
Finish(p) ==
    /\ At(p, "built") \/ At(p, "failed")
    /\ IF At(p, "built") /\ run[p].saves
       THEN /\ record' = [record EXCEPT ![run[p].session] = [caps[p] EXCEPT !.tier = try[p]]]
            /\ up' = up \cup {run[p].session}
       ELSE UNCHANGED <<record, up>>
    /\ Exit(p)
    /\ UNCHANGED <<python, local, file, runs, faults, verified>>

Killed(p) ==
    /\ ~At(p, "idle") /\ Fault
    /\ Exit(p)
    /\ UNCHANGED <<python, local, file, record, up, runs, verified>>

\* reach helper uninstall, and down --clean of a session on this tier.
Uninstall ==
    /\ runs < MaxRuns
    /\ runs' = runs + 1
    /\ file' = [v \in Versions |-> Absent]
    /\ UNCHANGED <<python, local, record, up, pc, run, want, caps, try, payload, told,
                   faults, verified, uploads>>

\* Another build, or none, lies where this reach looks for one.
Rebuild(i) ==
    /\ runs < MaxRuns
    /\ runs' = runs + 1
    /\ \E b \in (Builds \cup {Absent}) \ {local[i]} : local' = [local EXCEPT ![i] = b]
    /\ UNCHANGED <<python, file, record, up, pc, run, want, caps, try, payload, told,
                   faults, verified, uploads>>

Next ==
    \/ \E p \in Procs :
          \/ \E s \in Sessions, i \in Installs : Up(p, s, i) \/ Call(p, s, i)
          \/ BuildPosix(p) \/ BuildPipe(p) \/ BuildHelper(p)
          \/ Check(p) \/ Upload(p) \/ Reject(p) \/ Open(p)
          \/ Finish(p) \/ Killed(p)
    \/ Uninstall
    \/ \E i \in Installs : Rebuild(i)

Spec == Init /\ [][Next]_vars

-----------------------------------------------------------------------------
Contents == Builds \cup {Absent, Torn}
Records ==
    [tier : {Posix, Pipe, Helper}, pinned : BOOLEAN,
     path : Versions \cup {Absent}, digest : Builds \cup {Absent}]

(* Types; a tier never goes below the shell's.                               *)
TypeOK ==
    /\ python \in BOOLEAN
    /\ local \in [Installs -> Builds \cup {Absent}]
    /\ file \in [Versions -> Contents]
    /\ record \in [Sessions -> Records] /\ up \subseteq Sessions
    /\ pc \in [Procs -> {"idle", "build", "check", "upload", "recheck", "reject",
                         "open", "built", "failed"}]
    /\ \A p \in Procs : pc[p] # "idle" =>
          run[p] \in [session : Sessions, install : Installs, saves : BOOLEAN]
    /\ DOMAIN run = Procs
    /\ caps \in [Procs -> Records]
    /\ want \in [Procs -> {Posix, Pipe, Helper}] /\ try \in [Procs -> {Posix, Pipe, Helper}]
    /\ payload \in [Procs -> Builds \cup {Absent}]
    /\ told \subseteq Procs /\ uploads \subseteq Procs
    /\ faults \in 0 .. MaxFaults /\ runs \in 0 .. MaxRuns

(* A helper is started only where a binary of this reach's own build and      *)
(* version has identified itself, in this process or when the session was     *)
(* made, whatever is on disk by now and whoever upgraded reach in between     *)
(* (helper.go:53-64, 116-121); and a record says nothing else.                *)
StartsOnlyVerified ==
    /\ \A p \in Procs : At(p, "open") /\ try[p] = Helper =>
          <<Version(p), payload[p]>> \in verified
    /\ \A s \in Sessions : record[s].path # Absent =>
          <<record[s].path, record[s].digest>> \in verified

(* When nobody is at it and no step failed, every binary on the target is one *)
(* that identified itself: what was uploaded and not recognised was taken     *)
(* back, however uploads, removals and checks of several reaches interleaved  *)
(* (helper.go:73-76).                                                         *)
NothingUntrustedStays ==
    faults = 0 /\ (\A p \in Procs : At(p, "idle")) =>
        \A v \in Versions : file[v] = Absent \/ <<v, file[v]>> \in verified

(* A pinned tier is built or it is an error; one that was negotiated goes     *)
(* down only as far as it must and says so; and nothing is installed on the   *)
(* target of an operator who did not ask for it (select.go:36-43, probe.go:   *)
(* 398-405).                                                                  *)
TierIsAsked ==
    /\ \A p \in Procs : At(p, "built") =>
          /\ caps[p].pinned => try[p] = want[p]
          /\ try[p] < want[p] <=> p \in told
    /\ \A p \in uploads : caps[p].pinned /\ want[p] = Helper
    /\ \A s \in up : record[s].tier = Helper => record[s].pinned

(* NOT what the code does: "this session still pins --fileops=helper, so the  *)
(* next command reinstalls it" (helper_cmds.go:98-99).  A command whose       *)
(* session has verified the helper once starts it without a look.             *)
StartsWhatIsThere ==
    \A p \in Procs : At(p, "built") /\ try[p] = Helper /\ faults = 0 => file[Version(p)] # Absent
=============================================================================
