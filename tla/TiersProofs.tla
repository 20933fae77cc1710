----------------------------- MODULE TiersProofs -----------------------------
(***************************************************************************)
(* What Tiers promises, for any number of reach processes, sessions,       *)
(* installs, versions and builds.  Three invariants are proved together:   *)
(* which tier a process ends on decides what its record says, and what a   *)
(* record says decides what the next process may start without a look.     *)
(***************************************************************************)
EXTENDS Tiers, TLAPS

\* What a process or a session remembers of a helper was verified, and so is
\* the helper that is about to be started.
RecordsAreReal ==
    /\ StartsOnlyVerified
    /\ \A p \in Procs : caps[p].path # Absent =>
          <<caps[p].path, caps[p].digest>> \in verified

\* As long as no step failed, a binary that nobody verified is one whose
\* uploader has still to ask it or to take it back.
DoubtIsPending ==
    faults = 0 => \A v \in Versions :
        \/ file[v] = Absent
        \/ <<v, file[v]>> \in verified
        \/ \E p \in Procs : pc[p] \in {"recheck", "reject"} /\ Version(p) = v

\* How a process got to the tier it is trying, and who may upload.
Descent ==
    /\ \A p \in Procs : pc[p] # "idle" =>
          /\ try[p] <= want[p]
          /\ try[p] < want[p] <=> p \in told
          /\ caps[p].pinned => try[p] = want[p]
          /\ want[p] = Helper => caps[p].pinned
          /\ pc[p] \in {"check", "upload", "recheck", "reject"} => try[p] = Helper
    /\ \A p \in uploads : pc[p] # "idle" /\ caps[p].pinned /\ want[p] = Helper
    /\ \A s \in up : record[s].tier = Helper => record[s].pinned

IInv == TypeOK /\ RecordsAreReal /\ DoubtIsPending /\ Descent

-----------------------------------------------------------------------------
\* The version a running process is of.
LEMMA VersionFacts ==
  ASSUME TypeOK, NEW p \in Procs, pc[p] # "idle"
  PROVE  Version(p) \in Versions /\ Version(p) # Absent
BY TiersAssumption DEF TypeOK, Version, Versions

\* Either the process ends, or it is told of and tries one tier below.
LEMMA BuildFailsFacts ==
  ASSUME TypeOK, NEW p \in Procs, BuildFails(p)
  PROVE  \/ /\ pc' = [pc EXCEPT ![p] = "failed"]
            /\ try' = try /\ told' = told
         \/ /\ pc' = [pc EXCEPT ![p] = "build"]
            /\ ~caps[p].pinned /\ try[p] \in {Pipe, Helper}
            /\ try' = [try EXCEPT ![p] = try[p] - 1]
            /\ try'[p] \in {Posix, Pipe}
            /\ told' = told \cup {p}
BY DEF TypeOK, BuildFails, Go, Posix, Pipe, Helper

LEMMA InitHolds == Init => IInv
BY TiersAssumption DEF Init, IInv, TypeOK, RecordsAreReal, StartsOnlyVerified,
     DoubtIsPending, Descent, At, NoRun, NoRecord, Records, Contents, Versions,
     Posix, Pipe, Helper

-----------------------------------------------------------------------------
(***************************************************************************)
(* One lemma per action.                                                   *)
(***************************************************************************)
LEMMA BeginKeeps ==
  ASSUME IInv, NEW p \in Procs, NEW s \in Sessions, NEW i \in Installs,
         NEW saves \in BOOLEAN, NEW c \in Records, NEW tier \in {Posix, Pipe, Helper},
         c.path # Absent => <<c.path, c.digest>> \in verified,
         tier = Helper => c.pinned,
         Begin(p, s, i, saves, c, tier)
  PROVE  IInv'
<1>. USE DEF IInv, Begin, At, Go
<1>1. TypeOK'
  BY TiersAssumption DEF TypeOK
<1>2. RecordsAreReal'
  BY DEF TypeOK, RecordsAreReal, StartsOnlyVerified, Version
<1>3. DoubtIsPending'
  BY DEF TypeOK, DoubtIsPending, Version
<1>4. Descent'
  BY DEF TypeOK, Descent, Posix, Pipe, Helper
<1>. QED
  BY <1>1, <1>2, <1>3, <1>4

LEMMA UpKeeps ==
  ASSUME IInv, NEW p \in Procs, NEW s \in Sessions, NEW i \in Installs, Up(p, s, i)
  PROVE  IInv'
<1>1. ASSUME NEW tier \in {Posix, Pipe, Helper},
             Begin(p, s, i, TRUE, [NoRecord EXCEPT !.tier = tier, !.pinned = TRUE], tier)
      PROVE  IInv'
  <2>1. /\ [NoRecord EXCEPT !.tier = tier, !.pinned = TRUE] \in Records
        /\ [NoRecord EXCEPT !.tier = tier, !.pinned = TRUE].path = Absent
        /\ [NoRecord EXCEPT !.tier = tier, !.pinned = TRUE].pinned
    BY DEF NoRecord, Records
  <2>. QED
    BY <1>1, <2>1, BeginKeeps
<1>2. ASSUME Begin(p, s, i, TRUE, [NoRecord EXCEPT !.tier = BestTier], BestTier)
      PROVE  IInv'
  <2>1. BestTier \in {Posix, Pipe} /\ BestTier # Helper
    BY DEF BestTier, Posix, Pipe, Helper
  <2>2. /\ [NoRecord EXCEPT !.tier = BestTier] \in Records
        /\ [NoRecord EXCEPT !.tier = BestTier].path = Absent
    BY <2>1 DEF NoRecord, Records
  <2>. QED
    BY <1>2, <2>1, <2>2, BeginKeeps
<1>. QED
  BY <1>1, <1>2 DEF Up

LEMMA CallKeeps ==
  ASSUME IInv, NEW p \in Procs, NEW s \in Sessions, NEW i \in Installs, Call(p, s, i)
  PROVE  IInv'
<1>1. /\ record[s] \in Records /\ record[s].tier \in {Posix, Pipe, Helper}
      /\ record[s].path # Absent => <<record[s].path, record[s].digest>> \in verified
      /\ record[s].tier = Helper => record[s].pinned
  BY DEF IInv, TypeOK, Records, RecordsAreReal, StartsOnlyVerified, Descent, Call
<1>. QED
  BY <1>1, BeginKeeps DEF Call

LEMMA BuildPosixKeeps ==
  ASSUME IInv, NEW p \in Procs, BuildPosix(p)
  PROVE  IInv'
<1>. USE DEF IInv, BuildPosix, At, Go
<1>1. TypeOK'
  BY DEF TypeOK
<1>2. RecordsAreReal'
  BY DEF TypeOK, RecordsAreReal, StartsOnlyVerified, Version, Posix, Helper
<1>3. DoubtIsPending'
  BY DEF TypeOK, DoubtIsPending, Version
<1>4. Descent'
  BY DEF TypeOK, Descent, Posix, Pipe, Helper
<1>. QED
  BY <1>1, <1>2, <1>3, <1>4

LEMMA BuildPipeKeeps ==
  ASSUME IInv, NEW p \in Procs, BuildPipe(p)
  PROVE  IInv'
<1>1. CASE python /\ Go(p, "open") /\ UNCHANGED <<try, told>>
  <2>. USE <1>1 DEF IInv, BuildPipe, At, Go
  <2>1. TypeOK'
    BY DEF TypeOK
  <2>2. RecordsAreReal'
    BY DEF TypeOK, RecordsAreReal, StartsOnlyVerified, Version, Pipe, Helper
  <2>3. DoubtIsPending'
    BY DEF TypeOK, DoubtIsPending, Version
  <2>4. Descent'
    BY DEF TypeOK, Descent, Posix, Pipe, Helper
  <2>. QED
    BY <2>1, <2>2, <2>3, <2>4
<1>2. CASE BuildFails(p)
  <2>. USE <1>2, BuildFailsFacts DEF IInv, BuildPipe, At
  <2>1. TypeOK'
    BY DEF TypeOK
  <2>2. RecordsAreReal'
    BY DEF TypeOK, RecordsAreReal, StartsOnlyVerified, Version
  <2>3. DoubtIsPending'
    BY DEF TypeOK, DoubtIsPending, Version
  <2>4. Descent'
    BY DEF TypeOK, Descent, Posix, Pipe, Helper
  <2>. QED
    BY <2>1, <2>2, <2>3, <2>4
<1>. QED
  BY <1>1, <1>2 DEF BuildPipe

LEMMA BuildHelperKeeps ==
  ASSUME IInv, NEW p \in Procs, BuildHelper(p)
  PROVE  IInv'
<1>0. /\ payload'[p] = local[run[p].install] /\ payload'[p] \in Builds \cup {Absent}
      /\ payload' \in [Procs -> Builds \cup {Absent}]
      /\ \A q \in Procs \ {p} : payload'[q] = payload[q]
  BY DEF IInv, TypeOK, BuildHelper, At
<1>1. CASE BuildFails(p)
  <2>. USE <1>0, <1>1, BuildFailsFacts DEF IInv, BuildHelper, At
  <2>1. TypeOK'
    BY DEF TypeOK
  <2>2. RecordsAreReal'
    BY DEF TypeOK, RecordsAreReal, StartsOnlyVerified, Version
  <2>3. DoubtIsPending'
    BY DEF TypeOK, DoubtIsPending, Version
  <2>4. Descent'
    BY DEF TypeOK, Descent, Posix, Pipe, Helper
  <2>. QED
    BY <2>1, <2>2, <2>3, <2>4
<1>2. CASE Known(p, payload'[p]) /\ Go(p, "open") /\ UNCHANGED <<try, told>>
  <2>. USE <1>0, <1>2, VersionFacts DEF IInv, BuildHelper, At, Go
  <2>1. TypeOK'
    BY DEF TypeOK
  <2>2. RecordsAreReal'
    BY DEF TypeOK, RecordsAreReal, StartsOnlyVerified, Version, Known
  <2>3. DoubtIsPending'
    BY DEF TypeOK, DoubtIsPending, Version
  <2>4. Descent'
    BY DEF TypeOK, Descent, Posix, Pipe, Helper
  <2>. QED
    BY <2>1, <2>2, <2>3, <2>4
<1>3. CASE Go(p, "check") /\ UNCHANGED <<try, told>>
  <2>. USE <1>0, <1>3 DEF IInv, BuildHelper, At, Go
  <2>1. TypeOK'
    BY DEF TypeOK
  <2>2. RecordsAreReal'
    BY DEF TypeOK, RecordsAreReal, StartsOnlyVerified, Version
  <2>3. DoubtIsPending'
    BY DEF TypeOK, DoubtIsPending, Version
  <2>4. Descent'
    BY DEF TypeOK, Descent, Posix, Pipe, Helper
  <2>. QED
    BY <2>1, <2>2, <2>3, <2>4
<1>. QED
  BY <1>1, <1>2, <1>3 DEF BuildHelper

LEMMA CheckKeeps ==
  ASSUME IInv, NEW p \in Procs, Check(p)
  PROVE  IInv'
<1>0. faults' \in 0..MaxFaults /\ (faults' = 0 => faults = 0)
  BY TiersAssumption DEF IInv, TypeOK, Check
<1>1. CASE Matches(p) /\ Accept(p) /\ UNCHANGED faults
  <2>0. /\ caps' \in [Procs -> Records]
        /\ \A q \in Procs \ {p} : caps'[q] = caps[q]
        /\ caps'[p].path = Version(p) /\ caps'[p].digest = payload[p]
        /\ caps'[p].pinned = caps[p].pinned
    <3>1. /\ caps' = [caps EXCEPT ![p] = [@ EXCEPT !.path = Version(p), !.digest = payload[p]]]
          /\ payload[p] \in Builds \cup {Absent} /\ Version(p) \in Versions
          /\ caps \in [Procs -> Records]
      <4>1. payload[p] \in Builds \cup {Absent} /\ Version(p) \in Versions
        BY <1>1, VersionFacts DEF IInv, TypeOK, Check, At
      <4>2. /\ caps \in [Procs -> Records]
            /\ caps' = [caps EXCEPT ![p].path = Version(p), ![p].digest = payload[p]]
        BY <1>1 DEF IInv, TypeOK, Accept
      <4>3. caps' = [caps EXCEPT ![p] = [@ EXCEPT !.path = Version(p), !.digest = payload[p]]]
        BY <4>2
      <4>. QED
        BY <4>1, <4>2, <4>3
    <3>. QED
      BY <3>1 DEF Records
  <2>. USE <1>1, <2>0, VersionFacts DEF IInv, Check, Accept, At, Go
  <2>1. TypeOK'
    BY DEF TypeOK, Records
  <2>2. RecordsAreReal'
    BY DEF TypeOK, RecordsAreReal, StartsOnlyVerified, Version
  <2>3. DoubtIsPending'
    BY DEF TypeOK, DoubtIsPending, Version, Matches
  <2>4. Descent'
    BY DEF TypeOK, Descent, Posix, Pipe, Helper
  <2>. QED
    BY <2>1, <2>2, <2>3, <2>4
<1>2. CASE /\ Go(p, IF At(p, "check") THEN "upload" ELSE "reject")
           /\ UNCHANGED <<caps, verified>>
  <2>. USE <1>0, <1>2 DEF IInv, Check, At, Go
  <2>1. TypeOK'
    BY DEF TypeOK
  <2>2. RecordsAreReal'
    BY DEF TypeOK, RecordsAreReal, StartsOnlyVerified, Version
  <2>3. DoubtIsPending'
    BY DEF TypeOK, DoubtIsPending, Version
  <2>4. Descent'
    BY DEF TypeOK, Descent, Posix, Pipe, Helper
  <2>. QED
    BY <2>1, <2>2, <2>3, <2>4
<1>. QED
  BY <1>1, <1>2 DEF Check

LEMMA UploadKeeps ==
  ASSUME IInv, NEW p \in Procs, Upload(p)
  PROVE  IInv'
<1>1. CASE /\ file' = [file EXCEPT ![Version(p)] = payload[p]]
           /\ Go(p, "recheck")
           /\ UNCHANGED <<try, told, faults>>
  <2>. USE <1>1 DEF IInv, Upload, At, Go
  <2>1. TypeOK'
    BY DEF TypeOK, Contents
  <2>2. RecordsAreReal'
    BY DEF TypeOK, RecordsAreReal, StartsOnlyVerified, Version
  <2>3. DoubtIsPending'
    BY DEF TypeOK, DoubtIsPending, Version
  <2>4. Descent'
    BY DEF TypeOK, Descent, Posix, Pipe, Helper
  <2>. QED
    BY <2>1, <2>2, <2>3, <2>4
<1>2. CASE /\ Fault
           /\ file' \in {file, [file EXCEPT ![Version(p)] = Torn]}
           /\ BuildFails(p)
  <2>0. faults' \in 0..MaxFaults /\ faults' # 0
    BY <1>2, TiersAssumption DEF IInv, TypeOK, Fault
  <2>. USE <1>2, <2>0, BuildFailsFacts DEF IInv, Upload, At
  <2>1. TypeOK'
    BY DEF TypeOK, Contents
  <2>2. RecordsAreReal'
    BY DEF TypeOK, RecordsAreReal, StartsOnlyVerified, Version
  <2>3. DoubtIsPending'
    BY DEF TypeOK, DoubtIsPending, Version
  <2>4. Descent'
    BY DEF TypeOK, Descent, Posix, Pipe, Helper
  <2>. QED
    BY <2>1, <2>2, <2>3, <2>4
<1>. QED
  BY <1>1, <1>2 DEF Upload

LEMMA RejectKeeps ==
  ASSUME IInv, NEW p \in Procs, Reject(p)
  PROVE  IInv'
<1>1. CASE file' = [file EXCEPT ![Version(p)] = Absent] /\ UNCHANGED faults
  <2>. USE <1>1, BuildFailsFacts, VersionFacts DEF IInv, Reject, At
  <2>1. TypeOK'
    BY DEF TypeOK, Contents
  <2>2. RecordsAreReal'
    BY DEF TypeOK, RecordsAreReal, StartsOnlyVerified, Version
  <2>3. DoubtIsPending'
    BY DEF TypeOK, DoubtIsPending, Version
  <2>4. Descent'
    BY DEF TypeOK, Descent, Posix, Pipe, Helper
  <2>. QED
    BY <2>1, <2>2, <2>3, <2>4
<1>2. CASE Fault /\ UNCHANGED file
  <2>0. faults' \in 0..MaxFaults /\ faults' # 0
    BY <1>2, TiersAssumption DEF IInv, TypeOK, Fault
  <2>. USE <1>2, <2>0, BuildFailsFacts DEF IInv, Reject, At
  <2>1. TypeOK'
    BY DEF TypeOK
  <2>2. RecordsAreReal'
    BY DEF TypeOK, RecordsAreReal, StartsOnlyVerified, Version
  <2>3. DoubtIsPending'
    BY DEF TypeOK, DoubtIsPending, Version
  <2>4. Descent'
    BY DEF TypeOK, Descent, Posix, Pipe, Helper
  <2>. QED
    BY <2>1, <2>2, <2>3, <2>4
<1>. QED
  BY <1>1, <1>2 DEF Reject

LEMMA OpenKeeps ==
  ASSUME IInv, NEW p \in Procs, Open(p)
  PROVE  IInv'
<1>1. CASE Go(p, "built") /\ UNCHANGED <<try, told, faults>>
  <2>. USE <1>1 DEF IInv, Open, At, Go
  <2>1. TypeOK'
    BY DEF TypeOK
  <2>2. RecordsAreReal'
    BY DEF TypeOK, RecordsAreReal, StartsOnlyVerified, Version
  <2>3. DoubtIsPending'
    BY DEF TypeOK, DoubtIsPending, Version
  <2>4. Descent'
    BY DEF TypeOK, Descent, Posix, Pipe, Helper
  <2>. QED
    BY <2>1, <2>2, <2>3, <2>4
<1>2. CASE Fault /\ BuildFails(p)
  <2>0. faults' \in 0..MaxFaults /\ faults' # 0
    BY <1>2, TiersAssumption DEF IInv, TypeOK, Fault
  <2>. USE <1>2, <2>0, BuildFailsFacts DEF IInv, Open, At
  <2>1. TypeOK'
    BY DEF TypeOK
  <2>2. RecordsAreReal'
    BY DEF TypeOK, RecordsAreReal, StartsOnlyVerified, Version
  <2>3. DoubtIsPending'
    BY DEF TypeOK, DoubtIsPending, Version
  <2>4. Descent'
    BY DEF TypeOK, Descent, Posix, Pipe, Helper
  <2>. QED
    BY <2>1, <2>2, <2>3, <2>4
<1>. QED
  BY <1>1, <1>2 DEF Open

\* What is left of a process that is over.
LEMMA ExitFacts ==
  ASSUME TypeOK, NEW p \in Procs, Exit(p)
  PROVE  /\ pc' = [pc EXCEPT ![p] = "idle"]
         /\ DOMAIN run' = Procs /\ \A q \in Procs \ {p} : run'[q] = run[q]
         /\ caps' \in [Procs -> Records] /\ caps'[p].path = Absent
         /\ \A q \in Procs \ {p} : caps'[q] = caps[q]
         /\ want' = [want EXCEPT ![p] = Posix] /\ try' = [try EXCEPT ![p] = Posix]
         /\ payload' = [payload EXCEPT ![p] = Absent]
         /\ told' = told \ {p} /\ uploads' = uploads \ {p}
BY DEF TypeOK, Exit, Go, NoRecord, Records

LEMMA FinishKeeps ==
  ASSUME IInv, NEW p \in Procs, Finish(p)
  PROVE  IInv'
<1>0. /\ pc[p] \in {"built", "failed"}
      /\ Exit(p)
      /\ UNCHANGED <<python, local, file, runs, faults, verified>>
  BY DEF Finish, At
<1>1. CASE At(p, "built") /\ run[p].saves
  <2>1. /\ caps[p] \in Records /\ try[p] \in {Posix, Pipe, Helper}
        /\ run[p].session \in Sessions
    BY <1>0 DEF IInv, TypeOK
  <2>2. record' = [record EXCEPT ![run[p].session] = [caps[p] EXCEPT !.tier = try[p]]]
    BY <1>1 DEF Finish
  <2>4. up' = up \cup {run[p].session}
    BY <1>1 DEF Finish
  <2>3. PICK r \in Records :
           /\ r.path = caps[p].path /\ r.digest = caps[p].digest
           /\ r.pinned = caps[p].pinned /\ r.tier = try[p]
           /\ record' = [record EXCEPT ![run[p].session] = r]
    <3>1. [caps[p] EXCEPT !.tier = try[p]] \in Records
      BY <2>1 DEF Records
    <3>. QED
      BY <2>1, <2>2, <3>1 DEF Records
  <2>. USE <1>0, <2>1, <2>3, <2>4, ExitFacts DEF IInv, At
  <2>5. TypeOK'
    <3>1. record' \in [Sessions -> Records] /\ up' \subseteq Sessions
      BY DEF TypeOK
    <3>. QED
      BY <3>1, SMTT(30) DEF TypeOK
  <2>6. RecordsAreReal'
    BY DEF TypeOK, RecordsAreReal, StartsOnlyVerified, Version
  <2>7. DoubtIsPending'
    BY DEF TypeOK, DoubtIsPending, Version
  <2>8. Descent'
    BY DEF TypeOK, Descent, Posix, Pipe, Helper
  <2>. QED
    BY <2>5, <2>6, <2>7, <2>8
<1>2. CASE UNCHANGED <<record, up>>
  <2>. USE <1>0, <1>2, ExitFacts DEF IInv, At
  <2>1. TypeOK'
    BY DEF TypeOK
  <2>2. RecordsAreReal'
    BY DEF TypeOK, RecordsAreReal, StartsOnlyVerified, Version
  <2>3. DoubtIsPending'
    BY DEF TypeOK, DoubtIsPending, Version
  <2>4. Descent'
    BY DEF TypeOK, Descent, Posix, Pipe, Helper
  <2>. QED
    BY <2>1, <2>2, <2>3, <2>4
<1>. QED
  BY <1>1, <1>2 DEF Finish

LEMMA KilledKeeps ==
  ASSUME IInv, NEW p \in Procs, Killed(p)
  PROVE  IInv'
<1>0. faults' \in 0..MaxFaults /\ faults' # 0
  BY TiersAssumption DEF IInv, TypeOK, Fault, Killed
<1>. USE <1>0, ExitFacts DEF IInv, Killed, At
<1>1. TypeOK'
  BY SMTT(30) DEF TypeOK
<1>2. RecordsAreReal'
  BY SMTT(30) DEF TypeOK, RecordsAreReal, StartsOnlyVerified, Version
<1>3. DoubtIsPending'
  BY DEF TypeOK, DoubtIsPending, Version
<1>4. Descent'
  BY DEF TypeOK, Descent, Posix, Pipe, Helper
<1>. QED
  BY <1>1, <1>2, <1>3, <1>4

LEMMA UninstallKeeps ==
  ASSUME IInv, Uninstall
  PROVE  IInv'
<1>. USE DEF IInv, Uninstall, At
<1>1. TypeOK'
  BY TiersAssumption DEF TypeOK, Contents
<1>2. RecordsAreReal'
  BY DEF TypeOK, RecordsAreReal, StartsOnlyVerified, Version
<1>3. DoubtIsPending'
  BY DEF TypeOK, DoubtIsPending, Version
<1>4. Descent'
  BY DEF TypeOK, Descent, Posix, Pipe, Helper
<1>. QED
  BY <1>1, <1>2, <1>3, <1>4

LEMMA RebuildKeeps ==
  ASSUME IInv, NEW i \in Installs, Rebuild(i)
  PROVE  IInv'
<1>. USE DEF IInv, Rebuild, At
<1>1. TypeOK'
  BY TiersAssumption DEF TypeOK
<1>2. RecordsAreReal'
  BY DEF TypeOK, RecordsAreReal, StartsOnlyVerified, Version
<1>3. DoubtIsPending'
  BY DEF TypeOK, DoubtIsPending, Version
<1>4. Descent'
  BY DEF TypeOK, Descent, Posix, Pipe, Helper
<1>. QED
  BY <1>1, <1>2, <1>3, <1>4

LEMMA StepKeeps == IInv /\ [Next]_vars => IInv'
<1>. SUFFICES ASSUME IInv, [Next]_vars PROVE IInv'
  OBVIOUS
<1>1. ASSUME NEW p \in Procs, NEW s \in Sessions, NEW i \in Installs,
             Up(p, s, i) \/ Call(p, s, i)
      PROVE  IInv'
  BY <1>1, UpKeeps, CallKeeps
<1>2. ASSUME NEW p \in Procs, BuildPosix(p) \/ BuildPipe(p) \/ BuildHelper(p)
      PROVE  IInv'
  BY <1>2, BuildPosixKeeps, BuildPipeKeeps, BuildHelperKeeps
<1>3. ASSUME NEW p \in Procs, Check(p) \/ Upload(p) \/ Reject(p) \/ Open(p)
      PROVE  IInv'
  BY <1>3, CheckKeeps, UploadKeeps, RejectKeeps, OpenKeeps
<1>4. ASSUME NEW p \in Procs, Finish(p) \/ Killed(p)
      PROVE  IInv'
  BY <1>4, FinishKeeps, KilledKeeps
<1>5. CASE Uninstall \/ \E i \in Installs : Rebuild(i)
  BY <1>5, UninstallKeeps, RebuildKeeps
<1>6. CASE UNCHANGED vars
  BY <1>6 DEF vars, IInv, TypeOK, RecordsAreReal, StartsOnlyVerified, DoubtIsPending,
       Descent, Version, At
<1>. QED
  BY <1>1, <1>2, <1>3, <1>4, <1>5, <1>6 DEF Next

LEMMA Inductive == Spec => []IInv
BY InitHolds, StepKeeps, PTL DEF Spec

-----------------------------------------------------------------------------
(***************************************************************************)
(* Every variable keeps its type: in particular a tier that failed is      *)
(* never followed by one below the shell's.                                *)
(***************************************************************************)
THEOREM TypeCorrect == Spec => []TypeOK
<1>1. IInv => TypeOK
  BY DEF IInv
<1>. QED
  BY <1>1, Inductive, PTL

(***************************************************************************)
(* A helper is started only where this reach's own build identified        *)
(* itself, however many reaches replace, remove and check it.              *)
(***************************************************************************)
THEOREM VerifiedBeforeStart == Spec => []StartsOnlyVerified
<1>1. IInv => StartsOnlyVerified
  BY DEF IInv, RecordsAreReal
<1>. QED
  BY <1>1, Inductive, PTL

(***************************************************************************)
(* Without a failed step nothing unverified is left on the target when all *)
(* processes are over: every doubt was somebody's to settle.               *)
(***************************************************************************)
THEOREM NothingUntrusted == Spec => []NothingUntrustedStays
<1>1. IInv => NothingUntrustedStays
  BY DEF IInv, DoubtIsPending, NothingUntrustedStays, At
<1>. QED
  BY <1>1, Inductive, PTL

(***************************************************************************)
(* A pinned tier is built or it is an error, a degradation is reported,    *)
(* and only an operator who asked for the helper has one installed.        *)
(***************************************************************************)
THEOREM TierAsAsked == Spec => []TierIsAsked
<1>1. IInv => TierIsAsked
  BY DEF IInv, Descent, TierIsAsked, At
<1>. QED
  BY <1>1, Inductive, PTL
=============================================================================
