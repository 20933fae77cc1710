------------------------------ MODULE GuardProofs ------------------------------
(***************************************************************************)
(* What Guard promises, for any number of reach processes, harnesses,      *)
(* binaries and upgrades.  A verdict is followed from the tool output the  *)
(* harness reports, through the mock's record and Verify's judgement, to   *)
(* the cache, to the copies of it that processes hold, and to the launch.  *)
(***************************************************************************)
EXTENDS Guard, WellFoundedInduction, TLAPS

Outputs == {"target", "local", "bare", "quoted", "empty"}
Evidences == {"none", "ok", "bypassed"}

\* The shapes TypeOK does not spell out.
Shapes ==
    /\ turn \in [Probers -> [Conversations -> {"idle", "called", "reporting", "closed"}]]
    /\ outputs \in [Probers -> [Conversations -> Seq(Outputs)]]
    /\ wants \in [Probers -> Harnesses]
    /\ given \in [Probers -> Binaries \cup {NoBinary}]
    /\ copy \in [Probers -> [Keys -> Evidences]]
    /\ pc \in [Probers -> {"version", "held", "load", "probe", "probing", "read", "write", "launch",
                           "launched", "refused", "reported", "gone"}]

\* Before its probe a process has seen nothing; after that, what it has seen of
\* a command that ran, recorded or judged is where the probed binary runs it.
SawTheSeam ==
    \A p \in Probers :
        /\ pc[p] \in {"version", "held", "load", "probe"} =>
              /\ verdict[p] = "none" /\ result[p] = "none"
              /\ \A c \in Conversations : outputs[p][c] = <<>>
        /\ \A c \in Conversations : \A i \in DOMAIN outputs[p][c] :
              outputs[p][c][i] \in {"target", "local"} => outputs[p][c][i] = Seam[probed[p]]
        /\ result[p] \in {"target", "local"} => result[p] = Seam[probed[p]]
        /\ Hostnames = "distinct" =>
              /\ verdict[p] = "ok" => Seam[probed[p]] = "target"
              /\ verdict[p] = "bypassed" /\ judged[p] # "bare" => Seam[probed[p]] = "local"
        /\ p \in running \/ verdict[p] \in {"ok", "bypassed"} => probed[p] \in Binaries

\* Everything a process is about to act on was measured.
Evidence ==
    /\ CacheIsMeasured
    /\ \A p \in Probers, k \in Keys : copy[p][k] # "none" => <<k, copy[p][k]>> \in measured
    /\ \A p \in Probers : pc[p] \in {"read", "write"} =>
          verdict[p] \in {"ok", "bypassed"} /\ <<key[p], verdict[p]>> \in measured
    /\ \A p \in Launchers : pc[p] \in {"launch", "launched"} /\ p \notin warned =>
          <<key[p], "ok">> \in measured
    /\ \A p \in Launchers : pc[p] = "refused" => <<key[p], "bypassed">> \in measured

IInv == TypeOK /\ Shapes /\ SawTheSeam /\ Evidence /\ VerdictsAreTrue

-----------------------------------------------------------------------------
(* The last of several: Recorded chooses it.                                 *)
LEMMA Least ==
  ASSUME NEW T, T \subseteq Nat, T # {}
  PROVE  \E x \in T : \A y \in T : x <= y
<1> DEFINE R == OpToRel(<, Nat)
<1>1. IsWellFoundedOn(R, Nat)
  BY NatLessThanWellFounded
<1>2. \A x, y \in Nat : y < x => <<y, x>> \in R
  BY DEF OpToRel
<1> HIDE DEF R
<1>3. \E x \in T : \A y \in T : <<y, x>> \notin R
  BY <1>1, WFMin
<1>4. PICK x \in T : \A y \in T : <<y, x>> \notin R
  BY <1>3
<1>5. ASSUME NEW y \in T  PROVE  x <= y
  <2>1. x \in Nat /\ y \in Nat
    OBVIOUS
  <2>2. ~(y < x)
    BY <2>1, <1>2, <1>4, Zenon
  <2>. QED
    BY <2>1, <2>2, SMT
<1>. QED
  BY <1>5

LEMMA Last ==
  ASSUME NEW n \in Nat, NEW T, T \subseteq 1..n, T # {}
  PROVE  \E i \in T : \A j \in T : j <= i
<1> DEFINE S == {n - i : i \in T}
<1>1. S \subseteq Nat
  OBVIOUS
<1>2. S # {}
  OBVIOUS
<1>3. \E x \in S : \A y \in S : x <= y
  <2> HIDE DEF S
  <2>. QED
    BY <1>1, <1>2, Least
<1>4. PICK i \in T : \A y \in S : n - i <= y
  BY <1>3
<1>5. ASSUME NEW j \in T  PROVE  j <= i
  <2>1. n - i <= n - j
    BY <1>4
  <2>2. i \in Int /\ j \in Int
    OBVIOUS
  <2>. QED
    BY <2>1, <2>2
<1>. QED
  BY <1>5

\* What is recorded was known before, or is one of the outputs reported.
LEMMA RecordedIsReported ==
  ASSUME NEW known, NEW reported \in Seq(Outputs)
  PROVE  \/ Recorded(known, reported) = known
         \/ \E i \in DOMAIN reported : /\ Recorded(known, reported) = reported[i]
                                       /\ reported[i] # "empty"
<1> DEFINE told == {i \in DOMAIN reported : reported[i] # "empty"}
<1>1. CASE told = {}
  BY <1>1 DEF Recorded
<1>2. CASE told # {}
  <2>1. Len(reported) \in Nat /\ told \subseteq 1..Len(reported)
    OBVIOUS
  <2>2. \E i \in told : \A j \in told : j <= i
    <3> HIDE DEF told
    <3>. QED
      BY <1>2, <2>1, Last
  <2>3. (CHOOSE i \in told : \A j \in told : j <= i) \in told
    BY <2>2, Zenon
  <2>4. Recorded(known, reported) = reported[CHOOSE i \in told : \A j \in told : j <= i]
    BY <1>2, Zenon DEF Recorded
  <2>. QED
    BY <2>3, <2>4
<1>. QED
  BY <1>1, <1>2

\* What the mock makes of an output tells nothing new.
LEMMA ToldOutputs ==
  ASSUME NEW b, NEW o \in Outputs
  PROVE  /\ Told(b, o) \in Outputs
         /\ Told(b, o) \in {"target", "local"} => Told(b, o) = o
BY DEF Told, Outputs

LEMMA KeyFacts ==
  ASSUME TypeOK, Shapes, NEW p \in Probers
  PROVE  Current(p) \in Binaries /\ KeyOf(Current(p)) \in Keys
<1>1. Current(p) \in Binaries
  BY DEF Current, TypeOK, Shapes
<1>. QED
  BY <1>1 DEF Keys

LEMMA InitHolds == Init => IInv
<1>. SUFFICES ASSUME Init  PROVE  IInv
  OBVIOUS
<1>. USE DEF Init, ProbeInit
<1>1. Verdicts = EmptyCache
  BY DEF Verdicts
<1>2. TypeOK
  <2>1. ProbeTypeOK
    BY SeamAssumption DEF ProbeTypeOK
  <2>2. \A p \in Probers : KeyOf(First[wants[p]]) \in Keys
    BY GuardAssumption DEF Keys
  <2>. QED
    BY <2>1, <2>2, GuardAssumption DEF TypeOK
<1>3. Shapes
  <2>1. <<>> \in Seq(Outputs)
    OBVIOUS
  <2>. QED
    BY <2>1, <1>2 DEF Shapes, EmptyCache, Evidences
<1>4. SawTheSeam
  BY DEF SawTheSeam
<1>5. Evidence
  BY <1>1, GuardAssumption DEF Evidence, CacheIsMeasured, EmptyCache
<1>6. VerdictsAreTrue
  BY DEF VerdictsAreTrue
<1>. QED
  BY <1>2, <1>3, <1>4, <1>5, <1>6 DEF IInv

-----------------------------------------------------------------------------
(***************************************************************************)
(* The steps of the guard itself.                                          *)
(***************************************************************************)
\* They leave the probe alone.
LEMMA QuietKeeps ==
  ASSUME TypeOK, UNCHANGED probeVars
  PROVE  ProbeTypeOK'
BY DEF TypeOK, ProbeTypeOK, probeVars

LEMMA AskVersionKeeps ==
  ASSUME IInv, NEW p \in Probers,
         AskVersion(p) \/ VersionUnknown(p) \/ VersionHeld(p) \/ VersionFreed(p)
  PROVE  IInv'
<1>. USE DEF IInv, AskVersion, VersionUnknown, VersionHeld, VersionFreed, VersionIs, NoVersion,
             Unverified, At, Go
<1>1. TypeOK'
  BY QuietKeeps, KeyFacts DEF TypeOK
<1>2. Shapes'
  BY DEF Shapes, probeVars
<1>3. SawTheSeam'
  <2>1. \A q \in Probers : pc'[q] \in {"version", "held", "load", "probe"} => pc[q] \in {"version", "held", "load", "probe"}
    BY DEF Shapes
  <2>. QED
    BY <2>1 DEF SawTheSeam, probeVars
<1>4. Evidence'
  <2>1. CacheIsMeasured'
    BY DEF Evidence, CacheIsMeasured, Verdicts
  <2>2. ASSUME NEW q \in Probers
        PROVE  /\ pc'[q] \in {"read", "write"} =>
                    verdict'[q] \in {"ok", "bypassed"} /\ <<key'[q], verdict'[q]>> \in measured'
               /\ q \in Launchers /\ pc'[q] \in {"launch", "launched"} /\ q \notin warned' =>
                    <<key'[q], "ok">> \in measured'
               /\ q \in Launchers /\ pc'[q] = "refused" => <<key'[q], "bypassed">> \in measured'
    <3>1. CASE q = p
      BY <3>1 DEF Shapes
    <3>2. CASE q # p
      <4>1. pc'[q] = pc[q] /\ key'[q] = key[q] /\ verdict'[q] = verdict[q] /\ measured' = measured
        BY <3>2 DEF Shapes, TypeOK, probeVars
      <4>2. q \in Launchers /\ q \notin warned' => q \notin warned
        OBVIOUS
      <4>. QED
        BY <4>1, <4>2 DEF Evidence
    <3>. QED
      BY <3>1, <3>2
  <2>. QED
    BY <2>1, <2>2, GuardAssumption DEF Evidence
<1>5. VerdictsAreTrue'
  BY DEF VerdictsAreTrue
<1>. QED
  BY <1>1, <1>2, <1>3, <1>4, <1>5

LEMMA LoadKeeps ==
  ASSUME IInv, NEW p \in Probers, Load(p)
  PROVE  IInv'
<1>. USE DEF IInv, Load, At, Go
<1>1. TypeOK'
  BY QuietKeeps DEF TypeOK
<1>2. Shapes'
  BY DEF Shapes, probeVars
<1>3. SawTheSeam'
  BY DEF SawTheSeam, Shapes, probeVars
<1>4. Evidence'
  BY DEF Evidence, CacheIsMeasured, Verdicts, Shapes, TypeOK, probeVars
<1>5. VerdictsAreTrue'
  BY DEF VerdictsAreTrue
<1>. QED
  BY <1>1, <1>2, <1>3, <1>4, <1>5

LEMMA ProbeKeeps ==
  ASSUME IInv, NEW p \in Probers, Probe(p)
  PROVE  IInv'
<1>. USE DEF IInv, Probe, StartProbe, CannotProbe, At, Go
<1>1. TypeOK'
  <2>1. ProbeTypeOK'
    BY KeyFacts DEF TypeOK, ProbeTypeOK
  <2>. QED
    BY <2>1 DEF TypeOK
<1>2. Shapes'
  BY DEF Shapes
<1>3. SawTheSeam'
  <2>1. Current(p) \in Binaries
    BY KeyFacts
  <2>. QED
    BY <2>1 DEF SawTheSeam, Shapes, TypeOK, ProbeTypeOK
<1>4. Evidence'
  BY DEF Evidence, CacheIsMeasured, Verdicts, Shapes, TypeOK, ProbeTypeOK
<1>5. VerdictsAreTrue'
  BY DEF VerdictsAreTrue
<1>. QED
  BY <1>1, <1>2, <1>3, <1>4, <1>5

\* The verdict is filed under the key of the version that was asked for.
LEMMA MeasuredKeeps ==
  ASSUME IInv, NEW p \in Probers, Measured(p)
  PROVE  IInv'
<1>. USE DEF IInv, Measured, At, Go
<1>1. TypeOK'
  BY QuietKeeps DEF TypeOK
<1>2. Shapes'
  BY DEF Shapes, probeVars
<1>3. SawTheSeam'
  BY DEF SawTheSeam, Shapes, probeVars
<1>4. Evidence'
  BY GuardAssumption DEF Evidence, CacheIsMeasured, Verdicts, Shapes, TypeOK, probeVars
<1>5. VerdictsAreTrue'
  <2>. SUFFICES ASSUME NEW k \in Keys, k \notin misfiled', Hostnames = "distinct"
                PROVE  /\ <<k, "ok">> \in measured' => \E b \in Binaries : KeyOf(b) = k /\ Seam[b] = "target"
                       /\ <<k, "bypassed">> \in measured' /\ k \notin broken' =>
                             \E b \in Binaries : KeyOf(b) = k /\ Seam[b] = "local"
    BY DEF VerdictsAreTrue
  <2>1. k \notin misfiled /\ (k \notin broken' => k \notin broken)
    OBVIOUS
  <2>2. CASE k # key[p]
    BY <2>1, <2>2 DEF VerdictsAreTrue
  <2>3. CASE k = key[p]
    <3>1. probed[p] \in Binaries /\ KeyOf(probed[p]) = k
      BY <2>3 DEF SawTheSeam
    <3>2. /\ verdict[p] = "ok" => Seam[probed[p]] = "target"
          /\ verdict[p] = "bypassed" /\ k \notin broken' => Seam[probed[p]] = "local"
      BY <2>3 DEF SawTheSeam
    <3>. QED
      BY <2>1, <3>1, <3>2 DEF VerdictsAreTrue
  <2>. QED
    BY <2>2, <2>3
<1>. QED
  BY <1>1, <1>2, <1>3, <1>4, <1>5

LEMMA InconclusiveKeeps ==
  ASSUME IInv, NEW p \in Probers, Inconclusive(p)
  PROVE  IInv'
<1>. USE DEF IInv, Inconclusive, Unverified, At, Go
<1>1. TypeOK'
  BY QuietKeeps DEF TypeOK
<1>2. Shapes'
  BY DEF Shapes, probeVars
<1>3. SawTheSeam'
  BY DEF SawTheSeam, Shapes, probeVars
<1>4. Evidence'
  BY GuardAssumption DEF Evidence, CacheIsMeasured, Verdicts, Shapes, TypeOK, probeVars
<1>5. VerdictsAreTrue'
  BY DEF VerdictsAreTrue
<1>. QED
  BY <1>1, <1>2, <1>3, <1>4, <1>5

LEMMA ReadCacheKeeps ==
  ASSUME IInv, NEW p \in Probers, ReadCache(p)
  PROVE  IInv'
<1>. USE DEF IInv, ReadCache, At, Go
<1>1. TypeOK'
  BY QuietKeeps DEF TypeOK
<1>2. Shapes'
  BY DEF Shapes, probeVars, Verdicts, EmptyCache, Evidences, TypeOK
<1>3. SawTheSeam'
  BY DEF SawTheSeam, Shapes, probeVars
<1>4. Evidence'
  BY DEF Evidence, CacheIsMeasured, Verdicts, Shapes, TypeOK, probeVars
<1>5. VerdictsAreTrue'
  BY DEF VerdictsAreTrue
<1>. QED
  BY <1>1, <1>2, <1>3, <1>4, <1>5

\* Where a process goes once it has its verdict.
LEMMA DecidedFacts ==
  ASSUME IInv, NEW p \in Probers, pc[p] \in {"read", "write"}
  PROVE  /\ p \in Verifiers => Decided(p) = "reported"
         /\ p \in Launchers /\ verdict[p] = "ok" => Decided(p) = "launch"
         /\ p \in Launchers /\ verdict[p] = "bypassed" => Decided(p) = "refused"
         /\ Decided(p) \in {"reported", "launch", "refused"}
BY GuardAssumption DEF IInv, Evidence, Decided

LEMMA WriteCacheKeeps ==
  ASSUME IInv, NEW p \in Probers, WriteCache(p)
  PROVE  IInv'
<1>. USE DEF IInv, WriteCache, At, Go
<1>1. TypeOK'
  BY QuietKeeps DEF TypeOK, Shapes, Evidence, Evidences
<1>2. Shapes'
  BY DecidedFacts DEF Shapes, probeVars
<1>3. SawTheSeam'
  <2>1. Decided(p) \in {"reported", "launch", "refused"}
    BY DecidedFacts
  <2>. QED
    BY <2>1 DEF SawTheSeam, Shapes, probeVars
<1>4. Evidence'
  <2>1. CacheIsMeasured'
    BY DEF CacheIsMeasured, Verdicts, Evidence, EmptyCache, Shapes, TypeOK
  <2>. QED
    BY <2>1, GuardAssumption, DecidedFacts DEF Evidence, Shapes, TypeOK, probeVars
<1>5. VerdictsAreTrue'
  BY DEF VerdictsAreTrue
<1>. QED
  BY <1>1, <1>2, <1>3, <1>4, <1>5

LEMMA StoreFailsKeeps ==
  ASSUME IInv, NEW p \in Probers, StoreFails(p)
  PROVE  IInv'
<1>. USE DEF IInv, StoreFails, At, Go
<1>1. TypeOK'
  BY QuietKeeps DEF TypeOK
<1>2. Shapes'
  BY DecidedFacts DEF Shapes, probeVars
<1>3. SawTheSeam'
  <2>1. Decided(p) \in {"reported", "launch", "refused"}
    BY DecidedFacts
  <2>. QED
    BY <2>1 DEF SawTheSeam, Shapes, probeVars
<1>4. Evidence'
  BY GuardAssumption, DecidedFacts DEF Evidence, CacheIsMeasured, Verdicts, Shapes, TypeOK, probeVars
<1>5. VerdictsAreTrue'
  BY DEF VerdictsAreTrue
<1>. QED
  BY <1>1, <1>2, <1>3, <1>4, <1>5

LEMMA LaunchKeeps ==
  ASSUME IInv, NEW p \in Probers, Launch(p)
  PROVE  IInv'
<1>. USE DEF IInv, Launch, At, Go
<1>1. TypeOK'
  BY QuietKeeps DEF TypeOK
<1>2. Shapes'
  BY DEF Shapes, probeVars
<1>3. SawTheSeam'
  BY DEF SawTheSeam, Shapes, probeVars
<1>4. Evidence'
  BY DEF Evidence, CacheIsMeasured, Verdicts, Shapes, TypeOK, probeVars
<1>5. VerdictsAreTrue'
  BY DEF VerdictsAreTrue
<1>. QED
  BY <1>1, <1>2, <1>3, <1>4, <1>5

LEMMA UpgradeKeeps ==
  ASSUME IInv, NEW b \in Binaries, Upgrade(b)
  PROVE  IInv'
<1>. USE DEF IInv, Upgrade
<1>1. TypeOK'
  BY QuietKeeps DEF TypeOK
<1>2. Shapes'
  BY DEF Shapes, probeVars
<1>3. SawTheSeam'
  BY DEF SawTheSeam, probeVars
<1>4. Evidence'
  BY DEF Evidence, CacheIsMeasured, Verdicts, probeVars
<1>5. VerdictsAreTrue'
  BY DEF VerdictsAreTrue
<1>. QED
  BY <1>1, <1>2, <1>3, <1>4, <1>5

-----------------------------------------------------------------------------
(***************************************************************************)
(* The steps of the probe, which leave the guard's own state alone.        *)
(***************************************************************************)
\* What they must keep, then, is types and what the probe has seen.
LEMMA ProbingKeeps ==
  ASSUME IInv, NEW p \in Probers, Probing(p), ProbeTypeOK',
         turn' \in [Probers -> [Conversations -> {"idle", "called", "reporting", "closed"}]],
         outputs' \in [Probers -> [Conversations -> Seq(Outputs)]],
         SawTheSeam',
         \A q \in Probers : verdict[q] # "none" => verdict'[q] = verdict[q]
  PROVE  IInv'
<1>. USE DEF IInv, Probing, guardVars
<1>1. TypeOK'
  BY DEF TypeOK
<1>2. Shapes'
  BY DEF Shapes
<1>3. Evidence'
  BY DEF Evidence, CacheIsMeasured, Verdicts
<1>4. VerdictsAreTrue'
  BY DEF VerdictsAreTrue
<1>. QED
  BY <1>1, <1>2, <1>3, <1>4

LEMMA PostKeeps ==
  ASSUME IInv, NEW p \in Probers, NEW c \in Conversations, Probing(p), Post(p, c)
  PROVE  IInv'
<1>. USE DEF Post, Serve
<1> DEFINE reported == [i \in DOMAIN outputs[p][c] |-> Told(probed[p], outputs[p][c][i])]
           now == Recorded(result[p], reported)
<1>1. outputs[p][c] \in Seq(Outputs)
  BY DEF IInv, Shapes
<1>2. reported \in Seq(Outputs)
  <2>1. \A i \in 1..Len(outputs[p][c]) : Told(probed[p], outputs[p][c][i]) \in Outputs
    BY <1>1, ToldOutputs
  <2>2. DOMAIN outputs[p][c] = 1..Len(outputs[p][c]) /\ Len(outputs[p][c]) \in Nat
    BY <1>1
  <2>. QED
    BY <2>1, <2>2
<1>3. \/ now = result[p]
      \/ \E i \in DOMAIN outputs[p][c] : now = reported[i] /\ now # "empty"
  <2> HIDE DEF reported, now
  <2>1. DOMAIN reported = DOMAIN outputs[p][c]
    BY DEF reported
  <2>. QED
    BY <1>2, <2>1, RecordedIsReported DEF now
<1>4. now \in {"none", "target", "local", "bare", "quoted"}
  <2>1. result[p] \in {"none", "target", "local", "bare", "quoted"}
    BY DEF IInv, TypeOK, ProbeTypeOK
  <2>2. \A i \in DOMAIN outputs[p][c] : reported[i] \in Outputs
    BY <1>1, ToldOutputs
  <2> HIDE DEF reported, now
  <2>. QED
    BY <1>3, <2>1, <2>2 DEF Outputs
<1>5. now \in {"target", "local"} => now = Seam[probed[p]]
  <2>1. \A i \in DOMAIN outputs[p][c] :
            reported[i] \in {"target", "local"} => reported[i] = outputs[p][c][i]
    BY <1>1, ToldOutputs
  <2> HIDE DEF reported, now
  <2>. QED
    BY <1>3, <2>1 DEF IInv, SawTheSeam
<1>6. result' = [result EXCEPT ![p] = now]
  OBVIOUS
<1>7. turn' = [turn EXCEPT ![p][c] = "called"] \/ turn' = [turn EXCEPT ![p][c] = "closed"]
  BY DEF Script, Close
<1>8. done' = done \/ done' = done \cup {p}
  BY DEF Script, Close
<1> HIDE DEF reported, now, Serve
<1>9. turn' \in [Probers -> [Conversations -> {"idle", "called", "reporting", "closed"}]]
  <2>1. turn \in [Probers -> [Conversations -> {"idle", "called", "reporting", "closed"}]]
    BY DEF IInv, Shapes
  <2>2. CASE turn' = [turn EXCEPT ![p][c] = "called"]
    BY <2>1, <2>2
  <2>3. CASE turn' = [turn EXCEPT ![p][c] = "closed"]
    BY <2>1, <2>3
  <2>. QED
    BY <1>7, <2>2, <2>3
<1>10. ProbeTypeOK'
  <2>1. result' \in [Probers -> {"none", "target", "local", "bare", "quoted"}]
    BY <1>4, <1>6 DEF IInv, TypeOK, ProbeTypeOK
  <2>2. done' \subseteq Probers
    BY <1>8 DEF IInv, TypeOK, ProbeTypeOK
  <2>3. \A q \in Probers, d \in Conversations :
            turn'[q][d] \in {"idle", "called", "reporting", "closed"}
    BY <1>9
  <2>. QED
    BY <2>1, <2>2, <2>3 DEF IInv, TypeOK, ProbeTypeOK
<1>11. SawTheSeam'
  <2>1. pc' = pc /\ pc[p] = "probing"
    BY DEF Probing, guardVars, At
  <2>2. result'[p] = now /\ \A q \in Probers : q # p => result'[q] = result[q]
    BY <1>6 DEF IInv, TypeOK, ProbeTypeOK
  <2>. QED
    BY <1>5, <2>1, <2>2 DEF IInv, SawTheSeam
<1>. QED
  BY <1>9, <1>10, <1>11, ProbingKeeps DEF IInv, Shapes

LEMMA CallToolKeeps ==
  ASSUME IInv, NEW p \in Probers, NEW c \in Conversations, Probing(p), CallTool(p, c)
  PROVE  IInv'
<1>. USE DEF CallTool
<1>1. PICK o \in Outcomes(probed[p], Tools[c]) :
         outputs' = [outputs EXCEPT ![p][c] = Append(@, o)]
  OBVIOUS
<1>2. o \in {"bare", "quoted", "empty"} \/ o = Seam[probed[p]]
  BY <1>1 DEF Outcomes
<1>3. o \in Outputs
  <2>1. CASE o \in {"bare", "quoted", "empty"}
    BY <2>1 DEF Outputs
  <2>2. CASE o = Seam[probed[p]]
    <3>1. probed[p] \in Binaries
      BY DEF IInv, SawTheSeam
    <3>2. Seam[probed[p]] \in {"target", "local"}
      BY <3>1, SeamAssumption
    <3>. QED
      BY <2>2, <3>2 DEF Outputs
  <2>. QED
    BY <1>2, <2>1, <2>2
<1>4. outputs[p][c] \in Seq(Outputs)
  BY DEF IInv, Shapes
<1>5. /\ outputs'[p][c] = Append(outputs[p][c], o)
      /\ \A q \in Probers, d \in Conversations : q # p \/ d # c => outputs'[q][d] = outputs[q][d]
      /\ outputs' \in [Probers -> [Conversations -> Seq(Outputs)]]
  BY <1>1, <1>3, <1>4 DEF IInv, Shapes
<1>6. turn' \in [Probers -> [Conversations -> {"idle", "called", "reporting", "closed"}]]
  BY DEF IInv, Shapes
<1>7. ProbeTypeOK'
  <2>1. Len(outputs'[p][c]) <= MaxRounds
    BY <1>3, <1>4, <1>5, SeamAssumption
  <2>. QED
    BY <1>5, <1>6, <2>1 DEF IInv, TypeOK, ProbeTypeOK
<1>8. SawTheSeam'
  <2>1. pc' = pc /\ pc[p] = "probing"
    BY DEF Probing, guardVars, At
  <2>2. \A i \in DOMAIN outputs'[p][c] :
            outputs'[p][c][i] \in {"target", "local"} => outputs'[p][c][i] = Seam[probed[p]]
    <3>. SUFFICES ASSUME NEW i \in DOMAIN outputs'[p][c]
                  PROVE  outputs'[p][c][i] \in {"target", "local"} => outputs'[p][c][i] = Seam[probed[p]]
      OBVIOUS
    <3>1. \/ i \in DOMAIN outputs[p][c] /\ outputs'[p][c][i] = outputs[p][c][i]
          \/ outputs'[p][c][i] = o
      BY <1>3, <1>4, <1>5
    <3>. QED
      BY <1>2, <3>1 DEF IInv, SawTheSeam
  <2>. QED
    BY <1>5, <2>1, <2>2 DEF IInv, SawTheSeam
<1>. QED
  BY <1>5, <1>6, <1>7, <1>8, ProbingKeeps

\* The end of a harness takes its conversations with it, if nothing it started
\* goes on with them.
LEMMA HarnessGoneFacts ==
  ASSUME IInv, NEW p \in Probers, HarnessGone(p) \/ UNCHANGED <<running, turn, outputs>>
  PROVE  /\ turn' \in [Probers -> [Conversations -> {"idle", "called", "reporting", "closed"}]]
         /\ outputs' \in [Probers -> [Conversations -> Seq(Outputs)]]
         /\ \A q \in Probers, c \in Conversations :
               /\ outputs[q][c] = <<>> => outputs'[q][c] = <<>>
               /\ \A i \in DOMAIN outputs'[q][c] :
                     i \in DOMAIN outputs[q][c] /\ outputs'[q][c][i] = outputs[q][c][i]
         /\ \A q \in Probers, c \in Conversations : Len(outputs'[q][c]) <= MaxRounds
         /\ running' \subseteq running
<1>1. <<>> \in Seq(Outputs) /\ Len(<<>>) = 0 /\ \A i : i \notin DOMAIN <<>>
  OBVIOUS
<1>2. CASE HarnessGone(p)
  <2>2. /\ \A c \in Conversations : turn'[p][c] = "idle" /\ outputs'[p][c] = <<>>
        /\ \A q \in Probers : q # p => turn'[q] = turn[q] /\ outputs'[q] = outputs[q]
    BY <1>2 DEF HarnessGone, IInv, Shapes
  <2>3. /\ turn' \in [Probers -> [Conversations -> {"idle", "called", "reporting", "closed"}]]
        /\ outputs' \in [Probers -> [Conversations -> Seq(Outputs)]]
    BY <1>1, <1>2 DEF HarnessGone, IInv, Shapes
  <2>4. \A q \in Probers, c \in Conversations : Len(outputs'[q][c]) <= MaxRounds
    BY <1>1, <2>2, SeamAssumption DEF IInv, TypeOK, ProbeTypeOK
  <2>5. running' \subseteq running
    BY <1>2 DEF HarnessGone
  <2>. QED
    BY <1>1, <2>2, <2>3, <2>4, <2>5
<1>3. CASE UNCHANGED <<running, turn, outputs>>
  BY <1>3 DEF IInv, Shapes, TypeOK, ProbeTypeOK
<1>. QED
  BY <1>2, <1>3

LEMMA ExitKeeps ==
  ASSUME IInv, NEW p \in Probers, Probing(p), Exit(p) \/ Expire(p) \/ Cancel(p)
  PROVE  IInv'
<1>1. /\ HarnessGone(p) \/ UNCHANGED <<running, turn, outputs>>
      /\ UNCHANGED <<probed, result, done, verdict, judged>>
  BY DEF Exit, Expire, Cancel, EndContext
<1>2. ProbeTypeOK'
  <2>1. context' \in [Probers -> {"open", "deadline", "cancelled"}]
    BY DEF Exit, Expire, Cancel, EndContext, IInv, TypeOK, ProbeTypeOK
  <2>2. \A q \in Probers, c \in Conversations :
            /\ turn'[q][c] \in {"idle", "called", "reporting", "closed"}
            /\ Len(outputs'[q][c]) <= MaxRounds
    BY <1>1, HarnessGoneFacts
  <2>3. running' \subseteq Probers
    BY <1>1, HarnessGoneFacts DEF IInv, TypeOK, ProbeTypeOK
  <2>. QED
    BY <1>1, <2>1, <2>2, <2>3 DEF IInv, TypeOK, ProbeTypeOK
<1>3. SawTheSeam'
  <2>1. pc' = pc
    BY DEF Probing, guardVars
  <2>2. /\ running' \subseteq running
        /\ \A q \in Probers, c \in Conversations :
              /\ outputs[q][c] = <<>> => outputs'[q][c] = <<>>
              /\ \A i \in DOMAIN outputs'[q][c] :
                    i \in DOMAIN outputs[q][c] /\ outputs'[q][c][i] = outputs[q][c][i]
    BY <1>1, HarnessGoneFacts
  <2>3. UNCHANGED <<probed, result, verdict, judged>>
    BY <1>1
  <2>4. SawTheSeam
    BY DEF IInv
  <2>. QED
    BY <2>1, <2>2, <2>3, <2>4 DEF SawTheSeam
<1>. QED
  BY <1>1, <1>2, <1>3, HarnessGoneFacts, ProbingKeeps

LEMMA ConcludeKeeps ==
  ASSUME IInv, NEW p \in Probers, Probing(p), Conclude(p)
  PROVE  IInv'
<1>. USE DEF Conclude, MockGone
<1> DEFINE new == IF context[p] = "deadline" THEN "error" ELSE Judge(result[p])
<1>1. /\ new \in {"error", "ok", "bypassed"}
      /\ Hostnames = "distinct" => /\ new = "ok" => result[p] = "target"
                                   /\ new = "bypassed" => result[p] \in {"local", "bare"}
  BY DEF Judge, EchoedMarker, NamesTarget, IInv, TypeOK, ProbeTypeOK
<1>2. /\ verdict' = [verdict EXCEPT ![p] = new] /\ probed[p] \in Binaries
      /\ judged' = [judged EXCEPT ![p] = result[p]]
  BY DEF IInv, TypeOK, ProbeTypeOK
<1>3. ProbeTypeOK'
  BY <1>1, <1>2 DEF IInv, TypeOK, ProbeTypeOK
<1>4. SawTheSeam'
  <2>1. pc' = pc /\ pc[p] = "probing"
    BY DEF Probing, guardVars, At
  <2>2. /\ verdict'[p] = new /\ result'[p] = "none" /\ judged'[p] = result[p]
        /\ \A q \in Probers : q # p => /\ verdict'[q] = verdict[q] /\ result'[q] = result[q]
                                       /\ judged'[q] = judged[q]
    BY <1>2 DEF IInv, TypeOK, ProbeTypeOK
  <2>3. Hostnames = "distinct" => /\ new = "ok" => Seam[probed[p]] = "target"
                                  /\ new = "bypassed" /\ result[p] # "bare" => Seam[probed[p]] = "local"
    BY <1>1 DEF IInv, SawTheSeam
  <2> HIDE DEF new
  <2>. QED
    BY <1>1, <1>2, <2>1, <2>2, <2>3 DEF IInv, SawTheSeam
<1>5. \A q \in Probers : verdict[q] # "none" => verdict'[q] = verdict[q]
  BY <1>2 DEF IInv, TypeOK, ProbeTypeOK
<1>. QED
  BY <1>3, <1>4, <1>5, ProbingKeeps DEF IInv, Shapes

LEMMA InterruptedKeeps ==
  ASSUME IInv, NEW p \in Probers, Interrupted(p)
  PROVE  IInv'
<1>. USE DEF Interrupted, MockGone, Go
<1>1. ProbeTypeOK'
  BY HarnessGoneFacts DEF IInv, TypeOK, ProbeTypeOK
<1>2. TypeOK'
  BY <1>1 DEF IInv, TypeOK
<1>3. Shapes'
  BY HarnessGoneFacts DEF IInv, Shapes
<1>4. SawTheSeam'
  <2>1. pc'[p] = "gone" /\ \A q \in Probers : q # p => pc'[q] = pc[q]
    BY DEF IInv, Shapes
  <2>2. result'[p] = "none" /\ \A q \in Probers : q # p => result'[q] = result[q]
    BY DEF IInv, TypeOK, ProbeTypeOK
  <2>. QED
    BY <2>1, <2>2, HarnessGoneFacts, SMTT(30) DEF IInv, SawTheSeam
<1>5. Evidence'
  BY GuardAssumption DEF IInv, Shapes, Evidence, CacheIsMeasured, Verdicts
<1>6. VerdictsAreTrue'
  BY DEF IInv, VerdictsAreTrue
<1>. QED
  BY <1>2, <1>3, <1>4, <1>5, <1>6 DEF IInv

-----------------------------------------------------------------------------
LEMMA StepKeeps == IInv /\ [Next]_vars => IInv'
<1>. SUFFICES ASSUME IInv, [Next]_vars  PROVE  IInv'
  OBVIOUS
<1>1. ASSUME NEW p \in Probers, GuardStep(p)  PROVE  IInv'
  BY <1>1, AskVersionKeeps, LoadKeeps, ProbeKeeps, ConcludeKeeps, MeasuredKeeps, InconclusiveKeeps,
     ReadCacheKeeps, WriteCacheKeeps, StoreFailsKeeps, LaunchKeeps DEF GuardStep
<1>2. ASSUME NEW p \in Probers, Probing(p), HarnessStep(p) \/ Expire(p) \/ Cancel(p)  PROVE  IInv'
  BY <1>2, PostKeeps, CallToolKeeps, ExitKeeps DEF HarnessStep
<1>3. CASE UNCHANGED vars
  <2>1. ProbeTypeOK'
    BY <1>3, QuietKeeps DEF vars, IInv
  <2>. QED
    BY <1>3, <2>1 DEF vars, probeVars, guardVars, IInv, TypeOK, Shapes, SawTheSeam, Evidence,
       CacheIsMeasured, Verdicts, VerdictsAreTrue
<1>4. ASSUME NEW p \in Probers, VersionHeld(p) \/ VersionFreed(p)  PROVE  IInv'
  BY <1>4, AskVersionKeeps
<1>. QED
  BY <1>1, <1>2, <1>3, <1>4, InterruptedKeeps, UpgradeKeeps DEF Next

THEOREM Invariant == Spec => []IInv
<1>1. Init => IInv
  BY InitHolds
<1>2. IInv /\ [Next]_vars => IInv'
  BY StepKeeps
<1>. QED
  BY <1>1, <1>2, PTL DEF Spec

(* Every variable of the guard and of its probes keeps its type; a written   *)
(* cache has an entry for every key, whoever overwrote what.                 *)
THEOREM TypeCorrect == Spec => []TypeOK
<1>1. IInv => TypeOK
  BY DEF IInv
<1>. QED
  BY <1>1, Invariant, PTL

(* What the cache says of a harness was measured, and is so unless what was   *)
(* measured broke off between the canary and the hostname.                   *)
THEOREM CacheHoldsFacts == Spec => []CacheIsTrue
<1>1. IInv => CacheIsTrue
  BY DEF IInv, Evidence, CacheIsTrue
<1>. QED
  BY <1>1, Invariant, PTL

(* A launch without a warning, and a refusal, rest on a measured verdict.    *)
THEOREM DecisionsRestOnEvidence == Spec => []GuardActsOnEvidence
<1>1. IInv => GuardActsOnEvidence
  BY DEF IInv, Evidence, GuardActsOnEvidence, At
<1>. QED
  BY <1>1, Invariant, PTL
=============================================================================
