-------------------------------- MODULE Guard --------------------------------
(***************************************************************************)
(* The guard in front of every launch of a harness                         *)
(* (cmd/reach/harnessguard.go, claude.go) and `reach harness verify`, over *)
(* the cache of verdicts they share (internal/harnessprobe/cache.go,       *)
(* gate.go).  A launcher is a reach process that will run the harness, a   *)
(* verifier one that only probes it.  The binary behind a harness's name   *)
(* may be replaced at any time, by an upgrade or a patch.                  *)
(***************************************************************************)
EXTENDS SeamProbe

CONSTANTS
    Launchers,    \* the processes of `reach codex` and its like
    Verifiers,    \* the processes of `reach harness verify`
    Harnesses,
    HarnessOf,    \* [Binaries -> Harnesses]
    VersionOf,    \* [Binaries -> versions], as the binary prints it
    First,        \* [Harnesses -> Binaries], what is installed at first
    MaxUpgrades   \* bound: replacements of a binary

ASSUME GuardAssumption ==
    /\ Probers = Launchers \cup Verifiers /\ Launchers \cap Verifiers = {}
    /\ First \in [Harnesses -> Binaries]
    /\ \A h \in Harnesses : HarnessOf[First[h]] = h

VARIABLES
    wants,      \* [Probers -> Harnesses], what each process is about
    given,      \* [Probers -> Binaries \cup {NoBinary}], what --binary names
    installed,  \* [Harnesses -> Binaries]
    upgrades,
    cache,      \* [Keys -> verdicts], or Foreign: absent, not JSON, another schema
    pc,         \* [Probers -> where the process is]
    key,        \* [Probers -> the harness and version it asked for]
    copy,       \* [Probers -> the cache as StoreVerdict read it]
    warned,     \* launchers that go on without a verdict
    ran,        \* [Probers -> the binary it launched]
    measured,   \* history: the conclusive verdicts, with the key each was filed under
    misfiled,   \* history: keys filed for a probe of another binary
    broken      \* history: keys filed for an output that broke off after the canary

guardVars == <<wants, given, installed, upgrades, cache, pc, key, copy, warned, ran, measured, misfiled, broken>>
vars == <<probeVars, guardVars>>

KeyOf(b) == <<HarnessOf[b], VersionOf[b]>>
Keys == {KeyOf(b) : b \in Binaries}
Current(p) == IF given[p] = NoBinary THEN installed[wants[p]] ELSE given[p]

EmptyCache == [k \in Keys |-> "none"]
Foreign == [k \in Keys |-> "foreign"]

\* readCache: what is not of this schema is no evidence.
Verdicts == IF cache = Foreign THEN EmptyCache ELSE cache

Init ==
    /\ ProbeInit
    /\ wants \in [Probers -> Harnesses]
    /\ given \in [Probers -> Binaries \cup {NoBinary}]
    /\ \A p \in Probers : given[p] # NoBinary => p \in Verifiers /\ HarnessOf[given[p]] = wants[p]
    /\ installed = First /\ upgrades = 0
    /\ cache = Foreign
    /\ pc = [p \in Probers |-> "version"]
    /\ key = [p \in Probers |-> KeyOf(First[wants[p]])]
    /\ copy = [p \in Probers |-> EmptyCache]
    /\ warned = {} /\ measured = {} /\ misfiled = {} /\ broken = {}
    /\ ran = [p \in Probers |-> NoBinary]

At(p, where) == pc[p] = where
Go(p, where) == pc' = [pc EXCEPT ![p] = where]

\* Nothing is known: a launcher warns and goes on, a verifier reports.
Unverified(p) ==
    /\ Go(p, IF p \in Launchers THEN "launch" ELSE "reported")
    /\ warned' = IF p \in Launchers THEN warned \cup {p} ELSE warned

(***************************************************************************)
(* The harness is asked for its version, for 15 s; that is not the end of  *)
(* it while something it started holds its output.                         *)
(***************************************************************************)
VersionIs(p) ==
    /\ key' = [key EXCEPT ![p] = KeyOf(Current(p))]
    /\ Go(p, IF p \in Launchers THEN "load" ELSE "probe")
    /\ UNCHANGED <<probeVars, wants, given, installed, upgrades, cache, copy, warned, ran, measured, misfiled, broken>>

NoVersion(p) ==
    /\ Unverified(p)
    /\ UNCHANGED <<probeVars, wants, given, installed, upgrades, cache, key, copy, ran, measured, misfiled, broken>>

AskVersion(p) == At(p, "version") /\ VersionIs(p)

VersionUnknown(p) == At(p, "version") /\ NoVersion(p)

VersionHeld(p) ==
    /\ At(p, "version")
    /\ Go(p, "held")
    /\ UNCHANGED <<probeVars, wants, given, installed, upgrades, cache, key, copy, warned, ran, measured, misfiled, broken>>

VersionFreed(p) == At(p, "held") /\ (VersionIs(p) \/ NoVersion(p))

\* Mutant of Load: only what is known to be bad is refused.
LoadTrusting(p) ==
    /\ At(p, "load")
    /\ Go(p, IF Verdicts[key[p]] = "bypassed" THEN "refused" ELSE "launch")
    /\ UNCHANGED <<probeVars, wants, given, installed, upgrades, cache, key, copy, warned, ran, measured, misfiled, broken>>

\* LoadVerdict and Gate.
Load(p) ==
    /\ At(p, "load")
    /\ Go(p, CASE Verdicts[key[p]] = "ok" -> "launch"
               [] Verdicts[key[p]] = "bypassed" -> "refused"
               [] OTHER -> "probe")
    /\ UNCHANGED <<probeVars, wants, given, installed, upgrades, cache, key, copy, warned, ran, measured, misfiled, broken>>

\* Verify looks the binary up again.
Probe(p) ==
    /\ At(p, "probe")
    /\ StartProbe(p, Current(p)) \/ CannotProbe(p)
    /\ Go(p, "probing")
    /\ UNCHANGED <<wants, given, installed, upgrades, cache, key, copy, warned, ran, measured, misfiled, broken>>

Probing(p) == At(p, "probing") /\ UNCHANGED guardVars

Measured(p) ==
    /\ At(p, "probing") /\ verdict[p] \in {"ok", "bypassed"}
    /\ Go(p, "read") \/ (p \in Verifiers /\ Go(p, "reported"))  \* --task-prefix
    /\ measured' = measured \cup {<<key[p], verdict[p]>>}
    /\ misfiled' = IF KeyOf(probed[p]) = key[p] THEN misfiled ELSE misfiled \cup {key[p]}
    /\ broken' = IF judged[p] = "bare" THEN broken \cup {key[p]} ELSE broken
    /\ UNCHANGED <<probeVars, wants, given, installed, upgrades, cache, key, copy, warned, ran>>

Inconclusive(p) ==
    /\ At(p, "probing") /\ verdict[p] = "error"
    /\ Unverified(p)
    /\ UNCHANGED <<probeVars, wants, given, installed, upgrades, cache, key, copy, ran, measured, misfiled, broken>>

(***************************************************************************)
(* StoreVerdict: the whole cache is read, changed and replaced by a rename *)
(* of a file of its own.  A failure is a warning.                          *)
(***************************************************************************)
ReadCache(p) ==
    /\ At(p, "read")
    /\ copy' = [copy EXCEPT ![p] = Verdicts]
    /\ Go(p, "write")
    /\ UNCHANGED <<probeVars, wants, given, installed, upgrades, cache, key, warned, ran, measured, misfiled, broken>>

\* GateFromProbe.
Decided(p) ==
    CASE p \in Verifiers -> "reported"
      [] p \in Launchers /\ verdict[p] = "ok" -> "launch"
      [] p \in Launchers /\ verdict[p] = "bypassed" -> "refused"

\* Mutant of WriteCache: the version is asked for again.
WriteCacheAsking(p) ==
    /\ At(p, "write")
    /\ cache' = [copy[p] EXCEPT ![KeyOf(Current(p))] = verdict[p]]
    /\ Go(p, Decided(p))
    /\ UNCHANGED <<probeVars, wants, given, installed, upgrades, key, copy, warned, ran, measured, misfiled, broken>>

WriteCache(p) ==
    /\ At(p, "write")
    /\ cache' = [copy[p] EXCEPT ![key[p]] = verdict[p]]
    /\ Go(p, Decided(p))
    /\ UNCHANGED <<probeVars, wants, given, installed, upgrades, key, copy, warned, ran, measured, misfiled, broken>>

StoreFails(p) ==
    /\ At(p, "read") \/ At(p, "write")
    /\ Go(p, Decided(p))
    /\ UNCHANGED <<probeVars, wants, given, installed, upgrades, cache, key, copy, warned, ran, measured, misfiled, broken>>

\* The launcher looks the binary up once more and becomes it.
Launch(p) ==
    /\ At(p, "launch")
    /\ ran' = [ran EXCEPT ![p] = Current(p)]
    /\ Go(p, "launched")
    /\ UNCHANGED <<probeVars, wants, given, installed, upgrades, cache, key, copy, warned, measured, misfiled, broken>>

\* Between any two steps: the process is interrupted, a binary is replaced.
Over(p) == pc[p] \in {"launched", "refused", "reported", "gone"}

Interrupted(p) ==
    /\ ~Over(p)
    /\ Go(p, "gone")
    /\ HarnessGone(p) /\ MockGone(p)
    /\ UNCHANGED <<probed, context, verdict, judged>>
    /\ UNCHANGED <<wants, given, installed, upgrades, cache, key, copy, warned, ran, measured, misfiled, broken>>

Upgrade(b) ==
    /\ upgrades < MaxUpgrades /\ installed[HarnessOf[b]] # b
    /\ upgrades' = upgrades + 1
    /\ installed' = [installed EXCEPT ![HarnessOf[b]] = b]
    /\ UNCHANGED <<probeVars, wants, given, cache, pc, key, copy, warned, ran, measured, misfiled, broken>>

GuardStep(p) ==
    \/ AskVersion(p) \/ VersionUnknown(p)
    \/ Load(p)
    \/ Probe(p) \/ (Probing(p) /\ Conclude(p)) \/ Measured(p) \/ Inconclusive(p)
    \/ ReadCache(p) \/ WriteCache(p) \/ StoreFails(p)
    \/ Launch(p)

Next ==
    \/ \E p \in Probers :
          \/ GuardStep(p) \/ Interrupted(p) \/ VersionHeld(p) \/ VersionFreed(p)
          \/ Probing(p) /\ (HarnessStep(p) \/ Expire(p) \/ Cancel(p))
    \/ \E b \in Binaries : Upgrade(b)

\* A reach process goes on with what it has to do, and its deadline comes.
\* Nothing is assumed of a harness, nor of what it starts.
Fairness ==
    \A p \in Probers : WF_vars(GuardStep(p)) /\ WF_vars(Probing(p) /\ Expire(p))

Spec == Init /\ [][Next]_vars /\ Fairness

-----------------------------------------------------------------------------
(* Types; a cache that was written is of this schema and has every key.      *)
TypeOK ==
    /\ ProbeTypeOK
    /\ cache = Foreign \/ cache \in [Keys -> {"none", "ok", "bypassed"}]
    /\ key \in [Probers -> Keys]
    /\ installed \in [Harnesses -> Binaries]
    /\ warned \subseteq Launchers

(* Whatever the processes overwrite of each other and whenever one is killed, *)
(* a verdict in the cache is one a probe came to for that harness and version *)
(* (cache.go:106-114): never one that was inconclusive, and never half of two.*)
CacheIsMeasured ==
    \A k \in Keys : Verdicts[k] # "none" => <<k, Verdicts[k]>> \in measured

(* A verdict is a fact about the harness (harnessprobe.go:28-47): "ok" is not *)
(* reached without a version of it that is intercepted, nor "bypassed" without*)
(* one that is not, whatever the harness refused, repeated or left unfinished.*)
(* Two names that contain each other are beyond the probe, and so is a binary *)
(* replaced between the two looks Verify and its caller take at it; "bypassed"*)
(* also where an output broke off between the canary and the hostname.        *)
VerdictsAreTrue ==
    \A k \in Keys \ misfiled : Hostnames = "distinct" =>
        /\ <<k, "ok">> \in measured => \E b \in Binaries : KeyOf(b) = k /\ Seam[b] = "target"
        /\ <<k, "bypassed">> \in measured /\ k \notin broken =>
              \E b \in Binaries : KeyOf(b) = k /\ Seam[b] = "local"

(* What the cache says of a harness is a fact that somebody measured.         *)
CacheIsTrue == CacheIsMeasured /\ VerdictsAreTrue

(* A launch without a warning rests on an "ok" somebody measured, and a       *)
(* refusal on a measured "bypassed": what could not be found out never        *)
(* refuses, and never passes silently (harnessguard.go:28-33, gate.go:24-27). *)
GuardActsOnEvidence ==
    \A p \in Launchers :
        /\ At(p, "launched") /\ p \notin warned => <<key[p], "ok">> \in measured
        /\ At(p, "refused") => <<key[p], "bypassed">> \in measured

\* Past its time, p still waits for what the harness started to close its output.
Held(p) == At(p, "held") \/ (At(p, "probing") /\ p \in running /\ context[p] # "open")

(* A harness that hangs, dies or never reports does not hang reach with it    *)
(* (probe.go:21-24): every guard comes to a decision, or what the harness     *)
(* started outlives the time it was given and holds its output for ever.      *)
GuardDecides == \A p \in Probers : <>Over(p) \/ <>[]Held(p)

(* NOT what the code does: "the bound exists for the harness that starts and  *)
(* then hangs, which must not hang `reach <harness>` with it"                 *)
(* (probe.go:22-23).                                                          *)
HangsNobody == \A p \in Probers : <>Over(p)

(* NOT what the code does: "VerdictBypassed means the scripted command ran    *)
(* somewhere that is not the target - the local machine, in practice"         *)
(* (harnessprobe.go:36-37).                                                   *)
BypassedIsLocal ==
    \A k \in Keys \ misfiled : Hostnames = "distinct" /\ <<k, "bypassed">> \in measured =>
        \E b \in Binaries : KeyOf(b) = k /\ Seam[b] = "local"

(* NOT what the code does: "the fall-back only succeeds if that binary        *)
(* actually uses the PATH shim" (harness.go:352-355).                         *)
LaunchedIsIntercepted ==
    \A p \in Launchers :
        At(p, "launched") /\ p \notin warned /\ upgrades = 0 => Seam[ran[p]] = "target"
=============================================================================
