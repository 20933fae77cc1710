--------------------------- MODULE TargetFilesProofs ---------------------------
(***************************************************************************)
(* What TargetFiles promises, for any number of clients, paths, payloads   *)
(* and faults: that a path holds all of a payload unless a shell's upload  *)
(* ended early, that but for such a one a write answers truthfully, that   *)
(* it leaves nothing behind, and that a read returns what the path held.   *)
(***************************************************************************)
EXTENDS TargetFiles, FiniteSetTheorems, TLAPS

Blocks == {<<v, i>> : v \in Versions, i \in Nat}

\* The shapes TypeOK does not spell out.
Shapes ==
    /\ files \in [Paths -> Contents \cup {Absent}]
    /\ tmps \in [Clients -> Contents \cup {Absent}]
    /\ call \in [Clients -> Requests]
    /\ pc \in [Clients -> {"idle", "frame", "open", "copy", "chmod", "move", "stat", "test",
                           "fetch", "apply"}]
    /\ got \in [Clients -> Seq(Blocks)]
    /\ want \in [Clients -> Nat]
    /\ answer \in [Clients -> {"none", "ok", "error", "notfound", "lost"}]
    /\ gone \subseteq Clients /\ killed \subseteq gone
    /\ faults \in 0..MaxFaults
    /\ seen \in [Clients -> SUBSET (Contents \cup {Absent})]
    /\ torn \in [Clients -> SUBSET Contents]
    /\ placed \in [Clients -> Contents \cup {Absent}]
    /\ \A c \in Clients : IsFiniteSet(seen[c])

\* Which requests are where.
OpOK(c) ==
    /\ pc[c] \in {"open", "copy", "chmod", "move"} => call[c].op = "write"
    /\ pc[c] \in {"stat", "test", "fetch"} => call[c].op = "read"
    /\ pc[c] = "apply" => call[c].op \in {"remove", "rename"}
    /\ pc[c] \in {"stat", "test"} => Posix(c)
    /\ pc[c] = "frame" => ~Posix(c)

\* The temporary of a write: a beginning of its payload, all of it once the copy
\* is over unless that upload ended early, and gone when the write is, unless killed.
TmpOK(c) ==
    /\ tmps[c] # Absent => call[c].op = "write" /\ tmps[c] \in Prefixes(call[c].version)
    /\ pc[c] \in {"copy", "chmod", "move"} => tmps[c] \in Prefixes(call[c].version)
    /\ pc[c] \in {"chmod", "move"} =>
            tmps[c] = Whole(call[c].version) \/ tmps[c] \in torn[c]
    /\ pc[c] \notin {"copy", "chmod", "move"} /\ tmps[c] # Absent =>
            pc[c] = "idle" /\ c \in killed

\* A write has replaced the file exactly if it is over and was not refused.
PlacedOK(c) ==
    /\ pc[c] # "idle" => placed[c] = Absent
    /\ call[c].op = "write" /\ pc[c] = "idle" =>
            /\ answer[c] = "ok" => placed[c] \in {Incoming(c)} \cup torn[c]
            /\ answer[c] = "error" => placed[c] = Absent

\* What a read has so far was in the path, at its place; as long as the path
\* held one content only, it is a beginning of that.
ReadOK(c) ==
    /\ Reading(c) => File(c) \in seen[c]
    /\ call[c].op = "read" => \A i \in DOMAIN got[c] :
            \E s \in seen[c] \ {Absent} : i \in DOMAIN s /\ s[i] = got[c][i]
    /\ call[c].op = "read" /\ pc[c] \in {"frame", "stat"} => got[c] = <<>>
    /\ \A s : Reading(c) /\ seen[c] = {s} =>
            /\ got[c] # <<>> => s # Absent
            /\ s # Absent => /\ Len(got[c]) <= Len(s)
                             /\ \A i \in 1..Len(got[c]) : got[c][i] = s[i]
            /\ pc[c] \in {"test", "fetch"} /\ Posix(c) =>
                 s # Absent /\ want[c] = Len(s) /\ (want[c] = 0 \/ Len(got[c]) < want[c])
    /\ call[c].op = "read" /\ pc[c] = "idle" =>
            /\ answer[c] = "notfound" => Absent \in seen[c]
            /\ \A s : answer[c] = "ok" /\ seen[c] = {s} => got[c] = s

ClientOK(c) == OpOK(c) /\ TmpOK(c) /\ PlacedOK(c) /\ ReadOK(c)

IInv == Shapes /\ WholeUnlessTorn /\ \A c \in Clients : ClientOK(c)

-----------------------------------------------------------------------------
(* Payloads and their beginnings.                                            *)
LEMMA PrefixFacts ==
  ASSUME NEW v \in Versions, NEW n \in 0..Size[v], NEW s, s = SubSeq(Whole(v), 1, n)
  PROVE  /\ s \in Seq(Blocks) /\ Len(s) = n /\ s \in Prefixes(v) /\ s \in Contents
         /\ n = Size[v] => s = Whole(v)
         /\ n = 0 => s = <<>>
<1>1. Size[v] \in Nat
  BY TargetFilesAssumption
<1>2. \A i \in 1..Size[v] : <<v, i>> \in Blocks
  BY <1>1 DEF Blocks
<1>3. Whole(v) \in Seq(Blocks) /\ Len(Whole(v)) = Size[v]
  BY <1>1, <1>2 DEF Whole
<1>4. s \in Seq(Blocks) /\ Len(s) = n /\ \A i \in 1..n : s[i] = Whole(v)[i]
  BY <1>1, <1>3
<1>5. s \in Prefixes(v) /\ s \in Contents
  BY DEF Prefixes, Contents
<1>6. n = Size[v] => s = Whole(v)
  BY <1>1, <1>3, <1>4
<1>7. n = 0 => s = <<>>
  BY <1>4
<1>. QED
  BY <1>4, <1>5, <1>6, <1>7

LEMMA WholeFacts ==
  ASSUME NEW v \in Versions
  PROVE  /\ Whole(v) \in Prefixes(v) /\ Whole(v) \in Contents
         /\ <<>> \in Prefixes(v) /\ <<>> \in Contents
<1>1. Size[v] \in Nat /\ 0 \in 0..Size[v] /\ Size[v] \in 0..Size[v]
  BY TargetFilesAssumption
<1>. QED
  BY <1>1, PrefixFacts

LEMMA Longer ==
  ASSUME NEW v \in Versions, NEW s \in Prefixes(v), Len(s) < Size[v]
  PROVE  SubSeq(Whole(v), 1, Len(s) + 1) \in Prefixes(v) \cap Contents
<1>1. PICK n \in 0..Size[v] : s = SubSeq(Whole(v), 1, n)
  BY DEF Prefixes
<1>2. Len(s) = n /\ Size[v] \in Nat
  BY <1>1, PrefixFacts, TargetFilesAssumption
<1>3. Len(s) + 1 \in 0..Size[v]
  BY <1>2
<1>. QED
  BY <1>3, PrefixFacts

LEMMA ContentsAreSequences == Contents \subseteq Seq(Blocks)
<1> SUFFICES ASSUME NEW s \in Contents PROVE s \in Seq(Blocks)
  OBVIOUS
<1>1. PICK v \in Versions : s \in Prefixes(v)
  BY DEF Contents
<1>2. PICK n \in 0..Size[v] : s = SubSeq(Whole(v), 1, n)
  BY <1>1 DEF Prefixes
<1>. QED
  BY <1>2, PrefixFacts

LEMMA PrefixesAreContents ==
  ASSUME NEW v \in Versions PROVE Prefixes(v) \subseteq Contents
BY DEF Contents

LEMMA SameSequence ==
  ASSUME NEW s \in Seq(Blocks), NEW t \in Seq(Blocks), Len(s) = Len(t),
         \A i \in 1..Len(s) : s[i] = t[i]
  PROVE  s = t
OBVIOUS

LEMMA NoBlocks ==
  ASSUME NEW s \in Seq(Blocks), Len(s) = 0
  PROVE  s = <<>>
OBVIOUS

(* What a request is about.                                                  *)
LEMMA RequestFacts ==
  ASSUME NEW r \in Requests
  PROVE  /\ r.op \in {"read", "write", "remove", "rename"} /\ r.path \in Paths
         /\ r.op = "write" => r.version \in Versions
         /\ r.op = "rename" => r.to \in Paths
BY DEF Requests

-----------------------------------------------------------------------------
(* What a step of one client leaves of the others.                           *)
SeenKept(q) ==
    \/ files' = files /\ seen'[q] = seen[q]
    \/ ~Reading(q) /\ seen'[q] = seen[q]
    \/ Reading(q) /\ seen'[q] = seen[q] \cup {files'[call[q].path]}

Untouched(q) ==
    /\ pc'[q] = pc[q] /\ call'[q] = call[q] /\ tmps'[q] = tmps[q] /\ got'[q] = got[q]
    /\ want'[q] = want[q] /\ answer'[q] = answer[q] /\ placed'[q] = placed[q]
    /\ torn'[q] = torn[q] /\ SeenKept(q)

\* What is torn stays so, and only a shell's upload gets there.
TornKept ==
    \A q \in Clients : torn[q] \subseteq torn'[q] /\ (Posix(q) \/ torn'[q] = torn[q])

Elsewhere(c) ==
    /\ killed \subseteq killed'
    /\ \A q \in Clients \ {c} : Untouched(q)

LEMMA UntouchedKeeps ==
  ASSUME IInv, NEW q \in Clients, Untouched(q), killed \subseteq killed'
  PROVE  ClientOK(q)'
<1>1. /\ pc'[q] = pc[q] /\ call'[q] = call[q] /\ tmps'[q] = tmps[q] /\ got'[q] = got[q]
      /\ want'[q] = want[q] /\ answer'[q] = answer[q] /\ placed'[q] = placed[q]
      /\ torn'[q] = torn[q] /\ SeenKept(q) /\ killed \subseteq killed'
  BY DEF Untouched
<1>2. OpOK(q) /\ TmpOK(q) /\ PlacedOK(q) /\ ReadOK(q)
  BY DEF IInv, ClientOK
<1>3. OpOK(q)'
  BY <1>1, <1>2 DEF OpOK, Posix
<1>4. TmpOK(q)'
  BY <1>1, <1>2 DEF TmpOK, Whole, Prefixes
<1>5. PlacedOK(q)'
  BY <1>1, <1>2 DEF PlacedOK, Incoming, Whole
<1>6. ReadOK(q)'
  <2>1. seen[q] \subseteq seen'[q] /\ (Reading(q)' <=> Reading(q))
    BY <1>1 DEF SeenKept, Reading
  <2>2. Reading(q) => File(q)' \in seen'[q]
    BY <1>1, <1>2 DEF SeenKept, ReadOK, File
  <2>3. \A s : Reading(q) /\ seen'[q] = {s} => seen[q] = {s}
    BY <1>2, <2>1 DEF ReadOK
  <2>4. ~Reading(q) => seen'[q] = seen[q]
    BY <1>1 DEF SeenKept
  <2>5. call[q].op = "read" => \A i \in DOMAIN got[q] :
            \E s \in seen'[q] \ {Absent} : i \in DOMAIN s /\ s[i] = got[q][i]
    BY <1>2, <2>1 DEF ReadOK
  <2>6. \A s : Reading(q) /\ seen'[q] = {s} =>
            /\ got[q] # <<>> => s # Absent
            /\ s # Absent => /\ Len(got[q]) <= Len(s)
                             /\ \A i \in 1..Len(got[q]) : got[q][i] = s[i]
            /\ pc[q] \in {"test", "fetch"} /\ Posix(q) =>
                 s # Absent /\ want[q] = Len(s) /\ (want[q] = 0 \/ Len(got[q]) < want[q])
    BY <1>2, <2>3 DEF ReadOK
  <2>7. call[q].op = "read" /\ pc[q] = "idle" =>
            /\ answer[q] = "notfound" => Absent \in seen'[q]
            /\ \A s : answer[q] = "ok" /\ seen'[q] = {s} => got[q] = s
    BY <1>2, <2>4 DEF ReadOK, Reading
  <2>8. call[q].op = "read" /\ pc[q] \in {"frame", "stat"} => got[q] = <<>>
    BY <1>2 DEF ReadOK
  <2>9. (Posix(q))' <=> Posix(q)
    BY DEF Posix
  <2>10. \A s : Reading(q)' /\ seen'[q] = {s} =>
            /\ got'[q] # <<>> => s # Absent
            /\ s # Absent => /\ Len(got'[q]) <= Len(s)
                             /\ \A i \in 1..Len(got'[q]) : got'[q][i] = s[i]
            /\ pc'[q] \in {"test", "fetch"} /\ (Posix(q))' =>
                 s # Absent /\ want'[q] = Len(s) /\ (want'[q] = 0 \/ Len(got'[q]) < want'[q])
    BY <1>1, <2>1, <2>6, <2>9
  <2>11. call'[q].op = "read" => \A i \in DOMAIN got'[q] :
            \E s \in seen'[q] \ {Absent} : i \in DOMAIN s /\ s[i] = got'[q][i]
    BY <1>1, <2>5
  <2>12. call'[q].op = "read" /\ pc'[q] = "idle" =>
            /\ answer'[q] = "notfound" => Absent \in seen'[q]
            /\ \A s : answer'[q] = "ok" /\ seen'[q] = {s} => got'[q] = s
    BY <1>1, <2>7
  <2>. QED
    BY <1>1, <2>1, <2>2, <2>8, <2>10, <2>11, <2>12 DEF ReadOK
<1>. QED
  BY <1>3, <1>4, <1>5, <1>6 DEF ClientOK

LEMMA Assemble ==
  ASSUME IInv, NEW c \in Clients, Elsewhere(c), Shapes', ClientOK(c)', WholeUnlessTorn'
  PROVE  IInv'
<1>1. \A q \in Clients : ClientOK(q)'
  BY UntouchedKeeps DEF Elsewhere
<1>. QED
  BY <1>1 DEF IInv

LEMMA FilesMoved ==
  ASSUME IInv, TornKept,
         \A p \in Paths : files'[p] = Absent \/ \E q \in Paths : files'[p] = files[q]
  PROVE  WholeUnlessTorn'
<1>1. WholeUnlessTorn
  BY DEF IInv
<1>2. ASSUME NEW p \in Paths
      PROVE  \/ files'[p] = Absent
             \/ \E v \in Versions : files'[p] = Whole(v)
             \/ \E c \in Clients : files'[p] \in torn'[c]
  <2>1. CASE files'[p] = Absent
    BY <2>1
  <2>2. ASSUME NEW q \in Paths, files'[p] = files[q]
        PROVE  \/ files'[p] = Absent
               \/ \E v \in Versions : files'[p] = Whole(v)
               \/ \E c \in Clients : files'[p] \in torn'[c]
    <3>1. \/ files[q] = Absent
          \/ \E v \in Versions : files[q] = Whole(v)
          \/ \E c \in Clients : files[q] \in torn[c]
      BY <1>1, Zenon DEF WholeUnlessTorn
    <3>2. \A c \in Clients : torn[c] \subseteq torn'[c]
      BY DEF TornKept
    <3>. QED
      BY <2>2, <3>1, <3>2, Zenon
  <2>. QED
    BY <2>1, <2>2
<1>3. \A c \in Clients : torn'[c] # {} => Posix(c)
  <2>1. \A c \in Clients : torn[c] # {} => Posix(c)
    BY <1>1, Zenon DEF WholeUnlessTorn
  <2>. QED
    BY <2>1 DEF TornKept
<1>. QED
  BY <1>2, <1>3, Zenon DEF WholeUnlessTorn, Whole, Posix

LEMMA FilesStay ==
  ASSUME IInv, UNCHANGED files, TornKept
  PROVE  WholeUnlessTorn'
BY FilesMoved

LEMMA SameTorn ==
  ASSUME UNCHANGED torn
  PROVE  TornKept
BY DEF TornKept

LEMMA InitHolds == Init => IInv
<1> SUFFICES ASSUME Init PROVE IInv
  OBVIOUS
<1>1. \A p \in Paths : files[p] \in Contents /\ files[p] = Whole(Initially[p]) /\ Initially[p] \in Versions
  BY WholeFacts, TargetFilesAssumption DEF Init
<1>2. \A c \in Clients : call[c] \in Requests /\ call[c].op = "read"
  BY TargetFilesAssumption DEF Init, Requests
<1>3. Shapes
  <2>1. files \in [Paths -> Contents \cup {Absent}]
    BY <1>1 DEF Init
  <2>2. call \in [Clients -> Requests]
    BY <1>2 DEF Init
  <2>3. got \in [Clients -> Seq(Blocks)] /\ 0 \in 0..MaxFaults
    BY TargetFilesAssumption DEF Init
  <2>4. \A c \in Clients : IsFiniteSet(seen[c])
    BY FS_EmptySet DEF Init
  <2>5. torn \in [Clients -> SUBSET Contents] /\ placed \in [Clients -> Contents \cup {Absent}]
    BY DEF Init
  <2>. QED
    BY <2>1, <2>2, <2>3, <2>4, <2>5 DEF Init, Shapes
<1>4. WholeUnlessTorn
  <2>1. \A c \in Clients : torn[c] = {}
    BY DEF Init
  <2>. QED
    BY <1>1, <2>1 DEF WholeUnlessTorn
<1>5. \A c \in Clients : ClientOK(c)
  BY <1>2 DEF Init, ClientOK, OpOK, TmpOK, PlacedOK, ReadOK, Reading
<1>. QED
  BY <1>3, <1>4, <1>5 DEF IInv

-----------------------------------------------------------------------------
(* What a step has to show of its own client.                                *)
LEMMA NotAReader ==
  ASSUME NEW c \in Clients, call'[c].op # "read"
  PROVE  ReadOK(c)'
BY DEF ReadOK, Reading

LEMMA TmpAfter ==
  ASSUME NEW c \in Clients,
         tmps'[c] # Absent =>
            call'[c].op = "write" /\ tmps'[c] \in Prefixes(call'[c].version),
         pc'[c] \in {"copy", "chmod", "move"} => tmps'[c] \in Prefixes(call'[c].version),
         pc'[c] \in {"chmod", "move"} =>
            tmps'[c] = Whole(call'[c].version) \/ tmps'[c] \in torn'[c],
         pc'[c] \notin {"copy", "chmod", "move"} /\ tmps'[c] # Absent =>
            pc'[c] = "idle" /\ c \in killed'
  PROVE  TmpOK(c)'
BY DEF TmpOK, Whole, Prefixes

LEMMA ReaderWritesNothing ==
  ASSUME IInv, NEW c \in Clients, call[c].op = "read", pc[c] # "idle",
         UNCHANGED <<call, tmps, placed>>,
         pc'[c] \in {"idle", "stat", "test", "fetch"},
         pc'[c] \in {"stat", "test"} => Posix(c)
  PROVE  OpOK(c)' /\ TmpOK(c)' /\ PlacedOK(c)'
<1>1. OpOK(c) /\ TmpOK(c) /\ PlacedOK(c)
  BY DEF IInv, ClientOK
<1>2. OpOK(c)'
  BY DEF OpOK, Posix
<1>3. TmpOK(c)'
  BY <1>1 DEF TmpOK
<1>4. PlacedOK(c)'
  BY <1>1 DEF PlacedOK
<1>. QED
  BY <1>2, <1>3, <1>4

LEMMA OpenTmpKeeps ==
  ASSUME IInv, NEW c \in Clients, OpenTmp(c)
  PROVE  IInv'
<1>0. Shapes /\ OpOK(c) /\ TmpOK(c) /\ PlacedOK(c) /\ ReadOK(c)
  BY DEF IInv, ClientOK
<1>v. call[c].op = "write" /\ call[c].version \in Versions
  BY <1>0, RequestFacts DEF Shapes, OpOK, OpenTmp, At
<1>1. Shapes'
  BY <1>0, <1>v, WholeFacts DEF Shapes, OpenTmp, At, Go
<1>2. Elsewhere(c)
  BY <1>0 DEF Shapes, Elsewhere, Untouched, SeenKept, OpenTmp, At, Go
<1>3. OpOK(c)'
  BY <1>0 DEF Shapes, OpOK, Posix, OpenTmp, At, Go
<1>4. TmpOK(c)'
  <2>1. /\ call[c].op = "write" /\ call'[c] = call[c]
        /\ pc'[c] = "copy" /\ tmps'[c] = <<>>
    BY <1>0, <1>v DEF Shapes, OpenTmp, At, Go
  <2>. QED
    BY <1>v, <2>1, WholeFacts, TmpAfter
<1>5. PlacedOK(c)'
  BY <1>0 DEF Shapes, PlacedOK, OpenTmp, At, Go
<1>6. ReadOK(c)'
  BY <1>0, NotAReader DEF OpOK, OpenTmp, At, Go
<1>7. WholeUnlessTorn'
  BY FilesStay, SameTorn DEF OpenTmp, At, Go
<1>. QED
  BY <1>1, <1>2, <1>3, <1>4, <1>5, <1>6, <1>7, Assemble DEF ClientOK

LEMMA CopyKeeps ==
  ASSUME IInv, NEW c \in Clients, Copy(c)
  PROVE  IInv'
<1>0. Shapes /\ OpOK(c) /\ TmpOK(c) /\ PlacedOK(c) /\ ReadOK(c)
  BY DEF IInv, ClientOK
<1>v. /\ call[c].op = "write" /\ call[c].version \in Versions /\ pc[c] = "copy"
      /\ tmps[c] \in Prefixes(call[c].version)
  BY <1>0, RequestFacts DEF Shapes, OpOK, TmpOK, Copy, At
<1>w. PICK new \in Prefixes(call[c].version) \cap Contents : tmps' = [tmps EXCEPT ![c] = new]
  BY <1>v, Longer DEF Copy, Incoming
<1>1. Shapes'
  <2>1. tmps' \in [Clients -> Contents \cup {Absent}]
    BY <1>0, <1>w DEF Shapes
  <2>2. UNCHANGED <<files, call, pc, got, want, gone, answer, faults, torn, placed, killed, seen>>
    BY DEF Copy
  <2>. QED
    BY <1>0, <2>1, <2>2 DEF Shapes
<1>2. Elsewhere(c)
  BY <1>0 DEF Shapes, Elsewhere, Untouched, SeenKept, Copy, At, Go
<1>3. OpOK(c)'
  BY <1>0 DEF Shapes, OpOK, Posix, Copy, At, Go
<1>4. TmpOK(c)'
  <2>1. call'[c] = call[c] /\ pc'[c] = "copy" /\ tmps'[c] = new
    BY <1>0, <1>v, <1>w DEF Shapes, Copy
  <2>. QED
    BY <1>v, <2>1, TmpAfter
<1>5. PlacedOK(c)'
  BY <1>0 DEF Shapes, PlacedOK, Copy, At, Go
<1>6. ReadOK(c)'
  BY <1>0, NotAReader DEF OpOK, Copy, At, Go
<1>7. WholeUnlessTorn'
  BY FilesStay, SameTorn DEF Copy, At, Go
<1>. QED
  BY <1>1, <1>2, <1>3, <1>4, <1>5, <1>6, <1>7, Assemble DEF ClientOK

\* An upload that ends with a part of its payload: of a shell, and recorded.
LEMMA TearsFacts ==
  ASSUME IInv, NEW c \in Clients, pc[c] = "copy", UNCHANGED torn \/ (Posix(c) /\ Tears(c))
  PROVE  /\ TornKept /\ torn' \in [Clients -> SUBSET Contents]
         /\ \A q \in Clients \ {c} : torn'[q] = torn[q]
         /\ torn' = torn \/ tmps[c] \in torn'[c]
<1>1. Shapes /\ OpOK(c) /\ TmpOK(c)
  BY DEF IInv, ClientOK
<1>2. call[c].version \in Versions /\ tmps[c] \in Prefixes(call[c].version)
  BY <1>1, RequestFacts DEF Shapes, OpOK, TmpOK
<1>3. tmps[c] \in Contents
  BY <1>2, PrefixesAreContents
<1>4. CASE UNCHANGED torn
  BY <1>1, <1>4 DEF Shapes, TornKept
<1>5. CASE Posix(c) /\ Tears(c)
  <2>1. torn' = [torn EXCEPT ![c] = torn[c] \cup {tmps[c]}] /\ torn \in [Clients -> SUBSET Contents]
    BY <1>1, <1>5 DEF Shapes, Tears
  <2>2. torn[c] \cup {tmps[c]} \in SUBSET Contents
    BY <1>3, <2>1
  <2>3. /\ torn' \in [Clients -> SUBSET Contents] /\ torn'[c] = torn[c] \cup {tmps[c]}
        /\ \A q \in Clients \ {c} : torn'[q] = torn[q]
    BY <2>1, <2>2
  <2>. QED
    BY <1>5, <2>3 DEF TornKept
<1>. QED
  BY <1>4, <1>5

LEMMA EndOfInputKeeps ==
  ASSUME IInv, NEW c \in Clients, EndOfInput(c)
  PROVE  IInv'
<1>0. Shapes /\ OpOK(c) /\ TmpOK(c) /\ PlacedOK(c) /\ ReadOK(c)
  BY DEF IInv, ClientOK
<1>t. /\ TornKept /\ torn' \in [Clients -> SUBSET Contents]
      /\ \A q \in Clients \ {c} : torn'[q] = torn[q]
  BY TearsFacts DEF EndOfInput, At
<1>1. Shapes'
  BY <1>0, <1>t DEF Shapes, EndOfInput, At, Go
<1>2. Elsewhere(c)
  BY <1>0, <1>t DEF Shapes, Elsewhere, Untouched, SeenKept, EndOfInput, At, Go
<1>3. OpOK(c)'
  BY <1>0 DEF Shapes, OpOK, Posix, EndOfInput, At, Go
<1>4. TmpOK(c)'
  <2>1. /\ call'[c] = call[c] /\ pc[c] = "copy" /\ pc'[c] = "chmod" /\ tmps'[c] = tmps[c]
        /\ tmps[c] = Whole(call[c].version) \/ tmps[c] \in torn'[c]
    BY <1>0 DEF Shapes, Incoming, EndOfInput, Tears, At, Go
  <2>2. call[c].op = "write" /\ tmps[c] \in Prefixes(call[c].version)
    BY <1>0, <2>1 DEF OpOK, TmpOK
  <2>. QED
    BY <2>1, <2>2, TmpAfter
<1>5. PlacedOK(c)'
  BY <1>0 DEF Shapes, PlacedOK, EndOfInput, At, Go
<1>6. ReadOK(c)'
  BY <1>0, NotAReader DEF OpOK, EndOfInput, At, Go
<1>7. WholeUnlessTorn'
  BY <1>t, FilesStay DEF EndOfInput
<1>. QED
  BY <1>1, <1>2, <1>3, <1>4, <1>5, <1>6, <1>7, Assemble DEF ClientOK

LEMMA ChmodKeeps ==
  ASSUME IInv, NEW c \in Clients, Chmod(c)
  PROVE  IInv'
<1>0. Shapes /\ OpOK(c) /\ TmpOK(c) /\ PlacedOK(c) /\ ReadOK(c)
  BY DEF IInv, ClientOK
<1>1. Shapes'
  BY <1>0 DEF Shapes, Chmod, At, Go
<1>2. Elsewhere(c)
  BY <1>0 DEF Shapes, Elsewhere, Untouched, SeenKept, Chmod, At, Go
<1>3. OpOK(c)'
  BY <1>0 DEF Shapes, OpOK, Posix, Chmod, At, Go
<1>4. TmpOK(c)'
  <2>1. /\ call'[c] = call[c] /\ pc[c] = "chmod" /\ pc'[c] = "move" /\ tmps'[c] = tmps[c]
        /\ torn' = torn
    BY <1>0 DEF Shapes, Chmod, At, Go
  <2>2. /\ call[c].op = "write" /\ tmps[c] \in Prefixes(call[c].version)
        /\ tmps[c] = Whole(call[c].version) \/ tmps[c] \in torn[c]
    BY <1>0, <2>1 DEF OpOK, TmpOK
  <2>. QED
    BY <2>1, <2>2, TmpAfter
<1>5. PlacedOK(c)'
  BY <1>0 DEF Shapes, PlacedOK, Chmod, At, Go
<1>6. ReadOK(c)'
  BY <1>0, NotAReader DEF OpOK, Chmod, At, Go
<1>7. WholeUnlessTorn'
  BY FilesStay, SameTorn DEF Chmod, At, Go
<1>. QED
  BY <1>1, <1>2, <1>3, <1>4, <1>5, <1>6, <1>7, Assemble DEF ClientOK

LEMMA StepFailsKeeps ==
  ASSUME IInv, NEW c \in Clients, StepFails(c)
  PROVE  IInv'
<1>0. Shapes /\ OpOK(c) /\ TmpOK(c) /\ PlacedOK(c) /\ ReadOK(c)
  BY DEF IInv, ClientOK
<1>1. Shapes'
  BY <1>0, TargetFilesAssumption DEF Shapes, StepFails, Ends, At, Go, Answer, Fault
<1>2. Elsewhere(c)
  BY <1>0 DEF Shapes, Elsewhere, Untouched, SeenKept, StepFails, Ends, At, Go, Answer, Fault
<1>3. OpOK(c)'
  BY <1>0 DEF Shapes, OpOK, Posix, StepFails, Ends, At, Go, Answer, Fault
<1>4. TmpOK(c)'
  BY <1>0 DEF Shapes, OpOK, TmpOK, Whole, Prefixes, StepFails, Ends, At, Go, Answer, Fault
<1>5. PlacedOK(c)'
  BY <1>0 DEF Shapes, PlacedOK, StepFails, Ends, At, Go, Answer, Fault
<1>6. ReadOK(c)'
  BY <1>0, NotAReader DEF OpOK, StepFails, Ends, At, Go, Answer, Fault
<1>7. WholeUnlessTorn'
  BY FilesStay, SameTorn DEF StepFails, Ends, At, Go, Answer, Fault
<1>. QED
  BY <1>1, <1>2, <1>3, <1>4, <1>5, <1>6, <1>7, Assemble DEF ClientOK

LEMMA ShellGoesOnKeeps ==
  ASSUME IInv, NEW c \in Clients, ShellGoesOn(c)
  PROVE  IInv'
<1>0. Shapes /\ OpOK(c) /\ TmpOK(c) /\ PlacedOK(c) /\ ReadOK(c)
  BY DEF IInv, ClientOK
<1>a. /\ Posix(c)
      /\ \/ pc[c] = "copy" /\ pc' = [pc EXCEPT ![c] = "chmod"] /\ Tears(c)
         \/ pc[c] = "chmod" /\ pc' = [pc EXCEPT ![c] = "move"] /\ UNCHANGED torn
      /\ faults' \in 0..MaxFaults
      /\ UNCHANGED <<files, tmps, call, got, want, gone, answer, calls, placed, killed, seen>>
  BY <1>0, TargetFilesAssumption DEF Shapes, ShellGoesOn, At, Go, Fault
<1>t. /\ TornKept /\ torn' \in [Clients -> SUBSET Contents]
      /\ \A q \in Clients \ {c} : torn'[q] = torn[q]
      /\ pc[c] = "copy" => tmps[c] \in torn'[c]
  <2>1. CASE pc[c] = "copy"
    <3>1. tmps[c] \in torn'[c]
      BY <1>0, <1>a, <2>1 DEF Shapes, Tears
    <3>. QED
      BY <1>a, <2>1, <3>1, TearsFacts
  <2>2. CASE pc[c] # "copy"
    BY <1>0, <1>a, <2>2, SameTorn DEF Shapes
  <2>. QED
    BY <2>1, <2>2
<1>1. Shapes'
  BY <1>0, <1>a, <1>t DEF Shapes
<1>2. Elsewhere(c)
  BY <1>0, <1>a, <1>t DEF Shapes, Elsewhere, Untouched, SeenKept
<1>3. OpOK(c)'
  BY <1>0, <1>a DEF Shapes, OpOK, Posix
<1>4. TmpOK(c)'
  <2>1. /\ call[c].op = "write" /\ tmps[c] \in Prefixes(call[c].version)
        /\ pc[c] = "chmod" => tmps[c] = Whole(call[c].version) \/ tmps[c] \in torn[c]
    BY <1>0, <1>a DEF OpOK, TmpOK
  <2>2. tmps[c] = Whole(call[c].version) \/ tmps[c] \in torn'[c]
    BY <1>a, <1>t, <2>1
  <2>3. call'[c] = call[c] /\ tmps'[c] = tmps[c] /\ pc'[c] \in {"chmod", "move"}
    BY <1>0, <1>a DEF Shapes
  <2>. QED
    BY <2>1, <2>2, <2>3, TmpAfter
<1>5. PlacedOK(c)'
  BY <1>0, <1>a DEF Shapes, PlacedOK
<1>6. ReadOK(c)'
  BY <1>0, <1>a, NotAReader DEF OpOK
<1>7. WholeUnlessTorn'
  BY <1>a, <1>t, FilesStay
<1>. QED
  BY <1>1, <1>2, <1>3, <1>4, <1>5, <1>6, <1>7, Assemble DEF ClientOK

LEMMA ReadFrameKeeps ==
  ASSUME IInv, NEW c \in Clients, ReadFrame(c)
  PROVE  IInv'
<1>0. Shapes /\ OpOK(c) /\ TmpOK(c) /\ PlacedOK(c) /\ ReadOK(c)
  BY DEF IInv, ClientOK
<1>v. call[c].op \in {"read", "write", "remove", "rename"}
  BY <1>0, RequestFacts DEF Shapes
<1>1. Shapes'
  BY <1>0 DEF Shapes, ReadFrame, At, Go
<1>2. Elsewhere(c)
  BY <1>0 DEF Shapes, Elsewhere, Untouched, SeenKept, ReadFrame, At, Go
<1>3. OpOK(c)'
  BY <1>0, <1>v DEF Shapes, OpOK, Posix, ReadFrame, At, Go
<1>4. TmpOK(c)'
  BY <1>0 DEF Shapes, OpOK, TmpOK, Whole, Prefixes, ReadFrame, At, Go
<1>5. PlacedOK(c)'
  BY <1>0 DEF Shapes, PlacedOK, ReadFrame, At, Go
<1>6. ReadOK(c)'
  <2>1. CASE call[c].op = "read"
    <3>1. /\ call'[c] = call[c] /\ files' = files /\ got'[c] = got[c] /\ seen'[c] = seen[c]
          /\ pc[c] = "frame" /\ pc'[c] = "fetch" /\ ~Posix(c)
      BY <1>0, <2>1 DEF Shapes, OpOK, ReadFrame, At, Go
    <3>. QED
      BY <1>0, <2>1, <3>1 DEF ReadOK, Reading, File, Posix
  <2>2. CASE call[c].op # "read"
    BY <2>2, NotAReader DEF ReadFrame
  <2>. QED
    BY <2>1, <2>2
<1>7. WholeUnlessTorn'
  BY FilesStay, SameTorn DEF ReadFrame, At, Go
<1>. QED
  BY <1>1, <1>2, <1>3, <1>4, <1>5, <1>6, <1>7, Assemble DEF ClientOK

LEMMA KilledKeeps ==
  ASSUME IInv, NEW c \in Clients, Killed(c)
  PROVE  IInv'
<1>0. Shapes /\ OpOK(c) /\ TmpOK(c) /\ PlacedOK(c) /\ ReadOK(c)
  BY DEF IInv, ClientOK
<1>1. Shapes'
  BY <1>0, TargetFilesAssumption DEF Shapes, Killed, At, Go, Fault
<1>2. Elsewhere(c)
  BY <1>0 DEF Shapes, Elsewhere, Untouched, SeenKept, Killed, At, Go, Fault
<1>3. OpOK(c)'
  BY <1>0 DEF Shapes, OpOK, Posix, Killed, At, Go, Fault
<1>4. TmpOK(c)'
  <2>1. /\ call'[c] = call[c] /\ pc'[c] = "idle" /\ tmps'[c] = tmps[c] /\ c \in killed'
        /\ call[c].op = "write"
    BY <1>0 DEF Shapes, OpOK, Killed, At, Go
  <2>2. tmps[c] # Absent => tmps[c] \in Prefixes(call[c].version)
    BY <1>0 DEF TmpOK
  <2>. QED
    BY <2>1, <2>2, TmpAfter
<1>5. PlacedOK(c)'
  BY <1>0 DEF Shapes, PlacedOK, Killed, At, Go, Fault
<1>6. ReadOK(c)'
  BY <1>0, NotAReader DEF OpOK, Killed, At, Go, Fault
<1>7. WholeUnlessTorn'
  BY FilesStay, SameTorn DEF Killed, At, Go, Fault
<1>. QED
  BY <1>1, <1>2, <1>3, <1>4, <1>5, <1>6, <1>7, Assemble DEF ClientOK

LEMMA CutKeeps ==
  ASSUME IInv, NEW c \in Clients, Cut(c)
  PROVE  IInv'
<1>0. Shapes /\ OpOK(c) /\ TmpOK(c) /\ PlacedOK(c) /\ ReadOK(c)
  BY DEF IInv, ClientOK
<1>1. Shapes'
  BY <1>0, TargetFilesAssumption DEF Shapes, Cut, At, Go, Fault
<1>2. Elsewhere(c)
  BY <1>0 DEF Shapes, Elsewhere, Untouched, SeenKept, Cut, At, Go, Fault
<1>3. OpOK(c)'
  BY <1>0 DEF Shapes, OpOK, Posix, Reading, Cut, At, Go
<1>4. TmpOK(c)'
  <2>1. /\ call'[c] = call[c] /\ tmps'[c] = tmps[c] /\ torn' = torn /\ killed' = killed
        /\ pc[c] # "idle"
        /\ \/ pc'[c] = pc[c]
           \/ pc'[c] = "idle" /\ (pc[c] = "frame" \/ call[c].op = "read")
    BY <1>0 DEF Shapes, Reading, Cut, At, Go
  <2>2. CASE pc'[c] = pc[c]
    BY <1>0, <2>1, <2>2, TmpAfter DEF TmpOK
  <2>3. CASE pc'[c] = "idle" /\ (pc[c] = "frame" \/ call[c].op = "read")
    <3>1. tmps[c] = Absent
      BY <1>0, <2>1, <2>3 DEF TmpOK
    <3>. QED
      BY <2>1, <2>3, <3>1, TmpAfter
  <2>. QED
    BY <2>1, <2>2, <2>3
<1>5. PlacedOK(c)'
  BY <1>0 DEF Shapes, PlacedOK, Cut, At, Go, Fault
<1>6. ReadOK(c)'
  <2>1. CASE call[c].op = "read"
    <3>1. /\ pc'[c] = "idle" /\ answer'[c] = "lost" /\ ~Reading(c)'
          /\ UNCHANGED <<call, got, seen>>
      BY <1>0, <2>1 DEF Shapes, Reading, Cut, At, Go
    <3>. QED
      BY <1>0, <3>1 DEF ReadOK
  <2>2. CASE call[c].op # "read"
    BY <2>2, NotAReader DEF Cut
  <2>. QED
    BY <2>1, <2>2
<1>7. WholeUnlessTorn'
  BY FilesStay, SameTorn DEF Cut, At, Go, Fault
<1>. QED
  BY <1>1, <1>2, <1>3, <1>4, <1>5, <1>6, <1>7, Assemble DEF ClientOK

-----------------------------------------------------------------------------
(* A read.                                                                   *)
LEMMA StartKeeps ==
  ASSUME IInv, NEW c \in Clients, NEW r \in Requests, Start(c, r)
  PROVE  IInv'
<1>0. Shapes /\ TmpOK(c) /\ PlacedOK(c)
  BY DEF IInv, ClientOK
<1>r. r.op \in {"read", "write", "remove", "rename"} /\ r.path \in Paths
  BY RequestFacts
<1>a. /\ pc[c] = "idle" /\ c \notin gone
      /\ call' = [call EXCEPT ![c] = r] /\ got' = [got EXCEPT ![c] = <<>>]
      /\ seen' = [seen EXCEPT ![c] = IF r.op = "read" THEN {files[r.path]} ELSE {}]
      /\ want' = [want EXCEPT ![c] = 0]
      /\ answer' = [answer EXCEPT ![c] = "none"]
      /\ placed' = [placed EXCEPT ![c] = Absent]
      /\ UNCHANGED <<files, tmps, gone, faults, torn, killed>>
  BY DEF Start, At
<1>b. PICK where \in {"frame", "open", "stat", "apply"} :
        /\ pc' = [pc EXCEPT ![c] = where]
        /\ where = "frame" <=> ~Posix(c)
        /\ where = "open" => r.op = "write"
        /\ where = "stat" => r.op = "read"
        /\ where = "apply" => r.op \in {"remove", "rename"}
  <2>1. CASE ~Posix(c)
    BY <2>1 DEF Start, Go
  <2>2. CASE Posix(c) /\ r.op = "write"
    BY <2>2 DEF Start, Go
  <2>3. CASE Posix(c) /\ r.op = "read"
    BY <2>3 DEF Start, Go
  <2>4. CASE Posix(c) /\ r.op \in {"remove", "rename"}
    BY <2>4 DEF Start, Go
  <2>. QED
    BY <1>r, <2>1, <2>2, <2>3, <2>4
<1>1. Shapes'
  <2>1. files[r.path] \in Contents \cup {Absent} /\ <<>> \in Seq(Blocks)
    BY <1>0, <1>r DEF Shapes
  <2>2. \A q \in Clients : IsFiniteSet(seen'[q])
    BY <1>0, <1>a, FS_Singleton, FS_EmptySet DEF Shapes
  <2>. QED
    BY <1>0, <1>a, <1>b, <2>1, <2>2 DEF Shapes
<1>2. Elsewhere(c)
  BY <1>0, <1>a, <1>b DEF Shapes, Elsewhere, Untouched, SeenKept
<1>c. pc'[c] = where /\ call'[c] = r /\ tmps'[c] = tmps[c] /\ got'[c] = <<>>
      /\ seen'[c] = IF r.op = "read" THEN {files'[r.path]} ELSE {}
  BY <1>0, <1>a, <1>b DEF Shapes
<1>3. OpOK(c)'
  BY <1>b, <1>c DEF OpOK, Posix
<1>4. TmpOK(c)'
  <2>1. tmps[c] = Absent
    BY <1>0, <1>a DEF TmpOK, Shapes
  <2>. QED
    BY <1>b, <1>c, <2>1, TmpAfter
<1>5. PlacedOK(c)'
  BY <1>0, <1>a, <1>b, <1>c DEF Shapes, PlacedOK
<1>6. ReadOK(c)'
  <2>0. CASE r.op # "read"
    BY <1>c, <2>0, NotAReader
  <2>r. CASE r.op = "read"
    <3>1. \A s : seen'[c] = {s} => s \in Seq(Blocks) \cup {Absent}
      <4>1. files[r.path] \in Seq(Blocks) \cup {Absent}
        BY <1>0, <1>r, ContentsAreSequences DEF Shapes
      <4>2. seen'[c] = {files[r.path]}
        BY <1>a, <1>c, <2>r
      <4>. QED
        BY <4>1, <4>2
    <3>2. \A s : seen'[c] = {s} /\ s # Absent => Len(<<>>) <= Len(s)
      BY <3>1
    <3>3. pc'[c] \notin {"idle", "test", "fetch"} /\ File(c)' \in seen'[c]
      BY <1>b, <1>c, <2>r DEF File
    <3>4. DOMAIN got'[c] = {} /\ 1..Len(got'[c]) = {}
      BY <1>c
    <3>. QED
      BY <1>c, <2>r, <3>2, <3>3, <3>4 DEF ReadOK
  <2>. QED
    BY <2>0, <2>r
<1>7. WholeUnlessTorn'
  BY <1>a, FilesStay, SameTorn
<1>. QED
  BY <1>1, <1>2, <1>3, <1>4, <1>5, <1>6, <1>7, Assemble DEF ClientOK

LEMMA StatKeeps ==
  ASSUME IInv, NEW c \in Clients, Stat(c)
  PROVE  IInv'
<1>0. Shapes /\ OpOK(c) /\ ReadOK(c)
  BY DEF IInv, ClientOK
<1>r. call[c].op = "read" /\ pc[c] = "stat" /\ pc'[c] \in {"idle", "test"} /\ Posix(c)
  BY <1>0 DEF Shapes, OpOK, Stat, At, Go, Answer
<1>f. File(c) \in seen[c] /\ File(c) \in Contents \cup {Absent}
  BY <1>0, <1>r, RequestFacts DEF ReadOK, Reading, File, Shapes
<1>l. File(c) # Absent => Len(File(c)) \in Nat /\ File(c) \in Seq(Blocks)
  BY <1>f, ContentsAreSequences
<1>1. Shapes'
  <2>1. /\ want' \in [Clients -> Nat]
        /\ pc' = [pc EXCEPT ![c] = "idle"] \/ pc' = [pc EXCEPT ![c] = "test"]
        /\ answer' \in [Clients -> {"none", "ok", "error", "notfound", "lost"}]
    <3>0. /\ want \in [Clients -> Nat]
          /\ answer \in [Clients -> {"none", "ok", "error", "notfound", "lost"}]
      BY <1>0 DEF Shapes
    <3>1. CASE File(c) = Absent
      BY <3>0, <3>1 DEF Stat, Go, Answer
    <3>2. CASE File(c) # Absent
      <4>1. Len(File(c)) \in Nat
        BY <1>l, <3>2
      <4>2. /\ want' = [want EXCEPT ![c] = Len(File(c))] /\ UNCHANGED answer
            /\ pc' = [pc EXCEPT ![c] = "test"]
        BY <3>2 DEF Stat, Go
      <4>. QED
        BY <3>0, <4>1, <4>2
    <3>. QED
      BY <3>1, <3>2
  <2>2. UNCHANGED <<files, tmps, call, got, gone, faults, torn, placed, killed, seen>>
    BY DEF Stat
  <2>. QED
    BY <1>0, <2>1, <2>2 DEF Shapes
<1>2. Elsewhere(c)
  BY <1>0 DEF Shapes, Elsewhere, Untouched, SeenKept, Stat, At, Go, Answer
<1>3. OpOK(c)' /\ TmpOK(c)' /\ PlacedOK(c)'
  BY <1>r, ReaderWritesNothing DEF Stat
<1>4. ReadOK(c)'
  <2>0. /\ call'[c] = call[c] /\ files' = files /\ got'[c] = <<>> /\ seen'[c] = seen[c]
        /\ File(c)' = File(c)
    BY <1>0, <1>r DEF Shapes, ReadOK, File, Stat
  <2>1. CASE File(c) = Absent
    <3>1. pc'[c] = "idle" /\ answer'[c] \in {"lost", "notfound"}
      BY <1>0, <2>1 DEF Shapes, Stat, Go, Answer
    <3>. QED
      BY <1>f, <2>0, <2>1, <3>1 DEF ReadOK, Reading
  <2>2. CASE File(c) # Absent
    <3>1. pc'[c] = "test" /\ want'[c] = Len(File(c))
      BY <1>0, <2>2 DEF Shapes, Stat, Go
    <3>2. want'[c] = 0 \/ Len(got'[c]) < want'[c]
      BY <1>l, <2>0, <2>2, <3>1
    <3>3. DOMAIN got'[c] = {} /\ 1..Len(got'[c]) = {} /\ Len(got'[c]) <= Len(File(c))
      BY <1>l, <2>0, <2>2
    <3>4. \A s : seen'[c] = {s} => s = File(c)
      BY <1>f, <2>0
    <3>. QED
      BY <1>f, <2>0, <2>2, <3>1, <3>2, <3>3, <3>4 DEF ReadOK
  <2>. QED
    BY <2>1, <2>2
<1>5. WholeUnlessTorn'
  BY FilesStay, SameTorn DEF Stat
<1>. QED
  BY <1>1, <1>2, <1>3, <1>4, <1>5, Assemble DEF ClientOK

LEMMA TestReadableKeeps ==
  ASSUME IInv, NEW c \in Clients, TestReadable(c)
  PROVE  IInv'
<1>0. Shapes /\ OpOK(c) /\ ReadOK(c)
  BY DEF IInv, ClientOK
<1>r. call[c].op = "read" /\ pc[c] = "test" /\ pc'[c] \in {"idle", "fetch"} /\ Posix(c)
  BY <1>0 DEF Shapes, OpOK, TestReadable, At, Go, Answer
<1>f. File(c) \in seen[c]
  BY <1>0, <1>r DEF ReadOK, Reading
<1>1. Shapes'
  BY <1>0 DEF Shapes, TestReadable, At, Go, Answer
<1>2. Elsewhere(c)
  BY <1>0 DEF Shapes, Elsewhere, Untouched, SeenKept, TestReadable, At, Go, Answer
<1>3. OpOK(c)' /\ TmpOK(c)' /\ PlacedOK(c)'
  BY <1>r, ReaderWritesNothing DEF TestReadable
<1>4. ReadOK(c)'
  <2>0. /\ call'[c] = call[c] /\ files' = files /\ got'[c] = got[c] /\ seen'[c] = seen[c]
        /\ want'[c] = want[c] /\ File(c)' = File(c) /\ ((Posix(c))' <=> Posix(c))
    BY DEF File, Posix, TestReadable
  <2>1. CASE File(c) = Absent
    <3>1. pc'[c] = "idle" /\ answer'[c] \in {"lost", "notfound"}
      BY <1>0, <2>1 DEF Shapes, TestReadable, Go, Answer
    <3>. QED
      BY <1>0, <1>f, <2>0, <2>1, <3>1 DEF ReadOK, Reading
  <2>2. CASE File(c) # Absent
    <3>1. pc'[c] = "fetch" /\ Reading(c)
      BY <1>0, <1>r, <2>2 DEF Shapes, TestReadable, Go, Reading
    <3>. QED
      BY <1>0, <1>f, <1>r, <2>0, <3>1 DEF ReadOK
  <2>. QED
    BY <2>1, <2>2
<1>5. WholeUnlessTorn'
  BY FilesStay, SameTorn DEF TestReadable
<1>. QED
  BY <1>1, <1>2, <1>3, <1>4, <1>5, Assemble DEF ClientOK

(* The chunk a read is given continues what it has, in every content the     *)
(* path held alone.                                                          *)
LEMMA ChunkFacts ==
  ASSUME IInv, NEW c \in Clients, call[c].op = "read", pc[c] = "fetch"
  PROVE  /\ File(c) \in seen[c] /\ got[c] \in Seq(Blocks)
         /\ File(c) # Absent => File(c) \in Seq(Blocks)
         /\ Chunk(c) = <<>> \/ \E b \in Blocks :
              /\ Chunk(c) = <<b>> /\ File(c) # Absent
              /\ Len(got[c]) + 1 \in 1..Len(File(c)) /\ b = File(c)[Len(got[c]) + 1]
         /\ Chunk(c) = <<>> /\ File(c) # Absent => Len(File(c)) <= Len(got[c])
<1>0. Shapes /\ ReadOK(c)
  BY DEF IInv, ClientOK
<1>1. File(c) \in seen[c] /\ got[c] \in Seq(Blocks)
  BY <1>0 DEF Shapes, ReadOK, Reading
<1>2. File(c) # Absent => File(c) \in Seq(Blocks)
  BY <1>0, <1>1, ContentsAreSequences DEF Shapes
<1>. DEFINE n == Len(got[c]) + 1
<1>3. n \in Nat /\ n >= 1
  BY <1>1
<1>4. CASE File(c) = Absent \/ n > Len(File(c))
  <2>1. Chunk(c) = <<>>
    BY <1>4 DEF Chunk
  <2>. QED
    BY <1>1, <1>2, <1>4, <2>1
<1>5. CASE ~(File(c) = Absent \/ n > Len(File(c)))
  <2>1. Chunk(c) = <<File(c)[n]>>
    BY <1>5 DEF Chunk
  <2>2. n \in 1..Len(File(c)) /\ File(c)[n] \in Blocks
    BY <1>2, <1>3, <1>5
  <2>. QED
    BY <1>1, <1>2, <1>5, <2>1, <2>2
<1>. QED
  BY <1>4, <1>5

(* What a read has after a chunk was in the path, block by block.            *)
LEMMA Appended ==
  ASSUME IInv, NEW c \in Clients, call[c].op = "read", pc[c] = "fetch"
  PROVE  LET all == got[c] \o Chunk(c) IN
         /\ all \in Seq(Blocks)
         /\ \A i \in DOMAIN all : \E s \in seen[c] \ {Absent} :
                i \in DOMAIN s /\ s[i] = all[i]
         /\ Chunk(c) = <<>> => all = got[c]
         /\ Chunk(c) # <<>> => Len(all) = Len(got[c]) + 1
         /\ all # <<>> /\ got[c] = <<>> => File(c) # Absent
         /\ \A s : seen[c] = {s} /\ s # Absent =>
                Len(all) <= Len(s) /\ \A i \in 1..Len(all) : all[i] = s[i]
<1>. DEFINE all == got[c] \o Chunk(c)
<1>0. ReadOK(c)
  BY DEF IInv, ClientOK
<1>1. /\ File(c) \in seen[c] /\ got[c] \in Seq(Blocks)
      /\ File(c) # Absent => File(c) \in Seq(Blocks)
  BY ChunkFacts
<1>2. \A i \in DOMAIN got[c] : \E s \in seen[c] \ {Absent} : i \in DOMAIN s /\ s[i] = got[c][i]
  BY <1>0 DEF ReadOK
<1>3. \A s : seen[c] = {s} /\ s # Absent =>
        Len(got[c]) <= Len(s) /\ \A i \in 1..Len(got[c]) : got[c][i] = s[i]
  BY <1>0 DEF ReadOK, Reading
<1>4. CASE Chunk(c) = <<>>
  <2>1. all = got[c]
    BY <1>1, <1>4
  <2>. HIDE DEF all
  <2>2. DOMAIN all = DOMAIN got[c]
    BY <2>1
  <2>. QED
    BY <1>1, <1>2, <1>3, <1>4, <2>1 DEF all
<1>5. ASSUME NEW b \in Blocks, Chunk(c) = <<b>>, File(c) # Absent,
             Len(got[c]) + 1 \in 1..Len(File(c)), b = File(c)[Len(got[c]) + 1]
      PROVE  /\ all \in Seq(Blocks)
             /\ \A i \in DOMAIN all : \E s \in seen[c] \ {Absent} :
                    i \in DOMAIN s /\ s[i] = all[i]
             /\ Chunk(c) # <<>> /\ Len(all) = Len(got[c]) + 1
             /\ \A s : seen[c] = {s} /\ s # Absent =>
                    Len(all) <= Len(s) /\ \A i \in 1..Len(all) : all[i] = s[i]
  <2>1. /\ all \in Seq(Blocks) /\ Len(all) = Len(got[c]) + 1
        /\ all[Len(got[c]) + 1] = b
        /\ \A i \in 1..Len(got[c]) : all[i] = got[c][i]
    BY <1>1, <1>5
  <2>2. /\ DOMAIN all = 1..(Len(got[c]) + 1) /\ DOMAIN got[c] = 1..Len(got[c])
        /\ DOMAIN File(c) = 1..Len(File(c)) /\ Len(got[c]) \in Nat
    BY <1>1, <1>5, <2>1
  <2>. HIDE DEF all
  <2>3. ASSUME NEW i \in DOMAIN all
        PROVE  \E s \in seen[c] \ {Absent} : i \in DOMAIN s /\ s[i] = all[i]
    <3>1. CASE i \in 1..Len(got[c])
      BY <1>2, <2>1, <2>2, <3>1
    <3>2. CASE i = Len(got[c]) + 1
      BY <1>1, <1>5, <2>1, <2>2, <3>2
    <3>3. i \in 1..Len(got[c]) \/ i = Len(got[c]) + 1
      BY <2>2
    <3>. QED
      BY <3>1, <3>2, <3>3
  <2>4. ASSUME NEW s, seen[c] = {s}, s # Absent
        PROVE  Len(all) <= Len(s) /\ \A i \in 1..Len(all) : all[i] = s[i]
    <3>1. s = File(c)
      BY <1>1, <2>4
    <3>2. Len(all) <= Len(s)
      BY <1>1, <1>5, <2>1, <3>1
    <3>3. ASSUME NEW i \in 1..Len(all) PROVE all[i] = s[i]
      <4>1. CASE i \in 1..Len(got[c])
        BY <1>3, <2>1, <2>4, <4>1
      <4>2. CASE i = Len(got[c]) + 1
        BY <1>5, <2>1, <3>1, <4>2
      <4>. QED
        BY <2>1, <2>2, <4>1, <4>2
    <3>. QED
      BY <3>2, <3>3
  <2>5. Chunk(c) # <<>>
    BY <1>5
  <2>. QED
    BY <2>1, <2>3, <2>4, <2>5
<1>. QED
  BY <1>4, <1>5, ChunkFacts

LEMMA FetchByShellKeeps ==
  ASSUME IInv, NEW c \in Clients, FetchByShell(c)
  PROVE  IInv'
<1>. DEFINE all == got[c] \o Chunk(c)
<1>0. Shapes /\ OpOK(c) /\ ReadOK(c)
  BY DEF IInv, ClientOK
<1>r. call[c].op = "read" /\ pc[c] = "fetch" /\ Posix(c) /\ Reading(c)
  BY <1>0 DEF OpOK, Reading, FetchByShell, At
<1>a. /\ got' = [got EXCEPT ![c] = IF want[c] = 0 THEN <<>> ELSE all]
      /\ UNCHANGED <<files, tmps, call, want, gone, calls, faults, torn, placed, killed, seen>>
      /\ \/ /\ Chunk(c) # <<>> /\ Len(all) < want[c]
            /\ pc' = [pc EXCEPT ![c] = "test"] /\ answer' = answer
         \/ /\ ~(Chunk(c) # <<>> /\ Len(all) < want[c])
            /\ pc' = [pc EXCEPT ![c] = "idle"]
            /\ answer' = [answer EXCEPT ![c] = IF c \in gone THEN "lost" ELSE "ok"]
  BY DEF FetchByShell, Go, Answer
<1>b. /\ all \in Seq(Blocks) /\ <<>> \in Seq(Blocks)
      /\ \A i \in DOMAIN all : \E s \in seen[c] \ {Absent} :
            i \in DOMAIN s /\ s[i] = all[i]
      /\ Chunk(c) # <<>> => Len(all) = Len(got[c]) + 1
      /\ \A s : seen[c] = {s} /\ s # Absent =>
            Len(all) <= Len(s) /\ \A i \in 1..Len(all) : all[i] = s[i]
  BY <1>r, Appended
<1>. HIDE DEF all
<1>1. Shapes'
  BY <1>0, <1>a, <1>b DEF Shapes
<1>2. Elsewhere(c)
  BY <1>0, <1>a DEF Shapes, Elsewhere, Untouched, SeenKept
<1>c. pc'[c] \in {"test", "idle"}
  BY <1>0, <1>a DEF Shapes
<1>3. OpOK(c)' /\ TmpOK(c)' /\ PlacedOK(c)'
  BY <1>a, <1>c, <1>r, ReaderWritesNothing
<1>4. ReadOK(c)'
  <2>0. /\ call'[c] = call[c] /\ seen'[c] = seen[c] /\ want'[c] = want[c]
        /\ File(c)' = File(c) /\ ((Posix(c))' <=> Posix(c))
        /\ got'[c] = IF want[c] = 0 THEN <<>> ELSE all
    BY <1>0, <1>a DEF Shapes, File, Posix
  <2>1. /\ File(c) \in seen[c] /\ got[c] \in Seq(Blocks) /\ want[c] \in Nat
        /\ File(c) # Absent => File(c) \in Seq(Blocks)
        /\ Chunk(c) = <<>> /\ File(c) # Absent => Len(File(c)) <= Len(got[c])
    BY <1>0, <1>r, ChunkFacts DEF Shapes
  <2>2. \A i \in DOMAIN got'[c] : \E s \in seen[c] \ {Absent} :
            i \in DOMAIN s /\ s[i] = got'[c][i]
    BY <1>b, <2>0
  <2>3. ASSUME NEW s, seen[c] = {s}
        PROVE  /\ s # Absent /\ want[c] = Len(s) /\ s \in Seq(Blocks) /\ s = File(c)
               /\ want[c] = 0 \/ Len(got[c]) < want[c]
    <3>1. s # Absent /\ want[c] = Len(s) /\ (want[c] = 0 \/ Len(got[c]) < want[c])
      BY <1>0, <1>r, <2>3 DEF ReadOK
    <3>2. s = File(c)
      BY <2>1, <2>3
    <3>. QED
      BY <2>1, <3>1, <3>2
  <2>4. CASE /\ Chunk(c) # <<>> /\ Len(all) < want[c]
             /\ pc' = [pc EXCEPT ![c] = "test"] /\ answer' = answer
    <3>1. pc'[c] = "test" /\ want[c] # 0 /\ got'[c] = all
      BY <1>0, <1>b, <2>0, <2>1, <2>4 DEF Shapes
    <3>2. \A s : seen[c] = {s} =>
            /\ s # Absent /\ want[c] = Len(s) /\ Len(all) < want[c]
            /\ Len(all) <= Len(s) /\ \A i \in 1..Len(all) : all[i] = s[i]
      BY <1>b, <2>3, <2>4
    <3>. QED
      BY <2>0, <2>1, <2>2, <3>1, <3>2 DEF ReadOK
  <2>5. CASE /\ ~(Chunk(c) # <<>> /\ Len(all) < want[c])
             /\ pc' = [pc EXCEPT ![c] = "idle"]
             /\ answer' = [answer EXCEPT ![c] = IF c \in gone THEN "lost" ELSE "ok"]
    <3>1. pc'[c] = "idle" /\ answer'[c] \in {"lost", "ok"} /\ ~Reading(c)'
      BY <1>0, <2>5 DEF Shapes, Reading
    <3>2. ASSUME NEW s, seen[c] = {s}
          PROVE  got'[c] = s
      <4>1. CASE want[c] = 0
        <5>1. s \in Seq(Blocks) /\ Len(s) = 0 /\ got'[c] = <<>>
          BY <2>0, <2>3, <3>2, <4>1
        <5>2. s = <<>>
          BY <5>1, NoBlocks, Zenon
        <5>. QED
          BY <5>1, <5>2, Zenon
      <4>2. CASE want[c] # 0
        <5>1. Chunk(c) # <<>>
          <6>1. Len(got[c]) < Len(s) /\ Len(s) \in Nat /\ Len(got[c]) \in Nat
            BY <2>1, <2>3, <3>2, <4>2
          <6>2. Chunk(c) = <<>> => Len(s) <= Len(got[c])
            BY <2>1, <2>3, <3>2
          <6>. QED
            BY <6>1, <6>2
        <5>2. Len(all) <= Len(s) /\ \A i \in 1..Len(all) : all[i] = s[i]
          BY <1>b, <2>3, <3>2
        <5>3. Len(all) = Len(s)
          BY <1>b, <2>3, <2>5, <3>2, <5>1, <5>2
        <5>. QED
          BY <1>b, <2>0, <2>3, <3>2, <4>2, <5>2, <5>3, SameSequence
      <4>. QED
        BY <4>1, <4>2
    <3>. QED
      BY <2>0, <2>2, <3>1, <3>2 DEF ReadOK
  <2>. QED
    BY <1>a, <2>4, <2>5
<1>5. WholeUnlessTorn'
  BY <1>a, FilesStay, SameTorn
<1>. QED
  BY <1>1, <1>2, <1>3, <1>4, <1>5, Assemble DEF ClientOK

LEMMA FetchByHandlerKeeps ==
  ASSUME IInv, NEW c \in Clients, FetchByHandler(c)
  PROVE  IInv'
<1>. DEFINE all == got[c] \o Chunk(c)
<1>0. Shapes /\ OpOK(c) /\ ReadOK(c)
  BY DEF IInv, ClientOK
<1>r. call[c].op = "read" /\ pc[c] = "fetch" /\ ~Posix(c) /\ Reading(c)
  BY <1>0 DEF OpOK, Reading, FetchByHandler, At
<1>a. /\ got' = [got EXCEPT ![c] = all]
      /\ UNCHANGED <<files, tmps, call, want, gone, calls, faults, torn, placed, killed, seen>>
      /\ \/ /\ File(c) = Absent /\ pc' = [pc EXCEPT ![c] = "idle"]
            /\ answer' = [answer EXCEPT ![c] = IF c \in gone THEN "lost" ELSE "notfound"]
         \/ /\ File(c) # Absent /\ Chunk(c) = <<>> /\ pc' = [pc EXCEPT ![c] = "idle"]
            /\ answer' = [answer EXCEPT ![c] = IF c \in gone THEN "lost" ELSE "ok"]
         \/ /\ File(c) # Absent /\ Chunk(c) # <<>>
            /\ UNCHANGED <<pc, answer>>
  BY DEF FetchByHandler, Go, Answer
<1>b. /\ all \in Seq(Blocks)
      /\ \A i \in DOMAIN all : \E s \in seen[c] \ {Absent} :
            i \in DOMAIN s /\ s[i] = all[i]
      /\ Chunk(c) = <<>> => all = got[c]
      /\ \A s : seen[c] = {s} /\ s # Absent =>
            Len(all) <= Len(s) /\ \A i \in 1..Len(all) : all[i] = s[i]
  BY <1>r, Appended
<1>. HIDE DEF all
<1>1. Shapes'
  BY <1>0, <1>a, <1>b DEF Shapes
<1>2. Elsewhere(c)
  BY <1>0, <1>a DEF Shapes, Elsewhere, Untouched, SeenKept
<1>c. pc'[c] \in {"fetch", "idle"}
  BY <1>0, <1>a, <1>r DEF Shapes
<1>3. OpOK(c)' /\ TmpOK(c)' /\ PlacedOK(c)'
  BY <1>a, <1>c, <1>r, ReaderWritesNothing
<1>4. ReadOK(c)'
  <2>0. /\ call'[c] = call[c] /\ seen'[c] = seen[c]
        /\ File(c)' = File(c) /\ ((Posix(c))' <=> Posix(c)) /\ got'[c] = all
    BY <1>0, <1>a DEF Shapes, File, Posix
  <2>1. /\ File(c) \in seen[c] /\ got[c] \in Seq(Blocks)
        /\ File(c) # Absent => File(c) \in Seq(Blocks)
        /\ Chunk(c) = <<>> /\ File(c) # Absent => Len(File(c)) <= Len(got[c])
    BY <1>r, ChunkFacts
  <2>2. CASE /\ File(c) = Absent /\ pc' = [pc EXCEPT ![c] = "idle"]
             /\ answer' = [answer EXCEPT ![c] = IF c \in gone THEN "lost" ELSE "notfound"]
    <3>1. pc'[c] = "idle" /\ answer'[c] \in {"lost", "notfound"} /\ ~Reading(c)'
      BY <1>0, <2>2 DEF Shapes, Reading
    <3>. QED
      BY <1>b, <2>0, <2>1, <2>2, <3>1 DEF ReadOK
  <2>3. CASE /\ File(c) # Absent /\ Chunk(c) = <<>> /\ pc' = [pc EXCEPT ![c] = "idle"]
             /\ answer' = [answer EXCEPT ![c] = IF c \in gone THEN "lost" ELSE "ok"]
    <3>1. pc'[c] = "idle" /\ answer'[c] \in {"lost", "ok"} /\ ~Reading(c)'
      BY <1>0, <2>3 DEF Shapes, Reading
    <3>2. ASSUME NEW s, seen[c] = {s}
          PROVE  all = s
      <4>1. s = File(c) /\ s # Absent /\ s \in Seq(Blocks)
        BY <2>1, <2>3, <3>2
      <4>2. Len(all) <= Len(s) /\ \A i \in 1..Len(all) : all[i] = s[i]
        BY <1>b, <3>2, <4>1
      <4>3. Len(all) = Len(s)
        BY <1>b, <2>1, <2>3, <4>1, <4>2
      <4>. QED
        BY <1>b, <4>1, <4>2, <4>3, SameSequence
    <3>. QED
      BY <1>b, <2>0, <3>1, <3>2 DEF ReadOK
  <2>4. CASE File(c) # Absent /\ Chunk(c) # <<>> /\ UNCHANGED <<pc, answer>>
    <3>1. pc'[c] = "fetch" /\ ~Posix(c)
      BY <1>r, <2>4
    <3>2. \A s : seen[c] = {s} =>
            s # Absent /\ Len(all) <= Len(s) /\ \A i \in 1..Len(all) : all[i] = s[i]
      BY <1>b, <2>1, <2>4
    <3>. QED
      BY <1>b, <2>0, <2>1, <3>1, <3>2 DEF ReadOK
  <2>. QED
    BY <1>a, <2>2, <2>3, <2>4
<1>5. WholeUnlessTorn'
  BY <1>a, FilesStay, SameTorn
<1>. QED
  BY <1>1, <1>2, <1>3, <1>4, <1>5, Assemble DEF ClientOK

-----------------------------------------------------------------------------
(* What changes the files.                                                   *)
LEMMA StoreFacts ==
  ASSUME Shapes, NEW new \in [Paths -> Contents \cup {Absent}], Store(new)
  PROVE  /\ files' = new
         /\ seen' \in [Clients -> SUBSET (Contents \cup {Absent})]
         /\ \A q \in Clients : IsFiniteSet(seen'[q]) /\ SeenKept(q)
<1>1. \A q \in Clients : /\ seen[q] \in SUBSET (Contents \cup {Absent}) /\ IsFiniteSet(seen[q])
                         /\ new[call[q].path] \in Contents \cup {Absent}
  BY RequestFacts DEF Shapes
<1>2. /\ files' = new
      /\ seen' = [q \in Clients |-> IF Reading(q) THEN seen[q] \cup {new[call[q].path]} ELSE seen[q]]
  BY DEF Store
<1>3. ASSUME NEW q \in Clients
      PROVE  IsFiniteSet(seen[q] \cup {new[call[q].path]})
  <2>1. IsFiniteSet(seen[q])
    BY <1>1
  <2>. QED
    BY <2>1, FS_AddElement
<1>. QED
  BY <1>1, <1>2, <1>3 DEF SeenKept

LEMMA MoveKeeps ==
  ASSUME IInv, NEW c \in Clients, Move(c)
  PROVE  IInv'
<1>0. Shapes /\ OpOK(c) /\ TmpOK(c) /\ PlacedOK(c)
  BY DEF IInv, ClientOK
<1>. DEFINE new == [files EXCEPT ![call[c].path] = tmps[c]]
<1>a. new \in [Paths -> Contents \cup {Absent}] /\ Store(new)
  BY <1>0 DEF Shapes, Move
<1>b. /\ pc[c] = "move" /\ call[c].op = "write" /\ call[c].version \in Versions
      /\ tmps[c] \in Prefixes(call[c].version)
      /\ tmps[c] = Whole(call[c].version) \/ tmps[c] \in torn[c]
  BY <1>0, RequestFacts DEF Shapes, OpOK, TmpOK, Move, At
<1>1. Shapes'
  <2>. HIDE DEF new
  <2>. QED
    BY <1>0, <1>a, StoreFacts DEF Shapes, Move, Go, Answer
<1>2. Elsewhere(c)
  <2>. HIDE DEF new
  <2>. QED
    BY <1>0, <1>a, StoreFacts DEF Shapes, Elsewhere, Untouched, Move, Go, Answer
<1>3. OpOK(c)'
  BY <1>0 DEF Shapes, OpOK, Posix, Move, Go, Answer
<1>4. TmpOK(c)'
  <2>1. tmps'[c] = Absent /\ pc'[c] = "idle"
    BY <1>0 DEF Shapes, Move, Go, Answer
  <2>. QED
    BY <2>1, TmpAfter
<1>5. PlacedOK(c)'
  <2>1. /\ pc'[c] = "idle" /\ answer'[c] \in {"lost", "ok"} /\ placed'[c] = tmps[c]
        /\ torn'[c] = torn[c] /\ call'[c] = call[c]
    BY <1>0 DEF Shapes, Move, Go, Answer
  <2>. QED
    BY <1>b, <2>1 DEF PlacedOK, Incoming, Whole
<1>6. ReadOK(c)'
  BY <1>b, NotAReader DEF Move
<1>7. WholeUnlessTorn'
  <2>1. ASSUME NEW p \in Paths
        PROVE  files'[p] = files[p] \/ files'[p] = tmps[c]
    BY <1>0, <1>a, StoreFacts DEF Shapes
  <2>2. torn' = torn
    BY DEF Move
  <2>3. WholeUnlessTorn
    BY DEF IInv
  <2>4. ASSUME NEW p \in Paths
        PROVE  \/ files'[p] = Absent
               \/ \E v \in Versions : files'[p] = Whole(v)
               \/ \E q \in Clients : files'[p] \in torn[q]
    <3>1. \/ files[p] = Absent
          \/ \E v \in Versions : files[p] = Whole(v)
          \/ \E q \in Clients : files[p] \in torn[q]
      BY <2>3, Zenon DEF WholeUnlessTorn
    <3>2. \/ \E v \in Versions : tmps[c] = Whole(v)
          \/ \E q \in Clients : tmps[c] \in torn[q]
      BY <1>b
    <3>. QED
      BY <2>1, <3>1, <3>2, Zenon
  <2>5. \A q \in Clients : torn[q] # {} => Posix(q)
    BY <2>3, Zenon DEF WholeUnlessTorn
  <2>. QED
    BY <2>2, <2>4, <2>5, Zenon DEF WholeUnlessTorn, Whole, Posix
<1>. QED
  BY <1>1, <1>2, <1>3, <1>4, <1>5, <1>6, <1>7, Assemble DEF ClientOK

LEMMA RemoveKeeps ==
  ASSUME IInv, NEW c \in Clients, Remove(c)
  PROVE  IInv'
<1>0. Shapes /\ TmpOK(c) /\ PlacedOK(c)
  BY DEF IInv, ClientOK
<1>. DEFINE new == [files EXCEPT ![call[c].path] = Absent]
<1>a. new \in [Paths -> Contents \cup {Absent}] /\ Store(new)
  BY <1>0 DEF Shapes, Remove
<1>e. \A p \in Paths : new[p] \in {Absent, files[p]}
  BY <1>0 DEF Shapes
<1>s. /\ files' \in [Paths -> Contents \cup {Absent}]
      /\ seen' \in [Clients -> SUBSET (Contents \cup {Absent})]
      /\ \A q \in Clients : IsFiniteSet(seen'[q]) /\ SeenKept(q)
      /\ \A p \in Paths : files'[p] \in {Absent, files[p]}
  <2>. HIDE DEF new
  <2>. QED
    BY <1>0, <1>a, <1>e, StoreFacts
<1>b. /\ pc[c] = "apply" /\ call[c].op = "remove" /\ pc' = [pc EXCEPT ![c] = "idle"]
      /\ answer' \in [Clients -> {"none", "ok", "error", "notfound", "lost"}]
      /\ \A q \in Clients : q # c => answer'[q] = answer[q]
      /\ UNCHANGED <<tmps, call, got, want, gone, calls, faults, torn, placed, killed>>
  BY <1>0 DEF Shapes, Remove, At, Go, Answer
<1>1. Shapes'
  BY <1>0, <1>b, <1>s DEF Shapes
<1>2. Elsewhere(c)
  BY <1>0, <1>b, <1>s DEF Shapes, Elsewhere, Untouched
<1>3. OpOK(c)'
  BY <1>0, <1>b DEF Shapes, OpOK, Posix
<1>4. TmpOK(c)'
  <2>1. tmps'[c] = Absent /\ pc'[c] = "idle"
    BY <1>0, <1>b DEF Shapes, TmpOK
  <2>. QED
    BY <2>1, TmpAfter
<1>5. PlacedOK(c)'
  BY <1>0, <1>b DEF Shapes, PlacedOK
<1>6. ReadOK(c)'
  BY <1>b, NotAReader
<1>7. WholeUnlessTorn'
  BY <1>b, <1>s, FilesMoved, SameTorn
<1>. QED
  BY <1>1, <1>2, <1>3, <1>4, <1>5, <1>6, <1>7, Assemble DEF ClientOK

LEMMA RenameKeeps ==
  ASSUME IInv, NEW c \in Clients, Rename(c)
  PROVE  IInv'
<1>0. Shapes /\ TmpOK(c) /\ PlacedOK(c)
  BY DEF IInv, ClientOK
<1>f. File(c) \in Contents \cup {Absent} /\ call[c].path \in Paths
  BY <1>0, RequestFacts DEF Shapes, File
<1>s. /\ files' \in [Paths -> Contents \cup {Absent}]
      /\ seen' \in [Clients -> SUBSET (Contents \cup {Absent})]
      /\ \A q \in Clients : IsFiniteSet(seen'[q]) /\ SeenKept(q)
      /\ \A p \in Paths : files'[p] \in {Absent, files[p], File(c)}
  <2>1. CASE File(c) = Absent
    BY <1>0, <2>1 DEF Shapes, SeenKept, Rename
  <2>2. CASE File(c) # Absent
    <3>. DEFINE new == [p \in Paths |-> CASE p = call[c].to -> File(c)
                                       [] p = call[c].path /\ p # call[c].to -> Absent
                                       [] OTHER -> files[p]]
    <3>1. \A p \in Paths : new[p] \in {Absent, files[p], File(c)}
      OBVIOUS
    <3>2. new \in [Paths -> Contents \cup {Absent}]
      BY <1>0, <1>f DEF Shapes
    <3>3. Store(new)
      BY <2>2 DEF Rename
    <3>. HIDE DEF new
    <3>. QED
      BY <1>0, <3>1, <3>2, <3>3, StoreFacts
  <2>. QED
    BY <2>1, <2>2
<1>b. /\ pc[c] = "apply" /\ call[c].op = "rename" /\ pc' = [pc EXCEPT ![c] = "idle"]
      /\ answer' \in [Clients -> {"none", "ok", "error", "notfound", "lost"}]
      /\ \A q \in Clients : q # c => answer'[q] = answer[q]
      /\ UNCHANGED <<tmps, call, got, want, gone, calls, faults, torn, placed, killed>>
  BY <1>0 DEF Shapes, Rename, At, Go, Answer
<1>1. Shapes'
  BY <1>0, <1>b, <1>s DEF Shapes
<1>2. Elsewhere(c)
  BY <1>0, <1>b, <1>s DEF Shapes, Elsewhere, Untouched
<1>3. OpOK(c)'
  BY <1>0, <1>b DEF Shapes, OpOK, Posix
<1>4. TmpOK(c)'
  <2>1. tmps'[c] = Absent /\ pc'[c] = "idle"
    BY <1>0, <1>b DEF Shapes, TmpOK
  <2>. QED
    BY <2>1, TmpAfter
<1>5. PlacedOK(c)'
  BY <1>0, <1>b DEF Shapes, PlacedOK
<1>6. ReadOK(c)'
  BY <1>b, NotAReader
<1>7. WholeUnlessTorn'
  <2>1. \A p \in Paths : files'[p] = Absent \/ \E q \in Paths : files'[p] = files[q]
    BY <1>f, <1>s DEF File
  <2>. QED
    BY <1>b, <2>1, FilesMoved, SameTorn
<1>. QED
  BY <1>1, <1>2, <1>3, <1>4, <1>5, <1>6, <1>7, Assemble DEF ClientOK

LEMMA StepKeeps == IInv /\ [Next]_vars => IInv'
<1> SUFFICES ASSUME IInv, [Next]_vars PROVE IInv'
  OBVIOUS
<1>1. CASE UNCHANGED vars
  <2>1. Shapes'
    BY <1>1 DEF IInv, Shapes, vars
  <2>2. WholeUnlessTorn'
    BY <1>1, FilesStay, SameTorn DEF vars
  <2>3. \A c \in Clients : ClientOK(c)'
    BY <1>1, UntouchedKeeps DEF Untouched, SeenKept, vars
  <2>. QED
    BY <2>1, <2>2, <2>3 DEF IInv
<1>2. ASSUME NEW c \in Clients, Handle(c) PROVE IInv'
  BY <1>2, StartKeeps, ReadFrameKeeps, OpenTmpKeeps, CopyKeeps, EndOfInputKeeps,
     ChmodKeeps, MoveKeeps, StepFailsKeeps, ShellGoesOnKeeps, StatKeeps, TestReadableKeeps,
     FetchByShellKeeps, FetchByHandlerKeeps, RemoveKeeps, RenameKeeps, CutKeeps, KilledKeeps
     DEF Handle
<1>. QED
  BY <1>1, <1>2 DEF Next

-----------------------------------------------------------------------------
(* The inductive invariant is an invariant.                                  *)
THEOREM Invariant == Spec => []IInv
<1>1. Init => IInv
  BY InitHolds
<1>2. IInv /\ [Next]_vars => IInv'
  BY StepKeeps
<1>. QED
  BY <1>1, <1>2, PTL DEF Spec

(* The type invariant, for any clients, strategies, paths and payloads.      *)
THEOREM TypeCorrect == Spec => []TypeOK
<1>1. ASSUME IInv PROVE TypeOK
  <2>1. Shapes /\ \A c \in Clients : TmpOK(c)
    BY <1>1 DEF IInv, ClientOK
  <2>. QED
    BY <2>1 DEF TypeOK, Shapes, TmpOK
<1>. QED
  BY <1>1, Invariant, PTL

(* Whichever steps fail and whoever is killed, a path holds all of a payload *)
(* or what the upload of a shell had brought when it ended early; no write   *)
(* of a handler ever ends so (posix.go, handler.py, main.go).                *)
THEOREM FilesStayWhole == Spec => []WholeUnlessTorn
<1>1. IInv => WholeUnlessTorn
  BY DEF IInv
<1>. QED
  BY <1>1, Invariant, PTL

(* A write that is over tells the truth about the file, unless it is a       *)
(* shell's whose upload ended early and counts as done, and it has left no   *)
(* temporary behind, unless its program was killed.                          *)
THEOREM WritesAreClean == Spec => []WritesEndCleanly
<1>1. ASSUME IInv PROVE WritesEndCleanly
  <2>1. \A c \in Clients : TmpOK(c) /\ PlacedOK(c)
    BY <1>1 DEF IInv, ClientOK
  <2>. QED
    BY <2>1 DEF WritesEndCleanly, AnswersAreTrue, NoDebris, TmpOK, PlacedOK
<1>. QED
  BY <1>1, Invariant, PTL

(* A set of one element, by its cardinality.                                 *)
LEMMA OneElement ==
  ASSUME NEW S, IsFiniteSet(S), Cardinality(S) = 1
  PROVE  \E s : S = {s}
<1>1. S # {}
  BY FS_EmptySet
<1>2. PICK s \in S : TRUE
  BY <1>1
<1>3. ASSUME NEW t \in S, t # s PROVE FALSE
  <2>1. /\ IsFiniteSet({s}) /\ Cardinality({s}) = 1
    BY FS_Singleton
  <2>5. t \notin {s}
    BY <1>3
  <2>6. Cardinality({s} \cup {t})
          = IF t \in {s} THEN Cardinality({s}) ELSE Cardinality({s}) + 1
    BY <2>1, FS_AddElement, Zenon
  <2>2. Cardinality({s} \cup {t}) = 2
    <3>1. Cardinality({s} \cup {t}) = Cardinality({s}) + 1
      BY <2>5, <2>6, Zenon
    <3>. QED
      BY <2>1, <3>1
  <2>3. {s} \cup {t} \subseteq S
    BY <1>2, <1>3
  <2>4. Cardinality({s} \cup {t}) <= Cardinality(S)
    BY <2>3, FS_Subset
  <2>. QED
    BY <2>2, <2>4
<1>4. S = {s}
  BY <1>2, <1>3, Zenon
<1>. QED
  BY <1>4

(* A read returns blocks the path held, each at its place, all of the file   *)
(* if that did not change, and "not found" only of what was not there.       *)
THEOREM ReadsAreHonest == Spec => []ReadIsHonest
<1>1. ASSUME IInv PROVE ReadIsHonest
  <2>1. ASSUME NEW c \in Clients, call[c].op = "read", pc[c] = "idle"
        PROVE  /\ answer[c] = "notfound" => Absent \in seen[c]
               /\ answer[c] = "ok" =>
                    /\ \A i \in DOMAIN got[c] : \E s \in seen[c] \ {Absent} :
                         i \in DOMAIN s /\ s[i] = got[c][i]
                    /\ Cardinality(seen[c]) = 1 => got[c] \in seen[c]
    <3>1. ReadOK(c) /\ IsFiniteSet(seen[c])
      BY <1>1 DEF IInv, ClientOK, Shapes
    <3>2. Cardinality(seen[c]) = 1 => \E s : seen[c] = {s}
      BY <3>1, OneElement
    <3>. QED
      BY <2>1, <3>1, <3>2 DEF ReadOK
  <2>. QED
    BY <2>1 DEF ReadIsHonest
<1>. QED
  BY <1>1, Invariant, PTL
================================================================================
