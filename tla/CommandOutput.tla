---------------------------- MODULE CommandOutput ----------------------------
(***************************************************************************)
(* How the output and the exit status of a command come back: the marker   *)
(* the wrapper prints last, the bounded buffer of Run                      *)
(* (internal/transport/exec.go) and the filter of RunStream (stream.go);   *)
(* and what the requests of a shell that list things make of a bounded     *)
(* output (internal/fileops/posix.go).                                     *)
(*                                                                         *)
(* The command prints records of two units each, the second of which ends  *)
(* the line.  The wrapper prints the marker and the status, and a process  *)
(* the command left behind may print more.  The connection may be cut      *)
(* after any unit.  What arrives is written in pieces of any size.         *)
(***************************************************************************)
EXTENDS Integers, Sequences, FiniteSets

CONSTANTS
    MaxRecords,  \* bound: records the command prints
    MaxTrail,    \* bound: units printed behind the status
    MarkLen,     \* length of a newline and the marker
    Status,      \* the digits of the exit status
    Limit,       \* MaxOutput of the request
    Floor,       \* what the tail is given at least (8 KiB)
    Slack,       \* what the filter holds back beside the marker (24 bytes)
    MaxResults   \* the limit of a search

Mark == [i \in 1..MarkLen |-> <<"mark", i>>]
Digits == [i \in 1..Len(Status) |-> <<"digit", Status[i]>>]
Newline == <<"newline", 0>>
Notice == <<"notice", 0>>

\* Room for the start of the output and for its end.
TailMax ==
    LET wanted == IF Limit \div 4 < Floor THEN Floor ELSE Limit \div 4
        halved == IF wanted > Limit \div 2 THEN Limit \div 2 ELSE wanted
    IN IF halved < 1 THEN 1 ELSE halved
HeadMax == Limit - TailMax

ASSUME CommandAssumption ==
    /\ MaxRecords \in Nat /\ MaxTrail \in Nat
    /\ {MarkLen, Limit, Floor, Slack, MaxResults} \subseteq Nat \ {0}
    /\ Status \in Seq(0..9) /\ Status # <<>>
    /\ MarkLen + Len(Status) + 1 <= TailMax
    /\ Len(Status) + 1 <= Slack

VARIABLES
    records,  \* how many records the command prints
    trail,    \* how many units follow the status
    arrives,  \* how many units of all that arrive
    path,     \* "run" or "stream"
    fed,      \* units written so far
    head,     \* capWriter: the start
    ring,     \* capWriter: the tail
    pending,  \* sentinelFilter: held back
    emitted,  \* sentinelFilter: handed on
    outcome   \* of Run or of RunStream

commandVars == <<records, trail, arrives, path, fed, head, ring, pending, emitted, outcome>>

Payload == [i \in 1..(2 * records) |-> <<"half", (i + 1) \div 2, IF i % 2 = 1 THEN 1 ELSE 2>>]
Trail == [i \in 1..trail |-> <<"trail", i>>]

\* The wrapper of the command: its output, the marker, its status.
Wrapped == Payload \o Mark \o Digits \o <<Newline>> \o Trail
Arriving == SubSeq(Wrapped, 1, arrives)

Unfinished == [done |-> FALSE, ok |-> FALSE, out |-> <<>>, code |-> <<>>, truncated |-> FALSE]

CommandInit ==
    /\ records \in 0..MaxRecords
    /\ trail \in 0..MaxTrail
    /\ arrives \in 0..(2 * records + MarkLen + Len(Digits) + 1 + trail)
    /\ path \in {"run", "stream"}
    /\ fed = 0
    /\ head = <<>>
    /\ ring = [buf |-> <<>>, pos |-> 1, full |-> FALSE, omitted |-> 0, used |-> FALSE]
    /\ pending = <<>> /\ emitted = <<>>
    /\ outcome = Unfinished

(***************************************************************************)
(* capWriter: the head is filled first, the rest goes round in a ring.     *)
(***************************************************************************)
Put(r, unit) ==
    LET filled == r.pos = TailMax
    IN [buf |-> IF Len(r.buf) < TailMax THEN Append(r.buf, unit)
                                        ELSE [r.buf EXCEPT ![r.pos] = unit],
        pos |-> IF filled THEN 1 ELSE r.pos + 1,
        full |-> r.full \/ filled,
        omitted |-> IF r.full THEN r.omitted + 1 ELSE r.omitted,
        used |-> TRUE]

\* The loop over what the head has no room for.
PutAll(r, units) ==
    LET after[k \in 0..Len(units)] == IF k = 0 THEN r ELSE Put(after[k - 1], units[k])
    IN after[Len(units)]

WriteCapped(n) ==
    LET piece == SubSeq(Arriving, fed + 1, fed + n)
        room == IF HeadMax - Len(head) < n THEN HeadMax - Len(head) ELSE n
    IN /\ path = "run" /\ ~outcome.done
       /\ head' = head \o SubSeq(piece, 1, room)
       /\ ring' = PutAll(ring, SubSeq(piece, room + 1, n))
       /\ fed' = fed + n
       /\ UNCHANGED <<records, trail, arrives, path, pending, emitted, outcome>>

\* capWriter.Bytes: the head, a notice if anything is missing, the tail.
Bytes ==
    LET omission == IF ring.omitted > 0 THEN <<Notice>> ELSE <<>>
    IN IF ~ring.used THEN head
       ELSE IF ring.full
       THEN head \o omission \o SubSeq(ring.buf, ring.pos, TailMax) \o SubSeq(ring.buf, 1, ring.pos - 1)
       ELSE head \o omission \o ring.buf

\* Mutant of Truncated: one unit is not worth the flag.
TruncatedLate == ring.omitted > 1

Truncated == ring.omitted > 0

(***************************************************************************)
(* splitSentinel: the output is what comes before the last marker, the     *)
(* status the digits behind it, with or without the end of their line.     *)
(* The notice begins on a new line, and so ends the line it falls into.    *)
(***************************************************************************)
MarksIn(out) == {i \in 1..(Len(out) - MarkLen + 1) : SubSeq(out, i, i + MarkLen - 1) = Mark}

StatusAt(out, at) ==
    LET behind == SubSeq(out, at + MarkLen, Len(out))
        ends == {i \in DOMAIN behind : behind[i] \in {Newline, Notice}}
        first == CHOOSE i \in ends : \A j \in ends : i <= j
    IN IF ends = {} THEN behind ELSE SubSeq(behind, 1, first - 1)

IsNumber(line) == line # <<>> /\ \A i \in DOMAIN line : line[i][1] = "digit"

Split(out) ==
    LET at == CHOOSE i \in MarksIn(out) : \A j \in MarksIn(out) : j <= i
    IN IF MarksIn(out) = {} \/ ~IsNumber(StatusAt(out, at))
       THEN [ok |-> FALSE, out |-> out, code |-> <<>>]
       ELSE [ok |-> TRUE, out |-> SubSeq(out, 1, at - 1), code |-> StatusAt(out, at)]

\* finishExec, at the end of the output; no marker is a failure of the transport.
FinishRun ==
    /\ path = "run" /\ ~outcome.done /\ fed = arrives
    /\ outcome' = LET s == Split(Bytes)
                  IN [done |-> TRUE, ok |-> s.ok, out |-> IF s.ok THEN s.out ELSE <<>>,
                      code |-> s.code, truncated |-> Truncated]
    /\ UNCHANGED <<records, trail, arrives, path, fed, head, ring, pending, emitted>>

(***************************************************************************)
(* sentinelFilter: everything but the last units is handed on at once.     *)
(***************************************************************************)
\* Mutant of Hold: room for the marker, none for the status behind it.
HoldMarkOnly == MarkLen

Hold == MarkLen + Slack

WriteFiltered(n) ==
    LET all == pending \o SubSeq(Arriving, fed + 1, fed + n)
        emit == IF Len(all) > Hold THEN Len(all) - Hold ELSE 0
    IN /\ path = "stream" /\ ~outcome.done
       /\ emitted' = emitted \o SubSeq(all, 1, emit)
       /\ pending' = SubSeq(all, emit + 1, Len(all))
       /\ fed' = fed + n
       /\ UNCHANGED <<records, trail, arrives, path, head, ring, outcome>>

\* flush: the rest without the marker, which goes even if no status follows it.
Flush ==
    /\ path = "stream" /\ ~outcome.done /\ fed = arrives
    /\ LET at == CHOOSE i \in MarksIn(pending) : \A j \in MarksIn(pending) : j <= i
           rest == IF MarksIn(pending) = {} THEN pending ELSE SubSeq(pending, 1, at - 1)
           s == Split(pending)
       IN /\ emitted' = emitted \o rest
          /\ outcome' = [done |-> TRUE, ok |-> s.ok, out |-> emitted \o rest,
                        code |-> s.code, truncated |-> FALSE]
    /\ pending' = <<>>
    /\ UNCHANGED <<records, trail, arrives, path, fed, head, ring>>

CommandNext ==
    \/ \E n \in 1..(arrives - fed) : WriteCapped(n) \/ WriteFiltered(n)
    \/ FinishRun
    \/ Flush

CommandSpec == CommandInit /\ [][CommandNext]_commandVars

(***************************************************************************)
(* The lines of a bounded output.  The notice stands between two line      *)
(* ends: the record it cuts leaves a piece of itself on either side.       *)
(***************************************************************************)
Line(out, i) ==
    IF out[i][1] = "half" /\ out[i][3] = 2 /\ i > 1 /\ out[i - 1] = <<"half", out[i][2], 1>>
    THEN out[i][2]
    ELSE 0
LineEnds(out) ==
    {i \in DOMAIN out : \/ out[i][1] = "half" /\ out[i][3] = 2
                        \/ out[i][1] = "half" /\ i < Len(out) /\ out[i + 1] = Notice
                        \/ out[i] = Notice}
Nth(S, n) == CHOOSE i \in S : Cardinality({j \in S : j <= i}) = n
LinesAt(out, S, count) == [n \in 1..count |-> Line(out, Nth(S, n))]
Lines(out) == LinesAt(out, LineEnds(out), Cardinality(LineEnds(out)))

\* searchRipgrep drops a line that is not a whole record.
Matches(out) ==
    LET whole == {i \in LineEnds(out) : Line(out, i) # 0}
    IN LinesAt(out, whole,
               IF Cardinality(whole) < MaxResults THEN Cardinality(whole) ELSE MaxResults)

\* checkComplete: what is missing is only made up for by enough matches.
Search(res) ==
    IF ~res.ok \/ (res.truncated /\ Len(Matches(res.out)) < MaxResults)
    THEN [ok |-> FALSE, found |-> <<>>]
    ELSE [ok |-> TRUE, found |-> Matches(res.out)]

\* Glob and List take the output as it is.
Glob(res) == [ok |-> res.ok, found |-> Lines(res.out)]

\* readRange refuses a chunk that was cut.
ReadRange(res) == [ok |-> res.ok /\ ~res.truncated, data |-> res.out]

AllRecords == [k \in 1..records |-> k]

-----------------------------------------------------------------------------
(* Types: neither buffer grows past its bound, and nothing that arrived is   *)
(* in neither place: kept, omitted, held back or handed on.                  *)
CommandTypeOK ==
    /\ Len(head) <= HeadMax /\ Len(ring.buf) <= TailMax /\ ring.pos \in 1..TailMax
    /\ Len(pending) <= Hold
    /\ path = "run" => Len(head) + Len(ring.buf) + ring.omitted = fed
    /\ path = "stream" /\ ~outcome.done => emitted \o pending = SubSeq(Arriving, 1, fed)

\* What Run may make of the output: all of it, or its start and its end.
Ends(out) ==
    \/ out = Payload
    \/ \E i, j \in 0..Len(Payload) :
          /\ i + j < Len(Payload)
          /\ out = SubSeq(Payload, 1, i) \o <<Notice>> \o SubSeq(Payload, Len(Payload) - j + 1, Len(Payload))

(* However much a command prints, and however it is cut into pieces, Run     *)
(* knows its status, and the output it returns is the command's, or its two  *)
(* ends with a notice between them (exec.go:36-60, 100-111).  A process left *)
(* behind may print as much as the tail has room for.                        *)
RunKnowsTheEnd ==
    /\ path = "run" /\ outcome.done /\ arrives = Len(Wrapped)
    /\ MarkLen + Len(Digits) + 1 + trail <= TailMax
    => outcome.ok /\ outcome.code = Digits /\ Ends(outcome.out)

(* Output that is not all there is never returned without the flag that says *)
(* so (exec.go:197-206), and file content never at all (posix.go:172-174).   *)
LossIsTold ==
    path = "run" /\ outcome.done =>
        /\ outcome.ok /\ ~outcome.truncated => outcome.out = Payload
        /\ ReadRange(outcome).ok => ReadRange(outcome).data = Payload

(* A status is reported only for a command whose marker arrived: a transport *)
(* that failed is not a command that failed (exec.go:25-34).  What is        *)
(* reported begins like the command's status and is as long as what arrived  *)
(* of it, never anything else: of a status cut between two digits, the first *)
(* of them.                                                                  *)
StatusNeedsMarker ==
    outcome.done /\ outcome.ok =>
        \E n \in 1..Len(Digits) : /\ arrives >= Len(Payload) + MarkLen + n
                                  /\ outcome.code = SubSeq(Digits, 1, n)

(* A stream hands on what the command printed, all of it and nothing of the  *)
(* marker, and knows the status, like Run (stream.go:236-241), as long as    *)
(* what a process left behind printed fits in what the filter holds back.    *)
StreamAgrees ==
    path = "stream" /\ Len(Digits) + 1 + trail <= Slack =>
        /\ ~outcome.done => \E n \in 0..Len(Payload) : emitted = SubSeq(Payload, 1, n)
        /\ outcome.done /\ arrives = Len(Wrapped) =>
             emitted = Payload /\ outcome.ok /\ outcome.code = Digits

(* A search that succeeds with fewer matches than it may return has them all *)
(* (posix.go:407-416).                                                       *)
SearchHasThemAll ==
    path = "run" /\ outcome.done /\ Search(outcome).ok /\ Len(Search(outcome).found) < MaxResults
        => Search(outcome).found = AllRecords

(* The status is the command's, with both ways of running it, where its end  *)
(* arrived; and where that did not, no more is said than did.                *)
StatusIsTheCommands == RunKnowsTheEnd /\ StatusNeedsMarker /\ StreamAgrees

(* A part is never passed off as the whole: of output, a file or a search.   *)
NoPartForTheWhole == LossIsTold /\ SearchHasThemAll

(* NOT what the code does: a listing is of all there is (fileops.go:34, 49). *)
ListingIsWhole ==
    path = "run" /\ outcome.done /\ Glob(outcome).ok => Glob(outcome).found = AllRecords
=============================================================================
