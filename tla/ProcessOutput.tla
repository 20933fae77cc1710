---------------------------- MODULE ProcessOutput ----------------------------
(***************************************************************************)
(* The output of one process of the exec-server, process.go: the two       *)
(* pumps, the replay buffer, the notifications, the end of the process,    *)
(* and the process/read calls that page through the buffer and wait.       *)
(*                                                                         *)
(* One action is one critical section of p.mu, or one step outside it: a   *)
(* notification, a wait.  p.notifyCh is the set asleep of the readers that *)
(* hold the channel now current; broadcast empties it.  A chunk is [seq,   *)
(* stream, from, upto]: the bytes in from..(upto - 1) of all output, of    *)
(* which the buffer always holds a stretch.  p.retained is Size(chunks),   *)
(* the two being changed together.                                         *)
(*                                                                         *)
(* A reader is a client's loop: it calls process/read again and again with *)
(* afterSeq one less than the nextSeq it was last given, as the codex      *)
(* client and the tests do.                                                *)
(***************************************************************************)
EXTENDS Integers, Sequences, FiniteSets, FiniteSetsExt, SequencesExt

CONSTANTS
    Readers,   \* the loops that read the process
    PageBytes, \* the maxBytes of those that pass one
    Retain,    \* retainedOutputBytes
    Sizes      \* what the i-th write of a pump may carry; bounds the writes

ASSUME OutputAssumption ==
    /\ IsFiniteSet(Readers)
    /\ PageBytes \in Nat /\ Retain \in Nat
    /\ Sizes \in Seq(SUBSET (Nat \ {0}))

VARIABLES
    made,       \* every chunk so far, retained or not
    chunks,     \* p.chunks
    nextSeq,    \* p.nextSeq
    pump,       \* the streams of the process still being copied
    pending,    \* the number each writer has taken and not announced; 0: none
    runner,     \* where runProcess is
    marker,     \* the status marker came in on stdout
    outcome,    \* p.exited, p.exitCode and p.failure: how the process ended
    closed,     \* p.closed
    sent,       \* the notifications, in the order the client gets them
    killer,     \* how far a request that kills the process has got
    terminated, \* p.terminated
    cause,      \* why the output ended
    paging,     \* the readers that pass maxBytes
    reader,     \* where each process/read is
    afterSeq,   \* the afterSeq each reader passes
    expired,    \* the readers whose deadline has passed
    asleep,     \* the readers that hold the current p.notifyCh
    given,      \* the numbers of the chunks each reader was given, in order
    told        \* how each reader was told the process had ended, or "no"

outputVars == <<made, chunks, nextSeq, pump, pending, runner, marker, outcome,
                closed, sent, killer, terminated, cause, paging, reader, afterSeq,
                expired, asleep, given, told>>

Streams == {"stdout", "stderr"}
MaxChunks == Len(Sizes)

process == <<made, chunks, nextSeq, pump, pending, runner, marker, outcome, closed,
             sent, terminated, cause>>
killing == <<killer, terminated, cause>>
reading == <<paging, reader, afterSeq, expired, given, told>>

\* The bytes of a stretch of chunks.
Size(cs) == IF cs = <<>> THEN 0 ELSE Last(cs).upto - Head(cs).from

\* The next chunk, of size bytes.
NewChunk(s, size) ==
    LET start == IF made = <<>> THEN 0 ELSE Last(made).upto
    IN  [seq |-> nextSeq, stream |-> s, from |-> start, upto |-> start + size]

OutputInit ==
    /\ made = <<>> /\ chunks = <<>> /\ nextSeq = 1
    /\ pump = Streams
    /\ pending = [w \in Streams \cup {"runner"} |-> 0]
    /\ runner = "copying" /\ marker = FALSE
    /\ outcome = "no" /\ closed = FALSE
    /\ sent = <<>>
    /\ killer = "no" /\ terminated = FALSE /\ cause = "none"
    /\ paging \in SUBSET Readers
    /\ reader = [r \in Readers |-> "idle"]
    /\ afterSeq = [r \in Readers |-> 0]
    /\ expired = {} /\ asleep = {}
    /\ given = [r \in Readers |-> <<>>]
    /\ told = [r \in Readers |-> "no"]
-----------------------------------------------------------------------------
\* The oldest chunks go while there is too much, but never the newest one.
Evict(cs) ==
    LET first == Min({k \in 1..Len(cs) :
                        k = Len(cs) \/ Size(SubSeq(cs, k, Len(cs))) <= Retain})
    IN  SubSeq(cs, first, Len(cs))

\* Mutant of Retained: nobody is woken.
RetainedSilently(s, size) ==
    /\ pending[s] = 0
    /\ made' = Append(made, NewChunk(s, size))
    /\ chunks' = Evict(Append(chunks, NewChunk(s, size)))
    /\ pending' = [pending EXCEPT ![s] = nextSeq]
    /\ nextSeq' = nextSeq + 1
    /\ UNCHANGED asleep

\* chunkWriter.Write, under p.mu: a number, the buffer, broadcast.
Retained(s, size) ==
    /\ pending[s] = 0
    /\ made' = Append(made, NewChunk(s, size))
    /\ chunks' = Evict(Append(chunks, NewChunk(s, size)))
    /\ pending' = [pending EXCEPT ![s] = nextSeq]
    /\ nextSeq' = nextSeq + 1
    /\ asleep' = {}

\* The bytes the next write may carry.
NextSizes == IF Len(made) < MaxChunks THEN Sizes[Len(made) + 1] ELSE {}

\* A pump hands on what the process wrote.
WriteChunk(s) ==
    /\ s \in pump
    /\ \E size \in NextSizes : Retained(s, size)
    /\ UNCHANGED <<pump, runner, marker, outcome, closed, sent, killing, reading>>

\* chunkWriter.Write, after p.mu: the process/output notification.
Announce(s) ==
    /\ pending[s] # 0
    /\ sent' = Append(sent, [kind |-> s, seq |-> pending[s]])
    /\ pending' = [pending EXCEPT ![s] = 0]
    /\ UNCHANGED <<made, chunks, nextSeq, pump, runner, marker, outcome, closed,
                   killing, reading, asleep>>

(***************************************************************************)
(* A stream of the process ends.  The first one to end shows why: the      *)
(* command completed, reach closed the channel, or the connection went.    *)
(* The marker is the last thing a completed command writes to stdout.      *)
(***************************************************************************)
EndOfStream(s) ==
    /\ s \in pump /\ pending[s] = 0
    /\ \/ cause # "none" /\ UNCHANGED cause
       \/ cause = "none" /\ cause' \in {"completed", "dropped"}
    /\ pump' = pump \ {s}
    /\ marker' = (marker \/ (s = "stdout" /\ cause' = "completed"))
    /\ UNCHANGED <<made, chunks, nextSeq, pending, runner, outcome, closed, sent,
                   killer, terminated, reading, asleep>>
-----------------------------------------------------------------------------
\* Mutant of Flush: only the pump of stdout is waited for.
FlushAfterStdout ==
    /\ runner = "copying" /\ "stdout" \notin pump /\ pending["stdout"] = 0
    /\ \/ \E size \in NextSizes : Retained("stdout", size)
       \/ UNCHANGED <<made, chunks, nextSeq, pending, asleep>>
    /\ runner' = "flushed"
    /\ UNCHANGED <<pump, marker, outcome, closed, sent, killing, reading>>

\* wg.Wait returns, and Flush releases what the filter still holds, if anything.
Flush ==
    /\ runner = "copying" /\ pump = {} /\ \A s \in Streams : pending[s] = 0
    /\ \/ \E size \in NextSizes : Retained("stdout", size)
       \/ UNCHANGED <<made, chunks, nextSeq, pending, asleep>>
    /\ runner' = "flushed"
    /\ UNCHANGED <<pump, marker, outcome, closed, sent, killing, reading>>

\* runProcess settles how the process ended.
Settle ==
    /\ runner = "flushed" /\ pending["stdout"] = 0
    /\ outcome' = IF marker THEN "code" ELSE IF terminated THEN "stopped" ELSE "lost"
    /\ pending' = [pending EXCEPT !["runner"] = nextSeq]
    /\ nextSeq' = nextSeq + 1
    /\ asleep' = {}
    /\ runner' = "exited"
    /\ UNCHANGED <<made, chunks, pump, marker, closed, sent, killing, reading>>

\* process/exited and, later, process/closed.
AnnounceEnd ==
    /\ pending["runner"] # 0
    /\ sent' = Append(sent, [kind |-> IF closed THEN "closed" ELSE "exited",
                             seq |-> pending["runner"]])
    /\ pending' = [pending EXCEPT !["runner"] = 0]
    /\ UNCHANGED <<made, chunks, nextSeq, pump, runner, marker, outcome, closed,
                   killing, reading, asleep>>

\* process/exited is out: the process is closed.
Close ==
    /\ runner = "exited" /\ pending["runner"] = 0
    /\ closed' = TRUE
    /\ pending' = [pending EXCEPT !["runner"] = nextSeq]
    /\ nextSeq' = nextSeq + 1
    /\ asleep' = {}
    /\ runner' = "closed"
    /\ UNCHANGED <<made, chunks, pump, marker, outcome, sent, killing, reading>>
-----------------------------------------------------------------------------
\* signal and terminate look at p.exited, and let p.mu go.
Aim ==
    /\ killer = "no" /\ outcome = "no"
    /\ killer' = "aimed"
    /\ UNCHANGED <<process, reading, asleep>>

\* killStream, under p.mu ...
Mark ==
    /\ killer = "aimed" /\ killer' = "marked"
    /\ terminated' = TRUE
    /\ UNCHANGED <<made, chunks, nextSeq, pump, pending, runner, marker, outcome,
                   closed, sent, cause, reading, asleep>>

\* ... and the channel is closed, which ends the streams if nothing else has.
Kill ==
    /\ killer = "marked" /\ killer' = "killed"
    /\ cause' = IF cause = "none" THEN "killed" ELSE cause
    /\ UNCHANGED <<made, chunks, nextSeq, pump, pending, runner, marker, outcome,
                   closed, sent, terminated, reading, asleep>>
-----------------------------------------------------------------------------
\* What there is after afterSeq: the numbers of the chunks ascend.
Unread(r) ==
    LET new == {n \in DOMAIN chunks : chunks[n].seq > afterSeq[r]}
    IN  IF new = {} THEN <<>> ELSE SubSeq(chunks, Min(new), Len(chunks))

\* What a process/read is given: all of that, or a page of it.
Page(r) ==
    LET fits == Max({n \in 0..Len(Unread(r)) :
                       n <= 1 \/ Size(SubSeq(Unread(r), 1, n)) <= PageBytes})
    IN  IF r \in paging THEN SubSeq(Unread(r), 1, fits) ELSE Unread(r)

\* Mutant of NextSeq: the last number given instead of the next one.
NextSeqOfLast(r) == IF Page(r) # <<>> THEN Last(Page(r)).seq ELSE nextSeq - 1

\* Mutant of NextSeq: a page is answered like everything.
NextSeqOfAll(r) == nextSeq

\* The nextSeq it is given: past the page, or past everything.
NextSeq(r) ==
    IF r \in paging /\ Page(r) # <<>> THEN Last(Page(r)).seq + 1 ELSE nextSeq

\* process/read comes in, with a deadline ahead or (no waitMs) none.
Call(r) ==
    /\ reader[r] = "idle" /\ told[r] # "closed"
    /\ reader' = [reader EXCEPT ![r] = "looking"]
    /\ \/ expired' = expired \cup {r}
       \/ UNCHANGED expired
    /\ UNCHANGED <<process, killer, paging, afterSeq, asleep, given, told>>

\* Something is there, the process is closed, or time is up: read answers.
Answer(r) ==
    /\ reader[r] = "looking"
    /\ Page(r) # <<>> \/ closed \/ r \in expired
    /\ given' = [given EXCEPT ![r] = @ \o [n \in DOMAIN Page(r) |-> Page(r)[n].seq]]
    /\ afterSeq' = [afterSeq EXCEPT ![r] = NextSeq(r) - 1]
    /\ told' = [told EXCEPT ![r] =
                  IF closed THEN "closed" ELSE IF outcome # "no" THEN "exited" ELSE "no"]
    /\ reader' = [reader EXCEPT ![r] = "idle"]
    /\ expired' = expired \ {r}
    /\ UNCHANGED <<process, killer, paging, asleep>>

\* Nothing yet: read has taken the channel under p.mu, and waits on it.
Wait(r) ==
    /\ reader[r] = "looking"
    /\ Page(r) = <<>> /\ ~closed /\ r \notin expired
    /\ reader' = [reader EXCEPT ![r] = "waiting"]
    /\ asleep' = asleep \cup {r}
    /\ UNCHANGED <<process, killer, paging, afterSeq, expired, given, told>>

\* The channel was closed.
Wake(r) ==
    /\ reader[r] = "waiting" /\ r \notin asleep
    /\ reader' = [reader EXCEPT ![r] = "looking"]
    /\ UNCHANGED <<process, killer, paging, afterSeq, expired, asleep, given, told>>

\* The timer fires.
TimeOut(r) ==
    /\ reader[r] = "waiting"
    /\ reader' = [reader EXCEPT ![r] = "looking"]
    /\ expired' = expired \cup {r}
    /\ asleep' = asleep \ {r}
    /\ UNCHANGED <<process, killer, paging, afterSeq, given, told>>

\* All is read and announced.
AllTold ==
    /\ runner = "closed" /\ pending["runner"] = 0
    /\ \A r \in Readers : told[r] = "closed"
    /\ UNCHANGED outputVars

Pump(s) == WriteChunk(s) \/ Announce(s) \/ EndOfStream(s)
Runner == Flush \/ Settle \/ AnnounceEnd \/ Close
ProcessRead(r) == Answer(r) \/ Wait(r) \/ Wake(r)

OutputNext ==
    \/ \E s \in Streams : Pump(s)
    \/ Runner
    \/ Aim \/ Mark \/ Kill
    \/ \E r \in Readers : Call(r) \/ ProcessRead(r) \/ TimeOut(r)
    \/ AllTold

(***************************************************************************)
(* Goroutines run.  A process need not write or end, a client need not     *)
(* call, and no timer need fire: what a read waits for has to wake it.     *)
(***************************************************************************)
OutputFairness ==
    /\ \A s \in Streams : WF_outputVars(Announce(s))
    /\ WF_outputVars(Runner)
    /\ \A r \in Readers : WF_outputVars(ProcessRead(r))

OutputSpec == OutputInit /\ [][OutputNext]_outputVars
OutputFairSpec == OutputSpec /\ OutputFairness
-----------------------------------------------------------------------------
Seqs == 0..(MaxChunks + 3)
Chunk == [seq : Seqs, stream : Streams, from : Nat, upto : Nat]

OutputTypeOK ==
    /\ made \in Seq(Chunk) /\ chunks \in Seq(Chunk)
    /\ nextSeq \in Seqs \ {0}
    /\ pump \in SUBSET Streams
    /\ pending \in [Streams \cup {"runner"} -> Seqs]
    /\ runner \in {"copying", "flushed", "exited", "closed"}
    /\ outcome \in {"no", "code", "stopped", "lost"}
    /\ closed \in BOOLEAN /\ marker \in BOOLEAN /\ terminated \in BOOLEAN
    /\ sent \in Seq([kind : Streams \cup {"exited", "closed"}, seq : Seqs])
    /\ killer \in {"no", "aimed", "marked", "killed"}
    /\ cause \in {"none", "completed", "dropped", "killed"}
    /\ paging \in SUBSET Readers
    /\ reader \in [Readers -> {"idle", "looking", "waiting"}]
    /\ afterSeq \in [Readers -> Seqs]
    /\ expired \in SUBSET Readers /\ asleep \in SUBSET Readers
    /\ given \in [Readers -> Seq(Seqs)]
    /\ told \in [Readers -> {"no", "exited", "closed"}]

(***************************************************************************)
(* A reader that follows nextSeq is given chunks in order and none twice,  *)
(* and passes over none that the buffer still holds: what it lacks was     *)
(* evicted before it came.                                                 *)
(***************************************************************************)
NothingSkipped ==
    \A r \in Readers :
        /\ \A m, n \in DOMAIN given[r] : m < n => given[r][m] < given[r][n]
        /\ \A n \in DOMAIN chunks :
              chunks[n].seq <= afterSeq[r] => chunks[n].seq \in Range(given[r])

(***************************************************************************)
(* A client that reads everything and stops when it is told the process    *)
(* exited has the whole output: the exit is never seen before the output   *)
(* in front of it, the rest that the marker filter held back included.     *)
(***************************************************************************)
ExitMeansComplete ==
    \A r \in Readers \ paging : told[r] # "no" =>
        \A n \in DOMAIN chunks : chunks[n].seq \in Range(given[r])

(***************************************************************************)
(* Notifications: no number is used twice, each stream's output comes in   *)
(* order, process/exited comes after all output and has a higher number,   *)
(* and process/closed comes last, though nothing orders the writers.       *)
(***************************************************************************)
EndComesLast ==
    \A m, n \in DOMAIN sent : m < n =>
        /\ sent[m].seq # sent[n].seq
        /\ sent[m].kind = sent[n].kind \/ sent[n].kind = "exited"
              => sent[m].kind \in Streams /\ sent[m].seq < sent[n].seq
        /\ sent[m].kind # "closed"
        /\ sent[n].kind = "closed" =>
              \A k \in 1..(n - 1) : sent[k].seq < sent[n].seq
        /\ sent[m].kind = "exited" => sent[n].kind = "closed"

(***************************************************************************)
(* The replay buffer holds the newest output: a suffix of all of it, as    *)
(* long as the cap allows and never without the newest chunk.              *)
(***************************************************************************)
KeepsTheNewest ==
    LET dropped == Len(made) - Len(chunks)
    IN  /\ chunks = SubSeq(made, dropped + 1, Len(made))
        /\ Size(chunks) <= Retain \/ Len(chunks) = 1
        /\ dropped > 0 => Size(SubSeq(made, dropped, Len(made))) > Retain
        /\ made # <<>> => chunks # <<>>

(***************************************************************************)
(* What is lost is only the oldest output, only when the cap demands it,   *)
(* and only for a reader that came too late.                               *)
(***************************************************************************)
OutputIsKept == NothingSkipped /\ KeepsTheNewest

(***************************************************************************)
(* "reach asked for the exit": a process that ended because reach closed   *)
(* its channel is never reported as a failure of the connection, though    *)
(* the request that kills it and runProcess race.                          *)
(***************************************************************************)
KilledIsNotLost == cause = "killed" => outcome # "lost"

(***************************************************************************)
(* A process's end is told after everything it wrote and as what it was,   *)
(* to a client that reads and to one that listens.                         *)
(***************************************************************************)
EndIsTold == ExitMeansComplete /\ EndComesLast /\ KilledIsNotLost

(***************************************************************************)
(* A process/read that waits returns as soon as there is output for it or  *)
(* the process is closed, without its timer: no change falls between its   *)
(* look at the buffer and its wait.                                        *)
(***************************************************************************)
PollWakes ==
    \A r \in Readers :
        (reader[r] = "waiting" /\ (closed \/ \E n \in DOMAIN chunks :
                                                chunks[n].seq > afterSeq[r]))
            ~> reader[r] = "idle"
=============================================================================
