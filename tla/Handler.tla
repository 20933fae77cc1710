------------------------------- MODULE Handler -------------------------------
(***************************************************************************)
(* One file handler: the client of internal/fileops/pipe.go, the stream it *)
(* keeps to a program on the target, and that program's loop.              *)
(*                                                                         *)
(* A request is one roundTrip: it holds p.mu throughout, so requests take  *)
(* turns, but its context, the program, the connection and Close move      *)
(* while it does.  A stream is numbered in the order it was opened; the    *)
(* current one is p.stream, p.in and p.out.  What travels on it are frames *)
(* [req, whole]: a frame that is not whole was only partly written, and    *)
(* whatever is written next is read as its tail.  The response id is never *)
(* compared with the request id, so that an answer belongs to the request  *)
(* that reads it has to come from the streams alone.                       *)
(*                                                                         *)
(* p.first is ~proven: the two are assigned together everywhere.           *)
(***************************************************************************)
EXTENDS Integers, Sequences, FiniteSets

CONSTANTS
    Requests,     \* the calls of roundTrip, each made once
    NoAnswer,     \* the request has no result yet
    Failed,       \* the request reported an error of its own, not an answer
    MaxOverflow,  \* connections the transport may move on to (0: it cannot)
    MaxStreams    \* bound: programs ever started

ASSUME HandlerAssumption ==
    /\ IsFiniteSet(Requests) /\ NoAnswer \notin Requests /\ Failed \notin Requests
    /\ NoAnswer # Failed
    /\ MaxOverflow \in Nat /\ MaxStreams \in Nat \ {0}

VARIABLES
    pc,        \* where each request is
    result,    \* what each request returned: the request whose answer it read
    over,      \* requests whose context has ended
    broken,    \* p.broken: why the stream cannot be trusted, or "no"
    proven,    \* p.proven: the current program has answered
    cur,       \* the current stream; streams 1..cur have been opened
    open,      \* streams reach has not closed
    up,        \* streams whose program is running
    refused,   \* streams the target had no channel for
    wire,      \* frames written to each stream and not read by its program
    back,      \* answers each program has written and nobody has read
    answered,  \* streams whose program has answered a request
    applied,   \* how often each request was carried out on the target
    overflow,  \* times the transport was moved to another connection
    closer     \* how far Close has got

vars == <<pc, result, over, broken, proven, cur, open, up, refused, wire, back,
          answered, applied, overflow, closer>>

Streams == 1..MaxStreams
Closed == closer # "no"

\* The request that holds p.mu, if any.
Holding == {r \in Requests :
               pc[r] \in {"reopening", "opening", "sending", "writing", "waiting"}}

Init ==
    /\ pc = [r \in Requests |-> "new"]
    /\ result = [r \in Requests |-> NoAnswer]
    /\ over = {}
    /\ broken = "no" /\ proven = FALSE
    /\ cur = 1 /\ open = {1}
    /\ \E refusedFirst \in SUBSET {1} :
          refused = refusedFirst /\ up = {1} \ refusedFirst
    /\ wire = [s \in Streams |-> <<>>]
    /\ back = [s \in Streams |-> <<>>]
    /\ answered = {}
    /\ applied = [r \in Requests |-> 0]
    /\ overflow = 0
    /\ closer = "no"

stream == <<cur, open, up, refused, wire, back, answered>>

Return(r, what) ==
    /\ pc' = [pc EXCEPT ![r] = "done"]
    /\ result' = [result EXCEPT ![r] = what]
-----------------------------------------------------------------------------
\* roundTrip has p.mu: a broken stream is replaced before anything is sent.
Enter(r) ==
    /\ pc[r] = "new" /\ Holding = {}
    /\ pc' = [pc EXCEPT ![r] = IF broken = "no" THEN "sending" ELSE "reopening"]
    /\ UNCHANGED <<stream, result, over, broken, proven, applied, overflow, closer>>

\* refusedAChannel, up to its call of Overflow.
RefusedAChannel == cur \in refused /\ MaxOverflow > 0

\* reopen gives up: closed, or the program never worked and gets no new chance.
RefuseReopen(r) ==
    /\ pc[r] = "reopening"
    /\ Closed \/ (~proven /\ ~(RefusedAChannel /\ overflow < MaxOverflow))
    /\ Return(r, Failed)
    /\ UNCHANGED <<stream, over, broken, proven, applied, overflow, closer>>

\* Mutant of Restart: a program that never answered is started again.
RestartAnyway(r) ==
    /\ pc[r] = "reopening" /\ ~Closed
    /\ open' = open \ {cur}
    /\ pc' = [pc EXCEPT ![r] = "opening"]
    /\ UNCHANGED <<result, over, broken, proven, cur, up, refused, wire, back,
                   answered, applied, overflow, closer>>

\* Mutant of Restart: the connections are not counted.
RestartUncapped(r) ==
    /\ pc[r] = "reopening" /\ ~Closed
    /\ \/ proven /\ UNCHANGED overflow
       \/ ~proven /\ RefusedAChannel /\ overflow' = overflow + 1
    /\ open' = open \ {cur}
    /\ pc' = [pc EXCEPT ![r] = "opening"]
    /\ UNCHANGED <<result, over, broken, proven, cur, up, refused, wire, back,
                   answered, applied, closer>>

(***************************************************************************)
(* reopen goes ahead: the program has worked, or the target had no channel *)
(* for it and the transport moves to another connection.  The old stream   *)
(* is closed first.                                                        *)
(***************************************************************************)
Restart(r) ==
    /\ pc[r] = "reopening" /\ ~Closed
    /\ \/ proven /\ UNCHANGED overflow
       \/ /\ ~proven /\ RefusedAChannel /\ overflow < MaxOverflow
          /\ overflow' = overflow + 1
    /\ open' = open \ {cur}
    /\ pc' = [pc EXCEPT ![r] = "opening"]
    /\ UNCHANGED <<result, over, broken, proven, cur, up, refused, wire, back,
                   answered, applied, closer>>

\* open runs the program on a new channel and installs it, Close or no Close.
Open(r) ==
    /\ pc[r] = "opening" /\ cur < MaxStreams
    /\ cur' = cur + 1
    /\ open' = open \cup {cur + 1}
    /\ \/ up' = up \cup {cur + 1} /\ UNCHANGED refused
       \/ refused' = refused \cup {cur + 1} /\ UNCHANGED up
    /\ broken' = "no" /\ proven' = FALSE
    /\ pc' = [pc EXCEPT ![r] = "sending"]
    /\ UNCHANGED <<result, over, wire, back, answered, applied, overflow, closer>>

\* open fails: no channel, or the program does not take its preamble.
OpenFails(r) ==
    /\ pc[r] = "opening"
    /\ Return(r, Failed)
    /\ UNCHANGED <<stream, over, broken, proven, applied, overflow, closer>>

\* The context had ended before anything was written.
Expired(r) ==
    /\ pc[r] = "sending" /\ r \in over
    /\ Return(r, Failed)
    /\ UNCHANGED <<stream, over, broken, proven, applied, overflow, closer>>

(***************************************************************************)
(* The context is looked at for the last time before the answer is waited  *)
(* for: the writes that follow know nothing of it, and the stream was      *)
(* opened without it.                                                      *)
(***************************************************************************)
BeginWrite(r) ==
    /\ pc[r] = "sending" /\ r \notin over
    /\ pc' = [pc EXCEPT ![r] = "writing"]
    /\ UNCHANGED <<stream, result, over, broken, proven, applied, overflow, closer>>

\* The whole frame is written (to the pipe: the program may be gone).
Send(r) ==
    /\ pc[r] = "writing" /\ cur \in open
    /\ wire' = [wire EXCEPT ![cur] = Append(@, [req |-> r, whole |-> TRUE])]
    /\ pc' = [pc EXCEPT ![r] = "waiting"]
    /\ UNCHANGED <<result, over, broken, proven, cur, open, up, refused, back,
                   answered, applied, overflow, closer>>

\* writeFailed: nothing of the frame was written, or a part of it.
SendFails(r) ==
    /\ pc[r] = "writing"
    /\ \/ UNCHANGED wire
       \/ wire' = [wire EXCEPT ![cur] = Append(@, [req |-> r, whole |-> FALSE])]
    /\ broken' = "torn"
    /\ Return(r, Failed)
    /\ UNCHANGED <<over, proven, cur, open, up, refused, back, answered, applied,
                   overflow, closer>>

(***************************************************************************)
(* A write to a program that runs lasts until the program has read enough  *)
(* of it, which it may never do; one to a stream that is closed, or whose  *)
(* program has ended, comes back.                                          *)
(***************************************************************************)
Blocked(r) == pc[r] = "writing" /\ cur \in (open \cap up)

WriteEnds(r) == ~Blocked(r) /\ (Send(r) \/ SendFails(r))

\* The reader goroutine hands over the next answer on the stream.
Receive(r) ==
    /\ pc[r] = "waiting" /\ back[cur] # <<>>
    /\ back' = [back EXCEPT ![cur] = Tail(@)]
    /\ proven' = TRUE
    /\ Return(r, Head(back[cur]))
    /\ UNCHANGED <<over, broken, cur, open, up, refused, wire, answered, applied,
                   overflow, closer>>

\* Mutant of ReadFails: the request is sent again on a new stream.
ReadFailsRetrying(r) ==
    /\ pc[r] = "waiting" /\ cur \notin (open \cap up)
    /\ broken' = "lost"
    /\ pc' = [pc EXCEPT ![r] = "reopening"]
    /\ UNCHANGED <<stream, result, over, proven, applied, overflow, closer>>

\* The stream ends, or stops making sense, before the answer is complete.
ReadFails(r) ==
    /\ pc[r] = "waiting" /\ cur \notin (open \cap up)
    /\ broken' = "lost"
    /\ Return(r, Failed)
    /\ UNCHANGED <<stream, over, proven, applied, overflow, closer>>

\* Mutant of Abandon: the request returns and leaves the stream as it is.
AbandonOnly(r) ==
    /\ pc[r] = "waiting" /\ r \in over
    /\ Return(r, Failed)
    /\ UNCHANGED <<stream, over, broken, proven, applied, overflow, closer>>

\* Mutant of Abandon: the context is looked at only once the stream has ended.
AbandonLate(r) ==
    /\ pc[r] = "waiting" /\ r \in over /\ cur \notin (open \cap up)
    /\ broken' = "abandoned"
    /\ open' = open \ {cur}
    /\ Return(r, Failed)
    /\ UNCHANGED <<over, proven, cur, up, refused, wire, back, answered, applied,
                   overflow, closer>>

\* The context ends first: the stream is condemned and closed.
Abandon(r) ==
    /\ pc[r] = "waiting" /\ r \in over
    /\ broken' = "abandoned"
    /\ open' = open \ {cur}
    /\ Return(r, Failed)
    /\ UNCHANGED <<over, proven, cur, up, refused, wire, back, answered, applied,
                   overflow, closer>>
-----------------------------------------------------------------------------
CtxEnds(r) ==
    /\ r \notin over /\ pc[r] # "done"
    /\ over' = over \cup {r}
    /\ UNCHANGED <<stream, pc, result, broken, proven, applied, overflow, closer>>

(***************************************************************************)
(* The program's loop: read a frame, carry it out, write the answer.  It   *)
(* goes on with what it was sent after reach has closed the stream.  The   *)
(* tail of a torn frame is whatever follows it.                            *)
(***************************************************************************)
Serve(s) ==
    /\ s \in up /\ wire[s] # <<>>
    /\ LET frame == Head(wire[s])
           used  == IF frame.whole THEN 1 ELSE 2
       IN  /\ Len(wire[s]) >= used
           /\ wire' = [wire EXCEPT ![s] = SubSeq(@, used + 1, Len(@))]
           /\ back' = [back EXCEPT ![s] = Append(@, frame.req)]
           /\ applied' = [applied EXCEPT ![frame.req] = @ + 1]
    /\ answered' = answered \cup {s}
    /\ UNCHANGED <<pc, result, over, broken, proven, cur, open, up, refused,
                   overflow, closer>>

\* The program ends: its channel was closed, the connection dropped, it died.
Exit(s) ==
    /\ s \in up
    /\ up' = up \ {s}
    /\ UNCHANGED <<pc, result, over, broken, proven, cur, open, refused, wire,
                   back, answered, applied, overflow, closer>>

\* Close: nothing is reopened from here on ...
CloseBegins ==
    /\ closer = "no" /\ closer' = "closing"
    /\ UNCHANGED <<stream, pc, result, over, broken, proven, applied, overflow>>

\* ... and the stream that is current now is ended.
CloseEnds ==
    /\ closer = "closing" /\ closer' = "done"
    /\ open' = open \ {cur}
    /\ UNCHANGED <<pc, result, over, broken, proven, cur, up, refused, wire, back,
                   answered, applied, overflow>>

\* Every request has returned: nothing has to happen any more.
Rest == (\A r \in Requests : pc[r] = "done") /\ UNCHANGED vars

Step(r) ==
    \/ Enter(r) \/ RefuseReopen(r) \/ Restart(r) \/ Open(r) \/ OpenFails(r)
    \/ Expired(r) \/ BeginWrite(r) \/ WriteEnds(r)
    \/ Receive(r) \/ ReadFails(r) \/ Abandon(r)

Next ==
    \/ \E r \in Requests : Step(r) \/ Send(r) \/ SendFails(r) \/ CtxEnds(r)
    \/ \E s \in Streams : Serve(s) \/ Exit(s)
    \/ CloseBegins \/ CloseEnds \/ Rest

(***************************************************************************)
(* Goroutines run, p.mu is handed on, and every operation has a deadline   *)
(* (session.OperationContext).  The program need not ever answer, nor read *)
(* what it is sent.                                                        *)
(***************************************************************************)
Fairness == \A r \in Requests : WF_vars(Step(r)) /\ WF_vars(CtxEnds(r))

Spec == Init /\ [][Next]_vars
FairSpec == Spec /\ Fairness
-----------------------------------------------------------------------------
Frames == [req : Requests, whole : BOOLEAN]

TypeOK ==
    /\ pc \in [Requests -> {"new", "reopening", "opening", "sending", "writing",
                            "waiting", "done"}]
    /\ result \in [Requests -> Requests \cup {NoAnswer, Failed}]
    /\ over \in SUBSET Requests
    /\ broken \in {"no", "torn", "lost", "abandoned"}
    /\ proven \in BOOLEAN
    /\ cur \in Streams
    /\ open \in SUBSET Streams /\ up \in SUBSET Streams
    /\ refused \in SUBSET Streams /\ answered \in SUBSET Streams
    /\ wire \in [Streams -> Seq(Frames)]
    /\ back \in [Streams -> Seq(Requests)]
    /\ applied \in [Requests -> Nat]
    /\ overflow \in 0..MaxOverflow
    /\ closer \in {"no", "closing", "done"}

(***************************************************************************)
(* "Returning one file's bytes for another ... the one failure mode this   *)
(* project treats as unacceptable": what a request returns is an error or  *)
(* its own answer, whatever was abandoned or half written before it.       *)
(***************************************************************************)
AnswerIsOwn == \A r \in Requests : result[r] \in {NoAnswer, Failed, r}

(***************************************************************************)
(* "A rename retried on a guess is applied twice": no request is carried   *)
(* out more than once, and one that returned an answer exactly once.       *)
(***************************************************************************)
AppliedAtMostOnce ==
    \A r \in Requests : applied[r] <= 1 /\ (result[r] = r => applied[r] = 1)

(***************************************************************************)
(* While a request is about to be sent, or being written, the stream it    *)
(* uses carries nothing else: no frame, whole or torn, and no answer is    *)
(* left from before.                                                       *)
(***************************************************************************)
StreamIsQuiet ==
    (\E r \in Requests : pc[r] \in {"sending", "writing"})
        => wire[cur] = <<>> /\ back[cur] = <<>>

(***************************************************************************)
(* What reach reads is never taken for something else: no answer is given  *)
(* to a request it does not belong to, and nothing is left on a stream     *)
(* from which that could happen.                                           *)
(***************************************************************************)
NothingIsMixedUp == AnswerIsOwn /\ StreamIsQuiet

\* reopen: the old program's channel is closed before a new one is opened.
OneProgram == Cardinality(open) <= 1

(***************************************************************************)
(* "Only a program that has worked is worth starting again": every program *)
(* but the last answered a request, or the target had no channel for it.   *)
(***************************************************************************)
RestartsAreEarned == \A s \in 1..(cur - 1) : s \in answered \cup refused

(***************************************************************************)
(* A program is started again only for a reason, and only in the place of  *)
(* the one before it.                                                      *)
(***************************************************************************)
RestartsAreOrderly == OneProgram /\ RestartsAreEarned

(***************************************************************************)
(* Every request returns, though the program never answers, dies, or       *)
(* another request holds the stream; the one thing that can keep a request *)
(* waiting for ever is a write to a program that runs and has stopped      *)
(* reading, its own or that of the request which holds p.mu.               *)
(***************************************************************************)
EveryRequestReturns ==
    \A r \in Requests :
        <>(pc[r] = "done") \/ <>[](\E q \in Requests : Blocked(q))

(***************************************************************************)
(* roundTrip "sends one request and waits for its response, honouring      *)
(* ctx": by the end of its context every request has returned.  This is    *)
(* NOT what the code does (HandlerBlocked.cfg).                            *)
(***************************************************************************)
HonoursContext == \A r \in Requests : <>(pc[r] = "done")

(***************************************************************************)
(* Close "also bars reopen, so a Close racing an in-flight request cannot  *)
(* be undone by that request's recovery path": once Close has returned and *)
(* no request is under way, no stream is open.                             *)
(***************************************************************************)
CloseIsFinal == closer = "done" /\ Holding = {} => open = {}

(***************************************************************************)
(* An abandoned request reports that "the next file operation starts a new *)
(* one", and the pool takes the member back on the strength of that: the   *)
(* next request is not refused because an earlier one was abandoned.       *)
(***************************************************************************)
AbandonedIsReplaced ==
    [][\A r \in Requests :
         pc[r] = "reopening" /\ broken = "abandoned" /\ ~Closed
             => pc'[r] \in {"reopening", "opening"}]_vars
=============================================================================
