------------------------------ MODULE ExecServe ------------------------------
(***************************************************************************)
(* The exec-server's request loop and its sequencer: Serve and dispatch of *)
(* internal/execserver/execserver.go, order.go, and the handlers of        *)
(* process.go and fs.go as far as one request can tell another's effect.   *)
(*                                                                         *)
(* Requests are numbered in wire order; request i runs in goroutine i, or  *)
(* in the reading loop itself when it must be answered first.  A request   *)
(* is [op, on]: an operation and what it addresses.                        *)
(*   set    fs/writeFile, createDirectory, remove, copy, open, close       *)
(*   get    fs/readFile, getMetadata, canonicalize, readDirectory,         *)
(*          readBlock                                                      *)
(*   write  process/write      stop   process/signal, process/terminate    *)
(*   start  process/start      poll   process/read                         *)
(*   init   initialize                                                     *)
(* A path or handle is worth the number of the last request that set it.   *)
(***************************************************************************)
EXTENDS Integers, Sequences, FiniteSets

CONSTANTS
    Keys,        \* the paths and handles requests are about
    Procs,       \* the process ids requests are about
    MaxRequests, \* bound: requests the client sends
    Offers       \* what the client may send as its i-th request

Ids == 1..MaxRequests

Requests ==
    [op : {"set", "get"}, on : Keys]
        \cup [op : {"write", "start", "stop", "poll"}, on : Procs]
        \cup [op : {"init"}, on : {"server"}]

ASSUME ServeAssumption ==
    /\ Keys \cap Procs = {}
    /\ MaxRequests \in Nat
    /\ Offers \in [Ids -> SUBSET Requests]

VARIABLES
    log,       \* the requests read so far, in wire order
    pc,        \* where each request's goroutine is
    answer,    \* what each request was answered
    got,       \* what a get saw
    after,     \* the slot each request waits for; 0: none
    tails,     \* q.tails: the last slot of each key; 0: no entry
    loop,      \* where Serve is
    dying,     \* the processes Serve found running after the client was gone
    ready,     \* s.sawInitialize
    content,   \* what each path or handle holds
    proc,      \* each process on the target; "none" is not in s.processes
    killed,    \* processes whose stream has been closed
    stdin      \* what has been written to each process, in order

vars == <<log, pc, answer, got, after, tails, loop, dying, ready, content, proc,
          killed, stdin>>

Read == 1..Len(log)

\* Mutant of OrderKey: the escape hatch queues like everything else.
OrderKeyStops(r) == IF r.op \in {"set", "get", "write", "stop"} THEN {r.on} ELSE {}

\* What a request queues for, if anything.
OrderKey(r) == IF r.op \in {"set", "get", "write"} THEN {r.on} ELSE {}

\* Later requests address these by name: answered in the reading loop.
Synchronous(r) == r.op \in {"init", "start"}

Init ==
    /\ log = <<>>
    /\ pc = [i \in Ids |-> "unread"]
    /\ answer = [i \in Ids |-> "none"]
    /\ got = [i \in Ids |-> 0]
    /\ after = [i \in Ids |-> 0]
    /\ tails = [k \in Keys \cup Procs |-> 0]
    /\ loop = "reading" /\ dying = {}
    /\ ready = FALSE
    /\ content = [k \in Keys |-> 0]
    /\ proc = [p \in Procs |-> "none"]
    /\ killed = {}
    /\ stdin = [p \in Procs |-> <<>>]

target == <<content, proc, killed, stdin>>
-----------------------------------------------------------------------------
\* Start registers the process, unless its id is taken or nothing opens.  (Every
\* process here takes input; one that does not answers each write stdinClosed.)
Start(i, p) ==
    \/ /\ proc[p] # "none"
       /\ answer' = [answer EXCEPT ![i] = "invalid"]
       /\ UNCHANGED proc
    \/ /\ proc[p] = "none"
       /\ proc' = [proc EXCEPT ![p] = "running"]
       /\ answer' = [answer EXCEPT ![i] = "ok"]
    \/ /\ proc[p] = "none"
       /\ answer' = [answer EXCEPT ![i] = "failed"]
       /\ UNCHANGED proc

\* signal and terminate: the stream of a process that has not exited is closed.
Stop(p) == killed' = IF proc[p] = "running" THEN killed \cup {p} ELSE killed

\* handle, for every request that is answered without waiting for a process (a
\* poll waits, but no longer than its deadline).
Handle(i, r) ==
    \/ /\ ~ready /\ r.op # "init"
       /\ answer' = [answer EXCEPT ![i] = "refused"]
       /\ UNCHANGED <<got, ready, target>>
    \/ /\ r.op = "init"
       /\ ready' = TRUE
       /\ answer' = [answer EXCEPT ![i] = "ok"]
       /\ UNCHANGED <<got, target>>
    \/ /\ ready /\ r.op = "set"
       /\ content' = [content EXCEPT ![r.on] = i]
       /\ answer' = [answer EXCEPT ![i] = "ok"]
       /\ UNCHANGED <<got, ready, proc, killed, stdin>>
    \/ /\ ready /\ r.op = "get"
       /\ got' = [got EXCEPT ![i] = content[r.on]]
       /\ answer' = [answer EXCEPT ![i] = "ok"]
       /\ UNCHANGED <<ready, target>>
    \/ /\ ready /\ r.op = "start"
       /\ Start(i, r.on)
       /\ UNCHANGED <<got, ready, content, killed, stdin>>
    \/ /\ ready /\ r.op = "stop"
       /\ Stop(r.on)
       /\ answer' = [answer EXCEPT ![i] = "ok"]
       /\ UNCHANGED <<got, ready, content, proc, stdin>>
    \/ /\ ready /\ r.op = "poll"
       /\ answer' = [answer EXCEPT ![i] = IF proc[r.on] = "none" THEN "unknown" ELSE "ok"]
       /\ UNCHANGED <<got, ready, target>>
    \/ /\ ready /\ r.op = "write" /\ proc[r.on] # "running"
       /\ answer' = [answer EXCEPT ![i] = IF proc[r.on] = "none" THEN "unknown"
                                                                 ELSE "stdinClosed"]
       /\ UNCHANGED <<got, ready, target>>

\* The loop reads request i.
Log(i, r) ==
    /\ loop = "reading" /\ Len(log) < MaxRequests
    /\ i = Len(log) + 1 /\ r \in Offers[i]
    /\ log' = Append(log, r)

\* initialize and process/start are answered before the next frame is read.
ReadSynchronous(i, r) ==
    /\ Synchronous(r) /\ Log(i, r)
    /\ Handle(i, r)
    /\ pc' = [pc EXCEPT ![i] = "done"]
    /\ UNCHANGED <<after, tails, loop, dying>>

\* Mutant of ReadConcurrent: the new tail is installed before the old one is read.
ReadConcurrentSwapped(i, r) ==
    /\ ~Synchronous(r) /\ Log(i, r)
    /\ pc' = [pc EXCEPT ![i] = "waiting"]
    /\ tails' = [k \in DOMAIN tails |-> IF k \in OrderKey(r) THEN i ELSE tails[k]]
    /\ after' = [after EXCEPT ![i] = IF OrderKey(r) = {} THEN 0 ELSE i]
    /\ UNCHANGED <<answer, got, loop, dying, ready, target>>

\* enter: the request's place is taken here, where the client's order is known.
ReadConcurrent(i, r) ==
    /\ ~Synchronous(r) /\ Log(i, r)
    /\ pc' = [pc EXCEPT ![i] = "waiting"]
    /\ after' = [after EXCEPT ![i] =
                    IF OrderKey(r) = {} THEN 0 ELSE tails[CHOOSE k \in OrderKey(r) : TRUE]]
    /\ tails' = [k \in DOMAIN tails |-> IF k \in OrderKey(r) THEN i ELSE tails[k]]
    /\ UNCHANGED <<answer, got, loop, dying, ready, target>>

\* The client is gone: no request is read any more.
EndOfInput ==
    /\ loop = "reading"
    /\ loop' = "draining"
    /\ UNCHANGED <<log, pc, answer, got, after, tails, dying, ready, target>>

\* wait returns: the request in front has been answered.
Proceed(i) ==
    /\ pc[i] = "waiting"
    /\ after[i] # 0 => pc[after[i]] = "done"
    /\ pc' = [pc EXCEPT ![i] = "running"]
    /\ UNCHANGED <<log, answer, got, after, tails, loop, dying, ready, target>>

\* dispatch: the request has its effect and is answered.
Dispatch(i) ==
    /\ pc[i] = "running"
    /\ Handle(i, log[i])
    /\ pc' = [pc EXCEPT ![i] = "answered"]
    /\ UNCHANGED <<log, after, tails, loop, dying>>

\* A write to a process that runs: it blocks in stdin.Write.
Write(i) ==
    /\ pc[i] = "running" /\ log[i].op = "write" /\ ready
    /\ proc[log[i].on] = "running"
    /\ pc' = [pc EXCEPT ![i] = "writing"]
    /\ UNCHANGED <<log, answer, got, after, tails, loop, dying, ready, target>>

\* The process reads, or its pipe has room: the chunk is in.  It need not happen.
WriteTaken(i) ==
    /\ pc[i] = "writing" /\ log[i].on \notin killed
    /\ proc[log[i].on] = "running"
    /\ stdin' = [stdin EXCEPT ![log[i].on] = Append(@, i)]
    /\ answer' = [answer EXCEPT ![i] = "ok"]
    /\ pc' = [pc EXCEPT ![i] = "answered"]
    /\ UNCHANGED <<log, got, after, tails, loop, dying, ready, content, proc, killed>>

\* The process is gone, or its stream was closed: stdin.Write returns an error.
WriteFails(i) ==
    /\ pc[i] = "writing"
    /\ log[i].on \in killed \/ proc[log[i].on] = "exited"
    /\ answer' = [answer EXCEPT ![i] = "failed"]
    /\ pc' = [pc EXCEPT ![i] = "answered"]
    /\ UNCHANGED <<log, got, after, tails, loop, dying, ready, target>>

\* Mutant of Untail: the key goes, whoever is queued.
UntailAlways(i) ==
    /\ pc[i] = "answered"
    /\ tails' = [k \in DOMAIN tails |-> IF k \in OrderKey(log[i]) THEN 0 ELSE tails[k]]
    /\ pc' = [pc EXCEPT ![i] = "releasing"]
    /\ UNCHANGED <<log, answer, got, after, loop, dying, ready, target>>

\* Mutant of Untail: an entry is kept for every key ever used.
UntailNever(i) ==
    /\ pc[i] = "answered"
    /\ pc' = [pc EXCEPT ![i] = "releasing"]
    /\ UNCHANGED <<log, answer, got, after, tails, loop, dying, ready, target>>

\* done, under q.mu: the key goes if nothing queued behind this request.
Untail(i) ==
    /\ pc[i] = "answered"
    /\ tails' = [k \in DOMAIN tails |-> IF tails[k] = i THEN 0 ELSE tails[k]]
    /\ pc' = [pc EXCEPT ![i] = "releasing"]
    /\ UNCHANGED <<log, answer, got, after, loop, dying, ready, target>>

\* done, then wg.Done: close(own) releases the request behind this one.
Release(i) ==
    /\ pc[i] = "releasing"
    /\ pc' = [pc EXCEPT ![i] = "done"]
    /\ UNCHANGED <<log, answer, got, after, tails, loop, dying, ready, target>>
-----------------------------------------------------------------------------
\* wg.Wait returns; the processes that run now are listed.
Drained ==
    /\ loop = "draining" /\ \A i \in Read : pc[i] = "done"
    /\ loop' = "killing"
    /\ dying' = {p \in Procs : proc[p] # "none"}
    /\ UNCHANGED <<log, pc, answer, got, after, tails, ready, target>>

\* ... and killed one by one, those that have not exited.
KillLeft(p) ==
    /\ loop = "killing" /\ p \in dying
    /\ dying' = dying \ {p}
    /\ Stop(p)
    /\ UNCHANGED <<log, pc, answer, got, after, tails, loop, ready, content, proc, stdin>>

\* Serve returns.
Return ==
    /\ loop = "killing" /\ dying = {}
    /\ loop' = "ended"
    /\ UNCHANGED <<log, pc, answer, got, after, tails, dying, ready, target>>

\* A process ends, by itself or because its stream was closed.
Exit(p) ==
    /\ proc[p] = "running"
    /\ proc' = [proc EXCEPT ![p] = "exited"]
    /\ UNCHANGED <<log, pc, answer, got, after, tails, loop, dying, ready, content,
                   killed, stdin>>

Rest == loop = "ended" /\ (\A p \in Procs : proc[p] # "running") /\ UNCHANGED vars

Goroutine(i) ==
    \/ Proceed(i) \/ Dispatch(i) \/ Write(i) \/ WriteTaken(i) \/ WriteFails(i)
    \/ Untail(i) \/ Release(i)

Shutdown == Drained \/ Return \/ \E p \in Procs : KillLeft(p)

Next ==
    \/ \E i \in Ids, r \in Requests : ReadSynchronous(i, r) \/ ReadConcurrent(i, r)
    \/ EndOfInput
    \/ \E i \in Read : Goroutine(i)
    \/ Shutdown
    \/ \E p \in Procs : Exit(p)
    \/ Rest

(***************************************************************************)
(* The scheduler runs the goroutines, a dispatched request other than a    *)
(* blocked write has a deadline, and a process whose stream is closed      *)
(* ends.  The client need not leave, and a process need neither read its   *)
(* input nor end by itself.                                                *)
(***************************************************************************)
Fairness ==
    /\ \A i \in Ids : WF_vars(i \in Read /\ (Proceed(i) \/ Dispatch(i) \/ Write(i)))
    /\ \A i \in Ids : WF_vars(i \in Read /\ (WriteFails(i) \/ Untail(i) \/ Release(i)))
    /\ WF_vars(Shutdown)
    /\ \A p \in Procs : WF_vars(p \in killed /\ Exit(p))

Spec == Init /\ [][Next]_vars
FairSpec == Spec /\ Fairness
-----------------------------------------------------------------------------
TypeOK ==
    /\ log \in Seq(Requests) /\ Len(log) <= MaxRequests
    /\ pc \in [Ids -> {"unread", "waiting", "running", "writing", "answered",
                       "releasing", "done"}]
    /\ answer \in [Ids -> {"none", "ok", "refused", "invalid", "unknown",
                           "stdinClosed", "failed"}]
    /\ got \in [Ids -> 0..MaxRequests]
    /\ after \in [Ids -> 0..MaxRequests] /\ \A i \in Ids : after[i] < i
    /\ tails \in [Keys \cup Procs -> 0..MaxRequests]
    /\ loop \in {"reading", "draining", "killing", "ended"}
    /\ dying \in SUBSET Procs /\ killed \in SUBSET Procs
    /\ ready \in BOOLEAN
    /\ content \in [Keys -> 0..MaxRequests]
    /\ proc \in [Procs -> {"none", "running", "exited"}]
    /\ stdin \in [Procs -> Seq(Ids)]

\* The requests in front of i that set the same path or handle, and were let to.
SetsBefore(i) ==
    {j \in 1..(i - 1) : log[j] = [op |-> "set", on |-> log[i].on] /\ answer[j] = "ok"}

(***************************************************************************)
(* "A client that sends fs/writeFile and then fs/readFile for one path     *)
(* without waiting for the first response has stated an order": a get sees *)
(* the last set in front of it on the wire, whatever runs concurrently.    *)
(***************************************************************************)
GetSeesWireOrder ==
    \A i \in Read : log[i].op = "get" /\ answer[i] = "ok" =>
        /\ got[i] \in SetsBefore(i) \cup {0}
        /\ \A j \in SetsBefore(i) : j <= got[i]

(***************************************************************************)
(* "Two chunks written to one stdin in the order the client sent them":    *)
(* what a process is given is in wire order.                               *)
(***************************************************************************)
StdinInWireOrder ==
    \A p \in Procs : \A m, n \in 1..Len(stdin[p]) : m < n => stdin[p][m] < stdin[p][n]

(***************************************************************************)
(* "A pipelined client must never see 'unknown process id' for a start it  *)
(* already sent": nothing sent after a start that succeeded, or after the  *)
(* handshake, is answered as if it had come first.                         *)
(***************************************************************************)
StartIsSeen ==
    \A i, j \in Read : i < j /\ answer[i] \in {"none", "ok"} =>
        /\ log[i].op = "init" => answer[j] # "refused"
        /\ log[i].op = "start" /\ answer[i] = "ok" /\ log[j].on = log[i].on
               => answer[j] # "unknown"

(***************************************************************************)
(* What a pipelined client can tell from the answers, and a process from   *)
(* its input, agrees with the order of the wire: files, input and starts.  *)
(***************************************************************************)
WireOrderIsKept == GetSeesWireOrder /\ StdinInWireOrder /\ StartIsSeen

(***************************************************************************)
(* The sequencer's map does not grow with every path ever touched, and a   *)
(* new request never queues behind one that has already left: an entry is  *)
(* the last request for its key, and that request has not been answered.   *)
(***************************************************************************)
TailsAreLive ==
    \A k \in DOMAIN tails : tails[k] # 0 =>
        /\ tails[k] \in Read /\ k \in OrderKey(log[tails[k]])
        /\ pc[tails[k]] \in {"waiting", "running", "writing", "answered"}
        /\ \A j \in (tails[k] + 1)..Len(log) : k \notin OrderKey(log[j])

(***************************************************************************)
(* process/terminate is "the escape hatch": it ends the process even when  *)
(* a write is blocked because the process does not read its input.         *)
(***************************************************************************)
EscapeHatch ==
    \A i \in Ids, p \in Procs :
        (/\ i \in Read /\ log[i] = [op |-> "stop", on |-> p]
         /\ pc[i] \in {"waiting", "running"} /\ ready /\ proc[p] = "running")
            ~> proc[p] # "running"

(***************************************************************************)
(* The queues for the keys cannot deadlock: every request is answered, and *)
(* the one behind it released, unless a process that neither reads nor     *)
(* ends has a write blocked.                                               *)
(***************************************************************************)
EveryRequestAnswered ==
    (\A p \in Procs : []<>(proc[p] # "running"))
        => \A i \in Ids : (pc[i] = "waiting") ~> (pc[i] = "done")

(***************************************************************************)
(* Nothing waits for good behind a process: what ends the process gets     *)
(* past what it blocks, and without such a process every queue empties.    *)
(***************************************************************************)
QueuesMove == EscapeHatch /\ EveryRequestAnswered

(***************************************************************************)
(* "The client is gone ... leaving an agent's build running after the      *)
(* harness exits would be exactly the orphaned-process failure": when the  *)
(* input ends, the processes end.                                          *)
(***************************************************************************)
NothingOutlivesClient ==
    (loop = "draining") ~> (\A p \in Procs : proc[p] # "running")
=============================================================================
