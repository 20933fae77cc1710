# A TLA+ model of AgentReach

AgentReach (`reach`) lets an AI coding agent that runs on one machine work on
another one. Shell commands, file operations and edits are carried to a target
over ssh, `docker exec` or a local shell, without a daemon on the target.

The specifications here model the parts of `reach` that keep state, run
concurrently or have to survive failure. TLC checks them on small instances.
TLAPS proves the safety properties of all of them for every instance.

    tlc -config FilePool.cfg MCFilePool      one run
    tlapm FilePoolProofs.tla                 the proofs
    PROJECT.json                             runs, mutants, source map, hazards

## The system

| Component (source) | State | Operations | Hard because |
|---|---|---|---|
| File-operation pool (`internal/fileops/pool.go`) | `idle`, `live`, `closed`, a condition variable | `get`, `put`, `grow`, `waitForFree`, `Close` | callers contend, contexts end, opening fails, `Signal` wakes one |
| File handler client (`internal/fileops/pipe.go`) | the stream, `broken`, `proven`, `closed` | `roundTrip`, `open`, `reopen`, `Close` | abandoned answers, torn frames, restarts, `Close` at any time |
| Far-end handlers (`handler.py`, `cmd/reach-helper`) | files and temporaries of the target | one loop: read a frame, do it, answer | goes on after `reach` has given up on it |
| File strategies (`posix.go`, `select.go`, `probe.go`, `helper.go`) | the installed helper, the recorded capabilities | probe, choose, install, verify, uninstall; shell scripts | a script may fail or be cut between two programs; several reaches share one helper |
| Exec-server loop and sequencer (`internal/execserver/execserver.go`, `order.go`) | `tails`, `processes`, `sawInitialize` | `Serve`, `dispatch`, `enter`/`wait`/`done` | requests run concurrently, yet wire order must show |
| Exec-server processes (`process.go`) | chunks, `nextSeq`, `exited`, `closed`, `notifyCh`, write ids | start, read, write, signal, terminate | two pumps, long polls, eviction, kill against exit |
| Exec-server files (`fs.go`) | `handles` | one request each | order only |
| Mirror and hooks (`internal/mirror/mirror.go`, `cmd/reach/hook.go`) | the local copy, one digest record per path | `Fetch`, `Prepare`, `Push` | every hook is a process; others write to the target; hooks are killed |
| Sessions (`internal/session`, `cmd/reach/target_first.go`, `session_cmds.go`, `exec_cmds.go`) | one JSON file and one directory file per session | `Save`, `Load`, `List`, `Remove`, up, down, a tool call | commands share files and a connection without a lock |
| Transports (`internal/transport`) | ssh's `overflow` and its masters; the bounded buffer; the stream filter's tail | `Run`, `RunStream`, `Overflow`, `Close`, `DetectMultiplexing` | channels are refused, masters go, a marker may be cut anywhere |
| Harness guard (`internal/harnessprobe`, `cmd/reach/harnessguard.go`) | a cache file of verdicts, one probe's mock server | `Verify`, `Gate`, `StoreVerdict`, launch | measures a program that may hang, refuse or lie; processes share the cache |
| Audit log, envelope, launchers, commands | append-only log, generated files | one shot each | no protocol |

How they meet: a command, a hook or the exec-server loads a **session** and
builds a **transport** from it. File operations go through the **pool**, whose
members are **strategies** chosen when the session was made; two of them are a
**handler client**, which owns one stream of the transport to one far-end
**handler**, the third runs a shell script per operation. When a stream has no
channel the client asks the transport to move on (`Overflow`). The exec-server
dispatches each request in a goroutine; requests about one path or one process
queue in the sequencer. A process's pumps write to the buffer that
`process/read` pages through. Hooks call the **mirror**, which uses the same
file operations. Before a harness is launched the **guard** asks whether its
commands would reach the target at all.

What makes each correct:

* pool: a member is used by one caller; the number of members is bounded; every
  member is ended; no caller sleeps beside a free member;
* handler client: an answer belongs to the request that returns it; a request is
  carried out at most once; a program that never worked is not started again and
  again; a request ends when its context ends, unless a write is blocked for good;
* files on the target: a path holds a whole payload, or where a shell's upload ended
  early; a write answers truly and leaves nothing behind; a read returns what was
  there;
* strategies: only a helper that identified itself is started, none that did not is
  left behind, and the tier is the one asked for or a reported one below it;
* exec-server: effects that a client can tell apart follow the wire order, and the
  queues cannot deadlock;
* process output: nothing is skipped, the exit comes after the output, and a waiting
  read wakes;
* mirror: no edit is pushed from a stale base; a reported one has arrived, but for
  the part that a shell's upload left;
* sessions: a saved session can be loaded, a call runs in a directory of its own
  target, and nobody takes the name or the connection of somebody else;
* transports: a command that ran is not run again, a refusal is true, `Close` closes
  what it opened; the status of a command is its own, and a part of its output is
  never taken for the whole;
* guard: a verdict is a measured fact, launches and refusals rest on verdicts, and a
  harness that hangs does not hang `reach`, as long as nothing it started keeps its
  output open.

## The modules

| Module | Models |
|---|---|
| `SharedMembers` | the abstract pool: members that are taken, made, given back and, once shut, discarded |
| `FilePool` | `pool.go`: refines `SharedMembers` |
| `Handler` | `pipe.go`: one handler client, its streams and the programs at their ends |
| `TargetFiles` | `posix.go`, `handler.py`, `cmd/reach-helper`: two files of the target under requests that take several steps |
| `Tiers` | `select.go`, `probe.go`, `helper.go`: choosing a strategy, installing and checking the helper |
| `ExecServe` | `execserver.go` and `order.go`: the loop, the sequencer and the shutdown; the handlers of `process.go` and `fs.go` as far as another request can tell |
| `ProcessOutput` | `process.go`: pumps, buffer, notifications, kill, exit and `process/read` |
| `Mirror` | `mirror.go` and `hook.go`: tool calls on one mirrored file |
| `Sessions` | session files, their directories and the shared connection under concurrent commands |
| `Connections` | `ssh.go`, `mux.go` and the retry loops: the multiplexed connections to one destination |
| `CommandOutput` | `exec.go`, `stream.go`: marker, bounded buffer and stream filter; what searches and listings make of a bounded output |
| `SeamProbe` | `probe.go`, `server.go` of `harnessprobe`: one probe of a harness against the mock model |
| `Guard` | `harnessguard.go`, `claude.go`, `cache.go`, `gate.go`: the guard before a launch, over the cache of verdicts; extends `SeamProbe` |
| `MC*` | the instances TLC checks |
| `FilePoolProofs`, `TiersProofs`, `ConnectionsProofs`, `HandlerProofs`, `GuardProofs`, `TargetFilesProofs`, `ExecServeProofs`, `SessionsProofs` | the theorems |

How they fit together. `Handler` stands for one member of `FilePool`: the pool's
`Grow` is `startHandler`, its `CloseMember` and `PutClosed` are `Close` there, and
the pool is why `Handler`'s requests could come one at a time (`p.mu` makes them
do so in any case). Which kind of member that is `Tiers` decides, and what a
request of it does on the target is a path of `TargetFiles`; `Handler`'s `Serve`
is that path in one step. `Handler`'s `Overflow` is `MoveOn` of `Connections`, and
`Finish` and `Cut` there are what `CommandOutput` says of a marker that did or
did not arrive. `Close` and `Probe` of `Sessions` are `Sweep` and the probe of
`Connections`, for a host as a whole. `ProcessOutput` is one entry of
`ExecServe`'s `proc`: `Start` creates it, `Stop` is `Aim`, `Mark` and `Kill`, and
`Exit` is `Settle`. `Mirror`'s `BeginRead` and `Read` are the
two ends of a read of `TargetFiles`, and what its `Parts` are, a read there shows:
blocks of several contents. `Write` is a whole write there.

### FilePool

An action is one critical section of `p.mu`, or one step outside it. `LoopBody`
is one pass of `get`'s loop: fail on a closed pool, take an idle member, reserve a
slot, or wait. `Get`, `Resume` and `Retry` reach it from outside, after a wait and
after a failed grow. `waitForFree` starts a watcher for each wait; it is in
`watching` while its wait lasts, in `late` if it has not run by the end of it, and
in `firing` between the end of the context and its broadcast. `Put` wakes any one
waiter. `idle` is a set: which member comes next matters to no property.

### Handler

A stream is a number; the current one is `cur`. Frames travel as `[req, whole]`: a
frame that is not whole is completed by whatever is written next, which is how a
torn write would turn one request into another. `broken`, `proven` and `closer` are
the fields of the same names (`first` in the code is the negation of `proven`).
`Restart` is the part of `reopen` before the new channel exists, `Open` the part
that installs it; between them another goroutine may run `Close`. `Serve` and `Exit`
are the far end, which need not answer, and which goes on with what it was sent
after `reach` has closed the channel. `BeginWrite` and `WriteEnds` are the two ends
of the writes in `roundTrip`: in between the request holds `p.mu`, and its context
is of no use to it (`Blocked`). The first write of a stream carries the handler
itself, some ten kilobytes of base64, which a pipe takes whether or not it is read.

### ExecServe

Request `i` is the `i`-th on the wire. `ReadSynchronous` answers `initialize` and
`process/start` in the loop; `ReadConcurrent` takes the request's place in the
sequencer (`after`, `tails`) and starts a goroutine. `Untail` and `Release` are
the two halves of `done`. A `write` to a running process blocks until the process
takes it (`WriteTaken`, which need never happen), or its stream is closed.
`EndOfInput`, `Drained`, `KillLeft` and `Return` are the end of `Serve`.

### ProcessOutput

`Write` is `chunkWriter.Write` under `p.mu`, `Announce` the notification after it;
`pending` holds the number in between. `Flush`, `Settle`, `AnnounceEnd` and
`Close` are `runProcess` after its pumps. `asleep` is the set of readers that
hold the current `notifyCh`. A reader passes `maxBytes` always or never, and its
next `afterSeq` is `nextSeq - 1`, as in the tests and in the codex client.

### Mirror

A call is a pre-tool hook (`LookLocal`, `LookTarget`, `Read`, `Store`,
`RecordFetched`), the tool, and a post-tool hook (`Load`, `Consult`, `Verify`,
`Write`, `RecordPushed`). A content is named after who wrote it, and `from`
remembers what each edit was made from. A read takes time (`BeginRead`, then
`Read`): what the target held during it is in `during`, and if that was more than
one content, the read may return one of the `Parts` instead (`Readings`). A write
through a shell may leave a part and succeed, which `partly` remembers. A Prepare
that cannot read takes the file for absent (`misled`). `Killed` ends a hook between
any two steps; `Meddle` is anybody else who writes to the target.

### TargetFiles

A client is a reach process with one strategy. A file is a sequence of blocks, a
block being what one chunk of a read carries. A write is `OpenTmp`, a `Copy` for
each block, `EndOfInput`, `Chmod`, `Move`. Where the failure of a step ends the
write, `Ends`, `StepFails` is the cleanup: all of a handler's steps, but of a
shell's only the first and the last. The script's body stands to the left of `||`,
where a shell ignores `set -e`, so that `ShellGoesOn` follows a `cat`, a decoder or
a `chmod` that failed; `torn` remembers what such an upload ended with. A read is
`Stat`, `TestReadable` and `FetchByShell` for each chunk in a shell, which names the
file anew each time, and `FetchByHandler` in a handler. `Cut` ends a connection: the
shell on the target goes on with what had arrived (`EndOfInput`), whether or not a
decoder complains; a frame that had not arrived is never acted on. `Killed` ends the
program on the target.

### Tiers

A command is an `Up`, which probes and saves, or a `Call`, which uses the record.
`BuildHelper`, `BuildPipe` and `BuildPosix` are `build`; `BuildFails` goes one tier
down, or fails when the tier is pinned. A helper is `Known` by the record of the
session, or is asked for its version and digest (`Matches`, `Accept`), uploaded
(`Upload`) and asked again (`Check`), and taken away if it does not answer as it
should (`Reject`). All reaches of one version share one path on the target, which
`Uninstall` removes and `Rebuild` (a new build of the same version) devalues.

### Sessions

A record is named by the command that saved it. `OpenTmp`, `WriteTmp` and `Rename`
are `Save`; the temporary is indexed by the session's name, as in the code, and
`fd` remembers which file a process has open after another has renamed it.
`Pick` is `pickSessionName`, one name at a time, `Reuse` the rest of
`ensureSession`, `List` one record of `List` at a time. `muddled`, `torn` and
`moved` are histories that say which commands met; the properties except those
cases by name, because the code does.

### Connections

A connection is a control socket with a master behind it, named after the
destination and so met by every process. A step is one invocation of ssh, or what
ssh and sshd do: `Dial`, `Connect` (this ssh becomes the master), `Admit`, `Refuse`,
then `Finish`, `Cut` or `GiveUp`. `MoveOn` is `Overflow` and the next attempt. `refused`
remembers which request was refused by which connection; requests of one process
share its `overflow` and may both move it for one connection.
`FirstCheck` and `SecondCheck` are `DetectMultiplexing` around its `true`; `Sweep`
is one `ssh -O exit` of `Close`.

### CommandOutput

The output is a sequence of units that tell the properties apart what they need
to: records of two units, the marker, digits, and what a process left behind
prints later. `WriteCapped` and `WriteFiltered` take a piece of any length;
`Put` is one byte of the ring and `PutAll` the loop around it, a recursive function so
that it can be proved about. `Split` is `splitSentinel`. `Lines`, `Matches`,
`Search`, `Glob` and `ReadRange` are operators on the result of `Run`.

### SeamProbe and Guard

A probe is one `Verify`: the harness posts requests to the mock (`Post`), runs or
refuses the tool calls it is sent (`CallTool`), exits or hangs. An output may be
"bare": the canary came, the host name did not. `EndContext` is the deadline or a
signal, which kills the harness but not always what the harness started; `Conclude`
reads the verdict off what was recorded, once nobody holds the output any more. The
four dialects of `server.go` do the same but for the reading of an empty output
(`Told`); where four functions share a definition, the map names one of them for
each definition of the group. `Guard` adds the version lookup, which may be held in
the same way (`VersionHeld`), the cache (`Load`, `ReadCache`, `WriteCache`), the
launch and `Upgrade`, which replaces the binary behind a name at any time.
`measured`, `misfiled` and `broken` (verdicts that rest on a bare output) are
histories.

## The runs

| Run | Instance | Shows |
|---|---|---|
| `file_pool` | four callers, two members, one cancellable caller, failing opens, `Close` at any time | `OnePlace`, `WithinLimit`: members are never shared or lost and the count is right; `NoLostWakeup`, `NobodyIsForgotten`: one `Signal` per `put` is enough, every call returns and a closed pool drains; `RefinesSharedMembers` |
| `handler` | three requests over one handler, four programs, one spare connection | `NothingIsMixedUp`: own answers only; `AppliedAtMostOnce`; `RestartsAreOrderly`: one program at a time, replaced only for a reason; `EveryRequestReturns`, or waits for a write that is blocked for good |
| `exec_serve` | the handshake and up to four pipelined requests about one path and one process | `WireOrderIsKept`: files, input and starts follow the wire; `TailsAreLive`: no dead entry in the sequencer; `QueuesMove`: terminate gets past a blocked write, every request is answered |
| `process_output` | three chunks on two streams, a client that pages or not, a kill, a drop or a completion | `OutputIsKept`: only the oldest output is lost, only at the cap; `EndIsTold`: the exit is last and is what it was; `PollWakes` |
| `mirror` | two calls, failures, kills, a foreign change | calls that do not overlap push from the base they were shown (`EditKeepsItsBase`), are shown the target and refused for a reason (`AgentIsNotMisled`), and report what arrived (`SuccessIsReal`) |
| `target_files` | a shell and a handler, two files of one and two blocks, two requests each, two faults | `WholeUnlessTorn`: nothing but a shell's upload that ended early leaves a part; `WritesEndCleanly`, `ReadIsHonest` |
| `target_files_cut` | the same with one request each and one fault | a disagreement, see below |
| `tiers` | two processes, two sessions, two reaches of one version with a build each and an old build, four commands, one fault | `StartsOnlyVerified`, `NothingUntrustedStays`, `TierIsAsked` |
| `sessions` | two target-first commands whose targets derive one name, an up that repoints it, a tool call, a down, one kill | `ReadableUnlessTorn`, `CallRunsWhereItsSessionIs`, `OthersAreSpared` |
| `connections` | two requests of one process and a `reach up`, three connections of one channel each | `RetriedNeverRan`, `RefusalIsEarned`, `CloseCoversOwn` |
| `command_output` | all outputs of up to seven records, cut anywhere, in pieces of any size | `StatusIsTheCommands`, `NoPartForTheWhole` |
| `guard` | a launch and a verification, one harness, the two versions of it, an upgrade, a signal, kills | `CacheIsTrue`, `GuardActsOnEvidence`; `GuardDecides`: every guard decides, or something the harness started holds its output for ever |

Every property has a mutant of the code in PROJECT.json that violates it under the
bounds of its own run. A merged property such as `EndIsTold` is a conjunction
of parts with comments of their own in the module. A run whose module has no
type invariant in its list was checked with it before; `TypeOK` of `Tiers` and
`Connections` is proved.

Bounds. The interesting cases need few actors.

* `FilePool`: two members and four callers give a holder, a grower, a waiter and a
  newcomer at once; a third identity is for a member of the wrong tier.
* `Handler`: one request to break a stream, one to restart it and one to suffer
  from both; four programs and two overflows are more than three requests use up.
* `ExecServe`: `Offers` lets each position of the wire hold what matters there: a
  handshake or something before it, a start or a set, then writes, gets, a stop, a
  poll.
* `ProcessOutput`: the third write is larger than the buffer and evicts two chunks
  at once, and the first two fit one page or need two.
* `Mirror`: two calls are enough for a leftover of one to meet the other, and one
  foreign change to blend a read, to come between a comparison and a write, or to
  put back what a call has replaced. One member of `Parts` stands
  for every blend and every beginning: the code sees only that a digest differs.
* `TargetFiles`: a file of two blocks can be replaced between two chunks of a read,
  and an upload of two can be cut at each end and in the middle.
* `Tiers`: two reaches with builds of their own replace each other's helper; four
  commands are an up of each, something in between, and a call after it.
* `Sessions`: `Candidates` has the derived name and the digest's name; the numbered
  names between them behave like the derived one.
* `Connections`: one channel per connection makes the second request meet a
  refusal, two connections make it meet a second and be told. With three, one can
  be passed over that nobody tried, and a request still has one to be refused by. A
  `reach down` is what `MasterGoes` does to the masters it ends; `ConnectionsTwice.cfg`
  has one.
* `CommandOutput`: `Limit` 13 and `Floor` 6 leave a ring of 6, which seven records go
  round more than twice; a marker of two units and a status of two digits are cut
  at every place.
* `Guard`: a gemini that is upgraded to one that bypasses, its two versions being
  two entries of the cache. It holds one conversation. `GuardOther.cfg` has a second
  one, without a shell among its tools, and another harness, a kimi whose patched and
  stock binaries print one version; over its 1.8 million states the invariants were
  checked as well, and the proof is for any number of them.

Fairness. Goroutines that can run do run, which the Go scheduler guarantees.
In `Handler` a write ends unless the program is there and does not read (`Blocked`).
Contexts end in `Handler` because `session.OperationContext` gives every operation
a deadline. In `FilePool` operations end for the same reason. In `Guard` a reach
process goes on with its own steps and a probe's deadline comes
(`probe.go:121-126`). Nothing obliges a client to send, a process to read, write or
exit, a program to read or to answer, a harness or what it started to answer or to
close its output, a timer to fire or anybody to close.
`EveryRequestAnswered` therefore assumes, in its own statement, that no process
runs for ever, and `EveryCallReturns` that no context ends: a cancelled waiter is
where the pool's promise stops (see below). Neither says that a given caller is
not overtaken for ever by newcomers: `sync.Cond` does not promise that, and calls
are bounded. `Mirror`, `TargetFiles`, `Tiers`, `Sessions`, `Connections` and
`CommandOutput` state safety only: their commands are one shot, and whether a
third-party program returns is up to it.

`CHECK_DEADLOCK FALSE` is set where the system really stops: all commands are
over, or the output has been read.

## What is proved

Each under the named assumptions on the constants of its module alone, for any
sets of actors and any bounds.

`FilePoolProofs` (`PoolAssumption`: finite sets, `First` a member, `NoMember` not one,
natural limit and bound):

* `TypeCorrect`, `MembersInOnePlace`, `LimitKept`: `TypeOK`, `OnePlace`, `WithinLimit`;
* `GrowFailureIsAbsorbed`: a failed grow always leaves a slot some member holds;
* `WakeupsKept`: `NoLostWakeup`, that one `Signal` per `put` is enough;
* `PoolRefines`: the pool implements `SharedMembers`.

None of the safety invariants is inductive by itself. `OnePlace` needs to know
which callers hold a member (`HeldInUse`: exactly those that use one) and that
`Close` has something to end only after it closed the pool (`ClosingIsClosed`).
`WithinLimit` needs `OnePlace` to know that a member ended by `put` is
counted once. Their conjunction, `IInv`, is preserved by every action; a lemma per
action shows it, and `LoopBodyKeeps` serves the three actions that enter `get`'s
loop. `GrowFailureStaysInside` is part of the induction because a failed grow
must leave a slot behind it. `NoLostWakeup` needs `IInv` and the facts that a
closed pool has no idle member and that a caller in the pool has started an
operation (`WInv`). The refinement maps `free` to `idle \cup closing`, since a
member in the hands of `Close` is in service until it is ended.

`TiersProofs` (`TiersAssumption`):

* `TypeCorrect`;
* `VerifiedBeforeStart` (`StartsOnlyVerified`), `NothingUntrusted`
  (`NothingUntrustedStays`), `TierAsAsked` (`TierIsAsked`).

The invariant is `TypeOK` with three facts: what a session or a process remembers
of a helper was verified (`RecordsAreReal`); where a file on the target is not
verified and no step has failed, some process is between its upload and its check
of it (`DoubtIsPending`); and a process has come down the order of negotiation one
reported step at a time (`Descent`).

`ConnectionsProofs` (`ConnectionsAssumption`):

* `TypeCorrect`;
* `NothingRunsTwice` (`RetriedNeverRan`), `RefusalsAreEarned` (`RefusalIsEarned`),
  `CloseCovers` (`CloseCoversOwn`).

The invariant says that a request that is asking or has been refused has not run
(`NotYetRun`); that a transport has moved no further than it was refused channels,
each refusal being one move of one request, and that a request which alone moved
its transport was refused by every connection it left (`Counted`); and that a probe's
sweep has ended all connections before the one it is at, and has run ssh on none
beyond its current one (`Swept`).

`HandlerProofs` (`HandlerAssumption`):

* `TypeCorrect`;
* `AnswersAreOwn` (`NothingIsMixedUp`), `NoRequestTwice` (`AppliedAtMostOnce`),
  `RestartsHaveAReason` (`RestartsAreOrderly`).

The invariant says that one request at a time holds the stream (`TakesTurns`); that a
stream carries nothing, one frame or one answer, and that a whole frame on it was
not carried out yet while an answer was (`StreamsCarry`); that `broken` is "no" only
while the current stream carries nothing or what belongs to the request that waits
(`StreamIsTrusted`, the fact that `pipe.go` relies on in the place of a comparison of
ids); that results and applications agree (`Accounted`); and that only the current
stream is open and a restart had a reason (`Replaced`). The theorems are about
`Spec`: they need no fairness.

`GuardProofs` (`SeamAssumption`, `GuardAssumption`):

* `TypeCorrect`;
* `CacheHoldsFacts` (`CacheIsTrue`), `DecisionsRestOnEvidence` (`GuardActsOnEvidence`).

The invariant follows a verdict from where it arises to where it is used. What a
process saw of a command that ran to its end, in an output, in the record of the
mock or in its verdict, is where the probed binary runs it (`SawTheSeam`); a verdict
of "bypassed" may instead come from an output that broke off, and `broken` remembers
which. Everything a process
is about to act on, in the cache, in its copy of it or in its hands, was measured
(`Evidence`). The record keeps the last output that is not empty; that there is
one is the least-element principle of the naturals (`Least`, `Last`).

`TargetFilesProofs` (`TargetFilesAssumption`):

* `TypeCorrect`;
* `FilesStayWhole` (`WholeUnlessTorn`), `WritesAreClean` (`WritesEndCleanly`),
  `ReadsAreHonest` (`ReadIsHonest`).

The invariant is about one client at a time, and `Assemble` shows that a step of
another leaves it alone or only adds to what a reader may see. A temporary is a
beginning of its writer's payload, all of it or marked as torn when the copy is over,
and gone with the write (`TmpOK`); a write that is under way has replaced nothing yet
(`PlacedOK`); what a read has so far was in the path block by block, and is a
beginning of the content if there was only one (`ReadOK`).

`ExecServeProofs` (`ServeAssumption`):

* `TypeCorrect`;
* `ServesInWireOrder` (`WireOrderIsKept`), `TailsLive` (`TailsAreLive`).

The sequencer remembers one request per key and forgets it when it is answered, so
the invariant says what that is worth: of two requests for one key, the later one has
left the queue only when the earlier one is answered and has given up its place, and
while it waits it waits for one that is no earlier (`Queues`); a key without an entry
has nobody waiting (`Tails`). `Alone` follows: around a request that runs, those in front
are answered and those behind are not, whatever else is concurrent. With what the
target holds traced to answered requests (`Effects`), every answer fits the wire
(`AnswerFits`). A write that blocks for good is covered: it only keeps those behind
it waiting.

`SessionsProofs` (`SessionsAssumption`, `DigestAssumption`):

* `TypeCorrect`;
* `Readable` (`ReadableUnlessTorn`), `RunsWhereItsSessionIs`
  (`CallRunsWhereItsSessionIs`), and the action properties `NamesOfOthers` and
  `HostsOfOthers`, together `Spared` (`OthersAreSpared`).

A session has no lock, so the invariant says what the file system and the order of
steps give instead. A file is the inode of one saver and of one name for good,
wherever a rename has put it (`Inodes`). Where no two commands saved at once, at most
one has a name's temporary in its hands, and it writes into no other file
(`Writers`); `BodyStands` follows: what a session's file holds changes only by
a rename or a removal. Where in addition nobody repointed a name in use, the
record, the directory and every call that uses the name mean one target, or the
command that repointed it is about to record the directory (`Agreement`). A down's
list is complete as far as it has come, except for what was saved meanwhile
(`Listed`), and a search settles on its own target's name (`Found`). The last needs
`DigestAssumption`: the name of last resort ends in three bytes of a SHA-256, so that
two targets could share it, or somebody could type it; `pickSessionName` takes it
without a look at who holds it.

The second half of that module is about `Mirror` (`MirrorAssumption`), which it
extends as well; `Mirror`'s specification is `MirrorSpec` so that the two do not meet:

* `MirrorTypes`; `KeepsItsBase` (`EditKeepsItsBase`), `NotMisled`
  (`AgentIsNotMisled`), `Real` (`SuccessIsReal`).

Three facts hold though calls overlap: what a hook has fetched was on the target or
is a blend that some read made, what is recorded was one of these or what a broken
write was to be, and what a call may have found there is known (`Known`). As long as
no two calls have overlapped, at most one is active and may rely on what its own
hooks left between their steps: the record is the copy before the tool runs and what
the tool was shown after it (`InPre`, `InPost`). A killed or failed hook leaves a
record and a copy that differ, which `LookLocal` then notices, so that nothing need
be known of them between calls.

The second half of `ExecServeProofs` is about `ProcessOutput` (`OutputAssumption`),
whose specification is `OutputSpec`:

* `OutputTypes`; `OutputKept` (`OutputIsKept`), `EndTold` (`EndIsTold`).

Three facts carry it. The chunk made i-th has the number i, and begins where the one
before it ended (`Numbered`); the buffer is an end of all output, within the cap unless
it is one chunk, and what it lost last would not have fitted (`Retains`). Sizes of
stretches are therefore differences of offsets, and what `Write` evicts and what
`process/read` pages out of the buffer are stretches with a least and a
greatest index (`EvictFacts`, `PageFacts`). A notification is of a chunk, of the exit
or of the close, and one that is still to be sent has a number above those its
stream has sent (`Announced`, `Ordered`); that the exit is sent after all output
rests on `runProcess` waiting for both pumps (`Ending`), since no lock orders
the writers. For each reader: what it was given ascends up to its `afterSeq`, and
what the buffer still holds up to there it was given (`Follows`).

The second half of `ConnectionsProofs` is about `CommandOutput` (`CommandAssumption`),
whose specification is `CommandSpec`:

* `CommandTypes`; `StatusTrue` (`StatusIsTheCommands`), `NoPartPassedOff`
  (`NoPartForTheWhole`).

`CommandAssumption` asks that the marker, the status and its newline fit in the tail,
and the status in what the filter holds back beside the marker. The smallest limit
`reach` asks for is 4 KiB, hence a tail of 2 KiB for some forty bytes. That no command
prints the marker is how the model is made: `newSentinel` draws it at random.

`CommandInv` says of every state what the writer and the filter hold of what has
arrived. The head is the beginning of it, and the ring holds the last of the rest in
its order, whichever place it is at (`RingHolds`); what a stream has handed on and
what it holds back is all of it, and the latter is no longer than `Hold`
(`Filtered`). `PutHolds` is the step of the ring, with its two cases of a place that
is filled or written again. The loop around it is a recursive function: `PutAllHolds`
takes the shortest piece for which it were undefined or left the ring otherwise, and
a shorter one would do (`Least`). What `Bytes` returns is therefore two ends of
`Wrapped` with a notice between (`BytesAre`). The units of `Wrapped` come in the order
of their kinds (`KindsInOrder`), so a marker can be found in one place only and the
digits behind it are the status or there is none (`SplitFinds`, `SplitEnds`). A
search is complete since the records of an output without a gap are its even
units (`EvensCount`, `NthEven`), counted by cardinality.

Liveness (`NobodyIsForgotten`, `EveryRequestReturns`, `QueuesMove`, `PollWakes`,
`GuardDecides`) is model-checked only: fairness and ENABLED are outside what the
prover does. Every safety property of the runs, state or action, is
the subject of a theorem. What a recursive definition computes cannot be proved by
the library's induction theorems, whose parameter is an operator; for the one that
matters, the loop of `capWriter.Write`, the proof goes by a least counterexample.

## Disagreements

Where the code does something else than its own text says. The first is a
run of PROJECT.json, which quotes the text. The others are properties that stand in
their modules as "NOT what the code does".

* `FileIsWhole` (`target_files_cut`): a shell's upload whose connection is cut
  replaces the file by what had arrived. `cat` takes the cut for the end of the
  payload. A decoder may notice and fail, but the script's body stands to the left
  of `||`, where a shell ignores `set -e`: `chmod` and `mv` follow all the same
  (`posix.go:183-185` against 206-217).

These are violated under the configuration named, once they are its only property:

* `OkIsWhole` (`TargetFilesCut.cfg`, `MCTargetFiles`): for the same reason an upload
  without room on the target, nothing cut, installs its beginning and is answered
  ok. `set -C` cannot stop it either where the temporary exists already; the name is
  random.
* `HonoursContext` (`Handler.cfg`, `MCHandler`): `roundTrip` writes to the stream
  under `p.mu` and looks at no context (`pipe.go:358-366`), and the stream's own is
  `context.WithoutCancel` (171-176). A large request to a program that has stopped
  reading never returns, and every other caller waits for the lock, against
  `pipe.go:49-51`.
* `ToolSeesNoBlend` (`Mirror.cfg`, `MCMirror`): a POSIX read is a Stat and a command
  for each chunk (`posix.go:86-127`). A file replaced in between is shown to the
  tool as something the target never held, against `mirror.go:83`.
* `MovesPastRefusals` (`Connections.cfg`, `MCConnections`): two requests refused by
  one connection move the transport twice, past a connection nobody tried
  (`ssh.go:85-87` against 257, 348-362).
* `HangsNobody` (`Guard.cfg`, `MCGuard`): the deadline kills the harness, but
  `cmd.Run` waits for whoever holds its output, since no `WaitDelay` is set. A
  descendant that hangs, such as what an npm wrapper starts, makes `reach` wait with
  it (`probe.go:21-23` against 209-211, 763-766).
* `BypassedIsLocal` (`Guard.cfg`, `MCGuard`): output that stops after the canary,
  before the host name, is judged bypassed (`probe.go:244-267`), which is to mean
  that the command ran somewhere else (`harnessprobe.go:36-37`).

The others each have a configuration of their own that makes TLC print the
counterexample.

1. `NoStrandedWaiter` (`tlc -config FilePoolStranded.cfg MCFilePool`): `put` wakes one
   waiter. If that one's context has ended it returns an error and wakes nobody,
   and another waiter sleeps beside an idle member until the next `put`
   (`pool.go:115-121`).
2. `CloseIsFinal` (`HandlerClose.cfg`, `MCHandler`): `reopen` looks at `closed` before
   it opens the new channel and `open` does not look again. A `Close` in between
   leaves a program running that nothing ends.
3. `AbandonedIsReplaced` (`HandlerAbandoned.cfg`, `MCHandler`): when the first request
   to a program is abandoned, the program counts as one that never worked, and the
   handler refuses every later request although the error promises a new program.
4. `NothingOutlivesClient` (`ExecServeClientGone.cfg`, `MCExecServe`): when the client
   leaves, `Serve` waits for all requests before it ends the processes. A write
   blocked on a process that does not read makes it wait for ever, and the process
   outlives the client.
5. `NoStaleBase` (`MirrorStale.cfg`, `MCMirror`): two overlapping fetches can leave the
   older copy beside the newer digest; an edit of that copy then passes Push's
   check.
6. `SavedMeansLanded` (`MirrorLost.cfg`, `MCMirror`): a Read that overlaps an Edit
   stores the fetched copy over the edit; Push sends the old content and reports
   success.
7. `NeverRunTwice` (`ConnectionsTwice.cfg`, `MCConnections`): a command that ran, wrote
   a line that reads like a refused channel and was then cut off is run again, on
   another connection (`ssh.go:344-347` against 352, 283-291).
8. `SameSpecSameSession` (`SessionsTilde.cfg`, `MCSessions`): a target spelled with `~`
   never finds the session that the same command made before: `sameTarget` cannot
   resolve it, `pickSessionName` takes the name for taken, and each run opens one
   more session (`target_first.go:384-392`, 478-482).
9. `ListingIsWhole` (`CommandOutputListing.cfg`, `MCCommandOutput`): `run` drops
    `Truncated` (`posix.go:54-67`), so that a listing beyond the bound succeeds
    without its middle, the notice and the two pieces beside it read as records.
10. `LaunchedIsIntercepted` (`GuardOther.cfg`, `MCGuard`): a verdict is filed under the
    version a binary prints. The patched kimi prints the stock one's: an "ok"
    measured with one lets the other be launched unprobed (`harness.go:351-354`).

Two more are stated without a configuration: `StartsWhatIsThere` of `Tiers` (a
session that has verified the helper once starts it without a look, although
`helper_cmds.go:98-99` says that the next command reinstalls what was uninstalled)
and `ReaderSeesAFile` of `TargetFiles` (a read in several chunks may return a
beginning of one file and the rest of another).

Seen while modelling, without a property:

* pool and handler: after a failed grow `get` goes straight to another open,
  although `pool.go:79-81` calls the failure "a reason to wait"; its `live == 0`
  return is never taken (`GrowFailureIsAbsorbed`). `contextWithAtLeast` cannot
  extend a deadline its parent already has. The id in an answer is never compared
  with the request's, so that `AnswerIsOwn` rests on the streams alone.
* exec-server: `orderKey` queues a copy by its destination only and `fs/readBlock`
  by its handle only, which is less than "requests about one path"
  (`execserver.go:244-247`). A bounded `process/read` may say `closed` while chunks
  beyond the page remain; only `nextSeq` tells.
* mirror: Prepare takes any error for absence (`mirror.go:127`), and Push then
  refuses with a cause that did not happen; between Push's comparison and its write,
  two round trips apart, a foreign change can still be lost.
* sessions: `Save` uses one temporary name for all processes, so that two saves can
  publish a half-written file. `cmdDown` closes connection 0 only, as its own
  transport has not overflowed, and two concurrent downs on one host each see the
  other's session and leave the connection open. `reach box` points a session with a
  path at the home directory (`target_first.go:239-255`). A failed Probe keeps the
  connection. A `SetCwd` that fails in `bringUp` leaves the old target's directory.
* output: `RunStream` loses the status when a process left behind prints more than
  the slack; `Run` does not. A status cut between its digits is taken for another
  status, which `StatusNeedsMarker` says. A search that is truncated but has enough
  matches mixes its start with its end. A read of a file that is removed after `test
  -r` is an empty success.
* tiers: a reach whose upload is not recognised removes another reach's verified
  helper of the same version; a cut upload leaves a torn helper that a session with
  recorded capabilities starts. `Probe` calls a tier built (`session.go:618-624`)
  before its handler has answered anything (`pipe.go:141-154`).
* guard: the verdict is "ok" whenever this machine's name contains the target's
  (`strings.Contains`). Two concurrent `StoreVerdict`s can bring back an older
  verdict of another key. A harness that exits without a report makes the guard wait
  for the whole deadline. An upgrade between the version query and the probe files
  the verdict under the old version. Ctrl-C during a probe ends in "could not
  verify" and a launch. A title conversation without tools can make a probe
  inconclusive. The gemini dialect counts an empty output as a result.

## Not modelled

* `ExecServe`: processes without an input pipe, the waiting of a poll, and process
  ids that are dropped and used again; `ProcessOutput`: the lookup of the process
  by its id. The remembered write ids are not modelled.
* `TargetFiles`: `Mkdir`, directories, the order within a recursive removal.
* `Connections`: transports without multiplexing, docker and local: they hold no
  state. `closed` is never read after `Close`.
* The audit log's appends, which rest on what the operating system promises of
  O_APPEND; the envelope parser, flag parsing, reports; the files the launchers
  write for third-party programs. None keeps state between two steps.
* Framing, JSON, base64, paths and digests are abstracted to what tells two
  contents apart.

## Plan

1. `ProcessInput`: `process/write` with its remembered ids, `retire` and reuse of
   process ids, several records per id. Properties: a write id reaches the process
   once within the window that is remembered; an accepted write was written; a
   running process is never dropped. Two processes, a window of two.
2. `Handler` inside `FilePool`: a member with a state of its own, so that
   `AbandonedIsReplaced` is seen from the pool.
3. Theorems about what these add; of the modules there are, no safety property of the
   runs is left to TLC alone.
