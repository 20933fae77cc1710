----------------------------- MODULE TargetFiles -----------------------------
(***************************************************************************)
(* The files of the target under the file strategies of internal/fileops:  *)
(* "posix" runs one shell command for each request (posix.go), "handler"   *)
(* sends a frame to a program that keeps running there, handler.py or      *)
(* cmd/reach-helper.  A client is one reach process with one strategy.     *)
(*                                                                         *)
(* A file is a sequence of blocks, a block being what one chunk of a read  *)
(* carries and what one step of an upload adds.  The temporary file of a   *)
(* write has a name of its own (reach.TempPath; the pid and the request on *)
(* the target), so that temporaries are indexed by their writer.  What has *)
(* a name in files is never written again: a file is replaced, so that one *)
(* open file reads one content.                                            *)
(*                                                                         *)
(* The far end of a command outlives the connection: it sees the end of    *)
(* its stdin and goes on.  The upload of a shell,                          *)
(*     { set -e; set -C; body > tmp; chmod tmp; mv tmp path; } ||          *)
(*         { rm -f tmp; exit 1; }                                          *)
(* goes on as well after a command of it that failed: its braces stand to  *)
(* the left of ||, where a shell takes no notice of set -e.                *)
(***************************************************************************)
EXTENDS Integers, Sequences, FiniteSets

CONSTANTS
    Clients,   \* the reach processes
    Tier,      \* [Clients -> {"posix", "handler"}]
    Paths,     \* the paths asked for
    Versions,  \* the payloads of writes
    Size,      \* [Versions -> Nat], the blocks of each
    Initially, \* [Paths -> Versions], what the target holds before
    Absent,    \* no such file
    MaxCalls,  \* bound: requests each client makes
    MaxFaults  \* bound: steps that fail, connections cut, programs killed

ASSUME TargetFilesAssumption ==
    /\ Tier \in [Clients -> {"posix", "handler"}]
    /\ Size \in [Versions -> Nat]
    /\ Initially \in [Paths -> Versions] /\ Paths # {}
    /\ MaxCalls \in Nat /\ MaxFaults \in Nat

VARIABLES
    files,    \* [Paths -> contents or Absent]
    tmps,     \* [Clients -> contents or Absent], the temporary of its write
    call,     \* [Clients -> the request it runs or ran last]
    pc,       \* [Clients -> where that request is]
    got,      \* [Clients -> blocks read so far]
    want,     \* [Clients -> blocks a shell's read fetches]
    gone,     \* clients whose connection was cut under their request
    answer,   \* [Clients -> what the request returned]
    calls,    \* [Clients -> requests made]
    faults,   \* faults so far
    torn,     \* history: [Clients -> beginnings its uploads ended with]
    placed,   \* history: [Clients -> what its write has put in place, or Absent]
    killed,   \* history: clients whose far end was killed
    seen      \* history: [Clients -> what the path held while it is read]

vars == <<files, tmps, call, pc, got, want, gone, answer, calls, faults, torn, placed, killed, seen>>

Whole(v) == [i \in 1..Size[v] |-> <<v, i>>]
Prefixes(v) == {SubSeq(Whole(v), 1, n) : n \in 0..Size[v]}
Contents == UNION {Prefixes(v) : v \in Versions}

Requests == [op : {"read", "remove"}, path : Paths]
              \cup [op : {"write"}, path : Paths, version : Versions]
              \cup [op : {"rename"}, path : Paths, to : Paths]

Init ==
    /\ files = [p \in Paths |-> Whole(Initially[p])]
    /\ tmps = [c \in Clients |-> Absent]
    /\ call = [c \in Clients |-> [op |-> "read", path |-> CHOOSE p \in Paths : TRUE]]
    /\ pc = [c \in Clients |-> "idle"]
    /\ got = [c \in Clients |-> <<>>]
    /\ want = [c \in Clients |-> 0]
    /\ gone = {} /\ killed = {}
    /\ torn = [c \in Clients |-> {}]
    /\ placed = [c \in Clients |-> Absent]
    /\ answer = [c \in Clients |-> "none"]
    /\ calls = [c \in Clients |-> 0]
    /\ faults = 0
    /\ seen = [c \in Clients |-> {}]

Posix(c) == Tier[c] = "posix"
At(c, where) == pc[c] = where
Go(c, where) == pc' = [pc EXCEPT ![c] = where]
File(c) == files[call[c].path]

\* The request is over; nobody hears of it when the connection was cut.
Answer(c, what) ==
    /\ Go(c, "idle")
    /\ answer' = [answer EXCEPT ![c] = IF c \in gone THEN "lost" ELSE what]

Reading(c) == call[c].op = "read" /\ pc[c] # "idle"

Store(new) ==
    /\ files' = new
    /\ seen' = [c \in Clients |-> IF Reading(c) THEN seen[c] \cup {new[call[c].path]} ELSE seen[c]]

Fault == faults < MaxFaults /\ faults' = faults + 1

(***************************************************************************)
(* A request begins.  A shell's read asks for the size first; a handler    *)
(* acts on a frame once all of it has arrived.                             *)
(***************************************************************************)
Start(c, r) ==
    /\ At(c, "idle") /\ c \notin gone /\ calls[c] < MaxCalls
    /\ calls' = [calls EXCEPT ![c] = @ + 1]
    /\ call' = [call EXCEPT ![c] = r]
    /\ Go(c, CASE ~Posix(c) -> "frame"
               [] Posix(c) /\ r.op = "write" -> "open"
               [] Posix(c) /\ r.op = "read" -> "stat"
               [] OTHER -> "apply")
    /\ got' = [got EXCEPT ![c] = <<>>]
    /\ seen' = [seen EXCEPT ![c] = IF r.op = "read" THEN {files[r.path]} ELSE {}]
    /\ want' = [want EXCEPT ![c] = 0]
    /\ placed' = [placed EXCEPT ![c] = Absent]
    /\ answer' = [answer EXCEPT ![c] = "none"]
    /\ UNCHANGED <<files, tmps, gone, faults, torn, killed>>

ReadFrame(c) ==
    /\ At(c, "frame")
    /\ Go(c, CASE call[c].op = "write" -> "open"
               [] call[c].op = "read" -> "fetch"
               [] OTHER -> "apply")
    /\ UNCHANGED <<files, tmps, call, got, want, gone, answer, calls, faults, torn, placed, killed, seen>>

(***************************************************************************)
(* Write: the content goes to a temporary in the same directory, made      *)
(* exclusively, which is given its mode and renamed over the path.         *)
(***************************************************************************)
Incoming(c) == Whole(call[c].version)

OpenTmp(c) ==
    /\ At(c, "open")
    /\ tmps' = [tmps EXCEPT ![c] = <<>>]
    /\ Go(c, "copy")
    /\ UNCHANGED <<files, call, got, want, gone, answer, calls, faults, torn, placed, killed, seen>>

\* A handler holds the payload; a shell has what its connection still brings.
Copy(c) ==
    /\ At(c, "copy") /\ Len(tmps[c]) < Size[call[c].version]
    /\ Posix(c) => c \notin gone
    /\ tmps' = [tmps EXCEPT ![c] = SubSeq(Incoming(c), 1, Len(@) + 1)]
    /\ UNCHANGED <<files, call, pc, got, want, gone, answer, calls, faults, torn, placed, killed, seen>>

\* What stands in the temporary is all that the upload will have.
Tears(c) == torn' = [torn EXCEPT ![c] = @ \cup {tmps[c]}]

(***************************************************************************)
(* `cat` takes the end of a connection for the end of the payload; a       *)
(* decoder may notice, and fail, which stops the script no more than that. *)
(***************************************************************************)
EndOfInput(c) ==
    /\ At(c, "copy")
    /\ \/ tmps[c] = Incoming(c) /\ UNCHANGED torn
       \/ Posix(c) /\ c \in gone /\ tmps[c] # Incoming(c) /\ Tears(c)
    /\ Go(c, "chmod")
    /\ UNCHANGED <<files, tmps, call, got, want, gone, answer, calls, faults, placed, killed, seen>>

Chmod(c) ==
    /\ At(c, "chmod")
    /\ Go(c, "move")
    /\ UNCHANGED <<files, tmps, call, got, want, gone, answer, calls, faults, torn, placed, killed, seen>>

Move(c) ==
    /\ At(c, "move")
    /\ Store([files EXCEPT ![call[c].path] = tmps[c]])
    /\ tmps' = [tmps EXCEPT ![c] = Absent]
    /\ placed' = [placed EXCEPT ![c] = tmps[c]]
    /\ Answer(c, "ok")
    /\ UNCHANGED <<call, got, want, gone, calls, faults, torn, killed>>

\* The steps whose failure ends the write: all of a handler's; of a shell's,
\* the first, without which there is no temporary for the others, and the last.
Ends(c, where) == At(c, where) /\ (Posix(c) => where \in {"open", "move"})

\* Mutant of StepFails: a handler goes on after a block that it could not write.
StepFailsGoesOn(c) ==
    /\ At(c, "copy") /\ ~Posix(c) /\ Fault
    /\ Go(c, "chmod")
    /\ UNCHANGED <<files, tmps, call, got, want, gone, answer, calls, torn, placed, killed, seen>>

\* Mutant of StepFails: nothing takes the temporary away.
StepFailsLittering(c) ==
    /\ \E where \in {"open", "copy", "chmod", "move"} : Ends(c, where)
    /\ Fault
    /\ Answer(c, "error")
    /\ UNCHANGED <<files, tmps, call, got, want, gone, calls, torn, placed, killed, seen>>

\* A step of the far end fails (no room, no permission): the temporary goes.
StepFails(c) ==
    /\ \E where \in {"open", "copy", "chmod", "move"} : Ends(c, where)
    /\ Fault
    /\ tmps' = [tmps EXCEPT ![c] = Absent]
    /\ Answer(c, "error")
    /\ UNCHANGED <<files, call, got, want, gone, calls, torn, placed, killed, seen>>

\* The body or the chmod of a shell's upload fails, and the next command runs.
ShellGoesOn(c) ==
    /\ Posix(c) /\ Fault
    /\ \/ At(c, "copy") /\ tmps[c] # Incoming(c) /\ Tears(c) /\ Go(c, "chmod")
       \/ At(c, "chmod") /\ UNCHANGED torn /\ Go(c, "move")
    /\ UNCHANGED <<files, tmps, call, got, want, gone, answer, calls, placed, killed, seen>>

(***************************************************************************)
(* Read, one chunk after another.  A shell names the file anew for every   *)
(* step: for its size, for `test -r`, and for the pipeline that copies the *)
(* chunk, whose exit status is that of its last command, so that a file    *)
(* which is gone by then is an empty chunk.  A handler opens it once for   *)
(* each chunk, and ends on the first short one.                            *)
(***************************************************************************)
Stat(c) ==
    /\ At(c, "stat")
    /\ IF File(c) = Absent
       THEN Answer(c, "notfound") /\ UNCHANGED want
       ELSE want' = [want EXCEPT ![c] = Len(File(c))] /\ Go(c, "test") /\ UNCHANGED answer
    /\ UNCHANGED <<files, tmps, call, got, gone, calls, faults, torn, placed, killed, seen>>

TestReadable(c) ==
    /\ At(c, "test")
    /\ IF File(c) = Absent THEN Answer(c, "notfound") ELSE Go(c, "fetch") /\ UNCHANGED answer
    /\ UNCHANGED <<files, tmps, call, got, want, gone, calls, faults, torn, placed, killed, seen>>

\* Mutant of Chunk: the offset of the chunk is forgotten.
ChunkFromStart(c) == IF File(c) \in {Absent, <<>>} \/ Len(got[c]) >= Len(File(c)) THEN <<>> ELSE <<File(c)[1]>>

\* The next chunk, by its offset.
Chunk(c) ==
    LET n == Len(got[c]) + 1
    IN IF File(c) = Absent \/ n > Len(File(c)) THEN <<>> ELSE <<File(c)[n]>>

\* An empty file is fetched from only to learn that it is readable.
FetchByShell(c) ==
    /\ At(c, "fetch") /\ Posix(c)
    /\ LET all == got[c] \o Chunk(c)
       IN /\ got' = [got EXCEPT ![c] = IF want[c] = 0 THEN <<>> ELSE all]
          /\ IF Chunk(c) # <<>> /\ Len(all) < want[c]
             THEN Go(c, "test") /\ UNCHANGED answer
             ELSE Answer(c, "ok")
    /\ UNCHANGED <<files, tmps, call, want, gone, calls, faults, torn, placed, killed, seen>>

FetchByHandler(c) ==
    /\ At(c, "fetch") /\ ~Posix(c)
    /\ got' = [got EXCEPT ![c] = @ \o Chunk(c)]
    /\ CASE File(c) = Absent -> Answer(c, "notfound")
         [] File(c) # Absent /\ Chunk(c) = <<>> -> Answer(c, "ok")
         [] OTHER -> UNCHANGED <<pc, answer>>
    /\ UNCHANGED <<files, tmps, call, want, gone, calls, faults, torn, placed, killed, seen>>

(***************************************************************************)
(* Requests that are one step on the target: `rm -f` is content with a     *)
(* file that is not there, os.unlink is not; rename replaces.              *)
(***************************************************************************)
Remove(c) ==
    /\ At(c, "apply") /\ call[c].op = "remove"
    /\ Answer(c, IF File(c) = Absent /\ ~Posix(c) THEN "notfound" ELSE "ok")
    /\ Store([files EXCEPT ![call[c].path] = Absent])
    /\ UNCHANGED <<tmps, call, got, want, gone, calls, faults, torn, placed, killed>>

Rename(c) ==
    /\ At(c, "apply") /\ call[c].op = "rename"
    /\ IF File(c) = Absent
       THEN Answer(c, "notfound") /\ UNCHANGED <<files, seen>>
       ELSE /\ Answer(c, "ok")
            /\ Store([p \in Paths |-> CASE p = call[c].to -> File(c)
                                       [] p = call[c].path /\ p # call[c].to -> Absent
                                       [] OTHER -> files[p]])
    /\ UNCHANGED <<tmps, call, got, want, gone, calls, faults, torn, placed, killed>>

(***************************************************************************)
(* Faults.  A connection that is cut, or a context that ends: the client   *)
(* is told, what runs on the target is not.  A frame that has not arrived  *)
(* is never acted on.                                                      *)
(***************************************************************************)
Cut(c) ==
    /\ ~At(c, "idle") /\ c \notin gone /\ Fault
    /\ gone' = gone \cup {c}
    /\ answer' = [answer EXCEPT ![c] = "lost"]
    /\ Go(c, IF At(c, "frame") \/ Reading(c) THEN "idle" ELSE pc[c])
    /\ UNCHANGED <<files, tmps, call, got, want, calls, torn, placed, killed, seen>>

\* The program on the target is killed with its temporary in place.
Killed(c) ==
    /\ \E where \in {"open", "copy", "chmod", "move"} : At(c, where)
    /\ Fault
    /\ killed' = killed \cup {c}
    /\ gone' = gone \cup {c}
    /\ answer' = [answer EXCEPT ![c] = "lost"]
    /\ Go(c, "idle")
    /\ UNCHANGED <<files, tmps, call, got, want, calls, torn, placed, seen>>

Handle(c) ==
    \/ \E r \in Requests : Start(c, r)
    \/ ReadFrame(c)
    \/ OpenTmp(c) \/ Copy(c) \/ EndOfInput(c) \/ Chmod(c) \/ Move(c)
    \/ StepFails(c) \/ ShellGoesOn(c)
    \/ Stat(c) \/ TestReadable(c) \/ FetchByShell(c) \/ FetchByHandler(c)
    \/ Remove(c) \/ Rename(c)
    \/ Cut(c) \/ Killed(c)

Next == \E c \in Clients : Handle(c)

Spec == Init /\ [][Next]_vars

-----------------------------------------------------------------------------
(* Types: every file is a part of some payload, every temporary is made of  *)
(* the payload of its writer.                                               *)
TypeOK ==
    /\ \A p \in Paths : files[p] = Absent \/ files[p] \in Contents
    /\ \A c \in Clients :
         /\ tmps[c] # Absent => call[c].op = "write" /\ tmps[c] \in Prefixes(call[c].version)
         /\ call[c] \in Requests
         /\ pc[c] \in {"idle", "frame", "open", "copy", "chmod", "move", "stat", "test", "fetch", "apply"}
         /\ want[c] \in Nat
         /\ answer[c] \in {"none", "ok", "error", "notfound", "lost"}
    /\ gone \subseteq Clients /\ killed \subseteq gone
    /\ faults \in 0..MaxFaults

(* Whatever fails in between, a path holds all of a payload that was written *)
(* to it or to the path it was renamed from (posix.go:180-185, main.go:217,  *)
(* handler.py:107-109); the one exception is an upload by a shell that ended *)
(* early, its connection cut or its body failed, and what the path holds     *)
(* then is where that upload ended.  A handler's write never is one.         *)
WholeUnlessTorn ==
    /\ \A p \in Paths :
        \/ files[p] = Absent
        \/ \E v \in Versions : files[p] = Whole(v)
        \/ \E c \in Clients : files[p] \in torn[c]
    /\ \A c \in Clients : torn[c] # {} => Posix(c)

(* What a write answers is true of the file: "ok" has put its payload there, *)
(* but for a shell's upload that ended early, and an error has left the      *)
(* original, whichever step failed (posix.go:180-185).                       *)
AnswersAreTrue ==
    \A c \in Clients :
        call[c].op = "write" /\ pc[c] = "idle" =>
            /\ answer[c] = "ok" => placed[c] \in {Incoming(c)} \cup torn[c]
            /\ answer[c] = "error" => placed[c] = Absent

(* A write that is over has left no temporary behind, unless the program     *)
(* that made it was killed (posix.go:213-215, handler.py:130-136,            *)
(* main.go:241-243); in particular not when nobody waits for it any more.    *)
NoDebris == \A c \in Clients : pc[c] = "idle" /\ tmps[c] # Absent => c \in killed

(* Both promises of a write that is over.                                    *)
WritesEndCleanly == AnswersAreTrue /\ NoDebris

(* A read returns blocks the path held, each at its place, while it was read *)
(* (posix.go:79-127, pipe.go:526-557); all of the file if that was one       *)
(* content throughout; and it says that the file is absent only if it was.   *)
ReadIsHonest ==
    \A c \in Clients :
        call[c].op = "read" /\ pc[c] = "idle" =>
            /\ answer[c] = "notfound" => Absent \in seen[c]
            /\ answer[c] = "ok" =>
                 /\ \A i \in DOMAIN got[c] : \E s \in seen[c] \ {Absent} :
                        i \in DOMAIN s /\ s[i] = got[c][i]
                 /\ Cardinality(seen[c]) = 1 => got[c] \in seen[c]

(* NOT what the code does: "a failed transfer leaves the original intact"    *)
(* (posix.go:184-185).                                                       *)
FileIsWhole ==
    \A p \in Paths : files[p] = Absent \/ \E v \in Versions : files[p] = Whole(v)

(* NOT what the code does: an upload that failed is reported, "a failed       *)
(* transfer leaves the original intact" (posix.go:184-185), and is cleaned    *)
(* up after "if anything fails" (posix.go:215).                               *)
OkIsWhole ==
    \A c \in Clients :
        call[c].op = "write" /\ pc[c] = "idle" /\ answer[c] = "ok" => placed[c] = Incoming(c)

(* NOT what the code does: a reader is given the old file or the new one     *)
(* (posix.go:183-184, tempfile.go:16-19).                                    *)
ReaderSeesAFile ==
    \A c \in Clients :
        call[c].op = "read" /\ pc[c] = "idle" /\ answer[c] = "ok" => got[c] \in seen[c]
=============================================================================
