------------------------------- MODULE Mirror -------------------------------
(***************************************************************************)
(* One file of the mirror, internal/mirror/mirror.go, as the hooks of      *)
(* cmd/reach/hook.go use it: the file on the target, its local copy, and   *)
(* the digest recorded for it.  (Records are one file per path, so that    *)
(* paths do not meet.)                                                     *)
(*                                                                         *)
(* A call is one tool call of the agent: a PreToolUse hook that fetches    *)
(* the file (Fetch, or Prepare for Write), the tool itself, and, unless it *)
(* only reads, a PostToolUse hook that pushes it.  Every hook is a process *)
(* of its own: calls interleave, and a hook may be killed between any two  *)
(* steps.  Others change the file on the target at any time.               *)
(*                                                                         *)
(* A step is one operation on the local disk.  A question to the target    *)
(* takes time: a digest is of what the file was at some moment of it, but  *)
(* a POSIX read is a Stat and a command for each chunk, so that a file     *)
(* replaced meanwhile comes back as a blend that the target never held.    *)
(* Contents are told apart by who wrote them, so a digest is as good as a  *)
(* content; a blend, or a beginning of a content, is one of the Parts.     *)
(***************************************************************************)
EXTENDS Integers, FiniteSets

CONSTANTS
    ToolCalls,      \* the agent's tool calls; each names the content it writes
    Original,   \* what the target may hold at first
    Foreign,    \* what others may write to the target
    Parts,      \* blends of contents, and beginnings of contents
    Absent,     \* the file does not exist
    Unknown,    \* no digest is recorded
    Tools,      \* the tools the agent uses
    MaxMeddling \* bound: changes made by others

ASSUME MirrorAssumption ==
    /\ ToolCalls \cap (Original \cup Foreign \cup Parts) = {}
    /\ Parts \cap (Original \cup Foreign) = {}
    /\ Absent \notin ToolCalls \cup Original \cup Foreign \cup Parts
    /\ Unknown \notin ToolCalls \cup Original \cup Foreign \cup Parts \cup {Absent}
    /\ Tools \subseteq {"Read", "Edit", "Write"}
    /\ MaxMeddling \in Nat

VARIABLES
    target,   \* the file on the target
    local,    \* the mirrored copy
    record,   \* the recorded digest
    at,       \* where each call is
    tool,     \* the tool of each call
    data,     \* what the hook of each call has read, while it runs
    expected, \* the digest it has looked up
    result,   \* how each call ended
    held,     \* everything the target ever held
    from,     \* what each content written by a call was made from
    seen,     \* what the tool of each call found in the mirrored copy
    fresh,    \* what the target has held since each call began
    during,   \* what it has held since a call asked it the question it now asks
    blends,   \* the Parts that a read put together
    partly,   \* contents of which a part arrived and the write was called done
    misled,   \* calls whose Prepare took an error for absence
    meddling, \* changes made by others
    alone     \* no two calls have overlapped so far

mirrorVars == <<target, local, record, at, tool, data, expected, result, held, from,
          seen, fresh, during, blends, partly, misled, meddling, alone>>

Contents == ToolCalls \cup Original \cup Foreign \cup Parts
Files == Contents \cup {Absent}

\* A content and what it was made from.
Line(content) == {content} \cup (IF content \in ToolCalls THEN from[content] ELSE {})

Active == {c \in ToolCalls : at[c] \notin {"new", "done"}}

\* The calls that wait for an answer of the target.
Asking == {c \in ToolCalls : at[c] \in {"hashing", "fetching", "verifying"}}

Several(S) == \E x, y \in S : x # y

\* What a read may bring: what the file was all along, or was for one moment of
\* the read, or chunks of several contents.
Readings(c) ==
    (during[c] \ {Absent}) \cup (IF Several(during[c] \ {Absent}) THEN Parts ELSE {})

MirrorInit ==
    /\ target \in Original \cup {Absent}
    /\ local = Absent /\ record = Unknown
    /\ at = [c \in ToolCalls |-> "new"]
    /\ tool \in [ToolCalls -> Tools]
    /\ data = [c \in ToolCalls |-> Absent]
    /\ expected = [c \in ToolCalls |-> Unknown]
    /\ result = [c \in ToolCalls |-> "none"]
    /\ held = {target}
    /\ from = [c \in ToolCalls |-> {}]
    /\ seen = [c \in ToolCalls |-> Absent]
    /\ fresh = [c \in ToolCalls |-> {}]
    /\ during = [c \in ToolCalls |-> {}]
    /\ blends = {} /\ partly = {} /\ misled = {}
    /\ meddling = 0 /\ alone = TRUE

past == <<held, from, seen, fresh, blends, partly, misled, meddling, alone>>

Go(c, where) == at' = [at EXCEPT ![c] = where]

\* A hook ends, and with the process what it knew.
Exit(c) ==
    /\ data' = [data EXCEPT ![c] = Absent]
    /\ expected' = [expected EXCEPT ![c] = Unknown]

End(c, how) == Go(c, "done") /\ result' = [result EXCEPT ![c] = how] /\ Exit(c)

\* A question is put to the target; it has been answered, or given up.
Ask(c, where) == Go(c, where) /\ during' = [during EXCEPT ![c] = {target}]

Told(c) == during' = [during EXCEPT ![c] = {}]
-----------------------------------------------------------------------------
\* The harness makes a call.
Begin(c) ==
    /\ at[c] = "new"
    /\ Go(c, "looking")
    /\ fresh' = [fresh EXCEPT ![c] = {target}]
    /\ alone' = (alone /\ Active = {})
    /\ UNCHANGED <<target, local, record, tool, data, expected, result, held, from,
                   seen, during, blends, partly, misled, meddling>>

\* alreadyHave, on this side: the record, and a local copy that matches it.
LookLocal(c) ==
    /\ at[c] = "looking"
    /\ IF record \in Contents /\ local = record
         THEN Ask(c, "hashing") ELSE Go(c, "reading") /\ UNCHANGED during
    /\ expected' = [expected EXCEPT ![c] = record]
    /\ UNCHANGED <<target, local, record, tool, data, result, past>>

\* Mutant of LookTarget: the target is not asked.
LookNowhere(c) ==
    /\ at[c] = "hashing"
    /\ Go(c, "tool") /\ Exit(c) /\ Told(c)
    /\ UNCHANGED <<target, local, record, tool, result, past>>

\* alreadyHave, on the target: the same digest, or the file has to be read.
LookTarget(c) ==
    /\ at[c] = "hashing"
    /\ \/ expected[c] \in during[c] /\ Go(c, "tool") /\ Exit(c)
       \/ Go(c, "reading") /\ UNCHANGED <<data, expected>>
    /\ Told(c)
    /\ UNCHANGED <<target, local, record, tool, result, past>>

\* fo.Read begins.
BeginRead(c) ==
    /\ at[c] = "reading"
    /\ Ask(c, "fetching")
    /\ UNCHANGED <<target, local, record, tool, data, expected, result, past>>

\* It brings the file, or a blend.
Read(c) ==
    /\ at[c] = "fetching"
    /\ \E content \in Readings(c) :
          /\ data' = [data EXCEPT ![c] = content]
          /\ blends' = blends \cup ({content} \ during[c])
    /\ Go(c, "storing") /\ Told(c)
    /\ UNCHANGED <<target, local, record, tool, expected, result, held, from, seen,
                   fresh, partly, misled, meddling, alone>>

\* It fails.  Fetch denies the call; Prepare takes the file for absent.
ReadFails(c) ==
    /\ at[c] = "fetching"
    /\ \/ /\ tool[c] # "Write"
          /\ End(c, "denied")
          /\ UNCHANGED misled
       \/ /\ tool[c] = "Write"
          /\ data' = [data EXCEPT ![c] = Absent]
          /\ misled' = IF Absent \in during[c] THEN misled ELSE misled \cup {c}
          /\ Go(c, "storing")
          /\ UNCHANGED <<expected, result>>
    /\ Told(c)
    /\ UNCHANGED <<target, local, record, tool, held, from, seen, fresh, blends, partly,
                   meddling, alone>>

\* Mutant of Store: what was recorded is stored, not what was read.
StoreRecorded(c) ==
    /\ at[c] = "storing"
    /\ local' = expected[c]
    /\ Go(c, "recording")
    /\ UNCHANGED <<target, record, tool, data, expected, result, during, past>>

\* The local copy is written, or removed.
Store(c) ==
    /\ at[c] = "storing"
    /\ local' = data[c]
    /\ Go(c, "recording")
    /\ UNCHANGED <<target, record, tool, data, expected, result, during, past>>

\* Mutant of RecordFetched: the target is asked for the digest once more.
RecordAskedAgain(c) ==
    /\ at[c] = "recording"
    /\ record' = target
    /\ Go(c, "tool") /\ Exit(c)
    /\ UNCHANGED <<target, local, tool, result, during, past>>

\* recordDigest, one rename; the hook allows the tool to run.
RecordFetched(c) ==
    /\ at[c] = "recording"
    /\ record' = data[c]
    /\ Go(c, "tool") /\ Exit(c)
    /\ UNCHANGED <<target, local, tool, result, during, past>>
-----------------------------------------------------------------------------
\* The tool finds the copy, and changes it unless it only reads.  Edit needs one.
UseTool(c) ==
    /\ at[c] = "tool"
    /\ seen' = [seen EXCEPT ![c] = local]
    /\ \/ /\ tool[c] = "Read" \/ (tool[c] = "Edit" /\ local = Absent)
          /\ End(c, "used")
          /\ UNCHANGED <<local, from>>
       \/ /\ tool[c] = "Write" \/ (tool[c] = "Edit" /\ local # Absent)
          /\ local' = c
          /\ from' = [from EXCEPT ![c] = Line(local)]
          /\ Go(c, "loading")
          /\ UNCHANGED <<data, expected, result>>
    /\ UNCHANGED <<target, record, tool, held, fresh, during, blends, partly, misled,
                   meddling, alone>>
-----------------------------------------------------------------------------
\* Push reads the local copy; if it is gone, that is an error.
LoadCopy(c) ==
    /\ at[c] = "loading"
    /\ \/ /\ local = Absent
          /\ End(c, "error")
       \/ /\ local # Absent
          /\ data' = [data EXCEPT ![c] = local]
          /\ Go(c, "consulting")
          /\ UNCHANGED <<expected, result>>
    /\ UNCHANGED <<target, local, record, tool, during, past>>

\* It looks the record up.  Without one there is nothing to verify.
Consult(c) ==
    /\ at[c] = "consulting"
    /\ expected' = [expected EXCEPT ![c] = record]
    /\ IF record = Unknown THEN Go(c, "writing") /\ UNCHANGED during
                           ELSE Ask(c, "verifying")
    /\ UNCHANGED <<target, local, record, tool, data, result, past>>

\* Mutant of Verify: the new base is recorded before the file is written.
VerifyRecording(c) ==
    /\ at[c] = "verifying"
    /\ \E answer \in during[c] \cup Readings(c) :
          \/ /\ answer = expected[c]
             /\ Go(c, "writing") /\ record' = data[c]
             /\ UNCHANGED <<data, expected, result>>
          \/ answer # expected[c] /\ End(c, "refused") /\ UNCHANGED record
    /\ Told(c)
    /\ UNCHANGED <<target, local, tool, past>>

\* The target's digest, or that of what a read brings where it cannot hash, or an
\* absence, is what was recorded, or Push refuses.
Verify(c) ==
    /\ at[c] = "verifying"
    /\ \E answer \in during[c] \cup Readings(c) :
          \/ /\ answer = expected[c]
             /\ Go(c, "writing")
             /\ UNCHANGED <<data, expected, result>>
          \/ answer # expected[c] /\ End(c, "refused")
    /\ Told(c)
    /\ UNCHANGED <<target, local, record, tool, past>>

\* The digest cannot be had.
VerifyFails(c) ==
    /\ at[c] = "verifying"
    /\ End(c, "error") /\ Told(c)
    /\ UNCHANGED <<target, local, record, tool, past>>

\* The file on the target becomes content, for all to see.
Put(content) ==
    /\ target' = content
    /\ held' = held \cup {content}
    /\ fresh' = [c \in ToolCalls |->
                    IF c \in Active THEN fresh[c] \cup {content} ELSE fresh[c]]
    /\ during' = [c \in ToolCalls |->
                     IF c \in Asking THEN during[c] \cup {content} ELSE during[c]]

\* fo.Write replaces the file; but on the POSIX tier a decoder that failed is
\* followed by mv and status 0 all the same, and a part of the file is called done.
Write(c) ==
    /\ at[c] = "writing"
    /\ \/ Put(data[c]) /\ UNCHANGED partly
       \/ (\E part \in Parts : Put(part)) /\ partly' = partly \cup {data[c]}
    /\ Go(c, "noting")
    /\ UNCHANGED <<local, record, tool, data, expected, result, from, seen, blends, misled,
                   meddling, alone>>

\* It fails, before or after it took effect, or when a part had arrived.
WriteFails(c) ==
    /\ at[c] = "writing"
    /\ \/ \E content \in Parts \cup {data[c]} : Put(content)
       \/ UNCHANGED <<target, held, fresh, during>>
    /\ End(c, "error")
    /\ UNCHANGED <<local, record, tool, from, seen, blends, partly, misled, meddling, alone>>

\* recordDigest: what was pushed is the new base.
RecordPushed(c) ==
    /\ at[c] = "noting"
    /\ record' = data[c]
    /\ End(c, "saved")
    /\ UNCHANGED <<target, local, tool, during, past>>
-----------------------------------------------------------------------------
\* The hook is killed, or its deadline passes: the call has no result.
Killed(c) ==
    /\ c \in Active /\ at[c] # "tool"
    /\ End(c, "killed") /\ Told(c)
    /\ UNCHANGED <<target, local, record, tool, past>>

\* A build, a deploy, another session changes or deletes the file.
Meddle ==
    /\ meddling < MaxMeddling
    /\ meddling' = meddling + 1
    /\ \E content \in (Original \cup Foreign \cup {Absent}) \ {target} : Put(content)
    /\ UNCHANGED <<local, record, at, tool, data, expected, result, from, seen, blends,
                   partly, misled, alone>>

\* Every call is over.
Rest == (\A c \in ToolCalls : at[c] = "done") /\ UNCHANGED mirrorVars

Pre(c) ==
    \/ Begin(c) \/ LookLocal(c) \/ LookTarget(c) \/ BeginRead(c) \/ Read(c)
    \/ ReadFails(c) \/ Store(c) \/ RecordFetched(c)

Post(c) ==
    \/ LoadCopy(c) \/ Consult(c) \/ Verify(c) \/ VerifyFails(c) \/ Write(c)
    \/ WriteFails(c) \/ RecordPushed(c)

MirrorNext ==
    \/ \E c \in ToolCalls : Pre(c) \/ UseTool(c) \/ Post(c) \/ Killed(c)
    \/ Meddle \/ Rest

MirrorSpec == MirrorInit /\ [][MirrorNext]_mirrorVars
-----------------------------------------------------------------------------
MirrorTypeOK ==
    /\ target \in Files /\ local \in Files
    /\ record \in Files \cup {Unknown}
    /\ at \in [ToolCalls -> {"new", "looking", "hashing", "reading", "fetching",
                         "storing", "recording", "tool", "loading", "consulting",
                         "verifying", "writing", "noting", "done"}]
    /\ tool \in [ToolCalls -> Tools]
    /\ data \in [ToolCalls -> Files]
    /\ expected \in [ToolCalls -> Files \cup {Unknown}]
    /\ result \in [ToolCalls -> {"none", "denied", "used", "error", "refused", "saved",
                             "killed"}]
    /\ held \in SUBSET Files
    /\ from \in [ToolCalls -> SUBSET Files]
    /\ seen \in [ToolCalls -> Files]
    /\ fresh \in [ToolCalls -> SUBSET Files]
    /\ during \in [ToolCalls -> SUBSET Files]
    /\ blends \in SUBSET Parts
    /\ partly \in SUBSET Files /\ misled \in SUBSET ToolCalls
    /\ meddling \in 0..MaxMeddling
    /\ alone \in BOOLEAN

\* What c is about to write was made from what it has just found on the target.
WritesOnItsBase(c) == expected[c] \in Line(data[c])

\* What c edited is on the target, or was, as such or under a later edit.
Landed(c) == \E content \in held : c \in Line(content)

(***************************************************************************)
(* "It verifies the target still holds the content the mirror was fetched  *)
(* from": what a push compared the target with is what the edit was made   *)
(* on, so that nothing unread is overwritten, whatever hooks of earlier    *)
(* calls were killed or failed halfway.  Calls that overlap are excepted.  *)
(***************************************************************************)
EditKeepsItsBase ==
    alone => \A c \in ToolCalls : at[c] = "writing" => WritesOnItsBase(c)

(***************************************************************************)
(* alreadyHave: a tool is shown what the target holds, or held at some     *)
(* time since the call began, never a change that was not pushed; and      *)
(* never a blend, unless the file was one thing and then another since     *)
(* then.  Calls that overlap are excepted, and a Write whose Prepare could *)
(* not read.                                                               *)
(***************************************************************************)
ToolSeesTheTarget ==
    alone => \A c \in ToolCalls \ misled :
                result[c] \in {"used", "saved"} =>
                    \/ seen[c] \in fresh[c]
                    \/ seen[c] \in blends /\ Several(fresh[c] \ {Absent})

(***************************************************************************)
(* A refusal names a cause that did happen: the target was changed by      *)
(* somebody else after the call began.  A call killed between its write    *)
(* and its record must not make a later one refuse, nor one whose write    *)
(* arrived in part.                                                        *)
(***************************************************************************)
RefusalIsTrue ==
    alone => \A c \in ToolCalls \ misled :
                result[c] = "refused" => Several(fresh[c])

(***************************************************************************)
(* What the agent is given to go by is true of the target: the file it is  *)
(* shown, and the reason why its edit is refused.                          *)
(***************************************************************************)
AgentIsNotMisled == ToolSeesTheTarget /\ RefusalIsTrue

(***************************************************************************)
(* A push that reports no error has put the edit on the target, unless the *)
(* write said that it was done when a part of the file had arrived.  Calls *)
(* that overlap are excepted.                                              *)
(***************************************************************************)
SavedAlone ==
    alone => \A c \in ToolCalls : result[c] = "saved" => Landed(c) \/ c \in partly

(***************************************************************************)
(* What is recorded is what the target held at some time, or an absence,   *)
(* though calls overlap and hooks are killed: a digest is never recorded   *)
(* for a change that was not sent, or that failed.  It is of something the *)
(* target never held only when a read brought a blend, or a write that     *)
(* arrived in part was answered as done.                                   *)
(***************************************************************************)
RecordIsReal ==
    record \in held \cup blends \cup partly \cup {Absent, Unknown}

(***************************************************************************)
(* Success is neither reported nor recorded of an edit that was not sent,  *)
(* or that was answered with an error.                                     *)
(***************************************************************************)
SuccessIsReal == SavedAlone /\ RecordIsReal

(***************************************************************************)
(* "Fetch copies a target file into the mirror and records the digest it   *)
(* had": the same as ToolSeesTheTarget, with no exception for a file that  *)
(* is replaced while its chunks are read.                                  *)
(***************************************************************************)
ToolSeesNoBlend ==
    alone => \A c \in ToolCalls \ misled :
                result[c] \in {"used", "saved"} => seen[c] \in fresh[c]

(***************************************************************************)
(* "Without that check, a file changed on the target between fetch and     *)
(* push ... would be silently overwritten from a stale base": the same as  *)
(* EditKeepsItsBase, for calls that overlap.                               *)
(***************************************************************************)
NoStaleBase == \A c \in ToolCalls : at[c] = "writing" => WritesOnItsBase(c)

(***************************************************************************)
(* "The agent must be told it did not reach the target, or it will believe *)
(* its change landed": the same as SavedAlone, for calls that overlap.     *)
(***************************************************************************)
SavedMeansLanded == \A c \in ToolCalls : result[c] = "saved" => Landed(c)
=============================================================================
