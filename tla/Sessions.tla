------------------------------ MODULE Sessions ------------------------------
(***************************************************************************)
(* Session records under ~/.reach/sessions and the commands that share     *)
(* them: internal/session and the commands up, down, exec and              *)
(* `reach <target> <command>` of cmd/reach.                                *)
(*                                                                         *)
(* Every command is a process of its own.  A session is a file, saved      *)
(* through one temporary name that all processes use, and a second file    *)
(* with the working directory, saved through a name of each process.  The  *)
(* connection to a host is shared by the sessions on it.                   *)
(*                                                                         *)
(* Ups are `reach up --name`, Firsts `reach <target> <command>`, Calls     *)
(* tool calls (`reach exec` and the shell prefix), Downs `reach down`.  A  *)
(* record is named by the command that saved it, which fixes what is in    *)
(* it.  Hosts are ssh hosts that multiplex.                                *)
(***************************************************************************)
EXTENDS Naturals, Sequences

CONSTANTS
    Ups, Firsts, Calls, Downs, \* commands
    Directory,                 \* session names, in the order List reads them
    NameOf,                    \* the name an up, a call or a down is given
    SpecOf,                    \* the target an up or a first is given
    Host, Lands,               \* where a target's spelling leads
    Bare, Tilde,               \* spellings with no path, and with ~
    Candidates,                \* the names a spelling may get, best first; the
                               \* last one is the digest's, nobody else's
    ModeOf,                    \* the options of an up or a first
    Typed, Fresh,              \* firsts with options typed, with --fresh
    MaxDeaths                  \* bound on commands killed

Savers == Ups \cup Firsts
Commands == Savers \cup Calls \cup Downs
Names == {Directory[i] : i \in DOMAIN Directory}
Specs == DOMAIN Candidates
None == "none"
Unreadable == {"empty", "mixed"}

ASSUME SessionsAssumption ==
    /\ Ups \cap Firsts = {} /\ Savers \cap (Calls \cup Downs) = {} /\ Calls \cap Downs = {}
    /\ None \notin Savers \cup Names /\ Unreadable \cap (Savers \cup {None}) = {}
    /\ Directory \in Seq(Names)
    /\ SpecOf \in [Savers -> Specs]
    /\ NameOf \in [Ups \cup Calls \cup Downs -> Names]
    /\ \A s \in Specs : Candidates[s] \in Seq(Names) /\ Len(Candidates[s]) > 1
    /\ Bare \subseteq Specs /\ Tilde \subseteq Specs
    /\ Typed \subseteq Firsts /\ Fresh \subseteq Firsts
    /\ MaxDeaths \in Nat

\* The digest in a name is three bytes of a SHA-256: that two targets of one base
\* name do not share them, nor an up is given such a name by hand, is assumed.
ASSUME DigestAssumption ==
    \A p \in Firsts, q \in Savers :
        LET digest == Candidates[SpecOf[p]][Len(Candidates[SpecOf[p]])] IN
        \/ q \in Ups /\ NameOf[q] = digest
        \/ q \in Firsts /\ \E i \in DOMAIN Candidates[SpecOf[q]] : Candidates[SpecOf[q]][i] = digest
        => Host[SpecOf[q]] = Host[SpecOf[p]] /\ Lands[SpecOf[q]] = Lands[SpecOf[p]]

VARIABLES
    pc,      \* where each command is
    name,    \* the session each command is about
    got,     \* the record each command found: a call's and a down's session, and
             \* what a first's search found under the name it chose
    turn,    \* how far a first's search or a down's list is
    file,    \* the file of each session: the saver whose temporary it was
    tmp,     \* its temporary, likewise
    body,    \* what is in each of those files
    fd,      \* the file each saver writes to
    cwd,     \* the session whose directory is recorded under each name
    conn,    \* hosts with a connection open
    sharing, \* downs that found another session on their host
    ranIn,   \* the session whose directory each call ran in
    \* history
    torn,    \* names that two commands saved at once
    muddled, \* names repointed or removed while another command used them, or
             \* repointed by a command that did not record the new directory
    moved,   \* downs during which another session was saved or removed
    deaths

files == <<file, tmp, body, fd>>
history == <<torn, muddled, moved>>
vars == <<pc, name, got, turn, files, cwd, conn, sharing, ranIn,
          history, deaths>>

Target(p) == <<Host[SpecOf[p]], Lands[SpecOf[p]]>>

TypeOK ==
    /\ pc \in [Commands -> {"start", "pick", "reuse", "probe", "open", "write",
                            "rename", "setcwd", "cwd", "run", "list", "close",
                            "rmcwd", "remove", "done"}]
    /\ name \in [Commands -> Names \cup {None}]
    /\ got \in [Commands -> Savers \cup Unreadable \cup {None}]
    /\ turn \in [Commands -> Nat]
    /\ file \in [Names -> Savers \cup {None}] /\ tmp \in [Names -> Savers \cup {None}]
    /\ body \in [Savers -> Savers \cup Unreadable \cup {None}]
    /\ fd \in [Savers -> Savers \cup {None}]
    /\ cwd \in [Names -> Savers \cup {None}]
    /\ conn \subseteq {Host[s] : s \in Specs}
    /\ sharing \subseteq Downs /\ moved \subseteq Downs
    /\ ranIn \in [Calls -> Savers \cup {None}]
    /\ torn \subseteq Names /\ muddled \subseteq Names
    /\ deaths \in 0..MaxDeaths
    /\ \A p \in Savers : pc[p] \in {"write", "rename"} => fd[p] # None
    /\ \A n \in Names : file[n] = None \/ file[n] # tmp[n]

Init ==
    /\ pc = [p \in Commands |-> IF p \in Firsts THEN "pick" ELSE "start"]
    /\ name = [p \in Commands |-> IF p \in Firsts THEN None ELSE NameOf[p]]
    /\ got = [p \in Commands |-> None]
    /\ turn = [p \in Commands |-> 1]
    /\ file = [n \in Names |-> None] /\ tmp = [n \in Names |-> None]
    /\ body = [p \in Savers |-> None] /\ fd = [p \in Savers |-> None]
    /\ cwd = [n \in Names |-> None]
    /\ conn = {} /\ sharing = {}
    /\ ranIn = [p \in Calls |-> None]
    /\ torn = {} /\ muddled = {} /\ moved = {} /\ deaths = 0

-----------------------------------------------------------------------------
Goto(p, where) == pc' = [pc EXCEPT ![p] = where]

\* Commands in the middle of something about a session, p aside.
Others(p, n) ==
    {q \in Commands \ {p} : name[q] = n /\ pc[q] \notin {"start", "done"}}

\* A command that starts while a session is being repointed may get the record
\* of one target and the directory of another.
Meets(p, n) ==
    IF \E q \in Others(p, n) \cap Savers : pc[q] = "setcwd"
    THEN muddled \cup {n} ELSE muddled

\* What Load finds under a name: a record, one that cannot be read, or nothing.
Load(n) == IF file[n] = None THEN None ELSE body[file[n]]

SameTarget(have, want) ==
    /\ have \in Savers
    /\ Host[SpecOf[have]] = Host[want]
    /\ want \in Bare \/ (want \notin Tilde /\ Lands[SpecOf[have]] = Lands[want])

OptionsAgree(have, p) == p \in Typed => ModeOf[have] = ModeOf[p]

-----------------------------------------------------------------------------
(* Finding the session of a target.                                        *)

\* pickSessionName: the first name that is free or already this target's; the
\* digest's when all are taken.
Pick(p) ==
    /\ pc[p] = "pick"
    /\ LET n == Candidates[SpecOf[p]][turn[p]] IN
        IF \/ Load(n) = None \/ SameTarget(Load(n), SpecOf[p])
           \/ turn[p] = Len(Candidates[SpecOf[p]])
        THEN /\ name' = [name EXCEPT ![p] = n] /\ got' = [got EXCEPT ![p] = Load(n)]
             /\ muddled' = Meets(p, n) /\ UNCHANGED turn
             /\ Goto(p, IF p \in Fresh THEN "probe" ELSE "reuse")
        ELSE /\ turn' = [turn EXCEPT ![p] = @ + 1]
             /\ UNCHANGED <<pc, name, got, muddled>>
    /\ UNCHANGED <<files, cwd, conn, sharing, ranIn, torn, moved, deaths>>

\* ensureSession: a session for this target is used as it is once its host
\* answers, or right away by a command that needs no connection.  Finding that
\* somebody else has taken the name since does not send it back to Pick.
Reuse(p) ==
    /\ pc[p] = "reuse"
    /\ LET have == Load(name[p]) IN
        IF SameTarget(have, SpecOf[p]) /\ OptionsAgree(have, p)
        THEN \/ Goto(p, "done") /\ conn' \in {conn, conn \cup {Host[SpecOf[have]]}}
             \/ Goto(p, "probe") /\ UNCHANGED conn
        ELSE Goto(p, "probe") /\ UNCHANGED conn
    /\ UNCHANGED <<name, got, turn, files, cwd, sharing, ranIn, history, deaths>>

-----------------------------------------------------------------------------
(* Bringing a session up.                                                  *)

StartUp(p) ==
    /\ p \in Ups /\ pc[p] = "start"
    /\ Goto(p, "probe")
    /\ muddled' = Meets(p, name[p])
    /\ UNCHANGED <<name, got, turn, files, cwd, conn, sharing, ranIn, torn, moved, deaths>>

\* Probe opens the connection first and keeps it, whatever it finds after that.
Probe(p) ==
    /\ pc[p] = "probe"
    /\ \/ Goto(p, "open") /\ conn' = conn \cup {Host[SpecOf[p]]}
       \/ Goto(p, "done") /\ conn' \in {conn, conn \cup {Host[SpecOf[p]]}}
    /\ UNCHANGED <<name, got, turn, files, cwd, sharing, ranIn, history, deaths>>

\* Mutant of OpenTmp: the session is written in place.
OpenTmpInPlace(p) ==
    LET f == IF file[name[p]] = None THEN p ELSE file[name[p]] IN
    /\ pc[p] = "open"
    /\ Goto(p, "write")
    /\ fd' = [fd EXCEPT ![p] = f] /\ body' = [body EXCEPT ![f] = "empty"]
    /\ file' = [file EXCEPT ![name[p]] = f]
    /\ UNCHANGED <<name, got, turn, tmp, cwd, conn, sharing, ranIn, history, deaths>>

\* Save's os.WriteFile: the temporary is created, or truncated where it is.
OpenTmp(p) ==
    LET n == name[p]
        f == IF tmp[n] = None THEN p ELSE tmp[n]
    IN
    /\ pc[p] = "open"
    /\ Goto(p, "write")
    /\ tmp' = [tmp EXCEPT ![n] = f]
    /\ fd' = [fd EXCEPT ![p] = f] /\ body' = [body EXCEPT ![f] = "empty"]
    /\ torn' = IF \E q \in Others(p, n) : pc[q] \in {"write", "rename"}
               THEN torn \cup {n} ELSE torn
    /\ UNCHANGED <<name, got, turn, file, cwd, conn, sharing, ranIn, muddled, moved, deaths>>

\* Where another process has written in the meantime, a longer record of its
\* leaves a tail behind this one.
WriteTmp(p) ==
    /\ pc[p] = "write"
    /\ Goto(p, "rename")
    /\ \E b \in IF body[fd[p]] = "empty" THEN {p} ELSE {p, "mixed"} :
            body' = [body EXCEPT ![fd[p]] = b]
    /\ UNCHANGED <<name, got, turn, file, tmp, fd, cwd, conn, sharing, ranIn, history, deaths>>

\* Save's os.Rename; another process may have taken the temporary away.
Rename(p) ==
    LET n == name[p] IN
    /\ pc[p] = "rename"
    /\ IF tmp[n] = None
       THEN Goto(p, "done") /\ UNCHANGED <<file, tmp, muddled, moved>>
       ELSE /\ Goto(p, "setcwd")
            /\ file' = [file EXCEPT ![n] = tmp[n]]
            /\ tmp' = [tmp EXCEPT ![n] = None]
            /\ muddled' = IF Others(p, n) # {} THEN muddled \cup {n} ELSE muddled
            /\ moved' = moved \cup {q \in Downs : name[q] # n /\ pc[q] \notin {"start", "done"}}
    /\ UNCHANGED <<name, got, turn, body, fd, cwd, conn, sharing, ranIn, torn, deaths>>

\* Mutant of SetUpCwd: the directory recorded for the name stays.
SetUpCwdOnce(p) ==
    LET n == name[p] IN
    /\ pc[p] = "setcwd"
    /\ Goto(p, "done")
    /\ cwd' = [cwd EXCEPT ![n] = IF @ = None THEN p ELSE @]
    /\ muddled' = IF Others(p, n) # {} THEN muddled \cup {n} ELSE muddled
    /\ UNCHANGED <<name, got, turn, files, conn, sharing, ranIn, torn, moved, deaths>>

\* bringUp records the workspace as the directory; a failure is only reported.
SetUpCwd(p) ==
    LET n == name[p] IN
    /\ pc[p] = "setcwd"
    /\ Goto(p, "done")
    /\ \/ /\ cwd' = [cwd EXCEPT ![n] = p]
          /\ muddled' = IF Others(p, n) # {} THEN muddled \cup {n} ELSE muddled
       \/ UNCHANGED cwd /\ muddled' = muddled \cup {n}
    /\ UNCHANGED <<name, got, turn, files, conn, sharing, ranIn, torn, moved, deaths>>

-----------------------------------------------------------------------------
(* Tool calls.                                                             *)

LoadForCall(p) ==
    LET n == name[p] IN
    /\ p \in Calls /\ pc[p] = "start"
    /\ got' = [got EXCEPT ![p] = Load(n)]
    /\ IF Load(n) \in Savers THEN Goto(p, "cwd") ELSE Goto(p, "done")
    /\ muddled' = Meets(p, n)
    /\ UNCHANGED <<name, turn, files, cwd, conn, sharing, ranIn, torn, moved, deaths>>

\* Cwd falls back to the workspace of the record loaded before.
ReadCwd(p) ==
    LET n == name[p] IN
    /\ pc[p] = "cwd"
    /\ ranIn' = [ranIn EXCEPT ![p] = IF cwd[n] = None THEN got[p] ELSE cwd[n]]
    /\ Goto(p, "run")
    /\ UNCHANGED <<name, got, turn, files, cwd, conn, sharing, history, deaths>>

\* The command runs on the session's host, and the directory it ended in is
\* recorded, unless it never said so or the record cannot be written.
Run(p) ==
    LET n == name[p] IN
    /\ pc[p] = "run"
    /\ Goto(p, "done")
    /\ \/ /\ conn' = conn \cup {Host[SpecOf[got[p]]]}
          /\ cwd' \in {cwd, [cwd EXCEPT ![n] = got[p]]}
       \/ UNCHANGED <<conn, cwd>>
    /\ UNCHANGED <<name, got, turn, files, sharing, ranIn, history, deaths>>

-----------------------------------------------------------------------------
(* Down.                                                                   *)

\* A session that cannot be read is removed without its connection.
LoadForDown(p) ==
    LET n == name[p] IN
    /\ p \in Downs /\ pc[p] = "start"
    /\ got' = [got EXCEPT ![p] = Load(n)]
    /\ CASE Load(n) = None -> Goto(p, "done")
         [] Load(n) \in Unreadable -> Goto(p, "rmcwd")
         [] OTHER -> Goto(p, "list")
    /\ UNCHANGED <<name, turn, files, cwd, conn, sharing, ranIn, history, deaths>>

\* Mutant of Shares: only a session in the same directory counts.
SharesAll(other, p) == other \in Savers /\ Target(other) = Target(got[p])

\* SharesConnectionWith asks for the same host; what does not load is ignored.
Shares(other, p) ==
    other \in Savers /\ Host[SpecOf[other]] = Host[SpecOf[got[p]]]

\* List loads one session after the other.
List(p) ==
    /\ pc[p] = "list"
    /\ LET n == Directory[turn[p]] IN
        sharing' = IF n # name[p] /\ Shares(Load(n), p) THEN sharing \cup {p} ELSE sharing
    /\ IF turn[p] = Len(Directory)
       THEN Goto(p, "close") /\ UNCHANGED turn
       ELSE turn' = [turn EXCEPT ![p] = @ + 1] /\ UNCHANGED pc
    /\ UNCHANGED <<name, got, files, cwd, conn, ranIn, history, deaths>>

Close(p) ==
    /\ pc[p] = "close"
    /\ conn' = IF p \in sharing THEN conn ELSE conn \ {Host[SpecOf[got[p]]]}
    /\ Goto(p, "rmcwd")
    /\ UNCHANGED <<name, got, turn, files, cwd, sharing, ranIn, history, deaths>>

\* Remove takes the directory away first, so that a session is never left with
\* the directory of one that is gone.
RemoveCwd(p) ==
    /\ pc[p] = "rmcwd"
    /\ cwd' = [cwd EXCEPT ![name[p]] = None]
    /\ Goto(p, "remove")
    /\ UNCHANGED <<name, got, turn, files, conn, sharing, ranIn, history, deaths>>

Remove(p) ==
    LET n == name[p] IN
    /\ pc[p] = "remove"
    /\ file' = [file EXCEPT ![n] = None]
    /\ Goto(p, "done")
    /\ UNCHANGED <<name, got, turn, tmp, body, fd, cwd, conn, sharing, ranIn, history, deaths>>

-----------------------------------------------------------------------------
\* A command is killed, at most MaxDeaths of them, between two of its changes.
\* Killed earlier, it is one that failed.
Die(p) ==
    /\ deaths < MaxDeaths
    /\ pc[p] \in {"write", "rename", "setcwd", "close", "rmcwd", "remove"}
    /\ deaths' = deaths + 1
    /\ Goto(p, "done")
    /\ muddled' = IF pc[p] = "setcwd" THEN muddled \cup {name[p]} ELSE muddled
    /\ UNCHANGED <<name, got, turn, files, cwd, conn, sharing, ranIn, torn, moved>>

BringUp(p) == Probe(p) \/ OpenTmp(p) \/ WriteTmp(p) \/ Rename(p) \/ SetUpCwd(p)

Next ==
    \E p \in Commands :
        \/ Pick(p) \/ Reuse(p)
        \/ StartUp(p) \/ BringUp(p)
        \/ LoadForCall(p) \/ ReadCwd(p) \/ Run(p)
        \/ LoadForDown(p) \/ List(p) \/ Close(p) \/ RemoveCwd(p) \/ Remove(p)
        \/ Die(p)

Spec == Init /\ [][Next]_vars

-----------------------------------------------------------------------------
(* Properties.                                                             *)

\* A session that was saved can be loaded, at every moment and whichever command
\* was killed where, unless two commands saved it at the same time: what "Save
\* writes the session atomically" comes to with one temporary name for all.
ReadableUnlessTorn == \A n \in Names : Load(n) \in Unreadable => n \in torn

\* pickSessionName: targets that derive the same name do not overwrite each
\* other.  A command that found its name itself replaces the session of another
\* target only if that appeared after it looked.
OthersNamesAreKept ==
    [][\A p \in Firsts : pc[p] = "rename" /\ pc'[p] = "setcwd" =>
            LET held == Load(name[p]) IN
            held \in Savers /\ held = got[p] /\ SpecOf[p] \notin Bare
                => Target(held) = Target(p)]_vars

\* A tool call runs in a directory of the target it runs on, never in one that
\* was recorded for the target its session pointed at before, unless a command
\* that repointed the session met another one or did not get to its end, or two
\* were saved at once.
CallRunsWhereItsSessionIs ==
    \A c \in Calls : ranIn[c] # None /\ name[c] \notin muddled \cup torn
                        => Target(ranIn[c]) = Target(got[c])

\* A down that ends a connection leaves no session behind on that host, other
\* than one saved since it began to look: SharesConnectionWith says that ending
\* a connection another session works over may be a failure.
DownSparesOthers ==
    [][\A p \in Downs :
        pc[p] = "close" /\ pc'[p] = "rmcwd" /\ conn' # conn /\ p \notin moved
            => \A n \in Names \ (torn \cup {name[p]}) :
                    Load(n) \in Savers => Host[SpecOf[Load(n)]] # Host[SpecOf[got[p]]]]_vars

\* Commands of different agents keep out of each other's way: neither the names
\* nor the connections of others are taken.
OthersAreSpared == OthersNamesAreKept /\ DownSparesOthers

\* The same target again is the same session: a search does not pass by a
\* session that a command with the very same spelling saved.
SameSpecSameSession ==
    [][\A p \in Firsts : pc[p] = "pick" /\ turn'[p] > turn[p] =>
            LET held == Load(Candidates[SpecOf[p]][turn[p]]) IN
            ~(held \in Firsts /\ SpecOf[held] = SpecOf[p])]_vars

=============================================================================
