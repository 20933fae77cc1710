---------------------------- MODULE SessionsProofs ----------------------------
(***************************************************************************)
(* What Sessions promises, for any number of commands, names, targets and  *)
(* hosts.  A file is an inode that belongs to one name for good.  As long  *)
(* as no two commands save a name at once, its temporary is in the hands   *)
(* of one of them; as long as nobody repoints a name that is in use, all   *)
(* that use it agree on its target.  And what the mirror of a session      *)
(* promises, in the second half.                                           *)
(***************************************************************************)
EXTENDS Sessions, Mirror, TLAPS, FiniteSetTheorems

\* Where the commands of each kind can be.
Kinds ==
    /\ \A p \in Firsts : pc[p] \in {"pick", "reuse", "probe", "open", "write", "rename",
                                    "setcwd", "done"}
    /\ \A p \in Ups : pc[p] \in {"start", "probe", "open", "write", "rename", "setcwd", "done"}
    /\ \A p \in Calls : pc[p] \in {"start", "cwd", "run", "done"}
    /\ \A p \in Downs : pc[p] \in {"start", "list", "close", "rmcwd", "remove", "done"}

\* What each command knows of its session: its name, the record it found.
Knows ==
    /\ \A p \in Ups \cup Calls \cup Downs : name[p] = NameOf[p]
    /\ \A p \in Firsts :
          IF pc[p] = "pick" THEN turn[p] \in DOMAIN Candidates[SpecOf[p]]
          ELSE \E i \in DOMAIN Candidates[SpecOf[p]] : name[p] = Candidates[SpecOf[p]][i]
    /\ \A p \in Calls : /\ pc[p] \in {"cwd", "run"} => got[p] \in Savers
                        /\ ranIn[p] # None => pc[p] \in {"run", "done"}
    /\ \A p \in Downs : /\ pc[p] \in {"list", "close"} => got[p] \in Savers
                        /\ pc[p] = "start" => turn[p] = 1
                        /\ pc[p] = "list" => turn[p] \in DOMAIN Directory

\* The command has not opened its temporary yet.
Early(p) == pc[p] \in {"start", "pick", "reuse", "probe", "open"}

\* A file is one saver's, of one name, wherever it is found; so is what it holds.
OwnInodes(n) ==
    /\ file[n] # None => name[file[n]] = n /\ ~Early(file[n])
    /\ tmp[n] # None => name[tmp[n]] = n /\ ~Early(tmp[n])

OwnFd(p) == fd[p] # None => name[fd[p]] = name[p] /\ ~Early(fd[p]) /\ ~Early(p)

OwnBody(p) == body[p] \in Savers => name[body[p]] = name[p] /\ ~Early(body[p]) /\ ~Early(p)

Inodes ==
    /\ \A n \in Names : OwnInodes(n)
    /\ \A p \in Savers : OwnFd(p) /\ OwnBody(p)

\* Where no two commands have saved at once, one at a time has the temporary.
Holds(p, n) == name[p] = n /\ pc[p] \in {"write", "rename"}

Written(p, n) ==
    Holds(p, n) => /\ fd[p] = tmp[n] /\ tmp[n] # None
                   /\ body[tmp[n]] = IF pc[p] = "write" THEN "empty" ELSE p

Writers ==
    \A n \in Names \ torn :
        /\ \A p \in Savers : Written(p, n)
        /\ \A p, q \in Savers : Holds(p, n) /\ Holds(q, n) => p = q
        /\ file[n] # None => body[file[n]] \in Savers

\* A call that has loaded its session and not ended; a command that has saved
\* the session and not yet its directory.
Busy(c, n) == name[c] = n /\ pc[c] \in {"cwd", "run"}
Setting(q, n) == name[q] = n /\ pc[q] = "setcwd"

\* Where no session was repointed in use, all who use a name mean one target.
Agree(n) ==
    /\ file[n] # None /\ cwd[n] # None =>
          \/ Target(cwd[n]) = Target(body[file[n]])
          \/ \E q \in Savers : Setting(q, n)
    /\ \A q \in Savers : Setting(q, n) =>
          /\ file[n] # None => body[file[n]] = q
          /\ \A c \in Calls : ~Busy(c, n)
    /\ \A c \in Calls : Busy(c, n) =>
          /\ file[n] # None => Target(got[c]) = Target(body[file[n]])
          /\ cwd[n] # None => Target(cwd[n]) = Target(got[c])
          /\ \A d \in Calls : Busy(d, n) => Target(got[d]) = Target(got[c])
    /\ \A c \in Calls : name[c] = n /\ ranIn[c] # None => Target(ranIn[c]) = Target(got[c])

Agreement == \A n \in Names \ (torn \cup muddled) : Agree(n)

\* A down that found nobody on its host so far has looked at what there is.
Listed ==
    \A p \in Downs \ (moved \cup sharing), i \in DOMAIN Directory :
        LET n == Directory[i] IN
        /\ pc[p] = "close" \/ (pc[p] = "list" /\ i < turn[p])
        /\ n # name[p] /\ n \notin torn /\ Load(n) \in Savers
        => Host[SpecOf[Load(n)]] # Host[SpecOf[got[p]]]

\* A search settles on a name only if what it found there is its own target.
Found ==
    \A p \in Firsts : got[p] \in Savers /\ SpecOf[p] \notin Bare => Target(got[p]) = Target(p)

IInv == TypeOK /\ Kinds /\ Knows /\ Inodes /\ Writers /\ Agreement /\ Listed /\ Found

\* One step of a command.
Step(p) ==
    \/ Pick(p) \/ Reuse(p) \/ StartUp(p) \/ BringUp(p)
    \/ LoadForCall(p) \/ ReadCwd(p) \/ Run(p)
    \/ LoadForDown(p) \/ List(p) \/ Close(p) \/ RemoveCwd(p) \/ Remove(p) \/ Die(p)
-----------------------------------------------------------------------------
\* The kinds of commands, and what the constants give them.
LEMMA CommandFacts ==
  /\ Savers \subseteq Commands /\ Calls \subseteq Commands /\ Downs \subseteq Commands
  /\ Ups \subseteq Savers /\ Firsts \subseteq Savers
  /\ \A p \in Savers : p # None /\ p \notin Unreadable
  /\ None \notin Unreadable /\ \A n \in Names : n # None
  /\ \A p \in Savers : SpecOf[p] \in Specs
  /\ \A p \in Ups \cup Calls \cup Downs : NameOf[p] \in Names
  /\ \A p \in Firsts : \A i \in DOMAIN Candidates[SpecOf[p]] :
        i \in Nat /\ Candidates[SpecOf[p]][i] \in Names
  /\ \A i \in DOMAIN Directory : i \in Nat /\ Directory[i] \in Names
<1>1. /\ Savers \subseteq Commands /\ Calls \subseteq Commands /\ Downs \subseteq Commands
      /\ Ups \subseteq Savers /\ Firsts \subseteq Savers
  BY DEF Savers, Commands
<1>2. /\ \A p \in Savers : p # None /\ p \notin Unreadable
      /\ None \notin Unreadable /\ \A n \in Names : n # None
  BY SessionsAssumption
<1>3. /\ \A p \in Savers : SpecOf[p] \in Specs
      /\ \A p \in Ups \cup Calls \cup Downs : NameOf[p] \in Names
  BY SessionsAssumption
<1>4. ASSUME NEW s \in Specs, NEW i \in DOMAIN Candidates[s]
      PROVE  i \in Nat /\ Candidates[s][i] \in Names
  BY SessionsAssumption
<1>5. \A i \in DOMAIN Directory : i \in Nat /\ Directory[i] \in Names
  BY SessionsAssumption
<1>. QED
  BY <1>1, <1>2, <1>3, <1>4, <1>5

\* Who may be where.
LEMMA KindFacts ==
  ASSUME Kinds, NEW p \in Commands
  PROVE  /\ pc[p] \in {"pick", "reuse"} => p \in Firsts
         /\ pc[p] \in {"probe", "open", "write", "rename", "setcwd"} => p \in Savers
         /\ pc[p] \in {"cwd", "run"} => p \in Calls
         /\ pc[p] \in {"list", "close", "rmcwd", "remove"} => p \in Downs
BY DEF Kinds, Commands, Savers

\* What Load finds.
LEMMA LoadFacts ==
  ASSUME TypeOK, NEW n \in Names
  PROVE  /\ Load(n) \in Savers \cup Unreadable \cup {None}
         /\ Load(n) \in Savers \cup Unreadable => file[n] \in Savers /\ Load(n) = body[file[n]]
         /\ file[n] # None => file[n] \in Savers /\ Load(n) = body[file[n]]
BY CommandFacts DEF TypeOK, Load

\* A command that has settled on a session has a name for it.
LEMMA NameFacts ==
  ASSUME Knows, Kinds, NEW p \in Commands, pc[p] # "pick"
  PROVE  name[p] \in Names
<1>1. CASE p \in Firsts
  BY <1>1, CommandFacts DEF Knows
<1>2. CASE p \in Ups \cup Calls \cup Downs
  BY <1>2, CommandFacts DEF Knows
<1>. QED
  BY <1>1, <1>2 DEF Commands, Savers

LEMMA InitHolds == Init => IInv
<1>. SUFFICES ASSUME Init PROVE IInv
  OBVIOUS
<1>1. ASSUME NEW s \in Specs PROVE 1 \in DOMAIN Candidates[s]
  BY SessionsAssumption
<1>2. TypeOK
  <2>1. name \in [Commands -> Names \cup {None}]
    <3>1. \A p \in Commands \ Firsts : NameOf[p] \in Names
      BY CommandFacts DEF Commands, Savers
    <3>. QED
      BY <3>1 DEF Init
  <2>2. deaths \in 0..MaxDeaths
    BY SessionsAssumption DEF Init
  <2>. HIDE SessionsAssumption
  <2>3. pc \in [Commands -> {"pick", "start"}]
    BY DEF Init
  <2>4. \A p \in Savers : pc[p] \notin {"write", "rename"}
    BY <2>3, CommandFacts
  <2>. QED
    BY <2>1, <2>2, <2>3, <2>4 DEF Init, TypeOK
<1>3. Kinds
  BY SessionsAssumption DEF Init, Kinds, Commands, Savers
<1>4. Knows
  <2>1. \A p \in Ups \cup Calls \cup Downs : p \notin Firsts /\ p \in Commands
    BY SessionsAssumption DEF Commands, Savers
  <2>2. \A p \in Firsts : p \in Commands /\ SpecOf[p] \in Specs
    BY CommandFacts
  <2>. QED
    BY <1>1, <2>1, <2>2 DEF Init, Knows
<1>5. Inodes /\ Found
  BY CommandFacts DEF Init, Inodes, OwnInodes, OwnFd, OwnBody, Found
<1>6. Writers /\ Agreement /\ Listed
  BY CommandFacts, <1>3 DEF Init, Writers, Written, Holds, Agreement, Agree, Setting, Busy,
     Listed, Kinds
<1>. QED
  BY <1>2, <1>3, <1>4, <1>5, <1>6 DEF IInv

-----------------------------------------------------------------------------
\* The variables keep their types.
LEMMA TypeKept ==
  ASSUME IInv, NEW p \in Commands, Step(p)
  PROVE  TypeOK'
<1>. USE CommandFacts
<1>0. TypeOK /\ Kinds /\ Knows /\ Inodes
  BY DEF IInv
<1>. DEFINE PC == {"start", "pick", "reuse", "probe", "open", "write", "rename", "setcwd",
                   "cwd", "run", "list", "close", "rmcwd", "remove", "done"}
            FdOK == \A q \in Savers : pc[q] \in {"write", "rename"} => fd[q] # None
            TmpOK == \A n \in Names : file[n] = None \/ file[n] # tmp[n]
<1>a. ASSUME NEW to \in PC \ {"write", "rename"}, pc' = [pc EXCEPT ![p] = to], UNCHANGED fd
      PROVE  pc' \in [Commands -> PC] /\ FdOK'
  BY <1>0, <1>a DEF TypeOK
<1>b. UNCHANGED <<file, tmp>> => TmpOK'
  BY <1>0 DEF TypeOK
<1>1. CASE Pick(p)
  <2>. DEFINE n == Candidates[SpecOf[p]][turn[p]]
  <2>1. p \in Firsts /\ n \in Names /\ turn[p] \in Nat
    BY <1>0, <1>1, KindFacts DEF Pick, Knows
  <2>2. Load(n) \in Savers \cup Unreadable \cup {None}
    BY <1>0, <2>1, LoadFacts
  <2>3. Meets(p, n) \subseteq Names
    BY <1>0, <2>1 DEF TypeOK, Meets
  <2>. HIDE DEF n
  <2>4. \/ /\ name' = [name EXCEPT ![p] = n] /\ got' = [got EXCEPT ![p] = Load(n)]
           /\ muddled' = Meets(p, n) /\ UNCHANGED turn
           /\ \E to \in {"probe", "reuse"} : pc' = [pc EXCEPT ![p] = to]
        \/ /\ turn' = [turn EXCEPT ![p] = @ + 1]
           /\ UNCHANGED <<pc, name, got, muddled>>
    BY <1>1 DEF Pick, Goto, n
  <2>5. UNCHANGED <<file, tmp, body, fd, cwd, conn, sharing, ranIn, torn, moved, deaths>>
    BY <1>1 DEF Pick, files
  <2>6. pc' \in [Commands -> PC] /\ FdOK'
    BY <1>0, <1>a, <2>4, <2>5 DEF TypeOK
  <2>7. /\ name' \in [Commands -> Names \cup {None}]
        /\ got' \in [Commands -> Savers \cup Unreadable \cup {None}]
        /\ muddled' \subseteq Names /\ turn' \in [Commands -> Nat]
    BY <1>0, <2>1, <2>2, <2>3, <2>4 DEF TypeOK
  <2>. QED
    BY <1>0, <1>b, <2>5, <2>6, <2>7 DEF TypeOK
<1>2. CASE Reuse(p)
  <2>1. UNCHANGED <<name, got, turn, file, tmp, body, fd, cwd, sharing, ranIn, torn, muddled,
                    moved, deaths>>
    BY <1>2 DEF Reuse, files, history
  <2>2. \E to \in {"probe", "done"} : pc' = [pc EXCEPT ![p] = to]
    BY <1>2 DEF Reuse, Goto
  <2>3. conn' \subseteq {Host[s] : s \in Specs}
    BY <1>0, <1>2 DEF Reuse, TypeOK, SameTarget
  <2>4. pc' \in [Commands -> PC] /\ FdOK'
    BY <1>a, <2>1, <2>2
  <2>. QED
    BY <1>0, <1>b, <2>1, <2>3, <2>4 DEF TypeOK
<1>3. CASE StartUp(p)
  <2>1. UNCHANGED <<name, got, turn, file, tmp, body, fd, cwd, conn, sharing, ranIn, torn, moved,
                    deaths>>
    BY <1>3 DEF StartUp, files
  <2>2. pc' = [pc EXCEPT ![p] = "probe"] /\ name[p] \in Names
    BY <1>0, <1>3, NameFacts DEF StartUp, Goto
  <2>3. muddled' \subseteq Names
    BY <1>0, <1>3, <2>2 DEF StartUp, TypeOK, Meets
  <2>4. pc' \in [Commands -> PC] /\ FdOK'
    BY <1>a, <2>1, <2>2
  <2>. QED
    BY <1>0, <1>b, <2>1, <2>3, <2>4 DEF TypeOK
<1>4. CASE Probe(p)
  <2>1. UNCHANGED <<name, got, turn, file, tmp, body, fd, cwd, sharing, ranIn, torn, muddled,
                    moved, deaths>> /\ p \in Savers
    BY <1>0, <1>4, KindFacts DEF Probe, files, history
  <2>2. \E to \in {"open", "done"} : pc' = [pc EXCEPT ![p] = to]
    BY <1>4 DEF Probe, Goto
  <2>3. conn' \subseteq {Host[s] : s \in Specs}
    BY <1>0, <1>4, <2>1 DEF Probe, TypeOK
  <2>4. pc' \in [Commands -> PC] /\ FdOK'
    BY <1>a, <2>1, <2>2
  <2>. QED
    BY <1>0, <1>b, <2>1, <2>3, <2>4 DEF TypeOK
<1>5. CASE OpenTmp(p)
  <2>1. p \in Savers /\ name[p] \in Names
    BY <1>0, <1>5, KindFacts, NameFacts DEF OpenTmp
  <2>. DEFINE n == name[p]
              f == IF tmp[n] = None THEN p ELSE tmp[n]
  <2>2. f \in Savers
    BY <1>0, <2>1 DEF TypeOK
  <2>3. file[n] # f
    BY <1>0, <1>5, <2>1 DEF TypeOK, OpenTmp, Inodes, OwnInodes, Early
  <2>4. /\ tmp' = [tmp EXCEPT ![n] = f] /\ fd' = [fd EXCEPT ![p] = f]
        /\ body' = [body EXCEPT ![f] = "empty"] /\ torn' \in {torn, torn \cup {n}}
        /\ UNCHANGED <<name, got, turn, file, cwd, conn, sharing, ranIn, muddled, moved, deaths>>
        /\ pc' = [pc EXCEPT ![p] = "write"]
    BY <1>5 DEF OpenTmp, Goto
  <2>. HIDE DEF n, f
  <2>5. pc' \in [Commands -> PC] /\ FdOK'
    BY <1>0, <2>2, <2>4 DEF TypeOK
  <2>6. TmpOK' /\ tmp' \in [Names -> Savers \cup {None}] /\ fd' \in [Savers -> Savers \cup {None}]
    BY <1>0, <2>1, <2>2, <2>3, <2>4 DEF TypeOK, n
  <2>7. body' \in [Savers -> Savers \cup Unreadable \cup {None}] /\ torn' \subseteq Names
    BY <1>0, <2>1, <2>2, <2>4 DEF TypeOK, n, Unreadable
  <2>. QED
    BY <1>0, <2>4, <2>5, <2>6, <2>7 DEF TypeOK
<1>6. CASE WriteTmp(p)
  <2>1. p \in Savers /\ fd[p] \in Savers
    BY <1>0, <1>6, KindFacts DEF WriteTmp, TypeOK
  <2>2. \E b \in {p, "mixed"} : body' = [body EXCEPT ![fd[p]] = b]
    BY <1>6 DEF WriteTmp
  <2>3. /\ pc' = [pc EXCEPT ![p] = "rename"] /\ pc[p] = "write"
        /\ UNCHANGED <<name, got, turn, file, tmp, fd, cwd, conn, sharing, ranIn, torn, muddled,
                       moved, deaths>>
    BY <1>6 DEF WriteTmp, Goto, history
  <2>4. body' \in [Savers -> Savers \cup Unreadable \cup {None}]
    BY <1>0, <2>1, <2>2 DEF TypeOK, Unreadable
  <2>5. pc' \in [Commands -> PC] /\ FdOK'
    BY <1>0, <2>1, <2>3 DEF TypeOK
  <2>. QED
    BY <1>0, <1>b, <2>3, <2>4, <2>5 DEF TypeOK
<1>7. CASE Rename(p)
  <2>1. p \in Savers /\ name[p] \in Names
    BY <1>0, <1>7, KindFacts, NameFacts DEF Rename
  <2>2. \E to \in {"setcwd", "done"} : pc' = [pc EXCEPT ![p] = to]
    BY <1>7 DEF Rename, Goto
  <2>3. UNCHANGED <<name, got, turn, body, fd, cwd, conn, sharing, ranIn, torn, deaths>>
    BY <1>7 DEF Rename
  <2>4. /\ file' \in [Names -> Savers \cup {None}] /\ tmp' \in [Names -> Savers \cup {None}]
        /\ TmpOK' /\ moved' \subseteq Downs /\ muddled' \subseteq Names
    BY <1>0, <1>7, <2>1 DEF Rename, TypeOK
  <2>5. pc' \in [Commands -> PC] /\ FdOK'
    BY <1>a, <2>2, <2>3
  <2>. QED
    BY <1>0, <2>3, <2>4, <2>5 DEF TypeOK
<1>8. CASE SetUpCwd(p)
  <2>1. p \in Savers /\ name[p] \in Names
    BY <1>0, <1>8, KindFacts, NameFacts DEF SetUpCwd
  <2>. QED
    BY <1>0, <1>8, <2>1 DEF SetUpCwd, TypeOK, Goto, files
<1>9. CASE LoadForCall(p)
  BY <1>0, <1>9, LoadFacts DEF LoadForCall, TypeOK, Goto, files, Knows, Meets
<1>10. CASE ReadCwd(p)
  <2>1. p \in Calls /\ name[p] \in Names /\ got[p] \in Savers
    BY <1>0, <1>10, KindFacts DEF ReadCwd, Knows
  <2>. QED
    BY <1>0, <1>10, <2>1 DEF ReadCwd, TypeOK, Goto, files, history
<1>11. CASE Run(p)
  <2>1. p \in Calls /\ name[p] \in Names /\ got[p] \in Savers
    BY <1>0, <1>11, KindFacts DEF Run, Knows
  <2>. QED
    BY <1>0, <1>11, <2>1 DEF Run, TypeOK, Goto, files, history
<1>12. CASE LoadForDown(p)
  <2>1. p \in Downs /\ Load(name[p]) \in Savers \cup Unreadable \cup {None}
    BY <1>0, <1>12, LoadFacts DEF LoadForDown, Knows
  <2>2. \E to \in {"done", "rmcwd", "list"} : pc' = [pc EXCEPT ![p] = to]
    BY <1>12 DEF LoadForDown, Goto
  <2>3. /\ got' = [got EXCEPT ![p] = Load(name[p])]
        /\ UNCHANGED <<name, turn, file, tmp, body, fd, cwd, conn, sharing, ranIn, torn, muddled,
                       moved, deaths>>
    BY <1>12 DEF LoadForDown, files, history
  <2>4. pc' \in [Commands -> PC] /\ FdOK'
    BY <1>a, <2>2, <2>3
  <2>5. got' \in [Commands -> Savers \cup Unreadable \cup {None}]
    BY <1>0, <2>1, <2>3 DEF TypeOK
  <2>. QED
    BY <1>0, <1>b, <2>3, <2>4, <2>5 DEF TypeOK
<1>13. CASE List(p)
  <2>1. p \in Downs
    BY <1>0, <1>13, KindFacts DEF List
  <2>2. UNCHANGED <<name, got, file, tmp, body, fd, cwd, conn, ranIn, torn, muddled, moved, deaths>>
    BY <1>13 DEF List, files, history
  <2>3. sharing' \subseteq Downs
    BY <1>0, <1>13, <2>1 DEF List, TypeOK
  <2>4. turn' \in [Commands -> Nat]
    BY <1>0, <1>13 DEF List, TypeOK
  <2>5. pc' \in [Commands -> PC] /\ FdOK'
    BY <1>0, <1>a, <1>13, <2>2 DEF List, Goto, TypeOK
  <2>. QED
    BY <1>0, <1>b, <2>2, <2>3, <2>4, <2>5 DEF TypeOK
<1>14. CASE Close(p)
  BY <1>0, <1>14 DEF Close, TypeOK, Goto, files, history
<1>15. CASE RemoveCwd(p)
  BY <1>0, <1>15 DEF RemoveCwd, TypeOK, Goto, files, history
<1>16. CASE Remove(p)
  BY <1>0, <1>16 DEF Remove, TypeOK, Goto, files, history
<1>17. CASE Die(p)
  <2>1. name[p] \in Names
    BY <1>0, <1>17, KindFacts, NameFacts DEF Die, Knows
  <2>2. /\ pc' = [pc EXCEPT ![p] = "done"] /\ deaths' \in 0..MaxDeaths /\ muddled' \subseteq Names
        /\ UNCHANGED <<name, got, turn, file, tmp, body, fd, cwd, conn, sharing, ranIn, torn, moved>>
    BY <1>0, <1>17, <2>1, SessionsAssumption DEF Die, Goto, files, TypeOK
  <2>3. pc' \in [Commands -> PC] /\ FdOK'
    BY <1>a, <2>2
  <2>. QED
    BY <1>0, <1>b, <2>2, <2>3 DEF TypeOK
<1>. QED
  BY <1>1, <1>2, <1>3, <1>4, <1>5, <1>6, <1>7, <1>8, <1>9, <1>10, <1>11, <1>12, <1>13,
     <1>14, <1>15, <1>16, <1>17 DEF Step, BringUp

\* Where a step leads its command; it is the only one that moves.
LEMMA Moves ==
  ASSUME IInv, NEW p \in Commands, Step(p)
  PROVE  /\ \A q \in Commands \ {p} :
               pc'[q] = pc[q] /\ name'[q] = name[q] /\ got'[q] = got[q] /\ turn'[q] = turn[q]
         /\ pc[p] # "pick" => name'[p] = name[p]
         /\ \/ pc[p] = "start" /\ p \in Ups /\ pc'[p] = "probe"
            \/ pc[p] = "start" /\ p \in Calls /\ pc'[p] \in {"cwd", "done"}
            \/ pc[p] = "start" /\ p \in Downs /\ pc'[p] \in {"list", "rmcwd", "done"}
            \/ pc[p] = "pick" /\ pc'[p] \in {"pick", "reuse", "probe"}
            \/ pc[p] = "reuse" /\ pc'[p] \in {"probe", "done"}
            \/ pc[p] = "probe" /\ pc'[p] \in {"open", "done"}
            \/ pc[p] = "open" /\ pc'[p] = "write"
            \/ pc[p] = "write" /\ pc'[p] \in {"rename", "done"}
            \/ pc[p] = "rename" /\ pc'[p] \in {"setcwd", "done"}
            \/ pc[p] = "setcwd" /\ pc'[p] = "done"
            \/ pc[p] = "cwd" /\ pc'[p] = "run"
            \/ pc[p] = "run" /\ pc'[p] = "done"
            \/ pc[p] = "list" /\ pc'[p] \in {"list", "close"}
            \/ pc[p] = "close" /\ pc'[p] \in {"rmcwd", "done"}
            \/ pc[p] = "rmcwd" /\ pc'[p] \in {"remove", "done"}
            \/ pc[p] = "remove" /\ pc'[p] = "done"
<1>0. TypeOK
  BY DEF IInv
<1>1. CASE Pick(p)
  BY <1>0, <1>1 DEF TypeOK, Pick, Goto
<1>2. CASE Reuse(p) \/ StartUp(p)
  BY <1>0, <1>2 DEF TypeOK, Reuse, StartUp, Goto
<1>3. CASE BringUp(p)
  BY <1>0, <1>3 DEF TypeOK, BringUp, Probe, OpenTmp, WriteTmp, Rename, SetUpCwd, Goto
<1>4. CASE LoadForCall(p)
  BY <1>0, <1>4 DEF TypeOK, LoadForCall, Goto
<1>5. CASE ReadCwd(p) \/ Run(p)
  BY <1>0, <1>5 DEF TypeOK, ReadCwd, Run, Goto
<1>6. CASE LoadForDown(p)
  BY <1>0, <1>6 DEF TypeOK, LoadForDown, Goto
<1>7. CASE List(p)
  BY <1>0, <1>7 DEF TypeOK, List, Goto
<1>8. CASE Close(p) \/ RemoveCwd(p) \/ Remove(p) \/ Die(p)
  BY <1>0, <1>8 DEF TypeOK, Close, RemoveCwd, Remove, Die, Goto
<1>. QED
  BY <1>1, <1>2, <1>3, <1>4, <1>5, <1>6, <1>7, <1>8 DEF Step

\* A saver that has opened its temporary stays with its name.
LEMMA Settled ==
  ASSUME IInv, NEW p \in Commands, Step(p), NEW q \in Savers, ~Early(q)
  PROVE  ~Early(q)' /\ name'[q] = name[q]
BY CommandFacts, Moves DEF Early, IInv, Kinds

\* Every command goes the way of its kind.
LEMMA KindsKept ==
  ASSUME IInv, NEW p \in Commands, Step(p)
  PROVE  Kinds'
<1>1. /\ p \in Ups => p \notin Firsts \cup Calls \cup Downs
      /\ p \in Firsts => p \notin Calls \cup Downs
      /\ p \in Calls => p \notin Downs
  BY SessionsAssumption DEF Savers
<1>2. Kinds
  BY DEF IInv
<1>. QED
  BY <1>1, <1>2, Moves, CommandFacts DEF Kinds

\* What each kind of command does.
LEMMA Doings ==
  ASSUME IInv, NEW p \in Commands, Step(p)
  PROVE  /\ p \in Savers => Pick(p) \/ Reuse(p) \/ StartUp(p) \/ BringUp(p) \/ Die(p)
         /\ p \in Calls => LoadForCall(p) \/ ReadCwd(p) \/ Run(p)
         /\ p \in Downs => \/ LoadForDown(p) \/ List(p) \/ Close(p) \/ RemoveCwd(p)
                           \/ Remove(p) \/ Die(p)
<1>0. Kinds
  BY DEF IInv
<1>a. /\ p \in Savers => p \notin Calls \cup Downs
      /\ p \in Calls => p \notin Savers \cup Downs
      /\ p \in Downs => p \notin Savers \cup Calls
  BY SessionsAssumption
<1>1. CASE p \in Savers
  <2>1. pc[p] \notin {"cwd", "run", "list", "close", "rmcwd", "remove"}
    BY <1>0, <1>1 DEF Kinds, Savers
  <2>. QED
    BY <1>1, <1>a, <2>1 DEF Step, LoadForCall, ReadCwd, Run, LoadForDown, List, Close,
       RemoveCwd, Remove
<1>2. CASE p \in Calls
  <2>1. pc[p] \in {"start", "cwd", "run", "done"} /\ p \notin Ups
    BY <1>0, <1>a, <1>2, CommandFacts DEF Kinds
  <2>. QED
    BY <1>2, <1>a, <2>1 DEF Step, BringUp, Pick, Reuse, StartUp, Probe, OpenTmp, WriteTmp,
       Rename, SetUpCwd, LoadForDown, List, Close, RemoveCwd, Remove, Die
<1>3. CASE p \in Downs
  <2>1. pc[p] \in {"start", "list", "close", "rmcwd", "remove", "done"} /\ p \notin Ups
    BY <1>0, <1>a, <1>3, CommandFacts DEF Kinds
  <2>. QED
    BY <1>3, <1>a, <2>1 DEF Step, BringUp, Pick, Reuse, StartUp, Probe, OpenTmp, WriteTmp,
       Rename, SetUpCwd, LoadForCall, ReadCwd, Run
<1>. QED
  BY <1>1, <1>2, <1>3 DEF Commands

\* What the commands know of their sessions stays true.
LEMMA KnowsKept ==
  ASSUME IInv, NEW p \in Commands, Step(p)
  PROVE  Knows'
<1>0. TypeOK /\ Kinds /\ Knows
  BY DEF IInv
<1>a. /\ \A q \in Firsts : q \notin Ups \cup Calls \cup Downs
      /\ \A q \in Ups \cup Calls \cup Downs : q \notin Firsts
      /\ \A q \in Calls : q \notin Downs
  BY SessionsAssumption DEF Savers
<1>1. ASSUME NEW q \in Ups \cup Calls \cup Downs PROVE name'[q] = NameOf[q]
  BY <1>0, <1>a, <1>1, Moves, CommandFacts DEF Knows, Kinds
<1>2. ASSUME NEW q \in Firsts
      PROVE  IF pc'[q] = "pick" THEN turn'[q] \in DOMAIN Candidates[SpecOf[q]]
             ELSE \E i \in DOMAIN Candidates[SpecOf[q]] : name'[q] = Candidates[SpecOf[q]][i]
  <2>1. CASE Pick(p) /\ q = p
    <3>1. /\ turn[p] \in 1..Len(Candidates[SpecOf[p]])
          /\ DOMAIN Candidates[SpecOf[p]] = 1..Len(Candidates[SpecOf[p]])
          /\ Len(Candidates[SpecOf[p]]) \in Nat
      BY <1>0, <2>1, CommandFacts, SessionsAssumption DEF Pick, Knows
    <3>2. CASE /\ turn[p] # Len(Candidates[SpecOf[p]]) /\ turn' = [turn EXCEPT ![p] = @ + 1]
               /\ UNCHANGED pc
      BY <1>0, <2>1, <3>1, <3>2 DEF TypeOK, Pick
    <3>3. CASE /\ name' = [name EXCEPT ![p] = Candidates[SpecOf[p]][turn[p]]]
               /\ \E to \in {"probe", "reuse"} : pc' = [pc EXCEPT ![p] = to]
      BY <1>0, <2>1, <3>1, <3>3 DEF TypeOK
    <3>. QED
      BY <2>1, <3>2, <3>3 DEF Pick, Goto
  <2>2. CASE q # p \/ pc[p] # "pick"
    BY <1>0, <2>2, Moves, CommandFacts DEF Knows
  <2>. QED
    BY <2>1, <2>2, <1>0, KindFacts DEF Step, BringUp, Reuse, StartUp, Probe, OpenTmp, WriteTmp,
       Rename, SetUpCwd, LoadForCall, ReadCwd, Run, LoadForDown, List, Close, RemoveCwd,
       Remove, Die
<1>3. ASSUME NEW q \in Calls
      PROVE  /\ pc'[q] \in {"cwd", "run"} => got'[q] \in Savers
             /\ ranIn'[q] # None => pc'[q] \in {"run", "done"}
  <2>1. CASE LoadForCall(p) /\ q = p
    BY <1>0, <2>1 DEF TypeOK, Knows, LoadForCall, Goto
  <2>2. CASE ReadCwd(p) /\ q = p
    BY <1>0, <2>2 DEF TypeOK, Knows, ReadCwd, Goto
  <2>3. CASE Run(p) /\ q = p
    BY <1>0, <2>3 DEF TypeOK, Knows, Run, Goto
  <2>4. CASE q # p
    <3>1. ranIn'[q] = ranIn[q]
      BY <1>0, <2>4 DEF TypeOK, Step, BringUp, Pick, Reuse, StartUp, Probe, OpenTmp, WriteTmp,
         Rename, SetUpCwd, LoadForCall, ReadCwd, Run, LoadForDown, List, Close, RemoveCwd,
         Remove, Die
    <3>. QED
      BY <1>0, <2>4, <3>1, Moves, CommandFacts DEF Knows
  <2>. QED
    BY <2>1, <2>2, <2>3, <2>4, Doings
<1>4. ASSUME NEW q \in Downs
      PROVE  /\ pc'[q] \in {"list", "close"} => got'[q] \in Savers
             /\ pc'[q] = "start" => turn'[q] = 1
             /\ pc'[q] = "list" => turn'[q] \in DOMAIN Directory
  <2>0. 1 \in DOMAIN Directory /\ Len(Directory) \in Nat /\ DOMAIN Directory = 1..Len(Directory)
    <3>1. Directory \in Seq(Names) /\ NameOf[q] \in Names
      BY SessionsAssumption
    <3>. QED
      BY <3>1 DEF Names
  <2>1. CASE LoadForDown(p) /\ q = p
    <3>1. Load(name[p]) \in Savers \cup Unreadable \cup {None}
      BY <1>0, <2>1, LoadFacts, CommandFacts DEF Knows
    <3>2. CASE pc'[p] = "list"
      <4>1. Load(name[p]) # None /\ Load(name[p]) \notin Unreadable
        BY <1>0, <2>1, <3>2 DEF TypeOK, LoadForDown, Goto
      <4>. QED
        BY <1>0, <2>0, <2>1, <3>1, <4>1 DEF TypeOK, Knows, LoadForDown
    <3>. QED
      BY <1>0, <2>1, <3>2, Moves DEF Knows, LoadForDown
  <2>2. CASE List(p) /\ q = p
    BY <1>0, <2>0, <2>2 DEF TypeOK, Knows, List, Goto
  <2>3. CASE (Close(p) \/ RemoveCwd(p) \/ Remove(p) \/ Die(p)) /\ q = p
    BY <1>0, <2>3, Moves DEF Knows, Close, RemoveCwd, Remove, Die
  <2>4. CASE q # p
    BY <1>0, <2>4, Moves, CommandFacts DEF Knows
  <2>. QED
    BY <2>1, <2>2, <2>3, <2>4, Doings
<1>. QED
  BY <1>1, <1>2, <1>3, <1>4 DEF Knows

\* A file stays the saver's and the name's it was created for.
LEMMA InodesKept ==
  ASSUME IInv, NEW p \in Commands, Step(p)
  PROVE  Inodes'
<1>0. TypeOK /\ Kinds /\ Knows /\ Inodes
  BY DEF IInv
<1>a. \A q \in Savers : ~Early(q) => ~Early(q)' /\ name'[q] = name[q]
  BY Settled
<1>1. CASE UNCHANGED files
  BY <1>0, <1>a, <1>1, CommandFacts DEF TypeOK, Inodes, OwnInodes, OwnFd, OwnBody, Early, files
<1>2. CASE OpenTmp(p)
  <2>. DEFINE n == name[p]
  <2>1. p \in Savers /\ n \in Names
    BY <1>0, <1>2, KindFacts, NameFacts DEF OpenTmp
  <2>2. file' = file /\ name' = name /\ ~Early(p)'
    BY <1>0, <1>2 DEF OpenTmp, Goto, TypeOK, Early
  <2>3. PICK f \in Savers :
           /\ f = IF tmp[n] = None THEN p ELSE tmp[n]
           /\ tmp' = [tmp EXCEPT ![n] = f] /\ fd' = [fd EXCEPT ![p] = f]
           /\ body' = [body EXCEPT ![f] = "empty"]
    BY <1>0, <1>2, <2>1 DEF TypeOK, OpenTmp
  <2>4. name[f] = n /\ ~Early(f)' /\ "empty" \notin Savers
    BY <1>0, <1>a, <2>1, <2>2, <2>3, CommandFacts DEF TypeOK, Inodes, OwnInodes, Unreadable
  <2>5. ASSUME NEW m \in Names PROVE OwnInodes(m)'
    BY <1>0, <1>a, <2>1, <2>2, <2>3, <2>4 DEF TypeOK, Inodes, OwnInodes, Early
  <2>6. ASSUME NEW q \in Savers PROVE OwnFd(q)'
    BY <1>0, <1>a, <2>1, <2>2, <2>3, <2>4 DEF TypeOK, Inodes, OwnFd, Early
  <2>7. ASSUME NEW q \in Savers PROVE OwnBody(q)'
    BY <1>0, <1>a, <2>1, <2>2, <2>3, <2>4 DEF TypeOK, Inodes, OwnBody, Early
  <2>. QED
    BY <2>5, <2>6, <2>7 DEF Inodes
<1>3. CASE WriteTmp(p)
  <2>1. p \in Savers /\ fd[p] \in Savers /\ ~Early(p)
    BY <1>0, <1>3, KindFacts DEF WriteTmp, TypeOK, Early
  <2>2. \E b \in {p, "mixed"} : body' = [body EXCEPT ![fd[p]] = b]
    BY <1>3 DEF WriteTmp
  <2>3. UNCHANGED <<file, tmp, fd>>
    BY <1>3 DEF WriteTmp
  <2>4. "mixed" \notin Savers
    BY CommandFacts DEF Unreadable
  <2>5. ASSUME NEW q \in Savers PROVE OwnBody(q)'
    BY <1>0, <1>a, <2>1, <2>2, <2>4, CommandFacts DEF TypeOK, Inodes, OwnInodes, OwnFd,
       OwnBody, Early
  <2>6. ASSUME NEW m \in Names PROVE  OwnInodes(m)'
    BY <1>0, <1>a, <2>3 DEF TypeOK, Inodes, OwnInodes, OwnFd, OwnBody, Early
  <2>7. ASSUME NEW q \in Savers PROVE OwnFd(q)'
    BY <1>0, <1>a, <2>3 DEF TypeOK, Inodes, OwnInodes, OwnFd, OwnBody, Early
  <2>. QED
    BY <2>5, <2>6, <2>7 DEF Inodes
<1>4. CASE Rename(p) \/ Remove(p)
  <2>1. name[p] \in Names
    BY <1>0, <1>4, NameFacts DEF Rename, Remove
  <2>2. /\ file' = file \/ file' = [file EXCEPT ![name[p]] = tmp[name[p]]]
                        \/ file' = [file EXCEPT ![name[p]] = None]
        /\ tmp' = tmp \/ tmp' = [tmp EXCEPT ![name[p]] = None]
        /\ UNCHANGED <<body, fd>>
    BY <1>4 DEF Rename, Remove
  <2>3. ASSUME NEW m \in Names PROVE  OwnInodes(m)'
    <3>1. file'[m] # None => file'[m] \in Savers /\ name[file'[m]] = m /\ ~Early(file'[m])
      BY <1>0, <2>1, <2>2 DEF TypeOK, Inodes, OwnInodes, OwnFd, OwnBody, Early
    <3>2. tmp'[m] # None => tmp'[m] \in Savers /\ name[tmp'[m]] = m /\ ~Early(tmp'[m])
      BY <1>0, <2>1, <2>2 DEF TypeOK, Inodes, OwnInodes, OwnFd, OwnBody, Early
    <3>. QED
      BY <1>a, <3>1, <3>2 DEF OwnInodes, Early
  <2>4. ASSUME NEW q \in Savers PROVE OwnFd(q)'
    BY <1>0, <1>a, <2>2 DEF TypeOK, Inodes, OwnInodes, OwnFd, OwnBody, Early
  <2>5. ASSUME NEW q \in Savers PROVE OwnBody(q)'
    BY <1>0, <1>a, <2>2 DEF TypeOK, Inodes, OwnInodes, OwnFd, OwnBody, Early
  <2>. QED
    BY <2>3, <2>4, <2>5 DEF Inodes
<1>. QED
  BY <1>1, <1>2, <1>3, <1>4 DEF Step, BringUp, Pick, Reuse, StartUp, Probe, SetUpCwd,
     LoadForCall, ReadCwd, Run, LoadForDown, List, Close, RemoveCwd, Die

\* The name under a target that has no other is its digest's, and a record found
\* there is of a command that was given the same target.
LEMMA DigestIsOwn ==
  ASSUME TypeOK, Knows, Inodes, NEW p \in Firsts,
         LET n == Candidates[SpecOf[p]][Len(Candidates[SpecOf[p]])] IN
         n \in Names /\ Load(n) \in Savers
  PROVE  LET n == Candidates[SpecOf[p]][Len(Candidates[SpecOf[p]])] IN
         Target(Load(n)) = Target(p)
<1>. DEFINE n == Candidates[SpecOf[p]][Len(Candidates[SpecOf[p]])]
            q == Load(n)
<1>1. q = body[file[n]] /\ file[n] \in Savers /\ q \in Savers
  BY LoadFacts, CommandFacts
<1>2. name[file[n]] = n
  BY <1>1, CommandFacts DEF Inodes, OwnInodes
<1>3. name[q] = n /\ ~Early(q)
  BY <1>1, <1>2 DEF Inodes, OwnBody
<1>4. CASE q \in Ups
  BY <1>3, <1>4, DigestAssumption DEF Knows, Target
<1>5. CASE q \in Firsts
  <2>1. \E i \in DOMAIN Candidates[SpecOf[q]] : n = Candidates[SpecOf[q]][i]
    BY <1>3, <1>5 DEF Knows, Early
  <2>2. Host[SpecOf[q]] = Host[SpecOf[p]] /\ Lands[SpecOf[q]] = Lands[SpecOf[p]]
    BY <2>1, <1>1, <1>5, DigestAssumption
  <2>. QED
    BY <2>2 DEF Target
<1>. QED
  BY <1>1, <1>4, <1>5 DEF Savers

\* A search takes a name that is free, its own target's, or nobody else's.
LEMMA FoundKept ==
  ASSUME IInv, NEW p \in Commands, Step(p)
  PROVE  Found'
<1>0. TypeOK /\ Kinds /\ Knows /\ Inodes /\ Found
  BY DEF IInv
<1>a. \A q \in Firsts : q \in Commands /\ q \in Savers /\ q \notin Calls \cup Downs
  BY CommandFacts, SessionsAssumption
<1>. SUFFICES ASSUME NEW q \in Firsts, got'[q] \in Savers, SpecOf[q] \notin Bare
              PROVE  Target(got'[q]) = Target(q)
  BY DEF Found, Target
<1>1. CASE q = p /\ Pick(p) /\ got' # got
  <2>. DEFINE n == Candidates[SpecOf[p]][turn[p]]
  <2>1. n \in Names
    BY <1>0, <1>1, CommandFacts DEF Pick, Knows
  <2>2. got'[p] = Load(n)
    BY <1>0, <1>1 DEF Pick, TypeOK
  <2>3. \/ SameTarget(Load(n), SpecOf[p])
        \/ turn[p] = Len(Candidates[SpecOf[p]])
    BY <1>1, <2>2, CommandFacts DEF Pick
  <2>4. CASE SameTarget(Load(n), SpecOf[p])
    BY <1>1, <2>2, <2>4 DEF SameTarget, Target
  <2>5. CASE turn[p] = Len(Candidates[SpecOf[p]])
    BY <1>0, <1>1, <2>1, <2>2, <2>5, DigestIsOwn
  <2>. QED
    BY <2>3, <2>4, <2>5
<1>2. CASE q # p \/ got' = got
  BY <1>0, <1>a, <1>2, Moves DEF Found
<1>. QED
  BY <1>1, <1>2, <1>a, Doings DEF Reuse, StartUp, BringUp, Probe, OpenTmp, WriteTmp, Rename,
     SetUpCwd, Die

\* What is remembered of encounters is never forgotten.
LEMMA Grows ==
  ASSUME IInv, NEW p \in Commands, Step(p)
  PROVE  torn \subseteq torn' /\ muddled \subseteq muddled' /\ moved \subseteq moved'
         /\ sharing \subseteq sharing'
<1>1. torn \subseteq torn'
  BY DEF Step, BringUp, Pick, Reuse, StartUp, Probe, OpenTmp, WriteTmp, Rename, SetUpCwd,
     LoadForCall, ReadCwd, Run, LoadForDown, List, Close, RemoveCwd, Remove, Die, history
<1>2. muddled \subseteq muddled'
  BY DEF Step, BringUp, Pick, Reuse, StartUp, Probe, OpenTmp, WriteTmp, Rename, SetUpCwd,
     Meets, LoadForCall, ReadCwd, Run, LoadForDown, List, Close, RemoveCwd, Remove, Die,
     history
<1>3. moved \subseteq moved'
  BY DEF Step, BringUp, Pick, Reuse, StartUp, Probe, OpenTmp, WriteTmp, Rename, SetUpCwd,
     LoadForCall, ReadCwd, Run, LoadForDown, List, Close, RemoveCwd, Remove, Die, history
<1>4. sharing \subseteq sharing'
  BY DEF Step, BringUp, Pick, Reuse, StartUp, Probe, OpenTmp, WriteTmp, Rename, SetUpCwd,
     LoadForCall, ReadCwd, Run, LoadForDown, List, Close, RemoveCwd, Remove, Die, history
<1>. QED
  BY <1>1, <1>2, <1>3, <1>4

\* Nobody writes into the file of a session, unless two saved it at once.
LEMMA BodyStands ==
  ASSUME IInv, NEW p \in Commands, Step(p), NEW n \in Names \ torn', file[n] # None
  PROVE  body'[file[n]] = body[file[n]]
<1>0. TypeOK /\ Kinds /\ Knows /\ Inodes /\ Writers
  BY DEF IInv
<1>1. file[n] \in Savers /\ name[file[n]] = n /\ ~Early(file[n]) /\ file[n] # tmp[n] /\ n \notin torn
  BY <1>0, Grows DEF TypeOK, Inodes, OwnInodes
<1>2. CASE OpenTmp(p)
  <2>1. p \in Savers /\ name[p] \in Names /\ Early(p)
    BY <1>0, <1>2, KindFacts, NameFacts DEF OpenTmp, Early
  <2>2. PICK f \in Savers : /\ f = IF tmp[name[p]] = None THEN p ELSE tmp[name[p]]
                            /\ body' = [body EXCEPT ![f] = "empty"]
    BY <1>0, <1>2, <2>1 DEF TypeOK, OpenTmp
  <2>3. f # file[n]
    BY <1>0, <1>1, <2>1, <2>2 DEF Inodes, OwnInodes
  <2>. QED
    BY <1>0, <1>1, <2>2, <2>3 DEF TypeOK
<1>3. CASE WriteTmp(p)
  <2>1. p \in Savers /\ fd[p] # None /\ name[p] \in Names
    BY <1>0, <1>3, KindFacts, NameFacts DEF WriteTmp, TypeOK
  <2>2. \E b : body' = [body EXCEPT ![fd[p]] = b]
    BY <1>3 DEF WriteTmp
  <2>3. name[fd[p]] = name[p]
    BY <1>0, <2>1 DEF Inodes, OwnFd
  <2>4. CASE name[p] = n
    BY <1>0, <1>1, <1>3, <2>1, <2>2, <2>4 DEF Writers, Written, Holds, WriteTmp, TypeOK
  <2>5. CASE name[p] # n
    BY <1>0, <1>1, <2>2, <2>3, <2>5 DEF TypeOK
  <2>. QED
    BY <2>4, <2>5
<1>. QED
  BY <1>2, <1>3 DEF Step, BringUp, Pick, Reuse, StartUp, Probe, Rename, SetUpCwd, LoadForCall,
     ReadCwd, Run, LoadForDown, List, Close, RemoveCwd, Remove, Die, files

\* One command at a time has the temporary of a name, or the name is torn.
LEMMA WritersKept ==
  ASSUME IInv, NEW p \in Commands, Step(p)
  PROVE  Writers'
<1>0. TypeOK /\ Kinds /\ Knows /\ Inodes /\ Writers
  BY DEF IInv
<1>. SUFFICES ASSUME NEW n \in Names \ torn'
              PROVE  /\ \A q \in Savers : Written(q, n)'
                     /\ \A q, r \in Savers : Holds(q, n)' /\ Holds(r, n)' => q = r
                     /\ file'[n] # None => body'[file'[n]] \in Savers
  BY DEF Writers
<1>1. /\ \A q \in Savers : Written(q, n)
      /\ \A q, r \in Savers : Holds(q, n) /\ Holds(r, n) => q = r
      /\ file[n] # None => body[file[n]] \in Savers
  BY <1>0, Grows DEF Writers
<1>2. \A q \in Savers \ {p} : Holds(q, n)' <=> Holds(q, n)
  BY Moves, CommandFacts DEF Holds
<1>3. file[n] # None => file[n] \in Savers /\ body'[file[n]] \in Savers
  BY <1>0, <1>1, BodyStands DEF TypeOK
<1>4. CASE OpenTmp(p)
  <2>1. p \in Savers /\ name[p] \in Names /\ pc[p] = "open" /\ pc'[p] = "write"
    BY <1>0, <1>4, KindFacts, NameFacts DEF OpenTmp, Goto, TypeOK
  <2>2. PICK f \in Savers : /\ f = IF tmp[name[p]] = None THEN p ELSE tmp[name[p]]
                            /\ body' = [body EXCEPT ![f] = "empty"]
                            /\ tmp' = [tmp EXCEPT ![name[p]] = f] /\ fd' = [fd EXCEPT ![p] = f]
    BY <1>0, <1>4, <2>1 DEF TypeOK, OpenTmp
  <2>3. file' = file /\ name' = name
    BY <1>4 DEF OpenTmp
  <2>4. CASE name[p] = n
    <3>1. \A q \in Savers \ {p} : ~Holds(q, n)
      BY <1>4, <2>4, CommandFacts DEF OpenTmp, Others, Holds
    <3>2. Written(p, n)'
      BY <1>0, <2>1, <2>2, <2>4, CommandFacts DEF Written, TypeOK
    <3>. QED
      BY <1>2, <1>3, <2>3, <3>1, <3>2 DEF Written
  <2>5. CASE name[p] # n
    <3>1. tmp'[n] = tmp[n] /\ ~Holds(p, n)'
      BY <1>0, <2>1, <2>2, <2>3, <2>5 DEF TypeOK, Holds
    <3>2. tmp[n] # None => tmp[n] \in Savers /\ body'[tmp[n]] = body[tmp[n]]
      BY <1>0, <2>1, <2>2, <2>5 DEF TypeOK, Inodes, OwnInodes
    <3>3. ASSUME NEW q \in Savers PROVE Written(q, n)'
      BY <1>0, <1>1, <1>2, <2>2, <3>1, <3>2, Moves, CommandFacts DEF Written, TypeOK
    <3>. QED
      BY <1>1, <1>2, <1>3, <2>3, <3>1, <3>3
  <2>. QED
    BY <2>4, <2>5
<1>5. CASE WriteTmp(p)
  <2>1. p \in Savers /\ name[p] \in Names /\ pc[p] = "write" /\ pc'[p] = "rename" /\ fd[p] \in Savers
    BY <1>0, <1>5, KindFacts, NameFacts DEF WriteTmp, Goto, TypeOK
  <2>2. UNCHANGED <<file, tmp, fd, name>> /\ name[fd[p]] = name[p]
    BY <1>0, <1>5, <2>1, CommandFacts DEF WriteTmp, Inodes, OwnFd
  <2>3. CASE name[p] = n
    <3>1. Holds(p, n) /\ fd[p] = tmp[n] /\ body[tmp[n]] = "empty"
      BY <1>1, <2>1, <2>3 DEF Written, Holds
    <3>2. body' = [body EXCEPT ![tmp[n]] = p]
      BY <1>5, <3>1 DEF WriteTmp
    <3>3. Written(p, n)'
      BY <1>0, <2>1, <2>2, <3>1, <3>2, CommandFacts DEF Written, TypeOK
    <3>4. \A q \in Savers \ {p} : ~Holds(q, n)'
      BY <1>1, <1>2, <2>1, <3>1
    <3>. QED
      BY <1>2, <1>3, <2>2, <3>3, <3>4 DEF Written
  <2>4. CASE name[p] # n
    <3>1. ~Holds(p, n)' /\ ~Holds(p, n)
      BY <2>2, <2>4 DEF Holds
    <3>2. tmp[n] # None => tmp[n] \in Savers /\ body'[tmp[n]] = body[tmp[n]]
      BY <1>0, <1>5, <2>1, <2>2, <2>4 DEF TypeOK, Inodes, OwnInodes, WriteTmp
    <3>3. ASSUME NEW q \in Savers PROVE Written(q, n)'
      BY <1>1, <1>2, <2>2, <3>1, <3>2, Moves, CommandFacts DEF Written
    <3>. QED
      BY <1>1, <1>2, <1>3, <2>2, <3>1, <3>3
  <2>. QED
    BY <2>3, <2>4
<1>6. CASE Rename(p) \/ Remove(p)
  <2>1. /\ name[p] \in Names /\ pc'[p] \in {"setcwd", "done"}
        /\ UNCHANGED <<name, body, fd>>
    BY <1>0, <1>6, NameFacts DEF Rename, Remove, Goto, TypeOK
  <2>2. ~Holds(p, n)'
    BY <2>1 DEF Holds
  <2>3. ASSUME NEW q \in Savers PROVE Written(q, n)'
    <3>1. CASE Holds(q, n)'
      <4>1. Holds(q, n) /\ pc'[q] = pc[q] /\ q # p
        BY <1>2, <2>2, <3>1, Moves, CommandFacts
      <4>2. tmp'[n] = tmp[n]
        <5>1. CASE Rename(p) /\ name[p] = n
          <6>1. p \in Savers /\ Holds(p, n)
            BY <1>0, <5>1, KindFacts DEF Rename, Holds
          <6>. QED
            BY <1>1, <4>1, <6>1
        <5>2. CASE Rename(p) /\ name[p] # n
          BY <1>0, <2>1, <5>2 DEF Rename, TypeOK
        <5>3. CASE Remove(p)
          BY <5>3 DEF Remove
        <5>. QED
          BY <1>6, <5>1, <5>2, <5>3
      <4>. QED
        BY <1>1, <2>1, <4>1, <4>2 DEF Written
    <3>. QED
      BY <3>1 DEF Written
  <2>4. ASSUME file'[n] # None PROVE body'[file'[n]] \in Savers
    <3>1. CASE file'[n] = file[n]
      BY <1>3, <2>4, <3>1
    <3>2. CASE file'[n] # file[n]
      <4>1. Rename(p) /\ name[p] = n /\ file'[n] = tmp[n] /\ p \in Savers
        BY <1>0, <1>6, <2>1, <2>4, <3>2, KindFacts DEF TypeOK, Rename, Remove
      <4>2. Holds(p, n) /\ pc[p] = "rename"
        BY <4>1 DEF Rename, Holds
      <4>. QED
        BY <1>1, <2>1, <4>1, <4>2 DEF Written
    <3>. QED
      BY <3>1, <3>2
  <2>. QED
    BY <1>1, <1>2, <2>2, <2>3, <2>4
<1>7. CASE UNCHANGED files /\ ~Holds(p, n)'
  <2>1. ASSUME NEW q \in Savers PROVE Written(q, n)'
    BY <1>1, <1>2, <1>7, <2>1, Moves, CommandFacts DEF Written, files
  <2>. QED
    BY <1>1, <1>2, <1>3, <1>7, <2>1 DEF files
<1>8. \/ OpenTmp(p) \/ WriteTmp(p) \/ Rename(p) \/ Remove(p)
      \/ UNCHANGED files /\ pc'[p] \notin {"write", "rename"}
  <2>1. CASE Die(p)
    BY <1>0, <2>1 DEF Die, Goto, TypeOK
  <2>2. CASE \/ Pick(p) \/ Reuse(p) \/ StartUp(p) \/ Probe(p) \/ SetUpCwd(p) \/ LoadForCall(p)
             \/ ReadCwd(p) \/ Run(p) \/ LoadForDown(p) \/ List(p) \/ Close(p) \/ RemoveCwd(p)
    <3>1. UNCHANGED files /\ pc[p] \notin {"open", "write"}
      BY <2>2 DEF Pick, Reuse, StartUp, Probe, SetUpCwd, LoadForCall, ReadCwd, Run,
         LoadForDown, List, Close, RemoveCwd
    <3>2. pc'[p] \notin {"write", "rename"}
      BY <3>1, Moves
    <3>. QED
      BY <3>1, <3>2
  <2>. QED
    BY <2>1, <2>2 DEF Step, BringUp
<1>. QED
  BY <1>4, <1>5, <1>6, <1>7, <1>8 DEF Holds

\* A down's list is complete as far as it has come.
LEMMA ListedKept ==
  ASSUME IInv, NEW p \in Commands, Step(p)
  PROVE  Listed'
<1>0. TypeOK /\ Kinds /\ Knows /\ Inodes /\ Writers /\ Listed
  BY DEF IInv
<1>1. SUFFICES ASSUME NEW q \in Downs \ (moved' \cup sharing'), NEW i \in DOMAIN Directory,
                      pc'[q] = "close" \/ (pc'[q] = "list" /\ i < turn'[q]),
                      Directory[i] # name'[q], Directory[i] \notin torn',
                      Load(Directory[i])' \in Savers
               PROVE  Host[SpecOf[Load(Directory[i])']] # Host[SpecOf[got'[q]]]
  BY DEF Listed
<1>. DEFINE n == Directory[i]
<1>2. n \in Names /\ i \in Nat /\ n \notin torn /\ q \notin moved \cup sharing /\ q \in Commands
  BY <1>1, Grows, CommandFacts
<1>3. CASE file'[n] = file[n]
  <2>1. Load(n)' = Load(n) /\ Load(n) \in Savers
    BY <1>1, <1>2, <1>3, BodyStands, CommandFacts DEF Load
  <2>2. CASE q # p
    BY <1>0, <1>1, <1>2, <2>1, <2>2, Moves DEF Listed
  <2>3. CASE List(p) /\ q = p
    <3>1. name' = name /\ got' = got
      BY <2>3 DEF List
    <3>2. turn[p] \in Nat /\ turn[p] \in DOMAIN Directory /\ Len(Directory) \in Nat
          /\ DOMAIN Directory = 1..Len(Directory)
      BY <1>0, <1>2, <2>3, SessionsAssumption DEF List, Knows
    <3>3. i < turn[p] \/ i = turn[p]
      BY <1>0, <1>1, <1>2, <2>3, <3>2 DEF List, TypeOK, Goto
    <3>4. CASE i < turn[p]
      BY <1>0, <1>1, <1>2, <2>1, <2>3, <3>1, <3>4 DEF Listed, List
    <3>5. CASE i = turn[p]
      BY <1>1, <1>2, <2>1, <2>3, <3>1, <3>5 DEF List, Shares
    <3>. QED
      BY <3>3, <3>4, <3>5
  <2>4. CASE q = p /\ ~List(p)
    <3>1. pc'[p] \in {"list", "close"} => LoadForDown(p)
      BY <1>1, <2>4, Moves, Doings DEF List, Close, RemoveCwd, Remove, Die
    <3>2. LoadForDown(p) /\ turn'[p] = 1
      BY <1>0, <1>1, <1>2, <2>4, <3>1 DEF LoadForDown, Knows
    <3>. QED
      BY <1>0, <1>1, <1>2, <2>4, <3>2, Moves, SessionsAssumption DEF LoadForDown
  <2>. QED
    BY <2>2, <2>3, <2>4
<1>4. CASE file'[n] # file[n]
  <2>1. \/ Rename(p) /\ name[p] = n /\ tmp[n] # None
        \/ Remove(p) /\ name[p] = n
    BY <1>0, <1>4, <1>2, NameFacts DEF TypeOK, Step, BringUp, Pick, Reuse, StartUp, Probe,
       OpenTmp, WriteTmp, Rename, SetUpCwd, LoadForCall, ReadCwd, Run, LoadForDown, List,
       Close, RemoveCwd, Remove, Die, files
  <2>2. CASE Remove(p) /\ name[p] = n
    BY <1>0, <1>1, <1>2, <2>2, CommandFacts DEF Remove, Load, TypeOK
  <2>3. CASE Rename(p) /\ name[p] = n /\ tmp[n] # None
    <3>1. p \in Savers /\ q # p
      BY <1>0, <1>1, <2>3, KindFacts, Moves DEF Rename
    <3>2. pc[q] \notin {"start", "done"} /\ name[q] # n
      BY <1>1, <1>2, <3>1, Moves
    <3>. QED
      BY <1>1, <1>2, <2>3, <3>2 DEF Rename
  <2>. QED
    BY <2>1, <2>2, <2>3
<1>. QED
  BY <1>3, <1>4

\* Who uses a name that nobody repointed in use means the target of its session.
LEMMA AgreementKept ==
  ASSUME IInv, NEW p \in Commands, Step(p)
  PROVE  Agreement'
<1>0. TypeOK /\ Kinds /\ Knows /\ Inodes /\ Writers /\ Agreement
  BY DEF IInv
<1>. SUFFICES ASSUME NEW n \in Names, n \notin torn', n \notin muddled'
              PROVE  Agree(n)'
  BY DEF Agreement
<1>1. Agree(n) /\ n \notin torn /\ n \notin muddled
  BY <1>0, Grows DEF Agreement
<1>2. file[n] # None => file[n] \in Savers /\ body'[file[n]] = body[file[n]]
  BY <1>0, BodyStands DEF TypeOK
<1>a. p \in Calls => p \notin Savers \cup Downs
  BY SessionsAssumption
\* Steps that are of no concern to those who use the name.
<1>q. ASSUME file'[n] = file[n], cwd'[n] = cwd[n], ranIn' = ranIn,
             \A c \in Calls : /\ Busy(c, n)' <=> Busy(c, n)
                              /\ got'[c] = got[c] /\ name'[c] = name[c],
             \A q \in Savers : Setting(q, n)' <=> Setting(q, n)
      PROVE  Agree(n)'
  BY <1>1, <1>2, <1>q DEF Agree
<1>b. p \notin Calls => \A c \in Calls : /\ Busy(c, n)' <=> Busy(c, n)
                                         /\ got'[c] = got[c] /\ name'[c] = name[c]
  BY Moves, CommandFacts DEF Busy
<1>c. pc[p] # "setcwd" /\ pc'[p] # "setcwd" =>
         \A q \in Savers : Setting(q, n)' <=> Setting(q, n)
  BY Moves, CommandFacts DEF Setting
<1>d. ASSUME name[p] # n, name' = name
      PROVE  /\ \A c \in Calls : Busy(c, n)' <=> Busy(c, n)
             /\ \A q \in Savers : Setting(q, n)' <=> Setting(q, n)
  BY <1>d, Moves, CommandFacts DEF Busy, Setting
<1>3. CASE \/ Pick(p) \/ Reuse(p) \/ StartUp(p) \/ Probe(p) \/ OpenTmp(p) \/ WriteTmp(p)
           \/ LoadForDown(p) \/ List(p) \/ Close(p)
  <2>1. UNCHANGED <<file, cwd, ranIn>>
    BY <1>3 DEF Pick, Reuse, StartUp, Probe, OpenTmp, WriteTmp, LoadForDown, List, Close, files
  <2>2. pc[p] \in {"pick", "reuse", "start", "probe", "open", "write", "list", "close"}
    BY <1>3 DEF Pick, Reuse, StartUp, Probe, OpenTmp, WriteTmp, LoadForDown, List, Close
  <2>3. p \notin Calls
    <3>1. pc[p] = "start" => p \in Ups \cup Downs
      BY <1>3 DEF Pick, Reuse, StartUp, Probe, OpenTmp, WriteTmp, LoadForDown, List, Close
    <3>2. pc[p] # "start" => p \notin Calls
      BY <1>0, <2>2 DEF Kinds
    <3>. QED
      BY <1>a, <3>1, <3>2, CommandFacts
  <2>4. pc[p] # "setcwd" /\ pc'[p] # "setcwd"
    BY <2>2, Moves
  <2>. QED
    BY <1>q, <1>b, <1>c, <2>1, <2>3, <2>4
<1>4. CASE Rename(p)
  <2>1. p \in Savers /\ p \notin Calls /\ name[p] \in Names /\ pc[p] = "rename"
    BY <1>0, <1>a, <1>4, KindFacts, NameFacts DEF Rename
  <2>2. UNCHANGED <<name, body, cwd, ranIn, got>>
    BY <1>4 DEF Rename
  <2>3. CASE name[p] = n /\ tmp[n] # None
    <3>1. pc' = [pc EXCEPT ![p] = "setcwd"] /\ file'[n] = tmp[n] /\ Others(p, n) = {}
      BY <1>0, <1>4, <2>1, <2>3 DEF Rename, Goto, TypeOK
    <3>2. body[tmp[n]] = p
      BY <1>0, <1>1, <2>1, <2>3 DEF Writers, Written, Holds
    <3>3. \A q \in Savers : Setting(q, n)' <=> q = p
      BY <1>0, <2>1, <2>2, <2>3, <3>1, CommandFacts DEF Setting, Others, TypeOK
    <3>4. \A c \in Calls : ~Busy(c, n)'
      BY <1>0, <2>1, <2>2, <3>1, CommandFacts DEF Busy, Others, TypeOK
    <3>. QED
      BY <1>1, <2>1, <2>2, <3>1, <3>2, <3>3, <3>4 DEF Agree
  <2>4. CASE name[p] = n /\ tmp[n] = None
    <3>1. UNCHANGED file /\ pc'[p] # "setcwd"
      BY <1>0, <1>4, <2>1, <2>4 DEF Rename, Goto, TypeOK
    <3>. QED
      BY <1>q, <1>b, <1>c, <2>1, <2>2, <3>1
  <2>5. CASE name[p] # n
    <3>1. file'[n] = file[n]
      BY <1>0, <1>4, <2>1, <2>5 DEF Rename, TypeOK
    <3>. QED
      BY <1>q, <1>d, <2>2, <2>5, <3>1
  <2>. QED
    BY <2>3, <2>4, <2>5
<1>5. CASE SetUpCwd(p)
  <2>1. p \in Savers /\ p \notin Calls /\ name[p] \in Names /\ pc[p] = "setcwd"
    BY <1>0, <1>a, <1>5, KindFacts, NameFacts DEF SetUpCwd
  <2>2. UNCHANGED <<name, file, body, ranIn, got>> /\ pc' = [pc EXCEPT ![p] = "done"]
    BY <1>5 DEF SetUpCwd, Goto, files
  <2>3. CASE name[p] = n
    <3>1. Others(p, n) = {} /\ cwd'[n] = p
      BY <1>0, <1>5, <2>1, <2>3 DEF SetUpCwd, TypeOK
    <3>2. file[n] # None => body[file[n]] = p
      BY <1>1, <2>1, <2>3 DEF Agree, Setting
    <3>3. \A q \in Savers : ~Setting(q, n)'
      BY <1>0, <2>1, <2>2, <2>3, <3>1, CommandFacts DEF Setting, Others, TypeOK
    <3>4. \A c \in Calls : ~Busy(c, n)'
      BY <1>0, <2>1, <2>2, <3>1, CommandFacts DEF Busy, Others, TypeOK
    <3>. QED
      BY <1>1, <2>2, <3>1, <3>2, <3>3, <3>4 DEF Agree
  <2>4. CASE name[p] # n
    <3>1. cwd'[n] = cwd[n]
      BY <1>0, <1>5, <2>1, <2>4 DEF SetUpCwd, TypeOK
    <3>. QED
      BY <1>q, <1>d, <2>2, <2>4, <3>1
  <2>. QED
    BY <2>3, <2>4
<1>6. CASE LoadForCall(p)
  <2>1. p \in Calls /\ p \notin Savers /\ pc[p] = "start" /\ name[p] \in Names
    BY <1>0, <1>a, <1>6, NameFacts DEF LoadForCall
  <2>2. UNCHANGED <<name, file, body, cwd, ranIn>> /\ got' = [got EXCEPT ![p] = Load(name[p])]
    BY <1>6 DEF LoadForCall, files
  <2>3. ranIn[p] = None /\ ~Busy(p, n)
    BY <1>0, <2>1 DEF Knows, Busy
  <2>4. \A q \in Savers : Setting(q, n)' <=> Setting(q, n)
    BY <2>1, Moves, <1>c
  <2>5. \A c \in Calls \ {p} : (Busy(c, n)' <=> Busy(c, n)) /\ got'[c] = got[c]
    BY Moves, CommandFacts DEF Busy
  <2>6. CASE Busy(p, n)'
    <3>1. name[p] = n /\ Load(n) \in Savers
      BY <1>0, <1>6, <2>2, <2>6 DEF Busy, LoadForCall, Goto, TypeOK
    <3>2. file[n] # None /\ got'[p] = body[file[n]]
      BY <1>0, <2>1, <2>2, <3>1, LoadFacts, CommandFacts DEF TypeOK, Load
    <3>3. \A q \in Savers : ~Setting(q, n)
      BY <1>6, <2>1, <3>1, CommandFacts DEF LoadForCall, Meets, Others, Setting
    <3>4. \A c \in Calls : Busy(c, n)' => Target(got'[c]) = Target(body[file[n]])
      BY <1>1, <2>5, <3>2 DEF Agree
    <3>5. cwd[n] # None => Target(cwd[n]) = Target(body[file[n]])
      BY <1>1, <3>2, <3>3 DEF Agree
    <3>6. \A c \in Calls : name[c] = n /\ ranIn[c] # None => Target(ranIn[c]) = Target(got'[c])
      BY <1>1, <2>3, <2>5 DEF Agree
    <3>. QED
      BY <2>2, <2>4, <3>2, <3>3, <3>4, <3>5, <3>6 DEF Agree
  <2>7. CASE ~Busy(p, n)'
    BY <1>1, <2>2, <2>3, <2>4, <2>5, <2>7 DEF Agree
  <2>. QED
    BY <2>6, <2>7
<1>7. CASE ReadCwd(p)
  <2>1. p \in Calls /\ p \notin Savers /\ pc[p] = "cwd" /\ name[p] \in Names
    BY <1>0, <1>a, <1>7, KindFacts, NameFacts DEF ReadCwd
  <2>2. /\ UNCHANGED <<name, got, file, body, cwd>> /\ pc' = [pc EXCEPT ![p] = "run"]
        /\ ranIn' = [ranIn EXCEPT ![p] = IF cwd[name[p]] = None THEN got[p] ELSE cwd[name[p]]]
    BY <1>7 DEF ReadCwd, Goto, files
  <2>3. /\ \A q \in Savers : Setting(q, n)' <=> Setting(q, n)
        /\ \A c \in Calls : Busy(c, n)' <=> Busy(c, n)
    BY <1>0, <2>1, <2>2, CommandFacts DEF Setting, Busy, TypeOK
  <2>4. ASSUME NEW c \in Calls, name[c] = n, ranIn'[c] # None
        PROVE  Target(ranIn'[c]) = Target(got[c])
    <3>1. CASE c = p
      <4>1. Busy(p, n)
        BY <2>1, <2>4, <3>1 DEF Busy
      <4>. QED
        BY <1>0, <1>1, <2>1, <2>2, <2>4, <3>1, <4>1 DEF Agree, TypeOK
    <3>2. CASE c # p
      BY <1>0, <1>1, <2>2, <2>4, <3>2 DEF Agree, TypeOK
    <3>. QED
      BY <3>1, <3>2
  <2>. QED
    BY <1>1, <2>2, <2>3, <2>4 DEF Agree
<1>8. CASE Run(p)
  <2>1. p \in Calls /\ p \notin Savers /\ pc[p] = "run" /\ name[p] \in Names /\ got[p] \in Savers
    BY <1>0, <1>a, <1>8, KindFacts, NameFacts DEF Run, Knows
  <2>2. /\ UNCHANGED <<name, got, file, body, ranIn>> /\ pc' = [pc EXCEPT ![p] = "done"]
        /\ cwd' = cwd \/ cwd' = [cwd EXCEPT ![name[p]] = got[p]]
    BY <1>8 DEF Run, Goto, files
  <2>3. /\ \A q \in Savers : Setting(q, n)' <=> Setting(q, n)
        /\ \A c \in Calls : Busy(c, n)' => Busy(c, n)
    BY <1>0, <2>1, <2>2, CommandFacts DEF Setting, Busy, TypeOK
  <2>4. CASE cwd'[n] = cwd[n]
    BY <1>1, <2>2, <2>3, <2>4 DEF Agree
  <2>5. CASE cwd'[n] # cwd[n]
    <3>1. name[p] = n /\ cwd'[n] = got[p] /\ Busy(p, n)
      BY <1>0, <2>1, <2>2, <2>5 DEF TypeOK, Busy
    <3>2. /\ file[n] # None => Target(got[p]) = Target(body[file[n]])
          /\ \A c \in Calls : Busy(c, n) => Target(got[p]) = Target(got[c])
      BY <1>1, <2>1, <3>1 DEF Agree
    <3>. QED
      BY <1>1, <2>2, <2>3, <3>1, <3>2 DEF Agree
  <2>. QED
    BY <2>4, <2>5
<1>9. CASE RemoveCwd(p) \/ Remove(p)
  <2>1. pc[p] \in {"rmcwd", "remove"} /\ pc'[p] \in {"remove", "done"} /\ name[p] \in Names
        /\ p \notin Calls
    BY <1>0, <1>9, <1>a, KindFacts, NameFacts, Moves DEF RemoveCwd, Remove
  <2>2. /\ \A c \in Calls : (Busy(c, n)' <=> Busy(c, n)) /\ got'[c] = got[c] /\ name'[c] = name[c]
        /\ \A q \in Savers : Setting(q, n)' <=> Setting(q, n)
    BY <1>b, <1>c, <2>1
  <2>3. /\ file'[n] = file[n] \/ file'[n] = None
        /\ cwd'[n] = cwd[n] \/ cwd'[n] = None
        /\ body' = body /\ ranIn' = ranIn
    BY <1>0, <1>9, <2>1 DEF RemoveCwd, Remove, files, TypeOK
  <2>. QED
    BY <1>1, <2>2, <2>3 DEF Agree
<1>10. CASE Die(p)
  <2>1. UNCHANGED <<name, got, file, cwd, ranIn>> /\ pc'[p] = "done" /\ p \notin Calls
    BY <1>0, <1>10, <1>a, KindFacts DEF Die, Goto, files, TypeOK
  <2>2. CASE pc[p] = "setcwd"
    <3>1. name[p] # n
      BY <1>10, <2>2 DEF Die
    <3>. QED
      BY <1>q, <1>d, <2>1, <3>1
  <2>3. CASE pc[p] # "setcwd"
    BY <1>q, <1>b, <1>c, <2>1, <2>3
  <2>. QED
    BY <2>2, <2>3
<1>. QED
  BY <1>3, <1>4, <1>5, <1>6, <1>7, <1>8, <1>9, <1>10 DEF Step, BringUp

-----------------------------------------------------------------------------
\* The inductive step.
LEMMA StepSafe == IInv /\ [Next]_vars => IInv'
<1>. SUFFICES ASSUME IInv, [Next]_vars PROVE IInv'
  OBVIOUS
<1>1. CASE UNCHANGED vars
  BY <1>1 DEF vars, files, history, IInv, TypeOK, Kinds, Knows, Inodes, OwnInodes, OwnFd,
     OwnBody, Early, Writers, Written, Holds, Agreement, Agree, Busy, Setting, Listed, Load,
     Found
<1>2. CASE Next
  <2>1. PICK p \in Commands : Step(p)
    BY <1>2 DEF Next, Step
  <2>. QED
    BY <2>1, TypeKept, KindsKept, KnowsKept, InodesKept, WritersKept, AgreementKept,
       ListedKept, FoundKept DEF IInv
<1>. QED
  BY <1>1, <1>2

\* Whatever commands run, in whatever order and wherever they are killed, files
\* belong to one name each, a temporary to one command or its name is torn, and
\* the users of a name agree on its target or the name is muddled.
THEOREM Invariant == Spec => []IInv
BY InitHolds, StepSafe, PTL DEF Spec

\* The variables keep their types in every behaviour.
THEOREM TypeCorrect == Spec => []TypeOK
<1>1. IInv => TypeOK
  BY DEF IInv
<1>. QED
  BY <1>1, Invariant, PTL

\* A saved session can be loaded at every moment, whichever commands save,
\* remove or are killed, unless two saved that name at once.
THEOREM Readable == Spec => []ReadableUnlessTorn
<1>1. IInv => ReadableUnlessTorn
  <2>. SUFFICES ASSUME IInv, NEW n \in Names, Load(n) \in Unreadable, n \notin torn
                PROVE  FALSE
    BY DEF ReadableUnlessTorn
  <2>1. file[n] # None /\ Load(n) = body[file[n]]
    BY LoadFacts, CommandFacts DEF IInv
  <2>2. Load(n) \in Savers
    BY <2>1 DEF IInv, Writers
  <2>. QED
    BY <2>2, CommandFacts
<1>. QED
  BY <1>1, Invariant, PTL

\* A tool call runs in a directory of the target it runs on, unless its name was
\* repointed in use or saved by two at once.
THEOREM RunsWhereItsSessionIs == Spec => []CallRunsWhereItsSessionIs
<1>1. IInv => CallRunsWhereItsSessionIs
  <2>. SUFFICES ASSUME IInv, NEW c \in Calls, ranIn[c] # None, name[c] \notin muddled \cup torn
                PROVE  Target(ranIn[c]) = Target(got[c])
    BY DEF CallRunsWhereItsSessionIs
  <2>1. name[c] \in Names
    BY CommandFacts DEF IInv, Knows
  <2>. QED
    BY <2>1 DEF IInv, Agreement, Agree
<1>. QED
  BY <1>1, Invariant, PTL

\* A search that saves replaces no session of another target that it had found
\* under the name: what it found there is its own target's.
THEOREM NamesOfOthers == Spec => OthersNamesAreKept
<1>1. IInv => \A p \in Firsts : got[p] \in Savers /\ SpecOf[p] \notin Bare => Target(got[p]) = Target(p)
  BY DEF IInv, Found
<1>2. IInv => [\A p \in Firsts : pc[p] = "rename" /\ pc'[p] = "setcwd" =>
                  LET own == Load(name[p]) IN
                  own \in Savers /\ own = got[p] /\ SpecOf[p] \notin Bare
                      => Target(own) = Target(p)]_vars
  BY <1>1
<1>. QED
  BY <1>2, Invariant, PTL DEF OthersNamesAreKept

\* A down that ends a connection leaves no other session on that host, except
\* one that was saved or removed while it looked.
THEOREM HostsOfOthers == Spec => DownSparesOthers
<1>1. ASSUME IInv, Next, NEW p \in Downs, pc[p] = "close", pc'[p] = "rmcwd", conn' # conn,
             p \notin moved, NEW n \in Names \ (torn \cup {name[p]}), Load(n) \in Savers
      PROVE  Host[SpecOf[Load(n)]] # Host[SpecOf[got[p]]]
  <2>1. PICK s \in Commands : Step(s)
    BY <1>1 DEF Next, Step
  <2>2. s = p
    BY <1>1, <2>1, Moves, CommandFacts
  <2>3. Close(p)
    BY <1>1, <2>1, <2>2, Doings DEF LoadForDown, List, Close, RemoveCwd, Remove, Die
  <2>4. p \notin sharing
    BY <1>1, <2>3 DEF Close
  <2>5. PICK i \in DOMAIN Directory : n = Directory[i]
    BY <1>1 DEF Names
  <2>. QED
    BY <1>1, <2>4, <2>5 DEF IInv, Listed
<1>2. IInv /\ [Next]_vars =>
        [\A p \in Downs :
            pc[p] = "close" /\ pc'[p] = "rmcwd" /\ conn' # conn /\ p \notin moved
                => \A n \in Names \ (torn \cup {name[p]}) :
                        Load(n) \in Savers => Host[SpecOf[Load(n)]] # Host[SpecOf[got[p]]]]_vars
  BY <1>1
<1>. QED
  BY <1>2, Invariant, PTL DEF Spec, DownSparesOthers

\* Neither the names nor the connections of others are taken.
THEOREM Spared == Spec => OthersAreSpared
BY NamesOfOthers, HostsOfOthers, PTL DEF OthersAreSpared

-----------------------------------------------------------------------------
(***************************************************************************)
(* The mirror of a session's files, for any number of tool calls and       *)
(* contents.                                                               *)
(***************************************************************************)
\* What holds though calls overlap: what a hook has fetched or pushed is accounted
\* for, what a call may have found on the target is known, also what the answer
\* it waits for may be about, and a call has a result only when it is over.
Known(c) ==
    /\ at[c] \in {"storing", "recording"} => data[c] \in held \cup blends \cup {Absent}
    /\ at[c] = "noting" => data[c] \in held \cup partly
    /\ c \in Active => target \in fresh[c]
    /\ IF c \in Asking THEN target \in during[c] ELSE during[c] = {}
    /\ during[c] \subseteq fresh[c] \cap held
    /\ result[c] # "none" => at[c] = "done"

\* What c may have been shown: what the target held since c began, or a blend if
\* that was more than one thing.
Shown(c, content) ==
    \/ content \in fresh[c]
    \/ content \in blends /\ Several(fresh[c] \ {Absent})

\* What the hooks of a call that met no other rely on between their steps.
InPre(c) ==
    /\ at[c] = "hashing" => record = expected[c] /\ local = expected[c]
    /\ at[c] = "recording" => local = data[c]
    /\ at[c] \in {"storing", "recording"} /\ c \notin misled => Shown(c, data[c])
    /\ at[c] = "tool" => record = local /\ (c \notin misled => Shown(c, local))

InPost(c) ==
    /\ at[c] = "loading" => local = c
    /\ at[c] \in {"loading", "consulting"} => record = seen[c]
    /\ at[c] \in {"verifying", "writing"} => expected[c] = seen[c]
    /\ at[c] \in {"consulting", "verifying", "writing", "noting"} => data[c] = c
    /\ at[c] \in {"loading", "consulting", "verifying", "writing", "noting"} =>
          seen[c] \in from[c] /\ (c \notin misled => Shown(c, seen[c]))
    /\ at[c] = "noting" => c \in held \cup partly

AtEnd(c) ==
    /\ result[c] = "saved" => c \in held \cup partly
    /\ result[c] \in {"used", "saved"} /\ c \notin misled => Shown(c, seen[c])
    /\ result[c] = "refused" /\ c \notin misled => Several(fresh[c])

MirrorInv ==
    /\ MirrorTypeOK
    /\ target \in held /\ RecordIsReal
    /\ \A c \in ToolCalls : Known(c)
    /\ alone => /\ \A c, d \in Active : c = d
                /\ \A c \in ToolCalls : InPre(c) /\ InPost(c) /\ AtEnd(c)
-----------------------------------------------------------------------------

\* One step of a call.
CallStep(c) == Pre(c) \/ UseTool(c) \/ Post(c) \/ Killed(c)

\* What the constants give.
LEMMA ContentFacts ==
  ASSUME MirrorAssumption
  PROVE  /\ ToolCalls \subseteq Contents /\ Contents \subseteq Files /\ Absent \in Files
         /\ Unknown \notin Files /\ Absent \notin Contents /\ Parts \subseteq Files
         /\ Original \cup {Absent} \subseteq Files /\ Foreign \subseteq Files
BY DEF MirrorAssumption, Contents, Files

LEMMA MirrorInitially ==
  ASSUME MirrorAssumption, MirrorInit
  PROVE  MirrorInv
<1>1. MirrorTypeOK
  BY ContentFacts DEF MirrorInit, MirrorTypeOK, MirrorAssumption
<1>2. /\ target \in held /\ RecordIsReal /\ Active = {} /\ Asking = {}
      /\ \A c \in ToolCalls : at[c] = "new" /\ result[c] = "none" /\ during[c] = {}
  BY DEF MirrorInit, RecordIsReal, Active, Asking
<1>3. \A c \in ToolCalls : Known(c)
  BY <1>2 DEF Known
<1>4. \A c \in ToolCalls : InPre(c) /\ InPost(c) /\ AtEnd(c)
  BY <1>2 DEF InPre, InPost, AtEnd
<1>. QED
  BY <1>1, <1>2, <1>3, <1>4 DEF MirrorInv

\* What a read brings is a content, and a blend only of several.
LEMMA ReadingFacts ==
  ASSUME MirrorAssumption, MirrorTypeOK, NEW c \in ToolCalls, NEW content \in Readings(c)
  PROVE  /\ content \in Files
         /\ content \in during[c] \/ (content \in Parts /\ Several(during[c] \ {Absent}))
BY ContentFacts DEF MirrorTypeOK, Readings

\* What a change of the target does.
LEMMA PutTypes ==
  ASSUME MirrorTypeOK, NEW content \in Files, Put(content)
  PROVE  /\ target' \in Files /\ held' \in SUBSET Files
         /\ fresh' \in [ToolCalls -> SUBSET Files] /\ during' \in [ToolCalls -> SUBSET Files]
<1>1. target' \in Files /\ held' \in SUBSET Files
  BY DEF Put, MirrorTypeOK
<1>2. fresh' \in [ToolCalls -> SUBSET Files]
  BY DEF Put, MirrorTypeOK
<1>3. during' \in [ToolCalls -> SUBSET Files]
  BY DEF Put, MirrorTypeOK
<1>. QED
  BY <1>1, <1>2, <1>3

\* The memory of a hook keeps its types when it ends.
LEMMA ExitTypes ==
  ASSUME MirrorAssumption, MirrorTypeOK, NEW c \in ToolCalls
  PROVE  /\ Exit(c) => data' \in [ToolCalls -> Files]
                       /\ expected' \in [ToolCalls -> Files \cup {Unknown}]
         /\ Told(c) => during' \in [ToolCalls -> SUBSET Files]
BY ContentFacts DEF MirrorTypeOK, Exit, Told

\* The variables keep their types.
LEMMA MirrorTypeKept ==
  ASSUME MirrorAssumption, MirrorTypeOK, [MirrorNext]_mirrorVars
  PROVE  MirrorTypeOK'
<1>. USE ContentFacts DEF MirrorTypeOK
<1>1. ASSUME NEW c \in ToolCalls, Begin(c) PROVE MirrorTypeOK'
  BY <1>1 DEF Begin, Go
<1>2. ASSUME NEW c \in ToolCalls, LookLocal(c) \/ BeginRead(c) \/ Consult(c) PROVE MirrorTypeOK'
  <2>1. during' \in [ToolCalls -> SUBSET Files]
    BY <1>2 DEF LookLocal, BeginRead, Consult, Ask
  <2>. QED
    BY <1>2, <2>1 DEF LookLocal, BeginRead, Consult, Ask, Go, past
<1>3. ASSUME NEW c \in ToolCalls, LookTarget(c) PROVE MirrorTypeOK'
  <2>1. /\ data' \in [ToolCalls -> Files] /\ expected' \in [ToolCalls -> Files \cup {Unknown}]
        /\ during' \in [ToolCalls -> SUBSET Files]
    BY <1>3, ExitTypes DEF LookTarget
  <2>. QED
    BY <1>3, <2>1 DEF LookTarget, Go, past
<1>4. ASSUME NEW c \in ToolCalls, Read(c) PROVE MirrorTypeOK'
  <2>1. PICK content \in Readings(c) : /\ data' = [data EXCEPT ![c] = content]
                                       /\ blends' = blends \cup ({content} \ during[c])
    BY <1>4 DEF Read
  <2>2. content \in Files /\ (content \in during[c] \/ content \in Parts)
    BY <2>1, ReadingFacts
  <2>3. data' \in [ToolCalls -> Files] /\ blends' \in SUBSET Parts
    BY <2>1, <2>2
  <2>4. during' \in [ToolCalls -> SUBSET Files]
    BY <1>4, ExitTypes DEF Read
  <2>. QED
    BY <1>4, <2>3, <2>4 DEF Read, Go
<1>5. ASSUME NEW c \in ToolCalls, ReadFails(c) PROVE MirrorTypeOK'
  <2>1. during' \in [ToolCalls -> SUBSET Files]
    BY <1>5, ExitTypes DEF ReadFails
  <2>2. data' \in [ToolCalls -> Files] /\ expected' \in [ToolCalls -> Files \cup {Unknown}]
    BY <1>5, ExitTypes DEF ReadFails, End
  <2>. QED
    BY <1>5, <2>1, <2>2 DEF ReadFails, Go, End
<1>6. ASSUME NEW c \in ToolCalls, Store(c) \/ RecordFetched(c) PROVE MirrorTypeOK'
  <2>1. data' \in [ToolCalls -> Files] /\ expected' \in [ToolCalls -> Files \cup {Unknown}]
    BY <1>6, ExitTypes DEF Store, RecordFetched
  <2>. QED
    BY <1>6, <2>1 DEF Store, RecordFetched, Go, past
<1>7. ASSUME NEW c \in ToolCalls, UseTool(c) PROVE MirrorTypeOK'
  <2>1. Line(local) \in SUBSET Files
    BY DEF Line
  <2>2. data' \in [ToolCalls -> Files] /\ expected' \in [ToolCalls -> Files \cup {Unknown}]
    BY <1>7, ExitTypes DEF UseTool, End
  <2>3. seen' \in [ToolCalls -> Files] /\ from' \in [ToolCalls -> SUBSET Files]
    BY <1>7, <2>1 DEF UseTool
  <2>4. local' \in Files /\ at' \in [ToolCalls -> {"new", "looking", "hashing", "reading", "fetching",
           "storing", "recording", "tool", "loading", "consulting", "verifying", "writing",
           "noting", "done"}]
    BY <1>7 DEF UseTool, Go, End
  <2>5. result' \in [ToolCalls -> {"none", "denied", "used", "error", "refused", "saved", "killed"}]
    BY <1>7 DEF UseTool, End
  <2>. QED
    BY <1>7, <2>2, <2>3, <2>4, <2>5 DEF UseTool
<1>8. ASSUME NEW c \in ToolCalls, LoadCopy(c) \/ RecordPushed(c) PROVE MirrorTypeOK'
  <2>1. data' \in [ToolCalls -> Files] /\ expected' \in [ToolCalls -> Files \cup {Unknown}]
    BY <1>8, ExitTypes DEF LoadCopy, RecordPushed, End
  <2>. QED
    BY <1>8, <2>1 DEF LoadCopy, RecordPushed, Go, End, past
<1>9. ASSUME NEW c \in ToolCalls, Verify(c) \/ VerifyFails(c) \/ Killed(c) PROVE MirrorTypeOK'
  <2>1. during' \in [ToolCalls -> SUBSET Files]
    BY <1>9, ExitTypes DEF Verify, VerifyFails, Killed
  <2>2. data' \in [ToolCalls -> Files] /\ expected' \in [ToolCalls -> Files \cup {Unknown}]
    BY <1>9, ExitTypes DEF Verify, VerifyFails, Killed, End
  <2>. QED
    BY <1>9, <2>1, <2>2 DEF Verify, VerifyFails, Killed, Go, End, past
<1>10. ASSUME NEW c \in ToolCalls, Write(c) \/ WriteFails(c) PROVE MirrorTypeOK'
  <2>1. data[c] \in Files
    OBVIOUS
  <2>2. CASE \E content \in Parts \cup {data[c]} : Put(content)
    <3>1. /\ target' \in Files /\ held' \in SUBSET Files
          /\ fresh' \in [ToolCalls -> SUBSET Files] /\ during' \in [ToolCalls -> SUBSET Files]
      BY <2>1, <2>2, PutTypes
    <3>2. data' \in [ToolCalls -> Files] /\ expected' \in [ToolCalls -> Files \cup {Unknown}]
      BY <1>10, ExitTypes DEF Write, WriteFails, End
    <3>. QED
      BY <1>10, <2>1, <3>1, <3>2 DEF Write, WriteFails, Go, End
  <2>3. CASE WriteFails(c) /\ UNCHANGED <<target, held, fresh, during>>
    <3>1. data' \in [ToolCalls -> Files] /\ expected' \in [ToolCalls -> Files \cup {Unknown}]
      BY <2>3, ExitTypes DEF WriteFails, End
    <3>. QED
      BY <2>3, <3>1 DEF WriteFails, Go, End
  <2>. QED
    BY <1>10, <2>2, <2>3 DEF Write, WriteFails
<1>11. CASE Meddle
  <2>1. /\ target' \in Files /\ held' \in SUBSET Files
        /\ fresh' \in [ToolCalls -> SUBSET Files] /\ during' \in [ToolCalls -> SUBSET Files]
    BY <1>11, PutTypes DEF Meddle
  <2>2. meddling' \in 0..MaxMeddling
    BY <1>11 DEF Meddle, MirrorAssumption
  <2>. QED
    BY <1>11, <2>1, <2>2 DEF Meddle
<1>12. CASE UNCHANGED mirrorVars
  BY <1>12 DEF mirrorVars
<1>. QED
  BY <1>1, <1>2, <1>3, <1>4, <1>5, <1>6, <1>7, <1>8, <1>9, <1>10, <1>11, <1>12
  DEF MirrorNext, Pre, Post, Rest

\* A step of one call leaves the others where they are, and nothing that was on
\* the target, or accounted for, is forgotten.
LEMMA Aside ==
  ASSUME MirrorAssumption, MirrorTypeOK, NEW c \in ToolCalls, CallStep(c)
  PROVE  /\ held \subseteq held' /\ blends \subseteq blends' /\ partly \subseteq partly'
         /\ (alone' => alone) /\ misled \subseteq misled' /\ misled' \subseteq misled \cup {c}
         /\ \A d \in ToolCalls \ {c} :
               /\ at'[d] = at[d] /\ data'[d] = data[d] /\ expected'[d] = expected[d]
               /\ result'[d] = result[d] /\ from'[d] = from[d] /\ seen'[d] = seen[d]
               /\ fresh[d] \subseteq fresh'[d]
<1>. USE DEF MirrorTypeOK
<1>1. CASE Pre(c)
  <2>1. CASE Begin(c) \/ LookLocal(c) \/ LookTarget(c) \/ BeginRead(c)
    BY <2>1 DEF Begin, LookLocal, LookTarget, BeginRead, Go, Ask, Exit, past
  <2>2. CASE Read(c) \/ ReadFails(c)
    BY <2>2 DEF Read, ReadFails, Go, End, Exit
  <2>3. CASE Store(c) \/ RecordFetched(c)
    BY <2>3 DEF Store, RecordFetched, Go, Exit, past
  <2>. QED
    BY <1>1, <2>1, <2>2, <2>3 DEF Pre
<1>2. CASE UseTool(c)
  BY <1>2 DEF UseTool, Go, End, Exit
<1>3. CASE Post(c)
  <2>1. CASE Write(c) \/ WriteFails(c)
    <3>1. held \subseteq held' /\ \A d \in ToolCalls : fresh[d] \subseteq fresh'[d]
      BY <2>1 DEF Write, WriteFails, Put
    <3>. QED
      BY <2>1, <3>1 DEF Write, WriteFails, Go, End, Exit
  <2>2. CASE LoadCopy(c) \/ Consult(c) \/ Verify(c) \/ VerifyFails(c) \/ RecordPushed(c)
    BY <2>2 DEF LoadCopy, Consult, Verify, VerifyFails, RecordPushed, Go, Ask, End, Exit, past
  <2>. QED
    BY <1>3, <2>1, <2>2 DEF Post
<1>4. CASE Killed(c)
  BY <1>4 DEF Killed, Go, End, Exit, past
<1>. QED
  BY <1>1, <1>2, <1>3, <1>4 DEF CallStep

\* What a change of the target adds to what the calls may have found there.
LEMMA PutFacts ==
  ASSUME MirrorTypeOK, NEW content, Put(content)
  PROVE  /\ target' = content /\ held' = held \cup {content}
         /\ \A d \in ToolCalls :
                /\ fresh'[d] = IF d \in Active THEN fresh[d] \cup {content} ELSE fresh[d]
                /\ during'[d] = IF d \in Asking THEN during[d] \cup {content} ELSE during[d]
BY DEF MirrorTypeOK, Put

\* What the calls may have found on the target stays known when it changes ...
LEMMA PutKnown ==
  ASSUME MirrorTypeOK, \A d \in ToolCalls : Known(d), NEW content, Put(content)
  PROVE  \A d \in ToolCalls :
            /\ d \in Active => target' \in fresh'[d]
            /\ IF d \in Asking THEN target' \in during'[d] ELSE during'[d] = {}
            /\ during'[d] \subseteq fresh'[d] \cap held'
<1>. SUFFICES ASSUME NEW d \in ToolCalls
              PROVE  /\ d \in Active => target' \in fresh'[d]
                     /\ IF d \in Asking THEN target' \in during'[d] ELSE during'[d] = {}
                     /\ during'[d] \subseteq fresh'[d] \cap held'
  OBVIOUS
<1>1. /\ target' = content /\ held' = held \cup {content}
      /\ fresh'[d] = IF d \in Active THEN fresh[d] \cup {content} ELSE fresh[d]
      /\ during'[d] = IF d \in Asking THEN during[d] \cup {content} ELSE during[d]
  BY PutFacts
<1>2. Asking \subseteq Active
  BY DEF Asking, Active
<1>3. during[d] \subseteq fresh[d] \cap held /\ (d \notin Asking => during[d] = {})
  BY DEF Known
<1>. QED
  BY <1>1, <1>2, <1>3

\* ... and when a call takes a step.
LEMMA FreshKept ==
  ASSUME MirrorAssumption, MirrorInv, NEW c \in ToolCalls, CallStep(c)
  PROVE  /\ target' \in held'
         /\ \A d \in ToolCalls :
              /\ d \in Active' => target' \in fresh'[d]
              /\ IF d \in Asking' THEN target' \in during'[d] ELSE during'[d] = {}
              /\ during'[d] \subseteq fresh'[d] \cap held'
<1>0. /\ MirrorTypeOK /\ target \in held
      /\ \A d \in ToolCalls : Known(d)
  BY DEF MirrorInv
<1>1. \A d \in ToolCalls \ {c} : (d \in Active' <=> d \in Active) /\ (d \in Asking' <=> d \in Asking)
  BY <1>0, Aside DEF Active, Asking
<1>2. CASE Begin(c)
  <2>1. /\ UNCHANGED <<target, held, during>> /\ at' = [at EXCEPT ![c] = "looking"]
        /\ fresh' = [fresh EXCEPT ![c] = {target}] /\ at[c] = "new"
    BY <1>2 DEF Begin, Go
  <2>2. fresh'[c] = {target} /\ \A d \in ToolCalls \ {c} : fresh'[d] = fresh[d]
    BY <1>0, <2>1 DEF MirrorTypeOK
  <2>3. at'[c] = "looking"
    BY <1>0, <2>1 DEF MirrorTypeOK
  <2>4. c \notin Active /\ c \notin Asking /\ c \notin Asking'
    BY <2>1, <2>3 DEF Active, Asking
  <2>5. during'[c] = {}
    BY <1>0, <2>1, <2>4 DEF Known
  <2>6. ASSUME NEW d \in ToolCalls
        PROVE  /\ d \in Active' => target' \in fresh'[d]
               /\ IF d \in Asking' THEN target' \in during'[d] ELSE during'[d] = {}
               /\ during'[d] \subseteq fresh'[d] \cap held'
    <3>1. CASE d = c
      BY <1>0, <2>1, <2>2, <2>4, <2>5, <3>1
    <3>2. CASE d # c
      BY <1>0, <1>1, <2>1, <2>2, <3>2 DEF Known
    <3>. QED
      BY <3>1, <3>2
  <2>. QED
    BY <1>0, <2>1, <2>6
<1>3. CASE UNCHANGED <<target, held, fresh>> /\ c \in Active
            /\ \/ Told(c) /\ c \notin Asking'
               \/ during' = [during EXCEPT ![c] = {target}] /\ c \in Asking'
               \/ UNCHANGED during /\ c \notin Asking /\ c \notin Asking'
  <2>1. \A d \in ToolCalls \ {c} : during'[d] = during[d]
    BY <1>0, <1>3 DEF Told, MirrorTypeOK
  <2>2. during'[c] = IF c \in Asking' THEN {target} ELSE {}
    BY <1>0, <1>3 DEF Told, MirrorTypeOK, Known
  <2>3. target \in fresh[c]
    BY <1>0, <1>3 DEF Known
  <2>4. during[c] \subseteq fresh[c] \cap held
    BY <1>0 DEF Known
  <2>5. ASSUME NEW d \in ToolCalls
        PROVE  /\ d \in Active' => target' \in fresh'[d]
               /\ IF d \in Asking' THEN target' \in during'[d] ELSE during'[d] = {}
               /\ during'[d] \subseteq fresh'[d] \cap held'
    <3>1. CASE d = c
      BY <1>0, <1>3, <2>2, <2>3, <2>4, <3>1
    <3>2. CASE d # c
      <4>1. during'[d] = during[d] /\ UNCHANGED <<target, held, fresh>>
        BY <1>3, <2>1, <3>2
      <4>2. (d \in Active' <=> d \in Active) /\ (d \in Asking' <=> d \in Asking)
        BY <1>1, <3>2
      <4>3. /\ d \in Active => target \in fresh[d]
            /\ IF d \in Asking THEN target \in during[d] ELSE during[d] = {}
            /\ during[d] \subseteq fresh[d] \cap held
        BY <1>0 DEF Known
      <4>. QED
        BY <4>1, <4>2, <4>3
    <3>. QED
      BY <3>1, <3>2
  <2>. QED
    BY <1>0, <1>3, <2>5
<1>4. CASE at[c] = "writing" /\ c \notin Asking' /\ \E content : Put(content)
  <2>1. PICK content : Put(content)
    BY <1>4
  <2>2. c \in Active /\ c \notin Asking
    BY <1>4 DEF Active, Asking
  <2>3. \A d \in ToolCalls : (d \in Active' => d \in Active) /\ (d \in Asking' <=> d \in Asking)
    BY <1>1, <1>4, <2>2
  <2>4. \A d \in ToolCalls :
           /\ d \in Active => target' \in fresh'[d]
           /\ IF d \in Asking THEN target' \in during'[d] ELSE during'[d] = {}
           /\ during'[d] \subseteq fresh'[d] \cap held'
    BY <1>0, <2>1, PutKnown
  <2>5. target' \in held'
    BY <2>1 DEF Put
  <2>. QED
    BY <2>3, <2>4, <2>5
<1>5. CASE LookLocal(c) \/ BeginRead(c) \/ Consult(c)
  <2>1. /\ at[c] \in {"looking", "reading", "consulting"}
        /\ \/ at'[c] \in {"reading", "writing"} /\ UNCHANGED during
           \/ /\ at'[c] \in {"hashing", "fetching", "verifying"}
              /\ during' = [during EXCEPT ![c] = {target}]
    BY <1>0, <1>5 DEF LookLocal, BeginRead, Consult, Ask, Go, MirrorTypeOK
  <2>2. /\ c \notin Asking /\ c \in Active
        /\ \/ c \notin Asking' /\ UNCHANGED during
           \/ c \in Asking' /\ during' = [during EXCEPT ![c] = {target}]
    BY <2>1 DEF Asking, Active
  <2>. QED
    BY <1>3, <1>5, <2>2 DEF LookLocal, BeginRead, Consult, past
<1>6. CASE LookTarget(c) \/ Read(c) \/ ReadFails(c) \/ Verify(c) \/ VerifyFails(c) \/ Killed(c)
  <2>1. at'[c] \in {"reading", "tool", "storing", "writing", "done"}
    BY <1>0, <1>6 DEF LookTarget, Read, ReadFails, Verify, VerifyFails, Killed, Go, End, MirrorTypeOK
  <2>2. c \notin Asking'
    BY <2>1 DEF Asking
  <2>. QED
    BY <1>3, <1>6, <2>2 DEF LookTarget, Read, ReadFails, Verify, VerifyFails, Killed, past, Active
<1>7. CASE Store(c) \/ RecordFetched(c) \/ UseTool(c) \/ LoadCopy(c) \/ RecordPushed(c)
  <2>1. /\ at'[c] \in {"recording", "tool", "loading", "consulting", "done"}
        /\ at[c] \in {"storing", "recording", "tool", "loading", "noting"}
    BY <1>0, <1>7 DEF Store, RecordFetched, UseTool, LoadCopy, RecordPushed, Go, End, MirrorTypeOK
  <2>2. c \notin Asking /\ c \notin Asking' /\ c \in Active
    BY <2>1 DEF Asking, Active
  <2>. QED
    BY <1>3, <1>7, <2>2 DEF Store, RecordFetched, UseTool, LoadCopy, RecordPushed, past
<1>8. CASE Write(c) \/ WriteFails(c)
  <2>1. at'[c] \in {"noting", "done"} /\ at[c] = "writing"
    BY <1>0, <1>8 DEF Write, WriteFails, Go, End, MirrorTypeOK
  <2>2. c \notin Asking /\ c \notin Asking' /\ c \in Active
    BY <2>1 DEF Asking, Active
  <2>. QED
    BY <1>3, <1>4, <1>8, <2>1, <2>2 DEF Write, WriteFails
<1>. QED
  BY <1>2, <1>5, <1>6, <1>7, <1>8 DEF CallStep, Pre, Post

\* What is known of every call stays known, and the record is accounted for.
LEMMA KnownKept ==
  ASSUME MirrorAssumption, MirrorInv, [MirrorNext]_mirrorVars
  PROVE  /\ target' \in held' /\ RecordIsReal'
         /\ \A d \in ToolCalls : Known(d)'
<1>0. /\ MirrorTypeOK /\ target \in held /\ RecordIsReal
      /\ \A d \in ToolCalls : Known(d)
  BY DEF MirrorInv
<1>1. ASSUME NEW c \in ToolCalls, CallStep(c)
      PROVE  RecordIsReal'
  <2>1. CASE RecordFetched(c) \/ RecordPushed(c)
    BY <1>0, <2>1 DEF RecordIsReal, RecordFetched, RecordPushed, Known, past
  <2>2. CASE record' = record
    BY <1>0, <1>1, <2>2, Aside DEF RecordIsReal
  <2>. QED
    BY <1>1, <2>1, <2>2 DEF CallStep, Pre, UseTool, Post, Killed, Begin, LookLocal, LookTarget,
       BeginRead, Read, ReadFails, Store, LoadCopy, Consult, Verify, VerifyFails, Write,
       WriteFails, past
<1>2. ASSUME NEW c \in ToolCalls, CallStep(c)
      PROVE  /\ at'[c] \in {"storing", "recording"} => data'[c] \in held' \cup blends' \cup {Absent}
             /\ at'[c] = "noting" => data'[c] \in held' \cup partly'
             /\ result'[c] # "none" => at'[c] = "done"
  <2>1. CASE Begin(c) \/ LookLocal(c) \/ LookTarget(c) \/ BeginRead(c)
    BY <1>0, <2>1 DEF MirrorTypeOK, Known, Begin, LookLocal, LookTarget, BeginRead, Go, Ask
  <2>2. CASE UseTool(c) \/ LoadCopy(c) \/ Consult(c)
    BY <1>0, <2>2 DEF MirrorTypeOK, Known, UseTool, LoadCopy, Consult, Go, Ask, End
  <2>3. CASE Read(c)
    <3>1. PICK content \in Readings(c) : /\ data' = [data EXCEPT ![c] = content]
                                         /\ blends' = blends \cup ({content} \ during[c])
      BY <2>3 DEF Read
    <3>2. during[c] \subseteq held
      BY <1>0 DEF Known
    <3>3. data'[c] \in held \cup blends'
      BY <1>0, <3>1, <3>2 DEF MirrorTypeOK
    <3>4. at'[c] = "storing" /\ result'[c] = result[c] /\ held' = held /\ at[c] = "fetching"
      BY <1>0, <2>3 DEF Read, Go, MirrorTypeOK
    <3>5. result[c] = "none"
      BY <1>0, <3>4 DEF Known
    <3>. QED
      BY <3>3, <3>4, <3>5
  <2>4. CASE ReadFails(c) \/ Store(c) \/ RecordFetched(c)
    BY <1>0, <2>4 DEF MirrorTypeOK, Known, ReadFails, Store, RecordFetched, Go, End, past
  <2>5. CASE Verify(c) \/ VerifyFails(c) \/ WriteFails(c) \/ RecordPushed(c) \/ Killed(c)
    BY <1>0, <2>5 DEF MirrorTypeOK, Known, Verify, VerifyFails, WriteFails, RecordPushed,
       Killed, Go, End
  <2>6. CASE Write(c)
    BY <1>0, <2>6 DEF MirrorTypeOK, Known, Write, Put, Go
  <2>. QED
    BY <1>2, <2>1, <2>2, <2>3, <2>4, <2>5, <2>6 DEF CallStep, Pre, Post
<1>3. ASSUME NEW c \in ToolCalls, CallStep(c), NEW d \in ToolCalls
      PROVE  Known(d)'
  <2>1. /\ d \in Active' => target' \in fresh'[d]
        /\ IF d \in Asking' THEN target' \in during'[d] ELSE during'[d] = {}
        /\ during'[d] \subseteq fresh'[d] \cap held'
    BY <1>3, FreshKept
  <2>2. CASE d = c
    BY <1>2, <1>3, <2>1, <2>2 DEF Known
  <2>3. CASE d # c
    <3>1. /\ held \subseteq held' /\ blends \subseteq blends' /\ partly \subseteq partly'
          /\ at'[d] = at[d] /\ data'[d] = data[d] /\ result'[d] = result[d]
      BY <1>0, <1>3, <2>3, Aside
    <3>2. Known(d)
      BY <1>0
    <3>. QED
      BY <2>1, <3>1, <3>2 DEF Known
  <2>. QED
    BY <2>2, <2>3
<1>4. CASE Meddle
  <2>1. PICK content : Put(content)
    BY <1>4 DEF Meddle
  <2>2. UNCHANGED <<record, at, data, result, blends, partly>>
    BY <1>4 DEF Meddle
  <2>3. target' \in held' /\ held \subseteq held'
    BY <1>0, <2>1, PutFacts
  <2>4. ASSUME NEW d \in ToolCalls PROVE Known(d)'
    <3>1. /\ d \in Active => target' \in fresh'[d]
          /\ IF d \in Asking THEN target' \in during'[d] ELSE during'[d] = {}
          /\ during'[d] \subseteq fresh'[d] \cap held'
      BY <1>0, <2>1, PutKnown
    <3>2. (d \in Active' <=> d \in Active) /\ (d \in Asking' <=> d \in Asking)
      BY <2>2 DEF Active, Asking
    <3>3. Known(d)
      BY <1>0
    <3>. QED
      BY <2>2, <2>3, <3>1, <3>2, <3>3 DEF Known
  <2>. QED
    BY <1>0, <2>2, <2>3, <2>4 DEF RecordIsReal
<1>5. CASE UNCHANGED mirrorVars
  BY <1>0, <1>5 DEF mirrorVars, Known, Active, Asking, RecordIsReal
<1>. QED
  BY <1>1, <1>3, <1>4, <1>5, FreshKept DEF MirrorNext, CallStep, Rest

\* What was shown to a call stays explained when the target changes.
LEMMA ShownKept ==
  ASSUME NEW c, NEW content, fresh[c] \subseteq fresh'[c], blends \subseteq blends',
         Shown(c, content)
  PROVE  /\ content \in fresh'[c] \/ (content \in blends' /\ Several(fresh'[c] \ {Absent}))
         /\ Several(fresh[c]) => Several(fresh'[c])
BY DEF Shown, Several

\* What the one active call relies on, its own step keeps.
LEMMA OwnStep ==
  ASSUME MirrorAssumption, MirrorInv, alone, NEW c \in ToolCalls, CallStep(c)
  PROVE  InPre(c)' /\ InPost(c)' /\ AtEnd(c)'
<1>0. MirrorTypeOK /\ Known(c) /\ InPre(c) /\ InPost(c) /\ AtEnd(c)
  BY DEF MirrorInv
<1>. USE DEF MirrorTypeOK
<1>1. CASE Begin(c)
  BY <1>0, <1>1 DEF Begin, Go, Known, InPre, InPost, AtEnd
<1>2. CASE LookLocal(c)
  BY <1>0, <1>2 DEF LookLocal, Go, Ask, past, Known, InPre, InPost, AtEnd
<1>3. CASE LookTarget(c)
  <2>1. PICK where \in {"tool", "reading"} :
            /\ at' = [at EXCEPT ![c] = where]
            /\ where = "tool" => expected[c] \in during[c]
    BY <1>3 DEF LookTarget, Go
  <2>2. at'[c] = where /\ at[c] = "hashing" /\ result[c] = "none" /\ UNCHANGED <<local, record, result, misled, fresh, blends>>
    BY <1>0, <1>3, <2>1 DEF LookTarget, past, Known
  <2>3. where = "tool" => local \in fresh[c] /\ record = local
    BY <1>0, <2>1, <2>2 DEF Known, InPre
  <2>4. InPre(c)'
    BY <2>1, <2>2, <2>3 DEF InPre, Shown
  <2>5. InPost(c)' /\ AtEnd(c)'
    BY <2>1, <2>2 DEF InPost, AtEnd
  <2>. QED
    BY <2>4, <2>5
<1>4. CASE BeginRead(c)
  BY <1>0, <1>4 DEF BeginRead, Go, Ask, past, Known, InPre, InPost, AtEnd
<1>5. CASE Read(c)
  <2>1. PICK content \in Readings(c) : /\ data' = [data EXCEPT ![c] = content]
                                       /\ blends' = blends \cup ({content} \ during[c])
    BY <1>5 DEF Read
  <2>2. content \in during[c] \/ Several(during[c] \ {Absent})
    BY <1>0, <2>1, ReadingFacts
  <2>3. during[c] \subseteq fresh[c]
    BY <1>0 DEF Known
  <2>4. content \in fresh[c] \/ (content \in blends' /\ Several(fresh[c] \ {Absent}))
    BY <2>1, <2>2, <2>3 DEF Several
  <2>5. /\ data'[c] = content /\ at'[c] = "storing" /\ at[c] = "fetching"
        /\ UNCHANGED <<result, fresh>>
    BY <1>0, <1>5, <2>1 DEF Read, Go
  <2>6. result'[c] = "none"
    BY <1>0, <2>5 DEF Known
  <2>7. InPre(c)'
    BY <2>4, <2>5 DEF InPre, Shown
  <2>8. InPost(c)' /\ AtEnd(c)'
    BY <2>5, <2>6 DEF InPost, AtEnd
  <2>. QED
    BY <2>7, <2>8
<1>6. CASE ReadFails(c)
  <2>1. at[c] = "fetching" /\ result[c] = "none" /\ during[c] \subseteq fresh[c]
    BY <1>0, <1>6 DEF ReadFails, Known
  <2>2. CASE End(c, "denied")
    <3>1. at'[c] = "done" /\ result'[c] = "denied"
      BY <1>0, <2>2 DEF End, Go
    <3>. QED
      BY <3>1 DEF InPre, InPost, AtEnd
  <2>3. CASE ~End(c, "denied")
    <3>1. /\ at'[c] = "storing" /\ data'[c] = Absent /\ UNCHANGED <<result, fresh, blends>>
          /\ c \in misled' \/ Absent \in during[c]
      BY <1>0, <1>6, <2>3 DEF ReadFails, Go
    <3>2. InPre(c)'
      BY <2>1, <3>1 DEF InPre, Shown
    <3>3. InPost(c)' /\ AtEnd(c)'
      BY <2>1, <3>1 DEF InPost, AtEnd
    <3>. QED
      BY <3>2, <3>3
  <2>. QED
    BY <2>2, <2>3
<1>7. CASE Store(c)
  <2>1. /\ at[c] = "storing" /\ at'[c] = "recording" /\ local' = data[c]
        /\ UNCHANGED <<data, result, fresh, blends, misled>> /\ result[c] = "none"
    BY <1>0, <1>7 DEF Store, Go, past, Known
  <2>2. InPre(c)'
    BY <1>0, <2>1 DEF InPre, Shown
  <2>. QED
    BY <2>1, <2>2 DEF InPost, AtEnd
<1>8. CASE RecordFetched(c)
  <2>1. /\ at[c] = "recording" /\ at'[c] = "tool" /\ record' = data[c]
        /\ UNCHANGED <<local, result, fresh, blends, misled>> /\ result[c] = "none"
    BY <1>0, <1>8 DEF RecordFetched, Go, past, Known
  <2>2. InPre(c)'
    BY <1>0, <2>1 DEF InPre, Shown
  <2>. QED
    BY <2>1, <2>2 DEF InPost, AtEnd
<1>9. CASE UseTool(c)
  <2>1. /\ at[c] = "tool" /\ seen'[c] = local /\ UNCHANGED <<record, fresh, blends, misled>>
        /\ result[c] = "none"
    BY <1>0, <1>9 DEF UseTool, Known
  <2>2. record = local /\ (c \notin misled => Shown(c, local))
    BY <1>0, <2>1 DEF InPre
  <2>3. (c \notin misled => Shown(c, seen[c]))'
    BY <2>1, <2>2 DEF Shown
  <2>4. CASE at' = [at EXCEPT ![c] = "done"]
    <3>1. at'[c] = "done" /\ result'[c] = "used"
      BY <1>0, <1>9, <2>4 DEF UseTool, Go, End
    <3>. QED
      BY <2>3, <3>1 DEF InPre, InPost, AtEnd
  <2>5. CASE at' = [at EXCEPT ![c] = "loading"]
    <3>1. at'[c] = "loading" /\ result' = result /\ local' = c /\ from'[c] = Line(local)
      BY <1>0, <1>9, <2>5 DEF UseTool, Go, End
    <3>2. seen'[c] \in from'[c]
      BY <2>1, <3>1 DEF Line
    <3>3. InPre(c)' /\ AtEnd(c)'
      BY <2>1, <3>1 DEF InPre, AtEnd
    <3>4. InPost(c)'
      BY <2>1, <2>2, <2>3, <3>1, <3>2 DEF InPost
    <3>. QED
      BY <3>3, <3>4
  <2>. QED
    BY <1>9, <2>4, <2>5 DEF UseTool, Go, End
<1>10. CASE LoadCopy(c)
  <2>1. c # Absent
    BY DEF MirrorAssumption
  <2>2. /\ at[c] = "loading" /\ local = c /\ result[c] = "none"
        /\ at'[c] = "consulting" /\ data'[c] = c
        /\ UNCHANGED <<record, result, fresh, blends, misled, seen, from>>
    BY <1>0, <1>10, <2>1 DEF LoadCopy, Go, End, past, Known, InPost
  <2>3. InPost(c)'
    BY <1>0, <2>2 DEF InPost, Shown
  <2>. QED
    BY <2>2, <2>3 DEF InPre, AtEnd
<1>11. CASE Consult(c)
  <2>1. seen[c] # Unknown
    BY <1>0, ContentFacts
  <2>2. /\ at[c] = "consulting" /\ at'[c] = "verifying" /\ expected'[c] = record
        /\ UNCHANGED <<data, result, fresh, blends, misled, seen, from>> /\ result[c] = "none"
    BY <1>0, <1>11, <2>1 DEF Consult, Go, Ask, past, Known, InPost
  <2>3. InPost(c)'
    BY <1>0, <2>2 DEF InPost, Shown
  <2>. QED
    BY <2>2, <2>3 DEF InPre, AtEnd
<1>12. CASE Verify(c)
  <2>1. /\ at[c] = "verifying" /\ result[c] = "none" /\ expected[c] = seen[c]
        /\ c \notin misled => Shown(c, seen[c])
        /\ UNCHANGED <<fresh, blends, misled, seen, from>> /\ during[c] \subseteq fresh[c]
    BY <1>0, <1>12 DEF Verify, past, Known, InPost
  <2>2. PICK answer \in during[c] \cup Readings(c) :
            \/ /\ answer = expected[c] /\ at' = [at EXCEPT ![c] = "writing"]
               /\ UNCHANGED <<data, expected, result>>
            \/ answer # expected[c] /\ End(c, "refused")
    BY <1>12 DEF Verify, Go
  <2>3. CASE at' = [at EXCEPT ![c] = "writing"]
    <3>1. at'[c] = "writing" /\ UNCHANGED <<data, expected, result>>
      BY <1>0, <2>2, <2>3 DEF End, Go
    <3>2. InPost(c)'
      BY <1>0, <2>1, <3>1 DEF InPost, Shown
    <3>. QED
      BY <2>1, <3>1, <3>2 DEF InPre, AtEnd
  <2>4. CASE answer # expected[c] /\ End(c, "refused")
    <3>1. at'[c] = "done" /\ result'[c] = "refused"
      BY <1>0, <2>4 DEF End, Go
    <3>2. answer \in during[c] \/ Several(during[c] \ {Absent})
      BY <1>0, <2>2, ReadingFacts
    <3>3. c \notin misled => Several(fresh[c])
      BY <2>1, <2>4, <3>2 DEF Shown, Several
    <3>. QED
      BY <2>1, <3>1, <3>3 DEF InPre, InPost, AtEnd, Several
  <2>. QED
    BY <2>2, <2>3, <2>4
<1>13. CASE VerifyFails(c)
  BY <1>0, <1>13 DEF VerifyFails, End, Go, past, Known, InPre, InPost, AtEnd
<1>14. CASE Write(c)
  <2>1. /\ at[c] = "writing" /\ result[c] = "none" /\ data[c] = c /\ at'[c] = "noting"
        /\ UNCHANGED <<data, result, blends, misled, seen, from>>
    BY <1>0, <1>14 DEF Write, Go, Known, InPost
  <2>2. fresh[c] \subseteq fresh'[c] /\ c \in held' \cup partly'
    <3>1. ASSUME NEW content, Put(content)
          PROVE  fresh[c] \subseteq fresh'[c] /\ content \in held'
      <4>1. fresh'[c] = IF c \in Active THEN fresh[c] \cup {content} ELSE fresh[c]
        BY <1>0, <3>1, PutFacts
      <4>. QED
        BY <3>1, <4>1 DEF Put
    <3>2. CASE Put(data[c])
      BY <2>1, <3>1, <3>2
    <3>3. CASE (\E part \in Parts : Put(part)) /\ partly' = partly \cup {data[c]}
      BY <2>1, <3>1, <3>3
    <3>. QED
      BY <1>14, <3>2, <3>3 DEF Write
  <2>3. c \notin misled => Shown(c, seen[c])
    BY <1>0, <2>1 DEF InPost
  <2>4. (c \notin misled => Shown(c, seen[c]))'
    BY <2>1, <2>2, <2>3, ShownKept DEF Shown
  <2>5. InPost(c)'
    BY <1>0, <2>1, <2>2, <2>4 DEF InPost
  <2>. QED
    BY <2>1, <2>5 DEF InPre, AtEnd
<1>15. CASE WriteFails(c)
  <2>1. at'[c] = "done" /\ result'[c] = "error"
    BY <1>0, <1>15 DEF WriteFails, End, Go
  <2>. QED
    BY <2>1 DEF InPre, InPost, AtEnd
<1>16. CASE RecordPushed(c)
  <2>1. /\ at[c] = "noting" /\ at'[c] = "done" /\ result'[c] = "saved"
        /\ UNCHANGED <<held, partly, fresh, blends, misled, seen>>
    BY <1>0, <1>16 DEF RecordPushed, End, Go, past
  <2>2. c \in held \cup partly /\ (c \notin misled => Shown(c, seen[c]))
    BY <1>0, <2>1 DEF InPost
  <2>. QED
    BY <2>1, <2>2 DEF InPre, InPost, AtEnd, Shown
<1>17. CASE Killed(c)
  <2>1. at'[c] = "done" /\ result'[c] = "killed"
    BY <1>0, <1>17 DEF Killed, End, Go
  <2>. QED
    BY <2>1 DEF InPre, InPost, AtEnd
<1>. QED
  BY <1>1, <1>2, <1>3, <1>4, <1>5, <1>6, <1>7, <1>8, <1>9, <1>10, <1>11, <1>12, <1>13, <1>14,
     <1>15, <1>16, <1>17 DEF CallStep, Pre, Post

\* As long as no two calls have overlapped, the others are at rest and what is
\* known of their ends stays true.
LEMMA AloneKept ==
  ASSUME MirrorAssumption, MirrorInv, [MirrorNext]_mirrorVars, alone'
  PROVE  /\ \A c, d \in Active' : c = d
         /\ \A c \in ToolCalls : InPre(c)' /\ InPost(c)' /\ AtEnd(c)'
<1>0. MirrorTypeOK /\ \A d \in ToolCalls : Known(d)
  BY DEF MirrorInv
<1>1. ASSUME NEW c \in ToolCalls, CallStep(c)
      PROVE  /\ \A a, b \in Active' : a = b
             /\ \A d \in ToolCalls : InPre(d)' /\ InPost(d)' /\ AtEnd(d)'
  <2>1. alone
    BY <1>0, <1>1, Aside
  <2>2. \A d \in ToolCalls \ {c} : d \notin Active
    <3>1. CASE Begin(c)
      BY <3>1 DEF Begin
    <3>2. CASE ~Begin(c)
      <4>1. c \in Active
        BY <1>1, <3>2 DEF CallStep, Pre, UseTool, Post, Killed, LookLocal, LookTarget, BeginRead,
           Read, ReadFails, Store, RecordFetched, LoadCopy, Consult, Verify, VerifyFails, Write,
           WriteFails, RecordPushed, Active
      <4>. QED
        BY <2>1, <4>1 DEF MirrorInv
    <3>. QED
      BY <3>1, <3>2
  <2>3. \A d \in ToolCalls \ {c} : at'[d] \in {"new", "done"}
    BY <1>0, <1>1, <2>2, Aside DEF Active
  <2>4. ASSUME NEW d \in ToolCalls \ {c} PROVE InPre(d)' /\ InPost(d)' /\ AtEnd(d)'
    <3>1. InPre(d)' /\ InPost(d)'
      BY <2>3 DEF InPre, InPost
    <3>2. AtEnd(d)
      BY <2>1 DEF MirrorInv
    <3>3. /\ held \subseteq held' /\ partly \subseteq partly' /\ blends \subseteq blends'
          /\ fresh[d] \subseteq fresh'[d] /\ result'[d] = result[d] /\ seen'[d] = seen[d]
          /\ misled \subseteq misled'
      BY <1>0, <1>1, Aside
    <3>4. AtEnd(d)'
      BY <3>2, <3>3 DEF AtEnd, Shown, Several
    <3>. QED
      BY <3>1, <3>4
  <2>5. InPre(c)' /\ InPost(c)' /\ AtEnd(c)'
    BY <1>1, <2>1, OwnStep
  <2>. QED
    BY <2>3, <2>4, <2>5 DEF Active
<1>2. CASE Meddle
  <2>1. PICK content : Put(content)
    BY <1>2 DEF Meddle
  <2>2. UNCHANGED <<local, record, at, tool, data, expected, result, from, seen, blends, partly,
                    misled, alone>>
    BY <1>2 DEF Meddle
  <2>3. held \subseteq held' /\ \A d \in ToolCalls : fresh[d] \subseteq fresh'[d]
    BY <1>0, <2>1, PutFacts
  <2>4. ASSUME NEW d \in ToolCalls PROVE InPre(d)' /\ InPost(d)' /\ AtEnd(d)'
    <3>1. InPre(d) /\ InPost(d) /\ AtEnd(d)
      BY <2>2 DEF MirrorInv
    <3>3. InPre(d)'
      BY <2>2, <2>3, <3>1 DEF InPre, Shown, Several
    <3>4. InPost(d)'
      BY <2>2, <2>3, <3>1 DEF InPost, Shown, Several
    <3>5. AtEnd(d)'
      BY <2>2, <2>3, <3>1 DEF AtEnd, Shown, Several
    <3>. QED
      BY <3>3, <3>4, <3>5
  <2>. QED
    BY <2>2, <2>4 DEF MirrorInv, Active
<1>3. CASE UNCHANGED mirrorVars
  BY <1>3 DEF mirrorVars, MirrorInv, Active, InPre, InPost, AtEnd, Shown
<1>. QED
  BY <1>1, <1>2, <1>3 DEF MirrorNext, CallStep, Rest

LEMMA MirrorStep ==
  ASSUME MirrorAssumption, MirrorInv, [MirrorNext]_mirrorVars
  PROVE  MirrorInv'
<1>1. MirrorTypeOK'
  BY MirrorTypeKept DEF MirrorInv
<1>. QED
  BY <1>1, KnownKept, AloneKept DEF MirrorInv

\* Whatever hooks run, fail or are killed, and whoever changes the target: what
\* is recorded was there, and a call that meets no other works on its own base.
THEOREM MirrorInvariant == ASSUME MirrorAssumption PROVE MirrorSpec => []MirrorInv
<1>1. MirrorInit => MirrorInv
  BY MirrorInitially
<1>2. MirrorInv /\ [MirrorNext]_mirrorVars => MirrorInv'
  BY MirrorStep
<1>. QED
  BY <1>1, <1>2, PTL DEF MirrorSpec

\* The variables of the mirror keep their types.
THEOREM MirrorTypes == ASSUME MirrorAssumption PROVE MirrorSpec => []MirrorTypeOK
<1>1. MirrorInv => MirrorTypeOK
  BY DEF MirrorInv
<1>. QED
  BY <1>1, MirrorInvariant, PTL

\* A push compares the target with what its edit was made on.
THEOREM KeepsItsBase == ASSUME MirrorAssumption PROVE MirrorSpec => []EditKeepsItsBase
<1>1. MirrorInv => EditKeepsItsBase
  BY DEF MirrorInv, InPost, EditKeepsItsBase, WritesOnItsBase, Line
<1>. QED
  BY <1>1, MirrorInvariant, PTL

\* A tool is shown what the target held since its call began, or a blend of what
\* it held, and an edit is refused only when the target was changed since then.
THEOREM NotMisled == ASSUME MirrorAssumption PROVE MirrorSpec => []AgentIsNotMisled
<1>1. MirrorInv => ToolSeesTheTarget
  BY DEF MirrorInv, AtEnd, Shown, ToolSeesTheTarget
<1>2. MirrorInv => RefusalIsTrue
  BY DEF MirrorInv, AtEnd, RefusalIsTrue
<1>. QED
  BY <1>1, <1>2, MirrorInvariant, PTL DEF AgentIsNotMisled

\* Success is neither reported nor recorded of an edit that was not sent, or was
\* answered with an error.
THEOREM Real == ASSUME MirrorAssumption PROVE MirrorSpec => []SuccessIsReal
<1>1. MirrorInv => SavedAlone
  BY DEF MirrorInv, AtEnd, SavedAlone, Landed, Line
<1>2. MirrorInv => RecordIsReal
  BY DEF MirrorInv
<1>. QED
  BY <1>1, <1>2, MirrorInvariant, PTL DEF SuccessIsReal
=============================================================================
