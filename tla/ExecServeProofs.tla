---------------------------- MODULE ExecServeProofs ----------------------------
(***************************************************************************)
(* What ExecServe promises, for any number of requests, paths, handles and *)
(* processes, and for whatever the client sends.  The argument is that a   *)
(* request which has left the queue of its key finds every request in      *)
(* front of it there answered, though the sequencer remembers only the     *)
(* last one of each key and forgets that one as soon as it is answered.    *)
(* And what the output of one process promises, in the second half.        *)
(***************************************************************************)
EXTENDS ExecServe, ProcessOutput, WellFoundedInduction, SequenceTheorems, TLAPS

\* Requests i and j queue for the same key k.
Keyed(i, k) == k \in OrderKey(log[i])

\* The request has been answered and has given up its place as a tail.
Past(i) == pc[i] \in {"releasing", "done"}

\* Where a request is, what it was answered, and what it is.
Stages ==
    /\ \A i \in Ids : pc[i] = "unread" <=> i \notin Read
    /\ \A i \in Ids : answer[i] = "none" <=> pc[i] \in {"unread", "waiting", "running", "writing"}
    /\ \A i \in Read : Synchronous(log[i]) => pc[i] = "done"
    /\ \A i \in Read : pc[i] = "writing" => log[i].op = "write"

\* Whoever is past waiting has nobody in front of him; whoever waits, waits for
\* the one directly in front of him, or has nobody there.
Queues ==
    /\ \A i \in Read, j \in Read : \A k \in Keys \cup Procs :
          j < i /\ Keyed(i, k) /\ Keyed(j, k) =>
            /\ pc[i] # "waiting" => Past(j)
            /\ pc[i] = "waiting" /\ after[i] = 0 => Past(j)
            /\ pc[i] = "waiting" /\ after[i] # 0 => j <= after[i]
    /\ \A i \in Read : \A k \in Keys \cup Procs :
          pc[i] = "waiting" /\ Keyed(i, k) /\ after[i] # 0 =>
            after[i] \in Read /\ after[i] < i /\ Keyed(after[i], k)

\* A key without a tail has nobody who is not past; otherwise TailsAreLive.
Tails ==
    /\ \A k \in Keys \cup Procs : tails[k] = 0 =>
          \A j \in Read : Keyed(j, k) => Past(j)
    /\ TailsAreLive

\* What the target holds comes from requests that were answered.
Effects ==
    /\ \A i \in Read : log[i].op = "init" => ready /\ answer[i] = "ok"
    /\ \A i \in Read : log[i].op = "start" /\ answer[i] = "ok" => proc[log[i].on] # "none"
    /\ \A k \in Keys : content[k] # 0 =>
          /\ content[k] \in Read /\ log[content[k]] = [op |-> "set", on |-> k]
          /\ answer[content[k]] = "ok"
    /\ \A k \in Keys, j \in Read :
          log[j] = [op |-> "set", on |-> k] /\ answer[j] = "ok" => j <= content[k]
    /\ \A p \in Procs : \A m \in 1..Len(stdin[p]) :
          /\ stdin[p][m] \in Read /\ log[stdin[p][m]] = [op |-> "write", on |-> p]
          /\ answer[stdin[p][m]] # "none"

IInv == TypeOK /\ Stages /\ Queues /\ Tails /\ Effects /\ WireOrderIsKept

-----------------------------------------------------------------------------
LEMMA RequestFacts ==
  ASSUME NEW r \in Requests
  PROVE  /\ r.op \in {"set", "get", "write", "start", "stop", "poll", "init"}
         /\ r.op \in {"set", "get"} => r.on \in Keys
         /\ r.op \in {"write", "start", "stop", "poll"} => r.on \in Procs
         /\ r = [op |-> r.op, on |-> r.on]
BY DEF Requests

LEMMA KeyFacts ==
  ASSUME NEW r \in Requests
  PROVE  /\ \A k : k \in OrderKey(r) <=> r.op \in {"set", "get", "write"} /\ r.on = k
         /\ OrderKey(r) # {} => (CHOOSE k \in OrderKey(r) : TRUE) = r.on
         /\ OrderKey(r) # {} => r.on \in Keys \cup Procs /\ ~Synchronous(r)
         /\ Synchronous(r) <=> r.op \in {"init", "start"}
<1>1. OrderKey(r) = {} \/ (OrderKey(r) = {r.on} /\ r.op \in {"set", "get", "write"})
  BY DEF OrderKey
<1>2. r.op \in {"set", "get", "write"} => r.on \in Keys \cup Procs /\ ~Synchronous(r)
  BY RequestFacts DEF Synchronous
<1>3. \A k : k \in OrderKey(r) <=> r.op \in {"set", "get", "write"} /\ r.on = k
  BY DEF OrderKey
<1>4. Synchronous(r) <=> r.op \in {"init", "start"}
  BY DEF Synchronous
<1>. QED
  BY <1>1, <1>2, <1>3, <1>4

LEMMA ReadFacts ==
  ASSUME TypeOK
  PROVE  /\ Len(log) \in Nat /\ Read \subseteq Ids
         /\ \A i \in Read : i \in Nat /\ log[i] \in Requests
         /\ \A i \in Ids : i \in Nat /\ i > 0
BY ServeAssumption DEF TypeOK, Read, Ids

LEMMA LogGrows ==
  ASSUME TypeOK, NEW i \in Ids, NEW r \in Requests, Log(i, r)
  PROVE  /\ Read' = Read \cup {i} /\ i \notin Read /\ \A j \in Read : j < i
         /\ log' \in Seq(Requests) /\ Len(log') = i /\ Len(log') <= MaxRequests
         /\ \A j \in Read : log'[j] = log[j]
         /\ log'[i] = r
<1>1. /\ log \in Seq(Requests) /\ log' = Append(log, r) /\ i = Len(log) + 1
      /\ Len(log) < MaxRequests /\ Len(log) \in Nat /\ MaxRequests \in Nat
  BY ServeAssumption DEF TypeOK, Log
<1>2. /\ log' \in Seq(Requests) /\ Len(log') = i /\ log'[i] = r
      /\ \A j \in 1..Len(log) : log'[j] = log[j]
  BY <1>1
<1>3. 1..i = (1..Len(log)) \cup {i} /\ i \notin 1..Len(log) /\ \A j \in 1..Len(log) : j < i
  BY <1>1
<1>. QED
  BY <1>1, <1>2, <1>3 DEF Read

(* Around a request that runs: who queues in front of it is past, and who    *)
(* queues behind it waits.                                                   *)
LEMMA Alone ==
  ASSUME IInv, NEW i \in Read, pc[i] \in {"running", "writing", "answered"},
         NEW k \in Keys \cup Procs, Keyed(i, k), NEW j \in Read, Keyed(j, k)
  PROVE  /\ j < i => Past(j) /\ answer[j] # "none"
         /\ i < j => pc[j] = "waiting" /\ answer[j] = "none"
<1>1. i \in Ids /\ j \in Ids
  BY ReadFacts DEF IInv
<1>2. j < i => Past(j)
  BY DEF IInv, Queues
<1>3. i < j => pc[j] = "waiting"
  BY DEF IInv, Queues, Past
<1>. QED
  BY <1>1, <1>2, <1>3 DEF IInv, Stages, Past

-----------------------------------------------------------------------------
(* What is shared by the steps of a goroutine.                               *)
LEMMA QueuesKeep ==
  ASSUME IInv, NEW i \in Read, NEW to \in {"running", "writing", "answered", "releasing", "done"},
         pc' = [pc EXCEPT ![i] = to], UNCHANGED <<log, after>>,
         Past(i) => to \in {"releasing", "done"},
         \A j \in Read, k \in Keys \cup Procs : j < i /\ Keyed(i, k) /\ Keyed(j, k) => Past(j)
  PROVE  Queues'
<1>1. pc'[i] = to /\ \A j \in Read : j # i => pc'[j] = pc[j]
  BY ReadFacts DEF IInv, TypeOK
<1>2. Read' = Read /\ \A j \in Read, k \in Keys \cup Procs : Keyed(j, k)' <=> Keyed(j, k)
  BY DEF Read, Keyed, OrderKey
<1>3. \A j \in Read : Past(j) => Past(j)'
  BY <1>1 DEF Past
<1>4. \A a \in Read, b \in Read, k \in Keys \cup Procs :
          b < a /\ Keyed(a, k) /\ Keyed(b, k) =>
            /\ pc'[a] # "waiting" => Past(b)
            /\ pc'[a] = "waiting" /\ after[a] = 0 => Past(b)
            /\ pc'[a] = "waiting" /\ after[a] # 0 => b <= after[a]
  BY <1>1 DEF IInv, Queues
<1>5. \A a \in Read, k \in Keys \cup Procs :
          pc'[a] = "waiting" /\ Keyed(a, k) /\ after[a] # 0 =>
            after[a] \in Read /\ after[a] < a /\ Keyed(after[a], k)
  BY <1>1 DEF IInv, Queues
<1>. QED
  BY <1>2, <1>3, <1>4, <1>5 DEF Queues

LEMMA TailsKeep ==
  ASSUME IInv, NEW i \in Read, NEW to \in {"running", "writing", "answered", "releasing", "done"},
         pc' = [pc EXCEPT ![i] = to], UNCHANGED <<log, tails>>,
         Past(i) => to \in {"releasing", "done"},
         \A k \in Keys \cup Procs : tails[k] = i => to \in {"running", "writing", "answered"}
  PROVE  Tails'
<1>0. DOMAIN tails = Keys \cup Procs
  BY DEF IInv, TypeOK
<1>1. pc'[i] = to /\ \A j \in Read : j # i => pc'[j] = pc[j]
  BY ReadFacts DEF IInv, TypeOK
<1>2. Read' = Read /\ \A j \in Read, k \in Keys \cup Procs : Keyed(j, k)' <=> Keyed(j, k)
  BY DEF Read, Keyed, OrderKey
<1>3. \A j \in Read : Past(j) => Past(j)'
  BY <1>1 DEF Past
<1>4. TailsAreLive'
  <2>. SUFFICES ASSUME NEW k \in Keys \cup Procs, tails[k] # 0
                PROVE  /\ tails[k] \in Read /\ k \in OrderKey(log[tails[k]])
                       /\ pc'[tails[k]] \in {"waiting", "running", "writing", "answered"}
                       /\ \A j \in (tails[k] + 1)..Len(log) : k \notin OrderKey(log[j])
    BY <1>0, <1>2 DEF TailsAreLive, OrderKey
  <2>1. /\ tails[k] \in Read /\ k \in OrderKey(log[tails[k]])
        /\ pc[tails[k]] \in {"waiting", "running", "writing", "answered"}
        /\ \A j \in (tails[k] + 1)..Len(log) : k \notin OrderKey(log[j])
    BY <1>0 DEF IInv, Tails, TailsAreLive
  <2>. QED
    BY <1>1, <2>1
<1>5. \A k \in Keys \cup Procs : tails[k] = 0 => \A j \in Read : Keyed(j, k) => Past(j)
  BY DEF IInv, Tails
<1>. QED
  BY <1>2, <1>3, <1>4, <1>5 DEF Tails

LEMMA EffectsStay ==
  ASSUME IInv, UNCHANGED <<log, answer, got, ready, content, stdin>>,
         \A p \in Procs : proc[p] # "none" => proc'[p] # "none"
  PROVE  Effects' /\ WireOrderIsKept'
<1>1. \A i \in Read : log[i].op = "start" /\ answer[i] = "ok" => proc'[log[i].on] # "none"
  BY ReadFacts, RequestFacts DEF IInv, Effects
<1>2. Effects'
  BY <1>1 DEF IInv, Effects, Read
<1>3. GetSeesWireOrder' /\ StdinInWireOrder' /\ StartIsSeen'
  BY DEF IInv, WireOrderIsKept, GetSeesWireOrder, StdinInWireOrder, StartIsSeen, SetsBefore, Read
<1>. QED
  BY <1>2, <1>3 DEF WireOrderIsKept

(* A step of a goroutine moves one request on, and answers it when it leaves *)
(* its handler.                                                              *)
LEMMA StagesKeep ==
  ASSUME IInv, NEW i \in Read, NEW to \in {"running", "writing", "answered", "releasing", "done"},
         pc' = [pc EXCEPT ![i] = to], UNCHANGED log, pc[i] # "done",
         \A j \in Ids : j # i => answer'[j] = answer[j],
         answer'[i] = "none" <=> to \in {"running", "writing"},
         to = "writing" => log[i].op = "write"
  PROVE  Stages'
<1>1. i \in Ids /\ pc'[i] = to /\ \A j \in Ids : j # i => pc'[j] = pc[j]
  BY ReadFacts DEF IInv, TypeOK
<1>2. Read' = Read /\ Read \subseteq Ids
  BY ReadFacts DEF Read, IInv
<1>3. \A j \in Ids : pc'[j] = "unread" <=> j \notin Read
  BY <1>1 DEF IInv, Stages
<1>4. \A j \in Ids :
         answer'[j] = "none" <=> pc'[j] \in {"unread", "waiting", "running", "writing"}
  <2>. TAKE j \in Ids
  <2>1. CASE j = i
    BY <2>1, <1>1
  <2>2. CASE j # i
    BY <2>2, <1>1 DEF IInv, Stages
  <2>. QED
    BY <2>1, <2>2
<1>5. \A j \in Read : Synchronous(log[j]) => pc'[j] = "done"
  BY <1>1, <1>2 DEF IInv, Stages
<1>6. \A j \in Read : pc'[j] = "writing" => log[j].op = "write"
  BY <1>1, <1>2 DEF IInv, Stages
<1>. QED
  BY <1>2, <1>3, <1>4, <1>5, <1>6 DEF Stages, Synchronous

(* The answer of a request that runs fits what was answered in front of it:  *)
(* whoever queues for its key in front is answered, whoever queues behind    *)
(* is not, and the requests of other keys cannot tell.                       *)
LEMMA AnswerFits ==
  ASSUME IInv, NEW i \in Read, pc[i] \in {"running", "writing"},
         NEW a \in {"ok", "refused", "unknown", "stdinClosed", "failed"},
         answer' = [answer EXCEPT ![i] = a], UNCHANGED <<log, ready, proc>>,
         a = "refused" => ~ready,
         a = "unknown" => proc[log[i].on] = "none",
         content' = IF log[i].op = "set" /\ a = "ok"
                    THEN [content EXCEPT ![log[i].on] = i] ELSE content,
         got' = IF log[i].op = "get" /\ a = "ok"
                THEN [got EXCEPT ![i] = content[log[i].on]] ELSE got,
         stdin' = IF log[i].op = "write" /\ a = "ok"
                  THEN [stdin EXCEPT ![log[i].on] = Append(@, i)] ELSE stdin
  PROVE  Effects' /\ WireOrderIsKept'
<1>. DEFINE r == log[i]
<1>1. /\ i \in Ids /\ i \in Nat /\ r \in Requests /\ Read' = Read /\ Read \subseteq Ids
      /\ \A j \in Read : j \in Nat /\ log[j] \in Requests
  BY ReadFacts DEF IInv, Read
<1>2. /\ answer'[i] = a /\ \A j \in Ids : j # i => answer'[j] = answer[j]
      /\ answer[i] = "none"
  BY <1>1 DEF IInv, TypeOK, Stages
<1>3. r.op \notin {"init", "start"}
  BY <1>1 DEF IInv, Stages, Synchronous
<1>4. ASSUME NEW k \in Keys \cup Procs, Keyed(i, k), NEW j \in Read, Keyed(j, k), i < j
      PROVE  answer[j] = "none"
  BY <1>4, Alone
<1>5. \A j \in Read : log[j].op = "init" => ready /\ answer'[j] = "ok"
  BY <1>1, <1>2, <1>3 DEF IInv, Effects
<1>6. \A j \in Read : log[j].op = "start" /\ answer'[j] = "ok" => proc[log[j].on] # "none"
  BY <1>1, <1>2, <1>3 DEF IInv, Effects
<1>7. ASSUME r.op \in {"set", "get", "write"}
      PROVE  /\ r.on \in Keys \cup Procs /\ Keyed(i, r.on)
             /\ r.op \in {"set", "get"} => r.on \in Keys
             /\ r.op = "write" => r.on \in Procs
             /\ \A j \in Read : log[j].op \in {"set", "get", "write"} /\ log[j].on = r.on => Keyed(j, r.on)
  BY <1>1, <1>7, RequestFacts, KeyFacts DEF Keyed
<1>8. \A k \in Keys : content'[k] # 0 =>
         /\ content'[k] \in Read /\ log[content'[k]] = [op |-> "set", on |-> k]
         /\ answer'[content'[k]] = "ok"
  <2>. SUFFICES ASSUME NEW k \in Keys, content'[k] # 0
                PROVE  /\ content'[k] \in Read /\ log[content'[k]] = [op |-> "set", on |-> k]
                       /\ answer'[content'[k]] = "ok"
    OBVIOUS
  <2>1. CASE r.op = "set" /\ a = "ok" /\ r.on = k
    <3>1. content'[k] = i
      BY <2>1 DEF IInv, TypeOK
    <3>. QED
      BY <3>1, <2>1, <1>1, <1>2, RequestFacts
  <2>2. CASE ~(r.op = "set" /\ a = "ok" /\ r.on = k)
    <3>1. content'[k] = content[k]
      BY <2>2 DEF IInv, TypeOK
    <3>2. content[k] # i
      BY <3>1, <1>2 DEF IInv, Effects
    <3>. QED
      BY <3>1, <3>2, <1>1, <1>2 DEF IInv, Effects
  <2>. QED
    BY <2>1, <2>2
<1>9. \A k \in Keys, j \in Read :
         log[j] = [op |-> "set", on |-> k] /\ answer'[j] = "ok" => j <= content'[k]
  <2>. SUFFICES ASSUME NEW k \in Keys, NEW j \in Read, log[j] = [op |-> "set", on |-> k],
                       answer'[j] = "ok"
                PROVE  j <= content'[k]
    OBVIOUS
  <2>0. log[j].op = "set" /\ log[j].on = k
    OBVIOUS
  <2>1. CASE r.op = "set" /\ a = "ok" /\ r.on = k
    <3>1. content'[k] = i
      BY <2>1 DEF IInv, TypeOK
    <3>2. j # i => answer[j] = "ok"
      BY <1>1, <1>2
    <3>3. ~(i < j)
      BY <3>2, <2>0, <2>1, <1>1, <1>4, <1>7
    <3>. QED
      BY <3>1, <3>3, <1>1
  <2>2. CASE ~(r.op = "set" /\ a = "ok" /\ r.on = k)
    <3>1. content'[k] = content[k]
      BY <2>2 DEF IInv, TypeOK
    <3>2. j # i
      BY <2>0, <2>2, <1>2
    <3>. QED
      BY <3>1, <3>2, <1>1, <1>2 DEF IInv, Effects
  <2>. QED
    BY <2>1, <2>2
<1>10. ASSUME NEW p \in Procs, NEW m \in 1..Len(stdin[p])
       PROVE  /\ stdin[p][m] \in Read /\ log[stdin[p][m]] = [op |-> "write", on |-> p]
              /\ answer[stdin[p][m]] # "none" /\ stdin[p][m] # i
  BY <1>2 DEF IInv, Effects
<1>11. ASSUME NEW p \in Procs
       PROVE  \/ stdin'[p] = stdin[p]
              \/ /\ r = [op |-> "write", on |-> p]
                 /\ stdin'[p] = Append(stdin[p], i) /\ stdin[p] \in Seq(Ids)
  <2>1. CASE r.op = "write" /\ a = "ok" /\ r.on = p
    BY <2>1, <1>1, RequestFacts DEF IInv, TypeOK
  <2>2. CASE ~(r.op = "write" /\ a = "ok" /\ r.on = p)
    BY <2>2 DEF IInv, TypeOK
  <2>. QED
    BY <2>1, <2>2
<1>12. ASSUME NEW p \in Procs, NEW m \in 1..Len(stdin'[p])
       PROVE  /\ stdin'[p][m] \in Read' /\ log'[stdin'[p][m]] = [op |-> "write", on |-> p]
              /\ answer'[stdin'[p][m]] # "none"
  <2>1. CASE stdin'[p] = stdin[p]
    <3>1. m \in 1..Len(stdin[p]) /\ stdin'[p][m] = stdin[p][m]
      BY <2>1
    <3>2. /\ stdin[p][m] \in Read /\ log[stdin[p][m]] = [op |-> "write", on |-> p]
          /\ answer[stdin[p][m]] # "none" /\ stdin[p][m] # i
      BY <3>1, <1>10
    <3>. QED
      BY <3>1, <3>2, <1>1, <1>2
  <2>2. CASE /\ r = [op |-> "write", on |-> p]
             /\ stdin'[p] = Append(stdin[p], i) /\ stdin[p] \in Seq(Ids)
    <3>1. /\ Len(stdin'[p]) = Len(stdin[p]) + 1 /\ Len(stdin[p]) \in Nat
          /\ stdin'[p][Len(stdin[p]) + 1] = i
          /\ \A n \in 1..Len(stdin[p]) : stdin'[p][n] = stdin[p][n]
      BY <2>2, <1>1
    <3>2. m = Len(stdin[p]) + 1 \/ m \in 1..Len(stdin[p])
      BY <3>1
    <3>3. CASE m = Len(stdin[p]) + 1
      <4>1. stdin'[p][m] = i
        BY <3>1, <3>3
      <4>. QED
        BY <4>1, <2>2, <1>1, <1>2
    <3>4. CASE m \in 1..Len(stdin[p])
      <4>1. stdin'[p][m] = stdin[p][m]
        BY <3>1, <3>4
      <4>2. /\ stdin[p][m] \in Read /\ log[stdin[p][m]] = [op |-> "write", on |-> p]
            /\ answer[stdin[p][m]] # "none" /\ stdin[p][m] # i
        BY <3>4, <1>10
      <4>. QED
        BY <4>1, <4>2, <1>1, <1>2
    <3>. QED
      BY <3>2, <3>3, <3>4
  <2>. QED
    BY <1>11, <2>1, <2>2
<1>13. Effects'
  <2>1. (\A j \in Read : log[j].op = "init" => ready /\ answer[j] = "ok")'
    BY <1>1, <1>5
  <2>2. (\A j \in Read : log[j].op = "start" /\ answer[j] = "ok" => proc[log[j].on] # "none")'
    BY <1>1, <1>6
  <2>3. (\A k \in Keys : content[k] # 0 =>
          /\ content[k] \in Read /\ log[content[k]] = [op |-> "set", on |-> k]
          /\ answer[content[k]] = "ok")'
    BY <1>1, <1>8
  <2>4. (\A k \in Keys, j \in Read :
          log[j] = [op |-> "set", on |-> k] /\ answer[j] = "ok" => j <= content[k])'
    BY <1>1, <1>9
  <2>5. (\A p \in Procs : \A m \in 1..Len(stdin[p]) :
          /\ stdin[p][m] \in Read /\ log[stdin[p][m]] = [op |-> "write", on |-> p]
          /\ answer[stdin[p][m]] # "none")'
    BY ONLY <1>12
  <2>. QED
    BY <2>1, <2>2, <2>3, <2>4, <2>5 DEF Effects
<1>14. StdinInWireOrder'
  <2>. SUFFICES ASSUME NEW p \in Procs, NEW m \in 1..Len(stdin'[p]), NEW n \in 1..Len(stdin'[p]),
                       m < n
                PROVE  stdin'[p][m] < stdin'[p][n]
    BY DEF StdinInWireOrder
  <2>1. CASE stdin'[p] = stdin[p]
    BY <2>1 DEF IInv, WireOrderIsKept, StdinInWireOrder
  <2>2. CASE /\ r = [op |-> "write", on |-> p]
             /\ stdin'[p] = Append(stdin[p], i) /\ stdin[p] \in Seq(Ids)
    <3>1. /\ Len(stdin'[p]) = Len(stdin[p]) + 1 /\ Len(stdin[p]) \in Nat
          /\ stdin'[p][Len(stdin[p]) + 1] = i
          /\ \A q \in 1..Len(stdin[p]) : stdin'[p][q] = stdin[p][q]
      BY <2>2, <1>1
    <3>2. m \in 1..Len(stdin[p])
      BY <3>1
    <3>3. stdin'[p][m] = stdin[p][m] /\ stdin[p][m] \in Read /\ stdin[p][m] # i
      BY <3>1, <3>2, <1>10
    <3>4. ~(i < stdin[p][m])
      <4>1. r.op = "write" /\ r.on = p
        BY <2>2
      <4>2. log[stdin[p][m]] = [op |-> "write", on |-> p] /\ answer[stdin[p][m]] # "none"
        BY <3>2, <1>10
      <4>3. log[stdin[p][m]].op = "write" /\ log[stdin[p][m]].on = p
        BY <4>2
      <4>. QED
        BY <4>1, <4>2, <4>3, <3>3, <1>4, <1>7
    <3>5. CASE n = Len(stdin[p]) + 1
      <4>1. stdin'[p][n] = i /\ stdin[p][m] \in Nat /\ i \in Nat
        BY <3>1, <3>3, <3>5, <1>1
      <4>2. stdin[p][m] < i
        BY <4>1, <3>3, <3>4
      <4>. QED
        BY <4>1, <4>2, <3>3
    <3>6. CASE n # Len(stdin[p]) + 1
      <4>1. n \in 1..Len(stdin[p])
        BY <3>1, <3>6
      <4>. QED
        BY <4>1, <3>1, <3>2 DEF IInv, WireOrderIsKept, StdinInWireOrder
    <3>. QED
      BY <3>5, <3>6
  <2>. QED
    BY <1>11, <2>1, <2>2
<1>15. GetSeesWireOrder'
  <2>. SUFFICES ASSUME NEW g \in Read, log[g].op = "get", answer'[g] = "ok"
                PROVE  /\ got'[g] \in SetsBefore(g)' \cup {0}
                       /\ \A j \in SetsBefore(g)' : j <= got'[g]
    BY <1>1 DEF GetSeesWireOrder
  <2>0. g \in Ids /\ g \in Nat /\ log[g] \in Requests /\ log[g].on \in Keys
    BY <1>1, RequestFacts
  <2>1. \A j \in 1..(g - 1) : j \in Read /\ j \in Ids /\ j < g
    BY <2>0, ServeAssumption DEF Read, Ids, IInv, TypeOK
  <2>2. CASE g = i
    <3>1. /\ got'[g] = content[log[g].on] /\ a = "ok" /\ r.op = "get"
      BY <2>2, <1>2, <1>1 DEF IInv, TypeOK
    <3>2. SetsBefore(g)' = SetsBefore(g)
      BY <2>1, <2>2, <1>2 DEF SetsBefore
    <3>3. \A j \in SetsBefore(g) : j <= content[log[g].on]
      BY <2>0, <2>1 DEF SetsBefore, IInv, Effects
    <3>4. ASSUME content[log[g].on] # 0
          PROVE  content[log[g].on] \in SetsBefore(g)
      <4>. DEFINE c == content[log[g].on]
      <4>1. c \in Read /\ log[c] = [op |-> "set", on |-> log[g].on] /\ answer[c] = "ok"
        BY <3>4, <2>0 DEF IInv, Effects
      <4>2. ~(i < c)
        BY <4>1, <3>1, <2>2, <1>4, <1>7
      <4>3. c \in 1..(g - 1)
        BY <4>1, <4>2, <2>2, <1>1, <1>2, <2>0 DEF Read
      <4>. QED
        BY <4>1, <4>3 DEF SetsBefore
    <3>. QED
      BY <3>1, <3>2, <3>3, <3>4
  <2>3. CASE g # i
    <3>1. answer[g] = "ok" /\ got'[g] = got[g]
      BY <2>0, <2>3, <1>2 DEF IInv, TypeOK
    <3>2. ASSUME NEW j \in 1..(g - 1), log[j] = [op |-> "set", on |-> log[g].on]
          PROVE  j # i
      <4>1. log[j].op = "set" /\ log[j].on = log[g].on /\ j \in Read /\ j < g
        BY <3>2, <2>1
      <4>. QED
        BY <4>1, <3>1, <1>4, <1>7
    <3>3. SetsBefore(g)' = SetsBefore(g)
      BY <3>2, <2>1, <1>2 DEF SetsBefore
    <3>. QED
      BY <3>1, <3>3 DEF IInv, WireOrderIsKept, GetSeesWireOrder
  <2>. QED
    BY <2>2, <2>3
<1>16. StartIsSeen'
  <2>. SUFFICES ASSUME NEW s \in Read, NEW j \in Read, s < j, answer'[s] \in {"none", "ok"}
                PROVE  /\ log[s].op = "init" => answer'[j] # "refused"
                       /\ log[s].op = "start" /\ answer'[s] = "ok" /\ log[j].on = log[s].on
                            => answer'[j] # "unknown"
    BY <1>1 DEF StartIsSeen
  <2>1. CASE s = i
    BY <2>1, <1>3
  <2>2. CASE s # i /\ j # i
    BY <2>2, <1>1, <1>2 DEF IInv, WireOrderIsKept, StartIsSeen
  <2>3. CASE j = i
    BY <2>3, <1>2, <1>5, <1>6
  <2>. QED
    BY <2>1, <2>2, <2>3
<1>. QED
  BY <1>13, <1>14, <1>15, <1>16 DEF WireOrderIsKept

LEMMA InitHolds == Init => IInv
<1> SUFFICES ASSUME Init PROVE IInv
  OBVIOUS
<1>1. TypeOK
  <2>1. 0 \in 0..MaxRequests /\ (\A i \in Ids : i > 0) /\ Len(<<>>) = 0 /\ 0 <= MaxRequests
    BY ServeAssumption DEF Ids
  <2>2. <<>> \in Seq(Requests) /\ <<>> \in Seq(Ids)
    OBVIOUS
  <2>3. /\ log \in Seq(Requests) /\ Len(log) <= MaxRequests
        /\ after \in [Ids -> 0..MaxRequests] /\ \A i \in Ids : after[i] < i
    BY <2>1, <2>2 DEF Init
  <2>4. /\ stdin \in [Procs -> Seq(Ids)] /\ got \in [Ids -> 0..MaxRequests]
        /\ tails \in [Keys \cup Procs -> 0..MaxRequests] /\ content \in [Keys -> 0..MaxRequests]
    BY <2>1, <2>2 DEF Init
  <2>. QED
    BY <2>3, <2>4 DEF Init, TypeOK
<1>2. Read = {} /\ Len(log) = 0
  BY DEF Init, Read
<1>3. Stages /\ Queues
  BY <1>2 DEF Init, Stages, Queues
<1>4. Tails
  BY <1>2 DEF Init, Tails, TailsAreLive
<1>5. Effects
  <2>1. \A p \in Procs : 1..Len(stdin[p]) = {}
    BY DEF Init
  <2>. QED
    BY <1>2, <2>1 DEF Init, Effects
<1>6. WireOrderIsKept
  <2>1. \A p \in Procs : 1..Len(stdin[p]) = {}
    BY DEF Init
  <2>. QED
    BY <1>2, <2>1 DEF WireOrderIsKept, GetSeesWireOrder, StdinInWireOrder, StartIsSeen
<1>. QED
  BY <1>1, <1>3, <1>4, <1>5, <1>6 DEF IInv
-----------------------------------------------------------------------------
(* The variables keep their types.                                           *)
LEMMA HandleTypes ==
  ASSUME TypeOK, NEW i \in Ids, NEW r \in Requests, Handle(i, r)
  PROVE  /\ answer' \in [Ids -> {"none", "ok", "refused", "invalid", "unknown",
                                 "stdinClosed", "failed"}]
         /\ got' \in [Ids -> 0..MaxRequests] /\ content' \in [Keys -> 0..MaxRequests]
         /\ proc' \in [Procs -> {"none", "running", "exited"}]
         /\ killed' \in SUBSET Procs /\ ready' \in BOOLEAN /\ stdin' \in [Procs -> Seq(Ids)]
<1>1. i \in 0..MaxRequests
  BY ServeAssumption DEF Ids
<1>2. r.op = "get" => r.on \in Keys
  BY RequestFacts
<1>3. r.op = "stop" => r.on \in Procs
  BY RequestFacts
<1>4. stdin' = stdin
  BY DEF Handle, target
<1>5. proc' \in [Procs -> {"none", "running", "exited"}]
  BY DEF TypeOK, Handle, Start, target
<1>6. killed' \in SUBSET Procs
  BY <1>3 DEF TypeOK, Handle, Stop, target
<1>7. content' \in [Keys -> 0..MaxRequests] /\ ready' \in BOOLEAN
  BY <1>1 DEF TypeOK, Handle, target
<1>8. got' \in [Ids -> 0..MaxRequests]
  <2>1. got' = got \/ (r.op = "get" /\ got' = [got EXCEPT ![i] = content[r.on]])
    BY DEF Handle, target
  <2>2. got \in [Ids -> 0..MaxRequests] /\ content \in [Keys -> 0..MaxRequests]
    BY DEF TypeOK
  <2>. QED
    BY <1>2, <2>1, <2>2
<1>9. answer' \in [Ids -> {"none", "ok", "refused", "invalid", "unknown",
                           "stdinClosed", "failed"}]
  BY DEF TypeOK, Handle, Start, target
<1>. QED
  BY <1>4, <1>5, <1>6, <1>7, <1>8, <1>9 DEF TypeOK

LEMMA ReadTypes ==
  ASSUME IInv, NEW i \in Ids, NEW r \in Requests,
         ReadSynchronous(i, r) \/ ReadConcurrent(i, r)
  PROVE  TypeOK'
<1>1. Log(i, r) /\ TypeOK
  BY DEF IInv, ReadSynchronous, ReadConcurrent
<1>2. /\ log' \in Seq(Requests) /\ Len(log') <= MaxRequests /\ i \in 0..MaxRequests
      /\ i \in Nat /\ i > 0 /\ \A j \in Read : j < i
  BY <1>1, LogGrows, ServeAssumption DEF Ids
<1>3. CASE ReadSynchronous(i, r)
  <2>1. Handle(i, r)
    BY <1>3 DEF ReadSynchronous
  <2>2. pc' = [pc EXCEPT ![i] = "done"] /\ UNCHANGED <<after, tails, loop, dying>>
    BY <1>3 DEF ReadSynchronous
  <2>3. /\ answer' \in [Ids -> {"none", "ok", "refused", "invalid", "unknown",
                                "stdinClosed", "failed"}]
        /\ got' \in [Ids -> 0..MaxRequests] /\ content' \in [Keys -> 0..MaxRequests]
        /\ proc' \in [Procs -> {"none", "running", "exited"}]
        /\ killed' \in SUBSET Procs /\ ready' \in BOOLEAN /\ stdin' \in [Procs -> Seq(Ids)]
    BY <1>1, <2>1, HandleTypes
  <2>. QED
    BY <1>1, <1>2, <2>2, <2>3 DEF TypeOK
<1>4. CASE ReadConcurrent(i, r)
  <2>1. /\ pc' = [pc EXCEPT ![i] = "waiting"]
        /\ after' = [after EXCEPT ![i] =
                      IF OrderKey(r) = {} THEN 0 ELSE tails[CHOOSE k \in OrderKey(r) : TRUE]]
        /\ tails' = [k \in DOMAIN tails |-> IF k \in OrderKey(r) THEN i ELSE tails[k]]
        /\ UNCHANGED <<answer, got, loop, dying, ready, content, proc, killed, stdin>>
    BY <1>4 DEF ReadConcurrent, target
  <2>2. OrderKey(r) # {} => /\ (CHOOSE k \in OrderKey(r) : TRUE) = r.on
                            /\ r.on \in Keys \cup Procs
    BY KeyFacts
  <2>3. \A k \in Keys \cup Procs : tails[k] \in 0..MaxRequests /\ tails[k] < i
    <3>. TAKE k \in Keys \cup Procs
    <3>1. tails[k] # 0 => tails[k] \in Read
      BY DEF IInv, TypeOK, Tails, TailsAreLive
    <3>. QED
      BY <3>1, <1>2, <1>1 DEF TypeOK
  <2>4. /\ after' \in [Ids -> 0..MaxRequests] /\ \A j \in Ids : after'[j] < j
    <3>1. PICK a \in 0..MaxRequests : a < i /\ after' = [after EXCEPT ![i] = a]
      <4>1. CASE OrderKey(r) = {}
        <5>1. after' = [after EXCEPT ![i] = 0]
          BY <4>1, <2>1
        <5>2. 0 \in 0..MaxRequests /\ 0 < i
          BY <1>2, ServeAssumption
        <5>. QED
          BY <5>1, <5>2
      <4>2. CASE OrderKey(r) # {}
        BY <4>2, <2>1, <2>2, <2>3
      <4>. QED
        BY <4>1, <4>2
    <3>. QED
      BY <3>1, <1>1 DEF TypeOK
  <2>5. tails' \in [Keys \cup Procs -> 0..MaxRequests]
    BY <2>1, <1>1, <1>2 DEF TypeOK
  <2>6. pc' \in [Ids -> {"unread", "waiting", "running", "writing", "answered",
                         "releasing", "done"}]
    BY <2>1, <1>1 DEF TypeOK
  <2>. QED
    BY <1>1, <1>2, <2>1, <2>4, <2>5, <2>6 DEF TypeOK
<1>. QED
  BY <1>3, <1>4

LEMMA GoroutineTypes ==
  ASSUME IInv, NEW i \in Read, Goroutine(i)
  PROVE  TypeOK'
<1>1. TypeOK /\ i \in Ids /\ log[i] \in Requests
  BY ReadFacts DEF IInv
<1>2. UNCHANGED <<log, after, loop, dying>>
  BY DEF Goroutine, Proceed, Dispatch, Write, WriteTaken, WriteFails, Untail, Release
<1>3. pc' \in [Ids -> {"unread", "waiting", "running", "writing", "answered",
                       "releasing", "done"}]
  <2>1. \E to \in {"running", "writing", "answered", "releasing", "done"} :
          pc' = [pc EXCEPT ![i] = to]
    BY DEF Goroutine, Proceed, Dispatch, Write, WriteTaken, WriteFails, Untail, Release
  <2>. QED
    BY <1>1, <2>1 DEF TypeOK
<1>4. tails' \in [Keys \cup Procs -> 0..MaxRequests]
  <2>1. 0 \in 0..MaxRequests
    BY ServeAssumption
  <2>. QED
    BY <1>1, <2>1 DEF TypeOK, Goroutine, Proceed, Dispatch, Write, WriteTaken, WriteFails, Untail,
                      Release
<1>5. CASE Dispatch(i)
  <2>1. Handle(i, log[i])
    BY <1>5 DEF Dispatch
  <2>2. /\ answer' \in [Ids -> {"none", "ok", "refused", "invalid", "unknown",
                                "stdinClosed", "failed"}]
        /\ got' \in [Ids -> 0..MaxRequests] /\ content' \in [Keys -> 0..MaxRequests]
        /\ proc' \in [Procs -> {"none", "running", "exited"}]
        /\ killed' \in SUBSET Procs /\ ready' \in BOOLEAN /\ stdin' \in [Procs -> Seq(Ids)]
    BY <1>1, <2>1, HandleTypes
  <2>. QED
    BY <1>1, <1>2, <1>3, <1>4, <2>2 DEF TypeOK
<1>6. CASE WriteTaken(i)
  <2>1. log[i].op = "write"
    BY <1>6 DEF WriteTaken, IInv, Stages
  <2>2. /\ stdin' = [stdin EXCEPT ![log[i].on] = Append(@, i)]
        /\ answer' = [answer EXCEPT ![i] = "ok"]
        /\ UNCHANGED <<got, ready, content, proc, killed>>
    BY <1>6 DEF WriteTaken
  <2>3. log[i].on \in Procs
    BY <1>1, <2>1, RequestFacts
  <2>4. stdin' \in [Procs -> Seq(Ids)]
    BY <1>1, <2>2, <2>3 DEF TypeOK
  <2>. QED
    BY <1>1, <1>2, <1>3, <1>4, <2>2, <2>4 DEF TypeOK
<1>7. CASE Proceed(i) \/ Write(i) \/ WriteFails(i) \/ Untail(i) \/ Release(i)
  <2>1. /\ answer' = answer \/ answer' = [answer EXCEPT ![i] = "failed"]
        /\ UNCHANGED <<got, ready, content, proc, killed, stdin>>
    BY <1>7 DEF Proceed, Write, WriteFails, Untail, Release, target
  <2>. QED
    BY <1>1, <1>2, <1>3, <1>4, <2>1 DEF TypeOK
<1>. QED
  BY <1>5, <1>6, <1>7 DEF Goroutine

LEMMA OthersTypes ==
  ASSUME TypeOK,
         EndOfInput \/ Shutdown \/ (\E p \in Procs : Exit(p)) \/ UNCHANGED vars
  PROVE  TypeOK'
<1>1. CASE EndOfInput
  BY <1>1 DEF TypeOK, EndOfInput, target
<1>2. CASE Drained
  BY <1>2 DEF TypeOK, Drained, target
<1>3. CASE Return
  BY <1>3 DEF TypeOK, Return, target
<1>4. ASSUME NEW p \in Procs, KillLeft(p)
      PROVE  TypeOK'
  BY <1>4 DEF TypeOK, KillLeft, Stop
<1>5. ASSUME NEW p \in Procs, Exit(p)
      PROVE  TypeOK'
  BY <1>5 DEF TypeOK, Exit
<1>6. CASE UNCHANGED vars
  BY <1>6 DEF TypeOK, vars
<1>. QED
  BY <1>1, <1>2, <1>3, <1>4, <1>5, <1>6 DEF Shutdown
-----------------------------------------------------------------------------
(* A request that queues does so behind the last one of its key, if that one *)
(* has not been answered; otherwise everybody in front of it has.            *)
LEMMA ReadConcurrentSafe ==
  ASSUME IInv, NEW i \in Ids, NEW r \in Requests, ReadConcurrent(i, r)
  PROVE  IInv'
<1>0. Log(i, r) /\ TypeOK /\ DOMAIN tails = Keys \cup Procs
  BY DEF IInv, ReadConcurrent, TypeOK
<1>1. /\ Read' = Read \cup {i} /\ i \notin Read /\ \A j \in Read : j < i
      /\ Len(log') = i /\ i \in Nat /\ i > 0 /\ log'[i] = r
      /\ \A j \in Read : log'[j] = log[j] /\ j \in Ids /\ j \in Nat
  BY <1>0, LogGrows, ReadFacts
<1>2. /\ pc'[i] = "waiting" /\ \A j \in Read : pc'[j] = pc[j]
      /\ \A j \in Ids : j # i => pc'[j] = pc[j]
  BY <1>0, <1>1 DEF ReadConcurrent, TypeOK
<1>3. /\ after'[i] = IF OrderKey(r) = {} THEN 0 ELSE tails[CHOOSE k \in OrderKey(r) : TRUE]
      /\ \A j \in Read : after'[j] = after[j]
      /\ \A k \in Keys \cup Procs : tails'[k] = IF k \in OrderKey(r) THEN i ELSE tails[k]
      /\ DOMAIN tails' = Keys \cup Procs
  BY <1>0, <1>1 DEF ReadConcurrent, TypeOK
<1>4. UNCHANGED <<answer, got, loop, dying, ready, content, proc, killed, stdin>> /\ ~Synchronous(r)
  BY DEF ReadConcurrent, target
<1>5. answer[i] = "none"
  BY <1>1 DEF IInv, Stages
<1>6. /\ \A j \in Read, k \in Keys \cup Procs : Keyed(j, k)' <=> Keyed(j, k)
      /\ \A k : Keyed(i, k)' <=> k \in OrderKey(r)
      /\ \A k \in OrderKey(r) : k \in Keys \cup Procs /\ (CHOOSE x \in OrderKey(r) : TRUE) = k
  <2>1. \A k \in OrderKey(r) : k \in Keys \cup Procs /\ (CHOOSE x \in OrderKey(r) : TRUE) = k
    BY KeyFacts
  <2>. QED
    BY <2>1, <1>1 DEF Keyed, OrderKey
<1>7. \A j \in Read : Past(j)' <=> Past(j)
  BY <1>2 DEF Past
<1>8. Stages'
  <2>1. \A j \in Ids : pc'[j] = "unread" <=> j \notin Read'
    BY <1>1, <1>2 DEF IInv, Stages
  <2>2. \A j \in Ids :
          answer'[j] = "none" <=> pc'[j] \in {"unread", "waiting", "running", "writing"}
    BY <1>2, <1>4, <1>5 DEF IInv, Stages
  <2>3. \A j \in Read' : Synchronous(log'[j]) => pc'[j] = "done"
    BY <1>1, <1>2, <1>4 DEF IInv, Stages
  <2>4. \A j \in Read' : pc'[j] = "writing" => log'[j].op = "write"
    BY <1>1, <1>2 DEF IInv, Stages
  <2>. QED
    BY <2>1, <2>2, <2>3, <2>4 DEF Stages, Synchronous
<1>9. ASSUME NEW k \in Keys \cup Procs, tails[k] # 0
      PROVE  /\ tails[k] \in Read /\ Keyed(tails[k], k)
             /\ pc[tails[k]] \in {"waiting", "running", "writing", "answered"}
             /\ \A j \in Read : Keyed(j, k) => j <= tails[k]
  <2>1. /\ tails[k] \in Read /\ Keyed(tails[k], k)
        /\ pc[tails[k]] \in {"waiting", "running", "writing", "answered"}
        /\ \A j \in (tails[k] + 1)..Len(log) : k \notin OrderKey(log[j])
    BY <1>0, <1>9 DEF IInv, Tails, TailsAreLive, Keyed
  <2>2. ASSUME NEW j \in Read, Keyed(j, k), ~(j <= tails[k])
        PROVE  FALSE
    <3>1. j \in (tails[k] + 1)..Len(log)
      BY <2>1, <2>2, <1>1, ReadFacts, <1>0 DEF Read
    <3>. QED
      BY <3>1, <2>1, <2>2 DEF Keyed
  <2>. QED
    BY <2>1, <2>2
<1>10. Queues'
  <2>1. ASSUME NEW a \in Read', NEW b \in Read', NEW k \in Keys \cup Procs,
               b < a, Keyed(a, k)', Keyed(b, k)'
        PROVE  /\ pc'[a] # "waiting" => Past(b)'
               /\ pc'[a] = "waiting" /\ after'[a] = 0 => Past(b)'
               /\ pc'[a] = "waiting" /\ after'[a] # 0 => b <= after'[a]
    <3>1. b \in Read
      BY <2>1, <1>1
    <3>2. CASE a = i
      <4>1. k \in OrderKey(r) /\ after'[i] = tails[k]
        BY <2>1, <3>2, <1>3, <1>6
      <4>2. tails[k] = 0 => Past(b)
        BY <2>1, <3>1, <1>6 DEF IInv, Tails
      <4>3. tails[k] # 0 => b <= tails[k]
        BY <2>1, <3>1, <1>6, <1>9
      <4>. QED
        BY <3>1, <3>2, <4>1, <4>2, <4>3, <1>2, <1>7
    <3>3. CASE a \in Read
      BY <2>1, <3>1, <3>3, <1>2, <1>3, <1>6, <1>7 DEF IInv, Queues
    <3>. QED
      BY <3>2, <3>3, <1>1
  <2>2. ASSUME NEW a \in Read', NEW k \in Keys \cup Procs,
               pc'[a] = "waiting", Keyed(a, k)', after'[a] # 0
        PROVE  after'[a] \in Read' /\ after'[a] < a /\ k \in OrderKey(log'[after'[a]])
    <3>1. CASE a = i
      <4>1. k \in OrderKey(r) /\ after'[i] = tails[k]
        BY <2>2, <3>1, <1>3, <1>6
      <4>2. tails[k] \in Read /\ Keyed(tails[k], k)
        BY <2>2, <3>1, <4>1, <1>9
      <4>3. k \in OrderKey(log'[tails[k]]) /\ tails[k] < i
        BY <4>2, <1>1 DEF Keyed
      <4>. QED
        BY <3>1, <4>1, <4>2, <4>3, <1>1
    <3>2. CASE a \in Read
      <4>1. after[a] \in Read /\ after[a] < a /\ Keyed(after[a], k) /\ after'[a] = after[a]
        BY <2>2, <3>2, <1>2, <1>3, <1>6 DEF IInv, Queues
      <4>. QED
        BY <4>1, <1>1 DEF Keyed
    <3>. QED
      BY <3>1, <3>2, <1>1
  <2>. QED
    BY <2>1, <2>2 DEF Queues, Keyed
<1>11. Tails'
  <2>1. ASSUME NEW k \in Keys \cup Procs, tails'[k] = 0, NEW j \in Read', Keyed(j, k)'
        PROVE  Past(j)'
    <3>1. tails[k] = 0 /\ k \notin OrderKey(r)
      BY <2>1, <1>1, <1>3
    <3>2. j \in Read
      BY <2>1, <3>1, <1>1, <1>6
    <3>. QED
      BY <2>1, <3>1, <3>2, <1>6, <1>7 DEF IInv, Tails
  <2>2. ASSUME NEW k \in Keys \cup Procs, tails'[k] # 0
        PROVE  /\ tails'[k] \in Read' /\ k \in OrderKey(log'[tails'[k]])
               /\ pc'[tails'[k]] \in {"waiting", "running", "writing", "answered"}
               /\ \A j \in (tails'[k] + 1)..Len(log') : k \notin OrderKey(log'[j])
    <3>1. CASE k \in OrderKey(r)
      <4>1. tails'[k] = i /\ (i + 1)..Len(log') = {}
        BY <3>1, <1>1, <1>3
      <4>. QED
        BY <3>1, <4>1, <1>1, <1>2
    <3>2. CASE k \notin OrderKey(r)
      <4>1. tails'[k] = tails[k] /\ tails[k] # 0
        BY <3>2, <2>2, <1>3
      <4>2. /\ tails[k] \in Read /\ Keyed(tails[k], k)
            /\ pc[tails[k]] \in {"waiting", "running", "writing", "answered"}
        BY <4>1, <1>9
      <4>3. ASSUME NEW j \in (tails[k] + 1)..Len(log')
            PROVE  k \notin OrderKey(log'[j])
        <5>1. tails[k] \in Nat
          BY <4>2, <1>1
        <5>2. j = i \/ j \in (tails[k] + 1)..Len(log)
          BY <4>3, <5>1, <1>1, <1>0 DEF Log, TypeOK
        <5>3. CASE j = i
          BY <5>3, <3>2, <1>1
        <5>4. CASE j \in (tails[k] + 1)..Len(log)
          <6>1. j \in Read
            BY <5>1, <5>4, <1>0 DEF Read, TypeOK
          <6>2. k \notin OrderKey(log[j])
            BY <5>4, <4>1, <1>0 DEF IInv, Tails, TailsAreLive
          <6>. QED
            BY <6>1, <6>2, <1>1
        <5>. QED
          BY <5>2, <5>3, <5>4
      <4>. QED
        BY <4>1, <4>2, <4>3, <1>1, <1>2 DEF Keyed
    <3>. QED
      BY <3>1, <3>2
  <2>. QED
    BY <2>1, <2>2, <1>3 DEF Tails, TailsAreLive, OrderKey
<1>12. Effects'
  <2>1. r.op \notin {"init", "start"}
    BY <1>4 DEF Synchronous
  <2>2. \A p \in Procs : \A m \in 1..Len(stdin[p]) :
          /\ stdin[p][m] \in Read' /\ log'[stdin[p][m]] = [op |-> "write", on |-> p]
          /\ answer[stdin[p][m]] # "none"
    <3>. TAKE p \in Procs
    <3>. TAKE m \in 1..Len(stdin[p])
    <3>1. /\ stdin[p][m] \in Read /\ log[stdin[p][m]] = [op |-> "write", on |-> p]
          /\ answer[stdin[p][m]] # "none"
      BY DEF IInv, Effects
    <3>. QED
      BY <3>1, <1>1
  <2>3. \A k \in Keys : content[k] # 0 =>
          /\ content[k] \in Read' /\ log'[content[k]] = [op |-> "set", on |-> k]
          /\ answer[content[k]] = "ok"
    BY <1>1 DEF IInv, Effects
  <2>4. \A k \in Keys, j \in Read' :
          log'[j] = [op |-> "set", on |-> k] /\ answer[j] = "ok" => j <= content[k]
    BY <1>1, <1>5 DEF IInv, Effects
  <2>5. \A j \in Read' : log'[j].op = "init" => ready /\ answer[j] = "ok"
    BY <1>1, <2>1 DEF IInv, Effects
  <2>6. \A j \in Read' : log'[j].op = "start" /\ answer[j] = "ok" => proc[log'[j].on] # "none"
    BY <1>1, <2>1 DEF IInv, Effects
  <2>. QED
    BY <1>4, <2>2, <2>3, <2>4, <2>5, <2>6 DEF Effects
<1>13. WireOrderIsKept'
  <2>1. ASSUME NEW g \in Read', log'[g].op = "get", answer'[g] = "ok"
        PROVE  /\ got'[g] \in SetsBefore(g)' \cup {0}
               /\ \A j \in SetsBefore(g)' : j <= got'[g]
    <3>1. g \in Read /\ log[g].op = "get" /\ answer[g] = "ok" /\ got'[g] = got[g]
      BY <2>1, <1>1, <1>4, <1>5
    <3>2. \A j \in 1..(g - 1) : j \in Read
      BY <3>1, <1>0 DEF Read, TypeOK
    <3>3. SetsBefore(g)' = SetsBefore(g)
      BY <3>1, <3>2, <1>1, <1>4 DEF SetsBefore
    <3>. QED
      BY <3>1, <3>3 DEF IInv, WireOrderIsKept, GetSeesWireOrder
  <2>2. StdinInWireOrder'
    BY <1>4 DEF IInv, WireOrderIsKept, StdinInWireOrder
  <2>3. ASSUME NEW a \in Read', NEW b \in Read', a < b, answer'[a] \in {"none", "ok"}
        PROVE  /\ log'[a].op = "init" => answer'[b] # "refused"
               /\ log'[a].op = "start" /\ answer'[a] = "ok" /\ log'[b].on = log'[a].on
                    => answer'[b] # "unknown"
    <3>1. a \in Read
      BY <2>3, <1>1
    <3>2. CASE b = i
      BY <3>2, <1>4, <1>5
    <3>3. CASE b \in Read
      BY <2>3, <3>1, <3>3, <1>1, <1>4 DEF IInv, WireOrderIsKept, StartIsSeen
    <3>. QED
      BY <3>2, <3>3, <1>1
  <2>. QED
    BY <2>1, <2>2, <2>3 DEF WireOrderIsKept, GetSeesWireOrder, StartIsSeen
<1>14. TypeOK'
  BY ReadTypes
<1>. QED
  BY <1>8, <1>10, <1>11, <1>12, <1>13, <1>14 DEF IInv
(* initialize and process/start queue for nothing, and are answered before   *)
(* anything behind them is read.                                             *)
LEMMA ReadSynchronousSafe ==
  ASSUME IInv, NEW i \in Ids, NEW r \in Requests, ReadSynchronous(i, r)
  PROVE  IInv'
<1>0. Log(i, r) /\ TypeOK /\ DOMAIN tails = Keys \cup Procs
  BY DEF IInv, ReadSynchronous, TypeOK
<1>1. /\ Read' = Read \cup {i} /\ i \notin Read /\ \A j \in Read : j < i
      /\ Len(log') = i /\ i \in Nat /\ i > 0 /\ log'[i] = r
      /\ \A j \in Read : log'[j] = log[j] /\ j \in Ids /\ j \in Nat
  BY <1>0, LogGrows, ReadFacts
<1>2. /\ pc'[i] = "done" /\ \A j \in Ids : j # i => pc'[j] = pc[j]
      /\ UNCHANGED <<after, tails>>
  BY <1>0, <1>1 DEF ReadSynchronous, TypeOK
<1>3. r.op \in {"init", "start"} /\ \A k : k \notin OrderKey(r)
  BY KeyFacts DEF ReadSynchronous
<1>4. /\ UNCHANGED <<got, content, stdin>> /\ answer'[i] # "none"
      /\ \A j \in Ids : j # i => answer'[j] = answer[j]
      /\ ready => ready'
      /\ \A p \in Procs : proc[p] # "none" => proc'[p] # "none"
  <2>1. Handle(i, r)
    BY DEF ReadSynchronous
  <2>2. UNCHANGED <<got, content, stdin>>
    BY <2>1, <1>3 DEF Handle, target
  <2>3. answer'[i] # "none" /\ \A j \in Ids : j # i => answer'[j] = answer[j]
    BY <2>1, <1>0, <1>3 DEF Handle, Start, TypeOK
  <2>4. ready => ready'
    BY <2>1, <1>3 DEF Handle
  <2>5. \A p \in Procs : proc[p] # "none" => proc'[p] # "none"
    BY <2>1, <1>0, <1>3 DEF Handle, Start, TypeOK, target
  <2>. QED
    BY <2>2, <2>3, <2>4, <2>5
<1>5. /\ r.op = "init" => ready' /\ answer'[i] = "ok"
      /\ r.op = "start" /\ answer'[i] = "ok" => proc'[r.on] # "none"
      /\ answer'[i] = "refused" => ~ready
      /\ answer'[i] # "unknown"
  <2>1. Handle(i, r) /\ (r.op = "start" => r.on \in Procs)
    BY RequestFacts DEF ReadSynchronous
  <2>2. CASE r.op = "init"
    BY <2>1, <2>2, <1>0 DEF Handle, TypeOK
  <2>3. CASE r.op = "start" /\ ~ready
    BY <2>1, <2>3, <1>0 DEF Handle, TypeOK
  <2>4. CASE r.op = "start" /\ ready
    <3>1. Start(i, r.on)
      BY <2>1, <2>4 DEF Handle
    <3>. QED
      BY <2>1, <2>4, <3>1, <1>0 DEF Start, TypeOK
  <2>. QED
    BY <1>3, <2>2, <2>3, <2>4
<1>6. /\ \A j \in Read, k \in Keys \cup Procs : Keyed(j, k)' <=> Keyed(j, k)
      /\ \A k : ~Keyed(i, k)'
      /\ \A j \in Read : pc'[j] = pc[j] /\ answer'[j] = answer[j]
  BY <1>1, <1>2, <1>3, <1>4 DEF Keyed, OrderKey
<1>7. \A j \in Read : Past(j)' <=> Past(j)
  BY <1>6 DEF Past
<1>8. Stages'
  <2>1. \A j \in Ids : pc'[j] = "unread" <=> j \notin Read'
    BY <1>1, <1>2 DEF IInv, Stages
  <2>2. \A j \in Ids :
          answer'[j] = "none" <=> pc'[j] \in {"unread", "waiting", "running", "writing"}
    BY <1>2, <1>4 DEF IInv, Stages
  <2>3. \A j \in Read' : Synchronous(log'[j]) => pc'[j] = "done"
    BY <1>1, <1>2, <1>6 DEF IInv, Stages
  <2>4. \A j \in Read' : pc'[j] = "writing" => log'[j].op = "write"
    BY <1>1, <1>2, <1>6 DEF IInv, Stages
  <2>. QED
    BY <2>1, <2>2, <2>3, <2>4 DEF Stages, Synchronous
<1>9. Queues'
  <2>1. ASSUME NEW a \in Read', NEW b \in Read', NEW k \in Keys \cup Procs,
               b < a, Keyed(a, k)', Keyed(b, k)'
        PROVE  /\ pc'[a] # "waiting" => Past(b)'
               /\ pc'[a] = "waiting" /\ after'[a] = 0 => Past(b)'
               /\ pc'[a] = "waiting" /\ after'[a] # 0 => b <= after'[a]
    <3>1. a \in Read /\ b \in Read /\ Keyed(a, k) /\ Keyed(b, k)
      BY <2>1, <1>1, <1>6
    <3>. QED
      BY <2>1, <3>1, <1>2, <1>6, <1>7 DEF IInv, Queues
  <2>2. ASSUME NEW a \in Read', NEW k \in Keys \cup Procs,
               pc'[a] = "waiting", Keyed(a, k)', after'[a] # 0
        PROVE  after'[a] \in Read' /\ after'[a] < a /\ k \in OrderKey(log'[after'[a]])
    <3>1. a \in Read /\ Keyed(a, k)
      BY <2>2, <1>1, <1>6
    <3>2. after[a] \in Read /\ after[a] < a /\ Keyed(after[a], k)
      BY <2>2, <3>1, <1>2, <1>6 DEF IInv, Queues
    <3>. QED
      BY <3>1, <3>2, <1>1, <1>2 DEF Keyed
  <2>. QED
    BY <2>1, <2>2 DEF Queues, Keyed
<1>10. Tails'
  <2>1. ASSUME NEW k \in Keys \cup Procs, tails[k] = 0, NEW j \in Read', Keyed(j, k)'
        PROVE  Past(j)'
    BY <2>1, <1>1, <1>6, <1>7 DEF IInv, Tails
  <2>2. ASSUME NEW k \in Keys \cup Procs, tails[k] # 0
        PROVE  /\ tails[k] \in Read' /\ k \in OrderKey(log'[tails[k]])
               /\ pc'[tails[k]] \in {"waiting", "running", "writing", "answered"}
               /\ \A j \in (tails[k] + 1)..Len(log') : k \notin OrderKey(log'[j])
    <3>1. /\ tails[k] \in Read /\ k \in OrderKey(log[tails[k]])
          /\ pc[tails[k]] \in {"waiting", "running", "writing", "answered"}
          /\ \A j \in (tails[k] + 1)..Len(log) : k \notin OrderKey(log[j])
      BY <2>2, <1>0 DEF IInv, Tails, TailsAreLive
    <3>2. ASSUME NEW j \in (tails[k] + 1)..Len(log')
          PROVE  k \notin OrderKey(log'[j])
      <4>1. j = i \/ (j \in (tails[k] + 1)..Len(log) /\ j \in Read)
        BY <3>1, <3>2, <1>1, <1>0 DEF Log, TypeOK, Read
      <4>. QED
        BY <4>1, <3>1, <1>1, <1>3
    <3>. QED
      BY <3>1, <3>2, <1>1, <1>6
  <2>. QED
    BY <2>1, <2>2, <1>0, <1>2 DEF Tails, TailsAreLive
<1>11. Effects'
  <2>1. \A j \in Read' : log'[j].op = "init" => ready' /\ answer'[j] = "ok"
    BY <1>1, <1>4, <1>5, <1>6 DEF IInv, Effects
  <2>2. \A j \in Read' : log'[j].op = "start" /\ answer'[j] = "ok" => proc'[log'[j].on] # "none"
    <3>. TAKE j \in Read'
    <3>1. CASE j = i
      BY <3>1, <1>1, <1>5
    <3>2. CASE j \in Read
      <4>1. log[j].op = "start" => log[j].on \in Procs
        BY <3>2, <1>0, ReadFacts, RequestFacts
      <4>. QED
        BY <4>1, <3>2, <1>1, <1>4, <1>6 DEF IInv, Effects
    <3>. QED
      BY <3>1, <3>2, <1>1
  <2>3. \A k \in Keys : content[k] # 0 =>
          /\ content[k] \in Read' /\ log'[content[k]] = [op |-> "set", on |-> k]
          /\ answer'[content[k]] = "ok"
    BY <1>1, <1>6 DEF IInv, Effects
  <2>4. \A k \in Keys, j \in Read' :
          log'[j] = [op |-> "set", on |-> k] /\ answer'[j] = "ok" => j <= content[k]
    <3>. TAKE k \in Keys, j \in Read'
    <3>1. CASE j = i
      BY <3>1, <1>1, <1>3
    <3>2. CASE j \in Read
      BY <3>2, <1>1, <1>6 DEF IInv, Effects
    <3>. QED
      BY <3>1, <3>2, <1>1
  <2>5. \A p \in Procs : \A m \in 1..Len(stdin[p]) :
          /\ stdin[p][m] \in Read' /\ log'[stdin[p][m]] = [op |-> "write", on |-> p]
          /\ answer'[stdin[p][m]] # "none"
    <3>. TAKE p \in Procs
    <3>. TAKE m \in 1..Len(stdin[p])
    <3>1. /\ stdin[p][m] \in Read /\ log[stdin[p][m]] = [op |-> "write", on |-> p]
          /\ answer[stdin[p][m]] # "none"
      BY DEF IInv, Effects
    <3>. QED
      BY <3>1, <1>1, <1>6
  <2>. QED
    BY <1>4, <2>1, <2>2, <2>3, <2>4, <2>5 DEF Effects
<1>12. WireOrderIsKept'
  <2>1. ASSUME NEW g \in Read', log'[g].op = "get", answer'[g] = "ok"
        PROVE  /\ got'[g] \in SetsBefore(g)' \cup {0}
               /\ \A j \in SetsBefore(g)' : j <= got'[g]
    <3>1. g \in Read /\ log[g].op = "get" /\ answer[g] = "ok" /\ got'[g] = got[g]
      BY <2>1, <1>1, <1>3, <1>4, <1>6
    <3>2. \A j \in 1..(g - 1) : j \in Read
      BY <3>1, <1>0 DEF Read, TypeOK
    <3>3. SetsBefore(g)' = SetsBefore(g)
      BY <3>1, <3>2, <1>1, <1>6 DEF SetsBefore
    <3>. QED
      BY <3>1, <3>3 DEF IInv, WireOrderIsKept, GetSeesWireOrder
  <2>2. StdinInWireOrder'
    BY <1>4 DEF IInv, WireOrderIsKept, StdinInWireOrder
  <2>3. ASSUME NEW a \in Read', NEW b \in Read', a < b, answer'[a] \in {"none", "ok"}
        PROVE  /\ log'[a].op = "init" => answer'[b] # "refused"
               /\ log'[a].op = "start" /\ answer'[a] = "ok" /\ log'[b].on = log'[a].on
                    => answer'[b] # "unknown"
    <3>1. a \in Read
      BY <2>3, <1>1
    <3>2. CASE b = i
      BY <3>1, <3>2, <1>1, <1>5 DEF IInv, Effects
    <3>3. CASE b \in Read
      BY <2>3, <3>1, <3>3, <1>1, <1>6 DEF IInv, WireOrderIsKept, StartIsSeen
    <3>. QED
      BY <3>2, <3>3, <1>1
  <2>. QED
    BY <2>1, <2>2, <2>3 DEF WireOrderIsKept, GetSeesWireOrder, StartIsSeen
<1>13. TypeOK'
  BY ReadTypes
<1>. QED
  BY <1>8, <1>9, <1>10, <1>11, <1>12, <1>13 DEF IInv

-----------------------------------------------------------------------------
(* A request leaves the queue when the one in front of it is done: by Queues *)
(* everybody in front of that one is past as well, for it does not wait.     *)
LEMMA ProceedSafe ==
  ASSUME IInv, NEW i \in Read, Proceed(i)
  PROVE  IInv'
<1>1. /\ pc[i] = "waiting" /\ (after[i] # 0 => pc[after[i]] = "done")
      /\ pc' = [pc EXCEPT ![i] = "running"]
      /\ UNCHANGED <<log, answer, got, after, tails, ready, content, proc, stdin>>
  BY DEF Proceed, target
<1>2. i \in Ids /\ i \in Nat /\ \A j \in Read : j \in Nat
  BY ReadFacts DEF IInv
<1>3. TypeOK'
  BY GoroutineTypes DEF Goroutine
<1>4. answer[i] = "none"
  BY <1>1, <1>2 DEF IInv, Stages
<1>5. Stages'
  BY <1>1, <1>4, StagesKeep
<1>6. ASSUME NEW j \in Read, NEW k \in Keys \cup Procs, j < i, Keyed(i, k), Keyed(j, k)
      PROVE  Past(j)
  <2>1. CASE after[i] = 0
    BY <1>1, <1>6, <2>1 DEF IInv, Queues
  <2>2. CASE after[i] # 0
    <3>1. after[i] \in Read /\ Keyed(after[i], k) /\ j <= after[i] /\ pc[after[i]] = "done"
      BY <1>1, <1>6, <2>2 DEF IInv, Queues
    <3>2. CASE j = after[i]
      BY <3>1, <3>2 DEF Past
    <3>3. CASE j < after[i]
      BY <1>6, <3>1, <3>3 DEF IInv, Queues
    <3>4. j \in Nat /\ after[i] \in Nat
      BY <3>1, <1>2
    <3>5. j = after[i] \/ j < after[i]
      BY <3>1, <3>4
    <3>. QED
      BY <3>2, <3>3, <3>5
  <2>. QED
    BY <2>1, <2>2
<1>7. Queues'
  BY <1>1, <1>6, QueuesKeep DEF Past
<1>8. Tails'
  BY <1>1, TailsKeep DEF Past
<1>9. Effects' /\ WireOrderIsKept'
  BY <1>1, EffectsStay
<1>. QED
  BY <1>3, <1>5, <1>7, <1>8, <1>9 DEF IInv

LEMMA WriteSafe ==
  ASSUME IInv, NEW i \in Read, Write(i)
  PROVE  IInv'
<1>1. /\ pc[i] = "running" /\ log[i].op = "write"
      /\ pc' = [pc EXCEPT ![i] = "writing"]
      /\ UNCHANGED <<log, answer, got, after, tails, ready, content, proc, stdin>>
  BY DEF Write, target
<1>2. i \in Ids /\ answer[i] = "none"
  BY <1>1, ReadFacts DEF IInv, Stages
<1>3. TypeOK'
  BY GoroutineTypes DEF Goroutine
<1>4. Stages'
  BY <1>1, <1>2, StagesKeep
<1>5. \A j \in Read, k \in Keys \cup Procs : j < i /\ Keyed(i, k) /\ Keyed(j, k) => Past(j)
  BY <1>1 DEF IInv, Queues
<1>6. Queues'
  BY <1>1, <1>5, QueuesKeep DEF Past
<1>7. Tails'
  BY <1>1, TailsKeep DEF Past
<1>8. Effects' /\ WireOrderIsKept'
  BY <1>1, EffectsStay
<1>. QED
  BY <1>3, <1>4, <1>6, <1>7, <1>8 DEF IInv

(* Every answer but that of a synchronous request.                           *)
LEMMA AnsweredSafe ==
  ASSUME IInv, NEW i \in Read, Goroutine(i), pc[i] \in {"running", "writing"},
         NEW a \in {"ok", "refused", "unknown", "stdinClosed", "failed"},
         answer' = [answer EXCEPT ![i] = a], pc' = [pc EXCEPT ![i] = "answered"],
         UNCHANGED <<log, after, tails, ready, proc>>,
         a = "refused" => ~ready,
         a = "unknown" => proc[log[i].on] = "none",
         content' = IF log[i].op = "set" /\ a = "ok"
                    THEN [content EXCEPT ![log[i].on] = i] ELSE content,
         got' = IF log[i].op = "get" /\ a = "ok"
                THEN [got EXCEPT ![i] = content[log[i].on]] ELSE got,
         stdin' = IF log[i].op = "write" /\ a = "ok"
                  THEN [stdin EXCEPT ![log[i].on] = Append(@, i)] ELSE stdin
  PROVE  IInv'
<1>1. /\ i \in Ids /\ answer'[i] # "none" /\ \A j \in Ids : j # i => answer'[j] = answer[j]
  BY ReadFacts DEF IInv, TypeOK
<1>2. TypeOK'
  BY GoroutineTypes
<1>3. Stages'
  BY <1>1, StagesKeep
<1>4. \A j \in Read, k \in Keys \cup Procs : j < i /\ Keyed(i, k) /\ Keyed(j, k) => Past(j)
  BY DEF IInv, Queues
<1>5. Queues'
  BY <1>4, QueuesKeep DEF Past
<1>6. Tails'
  BY TailsKeep DEF Past
<1>7. Effects' /\ WireOrderIsKept'
  BY AnswerFits
<1>. QED
  BY <1>2, <1>3, <1>5, <1>6, <1>7 DEF IInv

LEMMA DispatchSafe ==
  ASSUME IInv, NEW i \in Read, Dispatch(i)
  PROVE  IInv'
<1>. DEFINE r == log[i]
<1>1. /\ Goroutine(i) /\ pc[i] = "running" /\ Handle(i, r) /\ pc' = [pc EXCEPT ![i] = "answered"]
      /\ UNCHANGED <<log, after, tails>>
  BY DEF Goroutine, Dispatch
<1>2. i \in Ids /\ r \in Requests /\ r.op \notin {"init", "start"}
  BY <1>1, ReadFacts DEF IInv, Stages, Synchronous
<1>3. CASE ~ready
  <2>1. answer' = [answer EXCEPT ![i] = "refused"] /\ UNCHANGED <<got, ready, content, proc, stdin>>
    BY <1>1, <1>2, <1>3 DEF Handle, target
  <2>. QED
    BY <1>1, <1>3, <2>1, AnsweredSafe
<1>4. CASE ready /\ r.op \in {"set", "get", "stop"}
  <2>1. /\ answer' = [answer EXCEPT ![i] = "ok"] /\ UNCHANGED <<ready, proc, stdin>>
        /\ content' = IF r.op = "set" THEN [content EXCEPT ![r.on] = i] ELSE content
        /\ got' = IF r.op = "get" THEN [got EXCEPT ![i] = content[r.on]] ELSE got
    BY <1>1, <1>4 DEF Handle, target
  <2>. QED
    BY <1>1, <1>4, <2>1, AnsweredSafe
<1>5. CASE ready /\ r.op = "poll"
  <2>. DEFINE a == IF proc[r.on] = "none" THEN "unknown" ELSE "ok"
  <2>1. answer' = [answer EXCEPT ![i] = a] /\ UNCHANGED <<got, ready, content, proc, stdin>>
    BY <1>1, <1>5 DEF Handle, target
  <2>2. a \in {"ok", "refused", "unknown", "stdinClosed", "failed"} /\ a # "refused"
    OBVIOUS
  <2>3. a = "unknown" => proc[r.on] = "none"
    OBVIOUS
  <2>. HIDE DEF a
  <2>. QED
    BY <1>1, <1>5, <2>1, <2>2, <2>3, AnsweredSafe
<1>6. CASE ready /\ r.op = "write"
  <2>. DEFINE a == IF proc[r.on] = "none" THEN "unknown" ELSE "stdinClosed"
  <2>1. answer' = [answer EXCEPT ![i] = a] /\ UNCHANGED <<got, ready, content, proc, stdin>>
    BY <1>1, <1>6 DEF Handle, target
  <2>2. a \in {"ok", "refused", "unknown", "stdinClosed", "failed"} /\ a \notin {"refused", "ok"}
    OBVIOUS
  <2>3. a = "unknown" => proc[r.on] = "none"
    OBVIOUS
  <2>. HIDE DEF a
  <2>. QED
    BY <1>1, <1>6, <2>1, <2>2, <2>3, AnsweredSafe
<1>. QED
  BY <1>2, <1>3, <1>4, <1>5, <1>6, RequestFacts DEF IInv, TypeOK

LEMMA WriteTakenSafe ==
  ASSUME IInv, NEW i \in Read, WriteTaken(i)
  PROVE  IInv'
<1>1. /\ Goroutine(i) /\ pc[i] = "writing" /\ pc' = [pc EXCEPT ![i] = "answered"]
      /\ answer' = [answer EXCEPT ![i] = "ok"]
      /\ stdin' = [stdin EXCEPT ![log[i].on] = Append(@, i)]
      /\ UNCHANGED <<log, got, after, tails, ready, content, proc>>
  BY DEF Goroutine, WriteTaken
<1>2. log[i].op = "write"
  BY <1>1 DEF IInv, Stages
<1>. QED
  BY <1>1, <1>2, AnsweredSafe

LEMMA WriteFailsSafe ==
  ASSUME IInv, NEW i \in Read, WriteFails(i)
  PROVE  IInv'
<1>1. /\ Goroutine(i) /\ pc[i] = "writing" /\ pc' = [pc EXCEPT ![i] = "answered"]
      /\ answer' = [answer EXCEPT ![i] = "failed"]
      /\ UNCHANGED <<log, got, after, tails, ready, content, proc, stdin>>
  BY DEF Goroutine, WriteFails, target
<1>2. log[i].op = "write"
  BY <1>1 DEF IInv, Stages
<1>. QED
  BY <1>1, <1>2, AnsweredSafe

(* The key of an answered request is forgotten only if nobody queued behind  *)
(* it: whoever is in front of it is past, so that nobody is left.            *)
LEMMA UntailSafe ==
  ASSUME IInv, NEW i \in Read, Untail(i)
  PROVE  IInv'
<1>1. /\ pc[i] = "answered" /\ pc' = [pc EXCEPT ![i] = "releasing"]
      /\ tails' = [k \in DOMAIN tails |-> IF tails[k] = i THEN 0 ELSE tails[k]]
      /\ UNCHANGED <<log, answer, got, after, ready, content, proc, stdin>>
  BY DEF Untail, target
<1>2. /\ i \in Ids /\ i \in Nat /\ i > 0 /\ answer[i] # "none" /\ DOMAIN tails = Keys \cup Procs
      /\ Len(log) \in Nat /\ \A j \in Read : j \in Nat /\ j \in Ids
  BY <1>1, ReadFacts DEF IInv, Stages, TypeOK
<1>3. TypeOK'
  BY GoroutineTypes DEF Goroutine
<1>4. Stages'
  BY <1>1, <1>2, StagesKeep
<1>5. \A j \in Read, k \in Keys \cup Procs : j < i /\ Keyed(i, k) /\ Keyed(j, k) => Past(j)
  BY <1>1 DEF IInv, Queues
<1>6. Queues'
  BY <1>1, <1>5, QueuesKeep DEF Past
<1>7. /\ pc'[i] = "releasing" /\ Read' = Read /\ \A j \in Read : j # i => pc'[j] = pc[j]
      /\ \A j \in Read, k \in Keys \cup Procs : Keyed(j, k)' <=> Keyed(j, k)
      /\ \A k \in Keys \cup Procs : tails'[k] = IF tails[k] = i THEN 0 ELSE tails[k]
      /\ DOMAIN tails' = Keys \cup Procs
  BY <1>1, <1>2 DEF IInv, TypeOK, Read, Keyed, OrderKey
<1>8. \A j \in Read : Past(j) => Past(j)'
  BY <1>7 DEF Past
<1>9. ASSUME NEW k \in Keys \cup Procs, tails'[k] = 0, NEW j \in Read, Keyed(j, k)
      PROVE  Past(j)'
  <2>1. CASE tails[k] = 0
    BY <1>8, <1>9, <2>1 DEF IInv, Tails
  <2>2. CASE tails[k] = i
    <3>1. Keyed(i, k) /\ \A q \in (i + 1)..Len(log) : k \notin OrderKey(log[q])
      BY <2>2, <1>2 DEF IInv, Tails, TailsAreLive, Keyed
    <3>2. j <= i
      BY <3>1, <1>2, <1>9 DEF Read, Keyed
    <3>3. CASE j = i
      BY <3>3, <1>7 DEF Past
    <3>4. CASE j < i
      BY <3>1, <3>4, <1>5, <1>8, <1>9
    <3>. QED
      BY <3>2, <3>3, <3>4, <1>2
  <2>. QED
    BY <2>1, <2>2, <1>7, <1>9
<1>10. ASSUME NEW k \in Keys \cup Procs, tails'[k] # 0
       PROVE  /\ tails'[k] \in Read /\ k \in OrderKey(log[tails'[k]])
              /\ pc'[tails'[k]] \in {"waiting", "running", "writing", "answered"}
              /\ \A j \in (tails'[k] + 1)..Len(log) : k \notin OrderKey(log[j])
  <2>1. tails'[k] = tails[k] /\ tails[k] # i /\ tails[k] # 0
    BY <1>7, <1>10
  <2>2. /\ tails[k] \in Read /\ k \in OrderKey(log[tails[k]])
        /\ pc[tails[k]] \in {"waiting", "running", "writing", "answered"}
        /\ \A j \in (tails[k] + 1)..Len(log) : k \notin OrderKey(log[j])
    BY <2>1, <1>2 DEF IInv, Tails, TailsAreLive
  <2>. QED
    BY <2>1, <2>2, <1>7
<1>11. Tails'
  <2>1. TailsAreLive'
    <3>. SUFFICES ASSUME NEW k \in Keys \cup Procs, tails'[k] # 0
                  PROVE  /\ tails'[k] \in Read /\ k \in OrderKey(log[tails'[k]])
                         /\ pc'[tails'[k]] \in {"waiting", "running", "writing", "answered"}
                         /\ \A j \in (tails'[k] + 1)..Len(log) : k \notin OrderKey(log[j])
      <4>1. log' = log
        BY <1>1
      <4>. QED
        BY <4>1, <1>7 DEF TailsAreLive, OrderKey
    <3>. QED
      BY <1>10
  <2>2. \A k \in Keys \cup Procs : tails'[k] = 0 => \A j \in Read' : Keyed(j, k)' => Past(j)'
    BY <1>7, <1>9
  <2>. QED
    BY <2>1, <2>2 DEF Tails
<1>12. Effects' /\ WireOrderIsKept'
  BY <1>1, EffectsStay
<1>. QED
  BY <1>3, <1>4, <1>6, <1>11, <1>12 DEF IInv

LEMMA ReleaseSafe ==
  ASSUME IInv, NEW i \in Read, Release(i)
  PROVE  IInv'
<1>1. /\ pc[i] = "releasing" /\ pc' = [pc EXCEPT ![i] = "done"]
      /\ UNCHANGED <<log, answer, got, after, tails, ready, content, proc, stdin>>
  BY DEF Release, target
<1>2. i \in Ids /\ answer[i] # "none"
  BY <1>1, ReadFacts DEF IInv, Stages
<1>3. TypeOK'
  BY GoroutineTypes DEF Goroutine
<1>4. Stages'
  BY <1>1, <1>2, StagesKeep
<1>5. \A j \in Read, k \in Keys \cup Procs : j < i /\ Keyed(i, k) /\ Keyed(j, k) => Past(j)
  BY <1>1 DEF IInv, Queues
<1>6. Queues'
  BY <1>1, <1>5, QueuesKeep
<1>7. \A k \in Keys \cup Procs : tails[k] # i
  <2>1. i # 0 /\ DOMAIN tails = Keys \cup Procs
    BY <1>2, ReadFacts DEF IInv, TypeOK
  <2>. QED
    BY <1>1, <2>1 DEF IInv, Tails, TailsAreLive
<1>8. Tails'
  BY <1>1, <1>7, TailsKeep
<1>9. Effects' /\ WireOrderIsKept'
  BY <1>1, EffectsStay
<1>. QED
  BY <1>3, <1>4, <1>6, <1>8, <1>9 DEF IInv

(* Serve's end, and the processes', touch no request.                        *)
LEMMA OthersSafe ==
  ASSUME IInv,
         EndOfInput \/ Shutdown \/ (\E p \in Procs : Exit(p)) \/ UNCHANGED vars
  PROVE  IInv'
<1>1. UNCHANGED <<log, pc, answer, got, after, tails, ready, content, stdin>>
  BY DEF EndOfInput, Shutdown, Drained, KillLeft, Return, Exit, vars, target
<1>2. \A p \in Procs : proc[p] # "none" => proc'[p] # "none"
  BY DEF EndOfInput, Shutdown, Drained, KillLeft, Return, Exit, vars, target, IInv, TypeOK
<1>3. TypeOK'
  BY OthersTypes DEF IInv
<1>4. Effects' /\ WireOrderIsKept'
  BY <1>1, <1>2, EffectsStay
<1>5. Stages' /\ Queues' /\ Tails'
  BY <1>1 DEF IInv, Stages, Queues, Tails, TailsAreLive, Read, Past, Keyed
<1>. QED
  BY <1>3, <1>4, <1>5 DEF IInv

LEMMA NextSafe == IInv /\ [Next]_vars => IInv'
<1>. SUFFICES ASSUME IInv, [Next]_vars PROVE IInv'
  OBVIOUS
<1>1. ASSUME NEW i \in Ids, NEW r \in Requests, ReadSynchronous(i, r) \/ ReadConcurrent(i, r)
      PROVE  IInv'
  BY <1>1, ReadSynchronousSafe, ReadConcurrentSafe
<1>2. ASSUME NEW i \in Read, Goroutine(i)
      PROVE  IInv'
  BY <1>2, ProceedSafe, DispatchSafe, WriteSafe, WriteTakenSafe, WriteFailsSafe, UntailSafe,
     ReleaseSafe DEF Goroutine
<1>3. CASE EndOfInput \/ Shutdown \/ (\E p \in Procs : Exit(p)) \/ UNCHANGED vars
  BY <1>3, OthersSafe
<1>. QED
  BY <1>1, <1>2, <1>3 DEF Next, Rest

-----------------------------------------------------------------------------
(* What a request may find is settled: the invariant holds in every state.   *)
THEOREM Invariant == Spec => []IInv
<1>1. Init => IInv
  BY InitHolds
<1>2. IInv /\ [Next]_vars => IInv'
  BY NextSafe
<1>. QED
  BY <1>1, <1>2, PTL DEF Spec

(* The variables of the request loop keep their types; in particular no      *)
(* request waits for itself or for one behind it (order.go).                 *)
THEOREM TypeCorrect == Spec => []TypeOK
<1>1. IInv => TypeOK
  BY DEF IInv
<1>. QED
  BY <1>1, Invariant, PTL

(* Whatever runs concurrently, a get sees the last set in front of it on the *)
(* wire, a process is given its input in wire order, and nothing sent after  *)
(* a start or the handshake is answered as if it had come first (Serve).     *)
THEOREM ServesInWireOrder == Spec => []WireOrderIsKept
<1>1. IInv => WireOrderIsKept
  BY DEF IInv
<1>. QED
  BY <1>1, Invariant, PTL

(* The sequencer's map holds only requests that are not yet answered, each   *)
(* the last one of its key (done, order.go).                                 *)
THEOREM TailsLive == Spec => []TailsAreLive
<1>1. IInv => TailsAreLive
  BY DEF IInv, Tails
<1>. QED
  BY <1>1, Invariant, PTL

-----------------------------------------------------------------------------
(***************************************************************************)
(* The output of a process, for any number of readers and writes, and for  *)
(* any sizes of the writes, the buffer and the pages.                      *)
(***************************************************************************)

\* The numbers that the end of the process has taken.
Ends == IF runner = "exited" THEN 1 ELSE IF runner = "closed" THEN 2 ELSE 0

\* Chunks are numbered from 1, without a gap in the numbers or in the bytes, and
\* the end of the process is numbered after them.
Numbered ==
    /\ nextSeq = Len(made) + 1 + Ends
    /\ Len(made) <= MaxChunks
    /\ \A i \in 1..Len(made) : made[i].seq = i /\ made[i].from < made[i].upto
    /\ \A i \in 1..(Len(made) - 1) : made[i + 1].from = made[i].upto

\* What the buffer has lost.
Lost == Len(made) - Len(chunks)

\* The buffer is an end of all output, as long as the cap allows.
Retains ==
    /\ Lost \in Nat
    /\ \A n \in 1..Len(chunks) : chunks[n] = made[Lost + n]
    /\ Len(made) > 0 => Len(chunks) > 0
    /\ Len(chunks) > 1 => made[Len(made)].upto - made[Lost + 1].from <= Retain
    /\ Lost > 0 => made[Len(made)].upto - made[Lost].from > Retain

\* The process ends once, after both streams, and reach knows whether it did that.
Ending ==
    /\ pump # Streams => cause # "none"
    /\ runner # "copying" => pump = {} /\ pending["stderr"] = 0
    /\ runner \in {"exited", "closed"} => pending["stdout"] = 0
    /\ closed <=> runner = "closed"
    /\ outcome = "no" <=> runner \in {"copying", "flushed"}
    /\ cause = "killed" \/ killer \in {"marked", "killed"} => terminated
    /\ cause = "killed" => outcome # "lost"

\* A notification is of a chunk, or the one of the exit, or the one of the end.
IsOutput(m) ==
    /\ sent[m].kind \in Streams /\ sent[m].seq \in 1..Len(made)
    /\ \A s \in Streams : pending[s] # 0 =>
          sent[m].seq # pending[s] /\ (sent[m].kind = s => sent[m].seq < pending[s])

IsExit(m) ==
    /\ sent[m].kind = "exited" /\ sent[m].seq = Len(made) + 1
    /\ runner = "closed" \/ (runner = "exited" /\ pending["runner"] = 0)

IsClose(m) ==
    /\ sent[m].kind = "closed" /\ sent[m].seq = Len(made) + 2
    /\ runner = "closed" /\ pending["runner"] = 0

Announced ==
    /\ \A s \in Streams : pending[s] \in 0..Len(made)
    /\ pending["runner"] # 0 =>
          Ends > 0 /\ pending["runner"] = Len(made) + Ends
    /\ pending["stdout"] # 0 => pending["stdout"] # pending["stderr"]
    /\ \A m \in 1..Len(sent) : IsOutput(m) \/ IsExit(m) \/ IsClose(m)

\* The notifications of a stream ascend, nothing but the close follows the exit,
\* and nothing the close.
InOrder(m, n) ==
    /\ sent[m].seq # sent[n].seq
    /\ sent[m].kind = sent[n].kind => sent[m].kind \in Streams /\ sent[m].seq < sent[n].seq
    /\ sent[m].kind = "exited" => sent[n].kind = "closed"
    /\ sent[m].kind # "closed"

Ordered == \A m, n \in 1..Len(sent) : m < n => InOrder(m, n)

\* A reader has what is not after its afterSeq, unless it was evicted before.
Follows(r) ==
    /\ afterSeq[r] < nextSeq
    /\ \A n \in 1..Len(given[r]) : given[r][n] <= afterSeq[r]
    /\ \A m, n \in 1..Len(given[r]) : m < n => given[r][m] < given[r][n]
    /\ \A n \in 1..Len(chunks) :
          chunks[n].seq <= afterSeq[r] => chunks[n].seq \in Range(given[r])
    /\ told[r] # "no" =>
          /\ outcome # "no"
          /\ r \notin paging => \A n \in 1..Len(chunks) : chunks[n].seq <= afterSeq[r]

OutputInv ==
    /\ OutputTypeOK /\ Numbered /\ Retains /\ Ending /\ Announced /\ Ordered
    /\ \A r \in Readers : Follows(r)

-----------------------------------------------------------------------------
LEMMA Least ==
  ASSUME NEW T, T \subseteq Nat, T # {}
  PROVE  \E x \in T : \A y \in T : x <= y
<1>. DEFINE R == OpToRel(<, Nat)
<1>1. IsWellFoundedOn(R, Nat)
  BY NatLessThanWellFounded
<1>2. \A x, y \in Nat : y < x => <<y, x>> \in R
  BY DEF OpToRel
<1>. HIDE DEF R
<1>3. PICK x \in T : \A y \in T : <<y, x>> \notin R
  BY <1>1, WFMin
<1>4. ASSUME NEW y \in T PROVE x <= y
  <2>1. x \in Nat /\ y \in Nat
    OBVIOUS
  <2>2. ~(y < x)
    BY <2>1, <1>2, <1>3, Zenon
  <2>. QED
    BY <2>1, <2>2, SMT
<1>. QED
  BY <1>4

LEMMA MinFacts ==
  ASSUME NEW T, T \subseteq Nat, T # {}
  PROVE  Min(T) \in T /\ \A y \in T : Min(T) <= y
BY Least, Zenon DEF Min

LEMMA MaxFacts ==
  ASSUME NEW N \in Nat, NEW T, T \subseteq 0..N, T # {}
  PROVE  Max(T) \in T /\ \A y \in T : y <= Max(T)
<1>. DEFINE U == {N - x : x \in T}
<1>1. U \subseteq Nat /\ U # {}
  <2>1. \A x \in T : N - x \in Nat
    OBVIOUS
  <2>2. U \subseteq Nat
    BY <2>1
  <2>. QED
    BY <2>2
<1>2. PICK u \in U : \A v \in U : u <= v
  BY <1>1, Least
<1>3. PICK x \in T : u = N - x
  OBVIOUS
<1>4. \A y \in T : x >= y
  <2>. TAKE y \in T
  <2>1. N - y \in U
    OBVIOUS
  <2>2. N - x <= N - y
    BY <1>2, <1>3, <2>1
  <2>. QED
    BY <2>2
<1>5. Max(T) \in T /\ \A y \in T : Max(T) >= y
  BY <1>4, Zenon DEF Max
<1>. QED
  BY <1>5

LEMMA SizeOfStretch ==
  ASSUME NEW cs \in Seq(Chunk), NEW j \in 1..Len(cs), NEW n \in j..Len(cs)
  PROVE  Size(SubSeq(cs, j, n)) = cs[n].upto - cs[j].from
<1>. DEFINE stretch == SubSeq(cs, j, n)
<1>1. stretch \in Seq(Chunk) /\ Len(stretch) = n - j + 1 /\ stretch[1] = cs[j]
      /\ stretch[n - j + 1] = cs[n]
  OBVIOUS
<1>2. stretch # <<>>
  BY <1>1
<1>. HIDE DEF stretch
<1>3. Size(stretch) = cs[n].upto - cs[j].from
  BY <1>1, <1>2 DEF Size, Last
<1>. QED
  BY <1>3 DEF stretch

\* The buffer loses as little as the cap allows.
LEMMA EvictFacts ==
  ASSUME NEW cs \in Seq(Chunk), cs # <<>>
  PROVE  \E k \in 1..Len(cs) :
            /\ Evict(cs) = SubSeq(cs, k, Len(cs))
            /\ k = Len(cs) \/ cs[Len(cs)].upto - cs[k].from <= Retain
            /\ \A j \in 1..(k - 1) : cs[Len(cs)].upto - cs[j].from > Retain
<1>. DEFINE fit == {k \in 1..Len(cs) :
                      k = Len(cs) \/ Size(SubSeq(cs, k, Len(cs))) <= Retain}
            first == Min(fit)
<1>1. Len(cs) \in Nat /\ Len(cs) >= 1
  OBVIOUS
<1>2. fit \subseteq Nat /\ Len(cs) \in fit
  BY <1>1
<1>3. first \in fit /\ \A y \in fit : first <= y
  BY <1>2, MinFacts
<1>4. Evict(cs) = SubSeq(cs, first, Len(cs))
  BY DEF Evict
<1>. HIDE DEF first
<1>5. first \in 1..Len(cs)
  BY <1>3
<1>6. first = Len(cs) \/ cs[Len(cs)].upto - cs[first].from <= Retain
  BY <1>1, <1>3, <1>5, SizeOfStretch
<1>7. ASSUME NEW j \in 1..(first - 1) PROVE cs[Len(cs)].upto - cs[j].from > Retain
  <2>1. j \in 1..Len(cs) /\ j < first
    BY <1>1, <1>5
  <2>2. j \notin fit
    BY <1>3, <2>1
  <2>3. ~(Size(SubSeq(cs, j, Len(cs))) <= Retain)
    BY <2>1, <2>2
  <2>4. Size(SubSeq(cs, j, Len(cs))) = cs[Len(cs)].upto - cs[j].from
    BY <1>1, <2>1, SizeOfStretch
  <2>5. cs[Len(cs)] \in Chunk /\ cs[j] \in Chunk
    BY <1>1, <2>1, ElementOfSeq
  <2>. QED
    BY <2>3, <2>4, <2>5, OutputAssumption DEF Chunk
<1>. QED
  BY <1>4, <1>5, <1>6, <1>7

\* A page is a stretch of the buffer that begins with the first chunk its reader
\* lacks, and the rest of the buffer unless the reader passes maxBytes.
LEMMA PageFacts ==
  ASSUME OutputTypeOK, Numbered, Retains, NEW r \in Readers
  PROVE  \/ Page(r) = <<>> /\ \A n \in 1..Len(chunks) : chunks[n].seq <= afterSeq[r]
         \/ \E a \in 1..Len(chunks), b \in 1..Len(chunks) :
              /\ a <= b /\ Page(r) = SubSeq(chunks, a, b)
              /\ \A n \in 1..(a - 1) : chunks[n].seq <= afterSeq[r]
              /\ \A n \in a..Len(chunks) : chunks[n].seq > afterSeq[r]
              /\ r \notin paging => b = Len(chunks)
<1>. DEFINE new == {n \in DOMAIN chunks : chunks[n].seq > afterSeq[r]}
            rest == Unread(r)
            fit == {n \in 0..Len(rest) : n <= 1 \/ Size(SubSeq(rest, 1, n)) <= PageBytes}
<1>1. /\ chunks \in Seq(Chunk) /\ Len(chunks) \in Nat /\ DOMAIN chunks = 1..Len(chunks)
      /\ afterSeq[r] \in Nat
  BY DEF OutputTypeOK, Seqs
<1>2. \A n \in 1..Len(chunks) : chunks[n].seq = Lost + n
  BY <1>1 DEF Numbered, Retains, Lost, OutputTypeOK
<1>3. Lost \in Nat
  BY DEF Retains
<1>4. CASE new = {}
  <2>1. rest = <<>>
    BY <1>4 DEF Unread
  <2>2. fit = {0} /\ 0 \in 0..0
    BY <2>1
  <2>3. Max(fit) = 0
    BY <2>2, MaxFacts
  <2>4. Page(r) = <<>>
    BY <2>1, <2>3 DEF Page
  <2>. QED
    BY <1>1, <1>2, <1>3, <1>4, <2>4
<1>5. CASE new # {}
  <2>. DEFINE a == Min(new)
              fits == Max(fit)
  <2>1. new \subseteq Nat
    BY <1>1
  <2>2. a \in new /\ \A y \in new : a <= y
    BY <1>5, <2>1, MinFacts
  <2>3. rest = SubSeq(chunks, a, Len(chunks))
    BY <1>5 DEF Unread
  <2>. HIDE DEF a
  <2>4. a \in 1..Len(chunks) /\ chunks[a].seq > afterSeq[r]
    BY <1>1, <2>2
  <2>5. Len(rest) = Len(chunks) - a + 1 /\ Len(rest) \in Nat \ {0}
    BY <1>1, <2>3, <2>4
  <2>6. \A n \in 1..(a - 1) : chunks[n].seq <= afterSeq[r]
    <3>. TAKE n \in 1..(a - 1)
    <3>1. n \in 1..Len(chunks) /\ n < a
      BY <1>1, <2>4
    <3>2. n \notin new
      BY <1>1, <2>2, <2>4, <3>1
    <3>. QED
      BY <1>1, <1>2, <1>3, <3>1, <3>2
  <2>7. \A n \in a..Len(chunks) : chunks[n].seq > afterSeq[r]
    BY <1>1, <1>2, <1>3, <2>4
  <2>8. fit \subseteq 0..Len(rest) /\ 1 \in fit
    BY <2>5
  <2>. HIDE DEF rest, fit
  <2>9. fits \in fit /\ \A y \in fit : y <= fits
    BY <2>5, <2>8, MaxFacts
  <2>10. fits \in 1..Len(rest)
    <3>1. fits >= 1 /\ fits \in 0..Len(rest)
      BY <2>8, <2>9
    <3>. QED
      BY <2>5, <3>1
  <2>11. CASE r \in paging
    <3>1. Page(r) = SubSeq(rest, 1, fits)
      BY <2>11 DEF Page, rest, fit
    <3>. HIDE DEF fits
    <3>2. SubSeq(rest, 1, fits) = SubSeq(chunks, a, a + fits - 1)
      BY <1>1, <2>3, <2>4, <2>5, <2>10
    <3>3. a + fits - 1 \in 1..Len(chunks) /\ a <= a + fits - 1
      BY <1>1, <2>4, <2>5, <2>10
    <3>. QED
      BY <2>4, <2>6, <2>7, <2>11, <3>1, <3>2, <3>3
  <2>12. CASE r \notin paging
    <3>1. Page(r) = SubSeq(chunks, a, Len(chunks))
      BY <2>3, <2>12 DEF Page, rest
    <3>2. Len(chunks) \in 1..Len(chunks) /\ a <= Len(chunks)
      BY <1>1, <2>4
    <3>. QED
      BY <2>4, <2>6, <2>7, <3>1, <3>2
  <2>. QED
    BY <2>11, <2>12
<1>. QED
  BY <1>4, <1>5

-----------------------------------------------------------------------------
LEMMA OutputInitially == OutputInit => OutputInv
<1>. SUFFICES ASSUME OutputInit PROVE OutputInv
  OBVIOUS
<1>1. OutputTypeOK
  <2>1. 0 \in Seqs /\ 1 \in Seqs \ {0}
    BY OutputAssumption DEF Seqs, MaxChunks
  <2>2. made \in Seq(Chunk) /\ chunks \in Seq(Chunk)
        /\ sent \in Seq([kind : Streams \cup {"exited", "closed"}, seq : Seqs])
        /\ given \in [Readers -> Seq(Seqs)]
    BY DEF OutputInit
  <2>. QED
    BY <2>1, <2>2 DEF OutputInit, OutputTypeOK
<1>2. Len(made) = 0 /\ Len(chunks) = 0 /\ Len(sent) = 0 /\ MaxChunks \in Nat
  BY OutputAssumption DEF OutputInit, MaxChunks
<1>3. Numbered /\ Retains
  BY <1>2 DEF OutputInit, Numbered, Retains, Ends, Lost
<1>4. Ending /\ Announced /\ Ordered
  BY <1>2 DEF OutputInit, Ending, Announced, Ordered, Streams
<1>5. \A r \in Readers : Follows(r)
  BY <1>2 DEF OutputInit, Follows
<1>. QED
  BY <1>1, <1>3, <1>4, <1>5 DEF OutputInv

\* A chunk that is retained is numbered and joins on to those before it, and
\* only the oldest make room for it.
LEMMA ChunkAdded ==
  ASSUME OutputTypeOK, Numbered, Retains, NEW s \in Streams, NEW size \in NextSizes,
         Retained(s, size), runner = "copying", runner' \in {"copying", "flushed"}
  PROVE  /\ made' \in Seq(Chunk) /\ chunks' \in Seq(Chunk)
         /\ nextSeq' \in Seqs \ {0} /\ pending' \in [Streams \cup {"runner"} -> Seqs]
         /\ Len(made') = Len(made) + 1 /\ nextSeq = Len(made) + 1
         /\ Numbered' /\ Retains'
         /\ \A n \in 1..Len(chunks') :
               chunks'[n].seq = nextSeq \/ \E m \in 1..Len(chunks) : chunks'[n] = chunks[m]
<1>. DEFINE c == NewChunk(s, size)
            cs == Append(chunks, c)
            L == Len(made)
<1>1. /\ made \in Seq(Chunk) /\ chunks \in Seq(Chunk) /\ L \in Nat
      /\ MaxChunks \in Nat /\ Retain \in Nat
  BY OutputAssumption DEF OutputTypeOK, MaxChunks
<1>2. L < MaxChunks /\ size \in Nat /\ size > 0 /\ nextSeq = L + 1
  <2>1. L < MaxChunks /\ size \in Sizes[L + 1]
    BY DEF NextSizes
  <2>2. Sizes[L + 1] \in SUBSET (Nat \ {0})
    BY <1>1, <2>1, OutputAssumption DEF MaxChunks
  <2>. QED
    BY <2>1, <2>2 DEF Numbered, Ends
<1>3. /\ c \in Chunk /\ c.seq = L + 1 /\ c.from < c.upto
      /\ L > 0 => c.from = made[L].upto
  <2>1. L > 0 => made # <<>> /\ made[L] \in Chunk
    BY <1>1
  <2>2. made # <<>> => L > 0
    BY <1>1
  <2>3. c.seq = L + 1 /\ c.seq \in Seqs
    BY <1>1, <1>2 DEF NewChunk, Seqs
  <2>4. L > 0 => c.from = made[L].upto /\ c.from \in Nat
    BY <2>1 DEF NewChunk, Chunk, Last
  <2>5. L = 0 => c.from = 0
    BY <1>1, <2>2 DEF NewChunk
  <2>6. c.from \in Nat /\ c.upto = c.from + size
    BY <1>1, <2>4, <2>5 DEF NewChunk
  <2>7. c = [seq |-> c.seq, stream |-> s, from |-> c.from, upto |-> c.upto]
    BY DEF NewChunk
  <2>. HIDE DEF c
  <2>8. c.from < c.upto /\ c.upto \in Nat
    BY <1>2, <2>6
  <2>9. c \in Chunk
    BY <2>3, <2>6, <2>7, <2>8 DEF Chunk
  <2>. QED
    BY <2>3, <2>4, <2>8, <2>9
<1>. HIDE DEF c
<1>4. made' = Append(made, c) /\ chunks' = Evict(cs) /\ nextSeq' = nextSeq + 1
      /\ pending' = [pending EXCEPT ![s] = nextSeq]
  BY DEF Retained, c
<1>5. /\ made' \in Seq(Chunk) /\ Len(made') = L + 1 /\ made'[L + 1] = c
      /\ \A i \in 1..L : made'[i] = made[i]
  BY <1>1, <1>3, <1>4
<1>6. nextSeq' = L + 2 /\ nextSeq' \in Seqs \ {0} /\ nextSeq \in Seqs
  BY <1>1, <1>2, <1>4 DEF Seqs
<1>7. pending' \in [Streams \cup {"runner"} -> Seqs]
  BY <1>4, <1>6 DEF OutputTypeOK
<1>8. Numbered'
  <2>1. Ends' = 0 /\ MaxChunks' = MaxChunks
    BY DEF Ends, MaxChunks
  <2>2. \A i \in 1..(L + 1) : made'[i].seq = i /\ made'[i].from < made'[i].upto
    BY <1>1, <1>3, <1>5 DEF Numbered
  <2>3. \A i \in 1..L : made'[i + 1].from = made'[i].upto
    <3>. TAKE i \in 1..L
    <3>1. CASE i = L
      BY <1>1, <1>3, <1>5, <3>1
    <3>2. CASE i # L
      <4>1. i \in 1..(L - 1) /\ i + 1 \in 1..L
        BY <1>1, <3>2
      <4>. QED
        BY <1>5, <4>1 DEF Numbered
    <3>. QED
      BY <3>1, <3>2
  <2>. QED
    BY <1>1, <1>2, <1>5, <1>6, <2>1, <2>2, <2>3 DEF Numbered
<1>9. /\ cs \in Seq(Chunk) /\ Len(cs) = Len(chunks) + 1 /\ cs[Len(cs)] = c
      /\ \A n \in 1..Len(chunks) : cs[n] = chunks[n]
  BY <1>1, <1>3
<1>10. Lost \in Nat /\ Lost + Len(chunks) = L /\ Len(chunks) \in Nat
  BY <1>1 DEF Retains, Lost
<1>11. \A n \in 1..Len(cs) : cs[n] = made'[Lost + n]
  <2>. TAKE n \in 1..Len(cs)
  <2>1. CASE n = Len(cs)
    BY <1>5, <1>9, <1>10, <2>1
  <2>2. CASE n # Len(cs)
    <3>1. n \in 1..Len(chunks) /\ Lost + n \in 1..L
      BY <1>9, <1>10, <2>2
    <3>. QED
      BY <1>5, <1>9, <3>1 DEF Retains
  <2>. QED
    BY <2>1, <2>2
<1>. HIDE DEF cs
<1>12. PICK k \in 1..Len(cs) :
            /\ Evict(cs) = SubSeq(cs, k, Len(cs))
            /\ k = Len(cs) \/ cs[Len(cs)].upto - cs[k].from <= Retain
            /\ \A j \in 1..(k - 1) : cs[Len(cs)].upto - cs[j].from > Retain
  <2>1. cs # <<>>
    BY <1>9, <1>10
  <2>. QED
    BY <1>9, <2>1, EvictFacts
<1>13. /\ chunks' \in Seq(Chunk) /\ Len(chunks') = Len(cs) - k + 1
       /\ \A n \in 1..Len(chunks') : chunks'[n] = cs[k + n - 1] /\ k + n - 1 \in 1..Len(cs)
  <2>1. Len(cs) \in Nat /\ chunks' = SubSeq(cs, k, Len(cs))
    BY <1>4, <1>9, <1>10, <1>12
  <2>2. chunks' \in Seq(Chunk) /\ Len(chunks') = Len(cs) - k + 1
        /\ \A n \in 1..(Len(cs) - k + 1) : chunks'[n] = cs[k + n - 1]
    BY <1>9, <1>12, <2>1, SubSeqProperties
  <2>3. ASSUME NEW n \in 1..Len(chunks')
        PROVE  chunks'[n] = cs[k + n - 1] /\ k + n - 1 \in 1..Len(cs)
    <3>1. n \in 1..(Len(cs) - k + 1)
      BY <2>2
    <3>2. k + n - 1 \in 1..Len(cs)
      BY <1>12, <2>1, <3>1
    <3>. QED
      BY <2>2, <3>1, <3>2
  <2>. QED
    BY <2>2, <2>3
<1>14. Lost' = Lost + k - 1 /\ Lost' \in Nat /\ Len(chunks') > 0
  BY <1>5, <1>9, <1>10, <1>12, <1>13 DEF Lost
<1>15. Retains'
  <2>1. \A n \in 1..Len(chunks') : chunks'[n] = made'[Lost' + n]
    <3>. TAKE n \in 1..Len(chunks')
    <3>1. Lost' + n = Lost + (k + n - 1)
      BY <1>10, <1>12, <1>13, <1>14
    <3>. QED
      BY <1>11, <1>13, <3>1
  <2>2. Len(chunks') > 1 => made'[L + 1].upto - made'[Lost' + 1].from <= Retain
    <3>1. made'[Lost' + 1] = cs[k]
      <4>1. Lost' + 1 = Lost + k
        BY <1>10, <1>12, <1>14
      <4>. QED
        BY <1>11, <1>12, <4>1
    <3>. QED
      BY <1>5, <1>9, <1>10, <1>12, <1>13, <3>1
  <2>3. ASSUME Lost' > 0 PROVE made'[L + 1].upto - made'[Lost'].from > Retain
    <3>1. CASE k > 1
      <4>1. k - 1 \in 1..(k - 1) /\ k - 1 \in 1..Len(cs)
        <5>1. Len(cs) \in Nat /\ k \in 1..Len(cs)
          BY <1>9, <1>10, <1>12
        <5>. QED
          BY <3>1, <5>1
      <4>2. made'[Lost'] = cs[k - 1]
        <5>1. Lost' = Lost + (k - 1)
          BY <1>10, <1>14, <4>1
        <5>. QED
          BY <1>11, <4>1, <5>1
      <4>. QED
        BY <1>5, <1>9, <1>12, <4>1, <4>2
    <3>2. CASE k = 1
      <4>1. Lost' = Lost /\ Lost \in 1..L /\ L > 0
        BY <1>10, <1>14, <2>3, <3>2
      <4>2. made[L].upto - made[Lost].from > Retain
        BY <4>1 DEF Retains
      <4>3. made[L] \in Chunk /\ made[Lost] \in Chunk
        BY <1>1, <4>1, ElementOfSeq
      <4>. QED
        <5>1. made'[L + 1].upto > made[L].upto /\ made'[Lost'] = made[Lost]
          BY <1>3, <1>5, <4>1
        <5>2. made'[L + 1].upto \in Nat /\ made[L].upto \in Nat /\ made[Lost].from \in Nat
          BY <1>3, <1>5, <4>3 DEF Chunk
        <5>3. \A x, y, z, limit \in Nat : x > y /\ y - z > limit => x - z > limit
          OBVIOUS
        <5>4. made'[L + 1].upto - made[Lost].from > Retain
          BY <1>1, <4>2, <5>1, <5>2, <5>3, Zenon
        <5>. QED
          BY <5>1, <5>4
    <3>. QED
      BY <1>12, <3>1, <3>2
  <2>. QED
    BY <1>5, <1>14, <2>1, <2>2, <2>3 DEF Retains
<1>16. ASSUME NEW n \in 1..Len(chunks')
       PROVE  chunks'[n].seq = nextSeq \/ \E m \in 1..Len(chunks) : chunks'[n] = chunks[m]
  <2>1. CASE k + n - 1 = Len(cs)
    BY <1>2, <1>3, <1>9, <1>13, <2>1
  <2>2. CASE k + n - 1 # Len(cs)
    <3>1. k + n - 1 \in 1..Len(chunks)
      BY <1>9, <1>10, <1>13, <2>2
    <3>. QED
      BY <1>9, <1>13, <3>1
  <2>. QED
    BY <2>1, <2>2
<1>. QED
  BY <1>2, <1>5, <1>6, <1>7, <1>8, <1>13, <1>15, <1>16

-----------------------------------------------------------------------------
\* A step that adds a chunk: a write of a pump, or what Flush releases.
ChunkStep(s, size) ==
    /\ Retained(s, size) /\ runner = "copying"
    /\ UNCHANGED <<pump, marker, outcome, closed, sent, killing, reading>>
    /\ \/ runner' = "copying"
       \/ runner' = "flushed" /\ pump = {} /\ s = "stdout" /\ pending["stderr"] = 0

\* wg.Wait returns, and the filter holds nothing.
EmptyFlush ==
    /\ runner = "copying" /\ pump = {} /\ pending["stderr"] = 0 /\ runner' = "flushed"
    /\ UNCHANGED <<made, chunks, nextSeq, pending, asleep, pump, marker, outcome, closed, sent,
                   killing, reading>>

\* A step of a reader or of its timer.
ReaderStep(r) == Call(r) \/ Answer(r) \/ Wait(r) \/ Wake(r) \/ TimeOut(r)

LEMMA OutputSteps ==
  ASSUME OutputInv, OutputNext
  PROVE  \/ \E s \in Streams, size \in NextSizes : ChunkStep(s, size)
         \/ \E s \in Streams : Announce(s) \/ EndOfStream(s)
         \/ EmptyFlush \/ Settle \/ AnnounceEnd \/ Close
         \/ Aim \/ Mark \/ Kill
         \/ \E r \in Readers : ReaderStep(r)
         \/ UNCHANGED outputVars
<1>1. ASSUME NEW s \in Streams, WriteChunk(s)
      PROVE  \E size \in NextSizes : ChunkStep(s, size)
  <2>1. runner = "copying"
    BY <1>1 DEF OutputInv, Ending, WriteChunk
  <2>. QED
    BY <1>1, <2>1 DEF WriteChunk, ChunkStep
<1>2. ASSUME Flush
      PROVE  EmptyFlush \/ \E s \in Streams, size \in NextSizes : ChunkStep(s, size)
  BY <1>2 DEF Flush, EmptyFlush, ChunkStep, Streams
<1>. QED
  BY <1>1, <1>2 DEF OutputNext, Pump, Runner, ProcessRead, ReaderStep, AllTold

LEMMA OutputTypeFacts ==
  ASSUME OutputTypeOK
  PROVE  /\ Len(made) \in Nat /\ Len(chunks) \in Nat /\ Len(sent) \in Nat
         /\ nextSeq \in Nat \ {0} /\ MaxChunks \in Nat /\ 0 \in Seqs /\ Seqs \subseteq Nat
         /\ \A r \in Readers : Len(given[r]) \in Nat /\ afterSeq[r] \in Nat
BY OutputAssumption DEF OutputTypeOK, Seqs, MaxChunks

\* Numbers beyond those a reader has are added to them.
LEMMA Continued ==
  ASSUME NEW old \in Seq(Nat), NEW new \in Seq(Nat), NEW low \in Nat, NEW high \in Nat,
         low <= high,
         \A n \in 1..Len(old) : old[n] <= low,
         \A m, n \in 1..Len(old) : m < n => old[m] < old[n],
         \A n \in 1..Len(new) : low < new[n] /\ new[n] <= high,
         \A m, n \in 1..Len(new) : m < n => new[m] < new[n]
  PROVE  /\ \A n \in 1..Len(old \o new) : (old \o new)[n] <= high
         /\ \A m, n \in 1..Len(old \o new) : m < n => (old \o new)[m] < (old \o new)[n]
         /\ Range(old) \subseteq Range(old \o new) /\ Range(new) \subseteq Range(old \o new)
<1>. DEFINE all == old \o new
            k == Len(old)
<1>1. k \in Nat /\ Len(new) \in Nat /\ Len(all) = k + Len(new)
  BY ConcatProperties
<1>2. ASSUME NEW n \in 1..Len(all)
      PROVE  \/ n \in 1..k /\ all[n] = old[n] /\ all[n] \in Nat
             \/ /\ n - k \in 1..Len(new) /\ n > k
                /\ all[n] = new[n - k] /\ all[n] \in Nat
  <2>1. n \in 1..k \/ (n - k \in 1..Len(new) /\ n > k)
    BY <1>1
  <2>2. all[n] = IF n <= k THEN old[n] ELSE new[n - k]
    BY <1>1, ConcatProperties
  <2>. QED
    BY <1>1, <2>1, <2>2, ElementOfSeq
<1>3. Range(old) \subseteq Range(all) /\ Range(new) \subseteq Range(all)
  BY RangeConcatenation
<1>. HIDE DEF all, k
<1>4. \A n \in 1..Len(all) : all[n] <= high
  <2>. TAKE n \in 1..Len(all)
  <2>1. CASE n \in 1..k /\ all[n] = old[n] /\ all[n] \in Nat
    BY <2>1 DEF k
  <2>2. CASE n - k \in 1..Len(new) /\ all[n] = new[n - k]
    BY <2>2
  <2>. QED
    BY <1>2, <2>1, <2>2
<1>5. \A m, n \in 1..Len(all) : m < n => all[m] < all[n]
  <2>. SUFFICES ASSUME NEW m \in 1..Len(all), NEW n \in 1..Len(all), m < n
                PROVE  all[m] < all[n]
    OBVIOUS
  <2>1. CASE n \in 1..k
    <3>1. m \in 1..k /\ all[m] = old[m] /\ all[n] = old[n]
      BY <1>1, <1>2, <2>1
    <3>. QED
      BY <2>1, <3>1 DEF k
  <2>2. CASE n \notin 1..k /\ m \in 1..k
    <3>1. all[m] \in Nat /\ all[m] <= low
      <4>1. all[m] = old[m] /\ all[m] \in Nat
        BY <1>1, <1>2, <2>2
      <4>. QED
        BY <2>2, <4>1 DEF k
    <3>2. all[n] \in Nat /\ low < all[n]
      BY <1>2, <2>2
    <3>. QED
      BY <3>1, <3>2
  <2>3. CASE n \notin 1..k /\ m \notin 1..k
    <3>1. all[m] = new[m - k] /\ all[n] = new[n - k] /\ m - k \in 1..Len(new)
          /\ n - k \in 1..Len(new)
      BY <1>2, <2>3
    <3>2. m - k < n - k
      BY <1>1
    <3>. QED
      BY <3>1, <3>2
  <2>. QED
    BY <2>1, <2>2, <2>3
<1>. QED
  BY <1>3, <1>4, <1>5 DEF all

\* What read answers with keeps its reader up to date.
LEMMA AnswerFollows ==
  ASSUME OutputInv, NEW r \in Readers, Answer(r)
  PROVE  /\ given'[r] \in Seq(Seqs) /\ afterSeq'[r] \in Seqs
         /\ Follows(r)'
<1>. DEFINE numbers == [n \in DOMAIN Page(r) |-> Page(r)[n].seq]
            C == Len(chunks)
<1>0. OutputTypeOK /\ Numbered /\ Retains /\ Ending /\ Follows(r)
  BY DEF OutputInv
<1>1. /\ chunks \in Seq(Chunk) /\ given[r] \in Seq(Seqs) /\ given[r] \in Seq(Nat)
      /\ nextSeq \in Nat /\ nextSeq - 1 \in Seqs /\ C \in Nat /\ afterSeq[r] \in Nat
      /\ Seqs \subseteq Nat
      /\ \A k \in Nat : k < nextSeq => k \in Seqs
  BY <1>0, OutputTypeFacts, SeqMonotonic DEF OutputTypeOK, Seqs
<1>2. /\ Lost \in Nat /\ Lost + C < nextSeq
      /\ \A n \in 1..C : chunks[n].seq = Lost + n
  <2>1. Len(made) \in Nat /\ Lost \in Nat /\ Lost + C = Len(made)
    BY <1>0, <1>1, OutputTypeFacts DEF Retains, Lost
  <2>2. Len(made) < nextSeq
    BY <1>0, <2>1 DEF Numbered, Ends
  <2>3. ASSUME NEW n \in 1..C PROVE chunks[n].seq = Lost + n
    <3>1. Lost + n \in 1..Len(made)
      BY <1>1, <2>1
    <3>. QED
      BY <1>0, <3>1 DEF Numbered, Retains
  <2>. QED
    BY <2>1, <2>2, <2>3
<1>3. /\ given'[r] = given[r] \o numbers
      /\ afterSeq'[r] = NextSeq(r) - 1
      /\ told'[r] # "no" => closed \/ outcome # "no"
      /\ UNCHANGED <<chunks, nextSeq, outcome, paging>>
  BY <1>0 DEF Answer, process, OutputTypeOK
<1>4. told'[r] # "no" => outcome' # "no"
  BY <1>0, <1>3 DEF Ending
<1>5. CASE Page(r) = <<>> /\ \A n \in 1..C : chunks[n].seq <= afterSeq[r]
  <2>1. numbers = <<>> /\ NextSeq(r) = nextSeq
    BY <1>5 DEF NextSeq
  <2>2. given'[r] = given[r] /\ afterSeq'[r] = nextSeq - 1
    BY <1>1, <1>3, <2>1
  <2>3. \A n \in 1..C : chunks[n].seq <= afterSeq'[r]
    BY <1>1, <1>2, <2>2
  <2>4. \A n \in 1..Len(given[r]) : given[r][n] <= nextSeq - 1
    <3>. TAKE n \in 1..Len(given[r])
    <3>1. given[r][n] \in Nat /\ given[r][n] <= afterSeq[r] /\ afterSeq[r] < nextSeq
      BY <1>0, <1>1, ElementOfSeq DEF Follows
    <3>. QED
      BY <1>1, <3>1
  <2>5. Follows(r)'
    <3>1. \A n \in 1..C : chunks[n].seq \in Range(given[r])
      BY <1>0, <1>5 DEF Follows
    <3>2. \A m, n \in 1..Len(given[r]) : m < n => given[r][m] < given[r][n]
      BY <1>0 DEF Follows
    <3>3. nextSeq - 1 < nextSeq
      BY <1>1
    <3>. QED
      BY <1>3, <1>4, <2>2, <2>3, <2>4, <3>1, <3>2, <3>3 DEF Follows
  <2>. QED
    BY <1>1, <2>2, <2>5
<1>6. ASSUME NEW a \in 1..C, NEW b \in 1..C,
             a <= b, Page(r) = SubSeq(chunks, a, b),
             \A n \in 1..(a - 1) : chunks[n].seq <= afterSeq[r],
             \A n \in a..C : chunks[n].seq > afterSeq[r],
             r \notin paging => b = C
      PROVE  given'[r] \in Seq(Seqs) /\ afterSeq'[r] \in Seqs /\ Follows(r)'
  <2>. DEFINE K == b - a + 1
  <2>1. /\ DOMAIN Page(r) = 1..K /\ Len(Page(r)) = K /\ Page(r) # <<>> /\ K \in Nat \ {0}
        /\ \A n \in 1..K : Page(r)[n] = chunks[a + n - 1]
    <3>1. K \in Nat \ {0} /\ \A n \in a..b : chunks[n] \in Chunk
      BY <1>1, <1>6, ElementOfSeq
    <3>2. Page(r) \in Seq(Chunk) /\ Len(Page(r)) = K
          /\ \A n \in 1..K : Page(r)[n] = chunks[a + n - 1]
      BY <1>6, <3>1, SubSeqProperties
    <3>. QED
      BY <3>1, <3>2
  <2>2. /\ Lost + b <= afterSeq'[r] /\ afterSeq'[r] < nextSeq /\ afterSeq'[r] \in Nat
        /\ afterSeq[r] <= afterSeq'[r]
        /\ r \in paging => afterSeq'[r] = Lost + b
        /\ r \notin paging => afterSeq'[r] = nextSeq - 1
    <3>1. Last(Page(r)).seq = Lost + b
      <4>1. K \in 1..K /\ a + K - 1 = b
        BY <2>1
      <4>. QED
        BY <1>2, <2>1, <4>1 DEF Last
    <3>2. NextSeq(r) = IF r \in paging THEN Lost + b + 1 ELSE nextSeq
      BY <2>1, <3>1 DEF NextSeq
    <3>3. afterSeq[r] < Lost + b
      BY <1>1, <1>2, <1>6
    <3>4. Lost + b < nextSeq /\ Lost + b \in Nat
      BY <1>1, <1>2
    <3>. QED
      BY <1>1, <1>3, <3>2, <3>3, <3>4
  <2>3. ASSUME NEW n \in 1..K
        PROVE  /\ numbers[n] = Lost + (a + n - 1) /\ numbers[n] \in Nat
               /\ afterSeq[r] < numbers[n] /\ numbers[n] <= afterSeq'[r]
               /\ numbers[n] \in Seqs
    <3>1. a + n - 1 \in a..C /\ a + n - 1 \in 1..C /\ a + n - 1 <= b
      BY <1>1
    <3>2. numbers[n] = chunks[a + n - 1].seq
      BY <2>1
    <3>3. numbers[n] = Lost + (a + n - 1) /\ afterSeq[r] < numbers[n]
      BY <1>2, <1>6, <3>1, <3>2
    <3>4. numbers[n] \in Nat /\ numbers[n] <= Lost + b
      BY <1>2, <3>1, <3>3
    <3>5. numbers[n] <= afterSeq'[r] /\ numbers[n] < nextSeq
      <4>1. /\ Lost + b \in Nat /\ nextSeq \in Nat /\ afterSeq'[r] \in Nat
            /\ Lost + b <= afterSeq'[r] /\ Lost + b < nextSeq
        BY <1>1, <1>2, <2>2
      <4>. HIDE DEF numbers, C, K
      <4>. QED
        BY <3>4, <4>1
    <3>. QED
      BY <1>1, <3>3, <3>4, <3>5
  <2>4. numbers \in Seq(Nat) /\ numbers \in Seq(Seqs) /\ Len(numbers) = K
        /\ DOMAIN numbers = 1..K
    <3>1. numbers \in [1..K -> Nat] /\ numbers \in [1..K -> Seqs]
      BY <2>1, <2>3
    <3>. HIDE DEF numbers, K
    <3>. QED
      BY <2>1, <3>1
  <2>. HIDE DEF numbers
  <2>5. \A m, n \in 1..K : m < n => numbers[m] < numbers[n]
    <3>. TAKE m, n \in 1..K
    <3>1. numbers[m] = Lost + (a + m - 1) /\ numbers[n] = Lost + (a + n - 1)
      BY <2>3
    <3>2. a \in Nat /\ m \in Nat /\ n \in Nat /\ Lost \in Nat
      BY <1>2, <2>1
    <3>. HIDE DEF numbers, C, K
    <3>. QED
      BY <3>1, <3>2
  <2>6. /\ \A n \in 1..Len(given[r]) : given[r][n] <= afterSeq[r]
        /\ \A m, n \in 1..Len(given[r]) : m < n => given[r][m] < given[r][n]
    BY <1>0 DEF Follows
  <2>7. /\ \A n \in 1..Len(given'[r]) : given'[r][n] <= afterSeq'[r]
        /\ \A m, n \in 1..Len(given'[r]) : m < n => given'[r][m] < given'[r][n]
        /\ Range(given[r]) \subseteq Range(given'[r])
        /\ Range(numbers) \subseteq Range(given'[r])
    <3>1. \A n \in 1..Len(numbers) : afterSeq[r] < numbers[n] /\ numbers[n] <= afterSeq'[r]
      BY <2>3, <2>4
    <3>2. \A m, n \in 1..Len(numbers) : m < n => numbers[m] < numbers[n]
      BY <2>4, <2>5
    <3>3. /\ given[r] \in Seq(Nat) /\ numbers \in Seq(Nat) /\ given'[r] = given[r] \o numbers
          /\ afterSeq[r] \in Nat /\ afterSeq'[r] \in Nat /\ afterSeq[r] <= afterSeq'[r]
      BY <1>1, <1>3, <2>2, <2>4
    <3>. QED
      BY <2>6, <3>1, <3>2, <3>3, Continued, Zenon
  <2>8. given'[r] \in Seq(Seqs)
    BY <1>1, <1>3, <2>4, ConcatProperties
  <2>9. ASSUME NEW n \in 1..C, chunks[n].seq <= afterSeq'[r]
        PROVE  chunks[n].seq \in Range(given'[r])
    <3>1. CASE n < a
      <4>1. n \in 1..(a - 1)
        BY <3>1
      <4>. QED
        BY <1>0, <1>6, <2>7, <4>1 DEF Follows
    <3>2. CASE n \in a..b
      <4>1. n - a + 1 \in 1..K /\ a + (n - a + 1) - 1 = n
        BY <3>2
      <4>2. numbers[n - a + 1] = chunks[n].seq
        BY <1>2, <2>3, <4>1
      <4>. QED
        BY <2>4, <2>7, <4>1, <4>2 DEF Range
    <3>3. CASE n > b
      <4>1. r \in paging /\ chunks[n].seq = Lost + n
        BY <1>2, <1>6, <3>3
      <4>. QED
        BY <1>2, <2>2, <2>9, <3>3, <4>1
    <3>. QED
      BY <3>1, <3>2, <3>3
  <2>10. r \notin paging => \A n \in 1..C : chunks[n].seq <= afterSeq'[r]
    <3>. SUFFICES ASSUME r \notin paging, NEW n \in 1..C
                  PROVE  chunks[n].seq <= afterSeq'[r]
      OBVIOUS
    <3>1. chunks[n].seq = Lost + n /\ afterSeq'[r] = nextSeq - 1
      BY <1>2, <2>2
    <3>. QED
      BY <1>1, <1>2, <3>1
  <2>11. Follows(r)'
    BY <1>3, <1>4, <2>2, <2>7, <2>9, <2>10 DEF Follows
  <2>. QED
    BY <1>1, <2>2, <2>8, <2>11
<1>. QED
  BY <1>0, <1>5, <1>6, PageFacts

-----------------------------------------------------------------------------
LEMMA OutputTypeKept ==
  ASSUME OutputInv, OutputNext
  PROVE  OutputTypeOK'
<1>0. OutputTypeOK /\ Numbered /\ Retains /\ 0 \in Seqs
  BY OutputTypeFacts DEF OutputInv
<1>1. ASSUME NEW s \in Streams, NEW size \in NextSizes, ChunkStep(s, size)
      PROVE  OutputTypeOK'
  <2>1. /\ made' \in Seq(Chunk) /\ chunks' \in Seq(Chunk)
        /\ nextSeq' \in Seqs \ {0} /\ pending' \in [Streams \cup {"runner"} -> Seqs]
    BY <1>0, <1>1, ChunkAdded DEF ChunkStep
  <2>2. asleep' \in SUBSET Readers /\ runner' \in {"copying", "flushed", "exited", "closed"}
    BY <1>1 DEF ChunkStep, Retained
  <2>. QED
    BY <1>0, <1>1, <2>1, <2>2 DEF ChunkStep, killing, reading, OutputTypeOK
<1>2. ASSUME NEW s \in Streams, Announce(s) PROVE OutputTypeOK'
  <2>1. [kind |-> s, seq |-> pending[s]]
           \in [kind : Streams \cup {"exited", "closed"}, seq : Seqs]
    BY <1>0 DEF OutputTypeOK
  <2>2. sent' \in Seq([kind : Streams \cup {"exited", "closed"}, seq : Seqs])
    BY <1>0, <1>2, <2>1 DEF Announce, OutputTypeOK
  <2>3. pending' \in [Streams \cup {"runner"} -> Seqs]
    BY <1>0, <1>2 DEF Announce, OutputTypeOK
  <2>. QED
    BY <1>0, <1>2, <2>2, <2>3 DEF Announce, killing, reading, OutputTypeOK
<1>3. ASSUME NEW s \in Streams, EndOfStream(s) PROVE OutputTypeOK'
  BY <1>0, <1>3 DEF EndOfStream, reading, OutputTypeOK
<1>4. CASE EmptyFlush
  BY <1>0, <1>4 DEF EmptyFlush, killing, reading, OutputTypeOK
<1>5. ASSUME runner \in {"flushed", "exited"}, nextSeq' = nextSeq + 1,
             runner = "exited" => Ends = 1, runner = "flushed" => Ends = 0
      PROVE  nextSeq \in Seqs /\ nextSeq' \in Seqs \ {0}
  BY <1>0, <1>5, OutputTypeFacts DEF Numbered, Seqs
<1>6. CASE Settle
  <2>1. nextSeq \in Seqs /\ nextSeq' \in Seqs \ {0}
    BY <1>5, <1>6 DEF Settle, Ends
  <2>. QED
    BY <1>0, <1>6, <2>1 DEF Settle, killing, reading, OutputTypeOK
<1>7. CASE AnnounceEnd
  <2>1. [kind |-> IF closed THEN "closed" ELSE "exited", seq |-> pending["runner"]]
           \in [kind : Streams \cup {"exited", "closed"}, seq : Seqs]
    BY <1>0 DEF OutputTypeOK
  <2>2. sent' \in Seq([kind : Streams \cup {"exited", "closed"}, seq : Seqs])
    BY <1>0, <1>7, <2>1 DEF AnnounceEnd, OutputTypeOK
  <2>3. pending' \in [Streams \cup {"runner"} -> Seqs]
    BY <1>0, <1>7 DEF AnnounceEnd, OutputTypeOK
  <2>. QED
    BY <1>0, <1>7, <2>2, <2>3 DEF AnnounceEnd, killing, reading, OutputTypeOK
<1>8. CASE Close
  <2>1. nextSeq \in Seqs /\ nextSeq' \in Seqs \ {0}
    BY <1>5, <1>8 DEF Close, Ends
  <2>. QED
    BY <1>0, <1>8, <2>1 DEF Close, killing, reading, OutputTypeOK
<1>9. CASE Aim
  BY <1>0, <1>9 DEF Aim, process, reading, OutputTypeOK
<1>10. CASE Mark \/ Kill
  <2>1. CASE Mark
    BY <1>0, <2>1 DEF Mark, reading, OutputTypeOK
  <2>2. CASE Kill
    BY <1>0, <2>2 DEF Kill, reading, OutputTypeOK
  <2>. QED
    BY <1>10, <2>1, <2>2
<1>11. ASSUME NEW r \in Readers, Answer(r) PROVE OutputTypeOK'
  <2>1. given'[r] \in Seq(Seqs) /\ afterSeq'[r] \in Seqs
    BY <1>11, AnswerFollows
  <2>2. given' \in [Readers -> Seq(Seqs)] /\ afterSeq' \in [Readers -> Seqs]
    BY <1>0, <1>11, <2>1 DEF Answer, OutputTypeOK
  <2>3. told' \in [Readers -> {"no", "exited", "closed"}]
    BY <1>0, <1>11 DEF Answer, OutputTypeOK
  <2>. QED
    BY <1>0, <1>11, <2>2, <2>3 DEF Answer, process, OutputTypeOK
<1>12. ASSUME NEW r \in Readers, Call(r) \/ Wait(r) \/ Wake(r) \/ TimeOut(r)
       PROVE  OutputTypeOK'
  BY <1>0, <1>12 DEF Call, Wait, Wake, TimeOut, process, OutputTypeOK
<1>13. CASE UNCHANGED outputVars
  BY <1>0, <1>13 DEF outputVars, OutputTypeOK
<1>. QED
  BY <1>1, <1>2, <1>3, <1>4, <1>6, <1>7, <1>8, <1>9, <1>10, <1>11, <1>12, <1>13, OutputSteps
     DEF ReaderStep

\* Only a chunk and the end of the process take numbers, and only a chunk
\* changes the buffer.
LEMMA BufferKept ==
  ASSUME OutputInv, OutputNext
  PROVE  Numbered' /\ Retains'
<1>0. OutputTypeOK /\ Numbered /\ Retains
  BY DEF OutputInv
<1>1. ASSUME NEW s \in Streams, NEW size \in NextSizes, ChunkStep(s, size)
      PROVE  Numbered' /\ Retains'
  BY <1>0, <1>1, ChunkAdded DEF ChunkStep
<1>2. ASSUME UNCHANGED <<made, chunks>>, nextSeq' = nextSeq + Ends' - Ends, Ends' \in Nat
      PROVE  Numbered' /\ Retains'
  <2>1. Retains'
    BY <1>0, <1>2 DEF Retains, Lost
  <2>2. nextSeq' = Len(made') + 1 + Ends'
    BY <1>0, <1>2, OutputTypeFacts DEF Numbered, Ends
  <2>. QED
    BY <1>0, <1>2, <2>1, <2>2 DEF Numbered, MaxChunks
<1>3. CASE UNCHANGED <<made, chunks, nextSeq, runner>>
  BY <1>0, <1>2, <1>3, OutputTypeFacts DEF Ends
<1>4. CASE EmptyFlush
  BY <1>0, <1>2, <1>4, OutputTypeFacts DEF EmptyFlush, Ends
<1>5. CASE Settle
  BY <1>0, <1>2, <1>5, OutputTypeFacts DEF Settle, Ends
<1>6. CASE Close
  BY <1>0, <1>2, <1>6, OutputTypeFacts DEF Close, Ends
<1>7. ASSUME NEW s \in Streams, Announce(s) \/ EndOfStream(s) PROVE Numbered' /\ Retains'
  BY <1>3, <1>7 DEF Announce, EndOfStream
<1>8. CASE AnnounceEnd \/ Aim \/ Mark \/ Kill \/ UNCHANGED outputVars
  BY <1>3, <1>8 DEF AnnounceEnd, Aim, Mark, Kill, process, outputVars
<1>9. ASSUME NEW r \in Readers, ReaderStep(r) PROVE Numbered' /\ Retains'
  BY <1>3, <1>9 DEF ReaderStep, Call, Answer, Wait, Wake, TimeOut, process
<1>. QED
  BY <1>1, <1>4, <1>5, <1>6, <1>7, <1>8, <1>9, OutputSteps

\* What a step of a reader leaves alone.
LEMMA ReadersAside ==
  ASSUME NEW r \in Readers, ReaderStep(r)
  PROVE  UNCHANGED <<made, chunks, nextSeq, pump, pending, runner, marker, outcome, closed,
                     sent, terminated, cause, killer, paging>>
BY DEF ReaderStep, Call, Answer, Wait, Wake, TimeOut, process

LEMMA EndingKept ==
  ASSUME OutputInv, OutputNext
  PROVE  Ending'
<1>0. OutputTypeOK /\ Ending
  BY DEF OutputInv
<1>1. ASSUME NEW s \in Streams, NEW size \in NextSizes, ChunkStep(s, size) PROVE Ending'
  <2>1. s # "stderr" => pending'["stderr"] = pending["stderr"]
    BY <1>0, <1>1 DEF ChunkStep, Retained, OutputTypeOK, Streams
  <2>. QED
    BY <1>0, <1>1, <2>1 DEF ChunkStep, killing, Ending
<1>2. ASSUME NEW s \in Streams, Announce(s) PROVE Ending'
  <2>1. /\ pending'["stdout"] \in {0, pending["stdout"]}
        /\ pending'["stderr"] \in {0, pending["stderr"]}
    BY <1>0, <1>2 DEF Announce, OutputTypeOK, Streams
  <2>. QED
    BY <1>0, <1>2, <2>1 DEF Announce, killing, Ending
<1>3. ASSUME NEW s \in Streams, EndOfStream(s) PROVE Ending'
  BY <1>0, <1>3 DEF EndOfStream, Ending
<1>4. CASE EmptyFlush
  BY <1>0, <1>4 DEF EmptyFlush, killing, Ending
<1>5. CASE Settle
  <2>1. UNCHANGED <<pump, cause, killer, terminated, closed>>
    BY <1>5 DEF Settle, killing
  <2>2. runner = "flushed" /\ runner' = "exited" /\ pending["stdout"] = 0
        /\ outcome' # "no" /\ (outcome' = "lost" => ~terminated)
    BY <1>5 DEF Settle
  <2>3. pending'["stdout"] = pending["stdout"] /\ pending'["stderr"] = pending["stderr"]
    BY <1>0, <1>5 DEF Settle, OutputTypeOK, Streams
  <2>. QED
    BY <1>0, <2>1, <2>2, <2>3 DEF Ending
<1>6. CASE AnnounceEnd \/ Close
  <2>1. pending'["stdout"] = pending["stdout"] /\ pending'["stderr"] = pending["stderr"]
    BY <1>0, <1>6 DEF AnnounceEnd, Close, OutputTypeOK, Streams
  <2>2. CASE AnnounceEnd
    BY <1>0, <2>1, <2>2 DEF AnnounceEnd, killing, Ending
  <2>3. CASE Close
    BY <1>0, <2>1, <2>3 DEF Close, killing, Ending
  <2>. QED
    BY <1>6, <2>2, <2>3
<1>7. CASE Aim
  BY <1>0, <1>7 DEF Aim, process, Ending
<1>8. CASE Mark
  BY <1>0, <1>8 DEF Mark, Ending
<1>9. CASE Kill
  BY <1>0, <1>9 DEF Kill, Ending, Streams
<1>10. ASSUME NEW r \in Readers, ReaderStep(r) PROVE Ending'
  BY <1>0, <1>10, ReadersAside DEF Ending
<1>11. CASE UNCHANGED outputVars
  BY <1>0, <1>11 DEF outputVars, Ending
<1>. QED
  BY <1>1, <1>2, <1>3, <1>4, <1>5, <1>6, <1>7, <1>8, <1>9, <1>10, <1>11, OutputSteps

\* The notifications are of chunks as long as the process has not ended.
LEMMA OnlyOutput ==
  ASSUME OutputInv, NEW m \in 1..Len(sent),
         Ends = 0 \/ (Ends = 1 /\ pending["runner"] # 0)
  PROVE  IsOutput(m)
BY DEF OutputInv, Announced, IsExit, IsClose, Ends

\* A notification that was sent last is what it says, and nothing is sent out of
\* order.
LEMMA Appended ==
  ASSUME OutputTypeOK, Ordered, NEW note, sent' = Append(sent, note),
         \A m \in 1..Len(sent) :
            /\ sent[m].seq # note.seq
            /\ sent[m].kind = note.kind => note.kind \in Streams /\ sent[m].seq < note.seq
            /\ sent[m].kind = "exited" => note.kind = "closed"
            /\ sent[m].kind # "closed"
  PROVE  /\ Len(sent') = Len(sent) + 1 /\ sent'[Len(sent) + 1] = note
         /\ \A m \in 1..Len(sent) : sent'[m] = sent[m]
         /\ Ordered'
<1>1. /\ Len(sent) \in Nat /\ Len(sent') = Len(sent) + 1 /\ sent'[Len(sent) + 1] = note
      /\ \A m \in 1..Len(sent) : sent'[m] = sent[m]
  BY AppendProperties DEF OutputTypeOK
<1>2. ASSUME NEW m \in 1..Len(sent'), NEW n \in 1..Len(sent'), m < n
      PROVE  InOrder(m, n)'
  <2>1. CASE n \in 1..Len(sent)
    <3>1. m \in 1..Len(sent)
      BY <1>1, <1>2, <2>1
    <3>. QED
      BY <1>1, <1>2, <2>1, <3>1 DEF Ordered, InOrder
  <2>2. CASE n = Len(sent) + 1
    <3>1. m \in 1..Len(sent)
      BY <1>1, <1>2, <2>2
    <3>. QED
      BY <1>1, <2>2, <3>1 DEF InOrder
  <2>. QED
    BY <1>1, <2>1, <2>2
<1>. QED
  BY <1>1, <1>2 DEF Ordered

\* The notifications stay true and in order.
LEMMA NotesKept ==
  ASSUME OutputInv, OutputNext, OutputTypeOK'
  PROVE  Announced' /\ Ordered'
<1>0. OutputTypeOK /\ Numbered /\ Retains /\ Ending /\ Announced /\ Ordered
      /\ Len(made) \in Nat /\ Len(sent) \in Nat
  BY OutputTypeFacts DEF OutputInv
<1>1. ASSUME NEW s \in Streams, NEW size \in NextSizes, ChunkStep(s, size)
      PROVE  Announced' /\ Ordered'
  <2>1. /\ runner = "copying" /\ Ends = 0 /\ Ends' = 0 /\ sent' = sent
        /\ pending' = [pending EXCEPT ![s] = nextSeq]
        /\ Len(made') = Len(made) + 1 /\ nextSeq = Len(made) + 1
    BY <1>0, <1>1, ChunkAdded DEF ChunkStep, Retained, Ends
  <2>2. /\ pending'[s] = Len(made) + 1
        /\ \A t \in Streams \ {s} : pending'[t] = pending[t]
        /\ pending'["runner"] = pending["runner"]
    BY <1>0, <2>1 DEF OutputTypeOK, Streams
  <2>3. ASSUME NEW m \in 1..Len(sent) PROVE IsOutput(m)'
    <3>1. IsOutput(m)
      BY <2>1, OnlyOutput
    <3>. QED
      BY <1>0, <2>1, <2>2, <3>1 DEF IsOutput
  <2>4. Announced'
    <3>1. \A t \in Streams : pending'[t] \in 0..Len(made')
      BY <1>0, <2>1, <2>2 DEF Announced
    <3>2. pending'["runner"] = 0
      BY <1>0, <2>1, <2>2 DEF Announced
    <3>3. pending'["stdout"] # 0 => pending'["stdout"] # pending'["stderr"]
      BY <1>0, <2>1, <2>2 DEF Announced, Streams
    <3>. QED
      BY <2>1, <2>3, <3>1, <3>2, <3>3 DEF Announced
  <2>. QED
    BY <1>0, <2>1, <2>4 DEF Ordered, InOrder
<1>2. ASSUME NEW s \in Streams, Announce(s)
      PROVE  Announced' /\ Ordered'
  <2>. DEFINE note == [kind |-> s, seq |-> pending[s]]
  <2>1. /\ pending[s] # 0 /\ pending[s] \in 1..Len(made) /\ sent' = Append(sent, note)
        /\ UNCHANGED <<made, runner>> /\ Ends' = Ends
    BY <1>0, <1>2 DEF Announce, Announced, Ends
  <2>2. /\ pending'[s] = 0
        /\ \A t \in Streams \ {s} : pending'[t] = pending[t]
        /\ pending'["runner"] = pending["runner"]
    BY <1>0, <1>2 DEF Announce, OutputTypeOK, Streams
  <2>3. Ends = 0
    BY <1>0, <2>1 DEF Ending, Ends, Streams
  <2>4. \A m \in 1..Len(sent) : IsOutput(m)
    BY <2>3, OnlyOutput
  <2>5. /\ Len(sent') = Len(sent) + 1 /\ sent'[Len(sent) + 1] = note
        /\ \A m \in 1..Len(sent) : sent'[m] = sent[m]
        /\ Ordered'
    <3>1. note.kind \in Streams /\ note.kind \notin {"exited", "closed"}
      BY DEF Streams
    <3>2. \A m \in 1..Len(sent) :
            /\ sent[m].seq # note.seq
            /\ sent[m].kind = note.kind => note.kind \in Streams /\ sent[m].seq < note.seq
            /\ sent[m].kind = "exited" => note.kind = "closed"
            /\ sent[m].kind # "closed"
      BY <2>1, <2>4, <3>1 DEF IsOutput, Streams
    <3>. HIDE DEF note
    <3>. QED
      BY <1>0, <2>1, <3>2, Appended
  <2>6. ASSUME NEW m \in 1..Len(sent) PROVE IsOutput(m)'
    BY <2>1, <2>2, <2>4, <2>5 DEF IsOutput
  <2>7. ASSUME NEW m \in 1..Len(sent'), m = Len(sent) + 1 PROVE IsOutput(m)'
    <3>1. \A t \in Streams : pending'[t] # 0 => t # s /\ pending[s] # pending'[t]
      BY <1>0, <2>1, <2>2 DEF Announced, Streams
    <3>. QED
      BY <2>1, <2>5, <2>7, <3>1 DEF IsOutput
  <2>8. Announced'
    <3>1. \A t \in Streams : pending'[t] \in 0..Len(made')
      BY <1>0, <2>1, <2>2 DEF Announced
    <3>2. pending'["runner"] = 0
      BY <1>0, <2>2, <2>3 DEF Announced
    <3>3. pending'["stdout"] # 0 => pending'["stdout"] # pending'["stderr"]
      BY <1>0, <2>1, <2>2 DEF Announced, Streams
    <3>4. \A m \in 1..Len(sent') : IsOutput(m)'
      <4>. TAKE m \in 1..Len(sent')
      <4>1. m \in 1..Len(sent) \/ m = Len(sent) + 1
        BY <1>0, <2>5
      <4>. QED
        BY <2>6, <2>7, <4>1
    <3>. QED
      BY <3>1, <3>2, <3>3, <3>4 DEF Announced
  <2>. QED
    BY <2>5, <2>8
<1>3. ASSUME UNCHANGED <<made, sent>>,
             pending'["stdout"] = pending["stdout"], pending'["stderr"] = pending["stderr"],
             pending'["runner"] # 0 => Ends' > 0 /\ pending'["runner"] = Len(made) + Ends',
             \A m \in 1..Len(sent) : IsExit(m) \/ IsClose(m) => IsExit(m)' \/ IsClose(m)'
      PROVE  Announced' /\ Ordered'
  <2>1. \A s \in Streams : pending'[s] = pending[s]
    BY <1>3 DEF Streams
  <2>2. \A m \in 1..Len(sent) : IsOutput(m) => IsOutput(m)'
    BY <1>3, <2>1 DEF IsOutput
  <2>3. Ordered'
    BY <1>0, <1>3 DEF Ordered, InOrder
  <2>4. Announced'
    BY <1>0, <1>3, <2>1, <2>2 DEF Announced
  <2>. QED
    BY <2>3, <2>4
<1>4. CASE UNCHANGED <<made, sent, pending, runner>>
  BY <1>0, <1>3, <1>4 DEF Announced, IsExit, IsClose, Ends
<1>5. ASSUME runner \in {"copying", "flushed"}
      PROVE  \A m \in 1..Len(sent) : ~IsExit(m) /\ ~IsClose(m)
  BY <1>5 DEF IsExit, IsClose
<1>6. CASE EmptyFlush
  <2>1. Ends = 0 /\ Ends' = 0 /\ pending' = pending /\ UNCHANGED <<made, sent>>
    BY <1>6 DEF EmptyFlush, Ends
  <2>2. pending'["runner"] = 0
    BY <1>0, <2>1 DEF Announced
  <2>. QED
    BY <1>3, <1>5, <1>6, <2>1, <2>2 DEF EmptyFlush
<1>7. CASE Settle
  <2>1. /\ runner = "flushed" /\ UNCHANGED <<made, sent>> /\ Ends = 0 /\ Ends' = 1
        /\ pending' = [pending EXCEPT !["runner"] = nextSeq]
    BY <1>7 DEF Settle, Ends
  <2>2. pending'["runner"] = Len(made) + 1 /\ pending'["stdout"] = pending["stdout"]
        /\ pending'["stderr"] = pending["stderr"]
    BY <1>0, <2>1 DEF Numbered, OutputTypeOK, Streams
  <2>. QED
    BY <1>3, <1>5, <2>1, <2>2
<1>8. CASE AnnounceEnd
  <2>. DEFINE note == [kind |-> IF closed THEN "closed" ELSE "exited", seq |-> pending["runner"]]
  <2>1. /\ pending["runner"] # 0 /\ sent' = Append(sent, note) /\ Ends' = Ends
        /\ UNCHANGED <<made, runner>>
        /\ pending' = [pending EXCEPT !["runner"] = 0]
    BY <1>8 DEF AnnounceEnd, Ends
  <2>2. /\ pending'["runner"] = 0 /\ \A t \in Streams : pending'[t] = pending[t]
    BY <1>0, <2>1 DEF OutputTypeOK, Streams
  <2>3. /\ Ends \in {1, 2} /\ pending["runner"] = Len(made) + Ends
        /\ closed <=> Ends = 2
        /\ Ends = 1 <=> runner = "exited"
        /\ Ends = 2 <=> runner = "closed"
    BY <1>0, <2>1 DEF Announced, Ending, Ends
  <2>4. \A t \in Streams : pending[t] = 0
    BY <1>0, <2>3 DEF Ending, Streams
  <2>5. \A m \in 1..Len(sent) : IsOutput(m) \/ (IsExit(m) /\ Ends = 2)
    BY <1>0, <2>1, <2>3 DEF Announced, IsExit, IsClose
  <2>6. /\ note.kind = (IF Ends = 2 THEN "closed" ELSE "exited") /\ note.seq = Len(made) + Ends
    BY <2>3
  <2>. HIDE DEF note
  <2>7. /\ Len(sent') = Len(sent) + 1 /\ sent'[Len(sent) + 1] = note
        /\ \A m \in 1..Len(sent) : sent'[m] = sent[m]
        /\ Ordered'
    <3>1. \A m \in 1..Len(sent) :
            /\ sent[m].seq # note.seq
            /\ sent[m].kind = note.kind => note.kind \in Streams /\ sent[m].seq < note.seq
            /\ sent[m].kind = "exited" => note.kind = "closed"
            /\ sent[m].kind # "closed"
      <4>. TAKE m \in 1..Len(sent)
      <4>1. CASE IsOutput(m)
        BY <1>0, <2>3, <2>6, <4>1 DEF IsOutput, Streams
      <4>2. CASE IsExit(m) /\ Ends = 2
        BY <1>0, <2>6, <4>2 DEF IsExit
      <4>. QED
        BY <2>5, <4>1, <4>2
    <3>. QED
      BY <1>0, <2>1, <3>1, Appended
  <2>8. \A m \in 1..Len(sent) : IsOutput(m)' \/ IsExit(m)'
    <3>. TAKE m \in 1..Len(sent)
    <3>1. IsOutput(m) => IsOutput(m)'
      BY <2>1, <2>2, <2>4, <2>7 DEF IsOutput
    <3>2. IsExit(m) /\ Ends = 2 => IsExit(m)'
      BY <2>1, <2>3, <2>7 DEF IsExit
    <3>. QED
      BY <2>5, <3>1, <3>2
  <2>9. ASSUME NEW m \in 1..Len(sent'), m = Len(sent) + 1 PROVE IsExit(m)' \/ IsClose(m)'
    BY <2>1, <2>2, <2>3, <2>6, <2>7, <2>9 DEF IsExit, IsClose
  <2>10. Announced'
    <3>1. \A m \in 1..Len(sent') : IsOutput(m)' \/ IsExit(m)' \/ IsClose(m)'
      <4>. TAKE m \in 1..Len(sent')
      <4>1. m \in 1..Len(sent) \/ m = Len(sent) + 1
        BY <1>0, <2>7
      <4>. QED
        BY <2>8, <2>9, <4>1
    <3>2. \A t \in Streams : pending'[t] = 0
      BY <2>2, <2>4
    <3>. QED
      BY <1>0, <2>1, <2>2, <3>1, <3>2 DEF Announced, Streams
  <2>. QED
    BY <2>7, <2>10
<1>9. CASE Close
  <2>1. /\ runner = "exited" /\ runner' = "closed" /\ pending["runner"] = 0
        /\ UNCHANGED <<made, sent>> /\ Ends = 1 /\ Ends' = 2
        /\ pending' = [pending EXCEPT !["runner"] = nextSeq]
    BY <1>9 DEF Close, Ends
  <2>2. pending'["runner"] = Len(made) + 2 /\ pending'["stdout"] = pending["stdout"]
        /\ pending'["stderr"] = pending["stderr"]
    BY <1>0, <2>1 DEF Numbered, OutputTypeOK, Streams
  <2>3. \A m \in 1..Len(sent) : ~IsClose(m) /\ (IsExit(m) => IsExit(m)')
    BY <2>1 DEF IsClose, IsExit
  <2>. QED
    BY <1>3, <2>1, <2>2, <2>3
<1>10. ASSUME NEW s \in Streams, EndOfStream(s) PROVE Announced' /\ Ordered'
  BY <1>4, <1>10 DEF EndOfStream
<1>11. CASE Aim \/ Mark \/ Kill \/ UNCHANGED outputVars
  BY <1>4, <1>11 DEF Aim, Mark, Kill, process, outputVars
<1>12. ASSUME NEW r \in Readers, ReaderStep(r) PROVE Announced' /\ Ordered'
  BY <1>4, <1>12, ReadersAside
<1>. QED
  BY <1>1, <1>2, <1>6, <1>7, <1>8, <1>9, <1>10, <1>11, <1>12, OutputSteps

\* What a reader has stays right when the buffer grows or loses its oldest.
LEMMA FollowsKept ==
  ASSUME OutputTypeOK, NEW r \in Readers, Follows(r),
         afterSeq'[r] = afterSeq[r], given'[r] = given[r], told'[r] = told[r], paging' = paging,
         nextSeq' \in Nat, nextSeq <= nextSeq',
         outcome # "no" => outcome' # "no" /\ chunks' = chunks,
         \A n \in 1..Len(chunks') :
            chunks'[n].seq = nextSeq \/ \E m \in 1..Len(chunks) : chunks'[n] = chunks[m]
  PROVE  Follows(r)'
<1>1. afterSeq[r] \in Nat /\ nextSeq \in Nat /\ afterSeq[r] < nextSeq
  BY OutputTypeFacts DEF Follows
<1>2. ASSUME NEW n \in 1..Len(chunks'), chunks'[n].seq <= afterSeq[r]
      PROVE  chunks'[n].seq \in Range(given[r])
  <2>1. CASE \E m \in 1..Len(chunks) : chunks'[n] = chunks[m]
    BY <1>2, <2>1 DEF Follows
  <2>2. CASE chunks'[n].seq = nextSeq
    BY <1>1, <1>2, <2>2
  <2>. QED
    BY <2>1, <2>2
<1>3. ASSUME told[r] # "no"
      PROVE  /\ outcome' # "no"
             /\ r \notin paging => \A n \in 1..Len(chunks') : chunks'[n].seq <= afterSeq[r]
  BY <1>3 DEF Follows
<1>4. /\ \A n \in 1..Len(given[r]) : given[r][n] <= afterSeq[r]
      /\ \A m, n \in 1..Len(given[r]) : m < n => given[r][m] < given[r][n]
  BY DEF Follows
<1>5. afterSeq[r] < nextSeq'
  BY <1>1
<1>. QED
  BY <1>2, <1>3, <1>4, <1>5 DEF Follows

LEMMA ReadersKept ==
  ASSUME OutputInv, OutputNext, OutputTypeOK', NEW r \in Readers
  PROVE  Follows(r)'
<1>0. /\ OutputTypeOK /\ Numbered /\ Retains /\ Ending /\ Follows(r)
      /\ nextSeq \in Nat /\ nextSeq' \in Nat
  BY OutputTypeFacts DEF OutputInv, OutputTypeOK, Seqs
<1>1. ASSUME NEW s \in Streams, NEW size \in NextSizes, ChunkStep(s, size) PROVE Follows(r)'
  <2>1. UNCHANGED <<afterSeq, given, told, paging, outcome>> /\ nextSeq' = nextSeq + 1
        /\ runner = "copying"
    BY <1>1 DEF ChunkStep, Retained, reading
  <2>2. outcome = "no"
    BY <1>0, <2>1 DEF Ending
  <2>3. \A n \in 1..Len(chunks') :
            chunks'[n].seq = nextSeq \/ \E m \in 1..Len(chunks) : chunks'[n] = chunks[m]
    BY <1>0, <1>1, ChunkAdded DEF ChunkStep
  <2>. QED
    BY <1>0, <2>1, <2>2, <2>3, FollowsKept
<1>2. ASSUME UNCHANGED <<chunks, afterSeq, given, told, paging>>, nextSeq <= nextSeq',
             outcome # "no" => outcome' # "no"
      PROVE  Follows(r)'
  BY <1>0, <1>2, FollowsKept
<1>3. ASSUME NEW s \in Streams, Announce(s) \/ EndOfStream(s) PROVE Follows(r)'
  BY <1>0, <1>2, <1>3 DEF Announce, EndOfStream, reading
<1>4. CASE EmptyFlush \/ AnnounceEnd
  BY <1>0, <1>2, <1>4 DEF EmptyFlush, AnnounceEnd, reading
<1>5. CASE Settle \/ Close
  BY <1>0, <1>2, <1>5 DEF Settle, Close, reading
<1>6. CASE Aim \/ Mark \/ Kill \/ UNCHANGED outputVars
  BY <1>0, <1>2, <1>6 DEF Aim, Mark, Kill, process, reading, outputVars
<1>7. ASSUME NEW q \in Readers, ReaderStep(q) PROVE Follows(r)'
  <2>1. UNCHANGED <<chunks, nextSeq, outcome, paging>>
    BY <1>7, ReadersAside
  <2>2. CASE Answer(q)
    <3>1. CASE q = r
      BY <2>2, <3>1, AnswerFollows
    <3>2. CASE q # r
      <4>1. given'[r] = given[r] /\ afterSeq'[r] = afterSeq[r] /\ told'[r] = told[r]
        BY <1>0, <2>2, <3>2 DEF Answer, OutputTypeOK
      <4>. QED
        BY <1>0, <2>1, <4>1, FollowsKept
    <3>. QED
      BY <3>1, <3>2
  <2>3. CASE ~Answer(q)
    <3>1. UNCHANGED <<afterSeq, given, told>>
      BY <1>7, <2>3 DEF ReaderStep, Call, Wait, Wake, TimeOut
    <3>. QED
      BY <1>0, <1>2, <2>1, <3>1
  <2>. QED
    BY <2>2, <2>3
<1>. QED
  BY <1>1, <1>3, <1>4, <1>5, <1>6, <1>7, OutputSteps

\* The invariant holds in every reachable state.
THEOREM OutputInvariant == OutputSpec => []OutputInv
<1>1. OutputInv /\ [OutputNext]_outputVars => OutputInv'
  <2>1. ASSUME OutputInv, OutputNext PROVE OutputInv'
    BY <2>1, OutputTypeKept, BufferKept, EndingKept, NotesKept, ReadersKept DEF OutputInv
  <2>2. ASSUME OutputInv, UNCHANGED outputVars PROVE OutputInv'
    <3>1. UNCHANGED <<made, chunks, nextSeq, pump, pending, runner, outcome, closed, sent, killer,
                      terminated, cause, paging, afterSeq, given, told>> /\ OutputTypeOK'
      BY <2>2 DEF outputVars, OutputInv, OutputTypeOK
    <3>2. Numbered' /\ Retains'
      BY <2>2, <3>1 DEF OutputInv, Numbered, Retains, Lost, Ends, MaxChunks
    <3>3. Ending' /\ Announced' /\ Ordered'
      BY <2>2, <3>1 DEF OutputInv, Ending, Announced, Ordered, InOrder, IsOutput, IsExit,
         IsClose, Ends
    <3>4. \A r \in Readers : Follows(r)'
      BY <2>2, <3>1 DEF OutputInv, Follows
    <3>. QED
      BY <3>1, <3>2, <3>3, <3>4 DEF OutputInv
  <2>. QED
    BY <2>1, <2>2
<1>. QED
  BY <1>1, OutputInitially, PTL DEF OutputSpec

\* Type correctness of the output of a process.
THEOREM OutputTypes == OutputSpec => []OutputTypeOK
<1>1. OutputInv => OutputTypeOK
  BY DEF OutputInv
<1>. QED
  BY <1>1, OutputInvariant, PTL

\* A reader that follows nextSeq misses nothing that the buffer holds, and the
\* buffer holds the newest output, as much as the cap allows.
THEOREM OutputKept == OutputSpec => []OutputIsKept
<1>1. OutputInv => NothingSkipped
  <2>. SUFFICES ASSUME OutputInv, NEW r \in Readers
                PROVE  /\ \A m, n \in DOMAIN given[r] : m < n => given[r][m] < given[r][n]
                       /\ \A n \in DOMAIN chunks :
                             chunks[n].seq <= afterSeq[r] => chunks[n].seq \in Range(given[r])
    BY DEF NothingSkipped
  <2>1. DOMAIN given[r] = 1..Len(given[r]) /\ DOMAIN chunks = 1..Len(chunks)
    BY DEF OutputInv, OutputTypeOK
  <2>. QED
    BY <2>1 DEF OutputInv, Follows
<1>2. OutputInv => KeepsTheNewest
  <2>. SUFFICES ASSUME OutputInv PROVE KeepsTheNewest
    OBVIOUS
  <2>. DEFINE L == Len(made)
  <2>0. /\ Retains /\ made \in Seq(Chunk) /\ chunks \in Seq(Chunk) /\ L \in Nat
        /\ Len(chunks) \in Nat /\ Lost \in Nat /\ Lost + Len(chunks) = L /\ Retain \in Nat
    BY OutputTypeFacts, OutputAssumption DEF OutputInv, OutputTypeOK, Retains, Lost
  <2>1. chunks = SubSeq(made, Lost + 1, L)
    <3>. DEFINE tail == SubSeq(made, Lost + 1, L)
    <3>1. \A i \in (Lost + 1)..L : made[i] \in Chunk
      BY <2>0, ElementOfSeq
    <3>2. \/ tail \in Seq(Chunk) /\ Len(tail) = L - (Lost + 1) + 1
          \/ Lost + 1 > L /\ tail = <<>>
      BY <2>0, <3>1, SubSeqProperties, SubSeqEmpty
    <3>3. tail \in Seq(Chunk) /\ Len(tail) = Len(chunks)
      BY <2>0, <3>2
    <3>4. \A n \in 1..Len(chunks) : tail[n] = made[Lost + n]
      BY <2>0, <3>1, SubSeqProperties
    <3>5. \A n \in 1..Len(chunks) : chunks[n] = tail[n]
      BY <2>0, <3>4 DEF Retains
    <3>. HIDE DEF tail
    <3>6. chunks = tail
      BY <2>0, <3>3, <3>5, SeqEqual
    <3>. QED
      BY <3>6 DEF tail
  <2>2. Size(chunks) <= Retain \/ Len(chunks) = 1
    <3>1. CASE Len(chunks) = 0
      BY <2>0, <3>1 DEF Size
    <3>2. CASE Len(chunks) > 1
      <4>1. Lost + 1 \in 1..L /\ L \in (Lost + 1)..L
        BY <2>0, <3>2
      <4>2. Size(chunks) = made[L].upto - made[Lost + 1].from
        BY <2>0, <2>1, <4>1, SizeOfStretch
      <4>. QED
        BY <2>0, <3>2, <4>2 DEF Retains
    <3>3. Len(chunks) \in Nat
      BY <2>0
    <3>4. \A n \in Nat : n = 0 \/ n = 1 \/ n > 1
      OBVIOUS
    <3>. QED
      BY <3>1, <3>2, <3>3, <3>4, Zenon
  <2>3. Lost > 0 => Size(SubSeq(made, Lost, L)) > Retain
    <3>. SUFFICES ASSUME Lost > 0 PROVE Size(SubSeq(made, Lost, L)) > Retain
      OBVIOUS
    <3>1. Lost \in 1..L /\ L \in Lost..L
      BY <2>0
    <3>2. Size(SubSeq(made, Lost, L)) = made[L].upto - made[Lost].from
      BY <2>0, <3>1, SizeOfStretch
    <3>. QED
      BY <2>0, <3>2 DEF Retains
  <2>4. made # <<>> => chunks # <<>>
    BY <2>0 DEF Retains
  <2>. QED
    BY <2>1, <2>2, <2>3, <2>4 DEF KeepsTheNewest, Lost
<1>. QED
  BY <1>1, <1>2, OutputInvariant, PTL DEF OutputIsKept

\* The end of a process is told after all its output, once, and as what it was.
THEOREM EndTold == OutputSpec => []EndIsTold
<1>1. OutputInv => ExitMeansComplete
  <2>. SUFFICES ASSUME OutputInv, NEW r \in Readers \ paging, told[r] # "no",
                       NEW n \in DOMAIN chunks
                PROVE  chunks[n].seq \in Range(given[r])
    BY DEF ExitMeansComplete
  <2>1. DOMAIN chunks = 1..Len(chunks) /\ Follows(r)
    BY DEF OutputInv, OutputTypeOK
  <2>. QED
    BY <2>1 DEF Follows
<1>2. OutputInv => EndComesLast
  <2>. SUFFICES ASSUME OutputInv, NEW m \in DOMAIN sent, NEW n \in DOMAIN sent, m < n
                PROVE  /\ sent[m].seq # sent[n].seq
                       /\ sent[m].kind = sent[n].kind \/ sent[n].kind = "exited"
                             => sent[m].kind \in Streams /\ sent[m].seq < sent[n].seq
                       /\ sent[m].kind # "closed"
                       /\ sent[n].kind = "closed" =>
                             \A k \in 1..(n - 1) : sent[k].seq < sent[n].seq
                       /\ sent[m].kind = "exited" => sent[n].kind = "closed"
    BY DEF EndComesLast
  <2>1. /\ DOMAIN sent = 1..Len(sent) /\ Len(sent) \in Nat /\ Len(made) \in Nat
        /\ Ordered /\ \A k \in 1..Len(sent) : IsOutput(k) \/ IsExit(k) \/ IsClose(k)
    BY OutputTypeFacts DEF OutputInv, OutputTypeOK, Announced
  <2>2. InOrder(m, n)
    BY <2>1 DEF Ordered
  <2>3. ASSUME sent[n].kind = "exited"
        PROVE  sent[m].kind \in Streams /\ sent[m].seq < sent[n].seq
    <3>1. IsOutput(m)
      BY <2>1, <2>2, <2>3 DEF InOrder, IsExit, IsClose
    <3>2. sent[n].seq = Len(made) + 1
      BY <2>1, <2>3 DEF IsOutput, IsExit, IsClose, Streams
    <3>. QED
      BY <2>1, <3>1, <3>2 DEF IsOutput
  <2>4. ASSUME sent[n].kind = "closed", NEW k \in 1..(n - 1)
        PROVE  sent[k].seq < sent[n].seq
    <3>1. k \in 1..Len(sent) /\ n \in 1..Len(sent) /\ k < n
      BY <2>1
    <3>2. sent[n].seq = Len(made) + 2
      BY <2>1, <2>4 DEF IsOutput, IsExit, IsClose, Streams
    <3>3. sent[k].kind # "closed"
      BY <2>1, <3>1 DEF Ordered, InOrder
    <3>4. IsOutput(k) \/ IsExit(k)
      BY <2>1, <3>1, <3>3 DEF IsClose
    <3>. QED
      BY <2>1, <3>2, <3>4 DEF IsOutput, IsExit
  <2>. QED
    BY <2>2, <2>3, <2>4 DEF InOrder
<1>3. OutputInv => KilledIsNotLost
  BY DEF OutputInv, Ending, KilledIsNotLost
<1>. QED
  BY <1>1, <1>2, <1>3, OutputInvariant, PTL DEF EndIsTold
=============================================================================
