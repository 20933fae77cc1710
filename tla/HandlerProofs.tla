----------------------------- MODULE HandlerProofs -----------------------------
(***************************************************************************)
(* What Handler promises, for any number of requests, programs and         *)
(* connections.  The argument is that a stream carries at most one thing,  *)
(* a frame or an answer, and that a stream which may carry something is    *)
(* never sent on again: that is what p.broken is for.                      *)
(***************************************************************************)
EXTENDS Handler, FiniteSetTheorems, TLAPS

Whole(r) == [req |-> r, whole |-> TRUE]

\* p.mu: of the requests that are under way, one holds it.
TakesTurns ==
    \A r, q \in Requests :
        /\ pc[r] \in {"reopening", "opening", "sending", "writing", "waiting"}
        /\ pc[q] \in {"reopening", "opening", "sending", "writing", "waiting"}
        => r = q

\* A stream carries nothing, a frame, or an answer; one that is not open yet
\* carries nothing.  A whole frame has not been carried out, an answer has.
Carried(s) ==
    \/ wire[s] = <<>> /\ back[s] = <<>>
    \/ \E f \in Frames : wire[s] = <<f>> /\ back[s] = <<>>
    \/ \E q \in Requests : wire[s] = <<>> /\ back[s] = <<q>>

StreamsCarry ==
    /\ \A s \in Streams : Carried(s)
    /\ \A s \in Streams : s > cur => wire[s] = <<>> /\ back[s] = <<>>
    /\ \A s \in Streams : back[s] # <<>> => s \in answered
    /\ \A s \in Streams, r \in Requests : back[s] = <<r>> => applied[r] = 1
    /\ \A s \in Streams, r \in Requests : wire[s] = <<Whole(r)>> =>
            applied[r] = 0 /\ pc[r] \in {"waiting", "done"}
    /\ \A s, t \in Streams, r \in Requests :
            wire[s] = <<Whole(r)>> /\ wire[t] = <<Whole(r)>> => s = t

\* What broken says of the current stream.
StreamIsTrusted ==
    /\ \A r \in Requests : pc[r] \in {"sending", "writing", "waiting"} => broken = "no"
    /\ \A r \in Requests : pc[r] \in {"reopening", "opening"} => broken # "no"
    /\ broken = "no" /\ (\A r \in Requests : pc[r] # "waiting") =>
            wire[cur] = <<>> /\ back[cur] = <<>>
    /\ \A r \in Requests : pc[r] = "waiting" =>
            \/ wire[cur] = <<Whole(r)>> /\ back[cur] = <<>>
            \/ wire[cur] = <<>> /\ back[cur] = <<r>>

Accounted ==
    \A r \in Requests :
        /\ applied[r] \in {0, 1}
        /\ applied[r] = 1 => pc[r] \in {"waiting", "done"}
        /\ pc[r] # "done" => result[r] = NoAnswer
        /\ result[r] \in {NoAnswer, Failed, r}
        /\ result[r] = r => applied[r] = 1

\* A restart closes the stream that it replaces, and has a reason.
Replaced ==
    /\ open \subseteq {cur}
    /\ proven => cur \in answered
    /\ \A r \in Requests : pc[r] = "opening" => open = {} /\ cur \in answered \cup refused
    /\ RestartsAreEarned

IInv == TypeOK /\ TakesTurns /\ StreamsCarry /\ StreamIsTrusted /\ Accounted /\ Replaced

-----------------------------------------------------------------------------
\* A sequence of one, and what the operators of the model make of it.
LEMMA AppendToNothing ==
    ASSUME NEW f PROVE Append(<<>>, f) = <<f>>
OBVIOUS

LEMMA OneOnly ==
    ASSUME NEW S, NEW f \in S
    PROVE  /\ <<f>> \in Seq(S) /\ <<f>> # <<>>
           /\ Len(<<f>>) = 1 /\ Head(<<f>>) = f /\ Tail(<<f>>) = <<>>
           /\ SubSeq(<<f>>, 2, 1) = <<>>
OBVIOUS

\* Whoever is about to send or waits has the stream to himself.
LEMMA Turn ==
    ASSUME IInv, NEW r \in Requests, pc[r] \in {"sending", "writing", "waiting"}
    PROVE  /\ cur \in Streams /\ broken = "no"
           /\ \A q \in Requests \ {r} : pc[q] \in {"new", "done"}
           /\ pc[r] # "waiting" => wire[cur] = <<>> /\ back[cur] = <<>> /\ applied[r] = 0
           /\ pc[r] = "waiting" => \/ wire[cur] = <<Whole(r)>> /\ back[cur] = <<>>
                                   \/ wire[cur] = <<>> /\ back[cur] = <<r>>
PROOF
<1>1. cur \in Streams /\ broken = "no"
    BY DEF IInv, TypeOK, StreamIsTrusted
<1>2. \A q \in Requests \ {r} : pc[q] \in {"new", "done"}
    BY DEF IInv, TypeOK, TakesTurns
<1>3. pc[r] # "waiting" => wire[cur] = <<>> /\ back[cur] = <<>>
    BY <1>1, <1>2 DEF IInv, StreamIsTrusted
<1>4. pc[r] # "waiting" => applied[r] = 0
    BY DEF IInv, Accounted
<1>5. pc[r] = "waiting" => \/ wire[cur] = <<Whole(r)>> /\ back[cur] = <<>>
                           \/ wire[cur] = <<>> /\ back[cur] = <<r>>
    BY DEF IInv, StreamIsTrusted
<1> QED
    BY <1>1, <1>2, <1>3, <1>4, <1>5

\* An action that leaves the streams alone, and takes no request back.
LEMMA StreamsStay ==
    ASSUME IInv, UNCHANGED <<wire, back, answered, applied, cur>>,
           \A q \in Requests : pc[q] \in {"waiting", "done"} => pc'[q] \in {"waiting", "done"}
    PROVE  StreamsCarry'
PROOF
<1>1. StreamsCarry
    BY DEF IInv
<1>2. \A s \in Streams : Carried(s)'
    BY <1>1 DEF StreamsCarry, Carried
<1>3. \A s \in Streams, r \in Requests : wire[s] = <<Whole(r)>> =>
            applied'[r] = 0 /\ pc'[r] \in {"waiting", "done"}
    BY <1>1 DEF StreamsCarry
<1> QED
    BY <1>1, <1>2, <1>3 DEF StreamsCarry, Whole

LEMMA InitHolds == Init => IInv
PROOF
<1> SUFFICES ASSUME Init PROVE IInv
    OBVIOUS
<1>1. TypeOK
    <2>1. 1 \in Streams /\ 0 \in 0..MaxOverflow
        BY HandlerAssumption DEF Streams
    <2>2. wire \in [Streams -> Seq(Frames)] /\ back \in [Streams -> Seq(Requests)]
        BY DEF Init
    <2> QED
        BY <2>1, <2>2 DEF Init, TypeOK
<1>2. TakesTurns
    BY DEF Init, TakesTurns
<1>3. StreamsCarry
    BY DEF Init, StreamsCarry, Carried, Whole
<1>4. StreamIsTrusted
    BY HandlerAssumption DEF Init, StreamIsTrusted, Streams
<1>5. Accounted
    BY HandlerAssumption DEF Init, Accounted
<1>6. Replaced
    BY DEF Init, Replaced, RestartsAreEarned
<1> QED
    BY <1>1, <1>2, <1>3, <1>4, <1>5, <1>6 DEF IInv

LEMMA EnterKeeps ==
    ASSUME IInv, NEW r \in Requests, Enter(r)
    PROVE  IInv'
PROOF
<1>1. TypeOK'
    BY HandlerAssumption, OneOnly, AppendToNothing DEF IInv, TypeOK, Streams, Frames, Enter, stream, RefusedAChannel
<1>2. TakesTurns'
    BY DEF IInv, TypeOK, TakesTurns, Holding, Enter
<1>3. StreamsCarry'
    BY StreamsStay DEF IInv, TypeOK, Enter, stream
<1>4. StreamIsTrusted'
    BY DEF IInv, TypeOK, StreamIsTrusted, TakesTurns, Enter, stream
<1>5. Accounted'
    BY HandlerAssumption DEF IInv, TypeOK, Accounted, StreamIsTrusted, Enter, stream
<1>6. Replaced'
    BY DEF IInv, TypeOK, Replaced, RestartsAreEarned, Streams, Enter, stream, RefusedAChannel
<1> QED
    BY <1>1, <1>2, <1>3, <1>4, <1>5, <1>6 DEF IInv

LEMMA RefuseReopenKeeps ==
    ASSUME IInv, NEW r \in Requests, RefuseReopen(r)
    PROVE  IInv'
PROOF
<1>1. TypeOK'
    BY HandlerAssumption, OneOnly, AppendToNothing DEF IInv, TypeOK, Streams, Frames, RefuseReopen, Return, stream, RefusedAChannel
<1>2. TakesTurns'
    BY DEF IInv, TypeOK, TakesTurns, Holding, RefuseReopen, Return
<1>3. StreamsCarry'
    BY StreamsStay DEF IInv, TypeOK, RefuseReopen, Return, stream
<1>4. StreamIsTrusted'
    BY DEF IInv, TypeOK, StreamIsTrusted, TakesTurns, RefuseReopen, Return, stream
<1>5. Accounted'
    BY HandlerAssumption DEF IInv, TypeOK, Accounted, StreamIsTrusted, RefuseReopen, Return, stream
<1>6. Replaced'
    BY DEF IInv, TypeOK, Replaced, RestartsAreEarned, Streams, RefuseReopen, Return, stream, RefusedAChannel
<1> QED
    BY <1>1, <1>2, <1>3, <1>4, <1>5, <1>6 DEF IInv

LEMMA RestartKeeps ==
    ASSUME IInv, NEW r \in Requests, Restart(r)
    PROVE  IInv'
PROOF
<1>1. TypeOK'
    <2>1. overflow' \in 0..MaxOverflow
        BY HandlerAssumption DEF IInv, TypeOK, Restart
    <2> QED
        BY <2>1 DEF IInv, TypeOK, Restart
<1>2. TakesTurns'
    BY DEF IInv, TypeOK, TakesTurns, Holding, Restart
<1>3. StreamsCarry'
    BY StreamsStay DEF IInv, TypeOK, Restart, stream
<1>4. StreamIsTrusted'
    BY DEF IInv, TypeOK, StreamIsTrusted, TakesTurns, Restart, stream
<1>5. Accounted'
    BY HandlerAssumption DEF IInv, TypeOK, Accounted, StreamIsTrusted, Restart, stream
<1>6. Replaced'
    BY DEF IInv, TypeOK, Replaced, RestartsAreEarned, Streams, Restart, stream, RefusedAChannel
<1> QED
    BY <1>1, <1>2, <1>3, <1>4, <1>5, <1>6 DEF IInv

LEMMA OpenKeeps ==
    ASSUME IInv, NEW r \in Requests, Open(r)
    PROVE  IInv'
PROOF
<1>0. /\ cur \in Nat /\ cur + 1 \in Streams /\ cur + 1 # cur
      /\ cur' = cur + 1 /\ open' = open \cup {cur + 1}
      /\ pc[r] = "opening" /\ pc' = [pc EXCEPT ![r] = "sending"]
      /\ up' \subseteq up \cup {cur + 1}
      /\ refused \subseteq refused' /\ refused' \subseteq refused \cup {cur + 1}
      /\ broken' = "no" /\ proven' = FALSE
      /\ UNCHANGED <<result, over, wire, back, answered, applied, overflow, closer>>
    BY HandlerAssumption DEF IInv, TypeOK, Open, Streams
<1>1. TypeOK'
    BY <1>0 DEF IInv, TypeOK
<1>2. TakesTurns'
    BY DEF IInv, TypeOK, TakesTurns, Holding, Open
<1>3. StreamsCarry'
    <2>1. StreamsCarry
        BY DEF IInv
    <2>2. \A s \in Streams : Carried(s)'
        BY <1>0, <2>1 DEF StreamsCarry, Carried
    <2>3. \A s \in Streams : s > cur' => s > cur
        BY <1>0 DEF Streams
    <2>4. \A s \in Streams, q \in Requests : wire[s] = <<Whole(q)>> =>
            applied'[q] = 0 /\ pc'[q] \in {"waiting", "done"}
        BY <1>0, <2>1 DEF StreamsCarry, IInv, TypeOK
    <2> QED
        BY <1>0, <2>1, <2>2, <2>3, <2>4 DEF StreamsCarry, Whole
<1>4. StreamIsTrusted'
    <2>1. wire[cur + 1] = <<>> /\ back[cur + 1] = <<>>
        BY <1>0 DEF IInv, StreamsCarry
    <2>2. \A q \in Requests : q # r => pc[q] \notin {"reopening", "opening", "sending", "writing", "waiting"}
        BY <1>0 DEF IInv, TakesTurns
    <2>3. \A q \in Requests : pc'[q] \notin {"reopening", "opening", "waiting"}
        BY <1>0, <2>2 DEF IInv, TypeOK
    <2> QED
        BY <1>0, <2>1, <2>3 DEF StreamIsTrusted
<1>5. Accounted'
    BY HandlerAssumption DEF IInv, TypeOK, Accounted, StreamIsTrusted, Open, stream
<1>6. Replaced'
    <2>1. /\ open = {} /\ cur \in answered \cup refused
          /\ \A s \in 1..(cur - 1) : s \in answered \cup refused
        BY <1>0 DEF IInv, Replaced, RestartsAreEarned
    <2>2. \A s \in 1..((cur + 1) - 1) : s \in 1..(cur - 1) \/ s = cur
        BY <1>0
    <2>3. RestartsAreEarned'
        BY <1>0, <2>1, <2>2 DEF RestartsAreEarned
    <2>4. \A q \in Requests : pc'[q] # "opening"
        BY <1>0 DEF IInv, TypeOK, TakesTurns
    <2> QED
        BY <1>0, <2>1, <2>3, <2>4 DEF Replaced
<1> QED
    BY <1>1, <1>2, <1>3, <1>4, <1>5, <1>6 DEF IInv

LEMMA OpenFailsKeeps ==
    ASSUME IInv, NEW r \in Requests, OpenFails(r)
    PROVE  IInv'
PROOF
<1>1. TypeOK'
    BY HandlerAssumption, OneOnly, AppendToNothing DEF IInv, TypeOK, Streams, Frames, OpenFails, Return, stream, RefusedAChannel
<1>2. TakesTurns'
    BY DEF IInv, TypeOK, TakesTurns, Holding, OpenFails, Return
<1>3. StreamsCarry'
    BY StreamsStay DEF IInv, TypeOK, OpenFails, Return, stream
<1>4. StreamIsTrusted'
    BY DEF IInv, TypeOK, StreamIsTrusted, TakesTurns, OpenFails, Return, stream
<1>5. Accounted'
    BY HandlerAssumption DEF IInv, TypeOK, Accounted, StreamIsTrusted, OpenFails, Return, stream
<1>6. Replaced'
    BY DEF IInv, TypeOK, Replaced, RestartsAreEarned, Streams, OpenFails, Return, stream, RefusedAChannel
<1> QED
    BY <1>1, <1>2, <1>3, <1>4, <1>5, <1>6 DEF IInv

LEMMA ExpiredKeeps ==
    ASSUME IInv, NEW r \in Requests, Expired(r)
    PROVE  IInv'
PROOF
<1>1. TypeOK'
    BY HandlerAssumption, OneOnly, AppendToNothing DEF IInv, TypeOK, Streams, Frames, Expired, Return, stream, RefusedAChannel
<1>2. TakesTurns'
    BY DEF IInv, TypeOK, TakesTurns, Holding, Expired, Return
<1>3. StreamsCarry'
    BY StreamsStay DEF IInv, TypeOK, Expired, Return, stream
<1>4. StreamIsTrusted'
    BY DEF IInv, TypeOK, StreamIsTrusted, TakesTurns, Expired, Return, stream
<1>5. Accounted'
    BY HandlerAssumption DEF IInv, TypeOK, Accounted, StreamIsTrusted, Expired, Return, stream
<1>6. Replaced'
    BY DEF IInv, TypeOK, Replaced, RestartsAreEarned, Streams, Expired, Return, stream, RefusedAChannel
<1> QED
    BY <1>1, <1>2, <1>3, <1>4, <1>5, <1>6 DEF IInv

LEMMA BeginWriteKeeps ==
    ASSUME IInv, NEW r \in Requests, BeginWrite(r)
    PROVE  IInv'
PROOF
<1>1. TypeOK'
    BY HandlerAssumption, OneOnly, AppendToNothing DEF IInv, TypeOK, Streams, Frames, BeginWrite, stream, RefusedAChannel
<1>2. TakesTurns'
    BY DEF IInv, TypeOK, TakesTurns, Holding, BeginWrite
<1>3. StreamsCarry'
    BY StreamsStay DEF IInv, TypeOK, BeginWrite, stream
<1>4. StreamIsTrusted'
    BY DEF IInv, TypeOK, StreamIsTrusted, TakesTurns, BeginWrite, stream
<1>5. Accounted'
    BY HandlerAssumption DEF IInv, TypeOK, Accounted, StreamIsTrusted, BeginWrite, stream
<1>6. Replaced'
    BY DEF IInv, TypeOK, Replaced, RestartsAreEarned, Streams, BeginWrite, stream, RefusedAChannel
<1> QED
    BY <1>1, <1>2, <1>3, <1>4, <1>5, <1>6 DEF IInv

LEMMA SendKeeps ==
    ASSUME IInv, NEW r \in Requests, Send(r)
    PROVE  IInv'
PROOF
<1>0. /\ pc[r] = "writing" /\ pc' = [pc EXCEPT ![r] = "waiting"]
      /\ wire' = [wire EXCEPT ![cur] = <<Whole(r)>>]
      /\ UNCHANGED <<result, over, broken, proven, cur, open, up, refused, back,
                     answered, applied, overflow, closer>>
    BY Turn, AppendToNothing DEF Send, Whole
<1>. /\ cur \in Streams /\ wire[cur] = <<>> /\ back[cur] = <<>> /\ applied[r] = 0
     /\ broken = "no" /\ \A q \in Requests \ {r} : pc[q] \in {"new", "done"}
    BY <1>0, Turn
<1>w. /\ wire'[cur] = <<Whole(r)>>
      /\ \A s \in Streams : s # cur => wire'[s] = wire[s]
      /\ Whole(r) \in Frames /\ <<Whole(r)>> # <<>> /\ <<Whole(r)>> \in Seq(Frames)
      /\ \A q \in Requests : <<Whole(q)>> = <<Whole(r)>> => q = r
    <2>1. wire \in [Streams -> Seq(Frames)]
        BY DEF IInv, TypeOK
    <2>2. Whole(r) \in Frames /\ \A q \in Requests : Whole(q) = Whole(r) => q = r
        BY DEF Frames, Whole
    <2> QED
        BY <1>0, <2>1, <2>2, OneOnly
<1>1. TypeOK'
    BY <1>0, <1>w DEF IInv, TypeOK
<1>2. TakesTurns'
    BY DEF IInv, TypeOK, TakesTurns, Holding, Send
<1>3. StreamsCarry'
    <2>1. StreamsCarry
        BY DEF IInv
    <2>2. \A s \in Streams : Carried(s)'
        BY <1>0, <1>w, <2>1 DEF StreamsCarry, Carried
    <2>3. \A s \in Streams : s > cur => s # cur
        BY DEF Streams
    <2>4. \A s \in Streams : wire[s] # <<Whole(r)>>
        BY <1>0, <2>1 DEF StreamsCarry
    <2>5. \A s \in Streams, q \in Requests : wire'[s] = <<Whole(q)>> =>
            \/ s = cur /\ q = r
            \/ s # cur /\ q # r /\ wire[s] = <<Whole(q)>>
        BY <1>w, <2>4
    <2>6. \A q \in Requests : q # r => pc'[q] = pc[q]
        BY <1>0 DEF IInv, TypeOK
    <2>7. pc'[r] = "waiting"
        BY <1>0 DEF IInv, TypeOK
    <2>8. \A s \in Streams, q \in Requests : wire'[s] = <<Whole(q)>> =>
            applied[q] = 0 /\ pc'[q] \in {"waiting", "done"}
        BY <2>1, <2>5, <2>6, <2>7 DEF StreamsCarry
    <2>9. \A s, t \in Streams, q \in Requests :
            wire'[s] = <<Whole(q)>> /\ wire'[t] = <<Whole(q)>> => s = t
        BY <2>1, <2>5 DEF StreamsCarry
    <2> QED
        BY <1>0, <1>w, <2>1, <2>2, <2>3, <2>8, <2>9 DEF StreamsCarry, Whole
<1>4. StreamIsTrusted'
    <2>1. \A q \in Requests : pc'[q] = IF q = r THEN "waiting" ELSE pc[q]
        BY <1>0 DEF IInv, TypeOK
    <2>2. \A q \in Requests : pc'[q] \in {"new", "done"} \/ (q = r /\ pc'[q] = "waiting")
        BY <2>1
    <2>3. \A q \in Requests : pc'[q] = "waiting" =>
            wire'[cur'] = <<Whole(q)>> /\ back'[cur'] = <<>>
        BY <1>0, <1>w, <2>2
    <2>4. pc'[r] = "waiting" /\ broken' = "no"
        BY <1>0, <2>1
    <2> QED
        BY <1>0, <2>2, <2>3, <2>4 DEF StreamIsTrusted, Whole
<1>5. Accounted'
    BY HandlerAssumption DEF IInv, TypeOK, Accounted, StreamIsTrusted, Send, stream
<1>6. Replaced'
    BY DEF IInv, TypeOK, Replaced, RestartsAreEarned, Streams, Send, stream, RefusedAChannel
<1> QED
    BY <1>1, <1>2, <1>3, <1>4, <1>5, <1>6 DEF IInv

LEMMA SendFailsKeeps ==
    ASSUME IInv, NEW r \in Requests, SendFails(r)
    PROVE  IInv'
PROOF
<1>0. /\ pc[r] = "writing" /\ pc' = [pc EXCEPT ![r] = "done"]
      /\ result' = [result EXCEPT ![r] = Failed] /\ broken' = "torn"
      /\ UNCHANGED <<over, proven, cur, open, up, refused, back,
                     answered, applied, overflow, closer>>
    BY DEF SendFails, Return
<1>. DEFINE part == [req |-> r, whole |-> FALSE]
<1>w. wire' = wire \/ wire' = [wire EXCEPT ![cur] = <<part>>]
    BY <1>0, Turn, AppendToNothing DEF SendFails
<1>. /\ cur \in Streams /\ wire[cur] = <<>> /\ back[cur] = <<>>
     /\ \A q \in Requests \ {r} : pc[q] \in {"new", "done"}
    BY <1>0, Turn
<1>p. /\ part \in Frames /\ <<part>> # <<>> /\ <<part>> \in Seq(Frames)
      /\ \A q \in Requests : <<part>> # <<Whole(q)>>
    BY DEF Frames, Whole
<1>. HIDE DEF part
<1>1. TypeOK'
    <2>1. wire' \in [Streams -> Seq(Frames)]
        BY <1>w, <1>p DEF IInv, TypeOK
    <2> QED
        BY HandlerAssumption, <1>0, <2>1 DEF IInv, TypeOK
<1>2. TakesTurns'
    BY DEF IInv, TypeOK, TakesTurns, Holding, SendFails, Return
<1>3. StreamsCarry'
    <2>1. StreamsCarry
        BY DEF IInv
    <2>2. \A s \in Streams : wire'[s] = wire[s] \/ (s = cur /\ wire'[s] = <<part>>)
        <3>1. wire \in [Streams -> Seq(Frames)]
            BY DEF IInv, TypeOK
        <3> QED
            BY <1>w, <3>1
    <2>3. \A s \in Streams : Carried(s)'
        BY <1>0, <1>p, <2>1, <2>2 DEF StreamsCarry, Carried
    <2>4. \A s \in Streams : s > cur => s # cur
        BY DEF Streams
    <2>5. \A s \in Streams, q \in Requests :
            wire'[s] = <<Whole(q)>> => wire[s] = <<Whole(q)>>
        BY <1>p, <2>2
    <2>6. \A q \in Requests : pc[q] \in {"waiting", "done"} => pc'[q] \in {"waiting", "done"}
        BY <1>0 DEF IInv, TypeOK
    <2>7. \A s \in Streams : s > cur => wire'[s] = <<>> /\ back[s] = <<>>
        BY <2>1, <2>2, <2>4 DEF StreamsCarry
    <2>8. \A s \in Streams, q \in Requests : wire'[s] = <<Whole(q)>> =>
            applied[q] = 0 /\ pc'[q] \in {"waiting", "done"}
        BY <2>1, <2>5, <2>6 DEF StreamsCarry
    <2>9. \A s, t \in Streams, q \in Requests :
            wire'[s] = <<Whole(q)>> /\ wire'[t] = <<Whole(q)>> => s = t
        BY <2>1, <2>5 DEF StreamsCarry
    <2> QED
        BY <1>0, <2>1, <2>3, <2>7, <2>8, <2>9 DEF StreamsCarry, Whole
<1>4. StreamIsTrusted'
    BY DEF IInv, TypeOK, StreamIsTrusted, TakesTurns, SendFails, Return, stream
<1>5. Accounted'
    BY HandlerAssumption DEF IInv, TypeOK, Accounted, StreamIsTrusted, SendFails, Return, stream
<1>6. Replaced'
    BY DEF IInv, TypeOK, Replaced, RestartsAreEarned, Streams, SendFails, Return, stream, RefusedAChannel
<1> QED
    BY <1>1, <1>2, <1>3, <1>4, <1>5, <1>6 DEF IInv

LEMMA ReceiveKeeps ==
    ASSUME IInv, NEW r \in Requests, Receive(r)
    PROVE  IInv'
PROOF
<1>. /\ pc[r] = "waiting" /\ cur \in Streams /\ broken = "no"
     /\ \A q \in Requests \ {r} : pc[q] \in {"new", "done"}
     /\ wire[cur] = <<>> /\ back[cur] = <<r>>
    BY Turn DEF Receive
<1>0. /\ pc' = [pc EXCEPT ![r] = "done"] /\ result' = [result EXCEPT ![r] = r]
      /\ back' = [back EXCEPT ![cur] = <<>>] /\ proven' = TRUE
      /\ UNCHANGED <<over, broken, cur, open, up, refused, wire, answered, applied,
                     overflow, closer>>
    BY OneOnly DEF Receive, Return
<1>a. cur \in answered /\ applied[r] = 1 /\ <<r>> # <<>>
    BY DEF IInv, StreamsCarry
<1>b. /\ back'[cur] = <<>>
      /\ \A s \in Streams : s # cur => back'[s] = back[s]
    BY <1>0 DEF IInv, TypeOK
<1>c. \A q \in Requests : pc'[q] = IF q = r THEN "done" ELSE pc[q]
    BY <1>0 DEF IInv, TypeOK
<1>1. TypeOK'
    BY <1>0 DEF IInv, TypeOK
<1>2. TakesTurns'
    BY <1>c DEF TakesTurns
<1>3. StreamsCarry'
    <2>1. StreamsCarry
        BY DEF IInv
    <2>2. \A s \in Streams : Carried(s)'
        BY <1>0, <1>b, <2>1 DEF StreamsCarry, Carried
    <2>3. \A s \in Streams, q \in Requests : wire[s] = <<Whole(q)>> =>
            applied[q] = 0 /\ pc'[q] \in {"waiting", "done"}
        BY <1>c, <2>1 DEF StreamsCarry
    <2>4. \A s \in Streams, q \in Requests : back'[s] = <<q>> => applied[q] = 1
        BY <1>b, <2>1 DEF StreamsCarry
    <2> QED
        BY <1>0, <1>b, <2>1, <2>2, <2>3, <2>4 DEF StreamsCarry, Whole
<1>4. StreamIsTrusted'
    BY <1>0, <1>b, <1>c DEF StreamIsTrusted
<1>5. Accounted'
    <2>1. \A q \in Requests : result'[q] = IF q = r THEN r ELSE result[q]
        BY <1>0 DEF IInv, TypeOK
    <2> QED
        BY <1>0, <1>a, <1>c, <2>1 DEF IInv, Accounted
<1>6. Replaced'
    BY <1>0, <1>a, <1>c DEF IInv, Replaced, RestartsAreEarned
<1> QED
    BY <1>1, <1>2, <1>3, <1>4, <1>5, <1>6 DEF IInv

LEMMA ReadFailsKeeps ==
    ASSUME IInv, NEW r \in Requests, ReadFails(r)
    PROVE  IInv'
PROOF
<1>1. TypeOK'
    BY HandlerAssumption, OneOnly, AppendToNothing DEF IInv, TypeOK, Streams, Frames, ReadFails, Return, stream, RefusedAChannel
<1>2. TakesTurns'
    BY DEF IInv, TypeOK, TakesTurns, Holding, ReadFails, Return
<1>3. StreamsCarry'
    BY StreamsStay DEF IInv, TypeOK, ReadFails, Return, stream
<1>4. StreamIsTrusted'
    BY DEF IInv, TypeOK, StreamIsTrusted, TakesTurns, ReadFails, Return, stream
<1>5. Accounted'
    BY HandlerAssumption DEF IInv, TypeOK, Accounted, StreamIsTrusted, ReadFails, Return, stream
<1>6. Replaced'
    BY DEF IInv, TypeOK, Replaced, RestartsAreEarned, Streams, ReadFails, Return, stream, RefusedAChannel
<1> QED
    BY <1>1, <1>2, <1>3, <1>4, <1>5, <1>6 DEF IInv

LEMMA AbandonKeeps ==
    ASSUME IInv, NEW r \in Requests, Abandon(r)
    PROVE  IInv'
PROOF
<1>1. TypeOK'
    BY HandlerAssumption, OneOnly, AppendToNothing DEF IInv, TypeOK, Streams, Frames, Abandon, Return, stream, RefusedAChannel
<1>2. TakesTurns'
    BY DEF IInv, TypeOK, TakesTurns, Holding, Abandon, Return
<1>3. StreamsCarry'
    BY StreamsStay DEF IInv, TypeOK, Abandon, Return, stream
<1>4. StreamIsTrusted'
    BY DEF IInv, TypeOK, StreamIsTrusted, TakesTurns, Abandon, Return, stream
<1>5. Accounted'
    BY HandlerAssumption DEF IInv, TypeOK, Accounted, StreamIsTrusted, Abandon, Return, stream
<1>6. Replaced'
    BY DEF IInv, TypeOK, Replaced, RestartsAreEarned, Streams, Abandon, Return, stream, RefusedAChannel
<1> QED
    BY <1>1, <1>2, <1>3, <1>4, <1>5, <1>6 DEF IInv

LEMMA CtxEndsKeeps ==
    ASSUME IInv, NEW r \in Requests, CtxEnds(r)
    PROVE  IInv'
PROOF
<1>1. TypeOK'
    BY HandlerAssumption, OneOnly, AppendToNothing DEF IInv, TypeOK, Streams, Frames, CtxEnds, stream, RefusedAChannel
<1>2. TakesTurns'
    BY DEF IInv, TypeOK, TakesTurns, Holding, CtxEnds
<1>3. StreamsCarry'
    BY StreamsStay DEF IInv, TypeOK, CtxEnds, stream
<1>4. StreamIsTrusted'
    BY DEF IInv, TypeOK, StreamIsTrusted, TakesTurns, CtxEnds, stream
<1>5. Accounted'
    BY HandlerAssumption DEF IInv, TypeOK, Accounted, StreamIsTrusted, CtxEnds, stream
<1>6. Replaced'
    BY DEF IInv, TypeOK, Replaced, RestartsAreEarned, Streams, CtxEnds, stream, RefusedAChannel
<1> QED
    BY <1>1, <1>2, <1>3, <1>4, <1>5, <1>6 DEF IInv

LEMMA ServeKeeps ==
    ASSUME IInv, NEW s \in Streams, Serve(s)
    PROVE  IInv'
PROOF
<1>. DEFINE q == Head(wire[s]).req
<1>1. /\ q \in Requests /\ wire[s] = <<Whole(q)>> /\ back[s] = <<>>
    <2>1. PICK f \in Frames : wire[s] = <<f>> /\ back[s] = <<>>
        BY DEF Serve, IInv, StreamsCarry, Carried
    <2>2. Head(wire[s]) = f /\ Len(wire[s]) = 1
        BY <2>1, OneOnly
    <2>3. f.whole = TRUE /\ f.req \in Requests
        BY <2>2 DEF Serve, Frames
    <2>4. f = Whole(f.req)
        BY <2>3 DEF Frames, Whole
    <2> QED
        BY <2>1, <2>2, <2>3, <2>4
<1>2. /\ wire' = [wire EXCEPT ![s] = <<>>] /\ back' = [back EXCEPT ![s] = <<q>>]
      /\ applied' = [applied EXCEPT ![q] = @ + 1]
      /\ answered' = answered \cup {s}
      /\ UNCHANGED <<pc, result, over, broken, proven, cur, open, up, refused,
                     overflow, closer>>
    <2>1. Head(wire[s]) = Whole(q) /\ Len(wire[s]) = 1 /\ Whole(q).whole = TRUE
        BY <1>1, OneOnly DEF Whole
    <2>2. SubSeq(wire[s], 1 + 1, Len(wire[s])) = <<>>
        BY <1>1, <2>1, OneOnly
    <2> QED
        BY <1>1, <2>1, <2>2, AppendToNothing DEF Serve
<1>. HIDE DEF q
<1>3. /\ applied[q] = 0 /\ pc[q] \in {"waiting", "done"} /\ s <= cur
      /\ \A t \in Streams : wire[t] = <<Whole(q)>> => t = s
      /\ <<Whole(q)>> # <<>> /\ <<q>> # <<>>
    <2>1. <<Whole(q)>> # <<>> /\ <<q>> # <<>>
        OBVIOUS
    <2>2. applied[q] = 0 /\ pc[q] \in {"waiting", "done"}
        BY <1>1 DEF IInv, StreamsCarry
    <2>3. s \in Nat /\ cur \in Nat /\ ~(s > cur)
        <3>1. s \in Nat /\ cur \in Nat
            BY DEF IInv, TypeOK, Streams
        <3>2. s > cur => wire[s] = <<>>
            BY DEF IInv, StreamsCarry
        <3> QED
            BY <1>1, <2>1, <3>1, <3>2
    <2>4. \A t \in Streams : wire[t] = <<Whole(q)>> => t = s
        BY <1>1 DEF IInv, StreamsCarry
    <2> QED
        BY <2>1, <2>2, <2>3, <2>4
<1>4. /\ wire'[s] = <<>> /\ back'[s] = <<q>>
      /\ \A t \in Streams : t # s => wire'[t] = wire[t] /\ back'[t] = back[t]
    BY <1>2 DEF IInv, TypeOK
<1>5. /\ applied'[q] = 1
      /\ \A r \in Requests : r # q => applied'[r] = applied[r]
    BY <1>1, <1>2, <1>3 DEF IInv, TypeOK
<1>6. TypeOK'
    <2>1. wire' \in [Streams -> Seq(Frames)] /\ back' \in [Streams -> Seq(Requests)]
        BY <1>1, <1>2, OneOnly DEF IInv, TypeOK
    <2>2. applied' \in [Requests -> Nat] /\ answered' \in SUBSET Streams
        BY <1>1, <1>2 DEF IInv, TypeOK
    <2> QED
        BY <1>2, <2>1, <2>2 DEF IInv, TypeOK
<1>7. TakesTurns'
    BY <1>2 DEF IInv, TakesTurns
<1>8. StreamsCarry'
    <2>1. StreamsCarry
        BY DEF IInv
    <2>2. \A t \in Streams : Carried(t)'
        BY <1>1, <1>4, <2>1 DEF StreamsCarry, Carried
    <2>3. \A t \in Streams : t > cur => wire'[t] = <<>> /\ back'[t] = <<>>
        <3>1. \A t \in Streams : t > cur => t # s
            BY <1>3 DEF IInv, TypeOK, Streams
        <3> QED
            BY <1>4, <2>1, <3>1 DEF StreamsCarry
    <2>4. \A t \in Streams : back'[t] # <<>> => t \in answered'
        BY <1>2, <1>4, <2>1 DEF StreamsCarry
    <2>5. \A t \in Streams, r \in Requests : back'[t] = <<r>> => applied'[r] = 1
        <3>1. \A r \in Requests : <<q>> = <<r>> => q = r
            OBVIOUS
        <3> QED
            BY <1>4, <1>5, <2>1, <3>1 DEF StreamsCarry
    <2>6. \A t \in Streams, r \in Requests : wire'[t] = <<Whole(r)>> =>
            t # s /\ r # q /\ wire[t] = <<Whole(r)>>
        BY <1>3, <1>4
    <2>7. \A t \in Streams, r \in Requests : wire'[t] = <<Whole(r)>> =>
            applied'[r] = 0 /\ pc[r] \in {"waiting", "done"}
        BY <1>5, <2>1, <2>6 DEF StreamsCarry
    <2>8. \A t, u \in Streams, r \in Requests :
            wire'[t] = <<Whole(r)>> /\ wire'[u] = <<Whole(r)>> => t = u
        BY <2>1, <2>6 DEF StreamsCarry
    <2> QED
        BY <1>2, <2>2, <2>3, <2>4, <2>5, <2>7, <2>8 DEF StreamsCarry, Whole
<1>9. StreamIsTrusted'
    <2>1. StreamIsTrusted
        BY DEF IInv
    <2>2. CASE s = cur
        <3>1. \A r \in Requests : pc[r] = "waiting" => r = q
            <4>1. \A r \in Requests : <<Whole(r)>> = <<Whole(q)>> => r = q
                BY DEF Whole
            <4>2. wire[cur] = <<Whole(q)>> /\ wire[cur] # <<>>
                BY <1>1, <1>3, <2>2
            <4> QED
                BY <4>1, <4>2, <2>1 DEF StreamIsTrusted
        <3>2. broken = "no" => \E r \in Requests : pc[r] = "waiting"
            BY <1>1, <1>3, <2>1, <2>2 DEF StreamIsTrusted
        <3> QED
            BY <1>2, <1>4, <2>1, <2>2, <3>1, <3>2 DEF StreamIsTrusted, Whole
    <2>3. CASE s # cur
        BY <1>2, <1>4, <2>1, <2>3 DEF StreamIsTrusted, Whole, IInv, TypeOK
    <2> QED
        BY <2>2, <2>3
<1>10. Accounted'
    BY <1>2, <1>3, <1>5 DEF IInv, Accounted
<1>11. Replaced'
    BY <1>2 DEF IInv, Replaced, RestartsAreEarned
<1> QED
    BY <1>6, <1>7, <1>8, <1>9, <1>10, <1>11 DEF IInv

\* Exit, Close and rest touch nothing that the argument is about but open.
LEMMA OthersKeep ==
    ASSUME IInv,
           UNCHANGED <<pc, result, over, broken, proven, cur, refused, wire, back,
                       answered, applied, overflow>>,
           up' \subseteq up, open' \subseteq open, closer' \in {"no", "closing", "done"}
    PROVE  IInv'
PROOF
<1>1. TypeOK'
    BY DEF IInv, TypeOK
<1>2. StreamsCarry'
    BY StreamsStay DEF IInv
<1>3. Replaced'
    BY DEF IInv, Replaced, RestartsAreEarned
<1> QED
    BY <1>1, <1>2, <1>3 DEF IInv, TakesTurns, StreamIsTrusted, Accounted, Whole

LEMMA StepKeeps == IInv /\ [Next]_vars => IInv'
PROOF
<1> SUFFICES ASSUME IInv, [Next]_vars PROVE IInv'
    OBVIOUS
<1>1. CASE UNCHANGED vars
    BY <1>1, OthersKeep DEF vars, IInv, TypeOK
<1>2. ASSUME NEW r \in Requests, Step(r) PROVE IInv'
    BY <1>2, EnterKeeps, RefuseReopenKeeps, RestartKeeps, OpenKeeps, OpenFailsKeeps,
       ExpiredKeeps, BeginWriteKeeps, SendKeeps, SendFailsKeeps, ReceiveKeeps,
       ReadFailsKeeps, AbandonKeeps DEF Step, WriteEnds
<1>3. ASSUME NEW r \in Requests, Send(r) \/ SendFails(r) \/ CtxEnds(r) PROVE IInv'
    BY <1>3, SendKeeps, SendFailsKeeps, CtxEndsKeeps
<1>4. ASSUME NEW s \in Streams, Serve(s) PROVE IInv'
    BY <1>4, ServeKeeps
<1>5. ASSUME NEW s \in Streams, Exit(s) PROVE IInv'
    BY <1>5, OthersKeep DEF Exit, IInv, TypeOK
<1>6. CASE CloseBegins \/ CloseEnds
    BY <1>6, OthersKeep DEF CloseBegins, CloseEnds, stream, IInv, TypeOK
<1>7. CASE Rest
    BY <1>1, <1>7 DEF Rest
<1> QED
    BY <1>1, <1>2, <1>3, <1>4, <1>5, <1>6, <1>7 DEF Next
-----------------------------------------------------------------------------
\* The inductive invariant is an invariant.
THEOREM Invariant == Spec => []IInv
PROOF
<1>1. Init => IInv
    BY InitHolds
<1>2. IInv /\ [Next]_vars => IInv'
    BY StepKeeps
<1> QED
    BY <1>1, <1>2, PTL DEF Spec

\* The type invariant, for any number of requests, programs and connections.
THEOREM TypeCorrect == Spec => []TypeOK
PROOF
<1>1. IInv => TypeOK
    BY DEF IInv
<1> QED
    BY <1>1, Invariant, PTL

(***************************************************************************)
(* A request returns an error or its own answer, and what is about to be   *)
(* sent goes onto a stream that carries nothing: p.broken alone sees to    *)
(* it, with no response id compared (pipe.go).                             *)
(***************************************************************************)
THEOREM AnswersAreOwn == Spec => []NothingIsMixedUp
PROOF
<1>1. ASSUME IInv PROVE NothingIsMixedUp
    <2>1. AnswerIsOwn
        BY <1>1 DEF IInv, Accounted, AnswerIsOwn
    <2>2. StreamIsQuiet
        BY <1>1, Turn DEF StreamIsQuiet
    <2> QED
        BY <2>1, <2>2 DEF NothingIsMixedUp
<1> QED
    BY <1>1, Invariant, PTL

(***************************************************************************)
(* No request is carried out twice on the target, and one that returned an *)
(* answer was carried out: a stream is never sent on again with something  *)
(* on it, and a request is sent at most once.                              *)
(***************************************************************************)
THEOREM NoRequestTwice == Spec => []AppliedAtMostOnce
PROOF
<1>1. ASSUME IInv PROVE AppliedAtMostOnce
    BY <1>1 DEF IInv, Accounted, AppliedAtMostOnce
<1> QED
    BY <1>1, Invariant, PTL

(***************************************************************************)
(* reopen starts a program only where one answered or was refused a        *)
(* channel, and never beside one whose stream is open.                     *)
(***************************************************************************)
THEOREM RestartsHaveAReason == Spec => []RestartsAreOrderly
PROOF
<1>1. ASSUME IInv PROVE RestartsAreOrderly
    <2>1. open \subseteq {cur} /\ RestartsAreEarned
        BY <1>1 DEF IInv, Replaced
    <2>2. open = {} \/ open = {cur}
        BY <2>1
    <2>3. Cardinality({}) = 0 /\ Cardinality({cur}) = 1
        BY FS_EmptySet, FS_Singleton
    <2>4. OneProgram
        BY <2>2, <2>3 DEF OneProgram
    <2> QED
        BY <2>1, <2>4 DEF RestartsAreOrderly
<1> QED
    BY <1>1, Invariant, PTL
=============================================================================
