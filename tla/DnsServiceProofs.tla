---------------------------- MODULE DnsServiceProofs ----------------------------
(* DnsUpstream implements DnsService, and an answer that has arrived is kept:  *)
(* for any number of queries and message IDs and every environment.            *)
EXTENDS DnsUpstreamProofs

-----------------------------------------------------------------------------
(* AnswerKept. *)

\* A step of one query changes no other query's call.
LEMMA OthersKept ==
    ASSUME TypeOK, NEW p \in Query, NEW q \in Query, p # q,
           Arrive(p) \/ OwnStep(p) \/ PeerStep(p)
    PROVE  query'[q] = query[q]
  BY DEF TypeOK, Arrive, OwnStep, PeerStep, GetStream, DialOk, DialFails, DialExpires, Register,
         RegisterFails, WriteFrame, WriteExpires, WriteBreaks, NoteWritten, TakeAnswer, SeeDone,
         Timer, Abandon, ReturnAnswer, Retire, Goto, Leave, Return, Answered

\* A return changes the returning call only, and says why.
LEMMA ReturnCall ==
    ASSUME TypeOK, NEW q \in Query, NEW why, Return(q, why)
    PROVE  query'[q].at = "done" /\ query'[q].err = why
  <1> DEFINE r == [NewCall EXCEPT !.at = "done", !.tries = query[q].tries,
                                  !.err = why, !.got = query[q].got]
  <1>1. r.at = "done" /\ r.err = why
    BY DEF NewCall
  <1>2. query' = [query EXCEPT ![q] = r]
    BY DEF Return
  <1> HIDE DEF r
  <1> QED
    BY <1>1, <1>2 DEF TypeOK

\* A step of a stream moves no query.
LEMMA NobodyMoved ==
    ASSUME TypeOK, NEW s \in Stream, StreamStep(s), NEW q \in Query
    PROVE  query'[q].at = query[q].at /\ query'[q].err = query[q].err
  <1>1. query[q] \in Call
    BY DEF TypeOK
  <1>2. CASE Deliver(s)
    BY <1>1, <1>2 DEF Deliver, Call
  <1>3. CASE Traffic(s)
    BY <1>1, <1>3 DEF Traffic, Call
  <1>4. CASE ReadFrame(s) \/ BreakStream(s) \/ IdleTeardown(s)
    BY <1>4 DEF ReadFrame, BreakStream, IdleTeardown
  <1> QED
    BY <1>2, <1>3, <1>4 DEF StreamStep

\* A query with an answer in its channel leaves its wait with it, or late.
LEMMA AnswerStep ==
    ASSUME TypeOK, [Next]_vars, NEW q \in Query,
           At(q, "wait"), query[q].ch # None, query'[q].at = "leave"
    PROVE  query'[q].err = "ok" \/ Late(q)
  <1>1. query[q] \in Call /\ query[q].at = "wait"
    BY DEF TypeOK, At
  <1>2. CASE Arrive(q) \/ OwnStep(q) \/ PeerStep(q)
    <2>1. CASE Answered(q)
      BY <1>1, <2>1 DEF Answered, TypeOK, Call
    <2>2. CASE Timer(q)
      BY <2>2 DEF Timer
    <2>3. CASE Arrive(q)
      BY <1>1, <2>3 DEF Arrive, Goto, TypeOK, Call
    <2> QED
      BY <1>1, <1>2, <2>1, <2>2, <2>3
         DEF OwnStep, PeerStep, At, GetStream, DialOk, DialFails, DialExpires, Register,
             RegisterFails, MayWrite, WriteFrame, WriteExpires, WriteBreaks, NoteWritten,
             TakeAnswer, SeeDone, Abandon, ReturnAnswer, Retire
  <1>3. ASSUME NEW p \in Query, p # q, Arrive(p) \/ OwnStep(p) \/ PeerStep(p)
        PROVE  FALSE
    BY <1>1, <1>3, OthersKept
  <1>4. ASSUME NEW s \in Stream, StreamStep(s)
        PROVE  FALSE
    BY <1>1, <1>4, NobodyMoved
  <1>5. CASE Expire \/ CloseBegin \/ CloseEnd \/ UNCHANGED vars
    BY <1>1, <1>5 DEF Expire, CloseBegin, CloseEnd, vars
  <1> QED
    BY <1>2, <1>3, <1>4, <1>5 DEF Next

\* An answer that reached its query while the query still had time is returned,
\* whatever ended the stream in the same instant: roundTrip looks at its channel
\* once more before it reports the stream's end.
THEOREM AnswerKeptHolds == Spec => AnswerKept
  <1>1. TypeOK /\ [Next]_vars
          => [\A q \in Query : At(q, "wait") /\ query[q].ch # None /\ query'[q].at = "leave"
                 => query'[q].err = "ok" \/ Late(q)]_vars
    BY AnswerStep
  <1> QED
    BY <1>1, TypeCorrect, PTL DEF Spec, AnswerKept

-----------------------------------------------------------------------------
(* What an answer rests on: the endpoint was handed the question. *)

HandedInv ==
    \A q \in Query :
        query[q].at \in {"written", "wait", "abandon"} \/ query[q].err = "ok" => sent[q] > 0

LEMMA HandedStep ==
    ASSUME IInv, HandedInv, [Next]_vars
    PROVE  HandedInv'
  <1> SUFFICES ASSUME NEW q \in Query,
                      query'[q].at \in {"written", "wait", "abandon"} \/ query'[q].err = "ok"
               PROVE  sent'[q] > 0
    BY DEF HandedInv
  <1>1. query[q] \in Call /\ sent[q] \in 0..2 /\ TypeOK
    BY DEF IInv, TypeOK
  <1>2. IF WriteFrame(q) THEN sent'[q] = sent[q] + 1 ELSE sent'[q] = sent[q]
    <2>1. CASE WriteFrame(q)
      BY <1>1, <2>1 DEF WriteFrame, TypeOK
    <2>2. ASSUME NEW p \in Query, ~WriteFrame(q), Arrive(p) \/ OwnStep(p) \/ PeerStep(p)
          PROVE  sent'[q] = sent[q]
      BY <1>1, <2>2 DEF TypeOK, WriteFrame, Arrive, OwnStep, PeerStep, GetStream, DialOk, DialFails, DialExpires,
           Register, RegisterFails, WriteExpires, WriteBreaks, NoteWritten, TakeAnswer, SeeDone,
           Timer, Abandon, ReturnAnswer, Retire
    <2>3. CASE sent'[q] = sent[q] /\ ~WriteFrame(q)
      BY <2>3
    <2> QED
      BY <2>1, <2>2, <2>3 DEF Next, StreamStep, ReadFrame, Deliver, Traffic, BreakStream, IdleTeardown,
           Expire, CloseBegin, CloseEnd, vars
  <1>3. SUFFICES ASSUME ~WriteFrame(q)
                 PROVE  query[q].at \in {"written", "wait", "abandon"} \/ query[q].err = "ok"
    BY <1>1, <1>2 DEF HandedInv
  <1>4. CASE Arrive(q) \/ OwnStep(q) \/ PeerStep(q)
    <2>1. CASE \E why \in {"closed", "timeout", "dialFailed"} : Return(q, why)
      BY <1>1, <2>1, ReturnCall
    <2>2. CASE query'[q].at \notin {"written", "wait", "abandon"} /\ query'[q].err = query[q].err
      BY <1>1, <2>2
    <2>7. CASE Arrive(q) \/ GetStream(q) \/ DialExpires(q) \/ DialFails(q)
      <3>1. CASE Goto(q, "lock") \/ Goto(q, "dial")
        BY <1>1, <2>2, <3>1 DEF Goto, TypeOK, Call
      <3>2. CASE query' = [query EXCEPT ![q].at = "register", ![q].on = cur]
        BY <1>1, <2>2, <3>2 DEF TypeOK, Call
      <3> QED
        BY <2>1, <2>7, <3>1, <3>2 DEF Arrive, GetStream, DialExpires, DialFails
    <2>8. CASE DialOk(q) \/ Register(q)
      <3>1. CASE \E t \in Stream : query' = [query EXCEPT ![q].at = "register", ![q].on = t]
        BY <1>1, <2>2, <3>1 DEF TypeOK, Call
      <3>2. CASE \E i \in Id : query' = [query EXCEPT ![q].at = "write", ![q].id = i]
        BY <1>1, <2>2, <3>2 DEF TypeOK, Call
      <3> QED
        BY <2>8, <3>1, <3>2 DEF DialOk, Register, FreshIds
    <2>3. CASE NoteWritten(q) \/ TakeAnswer(q) \/ SeeDone(q) \/ Timer(q) \/ Abandon(q)
               \/ ReturnAnswer(q)
      BY <2>3 DEF NoteWritten, TakeAnswer, SeeDone, Timer, Abandon, ReturnAnswer, At
    <2>4. CASE \E why \in Outcomes \ {"ok"} : Leave(q, why)
      BY <1>1, <2>4 DEF Leave, TypeOK, Call
    <2>5. CASE WriteExpires(q) \/ RegisterFails(q) \/ WriteBreaks(q)
      <3>1. query[q].on \in Stream
        BY <2>5, OnAStream DEF WriteExpires, RegisterFails, WriteBreaks, MayWrite, At, OnStream
      <3>2. \A st \in States : st # "ok"
        BY DEF States, BrokenClass
      <3>3. CASE WriteExpires(q)
        BY <2>4, <3>3 DEF WriteExpires, Outcomes
      <3>4. CASE RegisterFails(q)
        BY <1>1, <3>1, <3>2, <3>4 DEF RegisterFails, Leave, TypeOK, Pipe, Call
      <3>5. CASE WriteBreaks(q)
        <4>1. stream'[query[q].on].state \in States
          BY <1>1, <3>1, <3>5, FailedKills DEF WriteBreaks, BrokenClass
        <4> QED
          BY <1>1, <3>2, <3>5, <4>1 DEF WriteBreaks, Leave, TypeOK, Call
      <3> QED
        BY <2>5, <3>3, <3>4, <3>5
    <2>6. CASE Retire(q)
      <3>1. CASE \E why \in Outcomes \ {"ok"} : Return(q, why)
        BY <1>1, <3>1, ReturnCall
      <3>2. CASE query' = [query EXCEPT ![q] = [NewCall EXCEPT !.at = "lock", !.tries = 1]]
        BY <1>1, <3>2 DEF TypeOK, NewCall
      <3> QED
        BY <1>1, <2>6, <3>1, <3>2 DEF Retire, Call, Outcomes
    <2> QED
      BY <1>3, <1>4, <2>3, <2>5, <2>6, <2>7, <2>8 DEF OwnStep, PeerStep
  <1>5. ASSUME NEW p \in Query, p # q, Arrive(p) \/ OwnStep(p) \/ PeerStep(p)
        PROVE  query'[q] = query[q]
    BY <1>1, <1>5, OthersKept
  <1>6. ASSUME NEW s \in Stream, StreamStep(s)
        PROVE  query'[q].at = query[q].at /\ query'[q].err = query[q].err
    BY <1>1, <1>6, NobodyMoved
  <1>7. CASE Expire \/ CloseBegin \/ CloseEnd \/ UNCHANGED vars
    BY <1>7 DEF Expire, CloseBegin, CloseEnd, vars
  <1> QED
    BY <1>4, <1>5, <1>6, <1>7 DEF Next

LEMMA SpecHanded == Spec => []HandedInv
  <1>1. Init => HandedInv
    BY DEF Init, HandedInv, NewCall
  <1>2. IInv /\ HandedInv /\ [Next]_vars => HandedInv'
    BY HandedStep
  <1> QED
    BY <1>1, <1>2, SpecInv, PTL DEF Spec

-----------------------------------------------------------------------------
(* The refinement: every step of the upstream is a step of the service or    *)
(* none.                                                                     *)

Connected == \E s \in Stream : Live(s)

\* While a query is in exchange its caller sees "asked".
InExchange == Places \ {"unborn", "done"}

LEMMA AskedIs ==
    ASSUME NEW q \in Query, query[q].at \in InExchange
    PROVE  Reply(q) = "asked"
  BY DEF Reply, At, InExchange

LEMMA AskedStays ==
    ASSUME NEW q \in Query, query'[q].at \in InExchange
    PROVE  Reply(q)' = "asked"
  BY DEF Reply, At, InExchange

\* A call that is not touched gives the same reply.
LEMMA SameReply ==
    ASSUME NEW q \in Query, query'[q].at = query[q].at, query'[q].err = query[q].err
    PROVE  Reply(q)' = Reply(q)
  BY DEF Reply, At

\* Callers see nothing, and at most a connection is lost.
LEMMA Unseen ==
    ASSUME \A q \in Query : Reply(q)' = Reply(q), UNCHANGED <<sent, closed>>,
           Connected' => Connected
    PROVE  [Service!Next]_(Service!vars)
  <1>1. [q \in Query |-> Reply(q)]' = [q \in Query |-> Reply(q)]
    OBVIOUS
  <1>2. CASE Connected' <=> Connected
    BY <1>1, <1>2 DEF Service!vars, Connected
  <1>3. CASE Connected /\ ~Connected'
    BY <1>1, <1>3 DEF Service!Next, Service!Disconnect, Connected
  <1> QED
    BY <1>2, <1>3

\* One query's reply changes, and nothing else that is seen.
LEMMA Replies ==
    ASSUME NEW q \in Query, \A p \in Query : p # q => Reply(p)' = Reply(p),
           UNCHANGED <<sent, closed>>, Connected' <=> Connected,
           \/ Reply(q) = "none" /\ Reply(q)' = "asked"
           \/ Reply(q) = "asked" /\ Reply(q)' = "failed"
           \/ Reply(q) = "asked" /\ Reply(q)' = "answered" /\ sent[q] > 0
    PROVE  Service!Next
  <1> DEFINE old == [p \in Query |-> Reply(p)]
             new == [p \in Query |-> Reply(p)']
  <1>1. new = [old EXCEPT ![q] = Reply(q)'] /\ old[q] = Reply(q)
    OBVIOUS
  <1>2. Service!Reply(q, Reply(q), Reply(q)')
    BY <1>1 DEF Service!Reply, Connected
  <1>3. Service!Ask(q) \/ Service!Fail(q) \/ Service!Answer(q)
    BY <1>2 DEF Service!Ask, Service!Fail, Service!Answer
  <1> QED
    BY <1>3 DEF Service!Next

\* One call changes to r; the others give the reply they gave.
LEMMA OthersReply ==
    ASSUME TypeOK, NEW q \in Query, NEW r, query' = [query EXCEPT ![q] = r]
    PROVE  query'[q] = r /\ \A p \in Query : p # q => Reply(p)' = Reply(p)
  <1>1. \A p \in Query : p # q => query'[p] = query[p]
    BY DEF TypeOK
  <1> QED
    BY <1>1, SameReply DEF TypeOK

\* A call that moves within exchange is not seen by its caller.
LEMMA MoveUnseen ==
    ASSUME TypeOK, NEW q \in Query, NEW r, query' = [query EXCEPT ![q] = r],
           query[q].at \in InExchange, r.at \in InExchange
    PROVE  \A p \in Query : Reply(p)' = Reply(p)
  <1>1. query'[q] = r /\ \A p \in Query : p # q => Reply(p)' = Reply(p)
    BY OthersReply
  <1>2. Reply(q) = "asked" /\ Reply(q)' = "asked"
    BY <1>1, AskedIs, AskedStays
  <1> QED
    BY <1>1, <1>2

\* A call that returns gives its caller an answer or a failure.
LEMMA ReturnSeen ==
    ASSUME TypeOK, NEW q \in Query, NEW why, Return(q, why), query[q].at \in InExchange
    PROVE  /\ \A p \in Query : p # q => Reply(p)' = Reply(p)
           /\ Reply(q) = "asked"
           /\ Reply(q)' = IF why = "ok" THEN "answered" ELSE "failed"
  <1>1. query'[q].at = "done" /\ query'[q].err = why
    BY ReturnCall
  <1>2. \A p \in Query : p # q => Reply(p)' = Reply(p)
    BY OthersReply DEF Return
  <1> QED
    BY <1>1, <1>2, AskedIs DEF Reply, At

\* A connection is lost when its stream fails, and none is made.
LEMMA FailedDisconnects ==
    ASSUME IInv, NEW s \in Stream \union {None}, NEW why \in BrokenClass \union {"closed"},
           stream' = Failed(s, why)
    PROVE  Connected' => Connected
  <1>1. \A t \in Stream : stream'[t].state = "live" => Live(t)
    BY FailedKills DEF IInv
  <1> QED
    BY <1>1 DEF Connected, Live

\* Unregistering and forgetting keep the connection.
LEMMA ForgetConnected ==
    ASSUME IInv, NEW q \in Query, query[q].at \in OnStream, query' \in [Query -> Call],
           stream' = Forget(Unregistered(q, query[q].on), query')
    PROVE  Connected' <=> Connected
  <1> DEFINE u == Unregistered(q, query[q].on)
  <1>1. query[q].on \in Stream
    BY OnAStream
  <1>2. u \in [Stream -> Pipe] /\ \A t \in Stream : u[t].state = stream[t].state
    BY <1>1, UnregisteredKeeps DEF IInv
  <1>3. stream' = Forget(u, query')
    OBVIOUS
  <1> HIDE DEF u
  <1>4. \A t \in Stream : stream'[t].state = "live" <=> stream[t].state = "live"
    BY <1>2, <1>3, ForgetKeeps DEF IInv
  <1> QED
    BY <1>4 DEF Connected, Live

LEMMA ArriveRefines ==
    ASSUME IInv, NEW q \in Query, Arrive(q)
    PROVE  Service!Next
  <1>1. query[q].at = "unborn"
    BY NAssumption DEF Arrive, IInv, TypeOK, CallInv, Query
  <1>2. query' = [query EXCEPT ![q] = [query[q] EXCEPT !.at = "lock"]]
    BY DEF Arrive, Goto
  <1>3. query'[q].at = "lock" /\ \A p \in Query : p # q => Reply(p)' = Reply(p)
    <2>1. query'[q] = [query[q] EXCEPT !.at = "lock"]
          /\ \A p \in Query : p # q => Reply(p)' = Reply(p)
      BY <1>2, OthersReply DEF IInv
    <2> QED
      BY <2>1 DEF IInv, TypeOK, Call
  <1>4. Reply(q) = "none" /\ Reply(q)' = "asked"
    BY <1>1, <1>3, AskedStays DEF Reply, At, InExchange, Places
  <1>5. UNCHANGED <<sent, closed>> /\ (Connected' <=> Connected)
    BY DEF Arrive, Connected, Live
  <1> QED
    BY <1>3, <1>4, <1>5, Replies

\* exchange up to the dial: a refusal is a failure, the rest is not seen.
LEMMA GetStreamRefines ==
    ASSUME IInv, NEW q \in Query, GetStream(q)
    PROVE  [Service!Next]_(Service!vars)
  <1>1. query[q] \in Call /\ query[q].at = "lock" /\ TypeOK
    BY DEF GetStream, At, IInv, TypeOK
  <1>2. UNCHANGED <<sent, closed>> /\ (Connected' <=> Connected)
    BY DEF GetStream, Connected, Live
  <1>3. CASE Return(q, "closed")
    BY <1>1, <1>2, <1>3, ReturnSeen, Replies DEF InExchange, Places
  <1>4. CASE query' = [query EXCEPT ![q].at = "register", ![q].on = cur]
    <2> DEFINE r == [query[q] EXCEPT !.at = "register", !.on = cur]
    <2>1. r.at = "register" /\ query' = [query EXCEPT ![q] = r]
      BY <1>1, <1>4 DEF Call
    <2> HIDE DEF r
    <2>2. \A p \in Query : Reply(p)' = Reply(p)
      BY <1>1, <2>1, MoveUnseen DEF InExchange, Places
    <2> QED
      BY <1>2, <2>2, Unseen
  <1>5. CASE Goto(q, "dial")
    <2> DEFINE r == [query[q] EXCEPT !.at = "dial"]
    <2>1. r.at = "dial" /\ query' = [query EXCEPT ![q] = r]
      BY <1>1, <1>5 DEF Call, Goto
    <2> HIDE DEF r
    <2>2. \A p \in Query : Reply(p)' = Reply(p)
      BY <1>1, <2>1, MoveUnseen DEF InExchange, Places
    <2> QED
      BY <1>2, <2>2, Unseen
  <1> QED
    BY <1>3, <1>4, <1>5 DEF GetStream

LEMMA DialRefines ==
    ASSUME IInv, NEW q \in Query, DialOk(q) \/ DialFails(q) \/ DialExpires(q)
    PROVE  Service!Next
  <1>1. query[q] \in Call /\ query[q].at = "dial" /\ TypeOK /\ CallInv(q) /\ mu = q /\ q # None
    BY NAssumption DEF DialOk, DialFails, DialExpires, At, IInv, TypeOK, CallInv, Query, None
  <1>2. UNCHANGED <<sent, closed>>
    BY DEF DialOk, DialFails, DialExpires
  <1>3. CASE DialFails(q) \/ DialExpires(q)
    <2>1. Connected' <=> Connected
      BY <1>3 DEF DialFails, DialExpires, Connected, Live
    <2> QED
      BY <1>1, <1>2, <1>3, <2>1, ReturnSeen, Replies DEF DialFails, DialExpires, InExchange, Places
  <1>4. CASE DialOk(q)
    <2>1. PICK s \in Stream : /\ stream' = [stream EXCEPT ![s] = NewStream]
                              /\ query' = [query EXCEPT ![q].at = "register", ![q].on = s]
      BY <1>4 DEF DialOk
    <2> DEFINE r == [query[q] EXCEPT !.at = "register", !.on = s]
    <2>2. r.at = "register" /\ query' = [query EXCEPT ![q] = r]
      BY <1>1, <2>1 DEF Call
    <2> HIDE DEF r
    <2>3. \A p \in Query : Reply(p)' = Reply(p)
      BY <1>1, <2>2, MoveUnseen DEF InExchange, Places
    <2>4. ~closed /\ ~Connected
      BY <1>1 DEF IInv, StreamInv, OneStream, Live, Connected
    <2>5. Connected'
      BY <1>1, <2>1, PipeType, NAssumption DEF Connected, Live, TypeOK, Stream, None
    <2>6. Service!Connect
      BY <1>2, <2>3, <2>4, <2>5 DEF Service!Connect, Connected
    <2> QED
      BY <2>6 DEF Service!Next
  <1> QED
    BY <1>3, <1>4

\* A step within roundTrip is not seen by the caller.
LEMMA RoundTripUnseen ==
    ASSUME TypeOK, NEW q \in Query,
           \/ Register(q) \/ RegisterFails(q) \/ WriteFrame(q) \/ WriteExpires(q) \/ WriteBreaks(q)
           \/ NoteWritten(q) \/ TakeAnswer(q) \/ SeeDone(q) \/ Timer(q) \/ Abandon(q)
    PROVE  \A p \in Query : Reply(p)' = Reply(p)
  <1>1. query[q] \in Call /\ query[q].at \in InExchange
    BY DEF TypeOK, Register, RegisterFails, MayWrite, WriteFrame, WriteExpires, WriteBreaks,
           NoteWritten, TakeAnswer, SeeDone, Timer, Abandon, At, InExchange, Places
  <1>2. ASSUME NEW place \in InExchange, Goto(q, place)
        PROVE  \A p \in Query : Reply(p)' = Reply(p)
    <2> DEFINE r == [query[q] EXCEPT !.at = place]
    <2>1. r.at = place /\ query' = [query EXCEPT ![q] = r]
      BY <1>1, <1>2 DEF Call, Goto
    <2> HIDE DEF r
    <2> QED
      BY <1>1, <1>2, <2>1, MoveUnseen
  <1>3. ASSUME NEW why, Leave(q, why)
        PROVE  \A p \in Query : Reply(p)' = Reply(p)
    <2> DEFINE r == [query[q] EXCEPT !.at = "leave", !.err = why]
    <2>1. r.at = "leave" /\ query' = [query EXCEPT ![q] = r]
      BY <1>1, <1>3 DEF Call, Leave
    <2> HIDE DEF r
    <2> QED
      BY <1>1, <2>1, MoveUnseen DEF InExchange, Places
  <1>4. CASE Answered(q)
    <2> DEFINE r == [query[q] EXCEPT !.at = "leave", !.err = "ok", !.got = query[q].ch]
    <2>1. r.at = "leave" /\ query' = [query EXCEPT ![q] = r]
      BY <1>1, <1>4 DEF Call, Answered
    <2> HIDE DEF r
    <2> QED
      BY <1>1, <2>1, MoveUnseen DEF InExchange, Places
  <1>5. CASE Register(q)
    <2>1. PICK i \in Id : query' = [query EXCEPT ![q].at = "write", ![q].id = i]
      BY <1>5 DEF Register, FreshIds
    <2> DEFINE r == [query[q] EXCEPT !.at = "write", !.id = i]
    <2>2. r.at = "write" /\ query' = [query EXCEPT ![q] = r]
      BY <1>1, <2>1 DEF Call
    <2> HIDE DEF r
    <2> QED
      BY <1>1, <2>2, MoveUnseen DEF InExchange, Places
  <1>6. CASE NoteWritten(q)
    <2> DEFINE r == [query[q] EXCEPT !.at = "wait", !.heard = FALSE]
    <2>1. r.at = "wait" /\ query' = [query EXCEPT ![q] = r]
      BY <1>1, <1>6 DEF Call, NoteWritten
    <2> HIDE DEF r
    <2> QED
      BY <1>1, <2>1, MoveUnseen DEF InExchange, Places
  <1> QED
    BY <1>2, <1>3, <1>4, <1>5, <1>6
       DEF RegisterFails, WriteFrame, WriteExpires, WriteBreaks, TakeAnswer, SeeDone, Timer,
           Abandon, InExchange, Places

LEMMA RoundTripRefines ==
    ASSUME IInv, NEW q \in Query,
           \/ Register(q) \/ RegisterFails(q) \/ WriteFrame(q) \/ WriteExpires(q) \/ WriteBreaks(q)
           \/ NoteWritten(q) \/ TakeAnswer(q) \/ SeeDone(q) \/ Timer(q) \/ Abandon(q)
    PROVE  [Service!Next]_(Service!vars)
  <1>1. TypeOK /\ \A p \in Query : Reply(p)' = Reply(p)
    BY RoundTripUnseen DEF IInv
  <1>2. CASE \/ RegisterFails(q) \/ NoteWritten(q) \/ TakeAnswer(q) \/ SeeDone(q) \/ Timer(q)
    BY <1>1, <1>2, Unseen DEF RegisterFails, NoteWritten, TakeAnswer, SeeDone, Timer, Connected, Live
  <1>3. CASE Register(q)
    <2>1. \A t \in Stream : stream'[t].state = stream[t].state
      <3>1. PICK i \in Id : stream' = [stream EXCEPT ![query[q].on].waiters[i] = q,
                                                    ![query[q].on].nextID = i]
        BY <1>3 DEF Register, FreshIds
      <3> QED
        BY <1>1, <3>1 DEF TypeOK, Pipe
    <2> QED
      BY <1>1, <1>3, <2>1, Unseen DEF Register, Connected, Live
  <1>4. CASE WriteExpires(q) \/ WriteBreaks(q) \/ Abandon(q)
    <2>1. query[q].on \in Stream
      BY <1>4, OnAStream DEF WriteExpires, WriteBreaks, Abandon, MayWrite, At, OnStream
    <2>2. Connected' => Connected
      BY <1>4, <2>1, FailedDisconnects DEF WriteExpires, WriteBreaks, Abandon, BrokenClass
    <2> QED
      BY <1>1, <1>4, <2>2, Unseen DEF WriteExpires, WriteBreaks, Abandon
  <1>5. CASE WriteFrame(q)
    <2>1. query[q] \in Call /\ CallInv(q) /\ query[q].at = "write"
      BY <1>5 DEF WriteFrame, MayWrite, At, IInv, TypeOK
    <2>2. sent[q] < 2 /\ Reply(q) = "asked"
      BY <2>1, AskedIs DEF CallInv, Unsent, Call, IInv, TypeOK, InExchange, Places
    <2>3. \A t \in Stream : stream'[t].state = stream[t].state
      BY <1>1, <1>5 DEF WriteFrame, TypeOK, Pipe
    <2>4. (Connected' <=> Connected) /\ closed' = closed /\ sent' = [sent EXCEPT ![q] = @ + 1]
      BY <1>5, <2>3 DEF WriteFrame, Connected, Live
    <2>5. Service!Hand(q)
      BY <1>1, <2>2, <2>4 DEF Service!Hand, Connected
    <2> QED
      BY <2>5 DEF Service!Next
  <1> QED
    BY <1>2, <1>3, <1>4, <1>5

LEMMA LeaveRefines ==
    ASSUME IInv, HandedInv, NEW q \in Query, ReturnAnswer(q) \/ Retire(q)
    PROVE  [Service!Next]_(Service!vars)
  <1>1. query[q] \in Call /\ query[q].at = "leave" /\ TypeOK /\ query[q].at \in InExchange
    BY DEF ReturnAnswer, Retire, At, IInv, TypeOK, InExchange, Places
  <1>2. UNCHANGED <<sent, closed>>
    BY DEF ReturnAnswer, Retire
  <1>3. Connected' <=> Connected
    <2>1. query' \in [Query -> Call]
      BY ReturnAnswerInv, RetireInv DEF IInv, TypeOK
    <2> QED
      BY <1>1, <2>1, ForgetConnected DEF ReturnAnswer, Retire, OnStream
  <1>4. CASE ReturnAnswer(q)
    <2>1. sent[q] > 0
      BY <1>4 DEF ReturnAnswer, HandedInv
    <2> QED
      BY <1>1, <1>2, <1>3, <1>4, <2>1, ReturnSeen, Replies DEF ReturnAnswer
  <1>5. CASE Retire(q)
    <2>1. CASE \E why : why # "ok" /\ Return(q, why)
      BY <1>1, <1>2, <1>3, <2>1, ReturnSeen, Replies
    <2>2. CASE query' = [query EXCEPT ![q] = [NewCall EXCEPT !.at = "lock", !.tries = 1]]
      <3>1. [NewCall EXCEPT !.at = "lock", !.tries = 1].at \in InExchange
        BY DEF NewCall, InExchange, Places
      <3> QED
        BY <1>1, <1>2, <1>3, <2>2, <3>1, MoveUnseen, Unseen
    <2> QED
      BY <1>5, <2>1, <2>2 DEF Retire
  <1> QED
    BY <1>4, <1>5

LEMMA StreamRefines ==
    ASSUME IInv, NEW s \in Stream, StreamStep(s)
    PROVE  [Service!Next]_(Service!vars)
  <1>1. TypeOK /\ \A q \in Query : Reply(q)' = Reply(q)
    BY NobodyMoved, SameReply DEF IInv
  <1>2. UNCHANGED <<sent, closed>>
    BY DEF StreamStep, ReadFrame, Deliver, Traffic, BreakStream, IdleTeardown
  <1>3. Connected' => Connected
    <2>1. CASE ReadFrame(s) \/ Deliver(s) \/ Traffic(s)
      <3>1. \A t \in Stream : stream'[t].state = stream[t].state
        <4>1. CASE ReadFrame(s)
          BY <1>1, <4>1 DEF ReadFrame, TypeOK, Pipe
        <4>2. CASE Deliver(s)
          BY <1>1, <4>2 DEF Deliver, TypeOK, Pipe
        <4>3. CASE \E i \in Id : stream' = [stream EXCEPT ![s].nextID = i]
          BY <1>1, <4>3 DEF TypeOK, Pipe
        <4> QED
          BY <2>1, <4>1, <4>2, <4>3 DEF Traffic, FreshIds
      <3> QED
        BY <3>1 DEF Connected, Live
    <2>2. CASE BreakStream(s) \/ IdleTeardown(s)
      BY <2>2, FailedDisconnects DEF BreakStream, IdleTeardown, BrokenClass
    <2> QED
      BY <2>1, <2>2 DEF StreamStep
  <1> QED
    BY <1>1, <1>2, <1>3, Unseen

LEMMA RestRefines ==
    ASSUME IInv, Expire \/ CloseBegin \/ CloseEnd \/ UNCHANGED vars
    PROVE  [Service!Next]_(Service!vars)
  <1>1. \A q \in Query : Reply(q)' = Reply(q)
    BY SameReply DEF Expire, CloseBegin, CloseEnd, vars
  <1>2. CASE Expire \/ UNCHANGED vars
    BY <1>1, <1>2, Unseen DEF Expire, vars, Connected, Live
  <1>3. CASE CloseBegin
    <2>1. (Connected' <=> Connected) /\ ~closed /\ closed' = TRUE /\ sent' = sent
      BY <1>3 DEF CloseBegin, Connected, Live
    <2>2. Service!Stop
      BY <1>1, <2>1 DEF Service!Stop, Connected
    <2> QED
      BY <2>2 DEF Service!Next
  <1>4. CASE CloseEnd
    <2>1. Connected' => Connected
      BY <1>4, FailedDisconnects DEF CloseEnd, IInv, TypeOK
    <2> QED
      BY <1>1, <1>4, <2>1, Unseen DEF CloseEnd
  <1> QED
    BY <1>2, <1>3, <1>4

\* The upstream implements the service: one reply per query, an answer only to a
\* question the endpoint was handed, which it is at most twice, one connection at a
\* time and none opened after close, whatever the endpoint and the stream do.
THEOREM ServiceImplemented == Spec => ImplementsService
  <1>1. Init => Service!Init
    <2> SUFFICES ASSUME Init PROVE Service!Init
      OBVIOUS
    <2>1. \A q \in Query : Reply(q) = "none"
      BY DEF Init, NewCall, Reply, At
    <2>2. \A s \in Stream : ~Live(s)
      BY DEF Init, Unused, NewStream, Live
    <2> QED
      BY <2>1, <2>2 DEF Init, Service!Init
  <1>2. IInv /\ HandedInv /\ [Next]_vars => [Service!Next]_(Service!vars)
    BY ArriveRefines, GetStreamRefines, DialRefines, RoundTripRefines, LeaveRefines,
       StreamRefines, RestRefines DEF Next, OwnStep, PeerStep
  <1> QED
    BY <1>1, <1>2, SpecInv, SpecHanded, PTL DEF Spec, ImplementsService, Service!Spec

=============================================================================
