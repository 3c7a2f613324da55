--------------------------- MODULE DnsUpstreamProofs ---------------------------
(* Proofs about DnsUpstream, for any number of queries and message IDs.        *)
EXTENDS DnsUpstream, TLAPS

\* Where a query is on a stream.
OnStream == {"register", "write", "written", "wait", "abandon", "leave"}

\* Where this attempt has not handed the endpoint anything yet.
Unsent == {"unborn", "lock", "dial", "register", "write"}

\* What holds of each query: it is on a stream while it is in roundTrip, and has an ID
\* when it writes; one that has not arrived has done nothing; one that dials holds the
\* mutex; the endpoint has been handed it at most once per attempt; it abandons a
\* stream only when it is late; the two promises about its outcome.
CallInv(q) ==
    LET c == query[q] IN
    /\ c.at \in OnStream => c.on # None
    /\ c.at = "write" => c.id # NoId
    /\ born < q => c.at = "unborn"
    /\ c.at = "dial" => mu = q
    /\ sent[q] <= c.tries + (IF c.at \in Unsent THEN 0 ELSE 1)
    /\ c.at = "abandon" => Late(q)
    /\ c.err = "timeout" => Late(q)
    /\ At(q, "done") /\ c.err \in BrokenClass => c.tries = 1

\* While a query dials there is no live stream, and close has not begun.
StreamInv ==
    /\ OneStream
    /\ mu # None => ~Live(cur) /\ ~closed
    /\ closing # None => closed

\* The inductive invariant.
IInv == TypeOK /\ StreamInv /\ \A q \in Query : CallInv(q)

-----------------------------------------------------------------------------
(* What the helpers return. *)

LEMMA CallType == NewCall \in Call
  BY NAssumption, WAssumption DEF NewCall, Call, Places, Outcomes, Stream, Id, NoId, Query, None

\* The two streams the code makes: a fresh one and an unused one.
LEMMA PipeType ==
    ASSUME TypeOK
    PROVE  NewStream \in Pipe /\ Unused \in Pipe /\ NewStream.state = "live" /\ Unused.state = "none"
  <1>1. [i \in Id |-> None] \in Waiters /\ NoFrame \in Hand /\ 0 \in Id
    BY WAssumption DEF Waiters, Hand, Id
  <1>2. now \in 0..N /\ 0 \in 0..N
    BY NAssumption DEF TypeOK
  <1>3. "live" \in States /\ "none" \in States /\ {} \in SUBSET Frame
    BY DEF States
  <1>4. NewStream \in Pipe /\ NewStream.state = "live"
    BY <1>1, <1>2, <1>3 DEF NewStream, Pipe
  <1>5. Unused \in Pipe /\ Unused.state = "none"
    BY <1>1, <1>2, <1>3 DEF NewStream, Unused, Pipe
  <1> QED
    BY <1>4, <1>5

\* Forgetting keeps the type, the live streams and every stream a query is on.
LEMMA ForgetKeeps ==
    ASSUME TypeOK, NEW streams \in [Stream -> Pipe], NEW queries \in [Query -> Call]
    PROVE  /\ Forget(streams, queries) \in [Stream -> Pipe]
           /\ \A s \in Stream : Forget(streams, queries)[s].state = "live" <=> streams[s].state = "live"
           /\ \A q \in Query : queries[q].on \in Stream =>
                  Forget(streams, queries)[queries[q].on] = streams[queries[q].on]
  BY PipeType DEF Forget

\* Failing a stream ends that stream and no other.
LEMMA FailedKills ==
    ASSUME TypeOK, NEW s \in Stream \union {None}, NEW why \in BrokenClass \union {"closed"}
    PROVE  /\ Failed(s, why) \in [Stream -> Pipe]
           /\ \A t \in Stream : Failed(s, why)[t].state = "live" <=> Live(t) /\ t # s
           /\ \A q \in Query : query[q].on = s /\ s \in Stream =>
                  Failed(s, why)[s].state \in States \ {"live"}
  <1>1. CASE ~Live(s)
    BY <1>1 DEF Failed, TypeOK, Pipe, Live, Stream, None, States
  <1>2. CASE Live(s)
    <2> DEFINE st == [stream EXCEPT ![s].state = why, ![s].asked = {}, ![s].nextID = 0]
    <2>1. s \in Stream
      BY <1>2 DEF Live
    <2>2. st \in [Stream -> Pipe]
      <3>1. 0 \in Id /\ why \in States
        BY WAssumption DEF Id, States
      <3>2. [stream[s] EXCEPT !.state = why, !.asked = {}, !.nextID = 0] \in Pipe
        BY <2>1, <3>1 DEF TypeOK, Pipe
      <3> QED
        BY <2>1, <3>2 DEF TypeOK
    <2>3. Failed(s, why) = Forget(st, query)
      BY <1>2 DEF Failed
    <2>4. \A t \in Stream : st[t].state = IF t = s THEN why ELSE stream[t].state
      BY <2>1 DEF TypeOK, Pipe
    <2>5. why # "live" /\ why \in States
      BY DEF BrokenClass, States
    <2> HIDE DEF st
    <2>6. 0 \notin Stream
      BY NAssumption DEF Stream
    <2> QED
      BY <2>1, <2>2, <2>3, <2>4, <2>5, <2>6, ForgetKeeps DEF TypeOK, Live, None
  <1> QED
    BY <1>1, <1>2

-----------------------------------------------------------------------------
(* The two ways a step can disturb the invariant. *)

\* One call changes to r, which is as CallInv wants it, and the endpoint is handed
\* nothing of anyone else's.
LEMMA CallStep ==
    ASSUME IInv, NEW q \in Query, NEW r \in Call,
           query' = [query EXCEPT ![q] = r],
           \A p \in Query : p # q => sent'[p] = sent[p],
           UNCHANGED <<born, now>>, born >= q,
           mu' = mu \/ mu = q \/ mu = None,
           r.at \in OnStream => r.on # None,
           r.at = "dial" => mu' = q,
           sent'[q] <= r.tries + (IF r.at \in Unsent THEN 0 ELSE 1),
           r.at = "write" => r.id # NoId, r.at = "abandon" => Late(q),
           r.err = "timeout" => Late(q),
           r.at = "done" /\ r.err \in BrokenClass => r.tries = 1
    PROVE  query' \in [Query -> Call] /\ \A p \in Query : CallInv(p)'
  <1>1. query' \in [Query -> Call]
    BY DEF IInv, TypeOK
  <1>2. query'[q] = r
    BY DEF IInv, TypeOK
  <1>3. CallInv(q)'
    <2>1. ~(born' < q) /\ (Late(q)' <=> Late(q))
      BY NAssumption DEF IInv, TypeOK, Query, Late
    <2> QED
      BY <1>2, <2>1 DEF CallInv, At
  <1>4. ASSUME NEW p \in Query, p # q
        PROVE  CallInv(p)'
    <2>1. query'[p] = query[p] /\ sent'[p] = sent[p]
      BY <1>4 DEF IInv, TypeOK
    <2>2. CallInv(p) /\ mu \in Query \union {None} /\ p # None
      BY <1>4, NAssumption DEF IInv, TypeOK, Query, None
    <2>3. query[p].at = "dial" => mu' = p
      BY <2>2, <1>4 DEF CallInv
    <2> QED
      BY <2>1, <2>2, <2>3 DEF CallInv, At, Late
  <1> QED
    BY <1>1, <1>3, <1>4

\* One call moves on within its attempt, without handing the endpoint anything.
LEMMA MoveStep ==
    ASSUME IInv, NEW q \in Query, NEW r \in Call,
           query' = [query EXCEPT ![q] = r], UNCHANGED <<born, now, sent>>,
           mu' = mu \/ mu = q \/ mu = None,
           query[q].at \notin {"unborn", "done"}, r.at \notin {"unborn", "done"},
           r.tries = query[q].tries, r.at \in Unsent => query[q].at \in Unsent,
           r.at \in OnStream => r.on # None,
           r.at = "write" => r.id # NoId, r.at = "abandon" => Late(q),
           r.at = "dial" => mu' = q,
           r.err = "timeout" => Late(q)
    PROVE  query' \in [Query -> Call] /\ \A p \in Query : CallInv(p)'
  <1>1. query[q] \in Call /\ CallInv(q) /\ born >= q /\ sent[q] \in 0..2 /\ r.tries \in {0, 1}
    BY NAssumption DEF IInv, TypeOK, CallInv, Query, Call
  <1>2. sent'[q] <= r.tries + (IF r.at \in Unsent THEN 0 ELSE 1)
    BY <1>1 DEF CallInv
  <1> QED
    BY <1>1, <1>2, CallStep

\* No call changes in what the invariant says of it.
LEMMA SameCalls ==
    ASSUME IInv, query' \in [Query -> Call], UNCHANGED <<born, now, sent>>,
           mu' = mu,
           \A p \in Query : /\ query'[p].at = query[p].at
                            /\ query'[p].on = query[p].on
                            /\ query'[p].id = query[p].id
                            /\ query'[p].tries = query[p].tries
                            /\ query'[p].err = query[p].err
    PROVE  \A p \in Query : CallInv(p)'
  BY DEF IInv, CallInv, At, Late

\* Streams only die, and only a dead one stops being the current one.
LEMMA StreamStepInv ==
    ASSUME IInv, stream' \in [Stream -> Pipe],
           \A s \in Stream : stream'[s].state = "live" => stream[s].state = "live",
           cur' = cur \/ (cur' = None /\ ~Live(cur)),
           mu' = mu \/ mu' = None,
           closed' = closed, closing' = closing
    PROVE  StreamInv'
  <1>1. \A s \in Stream : Live(s)' => Live(s)
    BY DEF Live
  <1>2. mu' # None => ~Live(cur)'
    BY <1>1 DEF IInv, StreamInv, Live, TypeOK
  <1> QED
    BY <1>1, <1>2 DEF IInv, StreamInv, OneStream

\* A step that leaves the streams and the shared state alone but for one call.
LEMMA QuietStep ==
    ASSUME IInv, query' \in [Query -> Call], \A p \in Query : CallInv(p)',
           UNCHANGED <<stream, cur, mu, closed, closing, now>>, born' = born,
           sent' \in [Query -> 0..2]
    PROVE  IInv'
  <1>1. StreamInv'
    BY StreamStepInv DEF IInv, TypeOK
  <1> QED
    BY <1>1 DEF IInv, TypeOK

-----------------------------------------------------------------------------
(* exchange. *)

LEMMA ArriveInv ==
    ASSUME IInv, NEW q \in Query, Arrive(q)
    PROVE  IInv'
  <1> DEFINE r == [query[q] EXCEPT !.at = "lock"]
  <1>1. query[q] \in Call /\ CallInv(q) /\ born \in Nat /\ born < q /\ born' = q
    BY NAssumption DEF IInv, TypeOK, Arrive, Query
  <1>2. r \in Call /\ query' = [query EXCEPT ![q] = r]
    BY <1>1 DEF Arrive, Goto, Call, Places
  <1>3. query'[q].at = "lock" /\ query'[q].tries = query[q].tries /\ query'[q].err = query[q].err
    BY <1>1 DEF Arrive, Goto, IInv, TypeOK, Call
  <1>4. query[q].at = "unborn" /\ query[q].tries \in {0, 1} /\ sent[q] \in 0..2
    BY <1>1 DEF CallInv, Call, IInv, TypeOK
  <1>5. CallInv(q)'
    <2>1. sent[q] <= query[q].tries + 0 /\ ~(q < q)
      BY <1>1, <1>4 DEF CallInv, Unsent, Query
    <2>2. query[q].err = "timeout" => Late(q)
      BY <1>1 DEF CallInv
    <2>3. UNCHANGED <<sent, now>>
      BY DEF Arrive
    <2> QED
      BY <1>1, <1>3, <2>1, <2>2, <2>3 DEF CallInv, OnStream, Unsent, At, Late
  <1>6. ASSUME NEW p \in Query, p # q
        PROVE  CallInv(p)'
    <2>1. query'[p] = query[p] /\ UNCHANGED <<sent, now, mu>>
      BY <1>6 DEF Arrive, Goto, IInv, TypeOK
    <2>2. CallInv(p) /\ (born' < p => born < p)
      BY <1>1, <1>6, NAssumption DEF IInv, Query
    <2> QED
      BY <2>1, <2>2 DEF CallInv, At, Late
  <1>7. StreamInv'
    BY StreamStepInv DEF IInv, TypeOK, Arrive
  <1> QED
    BY <1>2, <1>5, <1>6, <1>7, NAssumption DEF IInv, TypeOK, Arrive, Query

LEMMA ExpireInv ==
    ASSUME IInv, Expire
    PROVE  IInv'
  <1>1. born \in Nat /\ now \in Nat /\ now' = now + 1 /\ now < born
    BY NAssumption DEF IInv, TypeOK, Expire
  <1>2. \A p \in Query : CallInv(p)'
    BY <1>1, NAssumption DEF IInv, TypeOK, Expire, CallInv, Late, At, Query
  <1>3. StreamInv'
    BY StreamStepInv DEF IInv, TypeOK, Expire
  <1> QED
    BY <1>1, <1>2, <1>3, NAssumption DEF IInv, TypeOK, Expire

\* A return from exchange: what the caller is told is in order.
LEMMA ReturnInv ==
    ASSUME IInv, NEW q \in Query, NEW why \in Outcomes, Return(q, why),
           UNCHANGED <<born, now, sent>>, mu' = mu \/ mu = q \/ mu = None,
           query[q].at # "unborn",
           why = "timeout" => Late(q), why \in BrokenClass => query[q].tries = 1
    PROVE  query' \in [Query -> Call] /\ \A p \in Query : CallInv(p)'
  <1> DEFINE r == [NewCall EXCEPT !.at = "done", !.tries = query[q].tries,
                                  !.err = why, !.got = query[q].got]
  <1>1. query[q] \in Call /\ CallInv(q) /\ born \in Nat
    BY NAssumption DEF IInv, TypeOK
  <1>2. r \in Call
    BY <1>1, CallType DEF Call, Places
  <1>3. query' = [query EXCEPT ![q] = r]
    BY DEF Return
  <1>4. r.at = "done" /\ r.tries = query[q].tries /\ r.err = why
    BY <1>1 DEF NewCall
  <1>5. born >= q
    BY <1>1, NAssumption DEF CallInv, Query
  <1>6. sent'[q] <= r.tries + 1
    BY <1>1, <1>4, NAssumption DEF CallInv, IInv, TypeOK, Call
  <1>7. r.at \notin OnStream /\ r.at \notin {"dial", "write", "abandon"}
    BY <1>4 DEF OnStream
  <1>8. r.err = "timeout" => Late(q)
    BY <1>4
  <1>9. r.at = "done" /\ r.err \in BrokenClass => r.tries = 1
    BY <1>4
  <1>10. sent'[q] <= r.tries + (IF r.at \in Unsent THEN 0 ELSE 1)
    BY <1>4, <1>6 DEF Unsent
  <1> HIDE DEF r
  <1> QED
    BY <1>2, <1>3, <1>5, <1>7, <1>8, <1>9, <1>10, CallStep

LEMMA GetStreamInv ==
    ASSUME IInv, NEW q \in Query, GetStream(q)
    PROVE  IInv'
  <1>1. query[q] \in Call /\ query[q].at = "lock" /\ mu = None /\ CallInv(q)
    BY DEF IInv, TypeOK, GetStream, At
  <1>2. UNCHANGED <<stream, cur, closed, closing, born, now, sent>>
    BY DEF GetStream
  <1>3. CASE closed /\ Return(q, "closed") /\ UNCHANGED mu
    <2>1. query' \in [Query -> Call] /\ \A p \in Query : CallInv(p)'
      BY <1>1, <1>2, <1>3, ReturnInv DEF Outcomes, BrokenClass
    <2>2. StreamInv'
      BY <1>2, <1>3, StreamStepInv DEF IInv, TypeOK
    <2> QED
      BY <1>2, <1>3, <2>1, <2>2 DEF IInv, TypeOK
  <1>4. CASE /\ Live(cur) /\ UNCHANGED mu
             /\ query' = [query EXCEPT ![q].at = "register", ![q].on = cur]
    <2> DEFINE r == [query[q] EXCEPT !.at = "register", !.on = cur]
    <2>1. r \in Call /\ query' = [query EXCEPT ![q] = r] /\ cur # None
      BY <1>1, <1>4 DEF IInv, TypeOK, Call, Places, Live
    <2>2. r.at = "register" /\ r.on = cur /\ r.tries = query[q].tries /\ r.err = query[q].err
      BY <1>1 DEF Call
    <2> HIDE DEF r
    <2>3. query' \in [Query -> Call] /\ \A p \in Query : CallInv(p)'
      BY <1>1, <1>2, <1>4, <2>1, <2>2, MoveStep DEF Unsent, OnStream, CallInv
    <2>4. StreamInv'
      BY <1>2, <1>4, StreamStepInv DEF IInv, TypeOK
    <2> QED
      BY <1>2, <1>4, <2>3, <2>4 DEF IInv, TypeOK
  <1>5. CASE ~closed /\ ~Live(cur) /\ mu' = q /\ Goto(q, "dial")
    <2> DEFINE r == [query[q] EXCEPT !.at = "dial"]
    <2>1. r \in Call /\ query' = [query EXCEPT ![q] = r]
      BY <1>1, <1>5 DEF IInv, TypeOK, Call, Places, Goto
    <2>2. r.at = "dial" /\ r.tries = query[q].tries /\ r.err = query[q].err
      BY <1>1 DEF Call
    <2> HIDE DEF r
    <2>3. query' \in [Query -> Call] /\ \A p \in Query : CallInv(p)'
      BY <1>1, <1>2, <1>5, <2>1, <2>2, MoveStep DEF Unsent, OnStream, CallInv
    <2>4. StreamInv'
      BY <1>2, <1>5 DEF IInv, StreamInv, OneStream, Live
    <2> QED
      BY <1>2, <1>5, <2>3, <2>4 DEF IInv, TypeOK
  <1> QED
    BY <1>3, <1>4, <1>5 DEF GetStream

LEMMA DialOkInv ==
    ASSUME IInv, NEW q \in Query, DialOk(q)
    PROVE  IInv'
  <1>1. query[q] \in Call /\ query[q].at = "dial" /\ mu = q /\ CallInv(q) /\ q # None
    BY NAssumption DEF IInv, TypeOK, DialOk, At, CallInv, Query, None
  <1>2. UNCHANGED <<closed, closing, born, now, sent>> /\ mu' = None
    BY DEF DialOk
  <1>3. PICK s \in Stream : /\ stream' = [stream EXCEPT ![s] = NewStream]
                            /\ cur' = s
                            /\ query' = [query EXCEPT ![q].at = "register", ![q].on = s]
    BY DEF DialOk
  <1> DEFINE r == [query[q] EXCEPT !.at = "register", !.on = s]
  <1>4. r \in Call /\ query' = [query EXCEPT ![q] = r]
    BY <1>1, <1>3 DEF Call, Places
  <1>5. r.at = "register" /\ r.on = s /\ r.tries = query[q].tries /\ r.err = query[q].err /\ s # None
    BY <1>1, NAssumption DEF Call, Stream, None
  <1> HIDE DEF r
  <1>6. query' \in [Query -> Call] /\ \A p \in Query : CallInv(p)'
    BY <1>1, <1>2, <1>4, <1>5, MoveStep DEF Unsent, OnStream, CallInv
  <1>7. stream' \in [Stream -> Pipe]
    BY <1>3, PipeType DEF IInv, TypeOK
  <1>8. StreamInv'
    <2>1. ~closed /\ ~Live(cur) /\ closing = None
      BY <1>1 DEF IInv, StreamInv
    <2>2. \A t \in Stream : ~Live(t)
      BY <2>1 DEF IInv, StreamInv, OneStream, Live
    <2>3. \A t \in Stream : Live(t)' => t = s
      BY <1>3, <2>2 DEF Live, IInv, TypeOK
    <2> QED
      BY <1>2, <1>3, <2>1, <2>3 DEF StreamInv, OneStream
  <1> QED
    BY <1>2, <1>3, <1>6, <1>7, <1>8 DEF IInv, TypeOK

\* A dial that does not come about, for either reason.
LEMMA DialLostInv ==
    ASSUME IInv, NEW q \in Query, DialFails(q) \/ DialExpires(q)
    PROVE  IInv'
  <1>1. query[q] \in Call /\ query[q].at = "dial" /\ mu = q /\ q # None
    BY NAssumption DEF IInv, TypeOK, DialFails, DialExpires, At, CallInv, Query, None
  <1>2. UNCHANGED <<stream, closed, closing, born, now, sent>> /\ mu' = None /\ cur' = None
    BY DEF DialFails, DialExpires
  <1>3. query' \in [Query -> Call] /\ \A p \in Query : CallInv(p)'
    <2>1. CASE DialFails(q)
      BY <1>1, <1>2, <2>1, ReturnInv DEF DialFails, Outcomes, BrokenClass
    <2>2. CASE DialExpires(q)
      BY <1>1, <1>2, <2>2, ReturnInv DEF DialExpires, Outcomes, BrokenClass
    <2> QED
      BY <2>1, <2>2
  <1>4. ~Live(cur)
    BY <1>1 DEF IInv, StreamInv
  <1>5. StreamInv'
    BY <1>2, <1>4, StreamStepInv DEF IInv, TypeOK
  <1> QED
    BY <1>2, <1>3, <1>5 DEF IInv, TypeOK

-----------------------------------------------------------------------------
(* roundTrip. *)

\* Leaving roundTrip with an error.
LEMMA LeaveInv ==
    ASSUME IInv, NEW q \in Query, NEW why \in Outcomes, Leave(q, why),
           query[q].at \in OnStream, UNCHANGED <<born, now, sent, mu>>,
           why = "timeout" => Late(q)
    PROVE  query' \in [Query -> Call] /\ \A p \in Query : CallInv(p)'
  <1> DEFINE r == [query[q] EXCEPT !.at = "leave", !.err = why]
  <1>1. query[q] \in Call /\ CallInv(q)
    BY DEF IInv, TypeOK
  <1>2. r \in Call /\ query' = [query EXCEPT ![q] = r]
    BY <1>1 DEF Call, Places, Leave
  <1>3. r.at = "leave" /\ r.on = query[q].on /\ r.tries = query[q].tries /\ r.err = why
    BY <1>1 DEF Call
  <1>4. query[q].on # None
    BY <1>1 DEF CallInv
  <1> HIDE DEF r
  <1> QED
    BY <1>2, <1>3, <1>4, MoveStep DEF OnStream, Unsent

\* Leaving roundTrip with what is in the channel.
LEMMA AnsweredInv ==
    ASSUME IInv, NEW q \in Query, Answered(q), query[q].at = "wait",
           UNCHANGED <<born, now, sent, mu>>
    PROVE  query' \in [Query -> Call] /\ \A p \in Query : CallInv(p)'
  <1> DEFINE r == [query[q] EXCEPT !.at = "leave", !.err = "ok", !.got = query[q].ch]
  <1>1. query[q] \in Call /\ CallInv(q)
    BY DEF IInv, TypeOK
  <1>2. r \in Call /\ query' = [query EXCEPT ![q] = r]
    BY <1>1 DEF Call, Places, Outcomes, Answered
  <1>3. r.at = "leave" /\ r.on = query[q].on /\ r.tries = query[q].tries /\ r.err = "ok"
    BY <1>1 DEF Call
  <1>4. query[q].on # None
    BY <1>1 DEF CallInv, OnStream
  <1> HIDE DEF r
  <1> QED
    BY <1>2, <1>3, <1>4, MoveStep DEF OnStream, Unsent

\* Moving on to another place of roundTrip.
LEMMA GotoInv ==
    ASSUME IInv, NEW q \in Query, NEW place \in {"wait", "abandon"}, NEW heard \in BOOLEAN,
           query' = [query EXCEPT ![q].at = place, ![q].heard = heard],
           query[q].at \in {"written", "wait"}, UNCHANGED <<born, now, sent, mu>>,
           place = "abandon" => Late(q)
    PROVE  query' \in [Query -> Call] /\ \A p \in Query : CallInv(p)'
  <1> DEFINE r == [query[q] EXCEPT !.at = place, !.heard = heard]
  <1>1. query[q] \in Call /\ CallInv(q)
    BY DEF IInv, TypeOK
  <1>2. r \in Call /\ query' = [query EXCEPT ![q] = r]
    BY <1>1 DEF Call, Places
  <1>3. r.at = place /\ r.on = query[q].on /\ r.tries = query[q].tries /\ r.err = query[q].err
    BY <1>1 DEF Call
  <1>4. query[q].on # None /\ (query[q].err = "timeout" => Late(q))
    BY <1>1 DEF CallInv, OnStream
  <1> HIDE DEF r
  <1> QED
    BY <1>2, <1>3, <1>4, MoveStep DEF OnStream, Unsent

\* A query on a stream is on one that exists.
LEMMA OnAStream ==
    ASSUME IInv, NEW q \in Query, query[q].at \in OnStream
    PROVE  query[q].on \in Stream
  BY DEF IInv, CallInv, TypeOK, Call

\* The outcome a dead stream gives.
LEMMA DeadStates ==
    ASSUME NEW st \in States \ {"live"}
    PROVE  st \in Outcomes /\ st # "timeout"
  BY DEF States, Outcomes, BrokenClass

LEMMA RegisterInv ==
    ASSUME IInv, NEW q \in Query, Register(q)
    PROVE  IInv'
  <1> DEFINE s == query[q].on
  <1>1. query[q] \in Call /\ CallInv(q) /\ query[q].at = "register" /\ s \in Stream
    BY OnAStream DEF IInv, TypeOK, Register, At, OnStream
  <1>2. PICK i \in Id : /\ stream' = [stream EXCEPT ![s].waiters[i] = q, ![s].nextID = i]
                        /\ query' = [query EXCEPT ![q].at = "write", ![q].id = i]
    BY DEF Register, FreshIds
  <1>3. UNCHANGED <<cur, mu, closed, closing, born, now, sent>>
    BY DEF Register
  <1>4. query' \in [Query -> Call] /\ \A p \in Query : CallInv(p)'
    <2> DEFINE r == [query[q] EXCEPT !.at = "write", !.id = i]
    <2>1. r \in Call /\ query' = [query EXCEPT ![q] = r]
      BY <1>1, <1>2 DEF Call, Places
    <2>2. r.at = "write" /\ r.on = s /\ r.tries = query[q].tries /\ r.err = query[q].err
          /\ r.id = i
      BY <1>1 DEF Call
    <2>3. i # NoId /\ s # None /\ (query[q].err = "timeout" => Late(q))
      BY <1>1, WAssumption DEF Id, NoId, CallInv, OnStream
    <2> HIDE DEF r
    <2> QED
      BY <1>1, <1>3, <2>1, <2>2, <2>3, MoveStep DEF Unsent
  <1>5. /\ stream' \in [Stream -> Pipe]
        /\ \A t \in Stream : stream'[t].state = stream[t].state
    <2> DEFINE p == [stream[s] EXCEPT !.waiters[i] = q, !.nextID = i]
    <2>1. stream[s] \in Pipe
      BY <1>1 DEF IInv, TypeOK
    <2>2. [stream[s].waiters EXCEPT ![i] = q] \in Waiters
      BY <2>1 DEF Pipe, Waiters
    <2>3. p \in Pipe /\ p.state = stream[s].state
      BY <2>1, <2>2 DEF Pipe
    <2>4. stream' = [stream EXCEPT ![s] = p]
      BY <1>2
    <2> HIDE DEF p
    <2> QED
      BY <1>1, <2>3, <2>4 DEF IInv, TypeOK
  <1>6. StreamInv'
    BY <1>3, <1>5, StreamStepInv
  <1> QED
    BY <1>3, <1>4, <1>5, <1>6 DEF IInv, TypeOK

\* Streams change, but for one that may die none changes its state, and no shared state does.
LEMMA StreamsMove ==
    ASSUME IInv, stream' \in [Stream -> Pipe],
           \A s \in Stream : stream'[s].state = "live" => stream[s].state = "live",
           query' \in [Query -> Call], \A p \in Query : CallInv(p)',
           UNCHANGED <<cur, mu, closed, closing, born, now>>,
           sent' \in [Query -> 0..2]
    PROVE  IInv'
  <1>1. StreamInv'
    BY StreamStepInv
  <1> QED
    BY <1>1 DEF IInv, TypeOK

LEMMA RegisterFailsInv ==
    ASSUME IInv, NEW q \in Query, RegisterFails(q)
    PROVE  IInv'
  <1> DEFINE s == query[q].on
  <1>1. query[q].at \in OnStream /\ s \in Stream
    BY OnAStream DEF RegisterFails, At, OnStream
  <1>2. UNCHANGED <<stream, cur, mu, closed, closing, born, now, sent>>
    BY DEF RegisterFails
  <1>3. CASE ~Live(s) /\ Leave(q, stream[s].state)
    <2>1. stream[s].state \in States \ {"live"}
      BY <1>1, <1>3, NAssumption DEF IInv, TypeOK, Pipe, Live, Stream, None
    <2>2. query' \in [Query -> Call] /\ \A p \in Query : CallInv(p)'
      BY <1>1, <1>2, <1>3, <2>1, DeadStates, LeaveInv
    <2> QED
      BY <1>2, <2>2, QuietStep DEF IInv, TypeOK
  <1>4. CASE Leave(q, "full")
    <2>1. query' \in [Query -> Call] /\ \A p \in Query : CallInv(p)'
      BY <1>1, <1>2, <1>4, LeaveInv DEF Outcomes
    <2> QED
      BY <1>2, <2>1, QuietStep DEF IInv, TypeOK
  <1> QED
    BY <1>3, <1>4 DEF RegisterFails

LEMMA WriteFrameInv ==
    ASSUME IInv, NEW q \in Query, WriteFrame(q)
    PROVE  IInv'
  <1> DEFINE s == query[q].on
             r == [query[q] EXCEPT !.at = "written"]
             f == [id |-> query[q].id, of |-> q]
  <1>1. query[q] \in Call /\ CallInv(q) /\ query[q].at = "write" /\ s \in Stream
    BY OnAStream DEF IInv, TypeOK, WriteFrame, MayWrite, At, OnStream
  <1>2. UNCHANGED <<cur, mu, closed, closing, born, now>> /\ sent' = [sent EXCEPT ![q] = @ + 1]
    BY DEF WriteFrame
  <1>3. f \in Frame
    BY <1>1 DEF CallInv, Call, Frame
  <1>4. /\ stream' \in [Stream -> Pipe]
        /\ \A t \in Stream : stream'[t].state = stream[t].state
    <2>1. CASE stream' = stream
      BY <2>1 DEF IInv, TypeOK
    <2>2. CASE stream' = [stream EXCEPT ![s].asked = @ \union {f}]
      <3> DEFINE p == [stream[s] EXCEPT !.asked = @ \union {f}]
      <3>1. p \in Pipe /\ p.state = stream[s].state
        BY <1>1, <1>3 DEF IInv, TypeOK, Pipe
      <3>2. stream' = [stream EXCEPT ![s] = p]
        BY <2>2
      <3> HIDE DEF p
      <3> QED
        BY <1>1, <3>1, <3>2 DEF IInv, TypeOK
    <2> QED
      BY <2>1, <2>2 DEF WriteFrame
  <1>5. sent[q] \in 0..2 /\ sent[q] <= query[q].tries /\ query[q].tries \in {0, 1} /\ born >= q
    BY <1>1, NAssumption DEF CallInv, Unsent, IInv, TypeOK, Call, Query
  <1>6. sent'[q] = sent[q] + 1 /\ sent' \in [Query -> 0..2]
        /\ \A p \in Query : p # q => sent'[p] = sent[p]
    BY <1>2, <1>5 DEF IInv, TypeOK
  <1>7. r \in Call /\ query' = [query EXCEPT ![q] = r]
    BY <1>1 DEF Call, Places, WriteFrame, Goto
  <1>8. r.at = "written" /\ r.on = s /\ r.tries = query[q].tries /\ r.err = query[q].err
    BY <1>1 DEF Call
  <1>9. s # None /\ (query[q].err = "timeout" => Late(q))
    BY <1>1 DEF CallInv, OnStream
  <1>10. sent'[q] <= r.tries + (IF r.at \in Unsent THEN 0 ELSE 1)
    BY <1>5, <1>6, <1>8 DEF Unsent
  <1>11. query' \in [Query -> Call] /\ \A p \in Query : CallInv(p)'
    <2> HIDE DEF r
    <2> QED
      BY <1>2, <1>5, <1>6, <1>7, <1>8, <1>9, <1>10, CallStep
  <1> QED
    BY <1>2, <1>4, <1>6, <1>11, StreamsMove

\* A query whose write or wait fails its stream, and which leaves late.
LEMMA GivesUpInv ==
    ASSUME IInv, NEW q \in Query, WriteExpires(q) \/ Abandon(q)
    PROVE  IInv'
  <1>1. query[q].at \in OnStream /\ CallInv(q) /\ query[q].on \in Stream
    BY OnAStream DEF IInv, WriteExpires, Abandon, MayWrite, At, OnStream
  <1>2. /\ UNCHANGED <<cur, mu, closed, closing, born, now, sent>>
        /\ Leave(q, "timeout")
        /\ Late(q)
    BY <1>1 DEF WriteExpires, Abandon, CallInv, At
  <1>3. query' \in [Query -> Call] /\ \A p \in Query : CallInv(p)'
    BY <1>1, <1>2, LeaveInv DEF Outcomes
  <1>4. PICK why \in BrokenClass : stream' = Failed(query[q].on, why)
    BY DEF WriteExpires, Abandon, BrokenClass
  <1>5. /\ stream' \in [Stream -> Pipe]
        /\ \A t \in Stream : stream'[t].state = "live" => stream[t].state = "live"
    BY <1>1, <1>4, FailedKills DEF IInv, Live
  <1> QED
    BY <1>2, <1>3, <1>5, StreamsMove DEF IInv, TypeOK

LEMMA WriteBreaksInv ==
    ASSUME IInv, NEW q \in Query, WriteBreaks(q)
    PROVE  IInv'
  <1> DEFINE s == query[q].on
  <1>1. query[q].at \in OnStream /\ s \in Stream
    BY OnAStream DEF WriteBreaks, MayWrite, At, OnStream
  <1>2. /\ UNCHANGED <<cur, mu, closed, closing, born, now, sent>>
        /\ stream' = Failed(s, "broken")
        /\ Leave(q, stream'[s].state)
    BY DEF WriteBreaks
  <1>3. /\ stream' \in [Stream -> Pipe]
        /\ \A t \in Stream : stream'[t].state = "live" => stream[t].state = "live"
        /\ stream'[s].state \in States \ {"live"}
    BY <1>1, <1>2, FailedKills DEF IInv, Live, BrokenClass
  <1>4. query' \in [Query -> Call] /\ \A p \in Query : CallInv(p)'
    BY <1>1, <1>2, <1>3, DeadStates, LeaveInv
  <1> QED
    BY <1>2, <1>3, <1>4, StreamsMove DEF IInv, TypeOK

LEMMA WaitInv ==
    ASSUME IInv, NEW q \in Query,
           NoteWritten(q) \/ TakeAnswer(q) \/ SeeDone(q) \/ Timer(q)
    PROVE  IInv'
  <1>1. /\ query[q] \in Call /\ query[q].at \in {"written", "wait"}
        /\ query[q].at \in OnStream /\ query[q].on \in Stream
    BY OnAStream DEF IInv, TypeOK, NoteWritten, TakeAnswer, SeeDone, Timer, At, OnStream
  <1>2. UNCHANGED <<stream, cur, mu, closed, closing, born, now, sent>>
    BY DEF NoteWritten, TakeAnswer, SeeDone, Timer
  <1>3. query' \in [Query -> Call] /\ \A p \in Query : CallInv(p)'
    <2>1. CASE NoteWritten(q)
      BY <1>1, <1>2, <2>1, GotoInv DEF NoteWritten
    <2>2. CASE Answered(q) /\ query[q].at = "wait"
      BY <1>2, <2>2, AnsweredInv
    <2>3. CASE SeeDone(q) /\ ~Live(query[q].on) /\ Leave(q, stream[query[q].on].state)
      <3>1. stream[query[q].on].state \in States \ {"live"}
        BY <1>1, <2>3, NAssumption DEF IInv, TypeOK, Pipe, Live, Stream, None
      <3> QED
        BY <1>1, <1>2, <2>3, <3>1, DeadStates, LeaveInv
    <2>4. CASE Late(q) /\ Leave(q, "timeout")
      BY <1>1, <1>2, <2>4, LeaveInv DEF Outcomes
    <2>5. CASE Late(q) /\ Goto(q, "abandon") /\ ~query[q].heard
      <3>1. query' = [query EXCEPT ![q].at = "abandon", ![q].heard = query[q].heard]
        BY <1>1, <2>5 DEF Goto, Call, IInv, TypeOK
      <3> QED
        BY <1>1, <1>2, <2>5, <3>1, GotoInv DEF Call
    <2> QED
      BY <2>1, <2>2, <2>3, <2>4, <2>5 DEF TakeAnswer, SeeDone, Timer, At
  <1> QED
    BY <1>2, <1>3, QuietStep DEF IInv, TypeOK

\* The deferred unregister changes no stream's state.
LEMMA UnregisteredKeeps ==
    ASSUME TypeOK, NEW q \in Query, NEW s \in Stream
    PROVE  /\ Unregistered(q, s) \in [Stream -> Pipe]
           /\ \A t \in Stream : Unregistered(q, s)[t].state = stream[t].state
  <1> DEFINE w == [i \in Id |-> IF i = query[q].id THEN None ELSE stream[s].waiters[i]]
             p == [stream[s] EXCEPT !.waiters = w]
  <1>1. stream[s] \in Pipe
    BY DEF TypeOK
  <1>2. w \in Waiters
    BY <1>1 DEF Pipe, Waiters
  <1>3. p \in Pipe /\ p.state = stream[s].state
    <2> HIDE DEF w
    <2> QED
      BY <1>1, <1>2 DEF Pipe
  <1>4. Unregistered(q, s) = [stream EXCEPT ![s] = p]
    BY DEF Unregistered
  <1> HIDE DEF p
  <1> QED
    BY <1>3, <1>4 DEF TypeOK

LEMMA ReturnAnswerInv ==
    ASSUME IInv, NEW q \in Query, ReturnAnswer(q)
    PROVE  IInv'
  <1> DEFINE s == query[q].on
  <1>1. query[q].at = "leave" /\ s \in Stream
    BY OnAStream DEF ReturnAnswer, At, OnStream
  <1>2. /\ UNCHANGED <<cur, mu, closed, closing, born, now, sent>>
        /\ stream' = Forget(Unregistered(q, s), query')
        /\ Return(q, "ok")
    BY DEF ReturnAnswer
  <1>3. query' \in [Query -> Call] /\ \A p \in Query : CallInv(p)'
    BY <1>1, <1>2, ReturnInv DEF Outcomes, BrokenClass
  <1>4. /\ stream' \in [Stream -> Pipe]
        /\ \A t \in Stream : stream'[t].state = "live" => stream[t].state = "live"
    <2> DEFINE u == Unregistered(q, s)
    <2>1. u \in [Stream -> Pipe] /\ \A t \in Stream : u[t].state = stream[t].state
      BY <1>1, UnregisteredKeeps DEF IInv
    <2>2. stream' = Forget(u, query')
      BY <1>2
    <2> HIDE DEF u
    <2> QED
      BY <1>3, <2>1, <2>2, ForgetKeeps DEF IInv
  <1> QED
    BY <1>2, <1>3, <1>4, StreamsMove DEF IInv, TypeOK

\* The three ways out of a failed roundTrip: for good, late, or into the retry.
LEMMA RetireInv ==
    ASSUME IInv, NEW q \in Query, Retire(q)
    PROVE  IInv'
  <1> DEFINE s == query[q].on
  <1>1. query[q] \in Call /\ CallInv(q) /\ query[q].at = "leave" /\ s \in Stream
    BY OnAStream DEF Retire, At, OnStream, IInv, TypeOK
  <1>2. /\ UNCHANGED <<mu, closed, closing, born, now, sent>>
        /\ stream' = Forget(Unregistered(q, s), query')
        /\ cur' = cur \/ (cur' = None /\ ~Live(cur))
    BY DEF Retire
  <1>3. query' \in [Query -> Call] /\ \A p \in Query : CallInv(p)'
    <2>1. CASE /\ query[q].tries = 1 \/ query[q].err \notin BrokenClass
               /\ Return(q, query[q].err)
      <3>1. query[q].err \in Outcomes /\ (query[q].err = "timeout" => Late(q))
        BY <1>1 DEF Call, CallInv
      <3> QED
        BY <1>1, <1>2, <2>1, <3>1, ReturnInv
    <2>2. CASE Late(q) /\ Return(q, "timeout")
      BY <1>1, <1>2, <2>2, ReturnInv DEF Outcomes, BrokenClass
    <2>3. CASE /\ query[q].tries # 1
               /\ query' = [query EXCEPT ![q] = [NewCall EXCEPT !.at = "lock", !.tries = 1]]
      <3> DEFINE r == [NewCall EXCEPT !.at = "lock", !.tries = 1]
      <3>1. r \in Call
        BY CallType DEF Call, Places
      <3>2. /\ r.at = "lock" /\ r.tries = 1 /\ r.err = "none"
            /\ query' = [query EXCEPT ![q] = r]
        BY <2>3 DEF NewCall
      <3>3. sent[q] \in 0..2 /\ sent[q] <= query[q].tries + 1 /\ query[q].tries = 0 /\ born >= q
        BY <1>1, <2>3, NAssumption DEF CallInv, Unsent, IInv, TypeOK, Call, Query
      <3>4. sent'[q] <= r.tries + (IF r.at \in Unsent THEN 0 ELSE 1)
        BY <1>2, <3>2, <3>3 DEF Unsent
      <3> HIDE DEF r
      <3> QED
        BY <1>2, <3>1, <3>2, <3>3, <3>4, CallStep DEF OnStream
    <2> QED
      BY <2>1, <2>2, <2>3 DEF Retire
  <1>4. /\ stream' \in [Stream -> Pipe]
        /\ \A t \in Stream : stream'[t].state = "live" => stream[t].state = "live"
    <2> DEFINE u == Unregistered(q, s)
    <2>1. u \in [Stream -> Pipe] /\ \A t \in Stream : u[t].state = stream[t].state
      BY <1>1, UnregisteredKeeps DEF IInv
    <2>2. stream' = Forget(u, query')
      BY <1>2
    <2> HIDE DEF u
    <2> QED
      BY <1>3, <2>1, <2>2, ForgetKeeps DEF IInv
  <1>5. StreamInv'
    BY <1>2, <1>4, StreamStepInv
  <1> QED
    BY <1>2, <1>3, <1>4, <1>5 DEF IInv, TypeOK

-----------------------------------------------------------------------------
(* The reader, the peer and close. *)

\* What the reader does to one stream does not revive it.
LEMMA OneStreamChanges ==
    ASSUME IInv, NEW s \in Stream, NEW p \in Pipe, p.state = stream[s].state,
           stream' = [stream EXCEPT ![s] = p],
           query' \in [Query -> Call],
           \A r \in Query : /\ query'[r].at = query[r].at
                            /\ query'[r].on = query[r].on
                            /\ query'[r].id = query[r].id
                            /\ query'[r].tries = query[r].tries
                            /\ query'[r].err = query[r].err,
           UNCHANGED <<cur, mu, closed, closing, born, now, sent>>
    PROVE  IInv'
  <1>1. /\ stream' \in [Stream -> Pipe]
        /\ \A t \in Stream : stream'[t].state = "live" => stream[t].state = "live"
    BY DEF IInv, TypeOK
  <1>2. \A r \in Query : CallInv(r)'
    BY SameCalls
  <1> QED
    BY <1>1, <1>2, StreamsMove DEF IInv, TypeOK

LEMMA ReadFrameInv ==
    ASSUME IInv, NEW s \in Stream, ReadFrame(s)
    PROVE  IInv'
  <1>1. PICK f \in stream[s].asked :
            stream' = [stream EXCEPT ![s].hand = f, ![s].asked = @ \ {f}]
    BY DEF ReadFrame
  <1> DEFINE p == [stream[s] EXCEPT !.hand = f, !.asked = @ \ {f}]
  <1>2. stream[s] \in Pipe
    BY DEF IInv, TypeOK
  <1>3. p \in Pipe /\ p.state = stream[s].state
    BY <1>1, <1>2 DEF Pipe, Hand
  <1>4. stream' = [stream EXCEPT ![s] = p]
    BY <1>1
  <1> HIDE DEF p
  <1> QED
    BY <1>3, <1>4, OneStreamChanges DEF ReadFrame, IInv, TypeOK

LEMMA DeliverInv ==
    ASSUME IInv, NEW s \in Stream, Deliver(s)
    PROVE  IInv'
  <1> DEFINE f == stream[s].hand
             w == [stream[s].waiters EXCEPT ![f.id] = None]
             p == [stream[s] EXCEPT !.hand = NoFrame, !.waiters = w]
  <1>1. stream[s] \in Pipe /\ f \in Frame
    BY DEF IInv, TypeOK, Pipe, Hand, Deliver
  <1>2. w \in Waiters /\ NoFrame \in Hand
    BY <1>1 DEF Pipe, Waiters, Hand
  <1>3. p \in Pipe /\ p.state = stream[s].state
    <2> HIDE DEF w
    <2> QED
      BY <1>1, <1>2 DEF Pipe
  <1>4. stream' = [stream EXCEPT ![s] = p]
    BY DEF Deliver
  <1>5. ASSUME NEW r \in Query
        PROVE  /\ query'[r] \in Call
               /\ query'[r].at = query[r].at
               /\ query'[r].on = query[r].on
               /\ query'[r].id = query[r].id
               /\ query'[r].tries = query[r].tries
               /\ query'[r].err = query[r].err
    <2>1. query[r] \in Call /\ f.of \in Query
      BY <1>1 DEF IInv, TypeOK, Frame
    <2>2. query'[r] = [query[r] EXCEPT
                          !.heard = @ \/ Waiting(r, s),
                          !.ch = IF r = stream[s].waiters[f.id] /\ @ = None THEN f.of ELSE @]
      BY DEF Deliver
    <2>3. query[r].heard \in BOOLEAN /\ (query[r].heard \/ Waiting(r, s)) \in BOOLEAN
      BY <2>1 DEF Call
    <2> HIDE DEF f
    <2> QED
      BY <2>1, <2>2, <2>3 DEF Call
  <1>6. query' \in [Query -> Call]
    <2>1. query' = [r \in Query |-> query'[r]]
      BY DEF Deliver
    <2> QED
      BY <1>5, <2>1
  <1>7. UNCHANGED <<cur, mu, closed, closing, born, now, sent>>
    BY DEF Deliver
  <1> HIDE DEF p
  <1> QED
    BY <1>3, <1>4, <1>5, <1>6, <1>7, OneStreamChanges

LEMMA TrafficInv ==
    ASSUME IInv, NEW s \in Stream, Traffic(s)
    PROVE  IInv'
  <1>1. PICK i \in Id : stream' = [stream EXCEPT ![s].nextID = i]
    BY DEF Traffic, FreshIds
  <1> DEFINE p == [stream[s] EXCEPT !.nextID = i]
  <1>2. p \in Pipe /\ p.state = stream[s].state
    BY DEF IInv, TypeOK, Pipe
  <1>3. stream' = [stream EXCEPT ![s] = p]
    BY <1>1
  <1>4. ASSUME NEW r \in Query
        PROVE  /\ query'[r] \in Call
               /\ query'[r].at = query[r].at
               /\ query'[r].on = query[r].on
               /\ query'[r].id = query[r].id
               /\ query'[r].tries = query[r].tries
               /\ query'[r].err = query[r].err
    <2>1. query[r] \in Call
      BY DEF IInv, TypeOK
    <2>2. query'[r] = [query[r] EXCEPT !.heard = @ \/ Waiting(r, s)]
      BY DEF Traffic
    <2>3. (query[r].heard \/ Waiting(r, s)) \in BOOLEAN
      BY <2>1 DEF Call
    <2> QED
      BY <2>1, <2>2, <2>3 DEF Call
  <1>5. query' \in [Query -> Call]
    <2>1. query' = [r \in Query |-> query'[r]]
      BY DEF Traffic
    <2> QED
      BY <1>4, <2>1
  <1> HIDE DEF p
  <1> QED
    BY <1>2, <1>3, <1>4, <1>5, OneStreamChanges DEF Traffic

\* The two ways a stream ends by itself.
LEMMA StreamEndsInv ==
    ASSUME IInv, NEW s \in Stream, BreakStream(s) \/ IdleTeardown(s)
    PROVE  IInv'
  <1>1. UNCHANGED <<query, cur, mu, closed, closing, born, now, sent>>
    BY DEF BreakStream, IdleTeardown
  <1>2. PICK why \in BrokenClass : stream' = Failed(s, why)
    BY DEF BreakStream, IdleTeardown, BrokenClass
  <1>3. /\ stream' \in [Stream -> Pipe]
        /\ \A t \in Stream : stream'[t].state = "live" => stream[t].state = "live"
    BY <1>2, FailedKills DEF IInv, Live
  <1>4. \A r \in Query : CallInv(r)'
    BY <1>1, SameCalls DEF IInv, TypeOK
  <1> QED
    BY <1>1, <1>3, <1>4, StreamsMove DEF IInv, TypeOK

LEMMA CloseBeginInv ==
    ASSUME IInv, CloseBegin
    PROVE  IInv'
  <1>1. UNCHANGED <<query, stream, mu, born, now, sent>> /\ closed' = TRUE
        /\ closing' = cur /\ cur' = None /\ ~closed /\ mu = None
    BY DEF CloseBegin
  <1>2. \A r \in Query : CallInv(r)'
    BY <1>1, SameCalls DEF IInv, TypeOK
  <1>3. closing = None
    BY <1>1 DEF IInv, StreamInv
  <1>4. StreamInv'
    BY <1>1, <1>3 DEF IInv, StreamInv, OneStream, Live
  <1> QED
    BY <1>1, <1>2, <1>4 DEF IInv, TypeOK

LEMMA CloseEndInv ==
    ASSUME IInv, CloseEnd
    PROVE  IInv'
  <1>1. UNCHANGED <<query, cur, mu, closed, born, now, sent>> /\ closing' = None
        /\ closing # None /\ stream' = Failed(closing, "closed")
    BY DEF CloseEnd
  <1>2. /\ stream' \in [Stream -> Pipe]
        /\ \A t \in Stream : stream'[t].state = "live" <=> Live(t) /\ t # closing
    BY <1>1, FailedKills DEF IInv, TypeOK
  <1>3. \A r \in Query : CallInv(r)'
    BY <1>1, SameCalls DEF IInv, TypeOK
  <1>4. closed
    BY <1>1 DEF IInv, StreamInv
  <1>5. \A t \in Stream : ~(stream'[t].state = "live")
    BY <1>2, <1>4 DEF IInv, StreamInv, OneStream
  <1>6. cur \in Stream \union {None}
    BY DEF IInv, TypeOK
  <1>7. StreamInv'
    BY <1>1, <1>4, <1>5, <1>6 DEF IInv, StreamInv, OneStream, Live
  <1> QED
    BY <1>1, <1>2, <1>3, <1>7 DEF IInv, TypeOK

-----------------------------------------------------------------------------
(* The theorems. *)

LEMMA InitInv == Init => IInv
  <1> SUFFICES ASSUME Init PROVE IInv
    OBVIOUS
  <1>1. now = 0 /\ born = 0 /\ now \in 0..N /\ N \in Nat
    BY NAssumption DEF Init
  <1>2. Unused \in Pipe /\ Unused.state = "none"
    <2>1. [i \in Id |-> None] \in Waiters /\ NoFrame \in Hand /\ 0 \in Id
      BY WAssumption DEF Waiters, Hand, Id
    <2> QED
      BY <1>1, <2>1 DEF Unused, NewStream, Pipe, States
  <1>3. TypeOK
    <2>1. query \in [Query -> Call]
      BY CallType DEF Init
    <2>2. stream \in [Stream -> Pipe]
      <3> DEFINE u == Unused
      <3>1. u \in Pipe /\ stream = [s \in Stream |-> u]
        BY <1>2 DEF Init
      <3> HIDE DEF u
      <3> QED
        BY <3>1
    <2>3. sent \in [Query -> 0..2]
      BY DEF Init
    <2>4. born \in 0..N /\ now \in 0..born
      BY <1>1
    <2> QED
      BY <2>1, <2>2, <2>3, <2>4 DEF Init, TypeOK
  <1>4. StreamInv
    BY <1>2, NAssumption DEF Init, StreamInv, OneStream, Live
  <1>5. \A q \in Query : CallInv(q)
    <2> SUFFICES ASSUME NEW q \in Query PROVE CallInv(q)
      OBVIOUS
    <2>1. query[q] = NewCall /\ sent[q] = 0
      BY DEF Init
    <2>2. NewCall.at = "unborn" /\ NewCall.tries = 0 /\ NewCall.err = "none"
      BY DEF NewCall
    <2> QED
      BY <2>1, <2>2 DEF CallInv, OnStream, Unsent, BrokenClass, At
  <1> QED
    BY <1>3, <1>4, <1>5 DEF IInv

LEMMA NextInv == IInv /\ [Next]_vars => IInv'
  <1> SUFFICES ASSUME IInv, [Next]_vars PROVE IInv'
    OBVIOUS
  <1>1. ASSUME NEW q \in Query, OwnStep(q)
        PROVE  IInv'
    BY <1>1, GetStreamInv, DialLostInv, RegisterInv, RegisterFailsInv, GivesUpInv, WaitInv,
       ReturnAnswerInv, RetireInv DEF OwnStep
  <1>2. ASSUME NEW q \in Query, PeerStep(q)
        PROVE  IInv'
    BY <1>2, DialOkInv, DialLostInv, WriteFrameInv, WriteBreaksInv DEF PeerStep
  <1>3. ASSUME NEW s \in Stream, StreamStep(s)
        PROVE  IInv'
    BY <1>3, ReadFrameInv, DeliverInv, TrafficInv, StreamEndsInv DEF StreamStep
  <1>4. CASE UNCHANGED vars
    <2>1. \A q \in Query : CallInv(q)'
      BY <1>4, SameCalls DEF vars, IInv, TypeOK
    <2> QED
      BY <1>4, <2>1, StreamsMove DEF vars, IInv, TypeOK
  <1> QED
    BY <1>1, <1>2, <1>3, <1>4, ArriveInv, ExpireInv, CloseBeginInv, CloseEndInv DEF Next

LEMMA SpecInv == Spec => []IInv
  BY InitInv, NextInv, PTL DEF Spec

\* Every state is of its type: in particular the endpoint is handed a query at most
\* twice, so exchange retries at most once.
THEOREM TypeCorrect == Spec => []TypeOK
  <1>1. IInv => TypeOK
    BY DEF IInv
  <1> QED
    BY <1>1, SpecInv, PTL

\* There is never a second live stream, and none that close will not end.
THEOREM OneStreamHolds == Spec => []OneStream
  <1>1. IInv => OneStream
    BY DEF IInv, StreamInv
  <1> QED
    BY <1>1, SpecInv, PTL

\* A query is told of an expired deadline only when it is its own.
THEOREM TimeoutIsOwnHolds == Spec => []TimeoutIsOwn
  <1>1. IInv => TimeoutIsOwn
    BY DEF IInv, CallInv, TimeoutIsOwn
  <1> QED
    BY <1>1, SpecInv, PTL

\* A query reports a broken stream only after its retry broke as well.
THEOREM RetriedFirstHolds == Spec => []RetriedFirst
  <1>1. IInv => RetriedFirst
    BY DEF IInv, CallInv, RetriedFirst
  <1> QED
    BY <1>1, SpecInv, PTL

=============================================================================
