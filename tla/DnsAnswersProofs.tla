---------------------------- MODULE DnsAnswersProofs ----------------------------
(* Whose answer a query gets, for any number of queries and message IDs.       *)
(*                                                                             *)
(* A waiter is removed by ID, whoever is registered under it, and an answer    *)
(* the endpoint still owes outlives the query that asked.  What keeps one      *)
(* query's answer from another is that an ID is not given out again while      *)
(* either is there: an assumption on the behaviour first, then a consequence   *)
(* of there being more IDs than registrations.                                 *)
EXTENDS DnsServiceProofs, FiniteSetTheorems

\* Where a query may still be handed its answer.
Active == {"write", "written", "wait", "abandon"}

\* The answers that may still arrive on a stream.
Owed(p) == p.asked \union ({p.hand} \ {NoFrame})

\* An earlier query has not let go of this ID, or its answer is still owed.
InUse(s, i) ==
    \/ \E q \in Query : query[q].on = s /\ query[q].id = i
    \/ \E f \in Owed(stream[s]) : f.id = i

\* register gives out no ID that is in use.
NoReuse ==
    \A q \in Query :
        LET s == query[q].on IN
        At(q, "register") /\ Live(s) => \A i \in FreshIds(s) : ~InUse(s, i)

\* A call's channel holds its own answer only; it has an ID from its register to its
\* unregister; its stream is remembered while it is on it, and while the call has no
\* answer it is the waiter under its ID, so that the stream is not idle.
OwnCall(c, q, streams) ==
    /\ c.ch \in {None, q}
    /\ c.err = "ok" => c.got = q
    /\ c.at \in {"unborn", "lock", "dial", "done"} => c.on = None
    /\ c.at \notin Active \union {"leave"} => c.id = NoId
    /\ c.at \in Active => c.id # NoId /\ c.on # None
    /\ c.on # None => streams[c.on].state # "none"
    /\ c.at \in Active /\ c.ch = None =>
          streams[c.on].waiters[c.id] = q /\ streams[c.on].state # "idle"

\* Under the ID of a query on stream s there is that query or nobody, under the ID of
\* an answer owed the query that asked or nobody, and every waiter is on s.
OwnPipe(p, s, queries) ==
    /\ \A q \in Query : queries[q].on = s /\ queries[q].id # NoId =>
          p.waiters[queries[q].id] \in {None, q}
    /\ \A f \in Owed(p) : p.waiters[f.id] \in {None, f.of}
    /\ \A i \in Id : p.waiters[i] # None =>
          queries[p.waiters[i]].on = s /\ queries[p.waiters[i]].id = i

OwnInv ==
    /\ \A q \in Query : OwnCall(query[q], q, stream)
    /\ \A s \in Stream : OwnPipe(stream[s], s, query)

-----------------------------------------------------------------------------
(* What the helpers keep. *)

LEMMA Nobody == None \notin Query /\ None \notin Stream /\ NoId \notin Id
  BY NAssumption, WAssumption DEF Query, Stream, None, Id, NoId

\* A registered ID is one.
LEMMA IdIs ==
    ASSUME NEW c \in Call, c.id # NoId
    PROVE  c.id \in Id
  BY DEF Call

\* A stream without waiters and without answers owed.
LEMMA EmptyOwn ==
    ASSUME NEW s \in Stream, NEW queries \in [Query -> Call]
    PROVE  OwnPipe(NewStream, s, queries) /\ OwnPipe(Unused, s, queries)
  <1>1. NewStream.waiters = [i \in Id |-> None] /\ Owed(NewStream) = {}
    BY DEF NewStream, Owed
  <1>2. Unused.waiters = [i \in Id |-> None] /\ Owed(Unused) = {}
    BY DEF Unused, NewStream, Owed
  <1>3. ASSUME NEW p, p.waiters = [i \in Id |-> None], Owed(p) = {}
        PROVE  OwnPipe(p, s, queries)
    BY <1>3, IdIs DEF OwnPipe
  <1> QED
    BY <1>1, <1>2, <1>3

\* A stream keeps its promise when it owes less, and when only queries without an ID
\* move.
LEMMA PipeKept ==
    ASSUME NEW s \in Stream, NEW p \in Pipe, NEW r \in Pipe,
           NEW queries \in [Query -> Call], NEW moved \in [Query -> Call],
           OwnPipe(p, s, queries), r.waiters = p.waiters, Owed(r) \subseteq Owed(p),
           \A q \in Query : /\ moved[q].id = queries[q].id
                            /\ moved[q].id # NoId => moved[q].on = queries[q].on
    PROVE  OwnPipe(r, s, moved)
  <1>1. \A i \in Id : p.waiters[i] \in Query \union {None} /\ i # NoId
    BY Nobody DEF Pipe, Waiters
  <1> QED
    BY <1>1 DEF OwnPipe

\* Forgetting dead streams keeps their promises.
LEMMA ForgetOwn ==
    ASSUME TypeOK, NEW streams \in [Stream -> Pipe], NEW queries \in [Query -> Call],
           \A s \in Stream : OwnPipe(streams[s], s, queries)
    PROVE  \A s \in Stream : OwnPipe(Forget(streams, queries)[s], s, queries)
  BY EmptyOwn DEF Forget

\* The stream a call is on is left as it is by Forget.
LEMMA ForgetCall ==
    ASSUME TypeOK, NEW streams \in [Stream -> Pipe], NEW queries \in [Query -> Call],
           NEW q \in Query, OwnCall(queries[q], q, streams)
    PROVE  OwnCall(queries[q], q, Forget(streams, queries))
  <1>1. queries[q] \in Call /\ (queries[q].on # None => queries[q].on \in Stream)
    BY DEF Call
  <1>2. queries[q].on # None => Forget(streams, queries)[queries[q].on] = streams[queries[q].on]
    BY <1>1, ForgetKeeps
  <1> QED
    BY <1>1, <1>2 DEF OwnCall

\* Failing a stream takes none of its waiters away, and leaves it remembered.
LEMMA FailedOwn ==
    ASSUME TypeOK, OwnInv, NEW s \in Stream \union {None},
           NEW why \in BrokenClass \union {"closed"},
           why = "idle" => s \in Stream /\ Taken(s) = {}
    PROVE  /\ \A t \in Stream : OwnPipe(Failed(s, why)[t], t, query)
           /\ \A q \in Query : OwnCall(query[q], q, Failed(s, why))
  <1>1. CASE ~Live(s)
    BY <1>1 DEF Failed, OwnInv
  <1>2. CASE Live(s)
    <2> DEFINE p  == [stream[s] EXCEPT !.state = why, !.asked = {}, !.nextID = 0]
               st == [stream EXCEPT ![s] = p]
    <2>1. s \in Stream /\ s # None /\ stream[s] \in Pipe /\ why # "none"
      BY <1>2 DEF Live, TypeOK, BrokenClass
    <2>2. p \in Pipe /\ p.waiters = stream[s].waiters /\ Owed(p) \subseteq Owed(stream[s])
          /\ p.state = why
      <3>1. 0 \in Id /\ why \in States
        BY WAssumption DEF Id, States
      <3> QED
        BY <2>1, <3>1 DEF Pipe, Owed
    <2>3. Failed(s, why) = Forget(st, query)
      BY <1>2 DEF Failed
    <2> HIDE DEF p
    <2>4. st \in [Stream -> Pipe] /\ st[s] = p /\ \A t \in Stream : t # s => st[t] = stream[t]
      BY <2>1, <2>2 DEF TypeOK
    <2>5. \A t \in Stream : OwnPipe(st[t], t, query)
      <3>1. OwnPipe(p, s, query)
        BY <2>1, <2>2, PipeKept DEF OwnInv, TypeOK
      <3> QED
        BY <2>4, <3>1 DEF OwnInv
    <2> HIDE DEF st
    <2>6. ASSUME NEW q \in Query
          PROVE  OwnCall(query[q], q, st)
      <3>1. query[q] \in Call /\ OwnCall(query[q], q, stream)
        BY DEF OwnInv, TypeOK
      <3>2. CASE query[q].on # s
        <4>1. query[q].on # None => st[query[q].on] = stream[query[q].on]
          BY <2>4, <3>1, <3>2 DEF Call
        <4> QED
          BY <3>1, <4>1 DEF OwnCall
      <3>3. CASE query[q].on = s
        <4>1. why = "idle" => ~(query[q].at \in Active /\ query[q].ch = None)
          BY <3>1, <3>3, IdIs, Nobody DEF OwnCall, Taken
        <4> QED
          BY <2>1, <2>2, <2>4, <3>1, <3>3, <4>1 DEF OwnCall
      <3> QED
        BY <3>2, <3>3
    <2> QED
      BY <2>3, <2>4, <2>5, <2>6, ForgetOwn, ForgetCall DEF TypeOK
  <1> QED
    BY <1>1, <1>2

\* The deferred unregister takes the waiter of its own query away, or nobody.
LEMMA UnregisteredOwn ==
    ASSUME TypeOK, OwnInv, NEW q \in Query, query[q].on \in Stream
    PROVE  LET s == query[q].on IN
           /\ \A t \in Stream : t # s => Unregistered(q, s)[t] = stream[t]
           /\ Unregistered(q, s)[s].state = stream[s].state
           /\ Owed(Unregistered(q, s)[s]) = Owed(stream[s])
           /\ \A i \in Id : Unregistered(q, s)[s].waiters[i]
                              = IF stream[s].waiters[i] = q THEN None ELSE stream[s].waiters[i]
  <1> DEFINE s == query[q].on
             w == [i \in Id |-> IF i = query[q].id THEN None ELSE stream[s].waiters[i]]
             p == [stream[s] EXCEPT !.waiters = w]
  <1>1. stream[s] \in Pipe /\ query[q] \in Call /\ OwnPipe(stream[s], s, query)
    BY DEF TypeOK, OwnInv
  <1>2. Unregistered(q, s) = [stream EXCEPT ![s] = p]
    BY DEF Unregistered
  <1>3. p.state = stream[s].state /\ Owed(p) = Owed(stream[s]) /\ p.waiters = w
    <2> HIDE DEF w
    <2> QED
      BY <1>1 DEF Pipe, Owed
  <1>4. ASSUME NEW i \in Id
        PROVE  w[i] = IF stream[s].waiters[i] = q THEN None ELSE stream[s].waiters[i]
    <2>1. i = query[q].id => stream[s].waiters[i] \in {None, q}
      BY <1>1, Nobody DEF OwnPipe
    <2>2. stream[s].waiters[i] = q => query[q].id = i
      BY <1>1, Nobody DEF OwnPipe
    <2> QED
      BY <2>1, <2>2
  <1> HIDE DEF p, w
  <1> QED
    BY <1>2, <1>3, <1>4 DEF TypeOK

-----------------------------------------------------------------------------
(* The ways a step can disturb it. *)

\* The streams are as promised, and one query moves on without a new ID.
LEMMA MovedOwn ==
    ASSUME TypeOK, NEW streams \in [Stream -> Pipe], stream' = streams,
           \A s \in Stream : OwnPipe(streams[s], s, query),
           \A p \in Query : OwnCall(query[p], p, streams),
           NEW q \in Query, NEW r \in Call, query' = [query EXCEPT ![q] = r],
           r.id = query[q].id, r.id # NoId => r.on = query[q].on, OwnCall(r, q, streams)
    PROVE  OwnInv'
  <1>1. query' \in [Query -> Call] /\ query'[q] = r /\ \A p \in Query : p # q => query'[p] = query[p]
    BY DEF TypeOK
  <1>2. \A p \in Query : query'[p].id = query[p].id
                         /\ (query'[p].id # NoId => query'[p].on = query[p].on)
    BY <1>1
  <1>3. \A s \in Stream : OwnPipe(streams[s], s, query')
    <2> SUFFICES ASSUME NEW s \in Stream PROVE OwnPipe(streams[s], s, query')
      OBVIOUS
    <2>1. streams[s] \in Pipe /\ query \in [Query -> Call]
      BY DEF TypeOK
    <2>2. OwnPipe(streams[s], s, query)
      OBVIOUS
    <2> QED
      BY <1>1, <1>2, <2>1, <2>2, PipeKept
  <1>4. \A p \in Query : OwnCall(query'[p], p, streams)
    BY <1>1
  <1> QED
    BY <1>3, <1>4 DEF OwnInv

\* A query leaves roundTrip without an answer.
LEMMA LeaveOwn ==
    ASSUME TypeOK, NEW streams \in [Stream -> Pipe], stream' = streams,
           \A s \in Stream : OwnPipe(streams[s], s, query),
           \A p \in Query : OwnCall(query[p], p, streams),
           NEW q \in Query, NEW why \in Outcomes \ {"ok"}, Leave(q, why),
           query[q].at \in OnStream
    PROVE  OwnInv'
  <1> DEFINE r == [query[q] EXCEPT !.at = "leave", !.err = why]
  <1>1. query[q] \in Call
    BY DEF TypeOK
  <1>2. r \in Call /\ query' = [query EXCEPT ![q] = r]
    <2>1. why \in Outcomes /\ "leave" \in Places
      BY DEF Places
    <2>2. r \in Call
      BY <1>1, <2>1 DEF Call
    <2>3. query' = [query EXCEPT ![q] = r]
      BY DEF Leave
    <2> QED
      BY <2>2, <2>3
  <1>3. r.at = "leave" /\ r.on = query[q].on /\ r.id = query[q].id /\ r.ch = query[q].ch /\ r.err = why
    BY <1>1 DEF Call
  <1> HIDE DEF r
  <1>4. OwnCall(r, q, streams)
    BY <1>3 DEF OwnCall, Active
  <1> QED
    BY <1>2, <1>3, <1>4, MovedOwn

\* A query leaves roundTrip with what its channel holds, which is its own answer.
LEMMA AnsweredOwn ==
    ASSUME TypeOK, OwnInv, NEW q \in Query, Answered(q), query[q].at = "wait", query[q].ch # None,
           stream' = stream
    PROVE  OwnInv'
  <1> DEFINE r == [query[q] EXCEPT !.at = "leave", !.err = "ok", !.got = query[q].ch]
  <1>1. query[q] \in Call /\ OwnCall(query[q], q, stream)
    BY DEF TypeOK, OwnInv
  <1>2. r \in Call /\ query' = [query EXCEPT ![q] = r]
    BY <1>1 DEF Call, Places, Outcomes, Answered
  <1>3. r.at = "leave" /\ r.on = query[q].on /\ r.id = query[q].id /\ r.ch = query[q].ch
        /\ r.got = query[q].ch
    BY <1>1 DEF Call
  <1> HIDE DEF r
  <1>4. OwnCall(r, q, stream)
    BY <1>1, <1>3 DEF OwnCall, Active
  <1> QED
    BY <1>2, <1>3, <1>4, MovedOwn DEF TypeOK, OwnInv

\* A query that is on no stream yet returns with an error.
LEMMA ReturnOwn ==
    ASSUME TypeOK, OwnInv, NEW q \in Query, NEW why \in Outcomes \ {"ok"}, Return(q, why),
           query[q].at \in {"lock", "dial"}, stream' = stream
    PROVE  OwnInv'
  <1> DEFINE r == [NewCall EXCEPT !.at = "done", !.tries = query[q].tries,
                                  !.err = why, !.got = query[q].got]
  <1>1. query[q] \in Call /\ OwnCall(query[q], q, stream)
    BY DEF TypeOK, OwnInv
  <1>2. r \in Call /\ query' = [query EXCEPT ![q] = r]
    BY <1>1, CallType DEF Call, Places, Return
  <1>3. r.at = "done" /\ r.on = None /\ r.id = NoId /\ r.ch = None /\ r.err = why
    BY DEF NewCall
  <1> HIDE DEF r
  <1>4. query[q].id = NoId
    BY <1>1 DEF OwnCall, Active
  <1>5. OwnCall(r, q, stream)
    BY <1>3 DEF OwnCall, Active
  <1> QED
    BY <1>2, <1>3, <1>4, <1>5, MovedOwn DEF TypeOK, OwnInv

\* Only what the calls have heard changes, and on one stream what it owes gets less.
LEMMA LessOwed ==
    ASSUME TypeOK, OwnInv, NEW s \in Stream, NEW p \in Pipe, stream' = [stream EXCEPT ![s] = p],
           p.state = stream[s].state, p.waiters = stream[s].waiters,
           Owed(p) \subseteq Owed(stream[s]), query' \in [Query -> Call],
           \A q \in Query : /\ query'[q].at = query[q].at
                            /\ query'[q].on = query[q].on
                            /\ query'[q].id = query[q].id
                            /\ query'[q].ch = query[q].ch
                            /\ query'[q].err = query[q].err
                            /\ query'[q].got = query[q].got
    PROVE  OwnInv'
  <1>1. stream'[s] = p /\ \A t \in Stream : t # s => stream'[t] = stream[t]
    BY DEF TypeOK
  <1>2. ASSUME NEW t \in Stream
        PROVE  OwnPipe(stream'[t], t, query')
    <2>1. stream[t] \in Pipe /\ stream'[t] \in Pipe /\ query \in [Query -> Call]
      BY <1>1 DEF TypeOK
    <2>2. OwnPipe(stream[t], t, query)
      BY DEF OwnInv
    <2>3. stream'[t].waiters = stream[t].waiters /\ Owed(stream'[t]) \subseteq Owed(stream[t])
      BY <1>1
    <2> QED
      BY <2>1, <2>2, <2>3, PipeKept
  <1>3. ASSUME NEW q \in Query
        PROVE  OwnCall(query'[q], q, stream')
    <2>1. OwnCall(query[q], q, stream) /\ query[q].on \in Stream \union {None}
      BY DEF OwnInv, TypeOK, Call
    <2>2. query[q].on # None => /\ stream'[query[q].on].state = stream[query[q].on].state
                                /\ stream'[query[q].on].waiters = stream[query[q].on].waiters
      BY <1>1, <2>1
    <2> QED
      BY <2>1, <2>2 DEF OwnCall, Active
  <1> QED
    BY <1>2, <1>3 DEF OwnInv

-----------------------------------------------------------------------------
(* One lemma per action, or per group of actions alike. *)

LEMMA ArriveOwn ==
    ASSUME IInv, OwnInv, NEW q \in Query, Arrive(q)
    PROVE  OwnInv'
  <1> DEFINE r == [query[q] EXCEPT !.at = "lock"]
  <1>1. query[q] \in Call /\ OwnCall(query[q], q, stream) /\ query[q].at = "unborn" /\ stream' = stream
    BY NAssumption DEF IInv, TypeOK, OwnInv, CallInv, Arrive, Query
  <1>2. r \in Call /\ query' = [query EXCEPT ![q] = r]
    BY <1>1 DEF Call, Places, Arrive, Goto
  <1>3. r.at = "lock" /\ r.on = query[q].on /\ r.id = query[q].id /\ r.ch = query[q].ch
        /\ r.err = query[q].err /\ r.got = query[q].got
    BY <1>1 DEF Call
  <1> HIDE DEF r
  <1>4. OwnCall(r, q, stream)
    BY <1>1, <1>3 DEF OwnCall, Active
  <1> QED
    BY <1>1, <1>2, <1>3, <1>4, MovedOwn DEF IInv, TypeOK, OwnInv

\* Refused, sharing the current stream, or about to dial.
LEMMA GetStreamOwn ==
    ASSUME IInv, OwnInv, NEW q \in Query, GetStream(q)
    PROVE  OwnInv'
  <1>1. /\ query[q] \in Call /\ OwnCall(query[q], q, stream) /\ query[q].at = "lock"
        /\ stream' = stream /\ TypeOK
    BY DEF IInv, TypeOK, OwnInv, GetStream, At
  <1>2. query[q].on = None /\ query[q].id = NoId
    BY <1>1 DEF OwnCall, Active
  <1>3. CASE Return(q, "closed")
    BY <1>1, <1>3, ReturnOwn DEF Outcomes
  <1>4. CASE Goto(q, "dial")
    <2> DEFINE r == [query[q] EXCEPT !.at = "dial"]
    <2>1. r \in Call /\ query' = [query EXCEPT ![q] = r]
      BY <1>1, <1>4 DEF Call, Places, Goto
    <2>2. r.at = "dial" /\ r.on = query[q].on /\ r.id = query[q].id /\ r.ch = query[q].ch
          /\ r.err = query[q].err /\ r.got = query[q].got
      BY <1>1 DEF Call
    <2> HIDE DEF r
    <2>3. OwnCall(r, q, stream)
      BY <1>1, <1>2, <2>2 DEF OwnCall, Active
    <2> QED
      BY <1>1, <2>1, <2>2, <2>3, MovedOwn DEF TypeOK, OwnInv
  <1>5. CASE Live(cur) /\ query' = [query EXCEPT ![q].at = "register", ![q].on = cur]
    <2> DEFINE r == [query[q] EXCEPT !.at = "register", !.on = cur]
    <2>1. r \in Call /\ query' = [query EXCEPT ![q] = r]
      BY <1>1, <1>5 DEF Call, Places, TypeOK
    <2>2. r.at = "register" /\ r.on = cur /\ r.id = query[q].id /\ r.ch = query[q].ch
          /\ r.err = query[q].err /\ r.got = query[q].got
      BY <1>1 DEF Call
    <2> HIDE DEF r
    <2>3. OwnCall(r, q, stream)
      BY <1>1, <1>2, <1>5, <2>2 DEF OwnCall, Active, Live
    <2> QED
      BY <1>1, <1>2, <2>1, <2>2, <2>3, MovedOwn DEF TypeOK, OwnInv
  <1> QED
    BY <1>3, <1>4, <1>5 DEF GetStream

LEMMA DialLostOwn ==
    ASSUME IInv, OwnInv, NEW q \in Query, DialFails(q) \/ DialExpires(q)
    PROVE  OwnInv'
  <1>1. query[q].at = "dial" /\ stream' = stream /\ TypeOK
        /\ (Return(q, "dialFailed") \/ Return(q, "timeout"))
    BY DEF IInv, DialFails, DialExpires, At
  <1>2. {"dialFailed", "timeout"} \subseteq Outcomes \ {"ok"}
    BY DEF Outcomes
  <1> QED
    BY <1>1, <1>2, ReturnOwn

\* The fresh stream takes an unused place, so nobody is on it.
LEMMA DialOkOwn ==
    ASSUME IInv, OwnInv, NEW q \in Query, DialOk(q)
    PROVE  OwnInv'
  <1>1. query[q] \in Call /\ OwnCall(query[q], q, stream) /\ query[q].at = "dial" /\ TypeOK
    BY DEF IInv, TypeOK, OwnInv, DialOk, At
  <1>2. PICK s \in Stream : /\ stream[s].state = "none"
                            /\ stream' = [stream EXCEPT ![s] = NewStream]
                            /\ query' = [query EXCEPT ![q].at = "register", ![q].on = s]
    BY DEF DialOk
  <1> DEFINE r == [query[q] EXCEPT !.at = "register", !.on = s]
  <1>3. r \in Call /\ query' = [query EXCEPT ![q] = r]
    BY <1>1, <1>2 DEF Call, Places
  <1>4. r.at = "register" /\ r.on = s /\ r.id = query[q].id /\ r.ch = query[q].ch
        /\ r.err = query[q].err /\ r.got = query[q].got
    BY <1>1 DEF Call
  <1> HIDE DEF r
  <1>5. /\ query' \in [Query -> Call] /\ query'[q] = r
        /\ \A p \in Query : p # q => query'[p] = query[p]
    BY <1>1, <1>3 DEF TypeOK
  <1>6. stream'[s] = NewStream /\ \A t \in Stream : t # s => stream'[t] = stream[t]
    BY <1>1, <1>2 DEF TypeOK
  <1>7. query[q].id = NoId /\ \A p \in Query : query[p].on # s
    BY <1>1, <1>2, Nobody DEF OwnInv, OwnCall, Active
  <1>8. ASSUME NEW t \in Stream
        PROVE  OwnPipe(stream'[t], t, query')
    <2>1. CASE t = s
      BY <1>5, <1>6, <2>1, EmptyOwn
    <2>2. CASE t # s
      <3>1. stream[t] \in Pipe /\ OwnPipe(stream[t], t, query) /\ query \in [Query -> Call]
        BY <1>1 DEF TypeOK, OwnInv
      <3>2. \A p \in Query : query'[p].id = query[p].id
                             /\ (query'[p].id # NoId => query'[p].on = query[p].on)
        BY <1>4, <1>5, <1>7
      <3> QED
        BY <1>5, <1>6, <2>2, <3>1, <3>2, PipeKept
    <2> QED
      BY <2>1, <2>2
  <1>9. ASSUME NEW p \in Query
        PROVE  OwnCall(query'[p], p, stream')
    <2>1. CASE p = q
      <3>1. NewStream.state = "live"
        BY PipeType, <1>1
      <3> QED
        BY <1>1, <1>4, <1>5, <1>6, <1>7, <2>1, <3>1 DEF OwnCall, Active
    <2>2. CASE p # q
      <3>1. OwnCall(query[p], p, stream) /\ query[p].on \in Stream \union {None}
        BY <1>1 DEF OwnInv, TypeOK, Call
      <3>2. query[p].on # None => stream'[query[p].on] = stream[query[p].on]
        BY <1>6, <1>7, <3>1
      <3> QED
        BY <1>5, <2>2, <3>1, <3>2 DEF OwnCall
    <2> QED
      BY <2>1, <2>2
  <1> QED
    BY <1>8, <1>9 DEF OwnInv

\* The fresh ID is nobody's: so its query is the waiter under it, and no answer owed
\* bears it.
LEMMA RegisterOwn ==
    ASSUME IInv, OwnInv, NoReuse, NEW q \in Query, Register(q)
    PROVE  OwnInv'
  <1> DEFINE s == query[q].on
  <1>1. /\ query[q] \in Call /\ OwnCall(query[q], q, stream) /\ query[q].at = "register"
        /\ s \in Stream /\ Live(s) /\ TypeOK /\ stream[s] \in Pipe
    BY OnAStream DEF IInv, TypeOK, OwnInv, Register, At, OnStream
  <1>2. PICK i \in Id : /\ i \in FreshIds(s)
                        /\ stream' = [stream EXCEPT ![s].waiters[i] = q, ![s].nextID = i]
                        /\ query' = [query EXCEPT ![q].at = "write", ![q].id = i]
    BY DEF Register, FreshIds
  <1>3. ~InUse(s, i)
    BY <1>1, <1>2 DEF NoReuse, At
  <1> DEFINE w == [stream[s].waiters EXCEPT ![i] = q]
             p == [stream[s] EXCEPT !.waiters = w, !.nextID = i]
             r == [query[q] EXCEPT !.at = "write", !.id = i]
  <1>4. /\ stream' = [stream EXCEPT ![s] = p]
        /\ p.state = stream[s].state /\ p.waiters = w /\ Owed(p) = Owed(stream[s])
    <2> HIDE DEF w
    <2>1. p.state = stream[s].state /\ p.waiters = w /\ Owed(p) = Owed(stream[s])
      BY <1>1 DEF Pipe, Owed
    <2>2. stream' = [stream EXCEPT ![s] = p]
      BY <1>2 DEF w
    <2> QED
      BY <2>1, <2>2
  <1>5. w[i] = q /\ \A j \in Id : j # i => w[j] = stream[s].waiters[j]
    BY <1>1 DEF Pipe, Waiters
  <1>6. r \in Call /\ query' = [query EXCEPT ![q] = r]
    BY <1>1, <1>2 DEF Call, Places
  <1>7. r.at = "write" /\ r.on = s /\ r.id = i /\ r.ch = query[q].ch
        /\ r.err = query[q].err /\ r.got = query[q].got
    BY <1>1 DEF Call
  <1> HIDE DEF p, r, w
  <1>8. /\ query' \in [Query -> Call] /\ query'[q] = r
        /\ \A x \in Query : x # q => query'[x] = query[x]
    BY <1>1, <1>6 DEF TypeOK
  <1>9. stream'[s] = p /\ \A t \in Stream : t # s => stream'[t] = stream[t]
    BY <1>1, <1>4 DEF TypeOK
  <1>10. query[q].id = NoId /\ i # NoId /\ s # None /\ stream[s].state = "live"
    BY <1>1, Nobody DEF OwnCall, Active, Live
  <1>11. \A t \in Stream : stream[t] \in Pipe /\ OwnPipe(stream[t], t, query)
    BY <1>1 DEF TypeOK, OwnInv
  <1>12. /\ \A x \in Query : query[x].on = s => query[x].id # i
         /\ \A f \in Owed(stream[s]) : f.id # i /\ f.id \in Id
    <2>1. \A f \in Owed(stream[s]) : f.id \in Id
      BY <1>1 DEF Owed, Pipe, Hand, Frame
    <2> QED
      BY <1>3, <2>1 DEF InUse
  <1>13. ASSUME NEW t \in Stream
         PROVE  OwnPipe(stream'[t], t, query')
    <2>1. \A j \in Id : stream[t].waiters[j] # None => stream[t].waiters[j] \in Query \ {q}
      BY <1>10, <1>11, Nobody DEF OwnPipe, Pipe, Waiters
    <2>2. CASE t = s
      <3>1. \A x \in Query : query'[x].on = s /\ query'[x].id # NoId =>
                p.waiters[query'[x].id] \in {None, x}
        <4> SUFFICES ASSUME NEW x \in Query, query'[x].on = s, query'[x].id # NoId
                     PROVE  p.waiters[query'[x].id] \in {None, x}
          OBVIOUS
        <4>1. CASE x = q
          BY <1>4, <1>5, <1>7, <1>8, <4>1
        <4>2. CASE x # q
          <5>1. query[x] \in Call /\ query'[x] = query[x]
            BY <1>1, <1>8, <4>2 DEF TypeOK
          <5>2. query[x].id \in Id /\ query[x].id # i
            BY <5>1, <1>12, IdIs
          <5> QED
            BY <1>1, <1>4, <1>5, <1>11, <5>1, <5>2 DEF OwnPipe
        <4> QED
          BY <4>1, <4>2
      <3>2. \A f \in Owed(p) : p.waiters[f.id] \in {None, f.of}
        BY <1>1, <1>4, <1>5, <1>11, <1>12 DEF OwnPipe
      <3>3. \A j \in Id : p.waiters[j] # None =>
                query'[p.waiters[j]].on = s /\ query'[p.waiters[j]].id = j
        <4> SUFFICES ASSUME NEW j \in Id, p.waiters[j] # None
                     PROVE  query'[p.waiters[j]].on = s /\ query'[p.waiters[j]].id = j
          OBVIOUS
        <4>1. CASE j = i
          BY <1>4, <1>5, <1>7, <1>8, <4>1
        <4>2. CASE j # i
          BY <1>4, <1>5, <1>8, <1>11, <2>1, <2>2, <4>2 DEF OwnPipe
        <4> QED
          BY <4>1, <4>2
      <3> QED
        BY <1>9, <2>2, <3>1, <3>2, <3>3 DEF OwnPipe
    <2>3. CASE t # s
      <3>1. \A x \in Query : query'[x].on = t => x # q
        BY <1>7, <1>8, <2>3
      <3> QED
        BY <1>8, <1>9, <1>11, <2>1, <2>3, <3>1 DEF OwnPipe
    <2> QED
      BY <2>2, <2>3
  <1>14. ASSUME NEW x \in Query
         PROVE  OwnCall(query'[x], x, stream')
    <2>1. CASE x = q
      BY <1>1, <1>4, <1>5, <1>7, <1>8, <1>9, <1>10, <2>1 DEF OwnCall, Active
    <2>2. CASE x # q
      <3>1. OwnCall(query[x], x, stream) /\ query[x] \in Call /\ query'[x] = query[x]
        BY <1>1, <1>8, <2>2 DEF OwnInv, TypeOK
      <3>2. CASE query[x].on = s
        <4>1. query[x].id # NoId => p.waiters[query[x].id] = stream[s].waiters[query[x].id]
          BY <1>4, <1>5, <1>12, <3>1, <3>2, IdIs
        <4> QED
          BY <1>4, <1>9, <3>1, <3>2, <4>1 DEF OwnCall
      <3>3. CASE query[x].on # s
        <4>1. query[x].on # None => stream'[query[x].on] = stream[query[x].on]
          BY <1>9, <3>1, <3>3 DEF Call
        <4> QED
          BY <3>1, <4>1 DEF OwnCall
      <3> QED
        BY <3>2, <3>3
    <2> QED
      BY <2>1, <2>2
  <1> QED
    BY <1>13, <1>14 DEF OwnInv

LEMMA RegisterFailsOwn ==
    ASSUME IInv, OwnInv, NEW q \in Query, RegisterFails(q)
    PROVE  OwnInv'
  <1> DEFINE s == query[q].on
  <1>1. query[q].at \in OnStream /\ s \in Stream /\ stream' = stream /\ TypeOK
    BY OnAStream DEF IInv, RegisterFails, At, OnStream
  <1>2. PICK why \in Outcomes \ {"ok"} : Leave(q, why)
    <2>1. CASE ~Live(s) /\ Leave(q, stream[s].state)
      <3>1. stream[s].state \in States \ {"live"}
        BY <1>1, <2>1, NAssumption DEF TypeOK, Pipe, Live, Stream, None
      <3> QED
        BY <2>1, <3>1 DEF States, Outcomes, BrokenClass
    <2> QED
      BY <2>1 DEF RegisterFails, Outcomes
  <1> QED
    BY <1>1, <1>2, LeaveOwn DEF TypeOK, OwnInv

\* The question is asked under an ID that is its query's or nobody's.
LEMMA WriteFrameOwn ==
    ASSUME IInv, OwnInv, NEW q \in Query, WriteFrame(q)
    PROVE  OwnInv'
  <1> DEFINE s  == query[q].on
             f  == [id |-> query[q].id, of |-> q]
             p  == [stream[s] EXCEPT !.asked = @ \union {f}]
             r  == [query[q] EXCEPT !.at = "written"]
  <1>1. /\ query[q] \in Call /\ OwnCall(query[q], q, stream) /\ query[q].at = "write"
        /\ s \in Stream /\ TypeOK /\ stream[s] \in Pipe /\ query[q].id \in Id
    BY OnAStream, IdIs DEF IInv, TypeOK, OwnInv, WriteFrame, MayWrite, At, OnStream, OwnCall, Active
  <1>2. f \in Frame /\ f.id = query[q].id /\ f.of = q
    BY <1>1 DEF Frame
  <1>3. stream' = IF Live(s) THEN [stream EXCEPT ![s] = p] ELSE stream
    BY DEF WriteFrame
  <1>4. p \in Pipe /\ p.state = stream[s].state /\ p.waiters = stream[s].waiters
        /\ Owed(p) = Owed(stream[s]) \union {f}
    <2> HIDE DEF f
    <2> QED
      BY <1>1, <1>2 DEF Pipe, Owed
  <1>5. r \in Call /\ query' = [query EXCEPT ![q] = r]
    BY <1>1 DEF Call, Places, WriteFrame, Goto
  <1>6. r.at = "written" /\ r.on = s /\ r.id = query[q].id /\ r.ch = query[q].ch
        /\ r.err = query[q].err /\ r.got = query[q].got
    BY <1>1 DEF Call
  <1>7. OwnPipe(p, s, query)
    <2>1. OwnPipe(stream[s], s, query)
      BY <1>1 DEF OwnInv
    <2>2. stream[s].waiters[f.id] \in {None, f.of}
      BY <1>1, <1>2, <2>1, Nobody DEF OwnPipe
    <2> HIDE DEF p, f
    <2> QED
      BY <1>4, <2>1, <2>2 DEF OwnPipe
  <1> HIDE DEF p, r, f
  <1>8. /\ stream' \in [Stream -> Pipe]
        /\ \A t \in Stream : OwnPipe(stream'[t], t, query)
        /\ \A t \in Stream : /\ stream'[t].state = stream[t].state
                             /\ stream'[t].waiters = stream[t].waiters
    BY <1>1, <1>3, <1>4, <1>7 DEF TypeOK, OwnInv
  <1>9. ASSUME NEW x \in Query
        PROVE  OwnCall(query[x], x, stream')
    <2>1. OwnCall(query[x], x, stream) /\ query[x].on \in Stream \union {None}
      BY <1>1 DEF OwnInv, TypeOK, Call
    <2> QED
      BY <1>8, <2>1 DEF OwnCall, Active
  <1>10. OwnCall(r, q, stream')
    BY <1>1, <1>6, <1>9 DEF OwnCall, Active
  <1> QED
    BY <1>1, <1>5, <1>6, <1>8, <1>9, <1>10, MovedOwn

\* A query whose write or wait fails its stream.
LEMMA GivesUpOwn ==
    ASSUME IInv, OwnInv, NEW q \in Query, WriteExpires(q) \/ Abandon(q) \/ WriteBreaks(q)
    PROVE  OwnInv'
  <1> DEFINE s == query[q].on
  <1>1. query[q].at \in OnStream /\ s \in Stream /\ TypeOK
    BY OnAStream DEF IInv, WriteExpires, Abandon, WriteBreaks, MayWrite, At, OnStream
  <1>2. PICK why \in {"broken", "abandoned"} : stream' = Failed(s, why)
    BY DEF WriteExpires, Abandon, WriteBreaks
  <1>3. /\ stream' \in [Stream -> Pipe] /\ stream'[s].state \in States \ {"live"}
        /\ \A t \in Stream : OwnPipe(stream'[t], t, query)
        /\ \A x \in Query : OwnCall(query[x], x, stream')
    <2>1. why \in BrokenClass \union {"closed"} /\ why # "idle"
      BY <1>2 DEF BrokenClass
    <2> QED
      BY <1>1, <1>2, <2>1, FailedKills, FailedOwn
  <1>4. PICK err \in Outcomes \ {"ok"} : Leave(q, err)
    <2>1. "timeout" \in Outcomes \ {"ok"} /\ stream'[s].state \in Outcomes \ {"ok"}
      BY <1>3 DEF Outcomes, States, BrokenClass
    <2> QED
      BY <2>1 DEF WriteExpires, Abandon, WriteBreaks
  <1> QED
    BY <1>1, <1>3, <1>4, LeaveOwn

\* The waits: the end of a write, and the three cases of the select.
LEMMA WaitOwn ==
    ASSUME IInv, OwnInv, NEW q \in Query,
           NoteWritten(q) \/ TakeAnswer(q) \/ SeeDone(q) \/ Timer(q)
    PROVE  OwnInv'
  <1>1. /\ query[q] \in Call /\ OwnCall(query[q], q, stream) /\ query[q].at \in {"written", "wait"}
        /\ query[q].at \in OnStream /\ query[q].on \in Stream /\ stream' = stream /\ TypeOK
    BY OnAStream DEF IInv, TypeOK, OwnInv, NoteWritten, TakeAnswer, SeeDone, Timer, At, OnStream
  <1>2. CASE query[q].at = "wait" /\ query[q].ch # None /\ Answered(q)
    BY <1>1, <1>2, AnsweredOwn
  <1>3. ASSUME NEW why \in Outcomes \ {"ok"}, Leave(q, why)
        PROVE  OwnInv'
    BY <1>1, <1>3, LeaveOwn DEF TypeOK, OwnInv
  <1>4. ASSUME NEW place \in {"wait", "abandon"}, NEW heard \in BOOLEAN,
               query' = [query EXCEPT ![q].at = place, ![q].heard = heard]
        PROVE  OwnInv'
    <2> DEFINE r == [query[q] EXCEPT !.at = place, !.heard = heard]
    <2>1. r \in Call /\ query' = [query EXCEPT ![q] = r]
      BY <1>1, <1>4 DEF Call, Places
    <2>2. r.at = place /\ r.on = query[q].on /\ r.id = query[q].id /\ r.ch = query[q].ch
          /\ r.err = query[q].err /\ r.got = query[q].got
      BY <1>1 DEF Call
    <2> HIDE DEF r
    <2>3. OwnCall(r, q, stream)
      BY <1>1, <2>2 DEF OwnCall, Active
    <2> QED
      BY <1>1, <2>1, <2>2, <2>3, MovedOwn DEF TypeOK, OwnInv
  <1>5. CASE NoteWritten(q)
    BY <1>4, <1>5 DEF NoteWritten
  <1>6. CASE TakeAnswer(q)
    BY <1>2, <1>6 DEF TakeAnswer, At
  <1>7. CASE SeeDone(q)
    <2>1. ~Live(query[q].on)
      BY <1>7 DEF SeeDone
    <2>2. stream[query[q].on].state \in Outcomes \ {"ok"}
      BY <1>1, <2>1, NAssumption DEF TypeOK, Pipe, Live, Stream, None, States, Outcomes, BrokenClass
    <2> QED
      BY <1>2, <1>3, <1>7, <2>2 DEF SeeDone, At
  <1>8. CASE Timer(q)
    <2>1. CASE Leave(q, "timeout")
      BY <1>3, <2>1 DEF Outcomes
    <2>2. CASE Goto(q, "abandon")
      <3>1. query' = [query EXCEPT ![q].at = "abandon", ![q].heard = query[q].heard]
        BY <1>1, <2>2 DEF Goto, TypeOK, Call
      <3>2. query[q].heard \in BOOLEAN
        BY <1>1 DEF Call
      <3> QED
        BY <1>4, <3>1, <3>2
    <2> QED
      BY <1>8, <2>1, <2>2 DEF Timer
  <1> QED
    BY <1>5, <1>6, <1>7, <1>8

\* A query lets go of its ID, its stream and its channel, to return or to try again.
LEMMA ResetOwn ==
    ASSUME IInv, OwnInv, NEW q \in Query, query[q].on \in Stream, query[q].at = "leave",
           NEW r \in Call, query' = [query EXCEPT ![q] = r],
           r.at \in {"done", "lock"}, r.on = None, r.id = NoId, r.ch = None,
           r.err = "ok" => r.got = q,
           stream' = Forget(Unregistered(q, query[q].on), query')
    PROVE  OwnInv'
  <1> DEFINE s == query[q].on
             u == Unregistered(q, s)
  <1>1. /\ TypeOK /\ u \in [Stream -> Pipe]
        /\ \A t \in Stream : stream[t] \in Pipe /\ u[t].state = stream[t].state
                             /\ OwnPipe(stream[t], t, query)
    BY UnregisteredKeeps DEF IInv, TypeOK, OwnInv
  <1>2. /\ \A t \in Stream : t # s => u[t] = stream[t]
        /\ Owed(u[s]) = Owed(stream[s])
        /\ \A i \in Id : u[s].waiters[i]
                           = IF stream[s].waiters[i] = q THEN None ELSE stream[s].waiters[i]
    BY <1>1, UnregisteredOwn
  <1>3. /\ query' \in [Query -> Call] /\ query'[q] = r
        /\ \A x \in Query : x # q => query'[x] = query[x] /\ query[x] \in Call
    BY <1>1 DEF TypeOK
  <1> HIDE DEF u
  <1>4. ASSUME NEW t \in Stream
        PROVE  OwnPipe(u[t], t, query')
    <2>1. /\ Owed(u[t]) = Owed(stream[t])
          /\ \A i \in Id : u[t].waiters[i] = stream[t].waiters[i] \/ u[t].waiters[i] = None
      BY <1>2
    <2>2. \A i \in Id : stream[t].waiters[i] \in Query \union {None}
      BY <1>1 DEF Pipe, Waiters
    <2>3. \A i \in Id : u[t].waiters[i] # q
      <3>1. CASE t = s
        BY <1>2, <3>1, Nobody
      <3>2. CASE t # s
        BY <1>1, <1>2, <3>2, Nobody DEF OwnPipe
      <3> QED
        BY <3>1, <3>2
    <2>4. \A x \in Query : query'[x].on = t /\ query'[x].id # NoId =>
              u[t].waiters[query'[x].id] \in {None, x}
      <3> SUFFICES ASSUME NEW x \in Query, query'[x].on = t, query'[x].id # NoId
                   PROVE  u[t].waiters[query'[x].id] \in {None, x}
        OBVIOUS
      <3>1. x # q /\ query'[x] = query[x] /\ query[x].id \in Id
        BY <1>3, IdIs
      <3>2. stream[t].waiters[query[x].id] \in {None, x}
        BY <1>1, <3>1 DEF OwnPipe
      <3> QED
        BY <2>1, <3>1, <3>2
    <2>5. \A f \in Owed(u[t]) : u[t].waiters[f.id] \in {None, f.of}
      <3>1. \A f \in Owed(stream[t]) : f.id \in Id
        BY <1>1 DEF Owed, Pipe, Hand, Frame
      <3> QED
        BY <1>1, <2>1, <3>1 DEF OwnPipe
    <2>6. \A i \in Id : u[t].waiters[i] # None =>
              query'[u[t].waiters[i]].on = t /\ query'[u[t].waiters[i]].id = i
      BY <1>1, <1>3, <2>1, <2>2, <2>3 DEF OwnPipe
    <2> QED
      BY <2>4, <2>5, <2>6 DEF OwnPipe
  <1>5. ASSUME NEW x \in Query
        PROVE  OwnCall(query'[x], x, u)
    <2>1. CASE x = q
      BY <1>3, <2>1, Nobody DEF OwnCall, Active
    <2>2. CASE x # q
      <3>1. OwnCall(query[x], x, stream) /\ query'[x] = query[x] /\ query[x] \in Call
        BY <1>3, <2>2 DEF OwnInv
      <3>2. query[x].on # None => u[query[x].on].state = stream[query[x].on].state
        BY <1>1, <3>1 DEF Call
      <3>3. query[x].on # None /\ query[x].id # NoId /\ stream[query[x].on].waiters[query[x].id] = x
              => u[query[x].on].waiters[query[x].id] = x
        <4>1. query[x].id # NoId => query[x].id \in Id
          BY <3>1, IdIs
        <4> QED
          BY <1>2, <2>2, <3>1, <4>1 DEF Call
      <3> QED
        BY <3>1, <3>2, <3>3 DEF OwnCall, Active
    <2> QED
      BY <2>1, <2>2
  <1>6. stream' = Forget(u, query')
    BY DEF u
  <1>7. \A t \in Stream : OwnPipe(Forget(u, query')[t], t, query')
    BY <1>1, <1>3, <1>4, ForgetOwn
  <1>8. \A x \in Query : OwnCall(query'[x], x, Forget(u, query'))
    BY <1>1, <1>3, <1>5, ForgetCall
  <1> QED
    BY <1>6, <1>7, <1>8 DEF OwnInv

\* Out of roundTrip, with an answer or without.
LEMMA LeftOwn ==
    ASSUME IInv, OwnInv, NEW q \in Query, ReturnAnswer(q) \/ Retire(q)
    PROVE  OwnInv'
  <1> DEFINE s == query[q].on
  <1>1. /\ query[q] \in Call /\ OwnCall(query[q], q, stream) /\ query[q].at = "leave"
        /\ s \in Stream /\ stream' = Forget(Unregistered(q, s), query')
    BY OnAStream DEF IInv, TypeOK, OwnInv, ReturnAnswer, Retire, At, OnStream
  <1>2. ASSUME NEW why \in Outcomes, Return(q, why), why = "ok" => query[q].err = "ok"
        PROVE  OwnInv'
    <2> DEFINE r == [NewCall EXCEPT !.at = "done", !.tries = query[q].tries,
                                    !.err = why, !.got = query[q].got]
    <2>1. r \in Call /\ query' = [query EXCEPT ![q] = r]
      BY <1>1, <1>2, CallType DEF Call, Places, Return
    <2>2. r.at = "done" /\ r.on = None /\ r.id = NoId /\ r.ch = None /\ r.err = why
          /\ r.got = query[q].got
      BY DEF NewCall
    <2> HIDE DEF r
    <2>3. r.err = "ok" => r.got = q
      BY <1>1, <1>2, <2>2 DEF OwnCall
    <2> QED
      BY <1>1, <2>1, <2>2, <2>3, ResetOwn
  <1>3. CASE query' = [query EXCEPT ![q] = [NewCall EXCEPT !.at = "lock", !.tries = 1]]
    <2> DEFINE r == [NewCall EXCEPT !.at = "lock", !.tries = 1]
    <2>1. r \in Call
      BY CallType DEF Call, Places
    <2>2. r.at = "lock" /\ r.on = None /\ r.id = NoId /\ r.ch = None /\ r.err = "none"
      BY DEF NewCall
    <2>3. query' = [query EXCEPT ![q] = r]
      BY <1>3
    <2> HIDE DEF r
    <2> QED
      BY <1>1, <2>1, <2>2, <2>3, ResetOwn
  <1>4. CASE ReturnAnswer(q)
    BY <1>2, <1>4 DEF ReturnAnswer, Outcomes
  <1>5. CASE Retire(q)
    <2>1. query[q].err \in Outcomes \ {"ok"} /\ "timeout" \in Outcomes
      BY <1>1, <1>5 DEF Retire, Call, Outcomes
    <2> QED
      BY <1>2, <1>3, <1>5, <2>1 DEF Retire
  <1> QED
    BY <1>4, <1>5

LEMMA ReadFrameOwn ==
    ASSUME IInv, OwnInv, NEW s \in Stream, ReadFrame(s)
    PROVE  OwnInv'
  <1>1. PICK f \in stream[s].asked :
            stream' = [stream EXCEPT ![s].hand = f, ![s].asked = @ \ {f}]
    BY DEF ReadFrame
  <1> DEFINE p == [stream[s] EXCEPT !.hand = f, !.asked = @ \ {f}]
  <1>2. stream[s] \in Pipe /\ TypeOK
    BY DEF IInv, TypeOK
  <1>3. p \in Pipe /\ p.state = stream[s].state /\ p.waiters = stream[s].waiters
        /\ Owed(p) \subseteq Owed(stream[s])
    BY <1>1, <1>2 DEF Pipe, Hand, Owed
  <1>4. stream' = [stream EXCEPT ![s] = p] /\ query' = query
    BY <1>1 DEF ReadFrame
  <1> HIDE DEF p
  <1> QED
    BY <1>2, <1>3, <1>4, LessOwed DEF TypeOK

LEMMA TrafficOwn ==
    ASSUME IInv, OwnInv, NEW s \in Stream, Traffic(s)
    PROVE  OwnInv'
  <1>1. PICK i \in Id : stream' = [stream EXCEPT ![s].nextID = i]
    BY DEF Traffic, FreshIds
  <1> DEFINE p == [stream[s] EXCEPT !.nextID = i]
  <1>2. stream[s] \in Pipe /\ TypeOK
    BY DEF IInv, TypeOK
  <1>3. p \in Pipe /\ p.state = stream[s].state /\ p.waiters = stream[s].waiters
        /\ Owed(p) = Owed(stream[s])
    BY <1>2 DEF Pipe, Owed
  <1>4. stream' = [stream EXCEPT ![s] = p]
    BY <1>1
  <1> HIDE DEF p
  <1>5. query' \in [Query -> Call]
    BY TrafficInv DEF IInv, TypeOK
  <1>6. ASSUME NEW q \in Query
        PROVE  /\ query'[q].at = query[q].at /\ query'[q].on = query[q].on
               /\ query'[q].id = query[q].id /\ query'[q].ch = query[q].ch
               /\ query'[q].err = query[q].err /\ query'[q].got = query[q].got
    <2>1. query[q] \in Call
      BY <1>2 DEF TypeOK
    <2>2. query'[q] = [query[q] EXCEPT !.heard = @ \/ Waiting(q, s)]
      BY DEF Traffic
    <2> QED
      BY <2>1, <2>2 DEF Call
  <1> QED
    BY <1>2, <1>3, <1>4, <1>5, <1>6, LessOwed

\* The waiter under an answer's ID is the query that asked, or nobody.
LEMMA DeliverOwn ==
    ASSUME IInv, OwnInv, NEW s \in Stream, Deliver(s)
    PROVE  OwnInv'
  <1> DEFINE f == stream[s].hand
             v == stream[s].waiters[f.id]
             w == [stream[s].waiters EXCEPT ![f.id] = None]
             p == [stream[s] EXCEPT !.hand = NoFrame, !.waiters = w]
  <1>1. stream[s] \in Pipe /\ f \in Frame /\ f # NoFrame /\ TypeOK /\ query \in [Query -> Call]
    BY DEF IInv, TypeOK, Pipe, Hand, Deliver
  <1>2. f.id \in Id /\ f.of \in Query /\ v \in {None, f.of} /\ f \in Owed(stream[s])
    BY <1>1 DEF Frame, OwnInv, OwnPipe, Owed
  <1>3. stream' = [stream EXCEPT ![s] = p]
    BY DEF Deliver
  <1>4. w[f.id] = None /\ \A i \in Id : i # f.id => w[i] = stream[s].waiters[i]
    BY <1>1, <1>2 DEF Pipe, Waiters
  <1>5. p.state = stream[s].state /\ p.waiters = w /\ Owed(p) \subseteq Owed(stream[s])
    <2> HIDE DEF w, v
    <2> QED
      BY <1>1 DEF Pipe, Owed
  <1>6. \A q \in Query :
            /\ query'[q].at = query[q].at /\ query'[q].on = query[q].on
            /\ query'[q].id = query[q].id
            /\ query'[q].err = query[q].err /\ query'[q].got = query[q].got
            /\ query'[q].ch = IF q = v /\ query[q].ch = None THEN f.of ELSE query[q].ch
    <2> HIDE DEF f, v
    <2>1. query' = [q \in Query |->
                     [query[q] EXCEPT !.heard = @ \/ Waiting(q, s),
                                      !.ch = IF q = v /\ @ = None THEN f.of ELSE @]]
      BY DEF Deliver, f, v
    <2> DEFINE heard(q) == query[q].heard \/ Waiting(q, s)
               ch(q)    == IF q = v /\ query[q].ch = None THEN f.of ELSE query[q].ch
    <2>2. ASSUME NEW q \in Query
          PROVE  /\ query'[q].at = query[q].at /\ query'[q].on = query[q].on
                 /\ query'[q].id = query[q].id
                 /\ query'[q].err = query[q].err /\ query'[q].got = query[q].got
                 /\ query'[q].ch = ch(q)
      <3>1. query'[q] = [query[q] EXCEPT !.heard = heard(q), !.ch = ch(q)]
        BY <2>1
      <3> HIDE DEF heard, ch
      <3> QED
        BY <1>1, <3>1 DEF Call
    <2> QED
      BY <2>2
  <1>7. stream'[s] = p /\ \A t \in Stream : t # s => stream'[t] = stream[t]
    BY <1>1, <1>3 DEF TypeOK
  <1>8. \A t \in Stream : stream[t] \in Pipe /\ OwnPipe(stream[t], t, query)
    BY <1>1 DEF TypeOK, OwnInv
  <1> HIDE DEF f, v, w, p
  <1>9. ASSUME NEW t \in Stream
        PROVE  OwnPipe(stream'[t], t, query')
    <2>1. /\ \A i \in Id : stream'[t].waiters[i] \in {None, stream[t].waiters[i]}
          /\ Owed(stream'[t]) \subseteq Owed(stream[t])
      BY <1>2, <1>4, <1>5, <1>7
    <2>2. \A i \in Id : stream[t].waiters[i] \in Query \union {None}
      BY <1>8 DEF Pipe, Waiters
    <2>3. \A g \in Owed(stream[t]) : g.id \in Id
      BY <1>8 DEF Owed, Pipe, Hand, Frame
    <2>4. \A q \in Query : query[q].id # NoId => query[q].id \in Id
      BY <1>1, IdIs
    <2> QED
      BY <1>6, <1>8, <2>1, <2>2, <2>3, <2>4 DEF OwnPipe
  <1>10. ASSUME NEW q \in Query
         PROVE  OwnCall(query'[q], q, stream')
    <2>1. OwnCall(query[q], q, stream) /\ query[q] \in Call
      BY <1>1 DEF OwnInv
    <2>2. query[q].on # None => stream'[query[q].on].state = stream[query[q].on].state
      BY <1>5, <1>7, <2>1 DEF Call
    <2>3. ASSUME query[q].at \in Active, query'[q].ch = None
          PROVE  stream'[query[q].on].waiters[query[q].id] = q
      <3>1. query[q].ch = None /\ q # v
        BY <1>2, <1>6, <2>3, Nobody
      <3>2. /\ stream[query[q].on].waiters[query[q].id] = q
            /\ query[q].on \in Stream /\ query[q].id \in Id
        BY <2>1, <2>3, <3>1, IdIs DEF OwnCall, Call
      <3>3. CASE query[q].on = s
        <4>1. query[q].id # f.id
          BY <3>1, <3>2, <3>3 DEF v
        <4> QED
          BY <1>4, <1>5, <1>7, <3>2, <3>3, <4>1
      <3>4. CASE query[q].on # s
        BY <1>7, <3>2, <3>4
      <3> QED
        BY <3>3, <3>4
    <2>4. query'[q].ch \in {None, q}
      BY <1>2, <1>6, <2>1, Nobody DEF OwnCall
    <2>5. query'[q].ch = None => query[q].ch = None
      BY <1>2, <1>6, Nobody
    <2> QED
      BY <1>6, <2>1, <2>2, <2>3, <2>4, <2>5 DEF OwnCall, Active
  <1> QED
    BY <1>9, <1>10 DEF OwnInv

\* The ends of a stream that no query brings about.
LEMMA StreamEndsOwn ==
    ASSUME IInv, OwnInv,
           (\E s \in Stream : BreakStream(s) \/ IdleTeardown(s)) \/ CloseEnd
    PROVE  OwnInv'
  <1>1. TypeOK /\ query' = query
    BY DEF IInv, BreakStream, IdleTeardown, CloseEnd
  <1>2. ASSUME NEW s \in Stream \union {None}, NEW why \in BrokenClass \union {"closed"},
               why = "idle" => s \in Stream /\ Taken(s) = {}, stream' = Failed(s, why)
        PROVE  OwnInv'
    <2>1. /\ \A t \in Stream : OwnPipe(Failed(s, why)[t], t, query)
          /\ \A q \in Query : OwnCall(query[q], q, Failed(s, why))
      BY <1>1, <1>2, FailedOwn
    <2> QED
      BY <1>1, <1>2, <2>1 DEF OwnInv
  <1>3. {"broken", "idle", "closed"} \subseteq BrokenClass \union {"closed"}
    BY DEF BrokenClass
  <1>4. CASE \E s \in Stream : BreakStream(s)
    BY <1>2, <1>3, <1>4 DEF BreakStream
  <1>5. CASE \E s \in Stream : IdleTeardown(s)
    BY <1>2, <1>3, <1>5 DEF IdleTeardown
  <1>6. CASE CloseEnd
    BY <1>1, <1>2, <1>3, <1>6 DEF CloseEnd, TypeOK
  <1> QED
    BY <1>4, <1>5, <1>6

LEMMA InitOwn == Init => OwnInv
  <1> SUFFICES ASSUME Init PROVE OwnInv
    OBVIOUS
  <1>1. TypeOK
    BY InitInv DEF IInv
  <1>2. ASSUME NEW s \in Stream
        PROVE  OwnPipe(stream[s], s, query)
    BY <1>1, EmptyOwn DEF Init, TypeOK
  <1>3. NewCall.at = "unborn" /\ NewCall.on = None /\ NewCall.id = NoId /\ NewCall.ch = None
        /\ NewCall.err = "none"
    BY DEF NewCall
  <1>4. ASSUME NEW q \in Query
        PROVE  OwnCall(query[q], q, stream)
    <2>1. query[q] = NewCall
      BY DEF Init
    <2> QED
      BY <1>3, <2>1 DEF OwnCall, Active
  <1> QED
    BY <1>2, <1>4 DEF OwnInv

\* While no ID in use is given out, every step keeps the answers apart.
LEMMA NextOwn == IInv /\ OwnInv /\ NoReuse /\ [Next]_vars => OwnInv'
  <1> SUFFICES ASSUME IInv, OwnInv, NoReuse, [Next]_vars PROVE OwnInv'
    OBVIOUS
  <1>1. ASSUME NEW q \in Query, OwnStep(q)
        PROVE  OwnInv'
    BY <1>1, GetStreamOwn, DialLostOwn, RegisterOwn, RegisterFailsOwn, GivesUpOwn, WaitOwn,
       LeftOwn DEF OwnStep
  <1>2. ASSUME NEW q \in Query, PeerStep(q)
        PROVE  OwnInv'
    BY <1>2, DialOkOwn, DialLostOwn, WriteFrameOwn, GivesUpOwn DEF PeerStep
  <1>3. ASSUME NEW s \in Stream, StreamStep(s)
        PROVE  OwnInv'
    BY <1>3, ReadFrameOwn, DeliverOwn, TrafficOwn, StreamEndsOwn DEF StreamStep
  <1>4. CASE Expire \/ CloseBegin \/ UNCHANGED vars
    BY <1>4 DEF Expire, CloseBegin, vars, OwnInv
  <1>5. CASE CloseEnd
    BY <1>5, StreamEndsOwn
  <1> QED
    BY <1>1, <1>2, <1>3, <1>4, <1>5, ArriveOwn DEF Next

LEMMA SpecOwn == Spec /\ []NoReuse => []OwnInv
  BY SpecInv, InitOwn, NextOwn, PTL DEF Spec

LEMMA OwnAnswerIs == OwnInv => OwnAnswer
  BY DEF OwnInv, OwnCall, OwnAnswer

LEMMA IdleSparesIs == OwnInv => IdleSparesQueries
  BY DEF OwnInv, OwnCall, IdleSparesQueries, Active

\* As long as an ID is not given out again while a query or an owed answer bears it,
\* every client gets the answer to its own question, though a waiter is delivered to
\* and deleted by ID alone.
THEOREM AnswersStand == Spec /\ []NoReuse => []OwnAnswer
  BY SpecOwn, OwnAnswerIs, PTL

\* ... and the idle teardown, which only looks at the waiters, takes no stream from
\* under a query that waits for its answer on it.
THEOREM WaitersSpared == Spec /\ []NoReuse => []IdleSparesQueries
  BY SpecOwn, IdleSparesIs, PTL

-----------------------------------------------------------------------------
(* Why no ID in use is given out: a stream that lives has given out at most    *)
(* one ID per query, in order, and fewer queries than IDs do not come around.  *)

\* Where a query has not registered in this attempt.
Before == {"unborn", "lock", "dial", "register"}

\* The queries that may have registered on s, once each: a query comes back to register
\* only after its stream died.
Registered(s) ==
    {q \in Query : At(q, "done") \/ (query[q].on = s /\ query[q].at \notin Before)}

\* A query that leaves a living stream is not tried again.
NoRetry(q) == At(q, "leave") /\ Live(query[q].on) => query[q].err \notin BrokenClass

CountInv ==
    /\ \A s \in Stream : Live(s) =>
          /\ stream[s].nextID <= Cardinality(Registered(s))
          /\ \A q \in Query : query[q].on = s /\ query[q].id # NoId =>
                query[q].id \in 1..stream[s].nextID
          /\ \A f \in Owed(stream[s]) : f.id \in 1..stream[s].nextID
    /\ \A q \in Query : NoRetry(q)

\* What a step that registers nobody does to a query ...
Follows(q) ==
    /\ query'[q].id # NoId => query'[q].id = query[q].id /\ query'[q].on = query[q].on
    /\ At(q, "done") => At(q, "done")'
    /\ query[q].at \notin Before /\ Live(query[q].on) =>
          At(q, "done")' \/ (query'[q].on = query[q].on /\ query'[q].at \notin Before)
    /\ NoRetry(q)'

\* ... and to a stream: one that still lives has given out the same IDs, and owes no
\* answer that was not owed or asked for by a query registered on it.
LivesOn(s) ==
    Live(s)' =>
        /\ Live(s)
        /\ stream'[s].nextID = stream[s].nextID
        /\ \A f \in Owed(stream'[s]) :
              \/ f \in Owed(stream[s])
              \/ \E q \in Query : query[q].on = s /\ query[q].id = f.id /\ query[q].id # NoId

LEMMA RemainderIs ==
    ASSUME NEW w \in Nat \ {0}, NEW x \in (-(w - 1))..(w - 1), x % w <= 0
    PROVE  x = 0
  OBVIOUS

LEMMA RegisteredFinite ==
    ASSUME NEW s \in Stream
    PROVE  /\ IsFiniteSet(Registered(s)) /\ Cardinality(Registered(s)) \in Nat
           /\ IsFiniteSet(Registered(s)') /\ Cardinality(Registered(s)') \in Nat
           /\ Registered(s) \subseteq Registered(s)'
                => Cardinality(Registered(s)) <= Cardinality(Registered(s)')
  <1>1. IsFiniteSet(Query)
    BY NAssumption, FS_Interval DEF Query
  <1>2. Registered(s) \in SUBSET Query /\ Registered(s)' \in SUBSET Query
    BY DEF Registered
  <1>3. IsFiniteSet(Registered(s)) /\ IsFiniteSet(Registered(s)')
    BY <1>1, <1>2, FS_Subset
  <1> HIDE DEF Registered
  <1> QED
    BY <1>3, FS_CardinalityType, FS_Subset

\* With fewer queries than IDs, the ID given out is the next one.
LEMMA FreshIsNext ==
    ASSUME IInv, OwnInv, CountInv, N < W, NEW q \in Query, At(q, "register"), Live(query[q].on)
    PROVE  LET s == query[q].on IN
           /\ stream[s].nextID \in Nat
           /\ Cardinality(Registered(s)) < N
           /\ FreshIds(s) \subseteq {stream[s].nextID + 1}
  <1> DEFINE s == query[q].on
             n == stream[s].nextID + 1
  <1>1. s \in Stream /\ stream[s] \in Pipe /\ stream[s].nextID \in Id
        /\ query[q].at = "register"
    BY OnAStream DEF IInv, TypeOK, Pipe, At, OnStream
  <1>2. Cardinality(Registered(s)) < N /\ Cardinality(Registered(s)) \in Nat
    <2>1. Registered(s) \in SUBSET (Query \ {q})
      BY <1>1 DEF Registered, Before, At
    <2>2. IsFiniteSet(Query) /\ Cardinality(Query) = N /\ N \in Nat
      BY NAssumption, FS_Interval DEF Query
    <2>3. IsFiniteSet(Query \ {q}) /\ Cardinality(Query \ {q}) = N - 1
      BY <2>2, FS_RemoveElement
    <2>4. Cardinality(Registered(s)) <= N - 1
      BY <2>1, <2>3, FS_Subset
    <2> QED
      BY <1>1, <2>2, <2>4, RegisteredFinite
  <1>3. stream[s].nextID <= Cardinality(Registered(s)) /\ stream[s].nextID \in Nat
    BY <1>1, WAssumption DEF CountInv, Id
  <1>4. n \in Id /\ n - stream[s].nextID - 1 = 0 /\ W \in Nat \ {0} /\ N \in Nat
    BY <1>2, <1>3, NAssumption, WAssumption DEF Id
  <1>5. stream[s].waiters[n] = None
    <2> SUFFICES ASSUME stream[s].waiters[n] # None PROVE FALSE
      OBVIOUS
    <2> DEFINE v == stream[s].waiters[n]
    <2>1. v \in Query
      BY <1>1, <1>4 DEF Pipe, Waiters
    <2>2. query[v].on = s /\ query[v].id = n
      BY <1>1, <1>4 DEF OwnInv, OwnPipe
    <2>3. n \in 1..stream[s].nextID
      BY <1>1, <1>4, <2>1, <2>2, Nobody DEF CountInv
    <2> QED
      BY <1>3, <2>3
  <1>6. ASSUME NEW i \in FreshIds(s)
        PROVE  i = n
    <2> DEFINE x == i - stream[s].nextID - 1
    <2>1. i \in Id /\ n \in Id \ Taken(s)
      BY <1>4, <1>5, <1>6 DEF FreshIds, Taken
    <2>2. Steps(s, i) <= Steps(s, n)
      BY <1>6, <2>1 DEF FreshIds
    <2>3. Steps(s, n) = 1
      <3>1. 0 % W = 0
        BY <1>4
      <3> QED
        BY <1>4, <3>1 DEF Steps
    <2>4. Steps(s, i) = (x % W) + 1
      BY DEF Steps
    <2>5. x \in (-(W - 1))..(W - 1) /\ W \in Nat \ {0}
      BY <1>2, <1>3, <1>4, <2>1 DEF Id
    <2>6. x % W \in Int
      BY <2>5
    <2>7. x % W <= 0
      <3> HIDE DEF x
      <3> QED
        BY <2>2, <2>3, <2>4, <2>6
    <2>8. x = 0
      <3> HIDE DEF x
      <3> QED
        BY <2>5, <2>7, RemainderIs
    <2> QED
      BY <1>3, <2>1, <2>8 DEF Id
  <1> QED
    BY <1>2, <1>3, <1>6

LEMMA NothingReused == IInv /\ OwnInv /\ CountInv /\ N < W => NoReuse
  <1> SUFFICES ASSUME IInv, OwnInv, CountInv, N < W,
                      NEW q \in Query, At(q, "register"), Live(query[q].on),
                      NEW i \in FreshIds(query[q].on), InUse(query[q].on, i)
               PROVE  FALSE
    BY DEF NoReuse
  <1> DEFINE s == query[q].on
  <1>1. stream[s].nextID \in Nat /\ i = stream[s].nextID + 1 /\ s \in Stream
    BY FreshIsNext, OnAStream DEF At, OnStream
  <1>2. i # NoId
    BY Nobody DEF FreshIds
  <1>3. i \in 1..stream[s].nextID
    BY <1>1, <1>2 DEF CountInv, InUse
  <1> QED
    BY <1>1, <1>3

\* A step that registers nobody and opens no stream.
LEMMA CountKept ==
    ASSUME IInv, CountInv, \A s \in Stream : LivesOn(s), \A q \in Query : Follows(q)
    PROVE  CountInv'
  <1>1. ASSUME NEW s \in Stream, Live(s)'
        PROVE  /\ stream'[s].nextID <= Cardinality(Registered(s)')
               /\ \A q \in Query : query'[q].on = s /\ query'[q].id # NoId =>
                     query'[q].id \in 1..stream'[s].nextID
               /\ \A f \in Owed(stream'[s]) : f.id \in 1..stream'[s].nextID
    <2>1. Live(s) /\ stream'[s].nextID = stream[s].nextID
      BY <1>1 DEF LivesOn
    <2>2. Registered(s) \subseteq Registered(s)'
      BY <2>1 DEF Follows, Registered
    <2>3. stream[s].nextID <= Cardinality(Registered(s)) /\ stream[s].nextID \in Nat
      BY <2>1, WAssumption DEF CountInv, IInv, TypeOK, Pipe, Id
    <2>4. Cardinality(Registered(s)) <= Cardinality(Registered(s)')
          /\ Cardinality(Registered(s)) \in Nat /\ Cardinality(Registered(s)') \in Nat
      BY <2>2, RegisteredFinite
    <2>5. \A q \in Query : query'[q].on = s /\ query'[q].id # NoId =>
              query'[q].id \in 1..stream'[s].nextID
      BY <2>1 DEF CountInv, Follows
    <2>6. \A f \in Owed(stream'[s]) : f.id \in 1..stream'[s].nextID
      BY <1>1, <2>1 DEF CountInv, LivesOn
    <2> QED
      BY <2>1, <2>3, <2>4, <2>5, <2>6
  <1>2. \A q \in Query : NoRetry(q)'
    BY DEF Follows
  <1> QED
    BY <1>1, <1>2 DEF CountInv

\* The streams: none comes to life, and failing one leaves the others as they are.
LEMMA FailedLives ==
    ASSUME TypeOK, NEW s \in Stream \union {None}, NEW why \in BrokenClass \union {"closed"},
           stream' = Failed(s, why)
    PROVE  \A t \in Stream : Live(t)' => Live(t) /\ stream'[t] = stream[t]
  <1> SUFFICES ASSUME NEW t \in Stream, stream'[t].state = "live"
               PROVE  Live(t) /\ stream'[t] = stream[t]
    BY DEF Live
  <1>1. Live(t) /\ t # s
    BY FailedKills
  <1>2. stream'[t] \in {stream[t], Unused}
    BY <1>1 DEF Failed, Forget, TypeOK
  <1> QED
    BY <1>1, <1>2, PipeType

LEMMA UnregisteredLives ==
    ASSUME TypeOK, OwnInv, NEW q \in Query, query[q].on \in Stream,
           stream' = Forget(Unregistered(q, query[q].on), query')
    PROVE  \A s \in Stream : LivesOn(s)
  <1> SUFFICES ASSUME NEW s \in Stream, stream'[s].state = "live"
               PROVE  /\ stream[s].state = "live" /\ stream'[s].nextID = stream[s].nextID
                      /\ Owed(stream'[s]) = Owed(stream[s])
    BY Nobody DEF LivesOn, Live
  <1> DEFINE u == Unregistered(q, query[q].on)
  <1>1. u[s].state = stream[s].state /\ Owed(u[s]) = Owed(stream[s])
    BY UnregisteredOwn
  <1>2. u[s].nextID = stream[s].nextID
    <2>1. stream[s] \in Pipe
      BY DEF TypeOK
    <2>2. CASE s = query[q].on
      <3> DEFINE w == [i \in Id |-> IF i = query[q].id THEN None ELSE stream[s].waiters[i]]
      <3>1. u[s] = [stream[s] EXCEPT !.waiters = w]
        BY <2>2 DEF Unregistered, TypeOK
      <3> HIDE DEF w, u
      <3> QED
        BY <2>1, <3>1 DEF Pipe
    <2>3. CASE s # query[q].on
      BY <2>3, UnregisteredOwn
    <2> QED
      BY <2>2, <2>3
  <1> HIDE DEF u
  <1>3. stream'[s] \in {u[s], Unused}
    BY DEF Forget, u
  <1> QED
    BY <1>1, <1>2, <1>3, PipeType

LEMMA LivesStep ==
    ASSUME IInv, OwnInv, [Next]_vars, "traffic" \notin Events,
           ~\E q \in Query : Register(q) \/ DialOk(q)
    PROVE  \A s \in Stream : LivesOn(s)
  <1>1. TypeOK
    BY DEF IInv
  <1>2. ASSUME \A s \in Stream : Live(s)' => Live(s) /\ stream'[s] = stream[s]
        PROVE  \A s \in Stream : LivesOn(s)
    BY <1>2 DEF LivesOn
  <1>3. CASE stream' = stream
    BY <1>2, <1>3 DEF Live
  <1>4. ASSUME NEW s \in Stream \union {None}, NEW why \in BrokenClass \union {"closed"},
               stream' = Failed(s, why)
        PROVE  \A t \in Stream : LivesOn(t)
    <2>1. \A t \in Stream : Live(t)' => Live(t) /\ stream'[t] = stream[t]
      BY <1>1, <1>4, FailedLives
    <2> QED
      BY <1>2, <2>1
  <1>5. {"broken", "abandoned", "idle", "closed"} \subseteq BrokenClass \union {"closed"}
    BY DEF BrokenClass
  <1>6. ASSUME NEW q \in Query, WriteExpires(q) \/ WriteBreaks(q) \/ Abandon(q)
        PROVE  \A t \in Stream : LivesOn(t)
    <2>1. query[q].on \in Stream
      BY <1>6, OnAStream DEF WriteExpires, WriteBreaks, Abandon, MayWrite, At, OnStream
    <2> QED
      BY <1>4, <1>5, <1>6, <2>1 DEF WriteExpires, WriteBreaks, Abandon
  <1>7. ASSUME NEW q \in Query, ReturnAnswer(q) \/ Retire(q)
        PROVE  \A t \in Stream : LivesOn(t)
    <2>1. query[q].on \in Stream /\ stream' = Forget(Unregistered(q, query[q].on), query')
      BY <1>7, OnAStream DEF ReturnAnswer, Retire, At, OnStream
    <2> QED
      BY <1>1, <2>1, UnregisteredLives
  <1>8. ASSUME NEW q \in Query, WriteFrame(q)
        PROVE  \A t \in Stream : LivesOn(t)
    <2> DEFINE s == query[q].on
               f == [id |-> query[q].id, of |-> q]
               p == [stream[s] EXCEPT !.asked = @ \union {f}]
    <2>1. s \in Stream /\ query[q].id # NoId /\ stream[s] \in Pipe
      BY <1>1, <1>8, OnAStream DEF WriteFrame, MayWrite, At, OnStream, IInv, CallInv, TypeOK
    <2>2. stream' = [stream EXCEPT ![s] = p] \/ stream' = stream
      BY <1>8 DEF WriteFrame
    <2>3. p.state = stream[s].state /\ p.nextID = stream[s].nextID
          /\ Owed(p) \subseteq Owed(stream[s]) \union {f} /\ f.id = query[q].id
      BY <2>1 DEF Pipe, Owed
    <2> HIDE DEF p, f
    <2>4. CASE stream' = [stream EXCEPT ![s] = p]
      <3> SUFFICES ASSUME NEW t \in Stream PROVE LivesOn(t)
        OBVIOUS
      <3>1. CASE t = s
        <4>1. stream'[t] = p
          BY <1>1, <2>1, <2>4, <3>1 DEF TypeOK
        <4> QED
          BY <2>1, <2>3, <3>1, <4>1 DEF LivesOn, Live
      <3>2. CASE t # s
        <4>1. stream'[t] = stream[t]
          BY <1>1, <2>4, <3>2 DEF TypeOK
        <4> QED
          BY <4>1 DEF LivesOn, Live
      <3> QED
        BY <3>1, <3>2
    <2> QED
      BY <1>3, <2>2, <2>4
  <1>9. ASSUME NEW s \in Stream, NEW p \in Pipe, stream' = [stream EXCEPT ![s] = p],
               p.state = stream[s].state, p.nextID = stream[s].nextID,
               Owed(p) \subseteq Owed(stream[s])
        PROVE  \A t \in Stream : LivesOn(t)
    BY <1>1, <1>9 DEF LivesOn, Live, TypeOK
  <1>10. ASSUME NEW s \in Stream, ReadFrame(s)
         PROVE  \A t \in Stream : LivesOn(t)
    <2>1. PICK f \in stream[s].asked :
              stream' = [stream EXCEPT ![s].hand = f, ![s].asked = @ \ {f}]
      BY <1>10 DEF ReadFrame
    <2> DEFINE p == [stream[s] EXCEPT !.hand = f, !.asked = @ \ {f}]
    <2>2. stream[s] \in Pipe
      BY <1>1 DEF TypeOK
    <2>3. p \in Pipe /\ p.state = stream[s].state /\ p.nextID = stream[s].nextID
          /\ Owed(p) \subseteq Owed(stream[s])
      BY <2>1, <2>2 DEF Pipe, Hand, Owed
    <2>4. stream' = [stream EXCEPT ![s] = p]
      BY <2>1
    <2> HIDE DEF p
    <2> QED
      BY <1>9, <2>3, <2>4
  <1>11. ASSUME NEW s \in Stream, Deliver(s)
         PROVE  \A t \in Stream : LivesOn(t)
    <2> DEFINE f == stream[s].hand
               w == [stream[s].waiters EXCEPT ![f.id] = None]
               p == [stream[s] EXCEPT !.hand = NoFrame, !.waiters = w]
    <2>1. stream[s] \in Pipe /\ w \in Waiters /\ NoFrame \in Hand
      BY <1>1 DEF TypeOK, Pipe, Waiters, Hand
    <2>2. stream' = [stream EXCEPT ![s] = p]
      BY <1>11 DEF Deliver
    <2>3. p \in Pipe /\ p.state = stream[s].state /\ p.nextID = stream[s].nextID
          /\ Owed(p) \subseteq Owed(stream[s])
      <3> HIDE DEF w
      <3> QED
        BY <2>1 DEF Pipe, Owed
    <2> HIDE DEF p
    <2> QED
      BY <1>9, <2>2, <2>3
  <1>12. ASSUME NEW s \in Stream, BreakStream(s) \/ IdleTeardown(s)
         PROVE  \A t \in Stream : LivesOn(t)
    BY <1>4, <1>5, <1>12 DEF BreakStream, IdleTeardown
  <1>13. CASE CloseEnd
    BY <1>1, <1>4, <1>5, <1>13 DEF CloseEnd, TypeOK
  <1>14. ASSUME NEW q \in Query,
                \/ Arrive(q) \/ GetStream(q) \/ DialFails(q) \/ DialExpires(q) \/ RegisterFails(q)
                \/ NoteWritten(q) \/ TakeAnswer(q) \/ SeeDone(q) \/ Timer(q)
         PROVE  stream' = stream
    BY <1>14 DEF Arrive, GetStream, DialFails, DialExpires, RegisterFails, NoteWritten,
                 TakeAnswer, SeeDone, Timer
  <1>15. CASE Expire \/ CloseBegin \/ UNCHANGED vars
    BY <1>3, <1>15 DEF Expire, CloseBegin, vars
  <1>16. ASSUME NEW s \in Stream, Traffic(s)
         PROVE  FALSE
    BY <1>16 DEF Traffic
  <1> QED
    BY <1>3, <1>6, <1>7, <1>8, <1>10, <1>11, <1>12, <1>13, <1>14, <1>15, <1>16
       DEF Next, OwnStep, PeerStep, StreamStep

\* The queries: one that does not move, ...
LEMMA BystanderFollows ==
    ASSUME IInv, CountInv, \A s \in Stream : LivesOn(s), NEW q \in Query,
           query'[q].at = query[q].at, query'[q].on = query[q].on,
           query'[q].id = query[q].id, query'[q].err = query[q].err
    PROVE  Follows(q)
  <1>1. query[q].on \in Stream \union {None}
    BY DEF IInv, TypeOK, Call
  <1>2. query[q].on # None /\ stream'[query[q].on].state = "live" => Live(query[q].on)
    BY <1>1 DEF LivesOn, Live
  <1>3. NoRetry(q)'
    BY <1>2 DEF CountInv, NoRetry, At, Live
  <1> QED
    BY <1>3 DEF Follows, At

\* ... and one that does.
LEMMA MoverFollows ==
    ASSUME IInv, CountInv, OwnInv, NEW q \in Query, Arrive(q) \/ OwnStep(q) \/ PeerStep(q),
           ~Register(q), ~DialOk(q)
    PROVE  Follows(q)
  <1>1. query[q] \in Call /\ TypeOK /\ OwnCall(query[q], q, stream)
    BY DEF IInv, TypeOK, OwnInv
  <1>2. ASSUME NEW why, Return(q, why)
        PROVE  query'[q].at = "done" /\ query'[q].id = NoId
    <2> DEFINE r == [NewCall EXCEPT !.at = "done", !.tries = query[q].tries,
                                    !.err = why, !.got = query[q].got]
    <2>1. r.at = "done" /\ r.id = NoId
      BY DEF NewCall
    <2>2. query' = [query EXCEPT ![q] = r]
      BY <1>2 DEF Return
    <2> HIDE DEF r
    <2> QED
      BY <1>1, <2>1, <2>2 DEF TypeOK
  <1>3. CASE query'[q].at = "done" /\ query'[q].id = NoId
    BY <1>3 DEF Follows, NoRetry, At
  <1>4. CASE /\ query'[q].on = query[q].on /\ query'[q].id = query[q].id
             /\ query[q].at # "done" /\ query'[q].at # "leave"
             /\ query'[q].at \in Before => query[q].at \in Before
    BY <1>4 DEF Follows, NoRetry, At
  <1>5. ASSUME query'[q].on = query[q].on, query'[q].id = query[q].id, query[q].at # "done",
               query'[q].at = "leave",
               query'[q].err \notin BrokenClass \/ stream'[query[q].on].state # "live"
        PROVE  Follows(q)
    BY <1>5 DEF Follows, NoRetry, At, Before, Live
  <1>6. ASSUME NEW why, Leave(q, why)
        PROVE  /\ query'[q].on = query[q].on /\ query'[q].id = query[q].id
               /\ query'[q].at = "leave" /\ query'[q].err = why
    BY <1>1, <1>6 DEF Leave, TypeOK, Call
  <1>7. ASSUME NEW place, Goto(q, place)
        PROVE  query'[q].on = query[q].on /\ query'[q].id = query[q].id /\ query'[q].at = place
    BY <1>1, <1>7 DEF Goto, TypeOK, Call
  <1>8. CASE Arrive(q)
    <2>1. query[q].at = "unborn"
      BY <1>8, NAssumption DEF IInv, TypeOK, CallInv, Arrive, Query
    <2> QED
      BY <1>4, <1>7, <1>8, <2>1 DEF Arrive, Before
  <1>9. CASE GetStream(q)
    <2>1. query[q].at = "lock" /\ query[q].id = NoId
      BY <1>1, <1>9 DEF GetStream, At, OwnCall, Active
    <2>2. CASE query' = [query EXCEPT ![q].at = "register", ![q].on = cur]
      <3>1. query'[q].id = NoId /\ query'[q].at = "register"
        BY <1>1, <2>1, <2>2 DEF TypeOK, Call
      <3> QED
        BY <2>1, <3>1 DEF Follows, NoRetry, At, Before
    <2> QED
      BY <1>2, <1>3, <1>4, <1>7, <1>9, <2>1, <2>2 DEF GetStream, Before
  <1>10. CASE DialFails(q) \/ DialExpires(q)
    BY <1>2, <1>3, <1>10 DEF DialFails, DialExpires
  <1>11. CASE RegisterFails(q)
    BY <1>5, <1>6, <1>11, OnAStream, Nobody DEF RegisterFails, At, Live, OnStream, BrokenClass
  <1>12. CASE WriteFrame(q)
    BY <1>4, <1>7, <1>12 DEF WriteFrame, MayWrite, At, Before
  <1>13. CASE WriteExpires(q) \/ Abandon(q)
    BY <1>5, <1>6, <1>13 DEF WriteExpires, Abandon, MayWrite, At, BrokenClass
  <1>14. CASE WriteBreaks(q)
    <2>1. query[q].on \in Stream /\ query[q].at = "write"
      BY <1>14, OnAStream DEF WriteBreaks, MayWrite, At, OnStream
    <2>2. stream'[query[q].on].state # "live"
      BY <1>1, <1>14, <2>1, FailedKills DEF WriteBreaks, BrokenClass
    <2> QED
      BY <1>5, <1>6, <1>14, <2>1, <2>2 DEF WriteBreaks
  <1>15. CASE NoteWritten(q)
    <2>1. query'[q].on = query[q].on /\ query'[q].id = query[q].id /\ query'[q].at = "wait"
      BY <1>1, <1>15 DEF NoteWritten, TypeOK, Call
    <2> QED
      BY <1>4, <1>15, <2>1 DEF NoteWritten, At, Before
  <1>16. CASE Answered(q) /\ At(q, "wait")
    <2>1. query'[q].on = query[q].on /\ query'[q].id = query[q].id
          /\ query'[q].at = "leave" /\ query'[q].err = "ok"
      BY <1>1, <1>16 DEF Answered, TypeOK, Call
    <2> QED
      BY <1>5, <1>16, <2>1 DEF At, BrokenClass
  <1>17. CASE TakeAnswer(q)
    BY <1>16, <1>17 DEF TakeAnswer
  <1>18. CASE SeeDone(q)
    BY <1>5, <1>6, <1>16, <1>18, OnAStream, Nobody DEF SeeDone, At, Live, OnStream
  <1>19. CASE Timer(q)
    BY <1>4, <1>5, <1>6, <1>7, <1>19 DEF Timer, At, Before, BrokenClass
  <1>20. CASE ReturnAnswer(q)
    BY <1>2, <1>3, <1>20 DEF ReturnAnswer
  <1>21. CASE Retire(q)
    <2>1. CASE /\ query[q].err \in BrokenClass
               /\ query' = [query EXCEPT ![q] = [NewCall EXCEPT !.at = "lock", !.tries = 1]]
      <3>1. query'[q].at = "lock" /\ query'[q].id = NoId
        BY <1>1, <2>1 DEF TypeOK, NewCall
      <3>2. At(q, "leave") /\ ~Live(query[q].on)
        BY <1>21, <2>1 DEF Retire, CountInv, NoRetry
      <3> QED
        BY <3>1, <3>2 DEF Follows, NoRetry, At
    <2> QED
      BY <1>2, <1>3, <1>21, <2>1 DEF Retire
  <1> QED
    BY <1>8, <1>9, <1>10, <1>11, <1>12, <1>13, <1>14, <1>15, <1>17, <1>18, <1>19, <1>20, <1>21
       DEF OwnStep, PeerStep

LEMMA FollowsStep ==
    ASSUME IInv, CountInv, OwnInv, [Next]_vars, \A s \in Stream : LivesOn(s),
           ~\E q \in Query : Register(q) \/ DialOk(q)
    PROVE  \A q \in Query : Follows(q)
  <1> SUFFICES ASSUME NEW q \in Query PROVE Follows(q)
    OBVIOUS
  <1>1. query[q] \in Call /\ TypeOK
    BY DEF IInv, TypeOK
  <1>2. ASSUME NEW p \in Query, p # q, Arrive(p) \/ OwnStep(p) \/ PeerStep(p)
        PROVE  Follows(q)
    BY <1>1, <1>2, OthersKept, BystanderFollows
  <1>3. ASSUME NEW s \in Stream, StreamStep(s)
        PROVE  Follows(q)
    <2>1. /\ query'[q].at = query[q].at /\ query'[q].on = query[q].on
          /\ query'[q].id = query[q].id /\ query'[q].err = query[q].err
      <3>1. CASE Deliver(s)
        BY <1>1, <3>1 DEF Deliver, Call
      <3>2. CASE Traffic(s)
        BY <1>1, <3>2 DEF Traffic, Call
      <3> QED
        BY <1>3, <3>1, <3>2 DEF StreamStep, ReadFrame, BreakStream, IdleTeardown
    <2> QED
      BY <2>1, BystanderFollows
  <1>4. CASE Expire \/ CloseBegin \/ CloseEnd \/ UNCHANGED vars
    BY <1>4, BystanderFollows DEF Expire, CloseBegin, CloseEnd, vars
  <1> QED
    BY <1>2, <1>3, <1>4, MoverFollows DEF Next

\* A stream just opened has given out nothing.
LEMMA DialOkCount ==
    ASSUME IInv, OwnInv, CountInv, NEW q \in Query, DialOk(q)
    PROVE  CountInv'
  <1>1. query[q] \in Call /\ OwnCall(query[q], q, stream) /\ query[q].at = "dial" /\ TypeOK
    BY DEF IInv, TypeOK, OwnInv, DialOk, At
  <1>2. PICK s \in Stream : /\ stream[s].state = "none"
                            /\ stream' = [stream EXCEPT ![s] = NewStream]
                            /\ query' = [query EXCEPT ![q].at = "register", ![q].on = s]
    BY DEF DialOk
  <1>3. query'[q].at = "register" /\ query'[q].on = s /\ query'[q].id = query[q].id
        /\ \A p \in Query : p # q => query'[p] = query[p]
    BY <1>1, <1>2 DEF TypeOK, Call
  <1>4. stream'[s] = NewStream /\ \A t \in Stream : t # s => stream'[t] = stream[t]
    BY <1>1, <1>2 DEF TypeOK
  <1>5. query[q].id = NoId /\ \A p \in Query : query[p].on # s
    BY <1>1, <1>2, Nobody DEF OwnInv, OwnCall, Active
  <1>6. NewStream.nextID = 0 /\ Owed(NewStream) = {}
    BY DEF NewStream, Owed
  <1>7. ASSUME NEW t \in Stream, Live(t)'
        PROVE  /\ stream'[t].nextID <= Cardinality(Registered(t)')
               /\ \A p \in Query : query'[p].on = t /\ query'[p].id # NoId =>
                     query'[p].id \in 1..stream'[t].nextID
               /\ \A f \in Owed(stream'[t]) : f.id \in 1..stream'[t].nextID
    <2>1. CASE t = s
      <3>1. \A p \in Query : query'[p].on = t => query'[p].id = NoId
        BY <1>3, <1>5, <2>1
      <3> QED
        BY <1>4, <1>6, <2>1, <3>1, RegisteredFinite
    <2>2. CASE t # s
      <3>1. Live(t) /\ stream'[t] = stream[t] /\ stream[t].nextID \in Nat
        BY <1>1, <1>4, <1>7, <2>2, WAssumption DEF Live, TypeOK, Pipe, Id
      <3>2. Registered(t) \subseteq Registered(t)'
        BY <1>1, <1>3 DEF Registered, At, Before
      <3>3. stream[t].nextID <= Cardinality(Registered(t)')
        BY <3>1, <3>2, RegisteredFinite DEF CountInv
      <3>4. \A p \in Query : query'[p].on = t =>
                query'[p].id = query[p].id /\ query[p].on = t
        BY <1>3, <2>2
      <3> QED
        BY <3>1, <3>3, <3>4 DEF CountInv
    <2> QED
      BY <2>1, <2>2
  <1>8. ASSUME NEW p \in Query
        PROVE  NoRetry(p)'
    <2>1. CASE p = q
      BY <1>3, <2>1 DEF NoRetry, At
    <2>2. CASE p # q
      <3>1. query[p].on \in Stream \union {None} /\ NoRetry(p) /\ query'[p] = query[p]
        BY <1>1, <1>3, <2>2 DEF CountInv, TypeOK, Call
      <3>2. query[p].on # None => stream'[query[p].on] = stream[query[p].on]
        BY <1>4, <1>5, <3>1
      <3> QED
        BY <3>1, <3>2 DEF NoRetry, At, Live
    <2> QED
      BY <2>1, <2>2
  <1> QED
    BY <1>7, <1>8 DEF CountInv

\* One more ID is given out, and one more query has registered.
LEMMA RegisterCount ==
    ASSUME IInv, OwnInv, CountInv, N < W, NEW q \in Query, Register(q)
    PROVE  CountInv'
  <1>0. PICK s \in Stream : s = query[q].on
    BY OnAStream DEF Register, At, OnStream
  <1> DEFINE i == stream[s].nextID + 1
  <1>1. /\ query[q] \in Call /\ OwnCall(query[q], q, stream) /\ query[q].at = "register"
        /\ Live(s) /\ TypeOK /\ stream[s] \in Pipe /\ stream[s].nextID \in Nat
    BY <1>0, WAssumption DEF IInv, TypeOK, OwnInv, Register, At, Pipe, Id
  <1>2. /\ i \in Id
        /\ stream' = [stream EXCEPT ![s].waiters[i] = q, ![s].nextID = i]
        /\ query' = [query EXCEPT ![q].at = "write", ![q].id = i]
    <2>1. PICK j \in FreshIds(s) :
              /\ stream' = [stream EXCEPT ![s].waiters[j] = q, ![s].nextID = j]
              /\ query' = [query EXCEPT ![q].at = "write", ![q].id = j]
      BY <1>0 DEF Register
    <2>2. j = i /\ j \in Id
      BY <1>0, <1>1, FreshIsNext DEF At, FreshIds
    <2> QED
      BY <2>1, <2>2
  <1>3. query'[q].at = "write" /\ query'[q].on = s /\ query'[q].id = i
        /\ \A p \in Query : p # q => query'[p] = query[p]
    BY <1>0, <1>1, <1>2 DEF TypeOK, Call
  <1>4. /\ stream'[s].state = "live" /\ stream'[s].nextID = i /\ Owed(stream'[s]) = Owed(stream[s])
        /\ \A t \in Stream : t # s => stream'[t] = stream[t]
    <2> DEFINE w == [stream[s].waiters EXCEPT ![i] = q]
               p == [stream[s] EXCEPT !.waiters = w, !.nextID = i]
    <2>1. stream' = [stream EXCEPT ![s] = p]
      BY <1>2
    <2> HIDE DEF w
    <2>2. p.state = stream[s].state /\ p.nextID = i /\ Owed(p) = Owed(stream[s])
      BY <1>1, <1>2 DEF Pipe, Owed
    <2> HIDE DEF p, i
    <2> QED
      BY <1>1, <2>1, <2>2 DEF TypeOK, Live
  <1>5. Cardinality(Registered(s)') = Cardinality(Registered(s)) + 1
    <2>1. Registered(s)' = Registered(s) \union {q} /\ q \notin Registered(s)
      BY <1>0, <1>1, <1>3 DEF Registered, At, Before
    <2> QED
      BY <1>1, <2>1, RegisteredFinite, FS_AddElement
  <1>6. /\ stream[s].nextID <= Cardinality(Registered(s))
        /\ Cardinality(Registered(s)) \in Nat /\ i \in Nat
    BY <1>1, RegisteredFinite DEF CountInv
  <1> HIDE DEF i
  <1>7. ASSUME NEW t \in Stream, Live(t)'
        PROVE  /\ stream'[t].nextID <= Cardinality(Registered(t)')
               /\ \A p \in Query : query'[p].on = t /\ query'[p].id # NoId =>
                     query'[p].id \in 1..stream'[t].nextID
               /\ \A f \in Owed(stream'[t]) : f.id \in 1..stream'[t].nextID
    <2>1. CASE t = s
      <3>1. i <= Cardinality(Registered(s)')
        BY <1>1, <1>5, <1>6 DEF i
      <3>2. \A j \in 1..stream[s].nextID : j \in 1..i
        BY <1>1 DEF i
      <3>3. ASSUME NEW p \in Query, query'[p].on = s, query'[p].id # NoId
            PROVE  query'[p].id \in 1..i
        <4>1. CASE p = q
          BY <1>0, <1>1, <1>3, <4>1 DEF i
        <4>2. CASE p # q
          BY <1>1, <1>3, <3>2, <3>3, <4>2 DEF CountInv
        <4> QED
          BY <4>1, <4>2
      <3>4. \A f \in Owed(stream[s]) : f.id \in 1..i
        BY <1>1, <3>2 DEF CountInv
      <3> QED
        BY <1>4, <2>1, <3>1, <3>3, <3>4
    <2>2. CASE t # s
      <3>1. Live(t) /\ stream'[t] = stream[t] /\ stream[t].nextID \in Nat
        BY <1>1, <1>4, <1>7, <2>2, WAssumption DEF Live, TypeOK, Pipe, Id
      <3>2. Registered(t) \subseteq Registered(t)'
        BY <1>0, <1>1, <1>3 DEF Registered, At, Before
      <3>3. stream[t].nextID <= Cardinality(Registered(t)')
        BY <3>1, <3>2, RegisteredFinite DEF CountInv
      <3>4. \A p \in Query : query'[p].on = t =>
                query'[p].id = query[p].id /\ query[p].on = t
        BY <1>0, <1>3, <2>2
      <3> QED
        BY <3>1, <3>3, <3>4 DEF CountInv
    <2> QED
      BY <2>1, <2>2
  <1>8. ASSUME NEW p \in Query
        PROVE  NoRetry(p)'
    <2>1. CASE p = q
      BY <1>3, <2>1 DEF NoRetry, At
    <2>2. CASE p # q
      <3>1. query[p].on \in Stream \union {None} /\ NoRetry(p) /\ query'[p] = query[p]
        BY <1>1, <1>3, <2>2 DEF CountInv, TypeOK, Call
      <3>2. query[p].on # None => (stream'[query[p].on].state = "live" => stream[query[p].on].state = "live")
        BY <1>1, <1>4, <3>1 DEF Live
      <3> QED
        BY <3>1, <3>2 DEF NoRetry, At, Live
    <2> QED
      BY <2>1, <2>2
  <1> QED
    BY <1>7, <1>8 DEF CountInv

LEMMA NextCount ==
    ASSUME N < W, "traffic" \notin Events
    PROVE  IInv /\ OwnInv /\ CountInv /\ [Next]_vars => CountInv'
  <1> SUFFICES ASSUME IInv, OwnInv, CountInv, [Next]_vars PROVE CountInv'
    OBVIOUS
  <1>1. CASE \E q \in Query : Register(q) \/ DialOk(q)
    BY <1>1, RegisterCount, DialOkCount
  <1>2. CASE ~\E q \in Query : Register(q) \/ DialOk(q)
    <2>1. \A s \in Stream : LivesOn(s)
      BY <1>2, LivesStep
    <2> QED
      BY <1>2, <2>1, FollowsStep, CountKept
  <1> QED
    BY <1>1, <1>2

LEMMA InitCount == Init => CountInv
  <1> SUFFICES ASSUME Init PROVE CountInv
    OBVIOUS
  <1>1. \A s \in Stream : ~Live(s)
    <2>1. Unused.state = "none"
      BY DEF Unused, NewStream
    <2> QED
      BY <2>1 DEF Init, Live
  <1>2. \A q \in Query : ~At(q, "leave")
    BY DEF Init, At, NewCall
  <1> QED
    BY <1>1, <1>2 DEF CountInv, NoRetry

\* Both invariants at once: each step of the count rests on the answers kept apart, and
\* each registration on the count.
LEMMA SpecCount ==
    ASSUME N < W, "traffic" \notin Events
    PROVE  Spec => [](OwnInv /\ CountInv)
  <1>1. IInv /\ OwnInv /\ CountInv => NoReuse
    BY NothingReused
  <1>2. IInv /\ OwnInv /\ CountInv /\ [Next]_vars => OwnInv' /\ CountInv'
    BY <1>1, NextOwn, NextCount
  <1> QED
    BY <1>2, InitOwn, InitCount, SpecInv, PTL DEF Spec

\* register gives out no ID that a query or an owed answer still bears, as long as
\* fewer queries come than there are IDs: nextID only grows while its stream lives, and
\* a query registers on it once.
THEOREM IdsNotReused ==
    ASSUME N < W, "traffic" \notin Events
    PROVE  Spec => []NoReuse
  <1>1. IInv /\ OwnInv /\ CountInv => NoReuse
    BY NothingReused
  <1> QED
    BY <1>1, SpecInv, SpecCount, PTL

\* A client gets the answer to its own question, whatever is in flight beside it and
\* whatever is still owed to a query that gave up, when fewer queries come than there
\* are IDs.
THEOREM OwnAnswerHolds ==
    ASSUME N < W, "traffic" \notin Events
    PROVE  Spec => []OwnAnswer
  BY IdsNotReused, AnswersStand, PTL

\* The idle teardown takes no stream from under a query that waits for its answer on
\* it, under the same bound.
THEOREM IdleSparesHolds ==
    ASSUME N < W, "traffic" \notin Events
    PROVE  Spec => []IdleSparesQueries
  BY IdsNotReused, WaitersSpared, PTL

=============================================================================
