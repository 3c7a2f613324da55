----------------------------- MODULE DnsUpstream -----------------------------
(***************************************************************************)
(* The shim's DNS upstream (internal/shim/dnsupstream.go): many concurrent *)
(* lookups share one pipelined DNS-over-TCP stream, dialled through the    *)
(* SOCKS endpoint.  Every query has one deadline for all it does, is       *)
(* retried once when its stream breaks under it, and is matched to its     *)
(* answer by a message ID the stream assigned.                             *)
(*                                                                         *)
(* One action is one critical section (u.mu, s.mu, s.wmu) or one blocking  *)
(* call that returns.  All queries have the same timeout, so their         *)
(* deadlines pass in the order they arrived: query q is the q-th to        *)
(* arrive, and `now` counts the deadlines that have passed.                *)
(***************************************************************************)
EXTENDS Integers, FiniteSets

CONSTANTS
    N,              \* how many queries arrive
    W,              \* how many message IDs there are (65536 in the code)
    Events          \* environment: which of AllEvents may happen

AllEvents ==
    { "refuse",     \* the endpoint refuses a dial, or is not there
      "reset",      \* the peer ends a stream, or stalls inside a frame
      "idle",       \* nothing is in flight for a whole idle period
      "close",      \* the forwarder is shut down
      "traffic" }   \* further queries are answered on the stream

ASSUME NAssumption == N \in Nat
ASSUME WAssumption == W \in Nat \ {0, 1}
ASSUME EventsAssumption == Events \subseteq AllEvents

Query   == 1..N
Stream  == 1..N     \* streams still referred to: one per query at most
Id      == 0..(W - 1)
None    == 0        \* no query, no stream
NoId    == W        \* not registered

VARIABLES
    query,          \* the exchange call of each query
    stream,         \* the streams in use, with what the peer holds
    cur,            \* dnsUpstream.cur
    mu,             \* the query dialling with dnsUpstream.mu held, or None
    closed,         \* dnsUpstream.closed
    closing,        \* the stream close() took and has not failed yet
    born,           \* how many queries have arrived
    now,            \* how many deadlines have passed
    sent            \* how often the endpoint has been handed each query

vars == <<query, stream, cur, mu, closed, closing, born, now, sent>>

\* Where a query is in exchange and roundTrip.
Places == {"unborn", "lock", "dial", "register", "write", "written",
           "wait", "abandon", "leave", "done"}

\* errUpstreamBroken and the errors that wrap it: the stream's fault.
BrokenClass == {"broken", "abandoned", "idle"}
Outcomes    == {"none", "ok", "timeout", "dialFailed", "closed", "full"} \union BrokenClass
States      == {"none", "live", "closed"} \union BrokenClass

Frame   == [id : Id, of : Query]        \* an answer: the ID it bears, whose it is
NoFrame == [id |-> 0, of |-> None]

\* One exchange call: where it is, which attempt, the stream it is on, the ID it is
\* registered under, its buffered channel, whether the stream has delivered anything
\* since it was written, its outcome and whose answer it got.
Call == [at : Places, tries : {0, 1}, on : Stream \union {None},
         id : Id \union {NoId}, ch : Query \union {None}, heard : BOOLEAN,
         err : Outcomes, got : Query \union {None}]

\* One dnsStream: why it died, its waiters and nextID; the questions its peer has not
\* answered, the answer its reader holds, and `now` when it was opened.
Waiters == [Id -> Query \union {None}]
Hand    == Frame \union {NoFrame}
Pipe == [state : States, waiters : Waiters, nextID : Id,
         asked : SUBSET Frame, hand : Hand, openedAt : 0..N]

TypeOK ==
    /\ query \in [Query -> Call]
    /\ stream \in [Stream -> Pipe]
    /\ cur \in Stream \union {None}
    /\ mu \in Query \union {None}
    /\ closed \in BOOLEAN
    /\ closing \in Stream \union {None}
    /\ born \in 0..N
    /\ now \in 0..born
    /\ sent \in [Query -> 0..2]

NewCall   == [at |-> "unborn", tries |-> 0, on |-> None, id |-> NoId, ch |-> None,
              heard |-> FALSE, err |-> "none", got |-> None]
NewStream == [state |-> "live", waiters |-> [i \in Id |-> None], nextID |-> 0,
              asked |-> {}, hand |-> NoFrame, openedAt |-> now]
Unused    == [NewStream EXCEPT !.state = "none", !.openedAt = 0]

Init ==
    /\ query   = [q \in Query |-> NewCall]
    /\ cur     = None
    /\ mu      = None
    /\ closed  = FALSE
    /\ closing = None
    /\ born    = 0
    /\ now     = 0
    /\ sent    = [q \in Query |-> 0]
    /\ stream  = [s \in Stream |-> Unused]

At(q, place)  == query[q].at = place
Late(q)       == q <= now
Live(s)       == s # None /\ stream[s].state = "live"

\* q moves on / leaves roundTrip with this outcome.
Goto(q, place)   == query' = [query EXCEPT ![q].at = place]
Leave(q, why)    == query' = [query EXCEPT ![q].at = "leave", ![q].err = why]
Answered(q)      == query' = [query EXCEPT ![q].at = "leave", ![q].err = "ok",
                                           ![q].got = query[q].ch]
\* q leaves exchange.
Return(q, why)   == query' = [query EXCEPT ![q] =
                        [NewCall EXCEPT !.at = "done", !.tries = query[q].tries,
                                        !.err = why, !.got = query[q].got]]

\* A dead stream that none of these queries is on is forgotten.
Forget(streams, queries) ==
    [s \in Stream |-> IF \/ streams[s].state \in {"none", "live"}
                         \/ \E q \in Query : queries[q].on = s
                      THEN streams[s] ELSE Unused]

\* The streams after dnsStream.fail on s: the first reason wins, and nothing more
\* is read from the closed connection.
Failed(s, why) ==
    IF Live(s) THEN Forget([stream EXCEPT ![s].state = why, ![s].asked = {},
                                              ![s].nextID = 0], query)
               ELSE stream

-----------------------------------------------------------------------------
(* exchange: the budget, the shared stream, the dial. *)

\* A query of a legal length; its deadline has just been set, so the budget check
\* of the first attempt passes.
Arrive(q) ==
    /\ q = born + 1
    /\ born' = q
    /\ Goto(q, "lock")
    /\ UNCHANGED <<stream, cur, mu, closed, closing, now, sent>>

Expire ==
    /\ now < born
    /\ now' = now + 1
    /\ UNCHANGED <<query, stream, cur, mu, closed, closing, born, sent>>

\* Faulty variant: a closed upstream still dials.
GetStreamOpen(q) ==
    /\ At(q, "lock")
    /\ mu = None
    /\ \/ /\ Live(cur)
          /\ query' = [query EXCEPT ![q].at = "register", ![q].on = cur]
          /\ UNCHANGED mu
       \/ /\ ~Live(cur)
          /\ mu' = q
          /\ Goto(q, "dial")
    /\ UNCHANGED <<stream, cur, closed, closing, born, now, sent>>

\* dnsUpstream.stream up to the dial: refuse, share, or dial with the mutex held.
GetStream(q) ==
    /\ At(q, "lock")
    /\ mu = None
    /\ \/ /\ closed
          /\ Return(q, "closed")
          /\ UNCHANGED mu
       \/ /\ ~closed /\ Live(cur)
          /\ query' = [query EXCEPT ![q].at = "register", ![q].on = cur]
          /\ UNCHANGED mu
       \/ /\ ~closed /\ ~Live(cur)
          /\ mu' = q
          /\ Goto(q, "dial")
    /\ UNCHANGED <<stream, cur, closed, closing, born, now, sent>>

\* There is always an unused stream: a query that dials is on none.
DialOk(q) ==
    /\ At(q, "dial")
    /\ ~Late(q)
    /\ \E s \in Stream :
          /\ stream[s].state = "none"
          /\ \A t \in Stream : stream[t].state = "none" => s <= t
          /\ stream' = [stream EXCEPT ![s] = NewStream]
          /\ cur' = s
          /\ query' = [query EXCEPT ![q].at = "register", ![q].on = s]
    /\ mu' = None
    /\ UNCHANGED <<closed, closing, born, now, sent>>

DialFails(q) ==
    /\ "refuse" \in Events
    /\ At(q, "dial")
    /\ ~Late(q)
    /\ cur' = None
    /\ mu' = None
    /\ Return(q, "dialFailed")
    /\ UNCHANGED <<stream, closed, closing, born, now, sent>>

\* Faulty variant: a dial without a deadline.
DialExpiresNever(q) == At(q, "dial") /\ Late(q) /\ FALSE /\ UNCHANGED vars

\* The dial's context carries the query's own deadline.
DialExpires(q) ==
    /\ At(q, "dial")
    /\ Late(q)
    /\ cur' = None
    /\ mu' = None
    /\ Return(q, "timeout")
    /\ UNCHANGED <<stream, closed, closing, born, now, sent>>

-----------------------------------------------------------------------------
(* roundTrip: register, write, wait. *)

Taken(s)    == {i \in Id : stream[s].waiters[i] # None}
\* How many times nextID is incremented to get to i.
Steps(s, i) == ((i - stream[s].nextID - 1) % W) + 1
\* Faulty variant: the ID on the wire is the clients' own, and they agree on it.
FreshIdsClients(s) == {stream[s].nextID}

\* The ID register takes: the first free one after nextID.
FreshIds(s) == {i \in Id \ Taken(s) : \A j \in Id \ Taken(s) : Steps(s, i) <= Steps(s, j)}

Register(q) ==
    LET s == query[q].on IN
    /\ At(q, "register")
    /\ Live(s)
    /\ Cardinality(Taken(s)) < W - 1
    /\ \E i \in FreshIds(s) :
          /\ stream' = [stream EXCEPT ![s].waiters[i] = q, ![s].nextID = i]
          /\ query' = [query EXCEPT ![q].at = "write", ![q].id = i]
    /\ UNCHANGED <<cur, mu, closed, closing, born, now, sent>>

\* The stream died before q registered, or has no ID to give.
RegisterFails(q) ==
    LET s == query[q].on IN
    /\ At(q, "register")
    /\ \/ /\ ~Live(s)
          /\ Leave(q, stream[s].state)
       \/ /\ Live(s) /\ Cardinality(Taken(s)) >= W - 1
          /\ Leave(q, "full")
    /\ UNCHANGED <<stream, cur, mu, closed, closing, born, now, sent>>

\* wmu is held from the write to the end of "written".
MayWrite(q) ==
    /\ At(q, "write")
    /\ \A r \in Query : query[r].on = query[q].on => ~At(r, "written")

\* The whole frame is out.  The connection of a stream just marked dead may
\* still be open.
WriteFrame(q) ==
    LET s == query[q].on IN
    /\ MayWrite(q)
    /\ ~Late(q)
    /\ stream' = IF Live(s) THEN [stream EXCEPT ![s].asked = @ \union {[id |-> query[q].id, of |-> q]}]
                             ELSE stream
    /\ sent' = [sent EXCEPT ![q] = @ + 1]
    /\ Goto(q, "written")
    /\ UNCHANGED <<cur, mu, closed, closing, born, now>>

\* The write deadline, which is the query's, has passed: framing is lost, the
\* stream goes.
WriteExpires(q) ==
    /\ MayWrite(q)
    /\ Late(q)
    /\ stream' = Failed(query[q].on, "broken")
    /\ Leave(q, "timeout")
    /\ UNCHANGED <<cur, mu, closed, closing, born, now, sent>>

\* The peer has reset the connection, or the stream is already closed.
WriteBreaks(q) ==
    LET s == query[q].on IN
    /\ "reset" \in Events \/ ~Live(s)
    /\ MayWrite(q)
    /\ Late(q) => ~Live(s)
    /\ stream' = Failed(s, "broken")
    /\ Leave(q, stream'[s].state)
    /\ UNCHANGED <<cur, mu, closed, closing, born, now, sent>>

\* writtenAt is taken after the write, so what arrived in between counts as
\* arrived before it.
NoteWritten(q) ==
    /\ At(q, "written")
    /\ query' = [query EXCEPT ![q].at = "wait", ![q].heard = FALSE]
    /\ UNCHANGED <<stream, cur, mu, closed, closing, born, now, sent>>

\* The three cases of the select; any that is ready may be taken.
TakeAnswer(q) ==
    /\ At(q, "wait")
    /\ query[q].ch # None
    /\ Answered(q)
    /\ UNCHANGED <<stream, cur, mu, closed, closing, born, now, sent>>

\* Faulty variant: it is not looked for.
SeeDoneBlind(q) ==
    /\ At(q, "wait")
    /\ ~Live(query[q].on)
    /\ Leave(q, stream[query[q].on].state)
    /\ UNCHANGED <<stream, cur, mu, closed, closing, born, now, sent>>

\* An answer that came with the end of the stream is looked for first.
SeeDone(q) ==
    LET s == query[q].on IN
    /\ At(q, "wait")
    /\ ~Live(s)
    /\ IF query[q].ch # None THEN Answered(q) ELSE Leave(q, stream[s].state)
    /\ UNCHANGED <<stream, cur, mu, closed, closing, born, now, sent>>

\* Has the stream been silent since q was written?  Read under s.mu ...
Timer(q) ==
    /\ At(q, "wait")
    /\ Late(q)
    /\ IF query[q].heard THEN Leave(q, "timeout") ELSE Goto(q, "abandon")
    /\ UNCHANGED <<stream, cur, mu, closed, closing, born, now, sent>>

\* Faulty variant: every query in flight is told of this one's deadline.
AbandonTimeout(q) ==
    /\ At(q, "abandon")
    /\ stream' = Failed(query[q].on, "timeout")
    /\ Leave(q, "timeout")
    /\ UNCHANGED <<cur, mu, closed, closing, born, now, sent>>

\* ... and acted on after s.mu was let go.
Abandon(q) ==
    /\ At(q, "abandon")
    /\ stream' = Failed(query[q].on, "abandoned")
    /\ Leave(q, "timeout")
    /\ UNCHANGED <<cur, mu, closed, closing, born, now, sent>>

\* The waiters of s once q's deferred unregister has deleted by ID, whoever is
\* registered under it.
Unregistered(q, s) ==
    [stream EXCEPT ![s].waiters = [i \in Id |-> IF i = query[q].id THEN None ELSE @[i]]]

\* roundTrip returned an answer.
ReturnAnswer(q) ==
    LET s == query[q].on IN
    /\ At(q, "leave")
    /\ query[q].err = "ok"
    /\ Return(q, "ok")
    /\ stream' = Forget(Unregistered(q, s), query')
    /\ UNCHANGED <<cur, mu, closed, closing, born, now, sent>>

\* Faulty variants: no retry; a retry after a retry; the current stream dropped,
\* whichever it is.
RetireOnce(q) ==
    /\ At(q, "leave")
    /\ query[q].err # "ok"
    /\ Live(query[q].on) \/ mu = None
    /\ cur' = IF ~Live(query[q].on) /\ cur = query[q].on THEN None ELSE cur
    /\ Return(q, query[q].err)
    /\ stream' = Forget(Unregistered(q, query[q].on), query')
    /\ UNCHANGED <<mu, closed, closing, born, now, sent>>

RetireForever(q) ==
    /\ At(q, "leave")
    /\ query[q].err # "ok"
    /\ Live(query[q].on) \/ mu = None
    /\ cur' = IF ~Live(query[q].on) /\ cur = query[q].on THEN None ELSE cur
    /\ IF query[q].err \notin BrokenClass \/ Late(q) THEN Return(q, "timeout")
       ELSE query' = [query EXCEPT ![q] = [NewCall EXCEPT !.at = "lock", !.tries = 1]]
    /\ stream' = Forget(Unregistered(q, query[q].on), query')
    /\ UNCHANGED <<mu, closed, closing, born, now, sent>>

RetireAny(q) ==
    /\ At(q, "leave")
    /\ query[q].err # "ok"
    /\ Live(query[q].on) \/ mu = None
    /\ cur' = IF ~Live(query[q].on) THEN None ELSE cur
    /\ IF query[q].tries = 1 \/ query[q].err \notin BrokenClass THEN Return(q, query[q].err)
       ELSE query' = [query EXCEPT ![q] = [NewCall EXCEPT !.at = "lock", !.tries = 1]]
    /\ stream' = Forget(Unregistered(q, query[q].on), query')
    /\ UNCHANGED <<mu, closed, closing, born, now, sent>>

\* roundTrip failed.  A dead stream is dropped, under the mutex, if it is still the
\* current one; a failure of the stream's is retried once, budget permitting.
Retire(q) ==
    LET s == query[q].on IN
    /\ At(q, "leave")
    /\ query[q].err # "ok"
    /\ Live(s) \/ mu = None
    /\ cur' = IF ~Live(s) /\ cur = s THEN None ELSE cur
    /\ IF query[q].tries = 1 \/ query[q].err \notin BrokenClass THEN Return(q, query[q].err)
       ELSE IF Late(q) THEN Return(q, "timeout")
       ELSE query' = [query EXCEPT ![q] = [NewCall EXCEPT !.at = "lock", !.tries = 1]]
    /\ stream' = Forget(Unregistered(q, s), query')
    /\ UNCHANGED <<mu, closed, closing, born, now, sent>>

-----------------------------------------------------------------------------
(* The stream's reader, the peer behind it, and close. *)

\* An answer, in any order, reaches the reader.
ReadFrame(s) ==
    /\ Live(s)
    /\ stream[s].hand = NoFrame
    /\ \E f \in stream[s].asked :
          stream' = [stream EXCEPT ![s].hand = f, ![s].asked = @ \ {f}]
    /\ UNCHANGED <<query, cur, mu, closed, closing, born, now, sent>>

\* q's frame is out on s and q has not given up.
Waiting(q, s) == query[q].on = s /\ query[q].at \in {"written", "wait", "abandon"}

\* deliver: to the waiter under its ID, or to nobody.  A stream marked dead in
\* the meantime does not stop it.  Every query on s has now heard from it.
Deliver(s) ==
    LET f == stream[s].hand
        w == stream[s].waiters[f.id]
    IN
    /\ f # NoFrame
    /\ stream' = [stream EXCEPT ![s].hand = NoFrame, ![s].waiters[f.id] = None]
    /\ query' = [q \in Query |->
                   [query[q] EXCEPT
                      !.heard = @ \/ Waiting(q, s),
                      !.ch    = IF q = w /\ @ = None THEN f.of ELSE @]]
    /\ UNCHANGED <<cur, mu, closed, closing, born, now, sent>>

\* One more query, beside the N, from its register to its answer.
Traffic(s) ==
    /\ "traffic" \in Events
    /\ Live(s)
    /\ stream[s].hand = NoFrame
    /\ Cardinality(Taken(s)) < W - 1
    /\ \A r \in Query : query[r].on = s => ~At(r, "written")
    /\ \E i \in FreshIds(s) : stream' = [stream EXCEPT ![s].nextID = i]
    /\ query' = [q \in Query |-> [query[q] EXCEPT !.heard = @ \/ Waiting(q, s)]]
    /\ UNCHANGED <<cur, mu, closed, closing, born, now, sent>>

\* EOF, a reset, a stall inside a frame, or a frame shorter than a header.
BreakStream(s) ==
    /\ "reset" \in Events
    /\ Live(s)
    /\ stream[s].hand = NoFrame
    /\ stream' = Failed(s, "broken")
    /\ UNCHANGED <<query, cur, mu, closed, closing, born, now, sent>>

\* Faulty variant: the read deadline takes the stream whoever waits on it.
IdleTeardownAlways(s) ==
    /\ "idle" \in Events
    /\ Live(s)
    /\ stream[s].hand = NoFrame
    /\ stream' = Failed(s, "idle")
    /\ UNCHANGED <<query, cur, mu, closed, closing, born, now, sent>>

\* failIfIdle: the read deadline passed with nothing in flight.
IdleTeardown(s) ==
    /\ "idle" \in Events
    /\ Live(s)
    /\ stream[s].hand = NoFrame
    /\ Taken(s) = {}
    /\ stream' = Failed(s, "idle")
    /\ UNCHANGED <<query, cur, mu, closed, closing, born, now, sent>>

\* close takes the stream and the right to dial under the mutex, then fails it.
CloseBegin ==
    /\ "close" \in Events
    /\ mu = None
    /\ ~closed
    /\ closing' = cur
    /\ cur' = None
    /\ closed' = TRUE
    /\ UNCHANGED <<query, stream, mu, born, now, sent>>

CloseEnd ==
    /\ closing # None
    /\ stream' = Failed(closing, "closed")
    /\ closing' = None
    /\ UNCHANGED <<query, cur, mu, closed, born, now, sent>>

-----------------------------------------------------------------------------
\* Steps the shim takes by itself, without waiting for the peer.
OwnStep(q) ==
    \/ GetStream(q) \/ DialExpires(q)
    \/ Register(q) \/ RegisterFails(q) \/ WriteExpires(q) \/ NoteWritten(q)
    \/ TakeAnswer(q) \/ SeeDone(q) \/ Timer(q) \/ Abandon(q)
    \/ ReturnAnswer(q) \/ Retire(q)

\* Steps that wait for the endpoint or the resolver behind it.
PeerStep(q) == DialOk(q) \/ DialFails(q) \/ WriteFrame(q) \/ WriteBreaks(q)

StreamStep(s) == ReadFrame(s) \/ Deliver(s) \/ Traffic(s) \/ BreakStream(s) \/ IdleTeardown(s)

Next ==
    \/ \E q \in Query : Arrive(q) \/ OwnStep(q) \/ PeerStep(q)
    \/ \E s \in Stream : StreamStep(s)
    \/ Expire \/ CloseBegin \/ CloseEnd

Spec == Init /\ [][Next]_vars

\* Time passes and the shim's goroutines run.  Nothing is asked of the peer.
Fairness == WF_vars(Expire) /\ \A q \in Query : WF_vars(OwnStep(q))

LiveSpec == Spec /\ Fairness

-----------------------------------------------------------------------------
(* Properties. *)

\* A live stream is the current one of an upstream that is not closed, or is the
\* one close is about to fail: never two streams at once, and none that nothing
\* ever closes (dnsUpstream: "owns at most one live stream"; close: "a query
\* still in flight at shutdown would dial a fresh stream that nothing ever closes").
OneStream ==
    \A s \in Stream : Live(s) => s = closing \/ (s = cur /\ ~closed)

\* A client gets the answer to its own question, whatever is in flight beside it
\* ("that collision would deliver one client's answer to the other").  It holds
\* while a stream sees fewer queries than there are IDs: an answer later than a
\* whole cycle of nextID finds another query under its ID.
OwnAnswer == \A q \in Query : query[q].err = "ok" => query[q].got = q

\* A query is told "deadline expired" only when its own deadline has
\* (errUpstreamTimeout: "returned only to the query whose deadline it was").
TimeoutIsOwn == \A q \in Query : query[q].err = "timeout" => Late(q)

\* A client hears of a broken stream only when its retry failed as well.
RetriedFirst ==
    \A q \in Query : At(q, "done") /\ query[q].err \in BrokenClass => query[q].tries = 1

\* The idle teardown never takes a stream from under a query still waiting for its
\* answer on it.
IdleSparesQueries ==
    \A q \in Query :
        query[q].at \in {"write", "written", "wait", "abandon"} /\ query[q].ch = None
            => stream[query[q].on].state # "idle"

\* An answer that reached its query while the query still had time is returned,
\* though the stream died in the same instant ("look before discarding an answer
\* that has already arrived").  At its own deadline a query may still discard one:
\* the timer case does not look.
AnswerKept ==
    [][\A q \in Query : At(q, "wait") /\ query[q].ch # None /\ query'[q].at = "leave"
            => query'[q].err = "ok" \/ Late(q)]_vars

\* Every query returns, whatever the endpoint does or fails to do, and whatever
\* the other queries wait for (exchange "bounds the WHOLE attempt, dial included").
EveryQueryReturns == \A q \in Query : At(q, "lock") ~> At(q, "done")

\* What callers and the endpoint see of the upstream.
Reply(q) == CASE At(q, "unborn")                      -> "none"
              [] At(q, "done") /\ query[q].err = "ok" -> "answered"
              [] At(q, "done") /\ query[q].err # "ok" -> "failed"
              [] OTHER                                -> "asked"

Service == INSTANCE DnsService WITH
    reply     <- [q \in Query |-> Reply(q)],
    handed    <- sent,
    connected <- \E s \in Stream : Live(s),
    stopped   <- closed

\* All of it behaves as the service of DnsService: one reply per query, an answer
\* only to a question the endpoint was handed, at most twice; one connection.
ImplementsService == Service!Spec

\* A query whose deadline had passed before a stream was opened does not tear that
\* stream down (exchange: "this query's own deadline, reported as such, and no
\* write into a shared stream").
LateQuerySparesStream ==
    [][\A q \in Query : LET s == query[q].on IN
          At(q, "write") /\ Live(s) /\ q <= stream[s].openedAt /\ query'[q].at # "write"
            => stream'[s].state = "live"]_vars

=============================================================================
