---------------------------- MODULE DnsForwarder ----------------------------
(***************************************************************************)
(* The shim's DNS forwarder (internal/shim/dnsforwarder.go): its UDP and   *)
(* TCP listeners, the cache in front of the upstream (dnscache.go), and    *)
(* the SERVFAIL that names a failure (dnsfailure.go).                      *)
(*                                                                         *)
(* A slot is one UDP query's goroutine or one client connection.  The      *)
(* upstream's exchange is what DnsService promises: it returns an answer   *)
(* or an error.  One action is one critical section of the cache's mutex,  *)
(* one reading of the clock before it, or one call that returns.           *)
(***************************************************************************)
EXTENDS Integers, FiniteSets, FiniteSetsExt

CONSTANTS
    Datagram,       \* concurrent queries over UDP
    Client,         \* concurrent client connections
    Key,            \* what dnsCacheKey tells apart: name, type, class, CD, EDNS, DO
    NoKey,          \* of a query that is not cacheable: several questions, an opcode
    Asks,           \* the queries each of them may ask
    Answers,        \* what the upstream may answer
    Faulty,         \* the listeners whose socket may fail
    MaxEntries,     \* dnsCacheMaxEntries (1024 in the code)
    MaxTTL,         \* dnsCacheMaxTTL, dnsCacheMaxNegativeTTL (1 h and 5 min)
    MaxNegativeTTL,
    Wrap,           \* one past the largest uint32
    MaxClock,       \* bound on the seconds that pass
    NoTTL,          \* no SOA in the authority section
    NoEntry         \* no answer is held under a key

\* The records of an answer section are of the type asked for, or CNAMEs; `soa` is
\* the least of the SOA's own TTL and its minimum; `others` are the TTLs of the records
\* in the authority and additional sections, the OPT record's left out.
TTL      == 0..(Wrap - 1)
Record   == [asked: BOOLEAN, ttl: TTL]
Response == [rcode: 0..15, cut: BOOLEAN, large: BOOLEAN, records: SUBSET Record,
             soa: TTL \union {NoTTL}, others: SUBSET TTL]

Slot == Datagram \union Client

ASSUME NoneAssumption    == NoKey \notin Key /\ NoTTL \notin Int
ASSUME NumbersAssumption ==
    /\ {MaxEntries, MaxTTL, MaxNegativeTTL, MaxClock} \subseteq Nat
    /\ MaxNegativeTTL <= MaxTTL
    /\ Wrap \in Nat \ {0}
ASSUME FaultyAssumption  == Faulty \subseteq {"udp", "tcp"}
ASSUME AnswersAssumption == Answers \subseteq Response

Time  == 0..MaxClock
Entry == [resp: Answers, stored: Time, expires: Nat]
ASSUME NoEntryAssumption == NoEntry \notin Entry

\* What an exchange that fails may be: the deadline, the TCP connection to the
\* endpoint, the SOCKS request, the stream; anything else.
Causes == {"deadline", "unreachable", "socks", "broken"}
Kinds  == {"anonctl:deadline-expired", "anonctl:endpoint-unreachable",
           "anonctl:stream-broken", "anonctl:endpoint-refused", "anonctl:other"}

\* A query: its key, whether it has a whole header, whether it used EDNS.
Query   == [key: Key \union {NoKey}, whole: BOOLEAN, edns: BOOLEAN]
\* What a client is told: an answer with the TTLs of its answer section and of the
\* rest, each as sent, next to the upstream's own, or SERVFAIL with the reason an EDNS
\* client can read, or nothing.
Replies == [from: {"none", "cache", "upstream", "servfail"}, age: Int, rcode: 0..15,
            ttls: SUBSET (Nat \X Nat), rest: SUBSET (Nat \X Nat), why: Kinds \union {"none"}]
Silent  == [from |-> "none", age |-> 0, rcode |-> 0, ttls |-> {}, rest |-> {}, why |-> "none"]

Places == {"free", "idle", "lookup", "exchange", "store", "reply"}

VARIABLES
    clock,          \* seconds since the forwarder started
    entries,        \* the cache
    slot,           \* each slot's query, clock reading and reply
    legs,           \* the listeners that are served
    bound           \* the listeners' sockets are open

forwarderVars == <<clock, entries, slot, legs, bound>>

ASSUME AsksAssumption == Asks \in [Slot -> SUBSET Query]

NoQuery == [key |-> NoKey, whole |-> FALSE, edns |-> FALSE]
Free    == [at |-> "free", query |-> NoQuery, now |-> 0,
            reply |-> Silent]

Held(es) == {k \in Key : es[k] # NoEntry}

ForwarderTypeOK ==
    /\ clock \in Time
    /\ entries \in [Key -> Entry \union {NoEntry}]
    /\ legs \subseteq {"udp", "tcp"} /\ bound \in BOOLEAN
    /\ Cardinality(Held(entries)) <= MaxEntries
    /\ slot \in [Slot -> [at: Places, query: Query, now: Time, reply: Replies]]

ForwarderInit ==
    /\ clock   = 0
    /\ entries = [k \in Key |-> NoEntry]
    /\ slot    = [s \in Slot |-> Free]
    /\ legs    = {}
    /\ bound   = FALSE

-----------------------------------------------------------------------------
(* The cache (dnscache.go). *)

Lesser(a, b) == IF a < b THEN a ELSE b

\* The TTLs that bound how long an answer is held: its answer section's.
TTLs(r)     == {a.ttl : a \in r.records}
Answered(r) == r.rcode = 0 /\ \E a \in r.records : a.asked

\* dnsResponseTTL: how long an answer is held, 0 for not at all.  An answer section
\* without a record of the type asked for is negative, and held only as the SOA says.
ResponseTTL(r) ==
    LET never == r.cut \/ r.rcode \notin {0, 3} \/ (~Answered(r) /\ r.soa = NoTTL) IN
    CASE never -> 0
      [] ~never /\ Answered(r)  -> Lesser(Min(TTLs(r)), MaxTTL)
      [] ~never /\ ~Answered(r) -> Lesser(Min(TTLs(r) \union {r.soa}), MaxNegativeTTL)

Dead(e, now)  == now > e.expires
\* The entries without those dead at `now`.
Swept(es, now) ==
    [k \in Key |-> IF es[k] # NoEntry /\ Dead(es[k], now) THEN NoEntry ELSE es[k]]

\* Faulty variant: some entry goes, without a sweep first.
EvictedAny(es, now) == {[es EXCEPT ![k] = NoEntry] : k \in Held(es)}

\* Faulty variant: the dead go, and that is all.
EvictedDead(es, now) == {Swept(es, now)}

\* evictLocked: the dead go; if that made no room, the one that expires first.
Evicted(es, now) ==
    LET swept == Swept(es, now)
        first == {k \in Held(swept) : \A j \in Held(swept) : swept[k].expires <= swept[j].expires}
    IN IF Cardinality(Held(swept)) < MaxEntries THEN {swept}
       ELSE {[swept EXCEPT ![k] = NoEntry] : k \in first}

\* The TTLs `get` sends, of every section: counted down in uint32 arithmetic, never
\* below 1.
Remaining(ttl, now, stored) ==
    LET elapsed == (now - stored) % Wrap IN IF ttl > elapsed THEN ttl - elapsed ELSE 1

Told(ttls, now, stored) == {<<ttl, Remaining(ttl, now, stored)>> : ttl \in ttls}
Whole(ttls)             == {<<ttl, ttl>> : ttl \in ttls}

-----------------------------------------------------------------------------
(* The listeners. *)

\* StartForwarder: both addresses are bound, or neither stays so.
StartForwarder ==
    /\ legs = {}
    /\ legs' = {"udp", "tcp"} /\ bound' = TRUE
    /\ UNCHANGED <<clock, entries, slot>>

\* Reading the socket or accepting fails: serveUDP or serveTCP returns, and the socket
\* stays open.
LegFails(l) ==
    /\ l \in legs \intersect Faulty
    /\ legs' = legs \ {l}
    /\ UNCHANGED <<clock, entries, slot, bound>>

\* The context is done, or Close: the listeners and the upstream close, but neither the
\* queries in hand nor the clients' connections.
CloseForwarder ==
    /\ legs' = {} /\ bound' = FALSE
    /\ UNCHANGED <<clock, entries, slot>>

-----------------------------------------------------------------------------
(* The way of one query. *)

Tells(s, reply) == slot' = [slot EXCEPT ![s].at = "reply", ![s].now = 0, ![s].reply = reply]

\* A datagram arrives, or a client connects.
Receive(s, q) ==
    /\ s \in Datagram /\ slot[s].at = "free" /\ "udp" \in legs
    /\ slot' = [slot EXCEPT ![s] = [Free EXCEPT !.at = "lookup", !.query = q, !.now = clock]]
    /\ UNCHANGED <<clock, entries, legs, bound>>

Accept(s) ==
    /\ s \in Client /\ slot[s].at = "free" /\ "tcp" \in legs
    /\ slot' = [slot EXCEPT ![s] = [Free EXCEPT !.at = "idle"]]
    /\ UNCHANGED <<clock, entries, legs, bound>>

\* A query on a connection, which outlives the listener.
ReadFramed(s, q) ==
    /\ slot[s].at = "idle"
    /\ slot' = [slot EXCEPT ![s].at = "lookup", ![s].query = q, ![s].now = clock]
    /\ UNCHANGED <<clock, entries, legs, bound>>

\* The client hangs up, or asks nothing for dnsTCPClientIdle.
HangUp(s) ==
    /\ slot[s].at = "idle"
    /\ slot' = [slot EXCEPT ![s] = Free]
    /\ UNCHANGED <<clock, entries, legs, bound>>

Usable(s) ==
    LET e == entries[slot[s].query.key] IN
    slot[s].query.key # NoKey /\ e # NoEntry /\ ~Dead(e, slot[s].now)

Served(s, ttls, rest) ==
    LET e == entries[slot[s].query.key] IN
    Tells(s, [from |-> "cache", age |-> slot[s].now - e.stored, rcode |-> e.resp.rcode,
              ttls |-> ttls, rest |-> rest, why |-> "none"])

\* Faulty variant: what is served keeps its TTLs.
HitWhole(s) ==
    /\ slot[s].at = "lookup" /\ Usable(s)
    /\ LET r == entries[slot[s].query.key].resp IN Served(s, Whole(TTLs(r)), Whole(r.others))
    /\ UNCHANGED <<clock, entries, legs, bound>>

\* dnsCache.get, with the clock as it was read before the lock.
Hit(s) ==
    /\ slot[s].at = "lookup" /\ Usable(s)
    /\ LET e == entries[slot[s].query.key] IN
       Served(s, Told(TTLs(e.resp), slot[s].now, e.stored),
                 Told(e.resp.others, slot[s].now, e.stored))
    /\ UNCHANGED <<clock, entries, legs, bound>>

Miss(s) ==
    LET k == slot[s].query.key IN
    /\ slot[s].at = "lookup" /\ ~Usable(s)
    /\ entries' = [j \in Key |-> IF j = k THEN NoEntry ELSE entries[j]]
    /\ slot' = [slot EXCEPT ![s].at = "exchange", ![s].now = 0]
    /\ UNCHANGED <<clock, legs, bound>>

\* exchange returns an answer, which put offers to the cache; its clock is read
\* before the lock too.  Which answer it was is chosen when it is put.
Answer(s) ==
    /\ slot[s].at = "exchange" /\ slot[s].query.whole
    /\ slot' = [slot EXCEPT ![s].at = "store", ![s].now = clock]
    /\ UNCHANGED <<clock, entries, legs, bound>>

Forwarded(r) == [from |-> "upstream", age |-> 0, rcode |-> r.rcode,
                 ttls |-> Whole(TTLs(r)), rest |-> Whole(r.others), why |-> "none"]

\* dnsCache.put: an answer nothing says how long to hold, or too large a one, is not
\* held; a full cache makes room, also for a key it already holds.
Store(s, r) ==
    LET k    == slot[s].query.key
        now  == slot[s].now
        room == IF Cardinality(Held(entries)) < MaxEntries THEN {entries}
                ELSE Evicted(entries, now)
    IN
    /\ slot[s].at = "store"
    /\ \/ /\ k = NoKey \/ r.large \/ ResponseTTL(r) = 0
          /\ UNCHANGED entries
       \/ /\ k # NoKey /\ ~r.large /\ ResponseTTL(r) > 0
          /\ \E es \in room : entries' = [es EXCEPT ![k] =
                [resp |-> r, stored |-> now, expires |-> now + ResponseTTL(r)]]
    /\ Tells(s, Forwarded(r))
    /\ UNCHANGED <<clock, legs, bound>>

\* classifyDNSFailure: the first cause that applies.
Classify(causes) ==
    CASE "deadline" \in causes -> "anonctl:deadline-expired"
      [] "deadline" \notin causes /\ "unreachable" \in causes -> "anonctl:endpoint-unreachable"
      [] causes \cap {"deadline", "unreachable"} = {} /\ "broken" \in causes -> "anonctl:stream-broken"
      [] causes = {"socks"} -> "anonctl:endpoint-refused"
      [] causes = {} -> "anonctl:other"

\* servfail: a query without a whole header gets nothing, and only one that used
\* EDNS can be told why.
Servfail(q, kind) ==
    IF q.whole THEN [Silent EXCEPT !.from = "servfail", !.rcode = 2,
                                   !.why = IF q.edns THEN kind ELSE "none"]
    ELSE Silent

\* Faulty variant: a failure is answered over TCP only.
FailSilent(s, causes) ==
    /\ slot[s].at = "exchange" /\ (slot[s].query.whole \/ causes = {})
    /\ Tells(s, IF s \in Client THEN Servfail(slot[s].query, Classify(causes)) ELSE Silent)
    /\ UNCHANGED <<clock, entries, legs, bound>>

\* exchange fails, or refuses a query without a whole header.
Fail(s, causes) ==
    /\ slot[s].at = "exchange" /\ (slot[s].query.whole \/ causes = {})
    /\ Tells(s, Servfail(slot[s].query, Classify(causes)))
    /\ UNCHANGED <<clock, entries, legs, bound>>

\* The datagram is written, on a socket that is open, or the frame: the connection
\* then waits for the next query.
Deliver(s) ==
    /\ slot[s].at = "reply" /\ slot[s].reply # Silent
    /\ s \in Datagram => bound
    /\ slot' = [slot EXCEPT ![s] = IF s \in Client THEN [Free EXCEPT !.at = "idle"] ELSE Free]
    /\ UNCHANGED <<clock, entries, legs, bound>>

\* The write fails, and nobody is told: the listeners' socket is closed, or the client
\* is gone and its connection closes.
LosesReply(s) ==
    /\ slot[s].at = "reply" /\ slot[s].reply # Silent
    /\ s \in Datagram => ~bound
    /\ slot' = [slot EXCEPT ![s] = Free]
    /\ UNCHANGED <<clock, entries, legs, bound>>

\* There is nothing to write; a connection closes.
NoReply(s) ==
    /\ slot[s].at = "reply" /\ slot[s].reply = Silent
    /\ slot' = [slot EXCEPT ![s] = Free]
    /\ UNCHANGED <<clock, entries, legs, bound>>

Written(s) == Deliver(s) \/ LosesReply(s)

Tick ==
    /\ clock < MaxClock
    /\ clock' = clock + 1
    /\ UNCHANGED <<entries, slot, legs, bound>>

Exchanged(s) ==
    \/ Answer(s)
    \/ \E causes \in SUBSET Causes : Fail(s, causes)

Handle(s) ==
    \/ Hit(s) \/ Miss(s) \/ Exchanged(s) \/ \E r \in Answers : Store(s, r)
    \/ Written(s) \/ NoReply(s)

ForwarderNext ==
    \/ \E s \in Slot :
          \/ \E q \in Asks[s] : Receive(s, q) \/ ReadFramed(s, q)
          \/ Accept(s) \/ HangUp(s) \/ Handle(s)
    \/ \E l \in legs : LegFails(l)
    \/ Tick

-----------------------------------------------------------------------------

\* A reply from the cache tells of every record what is left of its TTL, or 1; the
\* records of the answer section have that much left.
IsCurrent(reply) ==
    reply.from = "cache" =>
        /\ reply.rcode \in {0, 3}
        /\ reply.age <= MaxTTL
        /\ \A p \in reply.ttls : reply.age <= p[1] /\ p[2] <= p[1]
        /\ \A p \in reply.ttls \union reply.rest :
              p[2] = 1 \/ (p[2] <= p[1] /\ (reply.age >= 0 => p[2] + reply.age = p[1]))

\* An answer from the cache is one that could be held, was stored no longer ago than
\* each TTL of its answer section, and tells of every record what is left of its TTL, or
\* 1.  A record of the authority or additional section bounds nothing: it may be served
\* past its TTL, as 1.  (The clock is read before the lock, so the entry may even be the
\* younger of the two: then the TTLs told are not above the upstream's.)
CachedIsCurrent == \A s \in Slot : IsCurrent(slot[s].reply)

\* Room is made only in a full cache, and at the expense of the dead: an answer still
\* good for another query goes only if none was dead, and the first to expire goes.
\* (A full cache makes room also when it holds the key already.)
EvictionSparesLive ==
    [][\A s \in Slot, k \in Key :
          /\ slot[s].at = "store" /\ slot'[s].at = "reply"
          /\ entries[k] # NoEntry /\ ~Dead(entries[k], slot[s].now)
          /\ entries'[k] = NoEntry
          => /\ Cardinality(Held(entries)) = MaxEntries
             /\ \A j \in Held(entries) :
                   ~Dead(entries[j], slot[s].now) /\ entries[k].expires <= entries[j].expires
      ]_forwarderVars

=============================================================================
