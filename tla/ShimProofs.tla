----------------------------- MODULE ShimProofs -----------------------------
(***************************************************************************)
(* What the shim promises for any number of queries, connections, keys and *)
(* answers, any cache size and any TTLs.                                   *)
(***************************************************************************)
EXTENDS Shim, TLAPS, FiniteSetTheorems, WellFoundedInduction

-----------------------------------------------------------------------------
(* The relay.  Why a connection ends is kept with how far it has got.      *)

\* A direction never gets ahead of its source, and ends well only with all of it written.
InOrder(d) ==
    /\ d.written <= d.read /\ d.read <= d.sent
    /\ d.why = "eof" => d.written = d.sent /\ d.source = "fin"

\* A copier runs only once the connection is dialled, fails only when a peer was lost
\* or after a socket was closed, and a socket is closed only when a copier has ended.
Lost(x)  == x.out.source = "reset" \/ x.back.source = "reset"
Cause(x) == x.out.why = "eof" \/ x.back.why = "eof" \/ Lost(x)
Ending(x) ==
    /\ x.at \in {"free", "accepted", "dialing"} => x.out.why = "off" /\ x.back.why = "off"
    /\ x.at = "spliced" /\ "error" \in {x.out.why, x.back.why} => Lost(x)
    /\ x.at \in {"half", "shut"} /\ (x.out.why # "off" \/ x.back.why # "off") => Cause(x)

RelayInv ==
    /\ RelayTypeOK
    /\ \A c \in Conn : InOrder(conn[c].out) /\ InOrder(conn[c].back) /\ Ending(conn[c])

LEMMA FreshInOrder ==
    /\ Fresh \in [at: Stage, out: Direction, back: Direction]
    /\ InOrder(Fresh.out) /\ InOrder(Fresh.back)
    /\ Fresh.at = "free" /\ Fresh.out.why = "off" /\ Fresh.back.why = "off"
BY ChunksAssumption DEF Fresh, Quiet, Direction, Stage, InOrder

LEMMA RelayStarts == RelayInit => RelayInv
BY FreshInOrder DEF RelayInit, RelayInv, RelayTypeOK, Ending

\* What the steps of one direction do to it.
LEMMA DirectionIs ==
    ASSUME RelayInv, NEW c \in Conn, NEW l \in Leg,
           Send(c, l) \/ SayFin(c, l) \/ BreakOff(c, l) \/ Copy(c, l)
    PROVE  \E d \in Direction :
              /\ conn' = [conn EXCEPT ![c][l] = d]
              /\ InOrder(d)
              /\ conn[c][l].source = "reset" => d.source = "reset"
              /\ \/ d.why = conn[c][l].why
                 \/ conn[c][l].why = "copying" /\ d.why = "eof"
                 \/ /\ conn[c][l].why = "copying" /\ d.why = "error"
                    /\ \/ conn[c].at \in {"half", "shut"}
                       \/ conn[c].out.source = "reset" \/ conn[c].back.source = "reset"
<1> DEFINE x == conn[c][l]
<1> USE ChunksAssumption
<1>1. /\ x \in Direction /\ InOrder(x)
      /\ conn \in [Conn -> [at: Stage, out: Direction, back: Direction]]
  BY DEF RelayInv, RelayTypeOK, Leg
<1>2. /\ x.sent \in Nat /\ x.read \in Nat /\ x.written \in Nat
      /\ x.written <= x.read /\ x.read <= x.sent /\ x.sent <= Chunks
      /\ x.why = "eof" => x.written = x.sent /\ x.source = "fin"
  BY <1>1 DEF Direction, InOrder
<1>3. CASE Send(c, l)
  <2> DEFINE d == [x EXCEPT !.sent = @ + 1]
  <2>1. /\ d \in Direction /\ InOrder(d) /\ d.source = x.source /\ d.why = x.why
    BY <1>1, <1>2, <1>3 DEF Send, MaySend, Direction, InOrder
  <2>2. conn' = [conn EXCEPT ![c][l] = d]
    BY <1>1, <1>3 DEF Send, Leg
  <2> QED BY <2>1, <2>2
<1>4. CASE SayFin(c, l)
  <2> DEFINE d == [x EXCEPT !.source = "fin"]
  <2>1. d \in Direction /\ InOrder(d) /\ d.why = x.why /\ x.source = "open"
    BY <1>1, <1>2, <1>4 DEF SayFin, MaySend, Direction, InOrder
  <2>2. conn' = [conn EXCEPT ![c][l] = d]
    BY <1>1, <1>4 DEF SayFin, Leg
  <2> QED BY <2>1, <2>2
<1>5. CASE BreakOff(c, l)
  <2> DEFINE d == [x EXCEPT !.source = "reset"]
  <2>1. d \in Direction /\ InOrder(d) /\ d.why = x.why /\ d.source = "reset"
    BY <1>1, <1>2, <1>5 DEF BreakOff, MaySend, Direction, InOrder
  <2>2. conn' = [conn EXCEPT ![c][l] = d]
    BY <1>1, <1>5 DEF BreakOff, Leg
  <2> QED BY <2>1, <2>2
<1>6. CASE ReadChunk(c, l)
  <2> DEFINE d == [x EXCEPT !.read = @ + 1]
  <2>1. d \in Direction /\ InOrder(d) /\ d.source = x.source /\ d.why = x.why
    BY <1>1, <1>2, <1>6 DEF ReadChunk, Copying, Direction, InOrder
  <2>2. conn' = [conn EXCEPT ![c][l] = d]
    BY <1>1, <1>6 DEF ReadChunk, Leg
  <2> QED BY <2>1, <2>2
<1>7. CASE ReadEnds(c, l)
  <2> DEFINE d == [x EXCEPT !.why = "eof"]
  <2>1. x.source = "fin" /\ x.read = x.sent /\ x.written = x.read /\ x.why = "copying"
    BY <1>2, <1>7 DEF ReadEnds, Copying, Holding
  <2>2. d \in Direction /\ InOrder(d) /\ d.source = x.source /\ d.why = "eof"
    BY <1>1, <1>2, <2>1 DEF Direction, InOrder
  <2>3. conn' = [conn EXCEPT ![c][l] = d]
    BY <1>1, <1>7 DEF ReadEnds, Leg
  <2> QED BY <2>1, <2>2, <2>3
<1>8. CASE WriteChunk(c, l)
  <2> DEFINE d == [x EXCEPT !.written = @ + 1]
  <2>1. d \in Direction /\ InOrder(d) /\ d.source = x.source /\ d.why = x.why
    BY <1>1, <1>2, <1>8 DEF WriteChunk, Copying, Holding, Direction, InOrder
  <2>2. conn' = [conn EXCEPT ![c][l] = d]
    BY <1>1, <1>8 DEF WriteChunk, Leg
  <2> QED BY <2>1, <2>2
<1>9. CASE ReadFails(c, l) \/ WriteFails(c, l)
  <2> DEFINE d == [x EXCEPT !.why = "error"]
  <2>1. d \in Direction /\ InOrder(d) /\ d.source = x.source /\ d.why = "error"
    BY <1>1, <1>2 DEF Direction, InOrder
  <2>2. conn' = [conn EXCEPT ![c][l] = d] /\ x.why = "copying"
    BY <1>1, <1>9 DEF ReadFails, WriteFails, Copying, Leg
  <2>3. Other(l) \in Leg
    BY DEF Other, Leg
  <2>4. \/ conn[c].at \in {"half", "shut"}
        \/ conn[c].out.source = "reset" \/ conn[c].back.source = "reset"
    BY <1>9, <2>3 DEF ReadFails, WriteFails, SourceShut, TargetShut, Leg
  <2> QED BY <2>1, <2>2, <2>4
<1> QED BY <1>3, <1>4, <1>5, <1>6, <1>7, <1>8, <1>9 DEF Copy, CopierGoesOn

LEMMA DirectionStep ==
    ASSUME RelayInv, NEW c \in Conn, NEW l \in Leg,
           Send(c, l) \/ SayFin(c, l) \/ BreakOff(c, l) \/ Copy(c, l)
    PROVE  RelayInv'
<1> DEFINE x == conn[c]
<1>1. /\ conn \in [Conn -> [at: Stage, out: Direction, back: Direction]]
      /\ x \in [at: Stage, out: Direction, back: Direction]
      /\ InOrder(x.out) /\ InOrder(x.back) /\ Ending(x)
  BY DEF RelayInv, RelayTypeOK
<1>2. accepting \in BOOLEAN /\ accepting' = accepting
  BY DEF RelayInv, RelayTypeOK, Send, SayFin, BreakOff, Copy, CopierGoesOn,
         ReadChunk, ReadEnds, ReadFails, WriteChunk, WriteFails
<1>3. PICK d \in Direction :
         /\ conn' = [conn EXCEPT ![c][l] = d]
         /\ InOrder(d)
         /\ x[l].source = "reset" => d.source = "reset"
         /\ \/ d.why = x[l].why
            \/ x[l].why = "copying" /\ d.why = "eof"
            \/ x[l].why = "copying" /\ d.why = "error" /\ (x.at \in {"half", "shut"} \/ Lost(x))
  BY DirectionIs DEF Lost
<1> DEFINE new == [x EXCEPT ![l] = d]
<1>4. conn' = [conn EXCEPT ![c] = new]
  BY <1>3
<1>5. /\ new \in [at: Stage, out: Direction, back: Direction]
      /\ InOrder(new.out) /\ InOrder(new.back) /\ Ending(new)
  <2>1. CASE l = "out"
    <3>1. /\ new \in [at: Stage, out: Direction, back: Direction]
          /\ new.at = x.at /\ new.out = d /\ new.back = x.back
      BY <1>1, <2>1
    <3>2. /\ x.out.source = "reset" => d.source = "reset"
          /\ \/ d.why = x.out.why
             \/ x.out.why = "copying" /\ d.why = "eof"
             \/ x.out.why = "copying" /\ d.why = "error" /\ (x.at \in {"half", "shut"} \/ Lost(x))
      BY <1>3, <2>1
    <3> HIDE DEF new, x
    <3> QED BY <1>1, <1>3, <3>1, <3>2 DEF Ending, Cause, Lost
  <2>2. CASE l = "back"
    <3>1. /\ new \in [at: Stage, out: Direction, back: Direction]
          /\ new.at = x.at /\ new.out = x.out /\ new.back = d
      BY <1>1, <2>2
    <3>2. /\ x.back.source = "reset" => d.source = "reset"
          /\ \/ d.why = x.back.why
             \/ x.back.why = "copying" /\ d.why = "eof"
             \/ x.back.why = "copying" /\ d.why = "error" /\ (x.at \in {"half", "shut"} \/ Lost(x))
      BY <1>3, <2>2
    <3> HIDE DEF new, x
    <3> QED BY <1>1, <1>3, <3>1, <3>2 DEF Ending, Cause, Lost
  <2> QED BY <2>1, <2>2 DEF Leg
<1> HIDE DEF new
<1> QED BY <1>1, <1>2, <1>4, <1>5 DEF RelayInv, RelayTypeOK

\* What becomes of a connection as a whole.
LEMMA ConnectionStep ==
    ASSUME RelayInv, NEW c \in Conn,
           AcceptConn(c) \/ NoDestination(c) \/ Dial(c) \/ DialRefused(c) \/ Dialled(c) \/ End(c)
    PROVE  RelayInv'
<1> DEFINE x == conn[c]
<1>1. /\ conn \in [Conn -> [at: Stage, out: Direction, back: Direction]]
      /\ x \in [at: Stage, out: Direction, back: Direction]
      /\ InOrder(x.out) /\ InOrder(x.back) /\ Ending(x)
  BY DEF RelayInv, RelayTypeOK
<1>2. accepting \in BOOLEAN /\ accepting' = accepting
  BY DEF RelayInv, RelayTypeOK, AcceptConn, NoDestination, Dial, DialRefused, Dialled, End,
         SpliceReturns, CloseClient, Forget
<1>3. \E new \in [at: Stage, out: Direction, back: Direction] :
         /\ conn' = [conn EXCEPT ![c] = new]
         /\ InOrder(new.out) /\ InOrder(new.back) /\ Ending(new)
  <2>1. CASE AcceptConn(c) \/ Forget(c)
    <3>1. /\ [Fresh EXCEPT !.at = "accepted"] \in [at: Stage, out: Direction, back: Direction]
          /\ [Fresh EXCEPT !.at = "accepted"].out = Fresh.out
          /\ [Fresh EXCEPT !.at = "accepted"].back = Fresh.back
          /\ [Fresh EXCEPT !.at = "accepted"].at = "accepted"
      BY FreshInOrder DEF Stage
    <3>2. Ending(Fresh) /\ Ending([Fresh EXCEPT !.at = "accepted"])
      BY <3>1, FreshInOrder DEF Ending
    <3> QED BY <2>1, <3>1, <3>2, FreshInOrder DEF AcceptConn, Forget
  <2>2. ASSUME NEW at \in Stage, conn' = [conn EXCEPT ![c].at = at],
               \/ at = "dialing" /\ x.at = "accepted"
               \/ at = "shut" /\ x.at \in {"accepted", "dialing", "half"}
               \/ at = "half" /\ x.at = "spliced" /\ Cause(x)
        PROVE  \E new \in [at: Stage, out: Direction, back: Direction] :
                  /\ conn' = [conn EXCEPT ![c] = new]
                  /\ InOrder(new.out) /\ InOrder(new.back) /\ Ending(new)
    <3> DEFINE new == [x EXCEPT !.at = at]
    <3>1. /\ new \in [at: Stage, out: Direction, back: Direction]
          /\ new.at = at /\ new.out = x.out /\ new.back = x.back
      BY <1>1
    <3>2. conn' = [conn EXCEPT ![c] = new]
      BY <2>2
    <3> HIDE DEF new, x
    <3>3. Ending(new)
      BY <1>1, <2>2, <3>1 DEF Ending, Cause, Lost
    <3> QED BY <1>1, <3>1, <3>2, <3>3
  <2>3. CASE NoDestination(c) \/ DialRefused(c) \/ CloseClient(c) \/ Dial(c)
    <3>1. \/ conn' = [conn EXCEPT ![c].at = "shut"] /\ x.at \in {"accepted", "dialing", "half"}
          \/ conn' = [conn EXCEPT ![c].at = "dialing"] /\ x.at = "accepted"
      BY <2>3 DEF NoDestination, DialRefused, CloseClient, Dial
    <3>2. "shut" \in Stage /\ "dialing" \in Stage
      BY DEF Stage
    <3> HIDE DEF x
    <3> QED BY <2>2, <3>1, <3>2
  <2>4. CASE SpliceReturns(c)
    <3>1. x.at = "spliced" /\ conn' = [conn EXCEPT ![c].at = "half"]
      BY <2>4 DEF SpliceReturns
    <3>2. Cause(x)
      BY <1>1, <2>4, <3>1 DEF SpliceReturns, Ended, Leg, Ending, Cause
    <3>3. "half" \in Stage
      BY DEF Stage
    <3> HIDE DEF x
    <3> QED BY <2>2, <3>1, <3>2, <3>3
  <2>5. CASE Dialled(c)
    <3> DEFINE out  == [x.out EXCEPT !.why = "copying"]
               back == [x.back EXCEPT !.why = "copying"]
               new  == [at |-> "spliced", out |-> out, back |-> back]
    <3>1. out \in Direction /\ back \in Direction /\ InOrder(out) /\ InOrder(back)
      BY <1>1 DEF InOrder, Direction
    <3>2. out.why = "copying" /\ back.why = "copying"
      BY <1>1 DEF Direction
    <3>3. conn' = [conn EXCEPT ![c] = new]
      <4>1. /\ conn' = [conn EXCEPT ![c] = conn'[c]]
            /\ conn'[c].at = "spliced" /\ conn'[c].out = out /\ conn'[c].back = back
            /\ conn'[c] = [at |-> "spliced", out |-> out, back |-> back]
        BY <1>1, <2>5 DEF Dialled
      <4> QED BY <4>1
    <3> HIDE DEF out, back
    <3>4. /\ new \in [at: Stage, out: Direction, back: Direction]
          /\ new.at = "spliced" /\ new.out = out /\ new.back = back
      BY <3>1 DEF Stage
    <3> HIDE DEF new
    <3>5. Ending(new)
      BY <3>2, <3>4 DEF Ending
    <3> QED BY <3>1, <3>3, <3>4, <3>5
  <2> QED BY <2>1, <2>3, <2>4, <2>5 DEF End
<1> QED BY <1>1, <1>2, <1>3 DEF RelayInv, RelayTypeOK

LEMMA RelayStep == RelayInv /\ RelayNext => RelayInv'
BY DirectionStep, ConnectionStep DEF RelayNext

-----------------------------------------------------------------------------
(* Numbers. *)

LEMMA ModuloIs ==
    ASSUME NEW x \in Int, NEW w \in Nat \ {0}
    PROVE  x % w \in 0..(w - 1) /\ (x \in 0..(w - 1) => x % w = x)
OBVIOUS

LEMMA MinIs ==
    ASSUME NEW S \in SUBSET Nat, S # {}
    PROVE  Min(S) \in S /\ \A y \in S : Min(S) <= y
<1>1. \E x \in S : \A y \in S : ~(<<y, x>> \in OpToRel(<, Nat))
  BY NatLessThanWellFounded, WFMin
<1>2. PICK x \in S : \A y \in S : ~(<<y, x>> \in OpToRel(<, Nat))
  BY <1>1
<1>3. \A y \in S : x <= y
  <2> SUFFICES ASSUME NEW y \in S, y < x PROVE FALSE
    OBVIOUS
  <2>1. <<y, x>> \in OpToRel(<, Nat)
    BY DEF OpToRel
  <2> QED BY <1>2, <2>1
<1> QED BY <1>3 DEF Min

-----------------------------------------------------------------------------
(* How long an answer is held. *)

\* No longer than any TTL of its answer section says, nor than the cap, and less than
\* the range of the numbers.
LEMMA HoldTime ==
    ASSUME NEW r \in Answers
    PROVE  /\ ResponseTTL(r) \in Nat
           /\ ResponseTTL(r) > 0 => /\ r.rcode \in {0, 3} /\ ResponseTTL(r) < Wrap
                                    /\ ResponseTTL(r) <= MaxTTL
                                    /\ \A ttl \in TTLs(r) : ResponseTTL(r) <= ttl
<1>1. r \in Response
  BY AnswersAssumption
<1>2. TTLs(r) \in SUBSET Nat /\ \A ttl \in TTLs(r) : ttl < Wrap
  BY <1>1, NumbersAssumption DEF Response, Record, TTL, TTLs
<1>3. Wrap \in Nat /\ MaxTTL \in Nat /\ MaxNegativeTTL \in Nat /\ MaxNegativeTTL <= MaxTTL
  BY NumbersAssumption
<1> DEFINE never == r.cut \/ r.rcode \notin {0, 3} \/ (~Answered(r) /\ r.soa = NoTTL)
<1>4. CASE never
  BY <1>4 DEF ResponseTTL
<1>5. CASE ~never /\ Answered(r)
  <2>1. TTLs(r) # {}
    BY <1>5 DEF Answered, TTLs
  <2>2. Min(TTLs(r)) \in Nat /\ \A ttl \in TTLs(r) : Min(TTLs(r)) <= ttl
    BY <1>2, <2>1, MinIs
  <2>2a. Min(TTLs(r)) < Wrap
    BY <1>2, <1>3, <2>1, <2>2
  <2>3. ResponseTTL(r) = Lesser(Min(TTLs(r)), MaxTTL)
    BY <1>5 DEF ResponseTTL
  <2> QED BY <2>2a, <1>2, <1>3, <1>5, <2>2, <2>3 DEF Lesser
<1>6. CASE ~never /\ ~Answered(r)
  <2>1. r.soa \in Nat /\ r.soa < Wrap
    BY <1>1, <1>6, NumbersAssumption DEF Response, TTL
  <2>2. TTLs(r) \union {r.soa} \in SUBSET Nat
    BY <1>2, <2>1
  <2>3. /\ Min(TTLs(r) \union {r.soa}) \in Nat
        /\ \A ttl \in TTLs(r) : Min(TTLs(r) \union {r.soa}) <= ttl
        /\ Min(TTLs(r) \union {r.soa}) <= r.soa
    BY <2>2, MinIs
  <2>3a. Min(TTLs(r) \union {r.soa}) < Wrap
    BY <1>3, <2>1, <2>3
  <2>4. ResponseTTL(r) = Lesser(Min(TTLs(r) \union {r.soa}), MaxNegativeTTL)
    BY <1>6 DEF ResponseTTL
  <2> QED BY <1>2, <1>3, <1>6, <2>3, <2>3a, <2>4 DEF Lesser
<1> QED BY <1>4, <1>5, <1>6

-----------------------------------------------------------------------------
(* The cache. *)

Cache == [Key -> Entry \union {NoEntry}]

\* A sweep takes the dead and nothing else.
LEMMA SweptIs ==
    ASSUME NEW es \in Cache, NEW now
    PROVE  /\ Swept(es, now) \in Cache
           /\ Held(Swept(es, now)) = {k \in Held(es) : ~Dead(es[k], now)}
           /\ \A k \in Held(Swept(es, now)) : Swept(es, now)[k] = es[k]
BY DEF Swept, Held, Cache

\* Room is made in a full cache, and a live entry goes only when none is dead, if
\* none expires before it.
LEMMA EvictedIs ==
    ASSUME NEW es \in Cache, IsFiniteSet(Held(es)), Cardinality(Held(es)) = MaxEntries, NEW now,
           NEW fs \in Evicted(es, now)
    PROVE  /\ fs \in Cache /\ Held(fs) \subseteq Held(es) /\ Held(fs) # Held(es)
           /\ \A k \in Held(fs) : fs[k] = es[k]
           /\ \A k \in Held(es) : ~Dead(es[k], now) /\ k \notin Held(fs) =>
                \A j \in Held(es) : ~Dead(es[j], now) /\ es[k].expires <= es[j].expires
<1> DEFINE ws == Swept(es, now)
           first == {k \in Held(ws) : \A j \in Held(ws) : ws[k].expires <= ws[j].expires}
<1>1. /\ ws \in Cache
      /\ Held(ws) = {k \in Held(es) : ~Dead(es[k], now)}
      /\ \A k \in Held(ws) : ws[k] = es[k]
  BY SweptIs
<1>2. fs \in IF Cardinality(Held(ws)) < MaxEntries THEN {ws}
              ELSE {[ws EXCEPT ![k] = NoEntry] : k \in first}
  BY DEF Evicted
<1>3. MaxEntries \in Nat
  BY NumbersAssumption
<1>4. CASE Cardinality(Held(ws)) < MaxEntries
  <2>1. fs = ws
    BY <1>2, <1>4
  <2>2. Held(ws) # Held(es)
    BY <1>3, <1>4
  <2> HIDE DEF ws
  <2> QED BY <1>1, <2>1, <2>2
<1>5. CASE ~(Cardinality(Held(ws)) < MaxEntries)
  <2>1. PICK k0 \in first : fs = [ws EXCEPT ![k0] = NoEntry]
    BY <1>2, <1>5
  <2>2. Held(ws) = Held(es)
    <3>1. Held(ws) \in SUBSET Held(es)
      BY <1>1
    <3> HIDE DEF ws
    <3>2. IsFiniteSet(Held(ws)) /\ Cardinality(Held(ws)) <= Cardinality(Held(es))
      BY <3>1, FS_Subset
    <3>3. Cardinality(Held(ws)) = Cardinality(Held(es))
      BY <1>3, <1>5, <3>2, FS_CardinalityType
    <3> QED BY <3>1, <3>3, FS_Subset
  <2>3. k0 \in Held(ws) /\ \A j \in Held(ws) : ws[k0].expires <= ws[j].expires
    BY <2>1
  <2> HIDE DEF ws, first
  <2>4. /\ fs \in Cache /\ Held(fs) = Held(ws) \ {k0}
        /\ \A k \in Held(fs) : fs[k] = ws[k]
    BY <1>1, <2>1 DEF Held, Cache
  <2> QED BY <1>1, <2>2, <2>3, <2>4
<1> QED BY <1>4, <1>5

-----------------------------------------------------------------------------
(* The forwarder.  Between the variables: how many entries there are can   *)
(* be counted, each expires when its answer says, and what a slot is asked *)
(* is kept as long as it owes a reply, and until that is written.          *)

Holdable(e) == ResponseTTL(e.resp) > 0 /\ e.expires = e.stored + ResponseTTL(e.resp)

CacheInv ==
    /\ entries \in Cache
    /\ IsFiniteSet(Held(entries)) /\ Cardinality(Held(entries)) <= MaxEntries
    /\ \A k \in Key : entries[k] # NoEntry => Holdable(entries[k])

Owed(x) ==
    x.query.whole => x.at \in {"lookup", "exchange", "store"} \/ (x.at = "reply" /\ x.reply # Silent)

Owing == \A s \in Slot : Owed(slot[s])

ForwarderInv == ForwarderTypeOK /\ CacheInv /\ Owing /\ CachedIsCurrent

\* What is stored, and what goes for it.
LEMMA StoreIs ==
    ASSUME ForwarderTypeOK, CacheInv, NEW s \in Slot, NEW r \in Answers, Store(s, r)
    PROVE  /\ CacheInv'
           /\ \A k \in Held(entries) : ~Dead(entries[k], slot[s].now) /\ entries'[k] = NoEntry =>
                /\ Cardinality(Held(entries)) = MaxEntries
                /\ \A j \in Held(entries) :
                      ~Dead(entries[j], slot[s].now) /\ entries[k].expires <= entries[j].expires
<1> DEFINE key  == slot[s].query.key
           now  == slot[s].now
           room == IF Cardinality(Held(entries)) < MaxEntries THEN {entries}
                   ELSE Evicted(entries, now)
           e    == [resp |-> r, stored |-> now, expires |-> now + ResponseTTL(r)]
<1>1. CASE UNCHANGED entries
  BY <1>1 DEF CacheInv, Held
<1>2. CASE /\ key # NoKey /\ ResponseTTL(r) > 0
           /\ \E es \in room : entries' = [es EXCEPT ![key] = e]
  <2>1. key \in Key /\ now \in Nat /\ now \in Time
    BY <1>2, NumbersAssumption DEF ForwarderTypeOK, Query, Time
  <2>2. e \in Entry /\ Holdable(e)
    BY <1>2, <2>1, HoldTime DEF Entry, Holdable
  <2>3. e # NoEntry
    BY <2>2, NoEntryAssumption
  <2>4. PICK es \in room : entries' = [es EXCEPT ![key] = e]
    BY <1>2
  <2>5. MaxEntries \in Nat /\ Cardinality(Held(entries)) \in Nat
    BY NumbersAssumption, FS_CardinalityType DEF CacheInv
  <2>6. /\ es \in Cache /\ IsFiniteSet(Held(es)) /\ Cardinality(Held(es)) < MaxEntries
        /\ \A k \in Held(es) : es[k] = entries[k] /\ k \in Held(entries)
        /\ \A k \in Held(entries) : ~Dead(entries[k], now) /\ k \notin Held(es) =>
             /\ Cardinality(Held(entries)) = MaxEntries
             /\ \A j \in Held(entries) :
                   ~Dead(entries[j], now) /\ entries[k].expires <= entries[j].expires
    <3>1. CASE Cardinality(Held(entries)) < MaxEntries
      <4>1. es = entries
        BY <2>4, <3>1
      <4> QED BY <3>1, <4>1 DEF CacheInv
    <3>2. CASE ~(Cardinality(Held(entries)) < MaxEntries)
      <4>1. Cardinality(Held(entries)) = MaxEntries
        BY <2>5, <3>2 DEF CacheInv
      <4>2. es \in Evicted(entries, now)
        BY <2>4, <3>2
      <4> HIDE DEF now
      <4>3. /\ es \in Cache /\ Held(es) \in SUBSET Held(entries) /\ Held(es) # Held(entries)
            /\ \A k \in Held(es) : es[k] = entries[k]
            /\ \A k \in Held(entries) : ~Dead(entries[k], now) /\ k \notin Held(es) =>
                 \A j \in Held(entries) : ~Dead(entries[j], now) /\ entries[k].expires <= entries[j].expires
        BY <4>1, <4>2, EvictedIs DEF CacheInv
      <4>4. /\ IsFiniteSet(Held(es)) /\ Cardinality(Held(es)) <= Cardinality(Held(entries))
            /\ Cardinality(Held(es)) # Cardinality(Held(entries))
        BY <4>3, FS_Subset DEF CacheInv
      <4>5. Cardinality(Held(es)) < MaxEntries
        BY <2>5, <4>1, <4>4, FS_CardinalityType
      <4> QED BY <4>1, <4>3, <4>4, <4>5
    <3> QED BY <3>1, <3>2
  <2> HIDE DEF e, now, room, key
  <2>7. /\ entries' \in Cache /\ Held(entries') = Held(es) \union {key}
        /\ \A k \in Key : entries'[k] = IF k = key THEN e ELSE es[k]
    BY <2>1, <2>2, <2>3, <2>4, <2>6 DEF Held, Cache
  <2>8. IsFiniteSet(Held(es) \union {key}) /\ Cardinality(Held(es) \union {key}) <= MaxEntries
    <3>1. Cardinality(Held(es)) \in Nat
      BY <2>6, FS_CardinalityType
    <3>2. /\ IsFiniteSet(Held(es) \union {key})
          /\ Cardinality(Held(es) \union {key}) =
               IF key \in Held(es) THEN Cardinality(Held(es)) ELSE Cardinality(Held(es)) + 1
      BY <2>6, FS_AddElement
    <3> QED BY <2>5, <2>6, <3>1, <3>2
  <2>9. \A k \in Key : entries'[k] # NoEntry => Holdable(entries'[k])
    BY <2>2, <2>6, <2>7 DEF CacheInv, Held
  <2>10. CacheInv'
    BY <2>7, <2>8, <2>9 DEF CacheInv
  <2>11. \A k \in Held(entries) : entries'[k] = NoEntry => k \notin Held(es)
    BY <2>3, <2>7 DEF Held
  <2> QED BY <2>6, <2>10, <2>11 DEF now
<1>3. \/ UNCHANGED entries
      \/ /\ key # NoKey /\ ResponseTTL(r) > 0
         /\ \E es \in room : entries' = [es EXCEPT ![key] = e]
  BY DEF Store
<1> QED BY <1>1, <1>2, <1>3

\* What one step of a slot does to it.
LEMMA SlotStep ==
    ASSUME ForwarderInv, NEW s \in Slot, NEW new, slot' = [slot EXCEPT ![s] = new],
           new \in [at: Places, query: Query, now: Time, reply: Replies],
           Owed(new), IsCurrent(new.reply)
    PROVE  /\ slot' \in [Slot -> [at: Places, query: Query, now: Time, reply: Replies]]
           /\ Owing' /\ CachedIsCurrent'
<1>1. slot \in [Slot -> [at: Places, query: Query, now: Time, reply: Replies]]
  BY DEF ForwarderInv, ForwarderTypeOK
<1>2. \A x \in Slot : slot'[x] = IF x = s THEN new ELSE slot[x]
  BY <1>1
<1>3. slot' \in [Slot -> [at: Places, query: Query, now: Time, reply: Replies]]
  BY <1>1
<1>4. Owing'
  BY <1>2 DEF ForwarderInv, Owing
<1>5. CachedIsCurrent'
  BY <1>2 DEF ForwarderInv, CachedIsCurrent
<1> QED BY <1>3, <1>4, <1>5

LEMMA FreeIs ==
    /\ Free \in [at: Places, query: Query, now: Time, reply: Replies]
    /\ Free.query.whole = FALSE /\ Free.reply = Silent /\ Silent.from = "none"
    /\ Silent \in Replies /\ NoQuery \in Query /\ NoQuery.whole = FALSE
    /\ Free.query = NoQuery /\ 0 \in Time /\ Free.now = 0
BY NumbersAssumption DEF Free, Places, NoQuery, Query, Time, Replies, Silent

LEMMA SilentIsCurrent == IsCurrent(Silent)
BY FreeIs DEF IsCurrent

\* A whole query is done with only when its reply is written, or its socket is gone.
Replied(s) == slot[s].query.whole /\ slot'[s].query # slot[s].query => Deliver(s) \/ LosesReply(s)

\* What a slot is told, next to what it was asked.
LEMMA TellsStep ==
    ASSUME ForwarderInv, NEW s \in Slot, NEW reply \in Replies, Tells(s, reply),
           IsCurrent(reply), slot[s].query.whole => reply # Silent
    PROVE  /\ slot' \in [Slot -> [at: Places, query: Query, now: Time, reply: Replies]]
           /\ Owing' /\ CachedIsCurrent'
           /\ \A t \in Slot : Replied(t)
<1> DEFINE new == [slot[s] EXCEPT !.at = "reply", !.now = 0, !.reply = reply]
<1>1. /\ slot \in [Slot -> [at: Places, query: Query, now: Time, reply: Replies]]
      /\ slot[s] \in [at: Places, query: Query, now: Time, reply: Replies]
  BY DEF ForwarderInv, ForwarderTypeOK
<1>2. slot' = [slot EXCEPT ![s] = new]
  BY <1>1 DEF Tells
<1>3. /\ new \in [at: Places, query: Query, now: Time, reply: Replies]
      /\ new.at = "reply" /\ new.query = slot[s].query /\ new.reply = reply
  BY <1>1, FreeIs DEF Places
<1> HIDE DEF new
<1>4. Owed(new)
  BY <1>3 DEF Owed
<1>5. \A t \in Slot : Replied(t)
  BY <1>1, <1>2, <1>3 DEF Replied
<1> QED BY <1>2, <1>3, <1>4, <1>5, SlotStep

\* What `get` tells of an entry not older than it may be.
LEMMA ToldIs ==
    ASSUME NEW ttls \in SUBSET TTL, NEW now \in Nat, NEW stored \in Nat, now - stored < Wrap,
           NEW p \in Told(ttls, now, stored)
    PROVE  /\ p \in Nat \X Nat
           /\ p[1] \in ttls
           /\ p[1] > 0 => p[2] <= p[1]
           /\ p[2] = 1 \/ (p[2] <= p[1] /\ (now - stored >= 0 => p[2] + (now - stored) = p[1]))
<1>1. Wrap \in Nat \ {0}
  BY NumbersAssumption
<1>2. PICK ttl \in ttls : p = <<ttl, Remaining(ttl, now, stored)>>
  BY DEF Told
<1>3. ttl \in 0..(Wrap - 1)
  BY DEF TTL
<1> DEFINE elapsed == (now - stored) % Wrap
<1>4. elapsed \in 0..(Wrap - 1) /\ (now - stored >= 0 => elapsed = now - stored)
  <2>1. now - stored \in Int /\ (now - stored >= 0 => now - stored \in 0..(Wrap - 1))
    BY <1>1
  <2> QED BY <1>1, <2>1, ModuloIs
<1>5. Remaining(ttl, now, stored) = IF ttl > elapsed THEN ttl - elapsed ELSE 1
  BY DEF Remaining
<1> HIDE DEF elapsed
<1>6. Remaining(ttl, now, stored) \in Nat
  BY <1>1, <1>3, <1>4, <1>5
<1>7. p[1] = ttl /\ p[2] = Remaining(ttl, now, stored)
  BY <1>2
<1>8. ttl > 0 => Remaining(ttl, now, stored) <= ttl
  BY <1>1, <1>3, <1>4, <1>5
<1>9. \/ Remaining(ttl, now, stored) = 1
      \/ /\ Remaining(ttl, now, stored) <= ttl
         /\ now - stored >= 0 => Remaining(ttl, now, stored) + (now - stored) = ttl
  BY <1>1, <1>3, <1>4, <1>5
<1> QED BY <1>1, <1>2, <1>3, <1>6, <1>7, <1>8, <1>9

\* The TTLs of an answer.
LEMMA AnswerTTLs ==
    ASSUME NEW r \in Answers
    PROVE  /\ TTLs(r) \in SUBSET TTL /\ r.others \in SUBSET TTL
           /\ TTL \subseteq Nat /\ r.rcode \in 0..15
BY AnswersAssumption, NumbersAssumption DEF Response, Record, TTL, TTLs

LEMMA HitStep ==
    ASSUME ForwarderInv, NEW s \in Slot, Hit(s)
    PROVE  ForwarderInv' /\ \A t \in Slot : Replied(t)
<1> DEFINE e     == entries[slot[s].query.key]
           now   == slot[s].now
           ttls  == Told(TTLs(e.resp), now, e.stored)
           rest  == Told(e.resp.others, now, e.stored)
           reply == [from |-> "cache", age |-> now - e.stored, rcode |-> e.resp.rcode,
                     ttls |-> ttls, rest |-> rest, why |-> "none"]
<1>1. /\ Tells(s, reply) /\ UNCHANGED <<clock, entries, legs, bound>>
      /\ slot[s].at = "lookup" /\ slot[s].query.key # NoKey /\ e # NoEntry /\ ~Dead(e, now)
  BY DEF Hit, Served, Usable
<1>2. slot[s].query.key \in Key /\ now \in Nat
  BY <1>1, NumbersAssumption DEF ForwarderInv, ForwarderTypeOK, Query, Time
<1>3. e \in Entry /\ Holdable(e)
  BY <1>1, <1>2 DEF ForwarderInv, CacheInv, Cache
<1>4. e.resp \in Answers /\ e.stored \in Nat /\ e.expires \in Nat
  BY <1>3, NumbersAssumption DEF Entry, Time
<1>5. /\ now <= e.stored + ResponseTTL(e.resp) /\ ResponseTTL(e.resp) > 0
      /\ ResponseTTL(e.resp) \in Nat
  <2>1. ResponseTTL(e.resp) \in Nat
    BY <1>4, HoldTime
  <2>2. ResponseTTL(e.resp) > 0 /\ e.expires = e.stored + ResponseTTL(e.resp)
    BY <1>3 DEF Holdable
  <2>3. ~(now > e.expires)
    BY <1>1 DEF Dead
  <2> HIDE DEF e, now
  <2> QED BY <1>2, <1>4, <2>1, <2>2, <2>3
<1>6. /\ e.resp.rcode \in {0, 3} /\ ResponseTTL(e.resp) <= MaxTTL
      /\ ResponseTTL(e.resp) < Wrap
      /\ \A ttl \in TTLs(e.resp) : ResponseTTL(e.resp) <= ttl
  <2> DEFINE r == e.resp
  <2>1. r \in Answers /\ ResponseTTL(r) > 0
    BY <1>4, <1>5
  <2> HIDE DEF r
  <2>2. /\ r.rcode \in {0, 3} /\ ResponseTTL(r) <= MaxTTL /\ ResponseTTL(r) < Wrap
        /\ \A ttl \in TTLs(r) : ResponseTTL(r) <= ttl
    BY ONLY <2>1, HoldTime
  <2> QED
    BY ONLY <2>2 DEF r
<1>7. /\ TTLs(e.resp) \in SUBSET TTL /\ e.resp.others \in SUBSET TTL
      /\ TTL \subseteq Nat /\ e.resp.rcode \in 0..15
  BY <1>4, AnswerTTLs
<1> HIDE DEF e, now
<1>8. now - e.stored < Wrap /\ now - e.stored \in Int
  BY <1>2, <1>4, <1>5, <1>6, NumbersAssumption
<1>9. ASSUME NEW p \in ttls \union rest
      PROVE  /\ p \in Nat \X Nat
             /\ p \in ttls => p[1] \in TTLs(e.resp) /\ (p[1] > 0 => p[2] <= p[1])
             /\ p[2] = 1 \/ (p[2] <= p[1] /\ (now - e.stored >= 0 => p[2] + (now - e.stored) = p[1]))
  <2>1. CASE p \in ttls
    BY <1>2, <1>4, <1>7, <1>8, <2>1, ToldIs
  <2>2. CASE p \in rest /\ p \notin ttls
    BY <1>2, <1>4, <1>7, <1>8, <2>2, ToldIs
  <2> QED BY <2>1, <2>2
<1>10. ASSUME NEW p \in ttls PROVE now - e.stored <= p[1] /\ p[2] <= p[1]
  <2>1. p[1] \in Nat /\ ResponseTTL(e.resp) <= p[1] /\ (p[1] > 0 => p[2] <= p[1])
    BY <1>6, <1>7, <1>9
  <2> QED BY <1>2, <1>4, <1>5, <2>1
<1> HIDE DEF ttls, rest
<1>11. ttls \in SUBSET (Nat \X Nat) /\ rest \in SUBSET (Nat \X Nat)
  BY <1>9
<1>12. reply \in Replies
  BY <1>7, <1>8, <1>11 DEF Replies
<1>13. /\ reply.from = "cache" /\ reply.age = now - e.stored /\ reply.rcode = e.resp.rcode
       /\ reply.ttls = ttls /\ reply.rest = rest
  OBVIOUS
<1>14. reply.age <= MaxTTL
  BY <1>2, <1>4, <1>5, <1>6, <1>13, NumbersAssumption
<1> HIDE DEF reply
<1>15. IsCurrent(reply)
  BY <1>6, <1>9, <1>10, <1>13, <1>14 DEF IsCurrent
<1>16. reply # Silent
  BY <1>13, FreeIs
<1>17. /\ slot' \in [Slot -> [at: Places, query: Query, now: Time, reply: Replies]]
       /\ Owing' /\ CachedIsCurrent' /\ \A t \in Slot : Replied(t)
  BY <1>1, <1>12, <1>15, <1>16, TellsStep
<1>18. ForwarderInv'
  BY <1>1, <1>17 DEF ForwarderInv, ForwarderTypeOK, CacheInv, Held
<1> QED BY <1>17, <1>18

LEMMA StoreStep ==
    ASSUME ForwarderInv, NEW s \in Slot, NEW r \in Answers, Store(s, r)
    PROVE  ForwarderInv' /\ \A t \in Slot : Replied(t)
<1>1. Tells(s, Forwarded(r)) /\ UNCHANGED <<clock, legs, bound>>
  BY DEF Store
<1>2. Whole(TTLs(r)) \in SUBSET (Nat \X Nat) /\ Whole(r.others) \in SUBSET (Nat \X Nat)
  BY AnswerTTLs DEF Whole
<1>3. Forwarded(r) \in Replies /\ Forwarded(r).from = "upstream"
  BY <1>2, AnswerTTLs DEF Forwarded, Replies
<1>4. IsCurrent(Forwarded(r)) /\ Forwarded(r) # Silent
  BY <1>3, FreeIs DEF IsCurrent
<1>5. /\ slot' \in [Slot -> [at: Places, query: Query, now: Time, reply: Replies]]
      /\ Owing' /\ CachedIsCurrent' /\ \A t \in Slot : Replied(t)
  BY <1>1, <1>3, <1>4, TellsStep
<1>6. CacheInv'
  BY StoreIs DEF ForwarderInv
<1>7. ForwarderInv'
  BY <1>1, <1>5, <1>6 DEF ForwarderInv, ForwarderTypeOK, CacheInv, Cache
<1> QED BY <1>5, <1>7

LEMMA FailStep ==
    ASSUME ForwarderInv, NEW s \in Slot, NEW causes \in SUBSET Causes, Fail(s, causes)
    PROVE  ForwarderInv' /\ \A t \in Slot : Replied(t)
<1> DEFINE reply == Servfail(slot[s].query, Classify(causes))
<1>1. Tells(s, reply) /\ UNCHANGED <<clock, entries, legs, bound>>
  BY DEF Fail
<1>2. Classify(causes) \in Kinds
  BY DEF Classify, Kinds, Causes
<1>3. slot[s].query \in Query
  BY DEF ForwarderInv, ForwarderTypeOK
<1>4. reply \in Replies /\ reply.from # "cache" /\ (slot[s].query.whole => reply # Silent)
  <2> DEFINE q   == slot[s].query
             why == IF q.edns THEN Classify(causes) ELSE "none"
  <2>1. why \in Kinds \union {"none"}
    BY <1>2
  <2>2. CASE q.whole
    <3>1. reply = [Silent EXCEPT !.from = "servfail", !.rcode = 2, !.why = why]
      BY <2>2 DEF Servfail
    <3> HIDE DEF why, reply
    <3>2. reply = [from |-> "servfail", age |-> 0, rcode |-> 2, ttls |-> {}, rest |-> {}, why |-> why]
      BY <3>1 DEF Silent
    <3>3. reply \in Replies
      BY <2>1, <3>2 DEF Replies
    <3> QED BY <3>2, <3>3, FreeIs
  <2>3. CASE ~q.whole
    <3>1. reply = Silent
      BY <2>3 DEF Servfail
    <3> QED BY <2>3, <3>1, FreeIs
  <2> QED BY <2>2, <2>3
<1> HIDE DEF reply
<1>5. /\ slot' \in [Slot -> [at: Places, query: Query, now: Time, reply: Replies]]
      /\ Owing' /\ CachedIsCurrent' /\ \A t \in Slot : Replied(t)
  BY <1>1, <1>4, TellsStep DEF IsCurrent
<1>6. ForwarderInv'
  BY <1>1, <1>5 DEF ForwarderInv, ForwarderTypeOK, CacheInv, Held
<1> QED BY <1>5, <1>6

LEMMA MissStep ==
    ASSUME ForwarderInv, NEW s \in Slot, Miss(s)
    PROVE  ForwarderInv' /\ \A t \in Slot : Replied(t)
<1> DEFINE new == [slot[s] EXCEPT !.at = "exchange", !.now = 0]
<1>1. slot' = [slot EXCEPT ![s] = new] /\ UNCHANGED <<clock, legs, bound>>
  BY DEF Miss, ForwarderInv, ForwarderTypeOK
<1>2. /\ new \in [at: Places, query: Query, now: Time, reply: Replies]
      /\ new.at = "exchange" /\ new.reply = slot[s].reply /\ new.query = slot[s].query
  BY FreeIs DEF Places, ForwarderInv, ForwarderTypeOK
<1> HIDE DEF new
<1>2a. Owed(new) /\ IsCurrent(new.reply)
  BY <1>2 DEF Owed, ForwarderInv, CachedIsCurrent
<1>3. /\ slot' \in [Slot -> [at: Places, query: Query, now: Time, reply: Replies]]
      /\ Owing' /\ CachedIsCurrent'
  BY <1>1, <1>2, <1>2a, SlotStep
<1>4. /\ entries' \in Cache /\ Held(entries') \in SUBSET Held(entries)
      /\ \A k \in Held(entries') : entries'[k] = entries[k]
  BY DEF Miss, Held, Cache, ForwarderInv, CacheInv
<1>5. IsFiniteSet(Held(entries')) /\ Cardinality(Held(entries')) <= MaxEntries
  <2>1. IsFiniteSet(Held(entries)) /\ Cardinality(Held(entries)) <= MaxEntries
    BY DEF ForwarderInv, CacheInv
  <2>2. IsFiniteSet(Held(entries')) /\ Cardinality(Held(entries')) <= Cardinality(Held(entries))
    BY <1>4, <2>1, FS_Subset
  <2> QED BY <2>1, <2>2, FS_CardinalityType, NumbersAssumption
<1>6. CacheInv'
  BY <1>4, <1>5 DEF ForwarderInv, CacheInv, Held
<1>7. ForwarderInv'
  BY <1>1, <1>3, <1>6 DEF ForwarderInv, ForwarderTypeOK, CacheInv, Cache
<1>8. \A t \in Slot : Replied(t)
  BY <1>1, <1>2 DEF Replied, ForwarderInv, ForwarderTypeOK
<1> QED BY <1>7, <1>8

\* The steps of a slot that neither ask the cache nor reply.
LEMMA QuietStep ==
    ASSUME ForwarderInv, NEW s \in Slot, NEW q,
           \/ q \in Asks[s] /\ (Receive(s, q) \/ ReadFramed(s, q))
           \/ Accept(s) \/ HangUp(s) \/ Answer(s) \/ Written(s) \/ NoReply(s)
    PROVE  ForwarderInv' /\ \A t \in Slot : Replied(t)
<1>1. (q \in Asks[s] => q \in Query) /\ clock \in Time
  BY AsksAssumption DEF ForwarderInv, ForwarderTypeOK
<1>2. slot[s] \in [at: Places, query: Query, now: Time, reply: Replies] /\ UNCHANGED <<clock, entries, legs, bound>>
  BY DEF ForwarderInv, ForwarderTypeOK, Receive, ReadFramed, Accept, HangUp, Answer,
         Written, Deliver, LosesReply, NoReply
<1>3. \E new \in [at: Places, query: Query, now: Time, reply: Replies] :
        /\ slot' = [slot EXCEPT ![s] = new]
        /\ Owed(new)
        /\ new.reply = Silent \/ new.reply = slot[s].reply
        /\ slot[s].query.whole => new.query = slot[s].query \/ Deliver(s) \/ LosesReply(s)
  <2>1. CASE q \in Asks[s] /\ Receive(s, q)
    <3> DEFINE new == [Free EXCEPT !.at = "lookup", !.query = q, !.now = clock]
    <3>1. /\ new \in [at: Places, query: Query, now: Time, reply: Replies]
          /\ new.at = "lookup" /\ new.reply = Silent
      BY <1>1, <2>1, FreeIs DEF Places
    <3>2. slot' = [slot EXCEPT ![s] = new] /\ ~slot[s].query.whole
      BY <2>1 DEF Receive, ForwarderInv, Owing, Owed
    <3> HIDE DEF new
    <3> QED BY <3>1, <3>2 DEF Owed
  <2>2. CASE q \in Asks[s] /\ ReadFramed(s, q)
    <3> DEFINE new == [slot[s] EXCEPT !.at = "lookup", !.query = q, !.now = clock]
    <3>1. /\ new \in [at: Places, query: Query, now: Time, reply: Replies]
          /\ new.at = "lookup" /\ new.reply = slot[s].reply
      BY <1>1, <1>2, <2>2 DEF Places
    <3>2. slot' = [slot EXCEPT ![s] = new] /\ ~slot[s].query.whole
      BY <2>2 DEF ReadFramed, ForwarderInv, ForwarderTypeOK, Owing, Owed
    <3> HIDE DEF new
    <3> QED BY <3>1, <3>2 DEF Owed
  <2>3. CASE Accept(s) \/ HangUp(s) \/ Written(s) \/ NoReply(s)
    <3>1. /\ [Free EXCEPT !.at = "idle"] \in [at: Places, query: Query, now: Time, reply: Replies]
          /\ [Free EXCEPT !.at = "idle"].reply = Silent
          /\ [Free EXCEPT !.at = "idle"].query.whole = FALSE
      BY FreeIs DEF Places
    <3>2. /\ \/ slot' = [slot EXCEPT ![s] = Free]
             \/ slot' = [slot EXCEPT ![s] = [Free EXCEPT !.at = "idle"]]
          /\ slot[s].query.whole => Deliver(s) \/ LosesReply(s)
      BY <2>3 DEF Accept, HangUp, Written, Deliver, LosesReply, NoReply, ForwarderInv, Owing, Owed
    <3> QED BY <3>1, <3>2, FreeIs DEF Owed
  <2>4. CASE Answer(s)
    <3> DEFINE new == [slot[s] EXCEPT !.at = "store", !.now = clock]
    <3>1. /\ new \in [at: Places, query: Query, now: Time, reply: Replies]
          /\ new.at = "store" /\ new.reply = slot[s].reply /\ new.query = slot[s].query
      BY <1>1, <1>2 DEF Places
    <3>2. slot' = [slot EXCEPT ![s] = new]
      BY <2>4 DEF Answer, ForwarderInv, ForwarderTypeOK
    <3> HIDE DEF new
    <3> QED BY <3>1, <3>2 DEF Owed
  <2> QED BY <2>1, <2>2, <2>3, <2>4
<1>4. PICK new \in [at: Places, query: Query, now: Time, reply: Replies] :
        /\ slot' = [slot EXCEPT ![s] = new]
        /\ Owed(new)
        /\ new.reply = Silent \/ new.reply = slot[s].reply
        /\ slot[s].query.whole => new.query = slot[s].query \/ Deliver(s) \/ LosesReply(s)
  BY <1>3
<1>5. /\ slot' \in [Slot -> [at: Places, query: Query, now: Time, reply: Replies]]
      /\ Owing' /\ CachedIsCurrent'
  <2>1. CASE new.reply = Silent
    BY <1>4, <2>1, SilentIsCurrent, SlotStep
  <2>2. CASE new.reply = slot[s].reply
    BY <1>4, <2>2, SlotStep DEF ForwarderInv, CachedIsCurrent
  <2> QED BY <1>4, <2>1, <2>2
<1>6. ForwarderInv'
  BY <1>2, <1>5 DEF ForwarderInv, ForwarderTypeOK, CacheInv, Held
<1>7. \A t \in Slot : Replied(t)
  BY <1>4 DEF Replied, ForwarderInv, ForwarderTypeOK
<1> QED BY <1>6, <1>7

LEMMA ForwarderStep == ForwarderInv /\ ForwarderNext => ForwarderInv' /\ \A t \in Slot : Replied(t)
<1> SUFFICES ASSUME ForwarderInv, ForwarderNext PROVE ForwarderInv' /\ \A t \in Slot : Replied(t)
  OBVIOUS
<1>1. ASSUME NEW s \in Slot, NEW q \in Asks[s], Receive(s, q) \/ ReadFramed(s, q)
      PROVE  ForwarderInv' /\ \A t \in Slot : Replied(t)
  BY <1>1, QuietStep
<1>2. ASSUME NEW s \in Slot, Accept(s) \/ HangUp(s) \/ Answer(s) \/ Written(s) \/ NoReply(s)
      PROVE  ForwarderInv' /\ \A t \in Slot : Replied(t)
  BY <1>2, QuietStep
<1>3. CASE \E s \in Slot : Hit(s) \/ Miss(s)
  BY <1>3, HitStep, MissStep
<1>4. CASE \E s \in Slot : \E r \in Answers : Store(s, r)
  BY <1>4, StoreStep
<1>5. CASE \E s \in Slot : \E causes \in SUBSET Causes : Fail(s, causes)
  BY <1>5, FailStep
<1>6. CASE (\E l \in legs : LegFails(l)) \/ Tick
  <2>1. /\ UNCHANGED <<entries, slot, bound>> /\ clock' \in Time /\ legs' \subseteq {"udp", "tcp"}
    <3>1. CASE \E l \in legs : LegFails(l)
      BY <3>1 DEF LegFails, ForwarderInv, ForwarderTypeOK
    <3>2. CASE Tick
      BY <3>2, NumbersAssumption DEF Tick, ForwarderInv, ForwarderTypeOK, Time
    <3> QED BY <1>6, <3>1, <3>2
  <2>2. ForwarderInv'
    BY <2>1 DEF ForwarderInv, ForwarderTypeOK, CacheInv, Held, Owing, CachedIsCurrent
  <2> QED BY <2>1, <2>2 DEF Replied
<1> QED BY <1>1, <1>2, <1>3, <1>4, <1>5, <1>6 DEF ForwarderNext, Handle, Exchanged

-----------------------------------------------------------------------------
(* The process. *)

ShimInv ==
    /\ ForwarderInv /\ RelayInv
    /\ proc \in {"off", "dns", "serving", "ended"} /\ cancelled \in BOOLEAN

LEMMA ForwarderStarts == ForwarderInit => ForwarderInv
<1> SUFFICES ASSUME ForwarderInit PROVE ForwarderInv
  OBVIOUS
<1>1. Held(entries) = {} /\ entries \in Cache
  BY DEF ForwarderInit, Held, Cache
<1>2. IsFiniteSet(Held(entries)) /\ Cardinality(Held(entries)) <= MaxEntries
  BY <1>1, FS_EmptySet, NumbersAssumption
<1>3. CacheInv
  BY <1>1, <1>2 DEF CacheInv, ForwarderInit
<1>4. ForwarderTypeOK
  BY <1>1, <1>2, FreeIs DEF ForwarderInit, ForwarderTypeOK, Cache
<1>5. Owing /\ CachedIsCurrent
  BY FreeIs, SilentIsCurrent DEF Owing, Owed, CachedIsCurrent, ForwarderInit
<1> QED BY <1>3, <1>4, <1>5 DEF ForwarderInv

LEMMA ShimStep == ShimInv /\ [Next]_vars => ShimInv' /\ (proc' = "off" \/ \A t \in Slot : Replied(t))
<1> SUFFICES ASSUME ShimInv, [Next]_vars
             PROVE  ShimInv' /\ (proc' = "off" \/ \A t \in Slot : Replied(t))
  OBVIOUS
<1>1. CASE UNCHANGED <<clock, entries, slot>> /\ legs' \subseteq {"udp", "tcp"}
           /\ bound' \in BOOLEAN /\ RelayInv'
           /\ proc' \in {"off", "dns", "serving", "ended"} /\ cancelled' \in BOOLEAN
  <2>1. ForwarderInv'
    BY <1>1 DEF ShimInv, ForwarderInv, ForwarderTypeOK, CacheInv, Held, Owing, CachedIsCurrent
  <2> QED BY <1>1, <2>1 DEF ShimInv, Replied
<1>2. CASE ForwarderNext /\ UNCHANGED <<relayVars, shimVars>>
  <2>1. RelayInv'
    BY <1>2 DEF ShimInv, RelayInv, RelayTypeOK, relayVars
  <2> QED BY <1>2, <2>1, ForwarderStep DEF ShimInv, shimVars
<1>3. CASE RelayNext /\ UNCHANGED <<forwarderVars, shimVars>>
  <2>1. RelayInv'
    BY <1>3, RelayStep DEF ShimInv
  <2>2. legs \subseteq {"udp", "tcp"} /\ bound \in BOOLEAN
    BY DEF ShimInv, ForwarderInv, ForwarderTypeOK
  <2> QED BY <1>1, <1>3, <2>1, <2>2 DEF ShimInv, forwarderVars, shimVars
<1>4. CASE Exit
  <2>1. ForwarderInit' /\ RelayInit'
    BY <1>4 DEF Exit, ForwarderInit, RelayInit
  <2>2. ForwarderInv' /\ RelayInv'
    BY <2>1, ForwarderStarts, RelayStarts, PTL
  <2> QED BY <1>4, <2>2 DEF Exit, ShimInv
<1>5. CASE Run \/ Cancel \/ AcceptFails \/ UNCHANGED vars
  <2>1. /\ UNCHANGED <<clock, entries, slot, conn>> /\ legs' \subseteq {"udp", "tcp"}
        /\ bound' \in BOOLEAN /\ accepting' \in BOOLEAN
    BY <1>5 DEF Run, StartDns, StartRelay, DnsTornDown, RelayTornDown, RunReturns, Cancel, AcceptFails,
                StartForwarder, CloseForwarder, Listen, StopListening, vars, forwarderVars, relayVars,
                ShimInv, ForwarderInv, ForwarderTypeOK, RelayInv, RelayTypeOK
  <2>2. proc' \in {"off", "dns", "serving", "ended"} /\ cancelled' \in BOOLEAN
    BY <1>5 DEF Run, StartDns, StartRelay, DnsTornDown, RelayTornDown, RunReturns, Cancel, AcceptFails,
                vars, shimVars, ShimInv
  <2>3. RelayInv'
    BY <2>1 DEF ShimInv, RelayInv, RelayTypeOK
  <2> QED BY <1>1, <2>1, <2>2, <2>3
<1> QED BY <1>2, <1>3, <1>4, <1>5 DEF Next

LEMMA ShimAlways == Spec => []ShimInv
<1>1. Init => ShimInv
  BY ForwarderStarts, RelayStarts DEF Init, ShimInv
<1> QED BY <1>1, ShimStep, PTL DEF Spec

\* The variables keep their types, and the cache its size.
THEOREM TypeCorrect == Spec => []TypeOK
<1>1. ShimInv => TypeOK
  BY DEF ShimInv, TypeOK, ForwarderInv, RelayInv
<1> QED BY <1>1, ShimAlways, PTL

\* Nothing is served from the cache past the time of its answer section, nor with more
\* than is left of a record of any section, or 1.
THEOREM Current == Spec => []CachedIsCurrent
<1>1. ShimInv => CachedIsCurrent
  BY DEF ShimInv, ForwarderInv
<1> QED BY <1>1, ShimAlways, PTL

\* A relay closes its sockets when a direction has passed on all its source sent, or a
\* peer was lost.
THEOREM ClosedForCause == Spec => []ClosesForCause
<1>1. ASSUME ShimInv, NEW c \in Conn, conn[c].at \in {"half", "shut"},
             \E l \in Leg : conn[c][l].why # "off"
      PROVE  \E l \in Leg :
                \/ conn[c][l].source = "reset"
                \/ conn[c][l].why = "eof" /\ conn[c][l].written = conn[c][l].sent
  <2>1. InOrder(conn[c].out) /\ InOrder(conn[c].back) /\ Cause(conn[c])
    BY <1>1 DEF ShimInv, RelayInv, Ending, Leg
  <2>2. /\ conn[c].out = conn[c]["out"] /\ conn[c].back = conn[c]["back"]
        /\ "out" \in Leg /\ "back" \in Leg
    BY DEF Leg
  <2> QED BY <2>1, <2>2 DEF Cause, Lost, InOrder
<1>2. ShimInv => ClosesForCause
  BY <1>1 DEF ClosesForCause
<1> QED BY <1>2, ShimAlways, PTL

\* Every whole query gets a reply, which is lost only with the socket it is written to,
\* unless the process ends first.
THEOREM QueriesReplied == Spec => EveryQueryReplied
<1>1. ShimInv /\ [Next]_vars =>
        [\A s \in Slot : slot[s].query.whole /\ slot'[s].query # slot[s].query
           => Deliver(s) \/ LosesReply(s) \/ proc' = "off"]_vars
  BY ShimStep DEF Replied
<1> QED BY <1>1, ShimAlways, PTL DEF Spec, EveryQueryReplied

\* Only what is put takes a slot from "store" to its reply.
LEMMA StoresReply ==
    ASSUME ShimInv, [Next]_vars, NEW s \in Slot, slot[s].at = "store", slot'[s].at = "reply"
    PROVE  \E r \in Answers : Store(s, r)
<1>1. slot \in [Slot -> [at: Places, query: Query, now: Time, reply: Replies]] /\ Free.at = "free"
  BY DEF ShimInv, ForwarderInv, ForwarderTypeOK, Free
<1>2. CASE UNCHANGED slot
  BY <1>2
<1>3. CASE Exit
  BY <1>1, <1>3 DEF Exit
<1>4. ASSUME NEW t \in Slot, NEW q, Receive(t, q) \/ ReadFramed(t, q) PROVE FALSE
  BY <1>1, <1>4 DEF Receive, ReadFramed
<1>5. ASSUME NEW t \in Slot, Accept(t) \/ HangUp(t) \/ Written(t) \/ NoReply(t) PROVE FALSE
  <2>1. slot[t].at # "store" /\ \A x \in Slot \ {t} : slot'[x] = slot[x]
    BY <1>1, <1>5 DEF Accept, HangUp, Written, Deliver, LosesReply, NoReply
  <2> QED BY <2>1
<1>6. ASSUME NEW t \in Slot, Hit(t) \/ Miss(t) \/ Answer(t) PROVE FALSE
  <2>1. slot[t].at # "store" /\ \A x \in Slot \ {t} : slot'[x] = slot[x]
    BY <1>1, <1>6 DEF Hit, Served, Tells, Miss, Answer
  <2> QED BY <2>1
<1>7. ASSUME NEW t \in Slot, NEW causes, Fail(t, causes) PROVE FALSE
  <2>1. slot[t].at # "store" /\ \A x \in Slot \ {t} : slot'[x] = slot[x]
    BY <1>1, <1>7 DEF Fail, Tells
  <2> QED BY <2>1
<1>8. ASSUME NEW t \in Slot, NEW r \in Answers, Store(t, r) PROVE Store(s, r)
  <2>1. \A x \in Slot \ {t} : slot'[x] = slot[x]
    BY <1>1, <1>8 DEF Store, Tells
  <2> QED BY <1>8, <2>1
<1>9. CASE ForwarderNext
  <2>1. CASE (\E l \in legs : LegFails(l)) \/ Tick
    BY <1>2, <2>1 DEF LegFails, Tick
  <2> QED BY <1>4, <1>5, <1>6, <1>7, <1>8, <1>9, <2>1 DEF ForwarderNext, Handle, Exchanged
<1>10. UNCHANGED slot \/ Exit \/ ForwarderNext
  BY DEF Next, Run, StartDns, StartRelay, DnsTornDown, RelayTornDown, RunReturns, Cancel, AcceptFails,
         StartForwarder, CloseForwarder, vars, forwarderVars
<1> QED BY <1>2, <1>3, <1>9, <1>10

\* An answer still good is thrown away only when the cache is full of such, and then
\* the one that expires first.
THEOREM LiveSpared == Spec => EvictionSparesLive
<1>1. ASSUME ShimInv, [Next]_vars, NEW s \in Slot, NEW k \in Key,
             slot[s].at = "store", slot'[s].at = "reply",
             entries[k] # NoEntry, ~Dead(entries[k], slot[s].now), entries'[k] = NoEntry
      PROVE  /\ Cardinality(Held(entries)) = MaxEntries
             /\ \A j \in Held(entries) :
                   ~Dead(entries[j], slot[s].now) /\ entries[k].expires <= entries[j].expires
  <2>1. PICK r \in Answers : Store(s, r)
    BY <1>1, StoresReply
  <2>2. k \in Held(entries)
    BY <1>1 DEF Held
  <2> QED BY <1>1, <2>1, <2>2, StoreIs DEF ShimInv, ForwarderInv
<1>2. ShimInv /\ [Next]_vars =>
        [\A s \in Slot, k \in Key :
           /\ slot[s].at = "store" /\ slot'[s].at = "reply"
           /\ entries[k] # NoEntry /\ ~Dead(entries[k], slot[s].now)
           /\ entries'[k] = NoEntry
           => /\ Cardinality(Held(entries)) = MaxEntries
              /\ \A j \in Held(entries) :
                    ~Dead(entries[j], slot[s].now) /\ entries[k].expires <= entries[j].expires
        ]_forwarderVars
  BY <1>1
<1> QED BY <1>2, ShimAlways, PTL DEF Spec, EvictionSparesLive

=============================================================================
