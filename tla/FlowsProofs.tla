----------------------------- MODULE FlowsProofs -----------------------------
(***************************************************************************)
(* What the two tables of an account promise, for any addresses, ports,    *)
(* users and configurations.                                               *)
(***************************************************************************)
EXTENDS Flows, RulesetProofs

-----------------------------------------------------------------------------
\* What reaches the filter chains of a packet.
LEMMA OutKeeps ==
    ASSUME TypeOK, NEW p \in Packet
    PROVE  Out(p) \in Packet /\ Out(p).uid = p.uid /\ Out(p).proto = p.proto
           /\ (p.uid # Anon => Out(p) = p)
BY RewriteKeeps DEF TypeOK, Loaded, Out

-----------------------------------------------------------------------------
(* Theorems.                                                                 *)

\* The variables keep their types: a loaded table is one anonctl generated, a
\* confirmed connection has an owner.
THEOREM TypeCorrect == Spec => []TypeOK
<1>1. Init => TypeOK
  BY DEF Init, TypeOK, Loaded
<1>2. TypeOK /\ [Next]_vars => TypeOK'
  <2> SUFFICES ASSUME TypeOK, [Next]_vars PROVE TypeOK'
    OBVIOUS
  <2>1. ASSUME NEW p \in Packet, Connect(p) PROVE TypeOK'
    <3>1. /\ Out(p).to \in Addr /\ Out(p).port \in Port
          /\ p.uid \in Uid /\ p.proto \in Proto
      BY <2>1, OutKeeps DEF Packet, Connect
    <3>2. [owner |-> p.uid, proto |-> p.proto, to |-> Out(p).to, port |-> Out(p).port,
           base |-> baseline, forced |-> forcing] \in Conn
      BY <3>1 DEF TypeOK, Conn
    <3> QED BY <2>1, <3>2 DEF Connect, TypeOK
  <2>2. ASSUME NEW k \in conns, Close(k) PROVE TypeOK'
    BY <2>2 DEF Close, TypeOK
  <2>3. ASSUME NEW c \in Configs, LoadBaseline(c) \/ LoadForcing(c) PROVE TypeOK'
    BY <2>3 DEF LoadBaseline, LoadForcing, TypeOK, Loaded
  <2>4. CASE DeleteForcing \/ DeleteBaseline \/ Reboot
    BY <2>4 DEF DeleteForcing, DeleteBaseline, Reboot, TypeOK, Loaded
  <2>5. CASE UNCHANGED vars
    BY <2>5 DEF vars, TypeOK
  <2> QED BY <2>1, <2>2, <2>3, <2>4, <2>5 DEF Next
<1> QED BY <1>1, <1>2, PTL DEF Spec

LEMMA TypedDenies == TypeOK => EitherTableDenies
<1> SUFFICES ASSUME TypeOK, NEW p \in Packet, p.uid = Anon, Passes(Out(p))
             PROVE  /\ baseline # NoConfig => OnBox(Out(p).to) \/ Out(p) \in ToExempt(baseline)
                    /\ forcing # NoConfig => Out(p) \in ToShim(forcing) \/ Out(p) \in ToExempt(forcing)
  BY DEF EitherTableDenies
<1>1. Out(p) \in Packet /\ Out(p).uid = Anon
  BY OutKeeps
<1> QED BY <1>1, BaselinePasses, ForcingPasses DEF Passes

\* Each table alone denies the account whatever it does not exempt.
THEOREM Denied == Spec => []EitherTableDenies
BY TypeCorrect, TypedDenies, PTL

\* The account never reaches its endpoint in an attributed packet.
THEOREM NoEndpoint == Spec => []EndpointClosed
<1>1. TypeOK => EndpointClosed
  <2> SUFFICES ASSUME TypeOK, forcing # NoConfig, NEW p \in Of(Anon), Passes(Out(p))
               PROVE  Out(p) \notin ToEndpoint(forcing)
    BY DEF EndpointClosed
  <2>1. Out(p) \in Packet /\ Out(p).uid = Anon
    BY OutKeeps DEF Of
  <2> QED BY <2>1, ForcingPasses DEF Passes
<1> QED BY <1>1, TypeCorrect, PTL

\* A connection that a loaded table judged stays on the box or goes where every
\* table that judged it exempted.
THEOREM Judged == Spec => []JudgedStaysIn
<1>1. Init => JudgedStaysIn
  BY DEF Init, JudgedStaysIn
<1>2. TypeOK /\ JudgedStaysIn /\ [Next]_vars => JudgedStaysIn'
  <2> SUFFICES ASSUME TypeOK, JudgedStaysIn, [Next]_vars PROVE JudgedStaysIn'
    OBVIOUS
  <2>1. ASSUME NEW p \in Packet, Connect(p) PROVE JudgedStaysIn'
    <3> DEFINE q   == Out(p)
               new == [owner |-> p.uid, proto |-> p.proto, to |-> q.to, port |-> q.port,
                       base |-> baseline, forced |-> forcing]
    <3>1. p.uid = Anon =>
            /\ baseline # NoConfig => OnBox(q.to) \/ q \in ToExempt(baseline)
            /\ forcing # NoConfig => q \in ToShim(forcing) \/ q \in ToExempt(forcing)
      BY <2>1, TypedDenies DEF EitherTableDenies, Connect
    <3> HIDE DEF q
    <3>2. new.owner = Anon =>
            /\ new.base # NoConfig => OnBox(new.to) \/ Exempt(new.base, new.to, new.port)
            /\ new.forced # NoConfig => OnBox(new.to) \/ Exempt(new.forced, new.to, new.port)
      BY <3>1, AddrAssumption DEF ToExempt, ToShim, Exempt, OnBox
    <3>3. conns' = conns \union {new}
      BY <2>1 DEF Connect, q
    <3> HIDE DEF new
    <3> QED BY <3>2, <3>3 DEF JudgedStaysIn
  <2>2. CASE conns' \subseteq conns
    BY <2>2 DEF JudgedStaysIn
  <2>3. (\E p \in Packet : Connect(p)) \/ conns' \subseteq conns
    BY DEF Next, Close, LoadBaseline, LoadForcing, DeleteForcing, DeleteBaseline, Reboot, vars
  <2> QED BY <2>1, <2>2, <2>3
<1> QED BY <1>1, <1>2, TypeCorrect, PTL DEF Spec

\* Everybody else's packets are left alone, except at the shim's ports.
THEOREM Others == Spec => []OthersUntouched
<1>1. TypeOK => OthersUntouched
  <2> SUFFICES ASSUME TypeOK, NEW p \in Packet, p.uid # Anon
               PROVE  /\ Out(p) = p
                      /\ ~Passes(p) => /\ forcing # NoConfig
                                       /\ p \in ToShim(forcing)
                                       /\ p.uid \notin {NoUid, Shim}
    BY DEF OthersUntouched
  <2> QED BY OutKeeps, OthersDropped DEF Passes
<1> QED BY <1>1, TypeCorrect, PTL

\* Nobody else reaches the account's shim, on whatever connection.
THEOREM Strangers == Spec => []StrangersKeptOut
<1>1. TypeOK => StrangersKeptOut
  <2> SUFFICES ASSUME TypeOK, forcing # NoConfig PROVE StrangersKeptOut
    BY DEF StrangersKeptOut
  <2>1. ASSUME NEW p \in Packet, p.uid \in Uid \ {Anon, Shim}, p \in ToShim(forcing)
        PROVE  ~Passes(p) /\ Out(p) = p
    <3>1. p.uid # NoUid  BY <2>1, UidAssumption
    <3> QED BY <2>1, <3>1, OthersDropped, OutKeeps DEF Passes
  <2>2. ToShim(forcing) \subseteq Packet
    BY DEF ToShim
  <2> QED BY <2>1, <2>2 DEF StrangersKeptOut
<1> QED BY <1>1, TypeCorrect, PTL

\* With either table loaded the account's DNS goes to its shim or nowhere.
THEOREM DnsForced == Spec => []NoClearDns
<1>1. TypeOK => NoClearDns
  <2> SUFFICES ASSUME TypeOK, NEW p \in Of(Anon) \cap ToDns, Passes(Out(p)),
                      baseline # NoConfig \/ forcing # NoConfig
               PROVE  forcing # NoConfig /\ Out(p) \in ToShim(forcing)
    BY DEF NoClearDns
  <2>1. p \in Packet /\ p.uid = Anon /\ p.port = Domain /\ p.proto \in {"tcp", "udp"}
    BY DEF Of, ToDns
  <2>2. Out(p) \in Packet /\ Out(p).uid = Anon
    BY <2>1, OutKeeps
  <2>3. CASE forcing = NoConfig
    <3>1. Out(p) = p  BY <2>3 DEF Out
    <3> QED BY <2>1, <2>3, <3>1, BaselinePasses DEF Passes
  <2>4. CASE forcing # NoConfig
    <3>1. forcing \in Configs
      BY <2>4 DEF TypeOK, Loaded
    <3>2. Out(p) \in ToExempt(forcing) \/ Out(p) \in ToShim(forcing)
      BY <2>2, <2>4, ForcingPasses DEF Passes
    <3>3. CASE ~p.new
      <4>1. Out(p) = p  BY <3>3 DEF Out
      <4> QED BY <2>1, <3>1, <3>2, <4>1, DnsNotExempt
    <3>4. CASE p.new
      <4> DEFINE q == Out(p)
      <4>1. q = [p EXCEPT !.to = IF p.to \in V6 THEN Local6 ELSE Local4, !.port = forcing.dns]
        BY <2>1, <2>4, <3>1, <3>4, DnsRedirected DEF Out
      <4>2. q.to \in {Local4, Local6} /\ q.port = forcing.dns
        BY <2>1, <4>1 DEF Packet
      <4>3. ConfigOK(forcing)
        BY <3>1, ConfigAssumption
      <4>4. <<q.to, q.port>> \notin forcing.exempt
        <5> SUFFICES ASSUME <<q.to, q.port>> \in forcing.exempt PROVE FALSE
          OBVIOUS
        <5>1. \/ OnBox(q.to) /\ q.port # forcing.dns
              \/ q.to \in Private
          BY <4>3 DEF ConfigOK
        <5>2. Local4 \notin Private /\ Local6 \notin Private
          BY AddrAssumption DEF V4
        <5> QED BY <4>2, <5>1, <5>2
      <4> HIDE DEF q
      <4> QED BY <2>4, <3>2, <4>4 DEF ToExempt, q
    <3> QED BY <3>3, <3>4
  <2> QED BY <2>3, <2>4
<1> QED BY <1>1, TypeCorrect, PTL

\* With both tables of one configuration every exempted destination but the endpoint
\* is open in each of them.
THEOREM HoleOpen == Spec => []ExemptReaches
<1>1. TypeOK => ExemptReaches
  <2> SUFFICES ASSUME TypeOK, forcing # NoConfig, baseline = forcing,
                      NEW p \in Of(Anon) \cap ToExempt(forcing), p \notin ToEndpoint(forcing)
               PROVE  Out(p) = p /\ Passes(p)
    BY DEF ExemptReaches
  <2>1. forcing \in Configs
    BY DEF TypeOK, Loaded
  <2>2. p \in Packet /\ p.uid = Anon
    BY DEF Of
  <2>3. /\ Rewrite(forcing, p) = p
        /\ ~ForcingDrops(forcing, p) /\ ~BaselineDrops(forcing, p)
    BY <2>1, <2>2, ExemptPasses
  <2> QED BY <2>3 DEF Out, Passes
<1> QED BY <1>1, TypeCorrect, PTL

-----------------------------------------------------------------------------
(* Where the account's traffic goes. *)

\* With both tables of one configuration the account's TCP reaches its relay and its
\* DNS the DNS port, and no later packet of either is dropped, unless the account's
\* endpoint is its own shim.
THEOREM ShimReached ==
    ASSUME EndpointElsewhere
    PROVE  Spec => []ForcedReachesShim
<1>1. TypeOK => ForcedReachesShim
  <2> SUFFICES ASSUME TypeOK, forcing # NoConfig, baseline = forcing,
                      NEW p \in Of(Anon), p.to \in V4, p.proto \in {"tcp", "udp"},
                      p \in Tcp \union ToDns, p.new,
                      p \notin ToExempt(forcing) \union ToShim(forcing),
                      NEW q, q = [p EXCEPT !.to = Local4, !.port = IF p.port = Domain
                                                THEN forcing.dns ELSE forcing.relay]
               PROVE  /\ Out(p) = q /\ Passes(q)
                      /\ \A u \in {Anon, NoUid} : Passes([q EXCEPT !.uid = u, !.new = FALSE])
    BY DEF ForcedReachesShim
  <2>1. forcing \in Configs /\ p \in Packet /\ p.uid = Anon
    BY DEF TypeOK, Loaded, Of
  <2>2. Out(p) = q /\ q \in Packet
    BY <2>1, Redirected, OutKeeps DEF Out
  <2>3. /\ q.to = Local4 /\ q.proto = p.proto /\ q.uid = Anon
        /\ q.port = IF p.port = Domain THEN forcing.dns ELSE forcing.relay
    BY <2>1 DEF Packet
  <2>4. q \in ToShim(forcing)
    BY <2>2, <2>3 DEF ToShim, ToDns, Tcp
  <2>5. ASSUME NEW r \in Packet, r.to = q.to, r.proto = q.proto, r.port = q.port,
               r.uid \in {Anon, NoUid}
        PROVE  Passes(r)
    <3>1. r \in ToShim(forcing)
      BY <2>4, <2>5 DEF ToShim
    <3> QED BY <2>1, <2>5, <3>1, ShimPasses DEF Passes
  <2>6. ASSUME NEW u \in {Anon, NoUid}
        PROVE  Passes([q EXCEPT !.uid = u, !.new = FALSE])
    <3> DEFINE r == [q EXCEPT !.uid = u, !.new = FALSE]
    <3>1. /\ r \in Packet /\ r.uid = u
          /\ r.to = q.to /\ r.proto = q.proto /\ r.port = q.port
      BY <2>2, UidAssumption DEF Packet
    <3> HIDE DEF r
    <3>2. Passes(r)
      BY <2>5, <3>1
    <3> QED BY <3>2 DEF r
  <2> QED BY <2>2, <2>3, <2>5, <2>6
<1> QED BY <1>1, TypeCorrect, PTL

=============================================================================
