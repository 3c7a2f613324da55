---------------------------- MODULE VerifyProofs ----------------------------
(***************************************************************************)
(* What a green report means, for any tables, hosts, users and bounds: it  *)
(* is true of the host it was made on, if that did not change meanwhile,   *)
(* and the marker and the session that rest on it are.                     *)
(***************************************************************************)
EXTENDS Verify, RulesetProofs, FiniteSetTheorems

-----------------------------------------------------------------------------
(* Types. *)


\* The variables keep their types; past the identity check the run has an account.
THEOREM TypeCorrect == Spec => []TypeOK
<1>1. Init => TypeOK
  <2> SUFFICES ASSUME Init PROVE TypeOK
    OBVIOUS
  <2>1. passwd = [anon |-> Anon, shim |-> Shim] /\ passwd \in [anon: Uid, shim: Uid]
    BY UidAssumption DEF Init
  <2>2. PICK c \in Configs :
          /\ baseline = c /\ forcing = c /\ shim = c
          /\ ledger = [anon |-> Anon, shim |-> Shim, config |-> c]
    BY DEF Init
  <2>3. ledger \in Record
    BY <2>2, UidAssumption DEF Record
  <2>4. passwd \in Pair
    BY <2>1 DEF Pair
  <2>5. /\ baseline \in Loaded /\ forcing \in Loaded /\ closed \in BOOLEAN
        /\ shim \in Loaded /\ host \in Hosts
    BY <2>2 DEF Init, Loaded
  <2>6. /\ phase = "idle" /\ verb \in {"verify", "use"} /\ skip \in BOOLEAN
        /\ st = passwd /\ params = Default
        /\ {ok, changed, faulty} \subseteq BOOLEAN
    BY DEF Init
  <2>7. /\ at \in 0..2 /\ ev \in [emitted: BOOLEAN, nssShim: BOOLEAN, owed: BOOLEAN]
        /\ pending \subseteq Checks
    BY DEF Init
  <2>8. /\ marker = NoMarker /\ session = NoSession /\ stale \in [Claim -> BOOLEAN]
    BY DEF Init
  <2>9. changes \in 0..MaxChanges
    BY ValueAssumption DEF Init
  <2> QED BY <2>3, <2>4, <2>5, <2>6, <2>7, <2>8, <2>9 DEF TypeOK
<1>2. TypeOK /\ [Next]_vars => TypeOK'
  <2> SUFFICES ASSUME TypeOK, [Next]_vars PROVE TypeOK'
    OBVIOUS
  <2>1. ASSUME NEW v \in {"verify", "use"}, NEW s \in BOOLEAN, Start(v, s) PROVE TypeOK'
    <3>1. {ok', changed', faulty'} \subseteq BOOLEAN
      BY <2>1 DEF Start
    <3>2. st' \in Pair /\ phase' = "params" /\ verb' \in {"verify", "use"} /\ skip' \in BOOLEAN
      BY <2>1 DEF Start, TypeOK
    <3> QED
      BY <2>1, <3>1, <3>2 DEF Start, TypeOK, hostVars, claimVars
  <2>2. CASE ReadParams
    BY <2>2 DEF ReadParams, TypeOK, hostVars, claimVars, Record
  <2>3. CASE Identify
    BY <2>3 DEF Identify, IdentityOk, TypeOK, hostVars, claimVars, Pair
  <2>4. ASSUME NEW fault \in BOOLEAN, NEW late \in BOOLEAN, Control(fault, late) PROVE TypeOK'
    BY <2>4 DEF Control, DnsDone, Applicable, TypeOK, hostVars, claimVars
  <2>5. ASSUME NEW owed \in BOOLEAN, Lookup(owed) PROVE TypeOK'
    <3>1. host.inProcess \in BOOLEAN /\ host.busy \in BOOLEAN
      BY ValueAssumption DEF TypeOK, Host
    <3>2. ev' \in [emitted: BOOLEAN, nssShim: BOOLEAN, owed: BOOLEAN]
      BY <2>5, <3>1 DEF Lookup
    <3> QED BY <2>5, <3>2 DEF Lookup, TypeOK, hostVars, claimVars
  <2>6. ASSUME NEW reply, Attempt(reply) PROVE TypeOK'
    <3>1. (ok /\ DNSHolds(reply)) \in BOOLEAN
      BY DEF DNSHolds
    <3>2. CASE RetryWarranted(reply)
      BY <2>6, <3>2 DEF Attempt, TypeOK, hostVars, claimVars
    <3>3. CASE ~RetryWarranted(reply)
      <4>1. /\ ok' \in BOOLEAN /\ phase' = "checks" /\ pending' \subseteq Checks
            /\ UNCHANGED <<at, ev>>
        BY <2>6, <3>1, <3>3 DEF Attempt, DnsDone, Applicable
      <4>2. faulty' \in BOOLEAN /\ phase = "probe"
        BY <2>6 DEF Attempt, TypeOK
      <4> QED BY <2>6, <4>1, <4>2 DEF Attempt, TypeOK, hostVars, claimVars
    <3> QED BY <3>2, <3>3
  <2>7. ASSUME NEW B \in Batches, NEW fault \in BOOLEAN, RunChecks(B, fault) PROVE TypeOK'
    BY <2>7 DEF RunChecks, TypeOK, hostVars, claimVars
  <2>8. ASSUME NEW written \in BOOLEAN, Report(written) PROVE TypeOK'
    BY <2>8 DEF Report, TypeOK, hostVars, Claim
  <2>9. CASE Enter
    BY <2>9 DEF Enter, TypeOK, hostVars, Claim, Pair
  <2>10. CASE Leave
    BY <2>10 DEF Leave, TypeOK, hostVars
  <2>11. CASE Change
    <3>1. hostVars' \in Pair \X Loaded \X Loaded \X BOOLEAN \X (Record \union {NoRecord, Unreadable})
                         \X Loaded \X Hosts
      <4>1. CASE Tables /\ UNCHANGED <<passwd, ledger, shim, host>>
        BY <4>1 DEF Tables, TypeOK, hostVars
      <4>2. CASE /\ NoUid \notin {passwd.anon, passwd.shim}
                 /\ Records /\ UNCHANGED <<passwd, baseline, forcing, closed, shim, host>>
        BY <4>2 DEF Records, TypeOK, hostVars, Pair, Record
      <4>3. CASE Accounts /\ UNCHANGED <<baseline, forcing, closed, ledger, shim, host>>
        BY <4>3 DEF Accounts, TypeOK, hostVars, Pair
      <4>4. CASE shim' \in Loaded /\ UNCHANGED <<passwd, baseline, forcing, closed, ledger, host>>
        BY <4>4 DEF TypeOK, hostVars
      <4>5. CASE host' \in Hosts /\ UNCHANGED <<passwd, baseline, forcing, closed, ledger, shim>>
        BY <4>5 DEF TypeOK, hostVars
      <4> QED BY <2>11, <4>1, <4>2, <4>3, <4>4, <4>5 DEF Change
    <3>2. changes' \in 0..MaxChanges
      BY <2>11, ValueAssumption DEF Change, TypeOK
    <3> QED BY <2>11, <3>1, <3>2 DEF Change, TypeOK, hostVars, Claim
  <2>12. CASE Unmark
    BY <2>12 DEF Unmark, TypeOK, hostVars
  <2>13. CASE Reboot
    BY <2>13, ValueAssumption DEF Reboot, TypeOK, Loaded, Claim
  <2>14. CASE UNCHANGED vars
    BY <2>14 DEF vars, TypeOK, hostVars, claimVars
  <2> QED BY <2>1, <2>2, <2>3, <2>4, <2>5, <2>6, <2>7, <2>8, <2>9, <2>10, <2>11, <2>12, <2>13, <2>14
          DEF Next, Step
<1> QED BY <1>1, <1>2, PTL DEF Spec

-----------------------------------------------------------------------------
(* Confinement. *)

\* What the forcing table of a configuration lets out of the account.
LEMMA AnonConfined ==
    ASSUME NEW b \in Loaded, NEW f \in Configs, NEW withC \in BOOLEAN
    PROVE  Anon \in Confines[b][f][withC]
<1>1. ASSUME NEW p \in FirstPackets(Anon), PassesTables(b, f, withC, Rewrite(f, p))
      PROVE  Rewrite(f, p) \in ToShim(f) \/ Rewrite(f, p) \in ToExempt(f)
  <2>1. p \in Packet /\ p.uid = Anon
    BY UidAssumption DEF FirstPackets, Packet
  <2>2. Rewrite(f, p) \in Packet /\ Rewrite(f, p).uid = Anon
    BY <2>1, RewriteKeeps
  <2>3. ~ForcingDrops(f, Rewrite(f, p))
    BY <1>1, <2>2, ValueAssumption DEF PassesTables
  <2> QED BY <2>2, <2>3, ForcingPasses
<1>2. Anon \in Uid
  BY UidAssumption
<1>3. Confines[b][f][withC] = ConfinedBy(b, f, withC)
  BY DEF Confines
<1>4. Anon \in ConfinedBy(b, f, withC)
  BY <1>1, <1>2 DEF ConfinedBy
<1> QED BY <1>3, <1>4

\* An account probe calls jailed is confined by the tables of that moment, however old
\* the marker is.
THEOREM JailedHolds == Spec => []JailedIsConfined
<1>1. TypeOK => JailedIsConfined
  <2> SUFFICES ASSUME TypeOK, Jailed PROVE Confined(passwd.anon)
    BY DEF JailedIsConfined
  <2>1. passwd.anon = Anon /\ forcing # NoConfig
    BY DEF Jailed, RulesLoaded
  <2>2. baseline \in Loaded /\ forcing \in Configs /\ closed \in BOOLEAN
    BY <2>1 DEF TypeOK, Loaded
  <2> QED BY <2>1, <2>2, AnonConfined DEF Confined
<1> QED BY <1>1, TypeCorrect, PTL

-----------------------------------------------------------------------------
(* The run ends. *)

LEMMA FourFinite ==
    ASSUME NEW a, NEW b, NEW c, NEW d
    PROVE  IsFiniteSet({a, b, c, d})
<1>1. IsFiniteSet({a}) /\ IsFiniteSet({b}) /\ IsFiniteSet({c}) /\ IsFiniteSet({d})
  BY FS_Singleton
<1>2. IsFiniteSet({a} \union {b}) /\ IsFiniteSet({c} \union {d})
  BY <1>1, FS_Union
<1>3. IsFiniteSet(({a} \union {b}) \union ({c} \union {d}))
  BY <1>2, FS_Union
<1>4. {a, b, c, d} = ({a} \union {b}) \union ({c} \union {d})
  OBVIOUS
<1> QED BY <1>3, <1>4

LEMMA ChecksFinite == IsFiniteSet(Checks)
<1> DEFINE A == {"anonymized-exit", "unit-binaries-present", "leak-drop-v4", "leak-drop-v6"}
           B == {"bypass-loopback-closure", "bypass-endpoint-closure", "shim-ports-closure", "icmp-drop"}
           C == {"non-tcp-udp-drop", "no-uid-transition-egress", "split-tunnel-tight",
                 "lan-exemption-not-a-dns-hole"}
<1>1. IsFiniteSet(A) /\ IsFiniteSet(B) /\ IsFiniteSet(C)
  BY FourFinite
<1>2. Checks = (A \union B) \union C
  BY DEF Checks, Exempting
<1> HIDE DEF A, B, C
<1>3. IsFiniteSet(A \union B)
  BY <1>1, FS_Union
<1>4. IsFiniteSet((A \union B) \union C)
  BY <1>1, <1>3, FS_Union
<1> QED BY <1>2, <1>4

\* How many checks are left can be counted, and counts down.
LEMMA PendingCounts ==
    ASSUME NEW S \in SUBSET Checks
    PROVE  /\ Cardinality(Checks) \in Nat /\ Cardinality(S) \in Nat
           /\ Cardinality(S) <= Cardinality(Checks)
           /\ S # {} => Cardinality(S) > 0
           /\ \A T \in SUBSET S : T # S => Cardinality(T) < Cardinality(S) /\ Cardinality(T) \in Nat
<1>1. IsFiniteSet(S)
  BY ChecksFinite, FS_Subset
<1>2. /\ Cardinality(Checks) \in Nat /\ Cardinality(S) \in Nat
      /\ Cardinality(S) <= Cardinality(Checks)
  BY <1>1, ChecksFinite, FS_Subset, FS_CardinalityType
<1>3. S # {} => Cardinality(S) > 0
  BY <1>1, <1>2, FS_EmptySet
<1>4. ASSUME NEW T \in SUBSET S, T # S
      PROVE  Cardinality(T) < Cardinality(S) /\ Cardinality(T) \in Nat
  <2>1. IsFiniteSet(T) /\ Cardinality(T) <= Cardinality(S) /\ Cardinality(T) # Cardinality(S)
    BY <1>1, <1>4, FS_Subset
  <2>2. Cardinality(T) \in Nat
    BY <2>1, FS_CardinalityType
  <2> QED BY <1>2, <2>1, <2>2
<1> QED BY <1>2, <1>3, <1>4

LEMMA LeftIs ==
    ASSUME TypeOK
    PROVE  /\ phase = "idle"     => Left = 0
           /\ phase = "enter"    => Left = 1
           /\ phase = "report"   => Left = 2
           /\ phase = "checks"   => Left = 2 + Cardinality(pending)
           /\ phase = "probe"    => Left = 3 + Cardinality(Checks) + 2 * (2 - at)
           /\ phase = "control"  => Left = 4 + Cardinality(Checks) + 2 * (2 - at)
           /\ phase = "identity" => Left = 9 + Cardinality(Checks)
           /\ phase = "params"   => Left = 10 + Cardinality(Checks)
BY DEF Left

\* A run gets nearer its end with every step of it: no retry, no red assertion and no
\* check that could not run keeps it from its report.
THEOREM Advances == Spec => RunAdvances
<1>1. TypeOK /\ TypeOK' /\ [Next]_vars =>
        (phase # "idle" /\ <<phase, at, pending>>' # <<phase, at, pending>> => Left' < Left)
  <2> SUFFICES ASSUME TypeOK, TypeOK', [Next]_vars, phase # "idle",
                      <<phase, at, pending>>' # <<phase, at, pending>>
               PROVE  Left' < Left
    OBVIOUS
  <2> DEFINE N == Cardinality(Checks)
             n == Cardinality(pending)
  <2>1. /\ N \in Nat /\ n \in Nat /\ n <= N /\ n' \in Nat /\ n' <= N /\ at \in 0..2 /\ at' \in 0..2
        /\ pending # {} => n > 0
        /\ pending' # {} => n' > 0
    BY PendingCounts DEF TypeOK
  <2>2. /\ phase = "enter"    => Left = 1
        /\ phase = "report"   => Left = 2
        /\ phase = "checks"   => Left = 2 + n
        /\ phase = "probe"    => Left = 3 + N + 2 * (2 - at)
        /\ phase = "control"  => Left = 4 + N + 2 * (2 - at)
        /\ phase = "identity" => Left = 9 + N
        /\ phase = "params"   => Left = 10 + N
    BY LeftIs
  <2>3. /\ phase' = "idle"     => Left' = 0
        /\ phase' = "enter"    => Left' = 1
        /\ phase' = "report"   => Left' = 2
        /\ phase' = "checks"   => Left' = 2 + n'
        /\ phase' = "probe"    => Left' = 3 + N + 2 * (2 - at')
        /\ phase' = "control"  => Left' = 4 + N + 2 * (2 - at')
        /\ phase' = "identity" => Left' = 9 + N
    BY DEF Left
  <2> HIDE DEF N, n
  <2>4. CASE ReadParams
    BY <2>1, <2>2, <2>3, <2>4 DEF ReadParams
  <2>5. CASE Identify
    BY <2>1, <2>2, <2>3, <2>5 DEF Identify
  <2>6. ASSUME NEW fault \in BOOLEAN, NEW late \in BOOLEAN, Control(fault, late) PROVE Left' < Left
    BY <2>1, <2>2, <2>3, <2>6 DEF Control, DnsDone
  <2>7. ASSUME NEW owed \in BOOLEAN, Lookup(owed) PROVE Left' < Left
    BY <2>1, <2>2, <2>3, <2>7 DEF Lookup
  <2>8. ASSUME NEW reply, Attempt(reply) PROVE Left' < Left
    BY <2>1, <2>2, <2>3, <2>8 DEF Attempt, RetryWarranted, DnsDone
  <2>9. ASSUME NEW B \in Batches, NEW fault \in BOOLEAN, RunChecks(B, fault) PROVE Left' < Left
    <3>1. pending \subseteq Checks /\ pending' \subseteq pending /\ pending' # pending /\ phase = "checks"
      BY <2>9 DEF RunChecks, TypeOK
    <3>2. n' < n
      BY <3>1, PendingCounts DEF n
    <3>3. phase' = "report" \/ phase' = "checks"
      BY <2>9 DEF RunChecks
    <3> QED BY <2>1, <2>2, <2>3, <3>1, <3>2, <3>3
  <2>10. ASSUME NEW written \in BOOLEAN, Report(written) PROVE Left' < Left
    BY <2>2, <2>3, <2>10 DEF Report
  <2>11. CASE Enter
    BY <2>2, <2>3, <2>11 DEF Enter
  <2>12. CASE Reboot
    BY <2>1, <2>2, <2>3, <2>12 DEF Reboot, TypeOK
  <2>13. (\E v \in {"verify", "use"}, s \in BOOLEAN : Start(v, s)) \/ Leave \/ Change \/ Unmark
            \/ UNCHANGED vars => FALSE
    BY DEF Start, Leave, Change, Unmark, vars
  <2> QED BY <2>4, <2>5, <2>6, <2>7, <2>8, <2>9, <2>10, <2>11, <2>12, <2>13 DEF Next, Step
<1> QED BY <1>1, TypeCorrect, PTL DEF Spec, RunAdvances

-----------------------------------------------------------------------------
(* What each assertion shows. *)

LEMMA OutKeeps ==
    ASSUME TypeOK, NEW p \in Packet
    PROVE  Out(p) \in Packet /\ Out(p).uid = p.uid /\ (p.uid # Anon => Out(p) = p)
<1>1. CASE forcing = NoConfig
  BY <1>1 DEF Out, RewrittenBy
<1>2. CASE forcing # NoConfig
  <2>1. forcing \in Configs
    BY <1>2 DEF TypeOK, Loaded
  <2> QED BY <1>2, <2>1, RewriteKeeps DEF Out, RewrittenBy
<1> QED BY <1>1, <1>2

LEMMA SentIsPacket ==
    ASSUME NEW u \in Uid, NEW proto \in {"tcp", "udp"}, NEW to \in Addr, NEW port \in Port
    PROVE  /\ Sent(u, proto, to, port) \in Packet
           /\ Sent(u, proto, to, port).uid = u /\ Sent(u, proto, to, port).proto = proto
           /\ Sent(u, proto, to, port).to = to /\ Sent(u, proto, to, port).port = port
BY DEF Sent, Packet, Proto

\* The address of the world that the probes use is no loopback, private or IPv6 one.
LEMMA OffBoxApart == /\ OffBox \in Addr /\ ~OnBox(OffBox)
                     /\ OffBox # Local4 /\ OffBox \notin Private /\ OffBox \notin V6
BY ValueAssumption, AddrAssumption DEF Addr, V4, OnBox

\* leak-drop-v4: only the account the tables are of is kept from leaving the box.
LEMMA DropMeansAnon ==
    ASSUME TypeOK, st.anon \in Uid, forcing # NoConfig, LeakDropV4
    PROVE  st.anon = Anon
<1> SUFFICES ASSUME st.anon # Anon PROVE FALSE
  OBVIOUS
<1> DEFINE p == Sent(st.anon, "udp", OffBox, Free)
<1>1. p \in Packet /\ p.uid = st.anon /\ p.to = OffBox
  BY SentIsPacket, OffBoxApart, ValueAssumption
<1> HIDE DEF p
<1>2. Out(p) = p
  BY <1>1, OutKeeps
<1>3. p \notin ToShim(forcing)
  BY <1>1, OffBoxApart DEF ToShim
<1>4. PassesTables(baseline, forcing, closed, p)
  BY <1>1, <1>3, OthersDropped DEF PassesTables
<1>5. Passes(p)
  BY <1>1, <1>4, OffBoxApart DEF Passes
<1>6. ~Escapes(p)
  BY DEF LeakDropV4, p
<1> QED BY <1>2, <1>5, <1>6 DEF Escapes

\* The forced round trip: an answer on the way to the recorded DNS port is the shim's.
LEMMA AnswerMeans ==
    ASSUME TypeOK, TowardShim, "answer" \in Replies
    PROVE  ShimListens
<1>1. params.dns # Domain
  BY ConfigAssumption, PortAssumption, ValueAssumption DEF TypeOK, ConfigOK
<1>2. Out(Query) # Query
  <2>1. Query.port = Domain
    BY DEF Query, Sent
  <2> QED BY <1>1, <2>1 DEF TowardShim
<1> QED BY <1>2 DEF Replies

\* ... and that port is then the one the loaded table redirects DNS to.
LEMMA TowardShimMeans ==
    ASSUME TypeOK, TowardShim, forcing # NoConfig, st.anon = Anon
    PROVE  forcing.dns = params.dns
<1>1. forcing \in Configs
  BY DEF TypeOK, Loaded
<1>2. host.nameserver \in Addr
  BY ValueAssumption DEF TypeOK, Host
<1>3. /\ Query \in Packet /\ Query.uid = Anon /\ Query.proto = "udp" /\ Query.port = Domain
  BY <1>2, SentIsPacket, UidAssumption, PortAssumption DEF Query
<1>4. Query \in ToDns
  BY <1>3 DEF ToDns
<1>5. Rewrite(forcing, Query) =
        [Query EXCEPT !.to = IF Query.to \in V6 THEN Local6 ELSE Local4, !.port = forcing.dns]
  BY <1>1, <1>3, <1>4, DnsRedirected
<1>6. Out(Query).port = forcing.dns
  BY <1>3, <1>5 DEF Out, RewrittenBy, Packet
<1> QED BY <1>6 DEF TowardShim

\* The nat chain's verdict on the account's web traffic.
LEMMA WebRedirected ==
    ASSUME NEW c \in Configs
    PROVE  Rewrite(c, Sent(Anon, "tcp", OffBox, Web)).port = c.relay
<1> DEFINE p     == Sent(Anon, "tcp", OffBox, Web)
           chain == AnonNat(c)
<1>1. p \in Packet /\ p.uid = Anon /\ p.proto = "tcp" /\ p.to = OffBox /\ p.port = Web
  BY SentIsPacket, OffBoxApart, ValueAssumption, UidAssumption
<1>2. /\ DOMAIN chain = 1..4
      /\ chain[1] = Rule(ToShim(c), "return")
      /\ chain[2] = Rule(ToExempt(c), "return")
      /\ chain[3] = Rule(ToDns, "dns")
      /\ chain[4] = Rule(Tcp, "relay")
  BY DEF AnonNat
<1> HIDE DEF p, chain
<1>3. ConfigOK(c)
  BY ConfigAssumption
<1>4. p \notin ToShim(c) /\ p \notin ToDns /\ p \in Tcp
  BY <1>1, OffBoxApart, ValueAssumption DEF ToShim, ToDns, Tcp
<1>5. p \notin ToExempt(c)
  <2> SUFFICES ASSUME <<p.to, p.port>> \in c.exempt PROVE FALSE
    BY DEF ToExempt
  <2> QED BY <1>1, <1>3, OffBoxApart DEF ConfigOK
<1>6. \/ Verdict(chain, p) = "end" /\ \A i \in 1..4 : p \notin chain[i].match
      \/ \E i \in 1..4 : /\ p \in chain[i].match
                         /\ Verdict(chain, p) = chain[i].verdict
                         /\ \A j \in 1..4 : j < i => p \notin chain[j].match
  BY <1>2, FirstMatch
<1>7. Verdict(chain, p) = "relay"
  BY <1>2, <1>4, <1>5, <1>6 DEF Rule
<1>8. Rewrite(c, p) = [p EXCEPT !.to = IF p.to \in V6 THEN Local6 ELSE Local4, !.port = c.relay]
  BY <1>1, <1>7 DEF Rewrite, chain
<1> QED BY <1>1, <1>8 DEF Packet, p

\* anonymized-exit: the address seen outside is the running shim's.
LEMMA ExitMeans ==
    ASSUME TypeOK, forcing # NoConfig, st.anon = Anon, AnonymizedExit
    PROVE  /\ shim # NoConfig /\ shim.relay = forcing.relay
           /\ ExitOf[shim.endpoint] # "host"
           /\ params.endpoint \in TorShared /\ ~skip => ExitOf[shim.endpoint] = "tor"
<1> DEFINE p == Sent(st.anon, "tcp", OffBox, Web)
<1>1. /\ ExitIP # "none" /\ ExitIP # "host"
      /\ params.endpoint \in TorShared /\ ~skip => ExitIP = "tor"
  BY DEF AnonymizedExit
<1>2. ~Escapes(p) /\ TakenByRelay(p) /\ host.reachable /\ ExitIP = ExitOf[shim.endpoint]
  BY <1>1 DEF ExitIP
<1>3. forcing \in Configs
  BY DEF TypeOK, Loaded
<1>4. Out(p).port = forcing.relay
  BY <1>3, WebRedirected DEF Out, RewrittenBy
<1> QED BY <1>1, <1>2, <1>4 DEF TakenByRelay

\* What holds of the host when the DNS assertions do.
DnsShown == host.inProcess /\ TowardShim /\ ShimListens

\* All assertions together: the account is forced.
LEMMA AllMeanForced ==
    ASSUME TypeOK, st.anon \in Uid, DnsShown, \A k \in Applicable : Holds(k)
    PROVE  /\ Forced(st.anon)
           /\ params.endpoint \in TorShared /\ ~skip => ExitOf[shim.endpoint] = "tor"
<1>1. Checks \ Exempting \subseteq Applicable
  BY DEF Applicable
<1>2. /\ "anonymized-exit" \in Applicable /\ "unit-binaries-present" \in Applicable
      /\ "leak-drop-v4" \in Applicable /\ "shim-ports-closure" \in Applicable
      /\ "no-uid-transition-egress" \in Applicable
  BY <1>1 DEF Checks, Exempting
<1>3. AnonymizedExit
  BY <1>2 DEF Holds
<1>4. UnitBinariesPresent
  BY <1>2 DEF Holds
<1>5. LeakDropV4
  BY <1>2 DEF Holds
<1>6. ShimPortsClosure
  BY <1>2 DEF Holds
<1>7. NoUIDTransitionEgress
  BY <1>2 DEF Holds
<1>8. forcing # NoConfig /\ closed /\ forcing \in Configs
  BY <1>6 DEF ShimPortsClosure, TypeOK, Loaded
<1>9. st.anon = Anon
  BY <1>5, <1>8, DropMeansAnon
<1>10. forcing.dns = params.dns
  BY <1>8, <1>9, TowardShimMeans DEF DnsShown
<1>11. Anon \in Confines[baseline][forcing][closed]
  BY <1>8, AnonConfined DEF TypeOK
<1> QED BY <1>3, <1>4, <1>7, <1>8, <1>9, <1>10, <1>11, ExitMeans
        DEF Forced, Confined, DnsShown, ShimListens, NoUIDTransitionEgress

-----------------------------------------------------------------------------
(* The report.  While the host does not change, what the run found so far  *)
(* stays true of it.                                                       *)

Found ==
    ~changed /\ phase # "idle" =>
        /\ passwd = st
        /\ phase = "probe" => ~host.busy
        /\ phase \in {"control", "probe"} /\ at # 0 /\ ev.emitted => host.inProcess
        /\ phase \in {"checks", "report", "enter"} /\ ok =>
              DnsShown /\ \A k \in Applicable \ pending : Holds(k)
        /\ phase \in {"report", "enter"} /\ ok => pending = {}

\* Only a green run gets to the door.
AtTheDoor == phase = "enter" => ok

LEMMA HoldsStays ==
    ASSUME UNCHANGED <<hostVars, st, params, skip>>
    PROVE  /\ \A k : Holds(k)' = Holds(k)
           /\ DnsShown' = DnsShown
           /\ Applicable' = Applicable
<1>1. /\ passwd' = passwd /\ baseline' = baseline /\ forcing' = forcing /\ closed' = closed
      /\ ledger' = ledger /\ shim' = shim /\ host' = host
      /\ st' = st /\ params' = params /\ skip' = skip
  BY DEF hostVars
<1>2. \A p : Out(p)' = Out(p) /\ Passes(p)' = Passes(p)
  BY <1>1 DEF Out, Passes
<1>3. \A p : Escapes(p)' = Escapes(p) /\ EscapesToAddress(p)' = EscapesToAddress(p)
             /\ Connects(p)' = Connects(p) /\ TakenByRelay(p)' = TakenByRelay(p)
  BY <1>1, <1>2 DEF Escapes, EscapesToAddress, Connects, Listening, TakenByRelay
<1>4. TowardShim' = TowardShim
  BY <1>1, <1>2 DEF TowardShim, Query
<1>5. ExitIP' = ExitIP
  BY <1>1, <1>3 DEF ExitIP
<1>6. AnonymizedExit' = AnonymizedExit
  BY <1>1, <1>5 DEF AnonymizedExit
<1>7. UnitBinariesPresent' = UnitBinariesPresent /\ ICMPDrop' = ICMPDrop
      /\ NoUIDTransitionEgress' = NoUIDTransitionEgress
  BY <1>1 DEF UnitBinariesPresent, ICMPDrop, PingReplied, NoUIDTransitionEgress
<1>8. LeakDropV4' = LeakDropV4 /\ LeakDropV6' = LeakDropV6
  BY <1>1, <1>3 DEF LeakDropV4, LeakDropV6
<1>9. BypassLoopbackClosure' = BypassLoopbackClosure /\ BypassEndpointClosure' = BypassEndpointClosure
  BY <1>1, <1>3 DEF BypassLoopbackClosure, BypassEndpointClosure
<1>10. ShimPortsClosure' = ShimPortsClosure /\ NonTCPUDPDrop' = NonTCPUDPDrop
  BY <1>1, <1>2 DEF ShimPortsClosure, NonTCPUDPDrop
<1>11. SplitTunnelTight' = SplitTunnelTight /\ LANExemptionNotADNSHole' = LANExemptionNotADNSHole
  BY <1>1, <1>3 DEF SplitTunnelTight, LANExemptionNotADNSHole
<1>12. \A k : Holds(k)' = Holds(k)
  BY <1>6, <1>7, <1>8, <1>9, <1>10, <1>11 DEF Holds
<1>13. DnsShown' = DnsShown /\ Applicable' = Applicable
  BY <1>1, <1>4 DEF DnsShown, ShimListens, Applicable
<1> QED BY <1>12, <1>13

LEMMA FoundInit == Init => Found /\ AtTheDoor
BY DEF Init, Found, AtTheDoor

LEMMA FoundStep == TypeOK /\ Found /\ AtTheDoor /\ [Next]_vars => Found' /\ AtTheDoor'
<1> SUFFICES ASSUME TypeOK, Found, AtTheDoor, [Next]_vars PROVE Found' /\ AtTheDoor'
  OBVIOUS
<1>1. ASSUME NEW v \in {"verify", "use"}, NEW s \in BOOLEAN, Start(v, s) PROVE Found' /\ AtTheDoor'
  BY <1>1 DEF Start, Found, AtTheDoor, hostVars
<1>2. CASE ReadParams
  BY <1>2 DEF ReadParams, Found, AtTheDoor, hostVars
<1>3. CASE Identify
  <2>1. \/ phase' = "control" /\ at' = 0
        \/ phase' = "report" /\ ~ok'
    BY <1>3 DEF Identify
  <2>2. UNCHANGED <<hostVars, st, changed>> /\ phase = "identity"
    BY <1>3 DEF Identify
  <2> QED BY <2>1, <2>2 DEF Found, AtTheDoor, hostVars
<1>4. ASSUME NEW fault \in BOOLEAN, NEW late \in BOOLEAN, Control(fault, late)
      PROVE  Found' /\ AtTheDoor'
  <2>1. UNCHANGED <<hostVars, st, changed>> /\ phase = "control"
    BY <1>4 DEF Control
  <2>2. CASE CrossTalk(late) \/ fault
    <3>1. phase' = "checks" /\ ok' = FALSE
      BY <1>4, <2>2 DEF Control, DnsDone
    <3> QED BY <2>1, <3>1 DEF Found, AtTheDoor, hostVars
  <2>3. CASE ~(CrossTalk(late) \/ fault)
    <3>1. phase' = "probe" /\ UNCHANGED <<at, ev>> /\ ~host.busy
      BY <1>4, <2>3 DEF Control, CrossTalk
    <3> QED BY <2>1, <3>1 DEF Found, AtTheDoor, hostVars
  <2> QED BY <2>2, <2>3
<1>5. ASSUME NEW owed \in BOOLEAN, Lookup(owed) PROVE Found' /\ AtTheDoor'
  <2>1. /\ UNCHANGED <<hostVars, st, changed>> /\ phase = "probe"
        /\ phase' = "control" /\ at' = 1 /\ (ev'.emitted => host.inProcess \/ host.busy)
    BY <1>5 DEF Lookup
  <2> QED BY <2>1 DEF Found, AtTheDoor, hostVars
<1>6. ASSUME NEW reply, Attempt(reply) PROVE Found' /\ AtTheDoor'
  <2>1. /\ UNCHANGED <<hostVars, st, params, skip, changed>>
        /\ phase = "probe" /\ at # 0 /\ reply \in Replies
    BY <1>6 DEF Attempt
  <2>2. CASE RetryWarranted(reply)
    <3>1. phase' = "control" /\ at' = 2 /\ UNCHANGED ev
      BY <1>6, <2>2 DEF Attempt
    <3> QED BY <2>1, <3>1 DEF Found, AtTheDoor, hostVars
  <2>3. CASE ~RetryWarranted(reply)
    <3>1. phase' = "checks" /\ pending' = Applicable /\ (ok' => DNSHolds(reply))
      BY <1>6, <2>3 DEF Attempt, DnsDone
    <3>2. Applicable' = Applicable /\ DnsShown' = DnsShown
      BY <2>1, HoldsStays
    <3>3. ~changed /\ DNSHolds(reply) => DnsShown
      BY <2>1, AnswerMeans DEF DNSHolds, DnsShown, Found
    <3> QED BY <2>1, <3>1, <3>2, <3>3 DEF Found, AtTheDoor, hostVars
  <2> QED BY <2>2, <2>3
<1>7. ASSUME NEW B \in Batches, NEW fault \in BOOLEAN, RunChecks(B, fault) PROVE Found' /\ AtTheDoor'
  <2>1. /\ UNCHANGED <<hostVars, st, params, skip, changed>> /\ phase = "checks"
        /\ phase' = IF pending' = {} THEN "report" ELSE "checks"
        /\ pending' = pending \ (B \cap pending)
        /\ ok' => ok /\ \A k \in B \cap pending : Holds(k)
    BY <1>7 DEF RunChecks
  <2>2. Applicable' = Applicable /\ DnsShown' = DnsShown /\ \A k : Holds(k)' = Holds(k)
    BY <2>1, HoldsStays
  <2>3. ~changed /\ ok' => DnsShown /\ \A k \in Applicable \ pending' : Holds(k)
    BY <2>1 DEF Found
  <2> QED BY <2>1, <2>2, <2>3 DEF Found, AtTheDoor, hostVars
<1>8. CASE \/ \E written \in BOOLEAN : Report(written)
           \/ Enter \/ Leave \/ Unmark \/ UNCHANGED vars
  <2>1. UNCHANGED <<hostVars, st, params, skip, changed, ok, pending, at, ev>>
    BY <1>8 DEF Report, Enter, Leave, Unmark, vars
  <2>2. \/ phase' = "idle" \/ phase' = phase
        \/ phase = "report" /\ phase' = "enter" /\ ok
    BY <1>8 DEF Report, Enter, Leave, Unmark, vars
  <2>3. Applicable' = Applicable /\ DnsShown' = DnsShown /\ \A k : Holds(k)' = Holds(k)
    BY <2>1, HoldsStays
  <2> QED BY <2>1, <2>2, <2>3 DEF Found, AtTheDoor, hostVars
<1>9. CASE Change \/ Reboot
  <2>1. changed' = TRUE /\ ok' = ok /\ (phase' = phase \/ phase' = "idle")
    BY <1>9 DEF Change, Reboot
  <2> QED BY <2>1 DEF Found, AtTheDoor
<1> QED BY <1>1, <1>2, <1>3, <1>4, <1>5, <1>6, <1>7, <1>8, <1>9 DEF Next, Step

LEMMA FoundAlways == Spec => [](TypeOK /\ Found /\ AtTheDoor)
<1>1. TypeOK /\ (Found /\ AtTheDoor) /\ [Next]_vars => (Found /\ AtTheDoor)'
  BY FoundStep
<1>2. Init => Found /\ AtTheDoor
  BY FoundInit
<1> QED BY <1>1, <1>2, TypeCorrect, PTL DEF Spec

LEMMA FoundMeans == TypeOK /\ Found => GreenMeansForced
<1> SUFFICES ASSUME TypeOK, Found, phase \in {"report", "enter"}, ok, ~changed
             PROVE  /\ Forced(st.anon) /\ passwd = st
                    /\ params.endpoint \in TorShared /\ ~skip => ExitOf[shim.endpoint] = "tor"
  BY DEF GreenMeansForced
<1>1. /\ passwd = st /\ pending = {} /\ DnsShown
      /\ \A k \in Applicable \ pending : Holds(k)
  BY DEF Found
<1>2. st.anon \in Uid
  BY DEF TypeOK
<1> QED BY <1>1, <1>2, AllMeanForced

\* A green report tells the truth of a host that did not change under it.
THEOREM Green == Spec => []GreenMeansForced
BY FoundAlways, FoundMeans, PTL

\* The marker and the session say what a report found of a host unchanged since.
THEOREM Claims == Spec => []ClaimsStand
<1>1. Init => ClaimsStand
  BY DEF Init, ClaimsStand
<1>2. TypeOK /\ Found /\ AtTheDoor /\ ClaimsStand /\ [Next]_vars => ClaimsStand'
  <2> SUFFICES ASSUME TypeOK, Found, AtTheDoor, ClaimsStand, [Next]_vars PROVE ClaimsStand'
    OBVIOUS
  <2>1. ASSUME UNCHANGED hostVars PROVE \A u : Forced(u)' = Forced(u)
    BY <2>1 DEF hostVars, Forced, Confined, UnitBinariesPresent
  <2>2. ASSUME NEW written \in BOOLEAN, Report(written) PROVE ClaimsStand'
    <3>1. UNCHANGED <<hostVars, session>> /\ phase = "report" /\ stale'["session"] = stale["session"]
      BY <2>2 DEF Report, TypeOK, Claim
    <3>2. \/ UNCHANGED <<marker, stale>>
          \/ ok /\ marker' = st.anon /\ stale'["marker"] = changed
      BY <2>2 DEF Report, TypeOK, Claim
    <3>3. ok /\ ~changed => Forced(st.anon)
      BY <3>1, FoundMeans DEF GreenMeansForced
    <3> QED BY <2>1, <3>1, <3>2, <3>3 DEF ClaimsStand, hostVars, TypeOK
  <2>3. CASE Enter
    <3>1. UNCHANGED <<hostVars, marker>> /\ phase = "enter" /\ stale'["marker"] = stale["marker"]
      BY <2>3 DEF Enter, TypeOK, Claim
    <3>2. \/ UNCHANGED <<session, stale>>
          \/ session' = passwd.anon /\ stale'["session"] = changed
      BY <2>3 DEF Enter, TypeOK, Claim
    <3>3. ~changed => Forced(passwd.anon)
      BY <3>1, FoundMeans DEF GreenMeansForced, AtTheDoor
    <3> QED BY <2>1, <3>1, <3>2, <3>3 DEF ClaimsStand, hostVars, TypeOK
  <2>4. CASE Change \/ Reboot
    <3>1. stale'["marker"] = TRUE /\ stale'["session"] = TRUE
      BY <2>4 DEF Change, Reboot, Claim
    <3> QED BY <3>1 DEF ClaimsStand
  <2>5. CASE \/ \E v \in {"verify", "use"}, s \in BOOLEAN : Start(v, s)
             \/ ReadParams \/ Identify
             \/ \E owed \in BOOLEAN : Lookup(owed)
             \/ \E fault, late \in BOOLEAN : Control(fault, late)
             \/ \E reply \in {"answer", "servfail", "unreachable", "none"} : Attempt(reply)
             \/ \E B \in Batches, fault \in BOOLEAN : RunChecks(B, fault)
             \/ UNCHANGED vars
    <3>1. UNCHANGED <<hostVars, claimVars>>
      BY <2>5 DEF Start, ReadParams, Identify, Lookup, Control, Attempt, RunChecks, vars
    <3> QED BY <2>1, <3>1 DEF ClaimsStand, claimVars
  <2>6. CASE Leave \/ Unmark
    <3>1. /\ UNCHANGED <<hostVars, stale>>
          /\ \/ session' = NoSession /\ marker' = marker
             \/ marker' = NoMarker /\ session' = session
      BY <2>6 DEF Leave, Unmark
    <3> QED BY <2>1, <3>1 DEF ClaimsStand
  <2> QED BY <2>2, <2>3, <2>4, <2>5, <2>6 DEF Next, Step
<1> QED BY <1>1, <1>2, FoundAlways, PTL DEF Spec

-----------------------------------------------------------------------------
(* No false alarm. *)

\* The probes are what verify takes them for: nobody listens where one is to be refused,
\* and the exemption probed is reachable and does not cover its neighbour.  The code does
\* not see to it: 127.0.0.2:9999 may be exempt, and so may the endpoint; an exempt network
\* may hold the neighbour, and the neighbour of 127.0.0.2 is 127.0.0.1.
ProbesOrdinary ==
    /\ Free # Domain
    /\ \A c \in Configs :
          /\ <<Local6, Free>> \notin c.exempt /\ <<Loop2, Free>> \notin c.exempt
          /\ FirstExempt[c] # NoExempt =>
                LET e == FirstExempt[c] IN
                /\ e \in c.exempt /\ e # c.endpoint
                /\ Neighbour[e[1]] # Local4 /\ <<Neighbour[e[1]], e[2]>> \notin c.exempt

\* The lookup of the run, made already, left a query for the shim to answer.
LookupOwed ==
    /\ ev.owed
    /\ \/ phase \in {"control", "probe"} /\ at # 0
       \/ phase \in {"checks", "report"}

\* Nothing is red so far in a run on a healthy host, unless its lookup is owed a reply.
GreenSoFar ==
    Healthy /\ ~changed /\ ~faulty =>
        /\ phase \notin {"idle", "enter"} => ok \/ LookupOwed
        /\ phase \in {"identity", "control", "probe", "checks"} => params = forcing
        /\ phase \in {"control", "probe"} /\ at # 0 => ev.nssShim /\ ev.emitted

\* The uids and the tables of a healthy host, and what a run has read of them.
HealthyRun(c) ==
    /\ c \in Configs /\ params = c
    /\ baseline = c /\ forcing = c /\ shim = c /\ closed
    /\ st.anon = Anon
    /\ host.reachable /\ host.inProcess /\ ~host.busy

\* On such a host the tables let out only what goes to the shim or to an exemption.
LEMMA OutLeaves ==
    ASSUME NEW c, HealthyRun(c), TypeOK, NEW p \in Packet, p.uid = Anon
    PROVE  /\ Out(p) = Rewrite(c, p) /\ Out(p) \in Packet /\ Out(p).uid = Anon
           /\ Passes(Out(p)) => /\ Out(p) \notin ToEndpoint(c)
                                /\ Out(p) \in ToExempt(c) \union ToShim(c)
           /\ ~BaselineDrops(c, Out(p)) /\ ~ForcingDrops(c, Out(p)) => Passes(Out(p))
<1>1. c \in Configs /\ c # NoConfig /\ Nobody # Anon
  BY ValueAssumption DEF HealthyRun
<1>2. Out(p) = Rewrite(c, p)
  BY <1>1 DEF Out, RewrittenBy, HealthyRun
<1>3. Out(p) \in Packet /\ Out(p).uid = Anon
  BY <1>1, <1>2, RewriteKeeps
<1>4. Passes(Out(p)) => ~ForcingDrops(c, Out(p))
  BY <1>1 DEF Passes, PassesTables, HealthyRun
<1>5. ~BaselineDrops(c, Out(p)) /\ ~ForcingDrops(c, Out(p)) => Passes(Out(p))
  BY <1>1, <1>3 DEF Passes, PassesTables, HealthyRun
<1> QED BY <1>2, <1>3, <1>4, <1>5, ForcingPasses

\* Its own shim is where the account's IPv4 TCP and DNS end.
LEMMA EndsAtShim ==
    ASSUME EndpointElsewhere, NEW c, HealthyRun(c), TypeOK,
           NEW proto \in {"tcp", "udp"}, NEW to \in V4, NEW port \in Port,
           proto = "tcp" \/ port = Domain,
           Sent(Anon, proto, to, port) \notin ToExempt(c) \union ToShim(c)
    PROVE  LET q == Out(Sent(Anon, proto, to, port)) IN
           Passes(q) /\ q.to = Local4 /\ q.port = IF port = Domain THEN c.dns ELSE c.relay
<1> DEFINE p == Sent(Anon, proto, to, port)
<1>1. /\ p \in Packet /\ p.uid = Anon /\ p.to \in V4 /\ p.port = port
      /\ p.proto = proto
  BY SentIsPacket, UidAssumption DEF Addr
<1>2. p \notin ToExempt(c) \union ToShim(c)
  OBVIOUS
<1> HIDE DEF p
<1>3. p \in Tcp \union ToDns /\ c \in Configs
  BY <1>1 DEF Tcp, ToDns, HealthyRun
<1>4. Rewrite(c, p) = [p EXCEPT !.to = Local4, !.port = IF p.port = Domain THEN c.dns ELSE c.relay]
  BY <1>1, <1>2, <1>3, Redirected
<1>5. Out(p) = Rewrite(c, p) /\ Out(p) \in Packet /\ Out(p).uid = Anon
  BY <1>1, OutLeaves
<1>6. /\ Out(p).to = Local4 /\ Out(p).proto = proto
      /\ Out(p).port = IF port = Domain THEN c.dns ELSE c.relay
  BY <1>1, <1>4, <1>5 DEF Packet
<1>7. Out(p) \in ToShim(c)
  BY <1>5, <1>6 DEF ToShim
<1>8. ~BaselineDrops(c, Out(p)) /\ ~ForcingDrops(c, Out(p))
  BY <1>3, <1>5, <1>7, ShimPasses
<1>9. Passes(Out(p))
  BY <1>1, <1>8, OutLeaves
<1> QED BY <1>6, <1>9 DEF p

\* DNS reaches the shim, so a forced round trip that nothing slows is answered.
LEMMA DnsEndsAtShim ==
    ASSUME EndpointElsewhere, NEW c, HealthyRun(c), TypeOK, host.nameserver \in V4
    PROVE  TowardShim /\ Replies = {"answer", "servfail", "none"}
<1>1. Domain \in Port /\ c \in Configs
  BY PortAssumption DEF HealthyRun
<1>2. /\ Query = Sent(Anon, "udp", host.nameserver, Domain)
      /\ Query \in Packet /\ Query.port = Domain
  BY <1>1, SentIsPacket, UidAssumption DEF Query, HealthyRun, Addr
<1>3. Query \notin ToExempt(c) \union ToShim(c)
  BY <1>1, <1>2, DnsNotExempt
<1>4. Passes(Out(Query)) /\ Out(Query).to = Local4 /\ Out(Query).port = c.dns
  BY <1>1, <1>2, <1>3, EndsAtShim
<1>5. TowardShim
  BY <1>4 DEF TowardShim, HealthyRun
<1>6. ShimListens
  BY <1>1, ValueAssumption DEF HealthyRun, ShimListens
<1>7. Out(Query) # Query
  BY <1>1, <1>2, <1>4, ConfigAssumption, PortAssumption DEF ConfigOK
<1>8. host.reachable
  BY DEF HealthyRun
<1> QED BY <1>5, <1>6, <1>7, <1>8 DEF Replies

LEMMA ExitHolds ==
    ASSUME EndpointElsewhere, NEW c, HealthyRun(c), TypeOK,
           ExitOf[c.endpoint] = IF c.endpoint \in TorShared THEN "tor" ELSE "proxy"
    PROVE  AnonymizedExit
<1> DEFINE p == Sent(Anon, "tcp", OffBox, Web)
<1>1. /\ p \in Packet /\ p.to = OffBox /\ p.port = Web
      /\ OffBox \in V4 /\ Web \in Port /\ Web # Domain
  BY SentIsPacket, OffBoxApart, ValueAssumption, UidAssumption DEF V4
<1>2. c \in Configs /\ c # NoConfig /\ ConfigOK(c)
  BY ConfigAssumption, ValueAssumption DEF HealthyRun
<1>3. p \notin ToExempt(c) \union ToShim(c)
  BY <1>1, <1>2, OffBoxApart DEF ConfigOK, ToExempt, ToShim
<1>4. Passes(Out(p)) /\ Out(p).to = Local4 /\ Out(p).port = c.relay
  BY <1>1, <1>3, EndsAtShim
<1>5. p = Sent(st.anon, "tcp", OffBox, Web)
  BY DEF HealthyRun
<1> HIDE DEF p
<1>6. ~Escapes(p) /\ TakenByRelay(p)
  BY <1>1, <1>2, <1>4, OffBoxApart DEF Escapes, TakenByRelay, HealthyRun
<1>7. ExitIP = ExitOf[c.endpoint]
  BY <1>5, <1>6 DEF ExitIP, HealthyRun
<1> QED BY <1>7 DEF AnonymizedExit, HealthyRun

\* What is addressed neither to the shim nor to an exemption does not get out as it is.
LEMMA NoEscape ==
    ASSUME NEW c, HealthyRun(c), TypeOK, NEW p \in Packet, p.uid = Anon,
           p \in ToEndpoint(c) \/ p \notin ToExempt(c) \union ToShim(c)
    PROVE  ~Escapes(p)
BY OutLeaves DEF Escapes

LEMMA ClosuresHold ==
    ASSUME ProbesOrdinary, NEW c, HealthyRun(c), TypeOK
    PROVE  LeakDropV4 /\ BypassLoopbackClosure /\ BypassEndpointClosure /\ NonTCPUDPDrop
<1>1. /\ c \in Configs /\ ConfigOK(c) /\ st.anon = Anon /\ params = c
      /\ c.endpoint \in Endpoints
  BY ConfigAssumption DEF HealthyRun, Config, Endpoints
<1>2. /\ OffBox \in V4 /\ Loop2 \in V4 /\ Loop2 # Local4 /\ {Free, Web} \subseteq Port
      /\ V4 \subseteq Addr /\ Anon \in Uid
  BY OffBoxApart, ValueAssumption, UidAssumption DEF V4, Addr
<1>3. LeakDropV4
  <2> DEFINE p == Sent(Anon, "udp", OffBox, Free)
  <2>1. p \in Packet /\ p.uid = Anon /\ p.proto = "udp" /\ p.to = OffBox
    BY <1>2, SentIsPacket
  <2> HIDE DEF p
  <2>2. p \notin ToExempt(c) \union ToShim(c)
    BY <2>1, OffBoxApart DEF ToExempt, ToShim
  <2>3. ~Escapes(p)
    BY <2>1, <2>2, NoEscape
  <2> QED BY <1>1, <2>3 DEF LeakDropV4, p
<1>4. BypassLoopbackClosure
  <2> DEFINE p == Sent(Anon, "tcp", Loop2, Free)
  <2>1. p \in Packet /\ p.uid = Anon /\ p.to = Loop2 /\ p.port = Free
    BY <1>2, SentIsPacket
  <2> HIDE DEF p
  <2>2. p \notin ToExempt(c) \union ToShim(c)
    BY <1>1, <1>2, <2>1 DEF ToExempt, ToShim, ProbesOrdinary
  <2>3. ~Escapes(p)
    BY <2>1, <2>2, NoEscape
  <2> QED BY <1>1, <2>3 DEF BypassLoopbackClosure, p
<1>5. BypassEndpointClosure
  <2> DEFINE p == Sent(Anon, "tcp", c.endpoint[1], c.endpoint[2])
  <2>1. /\ p \in Packet /\ p.uid = Anon /\ p.proto = "tcp"
        /\ p.to = c.endpoint[1] /\ p.port = c.endpoint[2]
    BY <1>1, <1>2, SentIsPacket DEF Endpoints
  <2> HIDE DEF p
  <2>2. p \in ToEndpoint(c)
    BY <1>1, <2>1 DEF ToEndpoint, Endpoints
  <2>3. ~Escapes(p)
    BY <2>1, <2>2, NoEscape
  <2> QED BY <1>1, <2>3 DEF BypassEndpointClosure, p
<1>6. NonTCPUDPDrop
  <2> SUFFICES ASSUME NEW port \in {Free, Web}
               PROVE  ~Passes(Out(Sent(Anon, "udp", OffBox, port)))
    BY <1>1 DEF NonTCPUDPDrop
  <2> DEFINE p == Sent(Anon, "udp", OffBox, port)
  <2>1. /\ p \in Packet /\ p.uid = Anon /\ p.proto = "udp" /\ p.to = OffBox
        /\ p.port # Domain
    BY <1>2, SentIsPacket, ValueAssumption DEF ProbesOrdinary
  <2> HIDE DEF p
  <2>2. p \notin ToExempt(c) \union ToShim(c)
    BY <2>1, OffBoxApart DEF ToExempt, ToShim
  <2>3. Rewrite(c, p) = p
    BY <1>1, <2>1, OtherUdpStays
  <2>4. ~Passes(Out(p))
    BY <2>1, <2>2, <2>3, OutLeaves
  <2> QED BY <2>4 DEF p
<1> QED BY <1>3, <1>4, <1>5, <1>6

LEMMA LeakDropV6Holds ==
    ASSUME ProbesOrdinary, NEW c, HealthyRun(c), TypeOK
    PROVE  LeakDropV6
<1> DEFINE p == Sent(Anon, "tcp", Local6, Free)
<1>1. /\ c \in Configs /\ ConfigOK(c) /\ st.anon = Anon
      /\ Local6 \in V6 /\ Local6 \notin V4 /\ Local4 \in V4
  BY ConfigAssumption, AddrAssumption DEF HealthyRun, V4
<1>2. /\ p \in Packet /\ p.uid = Anon /\ p.to = Local6 /\ p.port = Free
  BY <1>1, SentIsPacket, UidAssumption, ValueAssumption DEF Addr
<1> HIDE DEF p
<1>3. /\ Out(p).to = Local6
      /\ Out(p).port \in {Free, c.relay, c.dns}
  BY <1>1, <1>2, StaysInV6, OutLeaves
<1>4. Out(p) \notin ToShim(c)
  BY <1>1, <1>3 DEF ToShim
<1>5. Out(p) \notin ToExempt(c)
  <2> SUFFICES ASSUME <<Local6, Out(p).port>> \in c.exempt PROVE FALSE
    BY <1>3 DEF ToExempt
  <2>1. Local6 \notin Private
    BY <1>1 DEF V4
  <2>2. Out(p).port # c.relay /\ Out(p).port # c.dns
    BY <1>1, <2>1 DEF ConfigOK
  <2> QED BY <1>1, <1>3, <2>2 DEF ProbesOrdinary
<1>6. ~Passes(Out(p))
  BY <1>2, <1>4, <1>5, OutLeaves
<1> QED BY <1>1, <1>6 DEF LeakDropV6, Connects, p

LEMMA ShimPortsHold ==
    ASSUME NEW c, HealthyRun(c), TypeOK
    PROVE  ShimPortsClosure
<1>1. /\ c \in Configs /\ c # NoConfig /\ params = c /\ forcing = c /\ closed
      /\ c.dns \in Port /\ c.relay \in Port /\ Local4 \in Addr
  BY ConfigAssumption, AddrAssumption, ValueAssumption DEF HealthyRun, Config, Addr, V4
<1>2. Nobody \in Uid /\ Nobody \notin {Anon, Shim, NoUid}
  BY ValueAssumption, UidAssumption
<1>3. ASSUME NEW p \in Packet, p.uid = Nobody, p \in ToShim(c) PROVE ~Passes(p)
  BY <1>1, <1>2, <1>3, OthersDropped DEF Passes, PassesTables
<1>4. ~Passes(Sent(Nobody, "udp", Local4, c.dns))
  BY <1>1, <1>2, <1>3, SentIsPacket DEF ToShim
<1>5. ~Passes(Sent(Nobody, "tcp", Local4, c.relay))
  BY <1>1, <1>2, <1>3, SentIsPacket DEF ToShim
<1> QED BY <1>1, <1>4, <1>5 DEF ShimPortsClosure

\* The exemption probed is reached, its neighbour and its DNS are not.
LEMMA ExemptionsHold ==
    ASSUME EndpointElsewhere, ProbesOrdinary, NEW c, HealthyRun(c), TypeOK,
           FirstExempt[params] # NoExempt
    PROVE  SplitTunnelTight /\ LANExemptionNotADNSHole
<1> DEFINE e == FirstExempt[c]
<1>1. c \in Configs /\ ConfigOK(c) /\ st.anon = Anon /\ params = c
  BY ConfigAssumption DEF HealthyRun
<1>2. e \in Endpoints
  BY <1>1, ValueAssumption
<1>3. /\ e[1] \in Addr /\ e[2] \in Port /\ e = <<e[1], e[2]>>
      /\ e \in c.exempt /\ e # c.endpoint
      /\ Neighbour[e[1]] # Local4 /\ <<Neighbour[e[1]], e[2]>> \notin c.exempt
      /\ Neighbour[e[1]] \in V4
  BY <1>1, <1>2, ValueAssumption, SMTT(30) DEF Endpoints, ProbesOrdinary
<1>4. e[2] # Domain /\ Domain \in Port
  BY <1>1, <1>3, PortAssumption DEF ConfigOK
<1> HIDE DEF e
<1>5. Connects(Sent(Anon, "tcp", e[1], e[2]))
  <2> DEFINE p == Sent(Anon, "tcp", e[1], e[2])
  <2>1. /\ p \in Packet /\ p.uid = Anon /\ p.proto = "tcp" /\ p.to = e[1] /\ p.port = e[2]
    BY <1>3, SentIsPacket, UidAssumption
  <2> HIDE DEF p
  <2>2. p \in ToExempt(c) /\ p \notin ToEndpoint(c)
    BY <1>3, <2>1 DEF ToExempt, ToEndpoint
  <2>3. Rewrite(c, p) = p /\ ~ForcingDrops(c, p) /\ ~BaselineDrops(c, p)
    BY <1>1, <2>1, <2>2, ExemptPasses
  <2>4. Out(p) = p /\ Passes(p)
    BY <2>1, <2>3, OutLeaves
  <2>5. Listening(p)
    BY <1>1, <1>3, <2>1 DEF Listening
  <2> QED BY <2>4, <2>5 DEF Connects, p
<1>6. ~EscapesToAddress(Sent(Anon, "tcp", Neighbour[e[1]], e[2]))
  <2> DEFINE p == Sent(Anon, "tcp", Neighbour[e[1]], e[2])
  <2>1. p \in Packet /\ p.to = Neighbour[e[1]] /\ p.port = e[2]
    BY <1>3, SentIsPacket, UidAssumption DEF Addr
  <2>2. p \notin ToExempt(c) \union ToShim(c)
    BY <1>3, <2>1 DEF ToExempt, ToShim
  <2>3. Out(p).to = Local4
    BY <1>3, <2>2, EndsAtShim
  <2> QED BY <1>3, <2>1, <2>3 DEF EscapesToAddress
<1>7. ASSUME NEW proto \in {"tcp", "udp"} PROVE ~Escapes(Sent(Anon, proto, e[1], Domain))
  <2> DEFINE p == Sent(Anon, proto, e[1], Domain)
  <2>1. p \in Packet /\ p.uid = Anon /\ p.port = Domain
    BY <1>3, <1>4, SentIsPacket, UidAssumption
  <2> HIDE DEF p
  <2>2. p \notin ToExempt(c) \union ToShim(c)
    BY <1>1, <2>1, DnsNotExempt
  <2>3. ~Escapes(p)
    BY <2>1, <2>2, NoEscape
  <2> QED BY <2>3 DEF p
<1>8. SplitTunnelTight
  BY <1>1, <1>5, <1>6 DEF SplitTunnelTight, e
<1>9. LANExemptionNotADNSHole
  BY <1>1, <1>7 DEF LANExemptionNotADNSHole, e
<1> QED BY <1>8, <1>9

\* Every check of a healthy host holds.
LEMMA HealthyHolds ==
    ASSUME EndpointElsewhere, ProbesOrdinary, TypeOK, Healthy, passwd = st, params = forcing
    PROVE  /\ TowardShim /\ Replies = {"answer", "servfail", "none"}
           /\ host.inProcess /\ ~host.busy
           /\ \A k \in Applicable : Holds(k)
<1>1. HealthyRun(forcing)
  <2>1. forcing \in Configs
    BY DEF Healthy, Record
  <2> QED BY <2>1 DEF Healthy, HealthyRun
<1>2. TowardShim /\ Replies = {"answer", "servfail", "none"}
  BY <1>1, DnsEndsAtShim DEF Healthy
<1>3. AnonymizedExit
  BY <1>1, ExitHolds DEF Healthy
<1>4. LeakDropV4 /\ BypassLoopbackClosure /\ BypassEndpointClosure /\ NonTCPUDPDrop
  BY <1>1, ClosuresHold
<1>5. LeakDropV6
  BY <1>1, LeakDropV6Holds
<1>6. ShimPortsClosure
  BY <1>1, ShimPortsHold
<1>7. UnitBinariesPresent /\ NoUIDTransitionEgress /\ ICMPDrop
  BY DEF Healthy, NoUIDTransitionEgress, ICMPDrop, PingReplied
<1>8. FirstExempt[params] # NoExempt => SplitTunnelTight /\ LANExemptionNotADNSHole
  BY <1>1, ExemptionsHold
<1>9. ASSUME NEW k \in Applicable PROVE Holds(k)
  BY <1>3, <1>4, <1>5, <1>6, <1>7, <1>8, <1>9 DEF Applicable, Exempting, Holds
<1> QED BY <1>1, <1>2, <1>9 DEF HealthyRun

\* Only checks that apply to what the run verifies are run.
PendingApplies == phase = "checks" => pending \subseteq Applicable

LEMMA PendingAppliesStep == PendingApplies /\ [Next]_vars => PendingApplies'
<1> SUFFICES ASSUME PendingApplies, [Next]_vars PROVE PendingApplies'
  OBVIOUS
<1> USE DEF PendingApplies, Applicable
<1>1. CASE \/ \E v \in {"verify", "use"}, s \in BOOLEAN : Start(v, s)
           \/ ReadParams \/ Identify \/ Enter \/ Reboot
           \/ \E owed \in BOOLEAN : Lookup(owed)
           \/ \E written \in BOOLEAN : Report(written)
  <2>1. phase' # "checks"
    BY <1>1 DEF Start, ReadParams, Identify, Lookup, Enter, Reboot, Report
  <2> QED BY <2>1
<1>2. ASSUME NEW fault \in BOOLEAN, NEW late \in BOOLEAN, Control(fault, late)
      PROVE  PendingApplies'
  BY <1>2 DEF Control, DnsDone
<1>3. ASSUME NEW reply, Attempt(reply) PROVE PendingApplies'
  BY <1>3 DEF Attempt, DnsDone
<1>4. ASSUME NEW B \in Batches, NEW fault \in BOOLEAN, RunChecks(B, fault) PROVE PendingApplies'
  BY <1>4 DEF RunChecks
<1>5. CASE Leave \/ Change \/ Unmark \/ UNCHANGED vars
  BY <1>5 DEF Leave, Change, Unmark, vars
<1> QED BY <1>1, <1>2, <1>3, <1>4, <1>5 DEF Next, Step

LEMMA HealthyStays ==
    ASSUME UNCHANGED hostVars
    PROVE  Healthy' = Healthy
BY DEF hostVars, Healthy, UnitBinariesPresent

LEMMA GreenSoFarStep ==
    ASSUME EndpointElsewhere, ProbesOrdinary, TypeOK, Found, PendingApplies, GreenSoFar,
           [Next]_vars
    PROVE  GreenSoFar'
<1> USE DEF GreenSoFar, LookupOwed
<1>1. ASSUME NEW v \in {"verify", "use"}, NEW s \in BOOLEAN, Start(v, s) PROVE GreenSoFar'
  BY <1>1 DEF Start
<1>2. CASE ReadParams
  <2>1. UNCHANGED <<hostVars, ok, changed, faulty>> /\ phase = "params" /\ phase' = "identity"
    BY <1>2 DEF ReadParams
  <2>2. Healthy => params' = forcing
    BY <1>2, RecordAssumption DEF ReadParams, Healthy
  <2> QED BY <2>1, <2>2, HealthyStays DEF hostVars
<1>3. CASE Identify
  <2>1. UNCHANGED <<hostVars, params, changed, faulty>> /\ phase = "identity" /\ at' = 0
    BY <1>3 DEF Identify
  <2>2. Healthy /\ ~changed => IdentityOk
    <3> SUFFICES ASSUME Healthy, ~changed PROVE IdentityOk
      OBVIOUS
    <3>1. st = [anon |-> Anon, shim |-> Shim] /\ Anon # NoUid /\ Shim # NoUid
      BY <2>1, UidAssumption DEF Found, Healthy
    <3>2. /\ ledger # Unreadable
          /\ ledger.anon = Anon /\ ledger.shim = Shim
      BY RecordAssumption DEF Healthy
    <3> QED BY <3>1, <3>2 DEF IdentityOk
  <2>3. IdentityOk => ok' /\ phase' = "control"
    BY <1>3 DEF Identify
  <2> QED BY <2>1, <2>2, <2>3, HealthyStays DEF hostVars
<1>4. ASSUME NEW fault \in BOOLEAN, NEW late \in BOOLEAN, Control(fault, late)
      PROVE  GreenSoFar'
  <2>1. /\ UNCHANGED <<hostVars, params, changed>> /\ phase = "control"
        /\ faulty' = (faulty \/ fault)
    BY <1>4 DEF Control
  <2>2. CASE fault
    BY <2>1, <2>2
  <2>3. CASE ~fault /\ ~CrossTalk(late)
    <3>1. phase' = "probe" /\ UNCHANGED <<at, ev, ok>>
      BY <1>4, <2>3 DEF Control
    <3> QED BY <2>1, <2>3, <3>1, HealthyStays DEF hostVars
  <2>4. CASE ~fault /\ host.busy
    <3>1. ~Healthy
      BY <2>4 DEF Healthy
    <3> QED BY <2>1, <3>1, HealthyStays
  <2>5. CASE ~fault /\ late
    <3>1. at # 0 /\ ev.owed /\ UNCHANGED ev /\ phase' = "checks"
      BY <1>4, <2>5 DEF Control, CrossTalk, DnsDone
    <3> QED BY <2>1, <3>1, HealthyStays DEF hostVars
  <2> QED BY <2>2, <2>3, <2>4, <2>5 DEF CrossTalk
<1>5. ASSUME NEW owed \in BOOLEAN, Lookup(owed) PROVE GreenSoFar'
  <2>1. /\ UNCHANGED <<hostVars, params, ok, changed, faulty>> /\ phase = "probe" /\ at = 0
        /\ phase' = "control"
        /\ ev' = [emitted |-> host.inProcess \/ host.busy,
                  nssShim |-> (host.inProcess \/ host.busy) /\ TowardShim,
                  owed    |-> owed]
    BY <1>5 DEF Lookup
  <2>2. Healthy /\ ~changed /\ ~faulty => TowardShim /\ host.inProcess
    BY <2>1, HealthyHolds DEF Found
  <2>3. Healthy /\ ~changed /\ ~faulty => ev'.nssShim /\ ev'.emitted
    BY <2>1, <2>2
  <2> QED BY <2>1, <2>3, HealthyStays DEF hostVars
<1>6. ASSUME NEW reply, Attempt(reply) PROVE GreenSoFar'
  <2>1. /\ UNCHANGED <<hostVars, params, changed>> /\ phase = "probe" /\ at # 0 /\ reply \in Replies
        /\ faulty' = (faulty \/ (at = 2 /\ reply # "answer"))
    BY <1>6 DEF Attempt
  <2> SUFFICES ASSUME Healthy, ~changed, ~faulty, ~faulty' PROVE GreenSoFar'
    BY <2>1, HealthyStays
  <2>2. /\ ok \/ ev.owed
        /\ params = forcing /\ ev.nssShim /\ ev.emitted
        /\ TowardShim /\ reply \in {"answer", "servfail", "none"}
    BY <2>1, HealthyHolds DEF Found
  <2>3. CASE RetryWarranted(reply)
    <3>1. phase' = "control" /\ at' = 2 /\ UNCHANGED <<ev, ok>>
      BY <1>6, <2>3 DEF Attempt
    <3> QED BY <2>1, <2>2, <3>1 DEF hostVars
  <2>4. CASE ~RetryWarranted(reply)
    <3>1. reply = "answer"
      <4>1. at < 2 \/ at = 2
        BY <2>1 DEF TypeOK
      <4>2. at < 2 => reply = "answer"
        BY <2>2, <2>4 DEF RetryWarranted
      <4> QED BY <2>1, <4>1, <4>2
    <3>2. DNSHolds(reply)
      BY <2>2, <3>1 DEF DNSHolds
    <3>3. (ok => ok') /\ phase' = "checks" /\ UNCHANGED ev
      BY <1>6, <2>2, <2>4, <3>2 DEF Attempt, DnsDone
    <3> QED BY <2>1, <2>2, <3>3 DEF hostVars
  <2> QED BY <2>3, <2>4
<1>7. ASSUME NEW B \in Batches, NEW fault \in BOOLEAN, RunChecks(B, fault) PROVE GreenSoFar'
  <2>1. /\ UNCHANGED <<hostVars, params, changed, ev>> /\ phase = "checks"
        /\ faulty' = (faulty \/ fault) /\ phase' \in {"checks", "report"}
        /\ ok' = (ok /\ ~fault /\ \A k \in B \cap pending : Holds(k))
    BY <1>7 DEF RunChecks
  <2> SUFFICES ASSUME Healthy, ~changed, ~faulty, ~fault PROVE GreenSoFar'
    BY <2>1, HealthyStays
  <2>2. (ok \/ ev.owed) /\ params = forcing /\ \A k \in Applicable : Holds(k)
    BY <2>1, HealthyHolds DEF Found
  <2>3. pending \subseteq Applicable
    BY <2>1 DEF PendingApplies
  <2> QED BY <2>1, <2>2, <2>3 DEF hostVars
<1>8. CASE \/ \E written \in BOOLEAN : Report(written)
           \/ Enter \/ Leave \/ Unmark \/ UNCHANGED vars
  <2>1. UNCHANGED <<hostVars, params, changed, faulty, ok, at, ev>>
    BY <1>8 DEF Report, Enter, Leave, Unmark, vars
  <2>2. phase' \in {"idle", "enter"} \/ phase' = phase
    BY <1>8 DEF Report, Enter, Leave, Unmark, vars
  <2> QED BY <2>1, <2>2, HealthyStays DEF hostVars
<1>9. CASE Change \/ Reboot
  BY <1>9 DEF Change, Reboot
<1> QED BY <1>1, <1>2, <1>3, <1>4, <1>5, <1>6, <1>7, <1>8, <1>9 DEF Next, Step

\* No false alarm: a run on a host as add leaves it, none of whose probes fails but for
\* one forced round trip, and whose lookup left nothing owed, is green, where the probes
\* are ordinary and the endpoint is not the account's own shim.
THEOREM NoFalseAlarm ==
    ASSUME EndpointElsewhere, ProbesOrdinary
    PROVE  Spec => []HealthyIsGreen
<1>1. Init => PendingApplies /\ GreenSoFar
  BY DEF Init, PendingApplies, GreenSoFar
<1>2. TypeOK /\ Found /\ PendingApplies /\ GreenSoFar /\ [Next]_vars
         => (PendingApplies /\ GreenSoFar)'
  BY PendingAppliesStep, GreenSoFarStep
<1>3. GreenSoFar => HealthyIsGreen
  BY DEF GreenSoFar, LookupOwed, HealthyIsGreen
<1> QED BY <1>1, <1>2, <1>3, FoundAlways, PTL DEF Spec

=============================================================================
