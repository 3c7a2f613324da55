---------------------------- MODULE RulesetProofs ----------------------------
(***************************************************************************)
(* What the chains of the two tables do to one packet: the facts the       *)
(* theorems on the tables and on the verification rest on.                 *)
(***************************************************************************)
EXTENDS Ruleset, TLAPS

-----------------------------------------------------------------------------
(* First match, and what each chain makes of a packet. *)

LEMMA Least ==
    ASSUME NEW S \in SUBSET (1..6), S # {}
    PROVE  \E m \in S : \A k \in S : m <= k
<1>1. CASE 1 \in S  BY <1>1
<1>2. CASE 1 \notin S /\ 2 \in S  BY <1>2
<1>3. CASE 1 \notin S /\ 2 \notin S /\ 3 \in S  BY <1>3
<1>4. CASE 1 \notin S /\ 2 \notin S /\ 3 \notin S /\ 4 \in S  BY <1>4
<1>5. CASE 1 \notin S /\ 2 \notin S /\ 3 \notin S /\ 4 \notin S /\ 5 \in S  BY <1>5
<1>6. CASE 1 \notin S /\ 2 \notin S /\ 3 \notin S /\ 4 \notin S /\ 5 \notin S
  <2>1. S \subseteq {6}  BY <1>6
  <2>2. S = {6}  BY <2>1
  <2> QED BY <2>2
<1> QED BY <1>1, <1>2, <1>3, <1>4, <1>5, <1>6

LEMMA FirstMatch ==
    ASSUME NEW n \in 1..6, NEW chain, DOMAIN chain = 1..n, NEW p
    PROVE  \/ Verdict(chain, p) = "end" /\ \A i \in 1..n : p \notin chain[i].match
           \/ \E i \in 1..n : /\ p \in chain[i].match
                              /\ Verdict(chain, p) = chain[i].verdict
                              /\ \A j \in 1..n : j < i => p \notin chain[j].match
<1> DEFINE hits == {i \in DOMAIN chain : p \in chain[i].match}
           first == CHOOSE i \in hits : \A j \in hits : i <= j
<1>1. CASE hits = {}
  BY <1>1 DEF Verdict
<1>2. CASE hits # {}
  <2>1. \E m \in hits : \A k \in hits : m <= k
    <3>1. hits \in SUBSET (1..6)  OBVIOUS
    <3> HIDE DEF hits
    <3> QED BY <3>1, <1>2, Least
  <2>2. first \in hits /\ \A k \in hits : first <= k
    <3> HIDE DEF hits
    <3> QED BY <2>1
  <2>3. Verdict(chain, p) = chain[first].verdict
    BY <1>2 DEF Verdict
  <2> HIDE DEF first
  <2> QED BY <2>2, <2>3
<1> QED BY <1>1, <1>2

\* What anon_filter lets through.
LEMMA AnonFilterPasses ==
    ASSUME NEW c, NEW p \in Packet, Verdict(AnonFilter(c), p) # "drop"
    PROVE  p \notin ToEndpoint(c) /\ (p \in ToExempt(c) \/ p \in ToShim(c))
<1> DEFINE chain == AnonFilter(c)
<1>1. /\ DOMAIN chain = 1..6
      /\ chain[1] = Rule(ToEndpoint(c), "drop")
      /\ chain[2] = Rule(ToExempt(c), "accept")
      /\ chain[3] = Rule(ToShim(c), "accept")
      /\ chain[4] = Rule(To(Loop4), "drop")
      /\ chain[5] = Rule(To(V6), "drop")
      /\ chain[6] = Rule(Packet, "drop")
  BY DEF AnonFilter
<1> HIDE DEF chain
<1>2. \/ Verdict(chain, p) = "end" /\ \A i \in 1..6 : p \notin chain[i].match
      \/ \E i \in 1..6 : /\ p \in chain[i].match
                         /\ Verdict(chain, p) = chain[i].verdict
                         /\ \A j \in 1..6 : j < i => p \notin chain[j].match
  BY <1>1, FirstMatch
<1>3. PICK i \in 1..6 : /\ p \in chain[i].match
                        /\ Verdict(chain, p) = chain[i].verdict
                        /\ \A j \in 1..6 : j < i => p \notin chain[j].match
  BY <1>1, <1>2 DEF Rule
<1>4. chain[i].verdict # "drop"  BY <1>3 DEF chain
<1>5. i \in {2, 3}  BY <1>1, <1>4 DEF Rule
<1> QED BY <1>1, <1>3, <1>5 DEF Rule

\* What the baseline lets through.
LEMMA BaselinePasses ==
    ASSUME NEW c, NEW p \in Packet, p.uid = Anon, ~BaselineDrops(c, p)
    PROVE  p \notin ToDns /\ (OnBox(p.to) \/ p \in ToExempt(c))
<1> DEFINE chain == BaselineOut(c)
<1>1. /\ DOMAIN chain = 1..6
      /\ chain[1] = Rule(Of(Anon) \cap ToDns, "drop")
      /\ chain[2] = Rule(Of(Anon) \cap To(Loop4), "return")
      /\ chain[3] = Rule(Of(Anon) \cap To({Local6}), "return")
      /\ chain[4] = Rule(Of(Anon) \cap ToExempt(c), "return")
      /\ chain[5] = Rule(Of(Anon) \cap To(V4 \ Loop4), "drop")
      /\ chain[6] = Rule(Of(Anon) \cap To(V6 \ {Local6}), "drop")
  BY DEF BaselineOut
<1>2. Verdict(chain, p) # "drop"
  BY DEF BaselineDrops
<1> HIDE DEF chain
<1>3. p \in Of(Anon) /\ p.to \in V4 \union V6
  BY DEF Of, Packet, Addr
<1>4. \/ Verdict(chain, p) = "end" /\ \A i \in 1..6 : p \notin chain[i].match
      \/ \E i \in 1..6 : /\ p \in chain[i].match
                         /\ Verdict(chain, p) = chain[i].verdict
                         /\ \A j \in 1..6 : j < i => p \notin chain[j].match
  BY <1>1, FirstMatch
<1>5. ~\A i \in 1..6 : p \notin chain[i].match
  <2>1. \/ p.to \in Loop4 \/ p.to \in V4 \ Loop4 \/ p.to = Local6 \/ p.to \in V6 \ {Local6}
    BY <1>3
  <2>2. p.to \in Loop4 => p \in chain[2].match  BY <1>1, <1>3 DEF Rule, To
  <2>3. p.to = Local6 => p \in chain[3].match  BY <1>1, <1>3 DEF Rule, To
  <2>4. p.to \in V4 \ Loop4 => p \in chain[5].match  BY <1>1, <1>3 DEF Rule, To
  <2>5. p.to \in V6 \ {Local6} => p \in chain[6].match  BY <1>1, <1>3 DEF Rule, To
  <2> QED BY <2>1, <2>2, <2>3, <2>4, <2>5
<1>6. PICK i \in 1..6 : /\ p \in chain[i].match
                        /\ Verdict(chain, p) = chain[i].verdict
                        /\ \A j \in 1..6 : j < i => p \notin chain[j].match
  BY <1>4, <1>5
<1>7. i \in {2, 3, 4}
  BY <1>1, <1>2, <1>6 DEF Rule
<1>8. p \notin ToDns
  BY <1>1, <1>3, <1>6, <1>7 DEF Rule
<1>9. OnBox(p.to) \/ p \in ToExempt(c)
  BY <1>1, <1>6, <1>7 DEF Rule, To, OnBox
<1> QED BY <1>8, <1>9

\* Whom filter_out hands to which chain.
LEMMA FilterOutVerdict ==
    ASSUME NEW c, NEW p \in Packet
    PROVE  /\ p.uid = Anon => Verdict(FilterOut(c), p) = "anon_filter"
           /\ p.uid = Shim => Verdict(FilterOut(c), p) = "shim_filter"
           /\ p.uid \notin {Anon, Shim} =>
                Verdict(FilterOut(c), p) = IF p \in ToShim(c) THEN "shim_ports" ELSE "end"
<1> DEFINE chain == FilterOut(c)
<1>1. /\ DOMAIN chain = 1..3
      /\ chain[1] = Rule(Of(Shim), "shim_filter")
      /\ chain[2] = Rule(Of(Anon), "anon_filter")
      /\ chain[3] = Rule(ToShim(c), "shim_ports")
  BY DEF FilterOut
<1> HIDE DEF chain
<1>2. \/ Verdict(chain, p) = "end" /\ \A i \in 1..3 : p \notin chain[i].match
      \/ \E i \in 1..3 : /\ p \in chain[i].match
                         /\ Verdict(chain, p) = chain[i].verdict
                         /\ \A j \in 1..3 : j < i => p \notin chain[j].match
  BY <1>1, FirstMatch
<1>3. /\ p \in chain[1].match <=> p.uid = Shim
      /\ p \in chain[2].match <=> p.uid = Anon
      /\ p \in chain[3].match <=> p \in ToShim(c)
  BY <1>1 DEF Rule, Of
<1>4. /\ chain[1].verdict = "shim_filter"
      /\ chain[2].verdict = "anon_filter"
      /\ chain[3].verdict = "shim_ports"
  BY <1>1 DEF Rule
<1>5. Anon # Shim  BY UidAssumption
<1>6. Verdict(chain, p) = CASE p.uid = Shim -> "shim_filter"
                            [] p.uid = Anon -> "anon_filter"
                            [] p.uid \notin {Anon, Shim} /\ p \in ToShim(c) -> "shim_ports"
                            [] OTHER -> "end"
  BY <1>2, <1>3, <1>4, <1>5
<1> QED BY <1>5, <1>6 DEF chain

\* shim_ports drops exactly the packets with an owner.
LEMMA ShimPortsVerdict ==
    ASSUME NEW p \in Packet
    PROVE  Verdict(ShimPorts, p) = "drop" <=> p.uid # NoUid
<1> DEFINE chain == ShimPorts
<1>1. DOMAIN chain = 1..1 /\ chain[1] = Rule({x \in Packet : x.uid # NoUid}, "drop")
  BY DEF ShimPorts
<1> HIDE DEF chain
<1>2. \/ Verdict(chain, p) = "end" /\ \A i \in 1..1 : p \notin chain[i].match
      \/ \E i \in 1..1 : /\ p \in chain[i].match
                         /\ Verdict(chain, p) = chain[i].verdict
                         /\ \A j \in 1..1 : j < i => p \notin chain[j].match
  BY <1>1, FirstMatch
<1>3. p \in chain[1].match <=> p.uid # NoUid
  BY <1>1 DEF Rule
<1>4. chain[1].verdict = "drop"
  BY <1>1 DEF Rule
<1> QED BY <1>2, <1>3, <1>4 DEF chain

\* The packets of the account a loaded forcing table lets through.
LEMMA ForcingPasses ==
    ASSUME NEW c, NEW p \in Packet, p.uid = Anon, ~ForcingDrops(c, p)
    PROVE  p \notin ToEndpoint(c) /\ (p \in ToExempt(c) \/ p \in ToShim(c))
<1>1. Verdict(FilterOut(c), p) = "anon_filter"
  BY FilterOutVerdict
<1>2. Verdict(AnonFilter(c), p) # "drop"
  BY <1>1 DEF ForcingDrops
<1> QED BY <1>2, AnonFilterPasses

\* The packets of everybody else: what the tables drop of them.
LEMMA OthersDropped ==
    ASSUME NEW c, NEW p \in Packet, p.uid # Anon
    PROVE  /\ ~BaselineDrops(c, p)
           /\ ForcingDrops(c, p) <=> p \in ToShim(c) /\ p.uid \notin {NoUid, Shim}
<1>1. ~BaselineDrops(c, p)
  <2> DEFINE chain == BaselineOut(c)
  <2>1. /\ DOMAIN chain = 1..6
        /\ \A i \in 1..6 : p \notin chain[i].match
    BY DEF BaselineOut, Rule, Of
  <2> HIDE DEF chain
  <2>2. Verdict(chain, p) = "end"
    BY <2>1, FirstMatch
  <2> QED BY <2>2 DEF BaselineDrops, chain
<1>2. CASE p.uid = Shim
  <2>1. Verdict(FilterOut(c), p) = "shim_filter"
    BY <1>2, FilterOutVerdict
  <2> QED BY <1>1, <1>2, <2>1 DEF ForcingDrops
<1>3. CASE p.uid # Shim
  <2>1. Verdict(FilterOut(c), p) = IF p \in ToShim(c) THEN "shim_ports" ELSE "end"
    BY <1>3, FilterOutVerdict
  <2> QED BY <1>1, <1>3, <2>1, ShimPortsVerdict DEF ForcingDrops
<1> QED BY <1>2, <1>3

LEMMA RewriteKeeps ==
    ASSUME NEW c \in Configs, NEW p \in Packet
    PROVE  /\ Rewrite(c, p) \in Packet
           /\ Rewrite(c, p).uid = p.uid
           /\ Rewrite(c, p).proto = p.proto
           /\ p.uid # Anon => Rewrite(c, p) = p
<1>1. {Local4, Local6} \subseteq Addr
  BY AddrAssumption DEF Addr, V4
<1>2. c.dns \in Port /\ c.relay \in Port
  BY ConfigAssumption DEF Config
<1> DEFINE local == IF p.to \in V6 THEN Local6 ELSE Local4
<1>3. /\ [p EXCEPT !.to = local, !.port = c.dns] \in Packet
      /\ [p EXCEPT !.to = local, !.port = c.relay] \in Packet
  BY <1>1, <1>2 DEF Packet
<1>4. \/ Rewrite(c, p) = [p EXCEPT !.to = local, !.port = c.dns] /\ p.uid = Anon
      \/ Rewrite(c, p) = [p EXCEPT !.to = local, !.port = c.relay] /\ p.uid = Anon
      \/ Rewrite(c, p) = p
  BY DEF Rewrite
<1> HIDE DEF local
<1> QED BY <1>3, <1>4 DEF Packet

\* Neither the relay nor the DNS port is port 53, and no exemption is DNS.
LEMMA DnsNotExempt ==
    ASSUME NEW c \in Configs, NEW p \in Packet, p.port = Domain
    PROVE  p \notin ToShim(c) /\ p \notin ToExempt(c)
<1>1. ConfigOK(c) /\ c.relay # Domain /\ c.dns # Domain
  BY ConfigAssumption, PortAssumption DEF ConfigOK
<1>2. p \notin ToShim(c)
  BY <1>1 DEF ToShim
<1>3. p \notin ToExempt(c)
  <2> SUFFICES ASSUME <<p.to, p.port>> \in c.exempt PROVE FALSE
    BY DEF ToExempt
  <2> QED BY <1>1, PortAssumption DEF ConfigOK
<1> QED BY <1>2, <1>3

\* The nat chain's verdict on the account's DNS.
LEMMA DnsRedirected ==
    ASSUME NEW c \in Configs, NEW p \in Packet, p.uid = Anon, p \in ToDns
    PROVE  Rewrite(c, p) = [p EXCEPT !.to = IF p.to \in V6 THEN Local6 ELSE Local4, !.port = c.dns]
<1> DEFINE chain == AnonNat(c)
<1>1. /\ DOMAIN chain = 1..4
      /\ chain[1] = Rule(ToShim(c), "return")
      /\ chain[2] = Rule(ToExempt(c), "return")
      /\ chain[3] = Rule(ToDns, "dns")
      /\ chain[4] = Rule(Tcp, "relay")
  BY DEF AnonNat
<1> HIDE DEF chain
<1>2. \/ Verdict(chain, p) = "end" /\ \A i \in 1..4 : p \notin chain[i].match
      \/ \E i \in 1..4 : /\ p \in chain[i].match
                         /\ Verdict(chain, p) = chain[i].verdict
                         /\ \A j \in 1..4 : j < i => p \notin chain[j].match
  BY <1>1, FirstMatch
<1>3. p \notin chain[1].match /\ p \notin chain[2].match /\ p \in chain[3].match
  BY <1>1, DnsNotExempt DEF Rule, ToDns
<1>4. Verdict(chain, p) = "dns"
  BY <1>1, <1>2, <1>3 DEF Rule
<1> QED BY <1>4 DEF Rewrite, chain

-----------------------------------------------------------------------------
(* Where the account's traffic goes. *)

\* No account is configured to use its own shim as the endpoint behind it.  Nothing in
\* the code refuses such a configuration; closure (b) then drops what is redirected.
EndpointElsewhere ==
    \A c \in Configs : c.endpoint \notin {<<Local4, c.relay>>, <<Local4, c.dns>>}

\* What the nat chain makes of the account's IPv4 TCP and DNS.
LEMMA Redirected ==
    ASSUME NEW c \in Configs, NEW p \in Packet, p.uid = Anon, p.to \in V4,
           p \in Tcp \union ToDns, p \notin ToExempt(c) \union ToShim(c)
    PROVE  Rewrite(c, p) = [p EXCEPT !.to = Local4,
                                     !.port = IF p.port = Domain THEN c.dns ELSE c.relay]
<1>1. p.to \notin V6
  BY AddrAssumption
<1>2. CASE p \in ToDns
  <2>1. p.port = Domain
    BY <1>2 DEF ToDns
  <2> QED BY <1>1, <1>2, <2>1, DnsRedirected
<1>3. CASE p \notin ToDns
  <2> DEFINE chain == AnonNat(c)
  <2>1. /\ DOMAIN chain = 1..4
        /\ chain[1] = Rule(ToShim(c), "return")
        /\ chain[2] = Rule(ToExempt(c), "return")
        /\ chain[3] = Rule(ToDns, "dns")
        /\ chain[4] = Rule(Tcp, "relay")
    BY DEF AnonNat
  <2> HIDE DEF chain
  <2>2. /\ p \notin chain[1].match /\ p \notin chain[2].match /\ p \notin chain[3].match
        /\ p \in chain[4].match
    BY <1>3, <2>1 DEF Rule
  <2>3. \E i \in 1..4 : /\ p \in chain[i].match
                        /\ Verdict(chain, p) = chain[i].verdict
                        /\ \A j \in 1..4 : j < i => p \notin chain[j].match
    BY <2>1, <2>2, FirstMatch
  <2>4. Verdict(chain, p) = "relay"
    BY <2>1, <2>2, <2>3 DEF Rule
  <2>5. p.port # Domain
    BY <1>3 DEF ToDns, Tcp
  <2> QED BY <1>1, <2>4, <2>5 DEF Rewrite, chain
<1> QED BY <1>2, <1>3

\* Neither table drops what the account, or nobody, sends to the account's shim.
LEMMA ShimPasses ==
    ASSUME EndpointElsewhere, NEW c \in Configs, NEW p \in Packet, p \in ToShim(c),
           p.uid \in {Anon, NoUid}
    PROVE  ~BaselineDrops(c, p) /\ ~ForcingDrops(c, p)
<1>1. CASE p.uid = NoUid
  BY <1>1, UidAssumption, OthersDropped
<1>2. CASE p.uid = Anon
  <2>1. /\ p.to = Local4 /\ p.port \in {c.relay, c.dns} /\ p.port # Domain
        /\ p \notin ToEndpoint(c)
    BY ConfigAssumption, PortAssumption DEF ToShim, ConfigOK, ToEndpoint, EndpointElsewhere
  <2>2. ~ForcingDrops(c, p)
    <3> DEFINE chain == AnonFilter(c)
    <3>1. /\ DOMAIN chain = 1..6
          /\ chain[1] = Rule(ToEndpoint(c), "drop")
          /\ chain[2] = Rule(ToExempt(c), "accept")
          /\ chain[3] = Rule(ToShim(c), "accept")
      BY DEF AnonFilter
    <3> HIDE DEF chain
    <3>2. p \notin chain[1].match /\ p \in chain[3].match
      BY <2>1, <3>1 DEF Rule
    <3>3. \E i \in 1..6 : /\ p \in chain[i].match
                          /\ Verdict(chain, p) = chain[i].verdict
                          /\ \A j \in 1..6 : j < i => p \notin chain[j].match
      BY <3>1, <3>2, FirstMatch
    <3>4. Verdict(chain, p) = "accept"
      BY <3>1, <3>2, <3>3 DEF Rule
    <3>5. Verdict(FilterOut(c), p) = "anon_filter"
      BY <1>2, FilterOutVerdict
    <3> QED BY <3>4, <3>5 DEF ForcingDrops, chain
  <2>3. ~BaselineDrops(c, p)
    <3> DEFINE chain == BaselineOut(c)
    <3>1. /\ DOMAIN chain = 1..6
          /\ chain[1] = Rule(Of(Anon) \cap ToDns, "drop")
          /\ chain[2] = Rule(Of(Anon) \cap To(Loop4), "return")
      BY DEF BaselineOut
    <3> HIDE DEF chain
    <3>2. p \notin chain[1].match /\ p \in chain[2].match
      BY <1>2, <2>1, <3>1, AddrAssumption DEF Rule, ToDns, Of, To
    <3>3. \E i \in 1..6 : /\ p \in chain[i].match
                          /\ Verdict(chain, p) = chain[i].verdict
                          /\ \A j \in 1..6 : j < i => p \notin chain[j].match
      BY <3>1, <3>2, FirstMatch
    <3>4. Verdict(chain, p) = "return"
      BY <3>1, <3>2, <3>3 DEF Rule
    <3> QED BY <3>4 DEF BaselineDrops, chain
  <2> QED BY <2>2, <2>3
<1> QED BY <1>1, <1>2

\* What is exempt, and not the endpoint, is left as it is and let through.
LEMMA ExemptPasses ==
    ASSUME NEW c \in Configs, NEW p \in Packet, p.uid = Anon,
           p \in ToExempt(c), p \notin ToEndpoint(c)
    PROVE  Rewrite(c, p) = p /\ ~ForcingDrops(c, p) /\ ~BaselineDrops(c, p)
<1>1. Rewrite(c, p) = p
  <2> DEFINE chain == AnonNat(c)
  <2>1. /\ DOMAIN chain = 1..4
        /\ chain[1] = Rule(ToShim(c), "return")
        /\ chain[2] = Rule(ToExempt(c), "return")
    BY DEF AnonNat
  <2> HIDE DEF chain
  <2>2. Verdict(chain, p) = "return"
    BY <2>1, FirstMatch DEF Rule
  <2> QED BY <2>2 DEF Rewrite, chain
<1>2. ~ForcingDrops(c, p)
  <2> DEFINE chain == AnonFilter(c)
  <2>1. /\ DOMAIN chain = 1..6
        /\ chain[1] = Rule(ToEndpoint(c), "drop")
        /\ chain[2] = Rule(ToExempt(c), "accept")
    BY DEF AnonFilter
  <2> HIDE DEF chain
  <2>2. Verdict(chain, p) = "accept"
    BY <2>1, FirstMatch DEF Rule
  <2>3. Verdict(FilterOut(c), p) = "anon_filter"
    BY FilterOutVerdict
  <2> QED BY <2>2, <2>3 DEF ForcingDrops, chain
<1>3. ~BaselineDrops(c, p)
  <2> DEFINE chain == BaselineOut(c)
  <2>1. /\ DOMAIN chain = 1..6
        /\ chain[1] = Rule(Of(Anon) \cap ToDns, "drop")
        /\ chain[2] = Rule(Of(Anon) \cap To(Loop4), "return")
        /\ chain[3] = Rule(Of(Anon) \cap To({Local6}), "return")
        /\ chain[4] = Rule(Of(Anon) \cap ToExempt(c), "return")
    BY DEF BaselineOut
  <2> HIDE DEF chain
  <2>2. p \in chain[4].match /\ p \notin chain[1].match
    BY <2>1, DnsNotExempt DEF Rule, ToDns, Of
  <2>3. \E i \in 1..6 : /\ p \in chain[i].match
                        /\ Verdict(chain, p) = chain[i].verdict
                        /\ \A j \in 1..6 : j < i => p \notin chain[j].match
    BY <2>1, <2>2, FirstMatch
  <2>4. Verdict(chain, p) = "return"
    BY <2>1, <2>2, <2>3 DEF Rule
  <2> QED BY <2>4 DEF BaselineDrops, chain
<1> QED BY <1>1, <1>2, <1>3

\* UDP other than DNS is left as it is.
LEMMA OtherUdpStays ==
    ASSUME NEW c \in Configs, NEW p \in Packet, p.proto = "udp", p.port # Domain
    PROVE  Rewrite(c, p) = p
<1> DEFINE chain == AnonNat(c)
<1>1. /\ DOMAIN chain = 1..4
      /\ chain[1] = Rule(ToShim(c), "return")
      /\ chain[2] = Rule(ToExempt(c), "return")
      /\ chain[3] = Rule(ToDns, "dns")
      /\ chain[4] = Rule(Tcp, "relay")
  BY DEF AnonNat
<1> HIDE DEF chain
<1>2. p \notin chain[3].match /\ p \notin chain[4].match
  BY <1>1 DEF Rule, ToDns, Tcp
<1>3. Verdict(chain, p) \in {"end", "return"}
  BY <1>1, <1>2, FirstMatch DEF Rule
<1> QED BY <1>3 DEF Rewrite, chain

\* What is sent to IPv6 stays there: `redirect` keeps the family.
LEMMA StaysInV6 ==
    ASSUME NEW c \in Configs, NEW p \in Packet, p.to \in V6
    PROVE  /\ Rewrite(c, p).proto = p.proto
           /\ \/ Rewrite(c, p) = p
              \/ Rewrite(c, p).to = Local6 /\ Rewrite(c, p).port \in {c.relay, c.dns}
<1> DEFINE toDns   == [p EXCEPT !.to = Local6, !.port = c.dns]
           toRelay == [p EXCEPT !.to = Local6, !.port = c.relay]
<1>1. /\ toDns.to = Local6 /\ toDns.port = c.dns /\ toDns.proto = p.proto
      /\ toRelay.to = Local6 /\ toRelay.port = c.relay /\ toRelay.proto = p.proto
  BY DEF Packet
<1>2. Rewrite(c, p) \in {p, toDns, toRelay}
  BY DEF Rewrite
<1> QED BY <1>1, <1>2

=============================================================================
