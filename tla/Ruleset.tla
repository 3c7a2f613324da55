------------------------------- MODULE Ruleset -------------------------------
(***************************************************************************)
(* The two nftables tables anonctl loads for an account, as the chains     *)
(* nftables.Generate and nftables.GenerateBaseline write: what each does   *)
(* to one packet at the output hook.                                       *)
(*                                                                         *)
(* A rule is the set of packets it matches and its verdict; a chain is a   *)
(* sequence of rules of which the first match decides.  The nat chain runs *)
(* first, and only for the first packet of a flow (conntrack applies its   *)
(* rewrite to the rest); a drop in either filter chain is final, an accept *)
(* is not.                                                                 *)
(***************************************************************************)
EXTENDS Naturals, Sequences

CONSTANTS
    Uid, Anon, Shim,        \* socket owners; the account's login and shim users
    NoUid,                  \* of a packet whose socket owner the kernel cannot tell
    Loop4, Private, World4, V6,     \* IPv4 loopback, RFC1918 and other; IPv6
    Local4, Local6,         \* 127.0.0.1 and ::1
    Port, Domain,           \* Domain is port 53
    AnonymizerPorts,        \* refused for loopback exemptions: 53, 9050, ...
    Configs                 \* the parameter sets the tables are generated from

V4   == Loop4 \union Private \union World4
Addr == V4 \union V6
OnBox(a) == a \in Loop4 \union {Local6}

\* An exemption is the set of pairs its network and port stand for.
Config == [relay: Port, dns: Port, endpoint: Addr \X Port, exempt: SUBSET (Addr \X Port)]

\* The ports come from slotPorts; --allow passed lanexempt.Parse and
\* Params.validate.
ConfigOK(c) ==
    /\ c.relay # c.dns
    /\ {c.relay, c.dns} \cap AnonymizerPorts = {}
    /\ \A e \in c.exempt :
          \/ /\ OnBox(e[1])
             /\ e[2] \notin AnonymizerPorts \union {c.relay, c.dns, c.endpoint[2]}
          \/ e[1] \in Private /\ e[2] # Domain

ASSUME UidAssumption == {Anon, Shim} \subseteq Uid /\ Anon # Shim /\ NoUid \notin Uid
ASSUME AddrAssumption ==
    /\ Local4 \in Loop4 /\ Local6 \in V6
    /\ Loop4 \cap (Private \union World4) = {} /\ Private \cap World4 = {}
    /\ V4 \cap V6 = {}
ASSUME PortAssumption   == AnonymizerPorts \subseteq Port /\ Domain \in AnonymizerPorts
ASSUME ConfigAssumption == Configs \subseteq Config /\ \A c \in Configs : ConfigOK(c)

\* `new`: the first packet of its flow, or a retransmission of it.  Proto "other"
\* stands for ICMP and all that has no ports.
Proto  == {"tcp", "udp", "other"}
Packet == [uid: Uid \union {NoUid}, new: BOOLEAN, proto: Proto, to: Addr, port: Port]

-----------------------------------------------------------------------------
(* Matches. *)

Of(u)         == {p \in Packet : p.uid = u}
To(S)         == {p \in Packet : p.to \in S}
Tcp           == {p \in Packet : p.proto = "tcp"}
ToDns         == {p \in Packet : p.proto \in {"tcp", "udp"} /\ p.port = Domain}
ToShim(c)     == {p \in Packet : p.to = Local4 /\ \/ p.proto = "tcp" /\ p.port \in {c.relay, c.dns}
                                                  \/ p.proto = "udp" /\ p.port = c.dns}
ToEndpoint(c) == {p \in Packet : p.proto = "tcp" /\ <<p.to, p.port>> = c.endpoint}
ToExempt(c)   == {p \in Packet : p.proto = "tcp" /\ <<p.to, p.port>> \in c.exempt}

Rule(match, verdict) == [match |-> match, verdict |-> verdict]

\* The verdict of the first rule that matches, "end" if none does.
Verdict(chain, p) ==
    LET hits == {i \in DOMAIN chain : p \in chain[i].match} IN
    IF hits = {} THEN "end"
    ELSE chain[CHOOSE i \in hits : \A j \in hits : i <= j].verdict

-----------------------------------------------------------------------------
(* The forcing table (Generate). *)

\* Faulty variant: the catch-all redirect stands before the DNS redirects.
AnonNatRelayFirst(c) ==
    << Rule(ToShim(c), "return"), Rule(ToExempt(c), "return"),
       Rule(Tcp, "relay"), Rule(ToDns, "dns") >>

AnonNat(c) ==
    << Rule(ToShim(c), "return"), Rule(ToExempt(c), "return"),
       Rule(ToDns, "dns"), Rule(Tcp, "relay") >>

\* nat_out: only the anon user's packets jump; `redirect` keeps the family.
Rewrite(c, p) ==
    LET verdict   == Verdict(AnonNat(c), p)
        localhost == IF p.to \in V6 THEN Local6 ELSE Local4
    IN CASE p.uid = Anon /\ verdict = "dns"   -> [p EXCEPT !.to = localhost, !.port = c.dns]
         [] p.uid = Anon /\ verdict = "relay" -> [p EXCEPT !.to = localhost, !.port = c.relay]
         [] OTHER                             -> p

\* Faulty variants: no terminal drop; exemptions before closure (b); exemptions
\* by host, whatever the protocol and port.
AnonFilterOpen(c) ==
    << Rule(ToEndpoint(c), "drop"), Rule(ToExempt(c), "accept"), Rule(ToShim(c), "accept"),
       Rule(To(Loop4), "drop"), Rule(To(V6), "drop") >>

AnonFilterExemptFirst(c) ==
    << Rule(ToExempt(c), "accept"), Rule(ToEndpoint(c), "drop"), Rule(ToShim(c), "accept"),
       Rule(To(Loop4), "drop"), Rule(To(V6), "drop"), Rule(Packet, "drop") >>

AnonFilterHostWide(c) ==
    << Rule(ToEndpoint(c), "drop"), Rule(To({e[1] : e \in c.exempt}), "accept"),
       Rule(ToShim(c), "accept"),
       Rule(To(Loop4), "drop"), Rule(To(V6), "drop"), Rule(Packet, "drop") >>

\* The anon user's closures, ending in the terminal drop.
AnonFilter(c) ==
    << Rule(ToEndpoint(c), "drop"), Rule(ToExempt(c), "accept"), Rule(ToShim(c), "accept"),
       Rule(To(Loop4), "drop"), Rule(To(V6), "drop"), Rule(Packet, "drop") >>

\* Faulty variants: only new connections; packets without an owner as well.
ShimPortsNew == << Rule({p \in Packet : p.uid # NoUid /\ p.new}, "drop") >>
ShimPortsAll == << Rule(Packet, "drop") >>

\* Closure (c): `meta skuid >= 0 drop`.
ShimPorts == << Rule({p \in Packet : p.uid # NoUid}, "drop") >>

FilterOut(c) ==
    << Rule(Of(Shim), "shim_filter"), Rule(Of(Anon), "anon_filter"), Rule(ToShim(c), "shim_ports") >>

\* Each jump target; shim_filter accepts everything, and what falls off the end is
\* accepted by policy.
ForcingDrops(c, p) ==
    LET jump == Verdict(FilterOut(c), p) IN
    \/ jump = "anon_filter" /\ Verdict(AnonFilter(c), p) = "drop"
    \/ jump = "shim_ports" /\ Verdict(ShimPorts, p) = "drop"

-----------------------------------------------------------------------------
(* The resting default-deny (GenerateBaseline). *)

\* Faulty variants: a local resolver is loopback like any other; the exemptions
\* are only the forcing table's.
BaselineOutDns(c) ==
    << Rule(Of(Anon) \cap To(Loop4), "return"),
       Rule(Of(Anon) \cap To({Local6}), "return"),
       Rule(Of(Anon) \cap ToExempt(c), "return"),
       Rule(Of(Anon) \cap To(V4 \ Loop4), "drop"),
       Rule(Of(Anon) \cap To(V6 \ {Local6}), "drop") >>

BaselineOutNoExempt(c) ==
    << Rule(Of(Anon) \cap ToDns, "drop"),
       Rule(Of(Anon) \cap To(Loop4), "return"),
       Rule(Of(Anon) \cap To({Local6}), "return"),
       Rule(Of(Anon) \cap To(V4 \ Loop4), "drop"),
       Rule(Of(Anon) \cap To(V6 \ {Local6}), "drop") >>

BaselineOut(c) ==
    << Rule(Of(Anon) \cap ToDns, "drop"),
       Rule(Of(Anon) \cap To(Loop4), "return"),
       Rule(Of(Anon) \cap To({Local6}), "return"),
       Rule(Of(Anon) \cap ToExempt(c), "return"),
       Rule(Of(Anon) \cap To(V4 \ Loop4), "drop"),
       Rule(Of(Anon) \cap To(V6 \ {Local6}), "drop") >>

BaselineDrops(c, p) == Verdict(BaselineOut(c), p) = "drop"

=============================================================================
