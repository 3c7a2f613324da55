-------------------------------- MODULE Flows --------------------------------
(***************************************************************************)
(* The traffic of a host on which an account's two tables come and go: the *)
(* steps of Install, Reconfigure and Remove that load and delete them      *)
(* (each one nft transaction), the boot loader's, and the connections that *)
(* live across them.                                                       *)
(*                                                                         *)
(* The kernel's part (a packet may lack an owner, conntrack keeps the      *)
(* rewrite of a flow's first packet) is as the comments of nftables.go     *)
(* report it measured.                                                     *)
(***************************************************************************)
EXTENDS Ruleset, FiniteSets

CONSTANTS
    MaxConns,       \* bound on the connections open at once
    NoConfig        \* a table that is not loaded

ASSUME NoConfigAssumption == NoConfig \notin Configs /\ MaxConns \in Nat

VARIABLES
    baseline,       \* what the loaded baseline was generated from, or NoConfig
    forcing,        \* what the loaded forcing table was generated from, or NoConfig
    conns           \* conntrack's confirmed entries

vars == <<baseline, forcing, conns>>

\* A loaded table, or none.
Loaded == Configs \union {NoConfig}

\* A connection: whose it is, where its packets go since the rewrite of the first,
\* and the tables that judged the first.
Conn == [owner: Uid, proto: Proto, to: Addr, port: Port, base: Loaded, forced: Loaded]

TypeOK ==
    /\ baseline \in Loaded
    /\ forcing  \in Loaded
    /\ conns    \subseteq Conn

Init ==
    /\ baseline = NoConfig
    /\ forcing  = NoConfig
    /\ conns    = {}

\* A packet as the filter chains see it, and whether it leaves the output hook.
Out(p) == IF forcing # NoConfig /\ p.new THEN Rewrite(forcing, p) ELSE p
Passes(p) ==
    /\ baseline # NoConfig => ~BaselineDrops(baseline, p)
    /\ forcing  # NoConfig => ~ForcingDrops(forcing, p)

\* Faulty variant: a first packet may lack its owner.
ConnectUnowned(p) ==
    /\ p.new
    /\ Passes(Out(p))
    /\ Cardinality(conns) < MaxConns
    /\ conns' = conns \union {[owner |-> p.uid, proto |-> p.proto, to |-> Out(p).to,
                               port |-> Out(p).port, base |-> baseline, forced |-> forcing]}
    /\ UNCHANGED <<baseline, forcing>>

\* The first packet, always with its owner, is accepted, and conntrack confirms
\* the connection.  A dropped one leaves nothing behind, and its retransmission is
\* a first packet again.
Connect(p) ==
    /\ p.uid \in Uid /\ p.new
    /\ Passes(Out(p))
    /\ Cardinality(conns) < MaxConns
    /\ conns' = conns \union {[owner |-> p.uid, proto |-> p.proto, to |-> Out(p).to,
                               port |-> Out(p).port, base |-> baseline, forced |-> forcing]}
    /\ UNCHANGED <<baseline, forcing>>

Close(k) ==
    /\ conns' = conns \ {k}
    /\ UNCHANGED <<baseline, forcing>>

\* Later packets of a connection: not rewritten again, and without their owner
\* when TCP sends them from a deferred context.
Follow(k) ==
    [uid: {k.owner} \union (IF k.proto = "tcp" THEN {NoUid} ELSE {}),
     new: {FALSE}, proto: {k.proto}, to: {k.to}, port: {k.port}]

\* ApplyBaseline and Apply replace their table in one transaction; at boot the
\* loader does.
LoadBaseline(c) == baseline' = c /\ UNCHANGED <<forcing, conns>>
LoadForcing(c)  == forcing' = c /\ UNCHANGED <<baseline, conns>>

\* rm deletes each table, in this order or only one of them.
DeleteForcing  == forcing' = NoConfig /\ UNCHANGED <<baseline, conns>>
DeleteBaseline == baseline' = NoConfig /\ UNCHANGED <<forcing, conns>>

Reboot == baseline' = NoConfig /\ forcing' = NoConfig /\ conns' = {}

Next ==
    \/ \E p \in Packet : Connect(p)
    \/ \E k \in conns : Close(k)
    \/ \E c \in Configs : LoadBaseline(c) \/ LoadForcing(c)
    \/ DeleteForcing \/ DeleteBaseline \/ Reboot

Spec == Init /\ [][Next]_vars

-----------------------------------------------------------------------------
(* Properties. *)

Exempt(c, a, port) == <<a, port>> \in c.exempt

\* Either table alone denies: an attributed packet of the account, first or later,
\* passes a loaded baseline only to loopback or an exemption, and a loaded forcing
\* table only to the account's own shim or an exemption.
EitherTableDenies ==
    \A p \in Packet : LET q == Out(p) IN
        p.uid = Anon /\ Passes(q) =>
            /\ baseline # NoConfig => OnBox(q.to) \/ q \in ToExempt(baseline)
            /\ forcing # NoConfig => q \in ToShim(forcing) \/ q \in ToExempt(forcing)

\* A connection whose first packet was judged by a loaded table sends no packet,
\* attributed or not and whatever is loaded since, off the box, unless every table
\* that judged it exempted the destination ("an unattributable follow-on packet
\* necessarily belongs to a flow whose SYN was already judged").
JudgedStaysIn ==
    \A k \in conns : k.owner = Anon =>
        /\ k.base # NoConfig => OnBox(k.to) \/ Exempt(k.base, k.to, k.port)
        /\ k.forced # NoConfig => OnBox(k.to) \/ Exempt(k.forced, k.to, k.port)

\* With either table loaded no attributed packet of the account carries DNS
\* anywhere but to its own shim: not to a local resolver either.
NoClearDns ==
    \A p \in Of(Anon) \cap ToDns :
        baseline # NoConfig \/ forcing # NoConfig =>
            ~Passes(Out(p)) \/ (forcing # NoConfig /\ Out(p) \in ToShim(forcing))

\* Closure (b): with the forcing table loaded the account reaches its endpoint in
\* no attributed packet, even if an exemption names it.
EndpointClosed ==
    forcing # NoConfig =>
        \A p \in Of(Anon) : Passes(Out(p)) => Out(p) \notin ToEndpoint(forcing)

\* Closure (c): nobody else reaches the account's shim, also on a connection older
\* than the table ("No `ct state new`: see the package doc for the hole it opens").
StrangersKeptOut ==
    forcing # NoConfig =>
        /\ \A p \in Packet : p.uid \in Uid \ {Anon, Shim} /\ p \in ToShim(forcing) => ~Passes(Out(p))
        /\ \A k \in conns : \A q \in Follow(k) :
              q.uid \in Uid \ {Anon, Shim} /\ q \in ToShim(forcing) => ~Passes(q)

\* Every other user's packets, and packets without an owner, are left as they are,
\* and are dropped only if somebody else's reaches for the shim's ports ("anonctl
\* can only ever drop a packet it has positively attributed").
OthersUntouched ==
    \A p \in Packet : p.uid # Anon =>
        /\ Out(p) = p
        /\ ~Passes(p) => /\ forcing # NoConfig
                         /\ p \in ToShim(forcing)
                         /\ p.uid \notin {NoUid, Shim}

\* With both tables of one configuration, the account's IPv4 TCP reaches the relay
\* and its DNS the DNS port, and neither table drops a later packet of it.
ForcedReachesShim ==
    forcing # NoConfig /\ baseline = forcing =>
        \A p \in Of(Anon) : p.to \in V4 /\ p.proto \in {"tcp", "udp"} =>
            LET port == IF p.port = Domain THEN forcing.dns ELSE forcing.relay
                q    == [p EXCEPT !.to = Local4, !.port = port]
            IN (p \in Tcp \union ToDns) /\ p.new /\ p \notin ToExempt(forcing) \union ToShim(forcing)
                 => /\ Out(p) = q /\ Passes(q)
                    /\ \A u \in {Anon, NoUid} : Passes([q EXCEPT !.uid = u, !.new = FALSE])

\* With both tables of one configuration every exempted destination but the
\* endpoint is reached directly ("Without a matching baseline `return` ... the
\* split hole is generated correctly yet never completes").
ExemptReaches ==
    forcing # NoConfig /\ baseline = forcing =>
        \A p \in Of(Anon) \cap ToExempt(forcing) :
            p \notin ToEndpoint(forcing) => Out(p) = p /\ Passes(p)

=============================================================================
