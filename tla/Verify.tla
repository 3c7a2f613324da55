-------------------------------- MODULE Verify --------------------------------
(***************************************************************************)
(* anonctl verify, and use, exec and probe, which rest on it: a run of the *)
(* assertions against a host that may change under it.  A probe is the     *)
(* packet it sends, judged by the loaded tables (Ruleset), and what stands *)
(* where the packet ends; a probe that cannot run makes its assertion red. *)
(*                                                                         *)
(* The tables, the record and the shim change one at a time, as the steps  *)
(* of add, update, rm and the boot change them.  A second verify of the    *)
(* account is, to this one, a process that emits DNS as the account        *)
(* (host.busy).                                                            *)
(***************************************************************************)
EXTENDS Ruleset, FiniteSets

CONSTANTS
    NoConfig,           \* no table, no shim
    Default,            \* endpoint.Default() and the default ports
    Nobody,             \* uid 65534
    OffBox, Loop2,      \* the addresses probed: of the world, and 127.0.0.2
    Free, Web,          \* port 9999 (and others with no listener), and 443
    FirstExempt,        \* the exemption verify probes, per configuration
    NoExempt,           \* ... of a configuration without one
    Neighbour,          \* nonExemptLANOf
    TorShared,          \* the endpoints of class tor-shared
    ExitOf,             \* the address traffic through an endpoint leaves by
    Hosts,              \* the hosts considered
    NoRecord, Unreadable, NoMarker, NoSession,
    Batches,            \* concurrent checks that fall between two changes of the host
    MaxChanges          \* bound on the changes of the host

Vectors   == {"sudo", "setuid:pkexec", "setuid:mullvad-exclude"}
Exempting == {"split-tunnel-tight", "lan-exemption-not-a-dns-hole"}
Checks    == {"anonymized-exit", "unit-binaries-present", "leak-drop-v4", "leak-drop-v6",
              "bypass-loopback-closure", "bypass-endpoint-closure", "shim-ports-closure",
              "icmp-drop", "non-tcp-udp-drop", "no-uid-transition-egress"} \union Exempting

Endpoints == Addr \X Port

\* What verify reads of a host besides the account's own parts.
Host ==
    [reachable: BOOLEAN,        \* the endpoint answers the shim
     inProcess: BOOLEAN,        \* glibc resolves hosts in the process that asks
     nameserver: Addr,          \* of resolv.conf
     busy: BOOLEAN,             \* another process of the account emits DNS, steadily
     fenced: BOOLEAN,           \* another firewall keeps strangers off loopback
     vectors: [Vectors -> {"safe", "escapes", "opaque"}],
     baked: SUBSET [there: BOOLEAN, durable: BOOLEAN]]  \* binaries the units name

ASSUME ValueAssumption ==
    /\ NoConfig \notin Configs /\ Default \in Config /\ ConfigOK(Default)
    /\ Nobody \in Uid \ {Anon, Shim}
    /\ OffBox \in World4 /\ Loop2 \in Loop4 \ {Local4} /\ {Free, Web} \subseteq Port /\ Web # Domain
    /\ FirstExempt \in [Configs \union {Default} -> Endpoints \union {NoExempt}]
    /\ NoExempt \notin Endpoints
    /\ Neighbour \in [Addr -> V4]
    /\ ExitOf \in [Endpoints -> {"tor", "proxy", "host"}]
    /\ Hosts \subseteq Host
    /\ Batches \subseteq SUBSET Checks
    /\ MaxChanges \in Nat

VARIABLES
    passwd,             \* the uids of the account and its shim, NoUid if missing
    baseline, forcing,  \* what the loaded tables were generated from
    closed,             \* the forcing table has closure (c)
    ledger,             \* the account's record
    shim,               \* what the running shim was started with
    host,
    phase, verb, skip,  \* where the run is, its command and --skip-tor-exit-check
    st, params,         \* what the run read of passwd and the record
    at, ev,             \* the DNS measurement it is at, and what its lookup showed
    pending, ok,        \* concurrent checks to run; every assertion held so far
    marker, session,    \* the uid of the marker, and of a session use started
    changes,            \* of the host so far
    changed, faulty,    \* since the run began: the host changed, a probe failed
    stale               \* of "marker" and "session": the host changed since their run began

hostVars  == <<passwd, baseline, forcing, closed, ledger, shim, host>>
claimVars == <<marker, session, stale>>
vars      == <<hostVars, phase, verb, skip, st, params, at, ev, pending, ok, claimVars,
               changes, changed, faulty>>

Pair   == [anon: Uid \union {NoUid}, shim: Uid \union {NoUid}]
Record == [anon: Uid, shim: Uid, config: Configs]
ASSUME RecordAssumption == {NoRecord, Unreadable} \cap Record = {}
Loaded == Configs \union {NoConfig}
Claim  == {"marker", "session"}

TypeOK ==
    /\ passwd \in Pair
    /\ baseline \in Loaded /\ forcing \in Loaded /\ closed \in BOOLEAN
    /\ ledger \in Record \union {NoRecord, Unreadable}
    /\ shim \in Loaded /\ host \in Hosts
    /\ phase \in {"idle", "params", "identity", "control", "probe", "checks", "report", "enter"}
    /\ verb \in {"verify", "use"} /\ skip \in BOOLEAN
    /\ st \in Pair /\ params \in Configs \union {Default}
    /\ at \in 0..2 /\ ev \in [emitted: BOOLEAN, nssShim: BOOLEAN, owed: BOOLEAN]
    /\ pending \subseteq Checks
    /\ marker \in Uid \union {NoMarker} /\ session \in Uid \union {NoSession}
    /\ changes \in 0..MaxChanges
    /\ {ok, changed, faulty} \subseteq BOOLEAN
    /\ stale \in [Claim -> BOOLEAN]
    \* A run past the identity check has an account, and one to verify or enter.
    /\ phase \in {"control", "probe", "checks"} => st \in [anon: Uid, shim: Uid]
    /\ phase \in {"report", "enter"} /\ ok => st \in [anon: Uid, shim: Uid]

\* An account that add just forced, perhaps one whose table is of before 0.11.0.
Init ==
    /\ passwd = [anon |-> Anon, shim |-> Shim]
    /\ \E c \in Configs :
          /\ baseline = c /\ forcing = c /\ shim = c
          /\ ledger = [anon |-> Anon, shim |-> Shim, config |-> c]
    /\ closed \in BOOLEAN
    /\ host \in Hosts
    /\ phase = "idle" /\ verb = "verify" /\ skip = FALSE
    /\ st = passwd /\ params = Default
    /\ at = 0 /\ ev = [emitted |-> FALSE, nssShim |-> FALSE, owed |-> FALSE]
    /\ pending = {} /\ ok = FALSE
    /\ marker = NoMarker /\ session = NoSession /\ stale = [c \in Claim |-> FALSE]
    /\ changes = 0 /\ changed = FALSE /\ faulty = FALSE

-----------------------------------------------------------------------------
(* Packets the probes send, and where they end. *)

Sent(uid, proto, to, port) == [uid |-> uid, new |-> TRUE, proto |-> proto, to |-> to, port |-> port]
FirstPackets(uid)          == [uid: {uid}, new: {TRUE}, proto: Proto, to: Addr, port: Port]

\* What the loaded tables b and f make of a packet; f without closure (c) judges only
\* the account.
RewrittenBy(f, p) == IF f = NoConfig THEN p ELSE Rewrite(f, p)
PassesTables(b, f, withC, q) ==
    /\ b # NoConfig => ~BaselineDrops(b, q)
    /\ f # NoConfig /\ (withC \/ q.uid = Anon) => ~ForcingDrops(f, q)

Out(p) == RewrittenBy(forcing, p)

\* `q` leaves the output hook, and the counters planted behind it see it.
Passes(q) ==
    /\ PassesTables(baseline, forcing, closed, q)
    /\ ~(host.fenced /\ q.uid = Nobody /\ OnBox(q.to))

\* The counter on a probe's destination moves (escapedLeakCounterRuleset); one planted
\* without a port counts whatever goes to the address.
Escapes(p)          == Passes(Out(p)) /\ Out(p) = p
EscapesToAddress(p) == Passes(Out(p)) /\ Out(p).to = p.to

\* Nothing listens on the other ports probed; what is exempted is up.
Listening(q) ==
    \/ shim # NoConfig /\ q.to = Local4 /\ q.port \in {shim.relay, shim.dns}
    \/ \E c \in Configs : <<q.to, q.port>> \in c.exempt

Connects(p) == Passes(Out(p)) /\ Listening(Out(p))

TakenByRelay(p) ==
    Passes(Out(p)) /\ shim # NoConfig /\ Out(p).to = Local4 /\ Out(p).port = shim.relay

\* The address the account's web traffic leaves by: the shim's endpoint's, the
\* host's own when nothing redirects it, none when it fails closed.
ExitIP ==
    LET p == Sent(st.anon, "tcp", OffBox, Web) IN
    CASE Escapes(p) -> "host"
      [] ~Escapes(p) /\ TakenByRelay(p) /\ host.reachable -> ExitOf[shim.endpoint]
      [] OTHER -> "none"

-----------------------------------------------------------------------------
(* The assertions.  Each holds or is red; an error is red too. *)

\* needsHostBaseline decides whether the host's own address was asked for; on the
\* other path the confirmed Tor exit is the proof.
AnonymizedExit ==
    LET tor == params.endpoint \in TorShared IN
    /\ ExitIP # "none"
    /\ ~tor \/ skip => ExitIP # "host"
    /\ tor => ExitIP = "tor" \/ skip

UnitBinariesPresent == host.baked # {} /\ \A b \in host.baked : b.there /\ b.durable

LeakDropV4 == ~Escapes(Sent(st.anon, "udp", OffBox, Free))
\* A dial of ::1; what answers it with a refusal did not reach anything either.
LeakDropV6 == ~Connects(Sent(st.anon, "tcp", Local6, Free))

BypassLoopbackClosure == ~Escapes(Sent(st.anon, "tcp", Loop2, Free))
BypassEndpointClosure == ~Escapes(Sent(st.anon, "tcp", params.endpoint[1], params.endpoint[2]))

\* A stranger's datagram is refused and its SYN unanswered, not even by a reset,
\* and the loaded table is what refused them.
ShimPortsClosure ==
    /\ ~Passes(Sent(Nobody, "udp", Local4, params.dns))
    /\ ~Passes(Sent(Nobody, "tcp", Local4, params.relay))
    /\ forcing # NoConfig /\ closed /\ {forcing.relay, forcing.dns} = {params.relay, params.dns}

\* A ping counts as out when it is answered, and nobody has the TEST-NET-1 address.
PingReplied == FALSE
ICMPDrop    == ~PingReplied

\* A datagram sent without EPERM.
NonTCPUDPDrop == \A port \in {Free, Web} : ~Passes(Out(Sent(st.anon, "udp", OffBox, port)))

\* What could not be classified does not count against the account.
NoUIDTransitionEgress == \A v \in Vectors : host.vectors[v] # "escapes"

SplitTunnelTight ==
    LET e == FirstExempt[params] IN
    /\ Connects(Sent(st.anon, "tcp", e[1], e[2]))
    /\ ~EscapesToAddress(Sent(st.anon, "tcp", Neighbour[e[1]], e[2]))

\* Probed for IPv4 only.
LANExemptionNotADNSHole ==
    LET to == FirstExempt[params][1] IN
    to \in V4 => \A proto \in {"tcp", "udp"} : ~Escapes(Sent(st.anon, proto, to, Domain))

Holds(k) ==
    /\ k = "anonymized-exit"              => AnonymizedExit
    /\ k = "unit-binaries-present"        => UnitBinariesPresent
    /\ k = "leak-drop-v4"                 => LeakDropV4
    /\ k = "leak-drop-v6"                 => LeakDropV6
    /\ k = "bypass-loopback-closure"      => BypassLoopbackClosure
    /\ k = "bypass-endpoint-closure"      => BypassEndpointClosure
    /\ k = "shim-ports-closure"           => ShimPortsClosure
    /\ k = "icmp-drop"                    => ICMPDrop
    /\ k = "non-tcp-udp-drop"             => NonTCPUDPDrop
    /\ k = "no-uid-transition-egress"     => NoUIDTransitionEgress
    /\ k = "split-tunnel-tight"           => SplitTunnelTight
    /\ k = "lan-exemption-not-a-dns-hole" => LANExemptionNotADNSHole

-----------------------------------------------------------------------------
(* The run. *)

\* Root is asked for before anything else by use and exec, and by what the probes
\* run.  A Status that fails is a red report of one line.
Start(v, s) ==
    /\ phase = "idle"
    /\ v = "use" => session = NoSession
    /\ phase' = "params" /\ verb' = v /\ skip' = s
    /\ st' = passwd
    /\ ok' = TRUE /\ changed' = FALSE /\ faulty' = FALSE
    /\ UNCHANGED <<hostVars, params, at, ev, pending, claimVars, changes>>

\* verifyParams: the record, or the defaults if there is none to read.
ReadParams ==
    /\ phase = "params"
    /\ phase' = "identity"
    /\ params' = IF ledger \in {NoRecord, Unreadable} THEN Default ELSE ledger.config
    /\ UNCHANGED <<hostVars, verb, skip, st, at, ev, pending, ok, claimVars, changes, changed, faulty>>

\* IdentityState.Ok: "ok" and "unrecorded".
IdentityOk ==
    /\ st.anon # NoUid /\ st.shim # NoUid
    /\ ledger # Unreadable
    /\ ledger # NoRecord => st = [anon |-> ledger.anon, shim |-> ledger.shim]

\* The precondition, from a second read of the record; if it fails nothing is probed.
Identify ==
    /\ phase = "identity"
    /\ ok' = IdentityOk
    /\ phase' = IF IdentityOk THEN "control" ELSE "report"
    /\ at' = 0
    /\ UNCHANGED <<hostVars, verb, skip, st, params, ev, pending, claimVars, changes, changed, faulty>>

\* The DNS evidence is complete, or cannot be had; the other checks follow.
Applicable == IF FirstExempt[params] = NoExempt THEN Checks \ Exempting ELSE Checks
DnsDone(holds) ==
    /\ ok' = (ok /\ holds)
    /\ phase' = "checks"
    /\ pending' = Applicable
    /\ UNCHANGED <<at, ev>>

\* Faulty variant: no window in which only others' queries are counted.
CrossTalkUnseen(late) == FALSE

\* What moves a counter while the probe does nothing: another process of the account
\* emits DNS, or the shim (`late`) replies, and shim-reply is one of the counters.
CrossTalk(late) == host.busy \/ late

\* measureWithDNSCounters up to the control read; the error is that of all three
\* DNS assertions.  The shim may be late with a reply to the run's own lookup, which
\* ends before the shim's exchange does; a round trip outlasts the exchange.
Control(fault, late) ==
    /\ phase = "control"
    /\ late => at # 0 /\ ev.owed
    /\ faulty' = (faulty \/ fault)
    /\ IF CrossTalk(late) \/ fault
       THEN DnsDone(FALSE)
       ELSE phase' = "probe" /\ UNCHANGED <<at, ev, pending, ok>>
    /\ UNCHANGED <<hostVars, verb, skip, st, params, claimVars, changes, changed>>

Query      == Sent(st.anon, "udp", host.nameserver, Domain)
TowardShim == Passes(Out(Query)) /\ Out(Query).to = Local4 /\ Out(Query).port = params.dns
\* The shim listens where the record says.
ShimListens == shim # NoConfig /\ shim.dns = params.dns

\* getent as the account, between the reads of the counters; killed at its deadline,
\* it may leave a query (`owed`) for the shim still to answer.
Lookup(owed) ==
    /\ phase = "probe" /\ at = 0
    /\ owed => host.inProcess /\ TowardShim /\ ShimListens
    /\ ev' = [emitted |-> host.inProcess \/ host.busy,
              nssShim |-> (host.inProcess \/ host.busy) /\ TowardShim,
              owed    |-> owed]
    /\ phase' = "control" /\ at' = 1
    /\ UNCHANGED <<hostVars, verb, skip, st, params, pending, ok, claimVars, changes, changed, faulty>>

\* What the raw query may come back with: the shim answers every query, but its
\* circuit may be slow and the answer may be lost.
Replies ==
    CASE TowardShim /\ ShimListens ->
            IF host.reachable THEN {"answer", "servfail", "none"} ELSE {"unreachable", "none"}
      [] Passes(Out(Query)) /\ Out(Query) = Query -> {"answer", "none"}
      [] OTHER -> {"none"}

\* Faulty variants: the first attempt decides; attempts without end.
NoRetryWarranted(reply)      == FALSE
RetryWarrantedForever(reply) == TowardShim /\ reply \in {"none", "servfail"}

\* forcedRetryWarranted, within forcedRoundTripAttempts.
RetryWarranted(reply) == at < 2 /\ TowardShim /\ reply \in {"none", "servfail"}

\* dns-remote, dns-nss-not-bypassed and dns-forced-path-answers.
DNSHolds(reply) ==
    /\ ev.nssShim
    /\ ev.emitted
    /\ reply = "answer" /\ TowardShim

\* One forced round trip, and with the last one the verdicts.
Attempt(reply) ==
    /\ phase = "probe" /\ at # 0
    /\ reply \in Replies
    /\ faulty' = (faulty \/ (at = 2 /\ reply # "answer"))
    /\ IF RetryWarranted(reply)
       THEN phase' = "control" /\ at' = 2 /\ UNCHANGED <<ev, pending, ok>>
       ELSE DnsDone(DNSHolds(reply))
    /\ UNCHANGED <<hostVars, verb, skip, st, params, claimVars, changes, changed>>

\* Concurrent checks end, each with its own probes; `fault`: one could not run, or
\* no registry knew a Tor exit for one.  A red one stops nothing.
RunChecks(B, fault) ==
    LET now == B \cap pending IN
    /\ phase = "checks" /\ now # {}
    /\ pending' = pending \ now
    /\ ok' = (ok /\ ~fault /\ \A k \in now : Holds(k))
    /\ faulty' = (faulty \/ fault)
    /\ phase' = IF pending' = {} THEN "report" ELSE "checks"
    /\ UNCHANGED <<hostVars, verb, skip, st, params, at, ev, claimVars, changes, changed>>

\* Faulty variant: every run leaves a marker.
ReportAny(written) ==
    /\ phase = "report"
    /\ IF written THEN marker' = st.anon /\ stale' = [stale EXCEPT !["marker"] = changed]
                  ELSE UNCHANGED <<marker, stale>>
    /\ phase' = IF ok /\ verb = "use" THEN "enter" ELSE "idle"
    /\ UNCHANGED <<hostVars, verb, skip, st, params, at, ev, pending, ok, session, changes, changed, faulty>>

\* A green report leaves a marker, if it can be written; a red one leaves the old.
Report(written) ==
    /\ phase = "report"
    /\ IF ok /\ written THEN marker' = st.anon /\ stale' = [stale EXCEPT !["marker"] = changed]
                        ELSE UNCHANGED <<marker, stale>>
    /\ phase' = IF ok /\ verb = "use" THEN "enter" ELSE "idle"
    /\ UNCHANGED <<hostVars, verb, skip, st, params, at, ev, pending, ok, session, changes, changed, faulty>>

\* Faulty variant: without a look at whether the account is still there.
EnterAny ==
    /\ phase = "enter"
    /\ phase' = "idle"
    /\ session' = passwd.anon /\ stale' = [stale EXCEPT !["session"] = changed]
    /\ UNCHANGED <<hostVars, verb, skip, st, params, at, ev, pending, ok, marker, changes, changed, faulty>>

\* enterAccount reads passwd again, and the process becomes the session's.
Enter ==
    /\ phase = "enter"
    /\ phase' = "idle"
    /\ IF passwd.anon = NoUid THEN UNCHANGED <<session, stale>>
       ELSE session' = passwd.anon /\ stale' = [stale EXCEPT !["session"] = changed]
    /\ UNCHANGED <<hostVars, verb, skip, st, params, at, ev, pending, ok, marker, changes, changed, faulty>>

Leave ==
    /\ session # NoSession
    /\ session' = NoSession
    /\ UNCHANGED <<hostVars, phase, verb, skip, st, params, at, ev, pending, ok, marker, stale,
                   changes, changed, faulty>>

Step ==
    \/ ReadParams \/ Identify \/ Enter
    \/ \E fault, late \in BOOLEAN : Control(fault, late)
    \/ \E owed \in BOOLEAN : Lookup(owed)
    \/ \E reply \in {"answer", "servfail", "unreachable", "none"} : Attempt(reply)
    \/ \E B \in Batches, fault \in BOOLEAN : RunChecks(B, fault)
    \/ \E written \in BOOLEAN : Report(written)

-----------------------------------------------------------------------------
(* The host, which changes for its own reasons and under anonctl's commands. *)

\* add, update, rm and the boot loader change one part after the other; nobody keeps
\* an account as it is.
Tables ==
    \/ \E c \in Loaded : baseline' = c /\ UNCHANGED <<forcing, closed>>
    \/ \E c \in Loaded : forcing' = c /\ closed' = TRUE /\ UNCHANGED baseline

Records ==
    \/ \E c \in Configs : ledger' = [anon |-> passwd.anon, shim |-> passwd.shim, config |-> c]
    \/ ledger' \in {NoRecord, Unreadable}

Accounts ==
    \E u \in (Uid \union {NoUid}) \ {passwd.anon, passwd.shim, Nobody} :
        passwd' \in {[passwd EXCEPT !.anon = u], [passwd EXCEPT !.shim = u]}

Change ==
    /\ changes < MaxChanges
    /\ \/ Tables /\ UNCHANGED <<passwd, ledger, shim, host>>
       \/ /\ NoUid \notin {passwd.anon, passwd.shim}
          /\ Records /\ UNCHANGED <<passwd, baseline, forcing, closed, shim, host>>
       \/ Accounts /\ UNCHANGED <<baseline, forcing, closed, ledger, shim, host>>
       \/ shim' \in Loaded /\ UNCHANGED <<passwd, baseline, forcing, closed, ledger, host>>
       \/ host' \in Hosts /\ UNCHANGED <<passwd, baseline, forcing, closed, ledger, shim>>
    /\ hostVars' # hostVars
    /\ changes' = changes + 1
    /\ changed' = TRUE
    /\ stale' = [c \in Claim |-> TRUE]
    /\ UNCHANGED <<phase, verb, skip, st, params, at, ev, pending, ok, marker, session, faulty>>

\* rm forgets the marker; a reboot ends what ran and loads nothing by itself.
Unmark ==
    /\ marker # NoMarker
    /\ marker' = NoMarker
    /\ UNCHANGED <<hostVars, phase, verb, skip, st, params, at, ev, pending, ok, session, stale,
                   changes, changed, faulty>>

Reboot ==
    /\ changes < MaxChanges
    /\ baseline' = NoConfig /\ forcing' = NoConfig /\ shim' = NoConfig
    /\ phase' = "idle" /\ session' = NoSession
    /\ changes' = changes + 1
    /\ changed' = TRUE
    /\ stale' = [c \in Claim |-> TRUE]
    /\ UNCHANGED <<passwd, closed, ledger, host, verb, skip, st, params, at, ev, pending, ok, marker, faulty>>

Next ==
    \/ \E v \in {"verify", "use"}, s \in BOOLEAN : Start(v, s)
    \/ Step
    \/ Leave \/ Change \/ Unmark \/ Reboot

Spec == Init /\ [][Next]_vars

-----------------------------------------------------------------------------
(* probe's three checks, each read when it is asked. *)

MarkerPresent == marker # NoMarker
UIDAgreement  == marker # NoMarker /\ passwd.anon # NoUid /\ marker = passwd.anon
\* The loaded table has the jump for the account's uid of now.
RulesLoaded   == forcing # NoConfig /\ passwd.anon = Anon

\* Faulty variant: the marker is believed.
JailedMarked == MarkerPresent /\ UIDAgreement

Jailed == MarkerPresent /\ UIDAgreement /\ RulesLoaded

-----------------------------------------------------------------------------
(* Properties. *)

\* The users all of whose packets go to the shim or to an exemption, or nowhere, when
\* the loaded tables are b and f.
ConfinedBy(b, f, withC) ==
    {u \in Uid : \A p \in FirstPackets(u) : LET q == Rewrite(f, p) IN
        PassesTables(b, f, withC, q) => q \in ToShim(f) \/ q \in ToExempt(f)}

Confines ==
    [b \in Loaded |-> [f \in Configs |-> [withC \in BOOLEAN |-> ConfinedBy(b, f, withC)]]]

Confined(uid) == forcing # NoConfig /\ uid \in Confines[baseline][forcing][closed]

\* What a green report claims of an account: it is confined, also in how it resolves
\* names and becomes other users; its shim runs, is closed to strangers, and will start
\* again; and it leaves by another address than the host's.
Forced(uid) ==
    /\ Confined(uid)
    /\ host.inProcess /\ \A v \in Vectors : host.vectors[v] # "escapes"
    /\ shim # NoConfig /\ shim.relay = forcing.relay /\ shim.dns = forcing.dns
    /\ closed
    /\ UnitBinariesPresent
    /\ ExitOf[shim.endpoint] # "host"

\* A green report tells the truth of a host that did not change under it, of one that
\* is recorded as Tor's also that it leaves by Tor.
GreenMeansForced ==
    phase \in {"report", "enter"} /\ ok /\ ~changed =>
        /\ Forced(st.anon) /\ passwd = st
        /\ params.endpoint \in TorShared /\ ~skip => ExitOf[shim.endpoint] = "tor"

\* No false alarm: on a host that is as add leaves it, with its endpoint up, a run none
\* of whose probes fails, but for one round trip that a slow circuit or a lost answer
\* costs, is green.  Its lookup must have left nothing owed: a reply of the shim that is
\* late for it may fall in a later control window (CrossTalkIsForeign).
Healthy ==
    /\ passwd = [anon |-> Anon, shim |-> Shim]
    /\ ledger \in Record /\ ledger = [anon |-> Anon, shim |-> Shim, config |-> forcing]
    /\ baseline = forcing /\ shim = forcing /\ closed
    /\ host.reachable /\ host.inProcess /\ ~host.busy
    /\ host.nameserver \in V4
    /\ \A v \in Vectors : host.vectors[v] # "escapes"
    /\ UnitBinariesPresent
    /\ ExitOf[forcing.endpoint] = IF forcing.endpoint \in TorShared THEN "tor" ELSE "proxy"

HealthyIsGreen ==
    phase = "report" /\ Healthy /\ ~changed /\ ~faulty /\ ~ev.owed => ok

\* A measurement given up because a counter moved in its control window was disturbed
\* by another process of the account (dns_live.go: "a counter that moves here belongs to
\* some other process running as the account").
CrossTalkIsForeign ==
    [][phase = "control" /\ phase' = "checks" /\ ~faulty' => host.busy]_vars

\* What outlives a report stands as long as the host does not change: the marker, and
\* the session use started after its own report.
ClaimsStand ==
    /\ marker # NoMarker /\ ~stale["marker"] => Forced(marker)
    /\ session # NoSession /\ ~stale["session"] => Forced(session)

\* Jailed is true of the tables of now, however old the marker is and whatever
\* changed since.
JailedIsConfined == Jailed => Confined(passwd.anon)

\* A run gets nearer its end with every step of it, so it ends as every probe does, by
\* its deadline: no retry and no red assertion keeps it.
Left ==
    CASE phase = "idle"     -> 0
      [] phase = "enter"    -> 1
      [] phase = "report"   -> 2
      [] phase = "checks"   -> 2 + Cardinality(pending)
      [] phase = "probe"    -> 3 + Cardinality(Checks) + 2 * (2 - at)
      [] phase = "control"  -> 4 + Cardinality(Checks) + 2 * (2 - at)
      [] phase = "identity" -> 9 + Cardinality(Checks)
      [] phase = "params"   -> 10 + Cardinality(Checks)

RunAdvances ==
    [][phase # "idle" /\ <<phase, at, pending>>' # <<phase, at, pending>> => Left' < Left]_vars

=============================================================================
