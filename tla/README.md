# Formal model of anonctl

anonctl gives a Unix account a forced network path: nftables rules redirect the
account's TCP to a per-account shim, the shim relays it through a SOCKS5h endpoint
(Tor or a proxy), DNS goes through the same endpoint, and everything else the account
sends is dropped. This directory holds TLA+ modules of the parts of anonctl whose
correctness depends on order, failure and concurrency, the TLC configurations that
check them, and proofs for the TLA+ proof system.

Paths below are relative to the repository root; `forcing.go` is
`internal/forcing/forcing.go`, `store.go` and `systemd.go` are in `internal/systemd/`,
`verify.go` and `dns.go` in `internal/verify/`, `nftables.go` in `internal/nftables/`;
`dnsupstream.go`, `dnscache.go`, `dnsforwarder.go`, `relay.go` and `shim.go` in
`internal/shim/`.

## Inventory

| Component | State it keeps | Operations | Hard behaviour | What makes it correct | Model |
|---|---|---|---|---|---|
| Forcing lifecycle: `internal/forcing`, `internal/systemd`, `internal/nftables/apply.go`, driven by `runAdd`, `runUpdate`, `runRm` in `main.go` | on disk: accounts, the record (ledger), env file, two rule files per account, two shared unit files, enablement links; live: two nft tables per account, the running shim | Install, Reconfigure, Remove; boot; systemd's supervision | about a dozen effects per command, no rollback, no lock; crash or reboot between any two; in-place rewriting of shared files | an account reported as forced is never direct, now or after a boot; a shim never runs without its rules; after a success all five places agree on the endpoint | `Forcing` |
| DNS upstream: `dnsupstream.go`, `dialUpstream` and `Close` of `dnsforwarder.go` | one shared stream, its waiters by message ID, its read and write locks; the query each goroutine carries | exchange (stream, register, write, wait, retire, retry), the reader, the idle teardown, close | pipelining, reordered and late answers, a shared fate for all queries of a stream, a dial with the mutex held, shutdown beside retries | one stream; each answer to its own question; each query returns within its own budget; retried once | `DnsUpstream`, `DnsService` |
| DNS cache: `dnscache.go` | entries with what they were told and when they expire | get, put, evict | the clock is read before the lock; eviction at the limit | no answer is served past its lifetime, and a live one goes only for want of room | `DnsForwarder` |
| DNS forwarder, failure answers: `dnsforwarder.go`, `dnsfailure.go` | two listeners, a goroutine per datagram and per client connection | receive, look up, exchange, store, reply | failures, a listener that ends alone, shutdown | every query gets an answer or SERVFAIL, over UDP as over TCP, while the socket of its reply is open | `DnsForwarder` |
| Relay: `relay.go` | a listener; per connection two sockets and two copiers | accept, dial, splice, close | either end first, half-close, resets | no relay is cut while both peers are there and neither direction is through; none outlives its peers, if they read | `Relay` |
| Shim process: `shim.go`, `cmd/anonctl-shim` | how far `Run` got, the context | start, cancel, tear down, exit | one half fails, the other runs on | as the two above, across starts and stops | `Shim` |
| nftables rules: `nftables.go`, `baseline.go`, `apply.go`, `lanexempt.go` | the two loaded tables; conntrack's connections | Generate, GenerateBaseline, Apply, Delete | first match wins, redirect before filter, a drop in either table is final, packets without an owner, connections older than a table | with either table the account's direct packets are dropped; with both only the shim path and the exemptions are open | `Ruleset`, `Flows` |
| Claims: `claimEndpoint`, `allocatePortsFor`, `portalloc.go` | the records of other accounts | claim, allocate | check, then write much later | one owner per endpoint and port | not yet: `AddRace` |
| Unit ownership, migration: `store.go`, `hostowned.go`, `export.go` | unit files in three directories | preflight, migrate, export | interrupted moves | the loader is never enabled nowhere | not yet: `Units` |
| Verification and marker: `internal/verify`, `verifyAndMark`, `verifyParams` | the run's evidence; the marker file | read the record, measure DNS, run the checks, report, mark | the host changes under the run, other processes of the account, slow circuits, stale markers | a green report is true of the host, a healthy host gets one, what rests on a report stays true while the host does | `Verify` |
| use, exec, probe: `runUse`, `runExec`, `internal/probe` | the session | verify, then enter; the three checks of probe | what was verified may have changed | no session in an account that was not forced; `jailed` is true of now | `Verify` |
| NSS check, defaults, CLI, runners, fixtures | none worth modelling | sequential | none | table tests suffice | not modelled |

The commands, the shims and the boot sequence interact only through files, nft tables
and systemd; the shim's parts interact through one mutex-guarded structure each. So the
modules are composed where the parts meet and apart where they do not:

- `Forcing` says when each table is loaded, `Flows` what a loaded table does to a packet:
  `Forcing`'s `Denied` (either table alone denies an account) is `EitherTableDenies` of
  `Flows`.
- `DnsForwarder` hands a query to the upstream and gets an answer or an error, which is what
  `DnsService` promises and `DnsUpstream` is checked to implement.
- `Shim` composes `DnsForwarder` and `Relay` into the process.
- `Verify` sends its probes as packets through the tables of `Ruleset`, the same definitions
  `Flows` is about.

## Plan

Written, in this order:

1. `Forcing`, the product's promise, with its runs and `ForcingProofs`.
2. `DnsUpstream`, the most concurrent part of the shim, its abstract specification
   `DnsService`, and `DnsUpstreamProofs`.
3. `Ruleset`, the two tables as chains, `Flows`, the traffic that lives across their loading
   and deletion, `RulesetProofs` and `FlowsProofs`.
4. `DnsForwarder` and `Relay`, composed in `Shim`, and `ShimProofs`.
5. `Verify`, the assertions, the marker and the session, and `VerifyProofs`.

Next:

6. `AddRace`: two adds, claims and ports, beside a shortened `Forcing`.
7. `Units`: ownership and the migration of legacy units, refined by the unit steps of
   `Forcing`.

Proofs: every invariant and action property of the runs and the one refinement has a theorem;
the liveness properties stay with TLC. Still to prove: that what `Forcing` assumes of the
tables (`Denied`, `Direct`) is what `Flows` proves of them; that a verification's `Healthy` is
what `Forcing`'s `SettledAgree` leaves behind; the same for the modules of 6 and 7.

## Forcing

State. `passwd`, `ledger`, `envFile`, `baseFile`, `ruleFile`, `template`, `loader`,
`loaderWants` and `shimWants` are what a reboot keeps; `phase`, `liveBase`, `liveRules`,
`started`, `shimRun` and the commands in progress (`run`) are what it clears. A file's
content is abstracted to the endpoint it names, or to absent, cut short or intact.
`promise`, `settled` and `alone` are history: what anonctl has told the operator about an
account, which accounts had their last command succeed, and which commands had their
account to themselves.

Actions. One action is one external effect of Install, Reconfigure or Remove, named for
it, in the order of the code (`InstallSteps`, `RemoveSteps` list it). Both Install and
Reconfigure pass through the same actions; `AfterUnits` says where they part. Not each
error has an action: `StepError` is any step's failure without effect, except where the
code does something else than return (`LoaderWriteFails`, the two nft deletes whose error
is dropped, `ProvisionHalf`). `Kill`, `Reboot`, `TornFile` and `TornLink` are crashes.
`UsersChange` is the host's activation, or an operator, that creates or deletes the users an add is
about to look at: the reason runAdd looks twice (`RefuseAdd`). Users of an account that is already
forced are not changed from outside: the tables name uids, and an account that is deleted and made
again with another uid is not the account they name.
`Boot` is the loader unit followed by `multi-user.target`; `ShimStart` and `ShimExit` are
systemd and the shim.

Which faults happen is the constant `Faults`, because the interesting question is which
guarantee survives which faults.

| Run | Instance | Checks | Result |
|---|---|---|---|
| `Forcing_lifecycle` | 2 accounts, 1 endpoint, 1 process; error, kill, reboot, shimExit | `TypeOK`, `AddedStayForced`, `ShimHasRules`, `ForcingKept` | holds |
| `Forcing_torn` | 1 account, 2 endpoints, 1 process; every fault | `SettledAgree`, `OnlyRmLifts`, `AddMends` | holds |
| `Forcing_returns` | 2 accounts, 1 process; kill, reboot, shimExit; systemd's fairness | `AddedShimReturns`, `ShimComesBack` | holds |
| `Forcing_v_update` | 2 accounts, 1 process; error, reboot; units declared by the host | `UpdatedStayForced` | violated |
| `Forcing_v_race` | 2 accounts, 2 processes; reboot | `AddedStayForced` | violated |

The two violations are disagreements between the code and what its documents and comments
say of it; `PROJECT.json` quotes both. `update` reports an account as fail-closed whose
enablement links were never made (its `add` had failed before `EnableUnit`), and after the
next boot the account is direct. The last-account check of `rm` is not protected against
another process: an `add` that finishes between the check and the removal loses its loader.

Known limits the model shows without a run of their own:

- `writeFileMode` truncates in place (store.go:580) and `EnableUnit` removes a link before it
  makes it again (store.go:242). Both touch the shared loader on every `add`, so with
  `tornFile` or `tornLink` among the faults `AddedStayForced` fails. That is why
  `Forcing_lifecycle` and the theorem exclude them, and why `Forcing_torn` includes them only
  for properties that survive them. From the cut write to the next command a reboot leaves every
  account direct. `AddMends` says how long that lasts: the next `add` that succeeds mends the
  loader and its link, an `update` only the loader.
- The error path of the loader write removes the shared template (store.go:208), also when
  other accounts are installed on it. That is why `Forcing_returns` has no `error`.
- An `add` that fails after it created the login account and before its baseline is loaded
  (main.go:393, 403) leaves an account with direct egress. It has told the operator so by
  failing; no property is stated about it.
- With two processes `SettledAgree` fails: an add that overlaps an rm can leave the instance
  started with the old endpoint and without a record, and the next add, whose `StartNow` does not
  restart it, reports success over it. The property is therefore checked with one process only.

Bounds. Two accounts are the least at which one account's command can hurt another, and no
code looks at more than two (the only place that looks at all is `HasForcedAccounts`). Two
endpoints are enough to tell old from new. Two processes give the race of `Forcing_v_race`; the
runs that hold have one, and what holds for overlapping commands is proved (`OnlyRmLiftsHolds` for
any overlap, others for adds and updates). `AddMends` speaks of all accounts and `Forcing_torn` has
one: `AddMendsHolds` is for any number. A
reboot, a fault and a command may each happen any number of times: nothing is counted.
Accounts, endpoints and processes are symmetric, and symmetry is used in every run but the
liveness run.

Fairness. `ShimComesBack` assumes weak fairness of `Boot` and `ShimStart`: the boot goes
on, and systemd starts what is wanted and restarts what failed (`Restart=on-failure`,
systemd.go:214). No command is assumed to finish.

## DnsUpstream

State. `query[q]` is the exchange call of query q: its place in the code, attempt, stream,
message ID, buffered channel, whether its stream has delivered anything since it was
written, outcome, and whose answer it got. `stream[s]` is a `dnsStream` with what its peer
still holds. `cur`, `mu`, `closed` are the fields of `dnsUpstream`; `closing` is the local
variable of `close`. `sent` is the endpoint's view.

Actions. One action is one critical section (`u.mu`, `s.mu`, `s.wmu`) or one blocking call
that returns. The check and the act of the timer case are two actions (`Timer`,
`Abandon`), as are the two halves of `close`, because the lock is let go between them.
`Retire` is everything from a failed roundTrip to the next attempt or the return: the
deferred unregister, the retirement of a dead stream, and the classification of the error.
Time is the order of deadlines: all queries have the same timeout, so query q is the q-th to
arrive and `now` counts the deadlines passed. Dead streams no query is on are forgotten, so
the N slots of `Stream` never run out.

| Run | Instance | Checks | Result |
|---|---|---|---|
| `DnsUpstream_all` | 2 queries, 4 IDs; refuse, reset, idle, close | `TypeOK`, `OneStream`, `OwnAnswer`, `IdleSparesQueries`, `TimeoutIsOwn`, `RetriedFirst`, `AnswerKept`, `ImplementsService` | holds |
| `DnsUpstream_returns` | 2 queries, 2 IDs; refuse, other traffic on the stream; liveness | `EveryQueryReturns` | holds |
| `DnsUpstream_v_late` | 2 queries, 4 IDs; reset | `LateQuerySparesStream` | violated |

Violated: a query whose budget ran out while it waited for the mutex still writes, and tears
the fresh stream down, because the budget is looked at before the wait and not after it.

Two more limits the model shows. An answer that comes a whole cycle of IDs late is taken for
the answer to another question (`OwnAnswer` fails with 3 IDs and other traffic; a real cycle
has 65536). A stream that has just answered can be abandoned as silent, because the lock is
let go between the check and the teardown (`Timer`, `Abandon`).

Bounds. Two queries, each with a retry, give up to four attempts on up to three streams, and
every pair of places. With four IDs and no other traffic no ID comes round again within a
run: `OwnAnswer` is checked where IDs do not repeat. With two, the ID space is full with one query
outstanding, the case `register` refuses.
The number of queries is bounded, so the runs do not check for deadlock; `EveryQueryReturns`
does.

Fairness. Time passes and the shim's own goroutines run; nothing is assumed of the endpoint,
of the resolver or of the network.

## Shim: DnsForwarder, Relay, Shim

`DnsForwarder`. A slot is one datagram's goroutine or one client connection. It goes from
`free` (a connection from `idle`) through `lookup`, `exchange` and `store` to `reply`. A key
stands for what `dnsCacheKey` tells apart, `NoKey` for a query that is not cacheable, and an
answer is the record of what `dnsResponseTTL` and `get` look at: response code, truncation,
size, the TTLs of the answer section's records with whether each is of the type asked for, what the
SOA says, and the TTLs of the other two sections, which are counted down and bound nothing. Every reading of the clock is a step of its own before the lock (`now` of a slot),
because the code reads it there: an entry may be younger than the time it is served at.
`ResponseTTL`, `Evicted` and `Remaining` are the rules for holding, making room and counting
down, the last in the width of the field (`Wrap`). `Answer`, `Fail` and `Classify` are what
`exchange` may return and what the client is told of a failure; `LegFails` is a listener that
ends by itself. `Deliver` and `LosesReply` are the write: a datagram's is lost when the socket was
closed (`bound`) by the end of the context or `Close`, a connection's when its client is gone.

`Relay`. A connection is `accepted`, `dialing`, `spliced`, and after `splice` returned `half`
(the endpoint's socket closed) and `shut`. Of each direction the model keeps how much its
source sent, the copier read and the copier wrote, and why the copier ended. What a peer sends
is counted, not named: `io.Copy` keeps the order.

`Shim`. `StartDns`, `StartRelay`, `RunReturns` and `Exit` are `Run` and `main`; the goroutines
that wait for the context are `DnsTornDown` and `RelayTornDown`. The two halves share no state
but the process. With `Together = FALSE` the relay (its listener's end included) moves only
while the forwarder has nothing in hand and nothing cached, and the forwarder only while the
relay listens and has no connection. That leaves out no behaviour of either half, only their
products: a query in hand while the sockets close is `DnsTornDown`'s.

| Run | Instance | Checks | Result |
|---|---|---|---|
| `Shim_both` | 1 datagram slot, 1 client connection, 3 keys, a cache of 2, 3 answers; 1 relayed connection of 1 piece each way; a failing TCP listener, cancellation, exits | `TypeOK`, `CachedIsCurrent`, `ClosesForCause`, `EvictionSparesLive`, `EveryQueryReplied`, `EndingEnds` | holds |

Bounds. With two slots every pair of steps of two queries is there, also for one key: an answer
may be stored by one after the other has read the clock. Three keys on two entries
fill the cache, evict, and replace a key that is held. The TTLs are below, at and above the two caps,
and `MaxClock` lets entries of every lifetime but the longest die; what happens to an entry
depends only on ages, so a later clock adds nothing. `Wrap` is above every TTL. One relayed
connection is enough, because connections share nothing but the listener, and one piece tells
nothing, read and written apart.

Fairness. The goroutines of a connection go on when nothing blocks them. That the peers take what
is written to them is not assumed of the system: it is the premise `PeersRead` of `EndingEnds`.
Nothing is assumed of what a peer sends or closes.

What the model shows of the code without a property of its own:

- `put` makes room in a full cache also for a key that it already holds (dnscache.go:146), so
  another answer may go for nothing. `EvictionSparesLive` allows it: the cache is full.
- `serveUDP` and `serveTCP` return silently when their socket fails, while the relay goes on,
  though shim.go:56 says the shim must not run half-open. A query still in hand is answered.
- After the context is done or `Close`, the reply to a datagram in hand is written to a closed
  socket and the error dropped (dnsforwarder.go:214): that client waits out its own timeout.
  `EveryQueryReplied` names the case. A write is modelled to fail for no other reason than the
  socket or the client.
- An authority or additional record may be served past its TTL, as 1: only the answer section's
  TTLs and the SOA bound how long an answer is held (dnscache.go:356, 402).
- The relay sets no deadline on either socket, so a peer that stops reading keeps a copier in its
  write, and both sockets, for ever (relay.go:111).
- A relayed connection whose account closes its sending side loses what the endpoint has yet
  to send: `splice` returns with the first direction (relay.go:114). `ClosesForCause` is satisfied
  by the one direction that is through.
- The relay dials without a deadline and does not watch the client meanwhile (relay.go:98), so
  `EndingEnds` starts from a spliced connection.

## Ruleset and Flows

`Ruleset` translates the text `Generate` and `GenerateBaseline` write. A rule is the set of
packets it matches and a verdict, a chain a sequence of rules (`AnonNat`, `AnonFilter`,
`ShimPorts`, `FilterOut`, `BaselineOut`), and `Verdict` is the first match. A packet is its
socket's owner (or none: the kernel cannot tell it for much of a bulk transfer), whether it is
the first of its flow, protocol, address and port. An exemption is the set of address and
port pairs it stands for; `ConfigOK` is what `lanexempt.Parse`, `Params.validate` and
`slotPorts` let through. The shim's own chain accepts everything and so has no sequence.

`Flows` adds what is loaded and which connections are open. `LoadBaseline`, `LoadForcing`,
`DeleteForcing` and `DeleteBaseline` are Apply, ApplyBaseline, Delete and DeleteBaseline, in
any order: `Forcing` restricts the order, and these properties need no such restriction.
`Connect` is a first packet that both tables let pass; it is judged with its owner, rewritten
once, and the rewrite stays with the connection. `Follow` are the later packets of a
connection, which for TCP may lack their owner. That first packets (and their
retransmissions) always have an owner is the kernel's behaviour as nftables.go:72 reports it
measured, and is assumed.

| Run | Instance | Checks | Result |
|---|---|---|---|
| `Flows_tables` | 2 configurations, 3 users, 5 addresses, 5 ports, 1 connection | `TypeOK`, `EitherTableDenies`, `JudgedStaysIn`, `NoClearDns`, `EndpointClosed`, `StrangersKeptOut`, `OthersUntouched`, `ForcedReachesShim`, `ExemptReaches` | holds |

Bounds. There is one address and one port of each kind the rules tell apart (loopback and
other, IPv4 and IPv6, private and public; relay, DNS port, endpoint's port, 53, another), and
one user of each kind (the account, its shim, a stranger). The two configurations are Tor on
this host without exemptions, and a proxy on the LAN with exemptions on the LAN, on both
loopbacks, and of the endpoint itself, so that loading one over the other changes what an open
connection meets. No property relates two connections, so one at a time shows all of them.

A limit of what `JudgedStaysIn` promises: a connection opened while neither table was loaded
(before `add`, or between an `rm` and the next `add`) was judged by neither, and the packets of
it that carry no owner leave directly after both are loaded. nftables.go:76 says an
unattributable packet "necessarily belongs to a flow whose SYN was already judged", which is
so only of connections younger than the tables; its attributed packets are dropped, so such a
connection does not get far.

## Verify

State. What verify looks at: `passwd`, the two loaded tables (`baseline`, `forcing`, and
`closed`, whether the table has the closure of the shim's ports), the record (`ledger`), the
running shim, and `host`, the rest. What it keeps: what it read (`st`, `params`), where it is
(`phase`, `at`, `pending`), the DNS evidence (`ev`) and whether all held so far (`ok`). What it
leaves behind: `marker` and `session`. `changed`, `faulty` and `stale` are history: whether the
host changed under the run, whether a probe failed for its own reasons, and whether the host
changed since the run a marker or session rests on.

Actions. `Start`, `ReadParams`, `Identify`, `Control`, `Lookup`, `Attempt`, `RunChecks`,
`Report` and `Enter` are the steps of a run in the order of the code: identity first and
nothing after it if it fails; the DNS measurement with its control window, lookup and up to
two forced round trips, each after a control window of its own; then the other checks, which
the code runs concurrently and the model in any order; then the report, the marker and, for
use and exec, the second look at passwd. `Change`, `Unmark` and `Reboot` are everybody else:
add, update, rm and the boot change one part at a time.

A probe is the packet it sends. `Out` rewrites it as the loaded tables do, `Passes` says
whether they let it leave, and `Escapes`, `Connects` and `TakenByRelay` what the counter, the
dial or the relay sees of it. Each assertion is a predicate of that (`LeakDropV4`,
`ShimPortsClosure`, ...), so whether a probe can tell a broken table from a good one is a
result, not an assumption. An assertion whose probe cannot run is red (`fault`).

| Run | Instance | Checks | Result |
|---|---|---|---|
| `Verify_runs` | 2 configurations, 9 hosts, 4 users, 7 addresses, 6 ports, 1 change of the host | `TypeOK`, `GreenMeansForced`, `HealthyIsGreen`, `ClaimsStand`, `JailedIsConfined`, `RunAdvances` | holds |
| `Verify_v_late` | the same | `CrossTalkIsForeign` | violated |

`GreenMeansForced` is the point of verify: a green report of a host that did not change under
the run implies that every packet the account can send goes to its shim, to an exemption, or
nowhere, that the shim runs behind that table, is closed to strangers and will start again,
and that traffic leaves by the endpoint. `HealthyIsGreen` is its converse for a host as add
leaves it: no false alarm, through one round trip that is lost or slow, since a red report locks the
operator out of use. It has one premise on the run itself: that its own lookup left no reply owed
(`ev.owed`). `Verify_v_late` shows why: getent is killed at its deadline while the shim's exchange
may take longer, the shim's late reply moves `shim-reply` in the control window of the round trip
that follows, and the measurement is given up as another process's, though nothing else runs.
A round trip's own reply cannot be late in this way, because its deadline (20 s) is longer than the
exchange's (10 s). `JailedIsConfined` needs no assumption on how old the marker is.

Bounds. The two configurations are those of `Flows_tables`. Each host differs from a good one
in one thing verify looks for, and a change combines one of them with a wrong table, record,
account or shim. One change is enough for the invariants: they speak of a host that did not
change during the run, and a change before the run makes the host that the run then meets. The checks are run in three
groups because only what falls between them matters, a change of the host. There is no
fairness: `RunAdvances` shows that every step of a run gets it nearer its end, which needs the
retries to be bounded and nothing of the probes but their deadlines.

What the model shows of the code without a property of its own:

- Nothing in verify looks at the baseline table, so a green report says nothing of the time
  before the forcing table is loaded at the next boot.
- `icmp-drop` pings an address of TEST-NET-1, which answers nobody: it is green with no table
  at all, though verify.go:1064 says it proves the drop. `leak-drop-v6` dials a port of ::1 that
  nobody listens on, and is green for the same reason. `GreenMeansForced` holds without
  either, because the other probes imply what these are for.
- Of the exemptions only the first is probed. One that is loaded but not recorded goes
  unnoticed. If the first is the endpoint itself, or its neighbour is 127.0.0.1, the assertions
  about it are red on a healthy host; so they are if it is a network (`--allow` takes a CIDR)
  that holds the neighbour which `nonExemptLANOf` picks in the same /24 (probes_live.go:572),
  since the neighbour is then exempt as well. `HealthyIsGreen` is checked for none of these, and
  its theorem names them.
- When the recorded endpoint is not Tor's and the running shim still has another endpoint that
  answers, the report is green: only the exit's difference from the host's address is checked.
- A single query of another process that falls between a control window and the reading is
  taken for the probe's, as dns.go:328 says itself; `busy` is a process that the control window
  hears.
- `update` leaves the class of endpoint in the marker as it was. One killed after its record was
  written leaves the shim on an endpoint that the record no longer claims.

## Proofs

All proofs are for every value of the constants that satisfies the modules' assumptions, which
TLC evaluates in the runs. Some theorems have hypotheses of their own, named where they are
stated. The runs satisfy them: one process gives `RmAlone`, `Apart` and `OneAtATime`, `Faults` of
`Forcing_lifecycle` and `Forcing_returns` the other two of `Forcing`, 2 queries and 4 IDs
`N < W`, and the two configurations `EndpointElsewhere` and `ProbesOrdinary`.

`ForcingProofs` proves, for any accounts, endpoints, processes and faults, both kinds of host,
`HostOwned` or not, and any interleaving the hypotheses leave:

| Theorem | States | Hypotheses |
|---|---|---|
| `TypeCorrect` | `TypeOK` | none |
| `OnlyRmLiftsHolds` | `OnlyRmLifts` | none |
| `SettledAccountsAgree` | `SettledAgree` | `[]Apart`: no two commands in progress on one account |
| `AddMendsHolds` | `AddMends` | `[]OneAtATime`: no two commands in progress |
| `SupportsStand`, `AddedAreForced` | `ForcingKept`, `AddedStayForced` | `NoTornWrites`, `[]RmAlone`: nothing runs beside an rm |
| `ShimsHaveRules` | `ShimHasRules` | the same |
| `AddedShimsReturn` | `AddedShimReturns` | the same, and `NoStepErrors` |

Adds and updates may overlap in all of them but `SettledAccountsAgree` and `AddMendsHolds`. `RmAlone` is what an
operator who types one command after the other gives; nothing in the code enforces it, and
`Forcing_v_race` shows what happens without it. `Apart` is weaker on other accounts and
stronger on one's own. The known limits say why the two assumptions on faults are there.

Each needs an invariant of its own. `AddedStayForced` says nothing of the disk, and a reboot
brings up what is on disk: `ForcingKept` adds what an added account rests on (baseline file,
loader unit, loader link), what an install has achieved by each step, and that the shared units
are taken down only when no account has a rule file. `ShimHasRules` says nothing of a shim that
is about to start: `RulesKept` adds that whatever may start one (the link, systemd's wish) has
its rules, and that an rm is past its stop (`StoppedByRm`) when it deletes them. `AgreeKept`
adds to `SettledAgree` what each step of an add or update has brought into agreement by then;
`ReturnsKept` adds to `AddedShimReturns` the same for links, template and env file.
`MendKept` says what a command has repaired of the loader and its link by each step.
`OnlyRmLifts` needs `DownAtBoot`: between a reboot and the loader no command is in progress.
There is a lemma per group of steps, because each step disturbs few conjuncts.

`DnsUpstreamProofs` proves, for any number of queries and IDs and any events: `TypeCorrect`,
`OneStreamHolds`, `TimeoutIsOwnHolds` and `RetriedFirstHolds`. The invariant `IInv` adds that
while a query dials there is no live stream and the upstream is not closed (why a dial
cannot make a second one), that a query in roundTrip is on a stream, that only a late query
abandons one, and that the endpoint has been handed each query at most once per attempt. There
is a lemma per action, most of them through `CallStep` (one call changes) and `StreamStepInv`
(streams only die).

`DnsServiceProofs` proves `AnswerKeptHolds` and the refinement: `ServiceImplemented` is
`Spec => ImplementsService`. Under the mapping most steps of `DnsUpstream` stutter; arriving is
`Ask`, a write that succeeds is `Hand`, a dial is `Connect`, whatever ends a stream is
`Disconnect`, a return is `Answer` or `Fail`, and the first half of close is `Stop`. To
`IInv` it adds `HandedInv`, that a query whose answer is under way was handed to the endpoint.

`DnsAnswersProofs` proves `OwnAnswer` and `IdleSparesQueries`, both of which rest on message
IDs. It does so in two halves. `AnswersStand` and `WaitersSpared` hold under `[]NoReuse`, that
an ID is not given out while a query or an answer still owed bears it, for any number of
queries, with every event and with other traffic on the stream. `OwnInv` says whose a waiter,
a buffered answer and an owed answer are. `IdsNotReused` shows `[]NoReuse` when fewer queries
come than there are IDs (`N < W`) and nothing else uses the stream's IDs: `CountInv` counts the
queries that may have registered on a living stream, so `nextID` cannot have come round. The
code has 65536 IDs and a new counter per stream. `register` skips the IDs of waiters but not
those of answers still owed, which is why the second half needs a bound and the run has four
IDs.

`RulesetProofs` holds the lemmas about one packet: `FirstMatch` says what `Verdict` of a chain
of up to six rules is, and a lemma per chain says what it lets through; `Redirected`,
`ShimPasses` and `ExemptPasses` say the converse, what becomes of the account's traffic.
`FlowsProofs` and `VerifyProofs` both rest on it.

`FlowsProofs` proves, for any addresses, ports, users, exemptions and number of connections,
every invariant of `Flows`. Every property but `JudgedStaysIn` follows from the types, because it
speaks of what is loaded now. `JudgedStaysIn` is about the past as well, and is inductive: a
connection records what judged it. The assumptions are those `Ruleset` states of the constants;
that a chain's address sets are disjoint is one, and that a configuration passed `Parse` and
`validate` is another, without which `DnsForced` would fail. `ShimReached` alone
needs one that the code does not check, `EndpointElsewhere`: that the endpoint is not one of
the account's own two shim ports. If it is, closure (b) drops what is redirected, so the account
has no network instead of a leak.

`ShimProofs` proves, for any number of slots, keys, connections and pieces, any answers, any
cache size and any TTLs: `TypeCorrect`, `Current`, `ClosedForCause`, `LiveSpared` and
`QueriesReplied`. The invariant `ShimInv` is in three parts. `CacheInv`: the entries can be counted and
are no more than the cache holds, and each is of an answer that may be held and expires when that
answer says. `Owing`: what a slot was asked is kept exactly as long as it owes a reply. `RelayInv`:
written, read and sent are in that order, a direction that ended with its source had
written everything, one that ended otherwise lost a peer, and a splice returned after an end. `HoldTime` says what `ResponseTTL` returns, `ToldIs` what the counting down
tells, `EvictedIs` what making room takes and `StoreIs` what storing does to the whole cache.

`VerifyProofs` proves, for any tables, hosts, users, groups of checks and number of changes:
`TypeCorrect`, `Green`, `Claims`, `JailedHolds` and `Advances`. `GreenMeansForced` is not inductive: in
the middle of a run it says nothing. `Found` adds what each phase has found out: what was read
is still so, what the DNS measurement saw, and that a check no longer pending holds now, all
while nothing has changed; and `AtTheDoor` that what use is about to enter was green. The step
is easy where the host rests (`HoldsStays`: a check depends on nothing the run itself changes).
The substance is in `AllMeanForced`, that the assertions together imply `Forced`, through what
each probe shows of the tables: `DropMeansAnon` (a drop where the probe was sent means that the
table is the account's own), `TowardShimMeans`, `WebRedirected` and `ExitMeans`.

`NoFalseAlarm` is the converse, `HealthyIsGreen`: `GreenSoFar` follows the run of a healthy
host, and `HealthyHolds` shows that each probe of it finds what it is to find. It has two
hypotheses the code does not see to. `EndpointElsewhere` is the one of `ShimReached`.
`ProbesOrdinary` says that nobody listens where a probe is to be refused, and that the
exemption probed is reachable, not the endpoint, and does not cover its own neighbour. The third
premise is in the property: a lookup that left no reply owed. The limits in the section on `Verify` say what verify reports otherwise.

Only model-checked: liveness (`ShimComesBack`, `EveryQueryReturns`, `EndingEnds`), because
fairness and ENABLED are beyond the proof system. `RunAdvances` is proved, and with it that a run
of verify cannot go on for ever. The violated
properties are refuted by TLC's traces.

## Not modelled

- Endpoint and port claims (`claimEndpoint`, `allocatePortsFor`, `portalloc.go`): two pure
  functions over the records, and a read that nothing orders against the later write. `Forcing`
  has neither ports nor exclusive endpoints.
- Unit ownership and the migration of legacy units (`store.go:309`, `hostowned.go`,
  `export.go`): `Forcing` takes the ownership as a constant and starts from a host without
  units of older layouts.
- Of verification: exemptions beyond the first, the registries of Tor exits, how a
  privilege-changing vector is classified, and add's check that the host resolves names in the
  process that asks (`HostResolvesHostsInProcess`). Of probe: its part in the boot.
- The NSS check (`nssbypass.go`), home defaults, command-line parsing, `list` and `status`, the
  test fixture and the process runners: sequential code without state of its own, which table
  tests reach.
- The content of rules and files beyond what the properties tell apart; power loss with
  unsynced writes (a crash here loses processes, not completed writes); `provision` and
  `accountconfig`, which live in another repository and are modelled from how this one calls
  them.
