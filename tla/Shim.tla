-------------------------------- MODULE Shim --------------------------------
(***************************************************************************)
(* One account's shim process (internal/shim/shim.go, cmd/anonctl-shim):   *)
(* Run starts the DNS forwarder, then the relay, and both go when the      *)
(* context is cancelled or the relay's listener fails.                     *)
(*                                                                         *)
(* The two halves share no state but the process they live in.  Unless     *)
(* Together, a half takes steps only while the other rests (the relay at   *)
(* its listener, the forwarder with nothing in hand and nothing cached),   *)
(* which leaves out no behaviour of either.                                *)
(***************************************************************************)
EXTENDS DnsForwarder, Relay

CONSTANT Together   \* whether both halves may be busy at once

VARIABLES
    proc,           \* how far Run has got
    cancelled       \* SIGTERM or SIGINT has come

shimVars == <<proc, cancelled>>
vars     == <<forwarderVars, relayVars, shimVars>>

TypeOK ==
    /\ ForwarderTypeOK
    /\ RelayTypeOK
    /\ proc \in {"off", "dns", "serving", "ended"}
    /\ cancelled \in BOOLEAN

Init ==
    /\ ForwarderInit /\ RelayInit
    /\ proc = "off" /\ cancelled = FALSE

-----------------------------------------------------------------------------

DnsRests   == Held(entries) = {} /\ \A s \in Slot : slot[s] = Free
RelayRests == accepting /\ \A c \in Conn : conn[c].at = "free"

\* The addresses are bound, or in use: then Run returns an error.
StartDns ==
    /\ proc = "off"
    /\ \/ StartForwarder /\ proc' = "dns"
       \/ UNCHANGED forwarderVars /\ proc' = "ended"
    /\ UNCHANGED <<relayVars, cancelled>>

StartRelay ==
    /\ proc = "dns"
    /\ \/ Listen /\ UNCHANGED forwarderVars /\ proc' = "serving"
       \/ CloseForwarder /\ UNCHANGED relayVars /\ proc' = "ended"
    /\ UNCHANGED cancelled

Cancel ==
    /\ proc # "off" /\ ~cancelled
    /\ cancelled' = TRUE
    /\ UNCHANGED <<forwarderVars, relayVars, proc>>

\* The goroutines that wait for the context.
DnsTornDown ==
    /\ cancelled /\ bound
    /\ CloseForwarder
    /\ UNCHANGED <<relayVars, shimVars>>

RelayTornDown ==
    /\ cancelled /\ accepting /\ (Together \/ DnsRests)
    /\ StopListening
    /\ UNCHANGED <<forwarderVars, shimVars>>

\* Accepting a connection fails.
AcceptFails ==
    /\ accepting /\ (Together \/ DnsRests)
    /\ StopListening
    /\ UNCHANGED <<forwarderVars, shimVars>>

\* Serve returns, and the deferred Close of the forwarder runs.
RunReturns ==
    /\ proc = "serving" /\ ~accepting
    /\ CloseForwarder
    /\ proc' = "ended"
    /\ UNCHANGED <<relayVars, cancelled>>

\* The process ends, with its goroutines, its sockets and the cache: main returned, or
\* it was killed.  systemd may start it again.
Exit ==
    /\ proc # "off"
    /\ clock' = 0 /\ entries' = [k \in Key |-> NoEntry]
    /\ slot' = [s \in Slot |-> Free] /\ legs' = {} /\ bound' = FALSE
    /\ accepting' = FALSE /\ conn' = [c \in Conn |-> Fresh]
    /\ proc' = "off" /\ cancelled' = FALSE

Run == StartDns \/ StartRelay \/ DnsTornDown \/ RelayTornDown \/ RunReturns

Next ==
    \/ Run \/ Cancel \/ AcceptFails \/ Exit
    \/ /\ proc = "serving" \/ (Together /\ proc = "dns")
       /\ Together \/ RelayRests
       /\ ForwarderNext /\ UNCHANGED <<relayVars, shimVars>>
    \/ /\ proc = "serving" /\ (Together \/ DnsRests)
       /\ RelayNext /\ UNCHANGED <<forwarderVars, shimVars>>

Spec == Init /\ [][Next]_vars /\ RelayFairness

-----------------------------------------------------------------------------

\* Every query long enough to be answered gets a reply, an answer or SERVFAIL, over
\* UDP as over TCP, unless the process ends first.  A reply is lost only with the socket
\* it is written to: the listeners' own, which the end of the context or Close shuts on
\* the queries in hand, or the connection of a client that is gone.
EveryQueryReplied ==
    [][\A s \in Slot : slot[s].query.whole /\ slot'[s].query # slot[s].query
          => Deliver(s) \/ LosesReply(s) \/ proc' = "off"]_vars

=============================================================================
