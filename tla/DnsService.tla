------------------------------ MODULE DnsService ------------------------------
(* What the DNS upstream promises its callers and the endpoint: every query  *)
(* gets one reply; an answer only if the endpoint was handed the query, which *)
(* it is at most twice; one connection at a time, and none opened once the    *)
(* forwarder has stopped.                                                     *)
EXTENDS Naturals

CONSTANT Query      \* the queries that may be asked

VARIABLES
    reply,          \* each query's reply: not asked, asked, answered, failed
    handed,         \* how often the endpoint was handed each query
    connected,      \* is there a connection through the endpoint?
    stopped         \* has the forwarder been told to stop?

vars == <<reply, handed, connected, stopped>>

Init ==
    /\ reply     = [q \in Query |-> "none"]
    /\ handed    = [q \in Query |-> 0]
    /\ connected = FALSE
    /\ stopped   = FALSE

Reply(q, from, to) ==
    /\ reply[q] = from
    /\ reply' = [reply EXCEPT ![q] = to]
    /\ UNCHANGED <<handed, connected, stopped>>

Ask(q)    == Reply(q, "none", "asked")
Answer(q) == handed[q] > 0 /\ Reply(q, "asked", "answered")
Fail(q)   == Reply(q, "asked", "failed")

Hand(q) ==
    /\ reply[q] = "asked"
    /\ handed[q] < 2
    /\ handed' = [handed EXCEPT ![q] = @ + 1]
    /\ UNCHANGED <<reply, connected, stopped>>

Connect ==
    /\ ~connected
    /\ ~stopped
    /\ connected' = TRUE
    /\ UNCHANGED <<reply, handed, stopped>>

Disconnect ==
    /\ connected
    /\ connected' = FALSE
    /\ UNCHANGED <<reply, handed, stopped>>

Stop ==
    /\ ~stopped
    /\ stopped' = TRUE
    /\ UNCHANGED <<reply, handed, connected>>

Next ==
    \/ \E q \in Query : Ask(q) \/ Answer(q) \/ Fail(q) \/ Hand(q)
    \/ Connect \/ Disconnect \/ Stop

Spec == Init /\ [][Next]_vars

=============================================================================
