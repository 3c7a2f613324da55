------------------------------- MODULE MCShim -------------------------------
(* Values for TLC.  Wrap leaves room for TTLs below and above both caps. *)
EXTENDS Shim

A(ttl)     == [asked |-> TRUE, ttl |-> ttl]
Cname(ttl) == [asked |-> FALSE, ttl |-> ttl]
Resp(rcode, records, soa, others) ==
    [rcode |-> rcode, cut |-> FALSE, large |-> FALSE, records |-> records, soa |-> soa,
     others |-> others]

\* A record set behind a CNAME with an additional record that expires before it, a
\* negative answer, and a failure that carries an SOA.
MCAnswers == {Resp(0, {A(3), Cname(2)}, NoTTL, {1}), Resp(0, {Cname(2)}, 3, {3}),
              Resp(2, {}, 3, {3})}

\* The datagrams ask for one key, or lack a whole header; the connections ask for any
\* key, so that the two may be after the same answer.
MCAsks ==
    LET one == CHOOSE k \in Key : TRUE IN
    [s \in Slot |-> IF s \in Client
        THEN {[key |-> k, whole |-> TRUE, edns |-> FALSE] : k \in Key}
        ELSE {[key |-> one, whole |-> TRUE, edns |-> TRUE],
              [key |-> NoKey, whole |-> FALSE, edns |-> FALSE]}]
=============================================================================
