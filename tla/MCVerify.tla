------------------------------- MODULE MCVerify -------------------------------
(* An instance of Verify for TLC: the two configurations of MCFlows, and hosts  *)
(* that differ from a good one in one thing each.                               *)
EXTENDS Verify

CONSTANTS anon, shimUid, other, nobody, local, local2, lan, lan2, world, local6, world6,
          relay, dns, socks, domain, web, free

torLocal == [relay |-> relay, dns |-> dns, endpoint |-> <<local, socks>>, exempt |-> {}]
lanProxy == [relay |-> relay, dns |-> dns, endpoint |-> <<lan, socks>>,
             exempt |-> {<<lan, socks>>, <<lan, web>>, <<local, web>>}]

MCConfigs     == {torLocal, lanProxy}
MCDefault     == torLocal
MCFirstExempt == [c \in MCConfigs |-> IF c = lanProxy THEN <<lan, web>> ELSE NoExempt]
MCNeighbour   == [a \in Addr |-> IF a = lan THEN lan2 ELSE IF a \in V4 THEN lan ELSE local2]
MCTorShared   == {<<local, socks>>}
MCExitOf      == [e \in Addr \X Port |-> IF e = <<local, socks>> THEN "tor" ELSE "proxy"]

good == [reachable |-> TRUE, inProcess |-> TRUE, nameserver |-> lan, busy |-> FALSE,
         fenced |-> FALSE, vectors |-> [v \in Vectors |-> "safe"],
         baked |-> {[there |-> TRUE, durable |-> TRUE]}]

MCHosts ==
    {good,
     [good EXCEPT !.reachable = FALSE],
     [good EXCEPT !.inProcess = FALSE],
     [good EXCEPT !.inProcess = FALSE, !.busy = TRUE],
     [good EXCEPT !.nameserver = world6],
     [good EXCEPT !.fenced = TRUE],
     [good EXCEPT !.vectors["sudo"] = "escapes"],
     [good EXCEPT !.vectors["setuid:pkexec"] = "opaque"],
     [good EXCEPT !.baked = {[there |-> TRUE, durable |-> FALSE]}]}

\* A change of the host falls between two of these groups, or before or after.
MCBatches ==
    {Checks \ {"anonymized-exit", "shim-ports-closure"}, {"anonymized-exit"}, {"shim-ports-closure"}}
=============================================================================
