------------------------------ MODULE MCFlows ------------------------------
(* An instance of Flows for TLC: one address of each kind, the ports rules     *)
(* name, and two configurations an account may be switched between.            *)
EXTENDS Flows

CONSTANTS anon, shim, other, noUid, local, lan, world, local6, world6,
          relay, dns, socks, domain, web, noConfig

\* Tor on this host, no exemption.
torLocal == [relay |-> relay, dns |-> dns, endpoint |-> <<local, socks>>, exempt |-> {}]
\* A proxy on the LAN, exempted like a web server on the LAN and ones on this host.
lanProxy == [relay |-> relay, dns |-> dns, endpoint |-> <<lan, socks>>,
             exempt |-> {<<lan, socks>>, <<lan, web>>, <<local, web>>, <<local6, web>>}]

MCConfigs == {torLocal, lanProxy}

=============================================================================
