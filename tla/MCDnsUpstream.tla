---------------------------- MODULE MCDnsUpstream ----------------------------
(* Instances of DnsUpstream for TLC.  Queries are numbered in the order they  *)
(* arrive, so there is no symmetry to use.                                    *)
EXTENDS DnsUpstream

=============================================================================
