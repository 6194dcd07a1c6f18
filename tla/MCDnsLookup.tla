----------------------------- MODULE MCDnsLookup -----------------------------
(***************************************************************************)
(* DnsLookup for TLC.  The map keeps hosts apart, so all lookups are for   *)
(* one host.                                                               *)
(***************************************************************************)
EXTENDS DnsLookup, TLC

CONSTANTS s1, h1   \* the session and the host of all lookups

OneHost == [l \in Lookup |-> h1]
OneSession == [l \in Lookup |-> s1]

\* Everything, with a DNS server that ends idle connections only.
Faults == Happenings \ {"eof"}
RudeServer == {"eof"}
=============================================================================
