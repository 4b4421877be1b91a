------------------------------ MODULE Protocols -------------------------------
(* The numbers of the protocols netdump knows (netdump-core).                  *)

ETHERTYPE == [ip |-> 2048, ip6 |-> 34525, arp |-> 2054, rarp |-> 32821]
IPPROTO == [tcp |-> 6, udp |-> 17, icmp |-> 1, icmp6 |-> 58]
================================================================================
