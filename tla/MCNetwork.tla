------------------------------ MODULE MCNetwork ------------------------------
(* Instances of Network for TLC: a gateway, a host behind it, and the calls made at boot. *)
EXTENDS Network

CONSTANTS gateway, far

TwoHosts == {gateway, far}
OnlyGateway == {gateway}

Arp(target) == [call |-> "arp", target |-> target]
PingOf(target) == [call |-> "ping", target |-> target]
Dns(domain) == [call |-> "dns", target |-> domain]
AllAtBoot == <<Arp(gateway), Arp(Self), PingOf(far), Dns("d1")>>

Requests == {Frame("echo_request", far, 0, NoDomain), Frame("arp_request", gateway, 0, NoDomain)}
=============================================================================
