------------------------------- MODULE MCDemo -------------------------------
(* Couriers whose stake covers two deliveries each. *)
EXTENDS Demo

CONSTANTS courier1, courier2, courier3

MCCouriers == <<courier1, courier2, courier3>>
Demos == {EndToEnd, Frontend}
MCRequestTerms == {Asked(d, t) : d \in Demos, t \in 1..MaxTime}
MCBidTerms == {Offered(d, i, t) : d \in Demos, i \in 1..3, t \in 1..MaxTime}
MCPolicies == {d.policy : d \in Demos}
=============================================================================
