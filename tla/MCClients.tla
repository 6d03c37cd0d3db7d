----------------------------- MODULE MCClients ------------------------------
(* A request with two bids of two couriers, or none. *)
EXTENDS Clients

CONSTANTS alice, bob

Ask(start) ==
    [declaredValue |-> 1, maxPrice |-> 2, maxDeadline |-> start + 3,
     bidDeadline |-> start + 1, disputeWindow |-> 1, refuses |-> {}]
Offer(start, price) ==
    [price |-> price, promisedTime |-> start + 2, reputationE4 |-> 1, refuses |-> {}]
MCAsks == {Ask(0)}
MCOffers == {Offer(0, 1)}
MCRequestTerms == {Ask(start) : start \in 1..MaxTime}
MCBidTerms == {Offer(start, price) : start \in 1..MaxTime, price \in 1..2}
MCPolicies == {[enabled |-> TRUE, maxPrice |-> 2, minDeadlineBuffer |-> 1,
                coSignThreshold |-> 0]}
MCFound == {[asked |-> Ask(1), bids |->
               << [courier |-> alice, offered |-> Offer(1, 1), withdrawn |-> FALSE],
                  [courier |-> bob, offered |-> Offer(1, 2), withdrawn |-> FALSE] >>]}
=============================================================================
