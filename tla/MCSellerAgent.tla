--------------------------- MODULE MCSellerAgent ----------------------------
(* One request, bids closed at tick 2; the agent prefers trusted couriers or not. *)
EXTENDS SellerAgent

MCRequestTerms ==
    {[declaredValue |-> 2, maxPrice |-> 2, maxDeadline |-> 5, bidDeadline |-> 2,
      disputeWindow |-> 0, refuses |-> {}]}
Offer(price, promisedTime, reputation) ==
    [price |-> price, promisedTime |-> promisedTime, reputationE4 |-> reputation,
     refuses |-> {}]
\* Fast or slow, trusted or not, and one too dear for the agent.
MCBidTerms == {Offer(1, 4, 1), Offer(1, 5, 3), Offer(1, 4, 3), Offer(2, 4, 3)}
MCPolicies ==
    {[enabled |-> TRUE, maxPrice |-> 2, minDeadlineBuffer |-> 0, coSignThreshold |-> 2],
     [enabled |-> TRUE, maxPrice |-> 1, minDeadlineBuffer |-> 1, coSignThreshold |-> 2],
     [enabled |-> TRUE, maxPrice |-> 2, minDeadlineBuffer |-> 0, coSignThreshold |-> 1]}
=============================================================================
