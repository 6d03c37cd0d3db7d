----------------------------- MODULE MCConsole ------------------------------
(* Two requests whose agents' choice is a different index, and one to open. *)
EXTENDS Console, TLC

CONSTANT alice

MCRequestTerms ==
    {[declaredValue |-> 1, maxPrice |-> 2, maxDeadline |-> 4, bidDeadline |-> 2,
      disputeWindow |-> 0, refuses |-> {}]}
Offer(price) == [price |-> price, promisedTime |-> 3, reputationE4 |-> 1, refuses |-> {}]
MCBidTerms == {Offer(1), Offer(2)}
MCPolicies == {NoPolicy}
Bid(price, withdrawn) == [courier |-> alice, offered |-> Offer(price), withdrawn |-> withdrawn]
MCScenes == LET first == <<Bid(1, TRUE), Bid(2, FALSE), Bid(1, FALSE)>>
            IN  {<<first>>, <<first, <<Bid(2, FALSE)>> >>}
Alike == Permutations(Vaults) \cup Permutations(Slots)
=============================================================================
