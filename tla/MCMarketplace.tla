--------------------------- MODULE MCMarketplace ----------------------------
(* A small instance of Marketplace.                                        *)
EXTENDS Marketplace, TLC

CONSTANTS Windows, Prices, Deadlines

MCRequestTerms ==
    {[declaredValue |-> 2, maxPrice |-> 2, maxDeadline |-> 4, bidDeadline |-> 2,
      disputeWindow |-> w, refuses |-> {}] : w \in Windows}
MCBidTerms ==
    {[price |-> p, promisedTime |-> t, refuses |-> {}] :
        p \in Prices, t \in Deadlines}
MCPolicies ==
    {[enabled |-> TRUE, maxPrice |-> 1, minDeadlineBuffer |-> 1,
      coSignThreshold |-> 0]}
\* Accounts and vaults are interchangeable in every definition and property.
Alike == Permutations(Accounts) \cup Permutations(Vaults)
=============================================================================
