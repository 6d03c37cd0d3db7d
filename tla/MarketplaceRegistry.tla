------------------------ MODULE MarketplaceRegistry -------------------------
(***************************************************************************)
(* contracts/MarketplaceRegistry.sol: requests, bids and their acceptance, *)
(* which spawns a vault and reserves the courier's stake in the same       *)
(* transaction.  A delivery id is a hash of the seller and a nonce that    *)
(* only grows; here it is that pair.  Hashes of the codes are modelled by  *)
(* whether they are published, a bid's payout address by whether it takes  *)
(* ether; reputation and preferTrusted are for the agents to read.         *)
(*                                                                         *)
(* markHeld and markFinalized are for the vault to call, and DeliveryVault *)
(* calls neither: a request stays Assigned.                                *)
(***************************************************************************)
EXTENDS StakingPool, DeliveryVault

CONSTANTS
    Sellers,
    Registry,           \* this contract's address
    MaxRequests,        \* bound: requests per seller
    MaxBids,            \* bound: bids per request
    NoRequest           \* Stage.None: the id is free

ASSUME RegistryConstants ==
    /\ Registry \in Factories
    /\ MaxRequests \in Nat /\ MaxBids \in Nat

VARIABLES
    sellerNonce,
    requests,           \* by delivery id
    bids,               \* by delivery id, in the order placed
    agentPolicies       \* by seller

registryVars == <<sellerNonce, requests, bids, agentPolicies>>

Ids == Sellers \X (1..MaxRequests)
NoPolicy == [enabled |-> FALSE, maxPrice |-> 0, minDeadlineBuffer |-> 0,
             coSignThreshold |-> 0]

RegistryInit ==
    /\ sellerNonce = [s \in Sellers |-> 0]
    /\ requests = [id \in Ids |-> NoRequest]
    /\ bids = [id \in Ids |-> <<>>]
    /\ agentPolicies = [s \in Sellers |-> NoPolicy]

Opened(id) == requests[id] # NoRequest
InStage(id, stage) == Opened(id) /\ requests[id].stage = stage

-----------------------------------------------------------------------------
(* The seller.                                                             *)

\* policy.enabled: the agent's address is not zero.
SetAgentPolicy(s, policy) ==
    /\ agentPolicies' = [agentPolicies EXCEPT ![s] = policy]
    /\ UNCHANGED <<sellerNonce, requests, bids>>

\* r: declaredValue, maxPrice, maxDeadline, bidDeadline, disputeWindow and
\* whether the buyer's address refuses ether.
Askable(r) ==
    /\ r.declaredValue > 0 /\ r.maxPrice > 0
    /\ r.maxDeadline > now
    /\ r.bidDeadline > now
    /\ r.bidDeadline < r.maxDeadline

OpenRequest(s, r) ==
    LET n == sellerNonce[s] + 1
    IN  /\ n <= MaxRequests                     \* bound
        /\ Askable(r)
        /\ ~Opened(<<s, n>>)
        /\ sellerNonce' = [sellerNonce EXCEPT ![s] = n]
        /\ requests' = [requests EXCEPT ![<<s, n>>] =
             [asked |-> r, hashed |-> FALSE, stage |-> "Open",
              acceptedBid |-> 0, vault |-> NoVault]]
        /\ UNCHANGED <<bids, agentPolicies>>

PublishHashes(id) ==
    /\ InStage(id, "Open")
    /\ ~requests[id].hashed
    /\ requests' = [requests EXCEPT ![id].hashed = TRUE]
    /\ UNCHANGED <<sellerNonce, bids, agentPolicies>>

CancelRequest(id) ==
    /\ InStage(id, "Open")
    /\ requests' = [requests EXCEPT ![id].stage = "Cancelled"]
    /\ UNCHANGED <<sellerNonce, bids, agentPolicies>>

-----------------------------------------------------------------------------
(* Couriers.                                                               *)

\* b: price, promisedTime and whether the payout address refuses ether.
Biddable(id, courier, b) ==
    LET r == requests[id].asked
    IN  /\ InStage(id, "Open")
        /\ now <= r.bidDeadline
        /\ b.price <= r.maxPrice
        /\ b.promisedTime <= r.maxDeadline
        /\ b.promisedTime > now
        /\ FreeCapacityFor(courier) >= r.declaredValue

PlaceBid(id, courier, b) ==
    /\ Biddable(id, courier, b)
    /\ Len(bids[id]) < MaxBids              \* bound
    /\ bids' = [bids EXCEPT ![id] = Append(@,
         [courier |-> courier, offered |-> b, withdrawn |-> FALSE])]
    /\ UNCHANGED <<sellerNonce, requests, agentPolicies>>

\* Bug: the bid is taken out of the list.
WithdrawBidByRemoving(id, i) ==
    /\ InStage(id, "Open")
    /\ i \in DOMAIN bids[id]
    /\ bids' = [bids EXCEPT ![id] =
         [j \in 1..(Len(@) - 1) |-> IF j < i THEN @[j] ELSE @[j + 1]]]
    /\ UNCHANGED <<sellerNonce, requests, agentPolicies>>
WithdrawBid(id, i) ==
    /\ InStage(id, "Open")
    /\ i \in DOMAIN bids[id]
    /\ ~bids[id][i].withdrawn
    /\ bids' = [bids EXCEPT ![id][i].withdrawn = TRUE]
    /\ UNCHANGED <<sellerNonce, requests, agentPolicies>>

-----------------------------------------------------------------------------
(* Acceptance.                                                             *)

\* The constructor parameters of the vault a bid b is accepted into, for a
\* request that asks for r.
Contract(r, b) ==
    [courier |-> b.courier,
     declaredValue |-> r.declaredValue,
     courierFee |-> b.offered.price,
     pickupDeadline |-> b.offered.promisedTime - 1,
     dropoffDeadline |-> b.offered.promisedTime,
     disputeWindow |-> r.disputeWindow,
     refuses |-> b.offered.refuses \cup r.refuses]
TermsOf(id, i) == Contract(requests[id].asked, bids[id][i])

\* What _accept() requires; capacity is asked for again.
Acceptable(id, i) ==
    /\ now <= requests[id].asked.bidDeadline
    /\ requests[id].hashed
    /\ ~bids[id][i].withdrawn
    /\ FreeCapacityFor(bids[id][i].courier) >= requests[id].asked.declaredValue

\* Bug: the request stays open.
AssignAndStayOpen(id, i, v) ==
    requests' = [requests EXCEPT ![id].acceptedBid = i, ![id].vault = v]
Assign(id, i, v) ==
    requests' = [requests EXCEPT ![id].stage = "Assigned",
                                 ![id].acceptedBid = i,
                                 ![id].vault = v]

\* _accept(): the new vault, its registration and its reservation.
Accept(id, i, v) ==
    LET t == TermsOf(id, i)
    IN  /\ Acceptable(id, i)
        /\ SpawnVault(v, t)
        /\ RegisterAndReserve(Registry, v, t.courier, t.declaredValue)
        /\ Assign(id, i, v)
        /\ UNCHANGED <<sellerNonce, bids, agentPolicies>>

\* By the seller.
AcceptBid(id, i, v) ==
    /\ InStage(id, "Open")
    /\ i \in DOMAIN bids[id]
    /\ Accept(id, i, v)

\* Bug: the buffer before the deadline is not asked for.
WithinPolicyUnbuffered(id, i) ==
    LET p == agentPolicies[id[1]]
        r == requests[id].asked
    IN  /\ p.enabled
        /\ bids[id][i].offered.price <= p.maxPrice
        /\ p.coSignThreshold = 0 \/ r.declaredValue <= p.coSignThreshold
\* What the seller's policy lets their agent accept; a threshold of 0 asks
\* for no co-signature.
WithinPolicy(id, i) ==
    LET p == agentPolicies[id[1]]
        r == requests[id].asked
        b == bids[id][i].offered
    IN  /\ p.enabled
        /\ b.price <= p.maxPrice
        /\ b.promisedTime + p.minDeadlineBuffer <= r.maxDeadline
        /\ p.coSignThreshold = 0 \/ r.declaredValue <= p.coSignThreshold

\* By the seller's session key.
AcceptBidByAgent(id, i, v) ==
    /\ InStage(id, "Open")
    /\ i \in DOMAIN bids[id]
    /\ WithinPolicy(id, i)
    /\ Accept(id, i, v)
=============================================================================
