------------------------------- MODULE Clients ------------------------------
(***************************************************************************)
(* The command-line clients over the market: clients/seller/seller_cli.js, *)
(* clients/courier/courier_cli.js and clients/buyer/buyer_cli.js.  A command *)
(* reads its arguments and the clock when it is typed, sends one            *)
(* transaction and waits for it.  Whoever interrupts it does not call the   *)
(* transaction back, and may type again: an account's transactions are      *)
(* mined in the order they were sent.                                       *)
(***************************************************************************)
EXTENDS Marketplace

CONSTANTS
    Asks,           \* the terms of requests and of bids that users type, whose
    Offers,         \*   times count from when they are typed
    Found,          \* requests found open, with their bids
    MaxCommands,    \* bound: commands typed
    MaxPending      \* bound: transactions of one user on their way

VARIABLES
    sent,           \* by user: the commands whose transaction is on its way
    codesFile,      \* by delivery: which codes are in codes.<id>.json, 0 = no file
    locked,         \* by delivery: the codes whose hashes are on the chain
    draws,          \* by delivery: how often publish-hashes was typed
    typed           \* commands typed so far

clientVars == <<vars, sent, codesFile, locked, draws, typed>>

Users == {"seller", "buyer"} \cup Accounts

\* Times are typed from now and sent as of the clock of the client.
AskedAt(r, t) == [r EXCEPT !.maxDeadline = t + @, !.bidDeadline = t + @]
OfferedAt(b, t) == [b EXCEPT !.promisedTime = t + @]

\* RequestTerms and BidTerms hold whatever the users' terms come to.
ASSUME ClientConstants ==
    /\ {"seller", "buyer"} \cap Accounts = {} /\ Sellers # {}
    /\ \A t \in 1..MaxTime :
         /\ \A r \in Asks : AskedAt(r, t) \in RequestTerms
         /\ \A b \in Offers : OfferedAt(b, t) \in BidTerms
    /\ \A r \in Found :
         /\ r.asked \in RequestTerms /\ r.asked.declaredValue > 0
         /\ r.bids \in Seq([courier : Accounts, offered : BidTerms, withdrawn : BOOLEAN])
         /\ Len(r.bids) <= MaxBids
         /\ \A i \in DOMAIN r.bids : r.bids[i].offered.promisedTime > 1

Seller == CHOOSE s \in Sellers : TRUE

-----------------------------------------------------------------------------
(* Typing.                                                                 *)

\* Commands whose files could depend on the answer; the others only print it.
Continues == {"publish-hashes"}

Types(user, command) ==
    /\ typed < MaxCommands /\ typed' = typed + 1
    /\ Len(sent[user]) < MaxPending                         \* bound
    /\ sent' = [sent EXCEPT ![user] = Append(
          [i \in DOMAIN @ |-> [@[i] EXCEPT !.waited = FALSE]],
          [waited |-> command.do \in Continues, call |-> command])]
    /\ UNCHANGED <<vars, locked>>

\* When a run of publish-hashes writes its codes down: before it sends them.
\* Bug: once their hashes are on the chain.
FileAfterwards(moment, id, codes) ==
    IF moment = "mined" THEN [codesFile EXCEPT ![id] = codes] ELSE codesFile
File(moment, id, codes) ==
    IF moment = "typed" THEN [codesFile EXCEPT ![id] = codes] ELSE codesFile

SellerTypes ==
    \/ /\ \E r \in Asks : Types("seller", [do |-> "open", asked |-> AskedAt(r, now)])
       /\ UNCHANGED <<codesFile, draws>>
    \/ \E id \in Ids :
         /\ Opened(id)
         /\ draws' = [draws EXCEPT ![id] = @ + 1]
         /\ Types("seller", [do |-> "publish-hashes", id |-> id, codes |-> draws'[id]])
         /\ codesFile' = File("typed", id, draws'[id])
    \/ /\ \E id \in Ids : \E i \in DOMAIN bids[id] :
            Types("seller", [do |-> "accept", id |-> id, index |-> i, listed |-> bids[id][i]])
       /\ UNCHANGED <<codesFile, draws>>
    \/ /\ \E p \in Policies : Types("seller", [do |-> "set-agent", policy |-> p])
       /\ UNCHANGED <<codesFile, draws>>

BuyerTypes ==
    /\ \E v \in Vaults, do \in {"fund", "dispute", "cancel"} :
         Deployed(v) /\ Types("buyer", [do |-> do, vault |-> v])
    /\ UNCHANGED <<codesFile, draws>>

DeliveryOf(v) == CHOOSE id \in Ids : Opened(id) /\ requests[id].vault = v

\* The seller hands over what the file holds.
CourierTypes(a) ==
    /\ \/ \E n \in Amounts, do \in {"stake", "withdraw-request"} :
            Types(a, [do |-> do, amount |-> n])
       \/ Types(a, [do |-> "withdraw-finalize"])
       \/ \E id \in Ids, b \in Offers : Opened(id) /\ Types(a,
            [do |-> "bid", id |-> id, bid |-> OfferedAt(b, now)])
       \/ \E id \in Ids : \E i \in DOMAIN bids[id] :
            Types(a, [do |-> "withdraw-bid", id |-> id, index |-> i])
       \/ \E v \in Vaults : Deployed(v) /\ Courier(v) = a /\ Types(a,
            [do |-> "pickup", vault |-> v, codes |-> codesFile[DeliveryOf(v)]])
    /\ UNCHANGED <<codesFile, draws>>

-----------------------------------------------------------------------------
(* What the chain makes of a transaction.                                  *)

OnPool(step) == step /\ OthersUnchanged
OnRegistry(step) == step /\ UNCHANGED <<now, vault>> /\ PoolUnchanged
OnVault(step) == step /\ UNCHANGED <<now, registryVars>> /\ PoolUnchanged

SellerCalls(c) ==
    \/ c.do = "open" /\ OnRegistry(OpenRequest(Seller, c.asked))
    \/ c.do = "publish-hashes" /\ OnRegistry(PublishHashes(c.id))
    \/ c.do = "set-agent" /\ OnRegistry(SetAgentPolicy(Seller, c.policy))
    \/ /\ c.do = "accept" /\ UNCHANGED now
       /\ \E v \in Vaults : AcceptBid(c.id, c.index, v)

BuyerCalls(c) ==
    \/ c.do = "fund" /\ OnVault(Fund(c.vault))
    \/ c.do = "dispute" /\ OnVault(RaiseDispute(c.vault))
    \/ /\ c.do = "cancel" /\ UNCHANGED <<now, registryVars>>
       /\ CancelByBuyerPrePickup(c.vault)
       /\ Release(c.vault, Courier(c.vault), Value(c.vault))

CourierCalls(a, c) ==
    \/ c.do = "stake" /\ OnPool(DepositStake(a, c.amount))
    \/ c.do = "withdraw-request" /\ OnPool(RequestWithdraw(a, c.amount))
    \/ c.do = "withdraw-finalize" /\ OnPool(FinalizeWithdraw(a))
    \/ c.do = "bid" /\ OnRegistry(PlaceBid(c.id, a, c.bid))
    \/ /\ c.do = "withdraw-bid" /\ OnRegistry(WithdrawBid(c.id, c.index))
       /\ bids[c.id][c.index].courier = a
    \/ /\ c.do = "pickup" /\ c.codes = locked[DeliveryOf(c.vault)]
       /\ OnVault(Pickup(c.vault))

Calls(user, c) ==
    \/ user = "seller" /\ SellerCalls(c)
    \/ user = "buyer" /\ BuyerCalls(c)
    \/ user \in Accounts /\ CourierCalls(user, c)

Mined(user) ==
    /\ sent[user] # <<>>
    /\ LET c == Head(sent[user]).call
       IN  /\ Calls(user, c)
           /\ IF c.do = "publish-hashes"
              THEN /\ locked' = [locked EXCEPT ![c.id] = c.codes]
                   /\ codesFile' = IF Head(sent[user]).waited THEN File("mined", c.id, c.codes)
                                   ELSE codesFile
              ELSE UNCHANGED <<locked, codesFile>>
    /\ sent' = [sent EXCEPT ![user] = Tail(@)]
    /\ UNCHANGED <<draws, typed>>

-----------------------------------------------------------------------------

\* A market that has just been deployed, or with a request somebody opened.
ClientsInit ==
    /\ now = 1 /\ VaultInit /\ CouriersStaked
    /\ agentPolicies = [s \in Sellers |-> NoPolicy]
    /\ \/ /\ sellerNonce = [s \in Sellers |-> 0]
          /\ requests = [id \in Ids |-> NoRequest]
          /\ bids = [id \in Ids |-> <<>>]
       \/ /\ sellerNonce = [s \in Sellers |-> 1]
          /\ \E r \in Found : requests = [id \in Ids |->
               IF id[2] = 1 THEN [asked |-> r.asked, hashed |-> FALSE, stage |-> "Open",
                                  acceptedBid |-> 0, vault |-> NoVault]
               ELSE NoRequest]
             /\ bids = [id \in Ids |-> IF id[2] = 1 THEN r.bids ELSE <<>>]
    /\ sent = [u \in Users |-> <<>>]
    /\ codesFile = [id \in Ids |-> 0] /\ locked = codesFile /\ draws = codesFile
    /\ typed = 0

\* The node refuses the transaction, or it reverts.
Fails(user) ==
    /\ sent[user] # <<>> /\ sent' = [sent EXCEPT ![user] = Tail(@)]
    /\ UNCHANGED <<vars, codesFile, locked, draws, typed>>

\* Nobody waits for the answer any more.
Interrupted(user) ==
    /\ sent[user] # <<>>
    /\ LET last == Len(sent[user])
       IN  /\ sent[user][last].waited
           /\ sent' = [sent EXCEPT ![user][last].waited = FALSE]
    /\ UNCHANGED <<vars, codesFile, locked, draws, typed>>

\* The mailbox, the seller's agent, the arbiter and whoever calls a timeout.
Elsewhere ==
    /\ \/ \E v \in Vaults : OnVault(ConfirmDelivery(v)) \/ SettlingWell(v) \/ SettlingBadly(v)
       \/ \E id \in Ids, i \in 1..MaxBids, v \in Vaults :
            AcceptBidByAgent(id, i, v) /\ UNCHANGED now
       \/ Clock
    /\ UNCHANGED <<sent, codesFile, locked, draws, typed>>

ClientsNext ==
    \/ SellerTypes \/ BuyerTypes \/ \E a \in Accounts : CourierTypes(a)
    \/ \E u \in Users : Mined(u) \/ Fails(u) \/ Interrupted(u)
    \/ Elsewhere

ClientsSpec == ClientsInit /\ [][ClientsNext]_clientVars

-----------------------------------------------------------------------------
(* Properties.                                                             *)

\* Whoever types publish-hashes once for a delivery can open its vault: the
\* file has the codes whose hashes were published, and so has any pickup that
\* is on its way, even if the command was interrupted, or failed.  Typed
\* again it overwrites the file before the registry refuses the new hashes,
\* and the codes are lost.
CodesOnFile ==
    \A id \in Ids : locked[id] # 0 /\ draws[id] = 1 =>
        /\ codesFile[id] = locked[id]
        /\ \A a \in Accounts : \A i \in DOMAIN sent[a] :
             LET c == sent[a][i].call
             IN  c.do = "pickup" /\ c.vault = requests[id].vault => c.codes = locked[id]

\* The bid an accept is for is the one that was listed at its index when it
\* was typed, whatever was placed and withdrawn while it was on its way.
ListedBidIsAccepted ==
    [][\A id \in Ids :
         /\ InStage(id, "Open") /\ requests'[id].stage = "Assigned"
         /\ sent' # sent
         => LET c == Head(sent["seller"]).call
                t == vault'[requests'[id].vault].terms
            IN  /\ c.listed.courier = t.courier
                /\ c.listed.offered.price = t.courierFee
                /\ c.listed.offered.promisedTime = t.dropoffDeadline]_clientVars
=============================================================================
