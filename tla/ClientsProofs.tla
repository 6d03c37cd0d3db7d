--------------------------- MODULE ClientsProofs ----------------------------
(***************************************************************************)
(* Theorems of Clients, for any number of commands on their way: the       *)
(* clients take the market's own steps, the codes of a delivery for which  *)
(* they were drawn once are on file, and the bid listed is the bid accepted. *)
(***************************************************************************)
EXTENDS Clients, MarketProofs

-----------------------------------------------------------------------------
(* What is typed.                                                          *)

Commands ==
    [do : {"open"}, asked : RequestTerms]
    \cup [do : {"publish-hashes"}, id : Ids, codes : Nat]
    \cup [do : {"accept"}, id : Ids, index : Nat, listed : BidRecords]
    \cup [do : {"set-agent"}, policy : Policies]
    \cup [do : {"fund", "dispute", "cancel"}, vault : Vaults]
    \cup [do : {"stake", "withdraw-request"}, amount : Amounts]
    \cup [do : {"withdraw-finalize"}]
    \cup [do : {"bid"}, id : Ids, bid : BidTerms]
    \cup [do : {"withdraw-bid"}, id : Ids, index : Nat]
    \cup [do : {"pickup"}, vault : Vaults, codes : Nat]

Queued == [waited : BOOLEAN, call : Commands]

LEMMA WhatCommandsHold ==
  ASSUME NEW c \in Commands
  PROVE  /\ c.do = "open" => c.asked \in RequestTerms
         /\ c.do = "set-agent" => c.policy \in Policies
         /\ c.do \in {"stake", "withdraw-request"} => c.amount \in Amounts
         /\ c.do = "bid" => c.bid \in BidTerms
         /\ c.do \in {"publish-hashes", "accept", "bid", "withdraw-bid"} => c.id \in Ids
         /\ c.do \in {"fund", "dispute", "cancel", "pickup"} => c.vault \in Vaults
         /\ c.do \in {"publish-hashes", "pickup"} => c.codes \in Nat
BY DEF Commands

LEMMA LetGo ==
  ASSUME NEW r \in Queued, NEW b \in BOOLEAN
  PROVE  /\ [r EXCEPT !.waited = b] \in Queued
         /\ [r EXCEPT !.waited = b].call = r.call
<1>1. r = [waited |-> r.waited, call |-> r.call] /\ r.call \in Commands
  BY DEF Queued
<1>2. [r EXCEPT !.waited = b] = [waited |-> b, call |-> r.call]
  BY <1>1
<1> QED BY <1>1, <1>2 DEF Queued

\* A command is typed behind those on their way, which nobody waits for.
LEMMA TypedQueue ==
  ASSUME NEW q \in Seq(Queued), NEW c \in Commands, NEW b \in BOOLEAN
  PROVE  LET L == Append([i \in DOMAIN q |-> [q[i] EXCEPT !.waited = FALSE]],
                         [waited |-> b, call |-> c])
         IN  /\ L \in Seq(Queued)
             /\ \A i \in DOMAIN L : L[i].call = c \/ \E j \in DOMAIN q : L[i].call = q[j].call
<1> DEFINE no == FALSE
           alone(r) == [r EXCEPT !.waited = no]
           R == [i \in DOMAIN q |-> alone(q[i])]
           new == [waited |-> b, call |-> c]
<1>1. no \in BOOLEAN
  OBVIOUS
<1> HIDE DEF no
<1>2. \A r \in Queued : alone(r) \in Queued /\ alone(r).call = r.call
  BY <1>1, LetGo
<1> HIDE DEF alone
<1>3. DOMAIN q = 1..Len(q) /\ Len(q) \in Nat /\ \A i \in DOMAIN q : q[i] \in Queued
  OBVIOUS
<1>4. /\ R \in Seq(Queued) /\ Len(R) = Len(q)
      /\ \A i \in DOMAIN R : i \in DOMAIN q /\ R[i].call = q[i].call
  BY <1>2, <1>3
<1>5. new \in Queued /\ new.call = c
  BY DEF Queued
<1> HIDE DEF R, new
<1>6. /\ Append(R, new) \in Seq(Queued)
      /\ \A i \in DOMAIN Append(R, new) :
           \/ Append(R, new)[i] = new
           \/ i \in DOMAIN R /\ Append(R, new)[i] = R[i]
  BY <1>4, <1>5
<1>7. \A i \in DOMAIN Append(R, new) :
        Append(R, new)[i].call = c \/ \E j \in DOMAIN q : Append(R, new)[i].call = q[j].call
  BY <1>4, <1>5, <1>6
<1> QED BY <1>6, <1>7 DEF R, new, alone, no

LEMMA QueueGoesOn ==
  ASSUME NEW q \in Seq(Queued), q # <<>>
  PROVE  /\ Head(q) \in Queued /\ Head(q) = q[1] /\ 1 \in DOMAIN q
         /\ Tail(q) \in Seq(Queued)
         /\ \A i \in DOMAIN Tail(q) : \E j \in DOMAIN q : Tail(q)[i] = q[j]
<1>1. Len(q) \in Nat \ {0} /\ DOMAIN q = 1..Len(q)
  OBVIOUS
<1>2. \A i \in DOMAIN Tail(q) : i + 1 \in DOMAIN q /\ Tail(q)[i] = q[i + 1]
  BY <1>1
<1> QED BY <1>1, <1>2

\* Who interrupts a command leaves it on its way.
LEMMA QueueLetGo ==
  ASSUME NEW q \in Seq(Queued), NEW k \in DOMAIN q
  PROVE  LET L == [q EXCEPT ![k].waited = FALSE]
         IN  L \in Seq(Queued) /\ \A i \in DOMAIN L : i \in DOMAIN q /\ L[i].call = q[i].call
<1> DEFINE no == FALSE
           new == [q[k] EXCEPT !.waited = no]
<1>1. no \in BOOLEAN /\ q[k] \in Queued
  OBVIOUS
<1> HIDE DEF no
<1>2. new \in Queued /\ new.call = q[k].call
  BY <1>1, LetGo
<1> HIDE DEF new
<1>3. [q EXCEPT ![k] = new] \in Seq(Queued)
      /\ \A i \in DOMAIN q : [q EXCEPT ![k] = new][i].call = q[i].call
  BY <1>2
<1> QED BY <1>3 DEF new, no

-----------------------------------------------------------------------------
(* What the commands on their way rely on, in a world w.                   *)

World == [req |-> requests, bid |-> bids, vlt |-> vault, drawn |-> draws]

WorldOn(w, u) ==
    /\ w.drawn \in [Ids -> Nat] /\ u.drawn \in [Ids -> Nat]
    /\ \A id \in Ids : StaysIn(w.bid[id], u.bid[id]) /\ w.drawn[id] <= u.drawn[id]
    /\ \A v \in Vaults : w.vlt[v] # NoVault => u.vlt[v] # NoVault
    /\ \A id \in Ids, v \in Vaults : u.req[id] # NoRequest /\ u.req[id].vault = v =>
         \/ w.req[id] # NoRequest /\ w.req[id].vault = v
         \/ w.vlt[v] = NoVault

\* The codes first drawn are 1, later ones are greater.
FirstCodes(id, codes, w) == w.drawn[id] >= 1 /\ (w.drawn[id] = 1 => codes = 1)

CommandTrue(c, w) ==
    /\ c.do = "publish-hashes" => FirstCodes(c.id, c.codes, w)
    /\ c.do = "accept" =>
         /\ c.index \in DOMAIN w.bid[c.id]
         /\ w.bid[c.id][c.index].courier = c.listed.courier
         /\ w.bid[c.id][c.index].offered = c.listed.offered
    /\ c.do = "pickup" =>
         /\ w.vlt[c.vault] # NoVault
         /\ \A id \in Ids : w.req[id] # NoRequest /\ w.req[id].vault = c.vault
                              => FirstCodes(id, c.codes, w)

AllTrue(queues, w) ==
    \A u \in Users : \A i \in DOMAIN queues[u] : CommandTrue(queues[u][i].call, w)

FileTrue(id, file, lock, w) ==
    /\ w.drawn[id] = 0 => file = 0 /\ lock = 0
    /\ w.drawn[id] = 1 => file = 1 /\ lock \in {0, 1}
    /\ w.drawn[id] # 0 => w.req[id] # NoRequest
    /\ w.req[id] # NoRequest /\ (w.req[id].hashed \/ w.req[id].stage = "Assigned")
         => w.drawn[id] # 0

LEMMA CommandsStand ==
  ASSUME NEW c \in Commands, NEW w, NEW u, WorldOn(w, u), CommandTrue(c, w)
  PROVE  CommandTrue(c, u)
<1>1. \A id \in Ids : \A codes : FirstCodes(id, codes, w) => FirstCodes(id, codes, u)
  <2>1. ASSUME NEW id \in Ids PROVE w.drawn[id] \in Nat /\ u.drawn[id] \in Nat
                                    /\ w.drawn[id] <= u.drawn[id]
    BY DEF WorldOn
  <2> QED BY <2>1 DEF FirstCodes
<1>2. c.do = "publish-hashes" => FirstCodes(c.id, c.codes, u)
  BY <1>1, WhatCommandsHold DEF CommandTrue
<1>3. c.do = "accept" =>
         /\ c.index \in DOMAIN u.bid[c.id]
         /\ u.bid[c.id][c.index].courier = c.listed.courier
         /\ u.bid[c.id][c.index].offered = c.listed.offered
  BY WhatCommandsHold DEF CommandTrue, WorldOn, StaysIn
<1>4. c.do = "pickup" =>
         /\ u.vlt[c.vault] # NoVault
         /\ \A id \in Ids : u.req[id] # NoRequest /\ u.req[id].vault = c.vault
                              => FirstCodes(id, c.codes, u)
  BY <1>1, WhatCommandsHold DEF CommandTrue, WorldOn
<1> QED BY <1>2, <1>3, <1>4 DEF CommandTrue

LEMMA QueuesStand ==
  ASSUME NEW queues \in [Users -> Seq(Queued)], NEW w, NEW u, WorldOn(w, u),
         AllTrue(queues, w)
  PROVE  AllTrue(queues, u)
<1> SUFFICES ASSUME NEW user \in Users, NEW i \in DOMAIN queues[user]
             PROVE  CommandTrue(queues[user][i].call, u)
  BY DEF AllTrue
<1>1. queues[user][i] \in Queued
  OBVIOUS
<1>2. queues[user][i].call \in Commands
  BY <1>1 DEF Queued
<1>3. CommandTrue(queues[user][i].call, w)
  BY DEF AllTrue
<1> QED BY <1>2, <1>3, CommandsStand

-----------------------------------------------------------------------------
(* The invariant.                                                          *)

ClientsInv ==
    /\ MarketInv /\ ListsBounded /\ now \in 1..MaxTime
    /\ sent \in [Users -> Seq(Queued)]
    /\ codesFile \in [Ids -> Nat] /\ locked \in [Ids -> Nat] /\ draws \in [Ids -> Nat]
    /\ AllTrue(sent, World)
    /\ \A id \in Ids : FileTrue(id, codesFile[id], locked[id], World)

LEMMA NothingSent ==
  ASSUME ClientsInit
  PROVE  ClientsInv
<1>1. /\ PoolType /\ Solvent /\ MembersHoldAll
      /\ activeValue = 0 /\ \A a \in Accounts : reserved[a] = 0
  BY StakedPool DEF ClientsInit
<1> DEFINE Rec(r) == [asked |-> r.asked, hashed |-> FALSE, stage |-> "Open",
                      acceptedBid |-> 0, vault |-> NoVault]
<1>2. ASSUME NEW r \in Found
      PROVE  /\ Rec(r) \in RequestRecords /\ Rec(r).stage = "Open" /\ Rec(r).vault = NoVault
             /\ Rec(r).acceptedBid = 0 /\ Rec(r).asked.declaredValue > 0 /\ ~Rec(r).hashed
             /\ r.bids \in Seq(BidRecords) /\ Len(r.bids) <= MaxBids
             /\ \A i \in DOMAIN r.bids : r.bids[i].offered.promisedTime > 1
  BY ClientConstants DEF RequestRecords, BidRecords
<1>3. \/ requests = [id \in Ids |-> NoRequest] /\ bids = [id \in Ids |-> <<>>]
      \/ \E r \in Found :
           /\ requests = [id \in Ids |-> IF id[2] = 1 THEN Rec(r) ELSE NoRequest]
           /\ bids = [id \in Ids |-> IF id[2] = 1 THEN r.bids ELSE <<>>]
  BY DEF ClientsInit
<1> HIDE DEF Rec
<1>4. /\ requests \in [Ids -> RequestRecords \cup {NoRequest}]
      /\ bids \in [Ids -> Seq(BidRecords)]
  <2>1. CASE requests = [id \in Ids |-> NoRequest] /\ bids = [id \in Ids |-> <<>>]
    BY <2>1
  <2>2. ASSUME NEW r \in Found,
               requests = [id \in Ids |-> IF id[2] = 1 THEN Rec(r) ELSE NoRequest],
               bids = [id \in Ids |-> IF id[2] = 1 THEN r.bids ELSE <<>>]
        PROVE  /\ requests \in [Ids -> RequestRecords \cup {NoRequest}]
               /\ bids \in [Ids -> Seq(BidRecords)]
    <3>1. Rec(r) \in RequestRecords /\ r.bids \in Seq(BidRecords)
      BY <1>2
    <3> DEFINE L == r.bids
               q == Rec(r)
    <3> HIDE DEF L, q
    <3>2. L \in Seq(BidRecords) /\ q \in RequestRecords /\ <<>> \in Seq(BidRecords)
      BY <3>1 DEF L, q
    <3>3. /\ requests = [id \in Ids |-> IF id[2] = 1 THEN q ELSE NoRequest]
          /\ bids = [id \in Ids |-> IF id[2] = 1 THEN L ELSE <<>>]
      BY <2>2 DEF L, q
    <3> QED BY <3>2, <3>3
  <2> QED BY <1>3, <2>1, <2>2
<1>5. \A id \in Ids : Opened(id) => \E r \in Found : requests[id] = Rec(r)
  BY <1>3 DEF Opened
<1>6. \A id \in Ids : bids[id] = <<>> \/ \E r \in Found : bids[id] = r.bids
  BY <1>3
<1>7. \A id \in Ids : Len(bids[id]) \in Nat /\ Len(bids[id]) <= MaxBids /\ BidsSound(id)
  BY <1>2, <1>4, <1>6, RegistryConstants DEF BidsSound
<1>8. \A id \in Ids : RequestSound(id)
  BY <1>2, <1>5, <1>7 DEF RequestSound
<1>9. \A id \in Ids : ~InStage(id, "Assigned")
  BY <1>2, <1>5 DEF InStage
<1>10. MarketInv
  BY <1>1, <1>4, <1>7, <1>8, <1>9, FreshMarket DEF ClientsInit, RequestsSound
<1>11. ListsBounded /\ now \in 1..MaxTime
  BY <1>7, ChainConstants DEF ListsBounded, ClientsInit
<1>12. sent = [u \in Users |-> <<>>] /\ sent \in [Users -> Seq(Queued)]
  BY DEF ClientsInit
<1>13. AllTrue(sent, World)
  BY <1>12 DEF AllTrue
<1>14. /\ codesFile = [id \in Ids |-> 0] /\ locked = codesFile /\ draws = codesFile
       /\ codesFile \in [Ids -> Nat] /\ locked \in [Ids -> Nat] /\ draws \in [Ids -> Nat]
  BY DEF ClientsInit
<1>15. \A id \in Ids : FileTrue(id, codesFile[id], locked[id], World)
  BY <1>2, <1>5, <1>14 DEF FileTrue, World, Opened
<1> QED BY <1>10, <1>11, <1>12, <1>13, <1>14, <1>15 DEF ClientsInv

-----------------------------------------------------------------------------
(* The clients in the market.                                              *)

\* What a user's command does is a step of the market.
LEMMA CallIsAStep ==
  ASSUME MarketInv, ListsBounded, NEW user, NEW c \in Commands, Calls(user, c)
  PROVE  Next
<1>1. CASE user = "seller" /\ SellerCalls(c)
  <2>1. Seller \in Sellers
    BY ClientConstants DEF Seller
  <2>2. CASE c.do = "accept" /\ UNCHANGED now /\ \E v \in Vaults : AcceptBid(c.id, c.index, v)
    <3>1. c.id \in Ids /\ c.index \in DOMAIN bids[c.id]
      BY <2>2, WhatCommandsHold DEF AcceptBid
    <3>2. bids[c.id] \in Seq(BidRecords) /\ Len(bids[c.id]) <= MaxBids
      BY <3>1 DEF MarketInv, MarketTypes, ListsBounded
    <3>3. c.index \in 1..MaxBids
      BY <3>1, <3>2, RegistryConstants
    <3> QED BY <2>2, <3>1, <3>3 DEF Accepting, Next
  <2>3. CASE \/ c.do = "open" /\ OnRegistry(OpenRequest(Seller, c.asked))
             \/ c.do = "publish-hashes" /\ OnRegistry(PublishHashes(c.id))
             \/ c.do = "set-agent" /\ OnRegistry(SetAgentPolicy(Seller, c.policy))
    BY <2>1, <2>3, WhatCommandsHold DEF OnRegistry, Asking, Next
  <2> QED BY <1>1, <2>2, <2>3 DEF SellerCalls
<1>2. CASE user = "buyer" /\ BuyerCalls(c)
  <2>1. c.do \in {"fund", "dispute", "cancel"}
    BY <1>2 DEF BuyerCalls
  <2>2. c.vault \in Vaults
    BY <2>1, WhatCommandsHold
  <2>3. Carrying(c.vault) \/ SettlingWell(c.vault)
    BY <1>2 DEF BuyerCalls, OnVault, Carrying, SettlingWell, QuietStep, ReleasingStep
  <2> QED BY <2>2, <2>3 DEF Next
<1>3. CASE user \in Accounts /\ CourierCalls(user, c)
  <2>1. CASE \/ c.do = "stake" /\ OnPool(DepositStake(user, c.amount))
             \/ c.do = "withdraw-request" /\ OnPool(RequestWithdraw(user, c.amount))
             \/ c.do = "withdraw-finalize" /\ OnPool(FinalizeWithdraw(user))
    BY <1>3, <2>1, WhatCommandsHold DEF OnPool, Membership, Next
  <2>2. CASE c.do = "bid" /\ OnRegistry(PlaceBid(c.id, user, c.bid))
    BY <1>3, <2>2, WhatCommandsHold DEF OnRegistry, Bidding, Next
  <2>3. CASE c.do = "withdraw-bid" /\ OnRegistry(WithdrawBid(c.id, c.index))
    <3>1. c.id \in Ids /\ c.index \in DOMAIN bids[c.id]
      BY <2>3, WhatCommandsHold DEF OnRegistry, WithdrawBid
    <3>2. bids[c.id] \in Seq(BidRecords) /\ Len(bids[c.id]) <= MaxBids
      BY <3>1 DEF MarketInv, MarketTypes, ListsBounded
    <3>3. c.index \in 1..MaxBids
      BY <3>1, <3>2, RegistryConstants
    <3> QED BY <2>3, <3>1, <3>3 DEF OnRegistry, Bidding, Next
  <2>4. CASE c.do = "pickup" /\ OnVault(Pickup(c.vault))
    <3>1. c.vault \in Vaults
      BY <2>4, WhatCommandsHold
    <3> QED BY <2>4, <3>1 DEF OnVault, Carrying, QuietStep, Next
  <2> QED BY <1>3, <2>1, <2>2, <2>3, <2>4 DEF CourierCalls
<1> QED BY <1>1, <1>2, <1>3 DEF Calls

\* The command at the head of a queue.
LEMMA NextCommand ==
  ASSUME ClientsInv, NEW user \in Users, sent[user] # <<>>
  PROVE  LET c == Head(sent[user]).call
         IN  c \in Commands /\ CommandTrue(c, World)
<1>1. sent[user] \in Seq(Queued)
  BY DEF ClientsInv
<1>2. Head(sent[user]) \in Queued /\ Head(sent[user]) = sent[user][1] /\ 1 \in DOMAIN sent[user]
  BY <1>1, QueueGoesOn
<1> QED BY <1>2 DEF Queued, ClientsInv, AllTrue

LEMMA ClientsAreInTheMarket ==
  ASSUME ClientsInv, [ClientsNext]_clientVars
  PROVE  [Next]_vars
<1>1. CASE SellerTypes
  BY <1>1 DEF SellerTypes, Types
<1>2. CASE BuyerTypes \/ \E a \in Accounts : CourierTypes(a)
  BY <1>2 DEF BuyerTypes, CourierTypes, Types
<1>3. ASSUME NEW u \in Users, Mined(u) PROVE Next
  BY <1>3, NextCommand, CallIsAStep DEF Mined, ClientsInv
<1>4. ASSUME NEW u \in Users, Fails(u) \/ Interrupted(u) PROVE UNCHANGED vars
  BY <1>4 DEF Fails, Interrupted
<1>5. CASE Elsewhere
  <2>1. CASE \E v \in Vaults :
               OnVault(ConfirmDelivery(v)) \/ SettlingWell(v) \/ SettlingBadly(v)
    BY <2>1 DEF OnVault, Carrying, QuietStep, Next
  <2>2. CASE \E id \in Ids, i \in 1..MaxBids, v \in Vaults :
               AcceptBidByAgent(id, i, v) /\ UNCHANGED now
    BY <2>2 DEF Accepting, Next
  <2> QED BY <1>5, <2>1, <2>2 DEF Elsewhere, Next
<1>6. CASE UNCHANGED clientVars
  BY <1>6 DEF clientVars
<1> QED BY <1>1, <1>2, <1>3, <1>4, <1>5, <1>6 DEF ClientsNext

-----------------------------------------------------------------------------
(* What a step leaves of the world.                                        *)

LEMMA TheWorldGoesOn ==
  ASSUME ClientsInv, [ClientsNext]_clientVars,
         draws' \in [Ids -> Nat], \A id \in Ids : draws[id] <= draws'[id]
  PROVE  WorldOn(World, World')
<1>1. MarketInv /\ [Next]_vars
  BY ClientsAreInTheMarket DEF ClientsInv
<1>2. /\ \A id \in Ids : StaysIn(bids[id], bids'[id])
      /\ \A v \in Vaults : VaultGoesOn(vault[v], vault'[v])
  BY <1>1, MarketGoesOn
<1>3. \A v \in Vaults : vault[v] # NoVault => vault'[v] # NoVault
  BY <1>2 DEF VaultGoesOn
<1>4. \A id \in Ids, v \in Vaults : requests'[id] # NoRequest /\ requests'[id].vault = v =>
         \/ requests[id] # NoRequest /\ requests[id].vault = v
         \/ vault[v] = NoVault
  BY <1>1, VaultsChangeNoHands DEF Opened
<1>5. draws \in [Ids -> Nat]
  BY DEF ClientsInv
<1> QED BY <1>2, <1>3, <1>4, <1>5 DEF WorldOn, World

\* Hashes are on the chain only of codes somebody drew.
Lockable(id) == Opened(id) /\ (requests[id].hashed \/ requests[id].stage = "Assigned")

\* A step that publishes no hashes makes no request lockable.
LEMMA NoNewHashes ==
  ASSUME MarketTypes, NEW id \in Ids, Lockable(id)',
         \/ UNCHANGED requests
         \/ \E s \in Sellers, r \in RequestTerms : OpenRequest(s, r)
         \/ \E k \in Ids, v \in Vaults : \E i : InStage(k, "Open") /\ Accept(k, i, v)
  PROVE  Lockable(id)
<1>1. CASE UNCHANGED requests
  BY <1>1 DEF Lockable, Opened
<1>2. ASSUME NEW s \in Sellers, NEW r \in RequestTerms, OpenRequest(s, r)
      PROVE  Lockable(id)
  <2> DEFINE key == <<s, sellerNonce[s] + 1>>
             q == [asked |-> r, hashed |-> FALSE, stage |-> "Open",
                   acceptedBid |-> 0, vault |-> NoVault]
  <2>1. requests' = [requests EXCEPT ![key] = q]
    BY <1>2 DEF OpenRequest
  <2>2. ~q.hashed /\ q.stage = "Open"
    OBVIOUS
  <2> HIDE DEF q, key
  <2>3. requests'[id] = q \/ requests'[id] = requests[id]
    BY <2>1 DEF MarketTypes
  <2> QED BY <2>2, <2>3 DEF Lockable, Opened
<1>3. ASSUME NEW k \in Ids, NEW v \in Vaults, NEW i, InStage(k, "Open"), Accept(k, i, v)
      PROVE  Lockable(id)
  <2>1. requests[k].hashed /\ \A n \in Ids \ {k} : requests'[n] = requests[n]
    BY <1>3, AcceptedTerms
  <2> QED BY <1>3, <2>1 DEF Lockable, Opened, InStage
<1> QED BY <1>1, <1>2, <1>3

\* What a command other than publish-hashes does to the requests.
LEMMA OtherCalls ==
  ASSUME NEW user, NEW c \in Commands, Calls(user, c), c.do # "publish-hashes"
  PROVE  \/ UNCHANGED requests
         \/ \E s \in Sellers, r \in RequestTerms : OpenRequest(s, r)
         \/ /\ user = "seller" /\ c.do = "accept" /\ c.id \in Ids
            /\ \E v \in Vaults : InStage(c.id, "Open") /\ Accept(c.id, c.index, v)
<1>1. CASE user = "seller" /\ SellerCalls(c)
  <2>1. Seller \in Sellers
    BY ClientConstants DEF Seller
  <2> QED BY <1>1, <2>1, WhatCommandsHold
      DEF SellerCalls, OnRegistry, SetAgentPolicy, AcceptBid
<1>2. CASE user = "buyer" /\ BuyerCalls(c)
  BY <1>2 DEF BuyerCalls, OnVault, registryVars
<1>3. CASE user \in Accounts /\ CourierCalls(user, c)
  BY <1>3 DEF CourierCalls, OnPool, OthersUnchanged, OnRegistry, OnVault, PlaceBid, WithdrawBid,
     registryVars
<1> QED BY <1>1, <1>2, <1>3 DEF Calls

\* What the others do to them.
LEMMA OtherSteps ==
  ASSUME Elsewhere
  PROVE  \/ UNCHANGED requests
         \/ \E k \in Ids, v \in Vaults : \E i : InStage(k, "Open") /\ Accept(k, i, v)
BY DEF Elsewhere, OnVault, SettlingWell, SettlingBadly, Clock, AcceptBidByAgent, registryVars

-----------------------------------------------------------------------------
(* The invariant goes on.                                                  *)

\* What the clients keep of their own.
Own ==
    /\ sent \in [Users -> Seq(Queued)]
    /\ codesFile \in [Ids -> Nat] /\ locked \in [Ids -> Nat] /\ draws \in [Ids -> Nat]
    /\ AllTrue(sent, World)
    /\ \A id \in Ids : FileTrue(id, codesFile[id], locked[id], World)

\* Files stand while no codes are drawn, written or published.
LEMMA FilesStand ==
  ASSUME NEW id \in Ids, NEW file, NEW lock, NEW w, NEW u,
         FileTrue(id, file, lock, w), u.drawn[id] = w.drawn[id],
         w.req[id] # NoRequest => u.req[id] # NoRequest,
         u.req[id] # NoRequest /\ (u.req[id].hashed \/ u.req[id].stage = "Assigned")
           => w.req[id] # NoRequest /\ (w.req[id].hashed \/ w.req[id].stage = "Assigned")
  PROVE  FileTrue(id, file, lock, u)
BY DEF FileTrue

\* Queues stand if they hold what they held, and what is true now.
LEMMA QueuesGoOn ==
  ASSUME ClientsInv, WorldOn(World, World'),
         sent' \in [Users -> Seq(Queued)],
         \A u \in Users : \A i \in DOMAIN sent'[u] :
            \/ CommandTrue(sent'[u][i].call, World')
            \/ \E j \in DOMAIN sent[u] : sent'[u][i].call = sent[u][j].call
  PROVE  AllTrue(sent, World)'
<1>1. AllTrue(sent, World')
  BY QueuesStand DEF ClientsInv
<1> QED BY <1>1 DEF AllTrue

\* A command is typed.
LEMMA TypingKeeps ==
  ASSUME ClientsInv, [ClientsNext]_clientVars, NEW user \in Users,
         NEW c \in Commands, Types(user, c), CommandTrue(c, World'),
         draws' \in [Ids -> Nat], \A id \in Ids : draws[id] <= draws'[id]
  PROVE  sent' \in [Users -> Seq(Queued)] /\ AllTrue(sent, World)'
<1> DEFINE q == sent[user]
           b == c.do \in Continues
           L == Append([i \in DOMAIN q |-> [q[i] EXCEPT !.waited = FALSE]],
                       [waited |-> b, call |-> c])
<1>1. sent \in [Users -> Seq(Queued)] /\ q \in Seq(Queued) /\ b \in BOOLEAN
  BY DEF ClientsInv
<1>2. sent' = [sent EXCEPT ![user] = L]
  BY DEF Types
<1> HIDE DEF q, b
<1>3. /\ L \in Seq(Queued)
      /\ \A i \in DOMAIN L : L[i].call = c \/ \E j \in DOMAIN q : L[i].call = q[j].call
  BY <1>1, TypedQueue
<1> HIDE DEF L
<1>4. sent' \in [Users -> Seq(Queued)]
  BY <1>1, <1>2, <1>3
<1>5. \A u \in Users : \A i \in DOMAIN sent'[u] :
         \/ CommandTrue(sent'[u][i].call, World')
         \/ \E j \in DOMAIN sent[u] : sent'[u][i].call = sent[u][j].call
  BY <1>1, <1>2, <1>3 DEF q
<1>6. WorldOn(World, World')
  BY TheWorldGoesOn
<1> QED BY <1>4, <1>5, <1>6, QueuesGoOn

\* A queue loses its first command, or is let go of.
LEMMA ShrinkingKeeps ==
  ASSUME ClientsInv, [ClientsNext]_clientVars, NEW user \in Users, sent[user] # <<>>,
         \/ sent' = [sent EXCEPT ![user] = Tail(@)]
         \/ sent' = [sent EXCEPT ![user][Len(sent[user])].waited = FALSE],
         UNCHANGED draws
  PROVE  sent' \in [Users -> Seq(Queued)] /\ AllTrue(sent, World)'
<1> DEFINE q == sent[user]
           n == Len(q)
<1>1. sent \in [Users -> Seq(Queued)] /\ q \in Seq(Queued) /\ q # <<>>
  BY DEF ClientsInv
<1>2. n \in DOMAIN q
  BY <1>1
<1> HIDE DEF q, n
<1>3. \E L \in Seq(Queued) :
         /\ sent' = [sent EXCEPT ![user] = L]
         /\ \A i \in DOMAIN L : \E j \in DOMAIN q : L[i].call = q[j].call
  <2>1. CASE sent' = [sent EXCEPT ![user] = Tail(@)]
    <3>1. sent' = [sent EXCEPT ![user] = Tail(q)]
      BY <1>1, <2>1 DEF q
    <3>2. Tail(q) \in Seq(Queued) /\ \A i \in DOMAIN Tail(q) : \E j \in DOMAIN q : Tail(q)[i] = q[j]
      BY <1>1, QueueGoesOn
    <3> QED BY <3>1, <3>2
  <2>2. CASE sent' = [sent EXCEPT ![user][Len(sent[user])].waited = FALSE]
    <3> DEFINE L == [q EXCEPT ![n].waited = FALSE]
    <3>1. sent' = [sent EXCEPT ![user] = L]
      BY <1>1, <2>2 DEF q, n
    <3>2. L \in Seq(Queued) /\ \A i \in DOMAIN L : i \in DOMAIN q /\ L[i].call = q[i].call
      BY <1>1, <1>2, QueueLetGo
    <3> HIDE DEF L
    <3> QED BY <3>1, <3>2
  <2> QED BY <2>1, <2>2
<1>4. PICK L \in Seq(Queued) :
         /\ sent' = [sent EXCEPT ![user] = L]
         /\ \A i \in DOMAIN L : \E j \in DOMAIN q : L[i].call = q[j].call
  BY <1>3
<1>5. sent' \in [Users -> Seq(Queued)]
  BY <1>1, <1>4
<1>6. \A u \in Users : \A i \in DOMAIN sent'[u] :
         \E j \in DOMAIN sent[u] : sent'[u][i].call = sent[u][j].call
  BY ZenonT(30), <1>1, <1>4 DEF q
<1>7. draws \in [Ids -> Nat]
  BY DEF ClientsInv
<1>8. WorldOn(World, World')
  BY <1>7, TheWorldGoesOn
<1> QED BY <1>5, <1>6, <1>8, QueuesGoOn

LEMMA NowBounded ==
  ASSUME MarketInv, now \in 1..MaxTime, [Next]_vars
  PROVE  now' \in 1..MaxTime
<1>1. now \in Nat /\ MaxTime \in Nat
  BY ChainConstants
<1>2. CASE UNCHANGED now
  BY <1>2
<1>3. CASE TimePasses
  BY <1>1, <1>3 DEF TimePasses
<1>4. CASE Accepting
  BY <1>2, <1>4 DEF Accepting
<1> QED BY <1>2, <1>3, <1>4 DEF Next, Membership, OthersUnchanged, Asking, Bidding,
       Carrying, SettlingWell, SettlingBadly, Clock, vars

\* The delivery of a vault.
LEMMA TheDelivery ==
  ASSUME MarketInv, NEW v \in Vaults, Deployed(v)
  PROVE  /\ DeliveryOf(v) \in Ids /\ InStage(DeliveryOf(v), "Assigned")
         /\ \A id \in Ids : Opened(id) /\ requests[id].vault = v => id = DeliveryOf(v)
<1>1. PICK id \in Ids :
        /\ InStage(id, "Assigned") /\ requests[id].vault = v
        /\ \A other \in Ids : Opened(other) /\ requests[other].vault = v => other = id
  BY DEF MarketInv, DeployedIsAssigned
<1>2. \E k \in Ids : Opened(k) /\ requests[k].vault = v
  BY <1>1 DEF InStage
<1>3. DeliveryOf(v) \in Ids /\ Opened(DeliveryOf(v)) /\ requests[DeliveryOf(v)].vault = v
  BY <1>2 DEF DeliveryOf
<1> QED BY <1>1, <1>3

\* Commands that neither draw codes nor write a file.
LEMMA PlainTyping ==
  ASSUME ClientsInv, [ClientsNext]_clientVars, NEW user \in Users,
         NEW c \in Commands, Types(user, c), CommandTrue(c, World),
         UNCHANGED <<codesFile, draws>>
  PROVE  Own'
<1>1. UNCHANGED <<requests, bids, vault, locked>>
  BY DEF Types, vars, registryVars
<1>2. World' = World
  BY <1>1 DEF World
<1>3. draws' \in [Ids -> Nat] /\ \A id \in Ids : draws[id] <= draws'[id]
  BY DEF ClientsInv
<1>4. sent' \in [Users -> Seq(Queued)] /\ AllTrue(sent, World)'
  BY <1>2, <1>3, TypingKeeps
<1> QED BY <1>1, <1>2, <1>4 DEF Own, ClientsInv

\* Codes are drawn, written down and sent.
LEMMA DrawingKeeps ==
  ASSUME ClientsInv, [ClientsNext]_clientVars, NEW key \in Ids, Opened(key),
         draws' = [draws EXCEPT ![key] = @ + 1],
         Types("seller", [do |-> "publish-hashes", id |-> key, codes |-> draws'[key]]),
         codesFile' = [codesFile EXCEPT ![key] = draws'[key]]
  PROVE  Own'
<1> DEFINE c == [do |-> "publish-hashes", id |-> key, codes |-> draws'[key]]
<1>1. UNCHANGED <<requests, bids, vault, locked>>
  BY DEF Types, vars, registryVars
<1>2. /\ codesFile \in [Ids -> Nat] /\ locked \in [Ids -> Nat] /\ draws \in [Ids -> Nat]
      /\ \A id \in Ids : FileTrue(id, codesFile[id], locked[id], World)
  BY DEF ClientsInv
<1>3. draws'[key] = draws[key] + 1 /\ \A id \in Ids \ {key} : draws'[id] = draws[id]
  BY <1>2
<1>4. draws' \in [Ids -> Nat] /\ \A id \in Ids : draws[id] <= draws'[id]
  BY <1>2, <1>3
<1>5. codesFile' \in [Ids -> Nat] /\ codesFile'[key] = draws'[key]
      /\ \A id \in Ids \ {key} : codesFile'[id] = codesFile[id]
  BY <1>2, <1>4
<1>6. c \in Commands /\ c.do = "publish-hashes" /\ c.id = key /\ c.codes = draws'[key]
  BY <1>4 DEF Commands
<1>7. World'.drawn = draws' /\ World'.req = requests /\ World.drawn = draws /\ World.req = requests
  BY <1>1 DEF World
<1>8. "seller" \in Users /\ Types("seller", c)
  BY DEF Users
<1> HIDE DEF c
<1>9. draws[key] \in Nat
  BY <1>2
<1>10. FirstCodes(key, draws'[key], World')
  BY <1>3, <1>7, <1>9 DEF FirstCodes
<1>11. CommandTrue(c, World')
  BY <1>6, <1>10 DEF CommandTrue
<1>12. sent' \in [Users -> Seq(Queued)] /\ AllTrue(sent, World)'
  BY <1>4, <1>6, <1>8, <1>11, TypingKeeps
<1>13. FileTrue(key, codesFile'[key], locked[key], World')
  <2>1. FileTrue(key, codesFile[key], locked[key], World)
    BY <1>2
  <2> QED BY <1>3, <1>5, <1>7, <1>9, <2>1 DEF FileTrue, Opened
<1>14. ASSUME NEW id \in Ids \ {key}
       PROVE  FileTrue(id, codesFile'[id], locked[id], World')
  <2>1. FileTrue(id, codesFile[id], locked[id], World)
    BY <1>2
  <2>2. FileTrue(id, codesFile[id], locked[id], World')
    BY <1>3, <1>7, <2>1 DEF FileTrue
  <2> QED BY <1>5, <2>2
<1> QED BY <1>1, <1>2, <1>4, <1>5, <1>12, <1>13, <1>14 DEF Own

LEMMA SellerTypesKeeps ==
  ASSUME ClientsInv, [ClientsNext]_clientVars, SellerTypes
  PROVE  Own'
<1>0. now \in 1..MaxTime /\ "seller" \in Users /\ MarketTypes /\ bids \in [Ids -> Seq(BidRecords)]
  BY DEF ClientsInv, Users, MarketInv, MarketTypes
<1>1. ASSUME NEW r \in Asks, Types("seller", [do |-> "open", asked |-> AskedAt(r, now)]),
             UNCHANGED <<codesFile, draws>>
      PROVE  Own'
  <2> DEFINE c == [do |-> "open", asked |-> AskedAt(r, now)]
  <2>1. AskedAt(r, now) \in RequestTerms
    BY <1>0, ClientConstants
  <2>2. c \in Commands
    BY <2>1 DEF Commands
  <2>3. CommandTrue(c, World)
    BY DEF CommandTrue
  <2> HIDE DEF c
  <2> QED BY <1>0, <1>1, <2>2, <2>3, PlainTyping DEF c
<1>2. ASSUME NEW id \in Ids, Opened(id), draws' = [draws EXCEPT ![id] = @ + 1],
             Types("seller", [do |-> "publish-hashes", id |-> id, codes |-> draws'[id]]),
             codesFile' = File("typed", id, draws'[id])
      PROVE  Own'
  BY <1>2, DrawingKeeps DEF File
<1>3. ASSUME NEW id \in Ids, NEW i \in DOMAIN bids[id],
             Types("seller", [do |-> "accept", id |-> id, index |-> i, listed |-> bids[id][i]]),
             UNCHANGED <<codesFile, draws>>
      PROVE  Own'
  <2> DEFINE b == bids[id][i]
             c == [do |-> "accept", id |-> id, index |-> i, listed |-> b]
  <2>1. b \in BidRecords /\ i \in Nat
    BY <1>0
  <2>2. World.bid = bids
    BY DEF World
  <2> HIDE DEF b
  <2>3. c \in Commands /\ c.do = "accept" /\ c.id = id /\ c.index = i /\ c.listed = b
    BY <2>1 DEF Commands
  <2> HIDE DEF c
  <2>4. CommandTrue(c, World)
    BY <2>2, <2>3 DEF CommandTrue, b
  <2> QED BY <1>0, <1>3, <2>3, <2>4, PlainTyping DEF c, b
<1>4. ASSUME NEW p \in Policies, Types("seller", [do |-> "set-agent", policy |-> p]),
             UNCHANGED <<codesFile, draws>>
      PROVE  Own'
  <2> DEFINE c == [do |-> "set-agent", policy |-> p]
  <2>1. c \in Commands
    BY DEF Commands
  <2>2. CommandTrue(c, World)
    BY DEF CommandTrue
  <2> HIDE DEF c
  <2> QED BY <1>0, <1>4, <2>1, <2>2, PlainTyping DEF c
<1> QED BY <1>1, <1>2, <1>3, <1>4 DEF SellerTypes

LEMMA BuyerTypesKeeps ==
  ASSUME ClientsInv, [ClientsNext]_clientVars, BuyerTypes
  PROVE  Own'
<1>1. PICK v \in Vaults, do \in {"fund", "dispute", "cancel"} :
        Types("buyer", [do |-> do, vault |-> v])
  BY DEF BuyerTypes
<1> DEFINE c == [do |-> do, vault |-> v]
<1>2. c \in Commands
  BY DEF Commands
<1>3. CommandTrue(c, World)
  BY DEF CommandTrue
<1>4. Types("buyer", c) /\ "buyer" \in Users /\ UNCHANGED <<codesFile, draws>>
  BY <1>1 DEF Users, BuyerTypes
<1> HIDE DEF c
<1> QED BY <1>2, <1>3, <1>4, PlainTyping

LEMMA CourierTypesKeeps ==
  ASSUME ClientsInv, [ClientsNext]_clientVars, NEW a \in Accounts, CourierTypes(a)
  PROVE  Own'
<1>0. /\ a \in Users /\ UNCHANGED <<codesFile, draws>>
      /\ now \in 1..MaxTime /\ MarketInv /\ bids \in [Ids -> Seq(BidRecords)]
      /\ codesFile \in [Ids -> Nat] /\ draws \in [Ids -> Nat]
      /\ \A id \in Ids : FileTrue(id, codesFile[id], locked[id], World)
  BY DEF ClientsInv, Users, MarketInv, MarketTypes, CourierTypes
<1> SUFFICES ASSUME NEW c \in Commands, Types(a, c),
                    c.do # "pickup" => CommandTrue(c, World),
                    c.do = "pickup" =>
                      Deployed(c.vault) /\ c.codes = codesFile[DeliveryOf(c.vault)]
             PROVE  Own'
  <2>1. CASE \E n \in Amounts, do \in {"stake", "withdraw-request"} :
                Types(a, [do |-> do, amount |-> n])
    <3>1. PICK n \in Amounts, do \in {"stake", "withdraw-request"} :
                Types(a, [do |-> do, amount |-> n])
      BY <2>1
    <3> DEFINE c == [do |-> do, amount |-> n]
    <3>2. c \in Commands /\ c.do # "pickup" /\ CommandTrue(c, World)
      BY DEF Commands, CommandTrue
    <3> HIDE DEF c
    <3> QED BY <3>1, <3>2 DEF c
  <2>2. CASE Types(a, [do |-> "withdraw-finalize"])
    <3> DEFINE c == [do |-> "withdraw-finalize"]
    <3>2. c \in Commands /\ c.do # "pickup" /\ CommandTrue(c, World)
      BY DEF Commands, CommandTrue
    <3> HIDE DEF c
    <3> QED BY <2>2, <3>2 DEF c
  <2>3. CASE \E id \in Ids, b \in Offers : Opened(id) /\ Types(a,
                [do |-> "bid", id |-> id, bid |-> OfferedAt(b, now)])
    <3>1. PICK id \in Ids, b \in Offers :
                Types(a, [do |-> "bid", id |-> id, bid |-> OfferedAt(b, now)])
      BY <2>3
    <3> DEFINE o == OfferedAt(b, now)
               c == [do |-> "bid", id |-> id, bid |-> o]
    <3>2. o \in BidTerms
      BY <1>0, ClientConstants
    <3>3. c \in Commands /\ c.do # "pickup" /\ CommandTrue(c, World)
      BY <3>2 DEF Commands, CommandTrue
    <3> HIDE DEF c
    <3> QED BY <3>1, <3>3 DEF c
  <2>4. CASE \E id \in Ids : \E i \in DOMAIN bids[id] :
                Types(a, [do |-> "withdraw-bid", id |-> id, index |-> i])
    <3>1. PICK id \in Ids : \E i \in DOMAIN bids[id] :
                Types(a, [do |-> "withdraw-bid", id |-> id, index |-> i])
      BY <2>4
    <3>2. PICK i \in DOMAIN bids[id] : Types(a, [do |-> "withdraw-bid", id |-> id, index |-> i])
      BY <3>1
    <3> DEFINE c == [do |-> "withdraw-bid", id |-> id, index |-> i]
    <3>3. i \in Nat
      BY <1>0, <3>2
    <3>4. c \in Commands /\ c.do # "pickup" /\ CommandTrue(c, World)
      BY <3>3 DEF Commands, CommandTrue
    <3> HIDE DEF c
    <3> QED BY <3>2, <3>4 DEF c
  <2>5. CASE \E v \in Vaults : Deployed(v) /\ Courier(v) = a /\ Types(a,
                [do |-> "pickup", vault |-> v, codes |-> codesFile[DeliveryOf(v)]])
    <3>1. PICK v \in Vaults : Deployed(v) /\ Types(a,
                [do |-> "pickup", vault |-> v, codes |-> codesFile[DeliveryOf(v)]])
      BY <2>5
    <3> DEFINE n == codesFile[DeliveryOf(v)]
               c == [do |-> "pickup", vault |-> v, codes |-> n]
    <3>2. n \in Nat
      BY <1>0, <3>1, TheDelivery
    <3> HIDE DEF n
    <3>3. c \in Commands /\ c.do = "pickup" /\ c.vault = v /\ c.codes = n
      BY <3>2 DEF Commands
    <3> HIDE DEF c
    <3> QED BY <3>1, <3>3 DEF c, n
  <2> QED BY <2>1, <2>2, <2>3, <2>4, <2>5 DEF CourierTypes
<1>1. ASSUME c.do = "pickup" PROVE CommandTrue(c, World)
  <2> DEFINE k == DeliveryOf(c.vault)
  <2>1. c.vault \in Vaults /\ Deployed(c.vault) /\ c.codes = codesFile[k]
    BY <1>1, WhatCommandsHold
  <2>2. /\ k \in Ids /\ InStage(k, "Assigned")
        /\ \A id \in Ids : Opened(id) /\ requests[id].vault = c.vault => id = k
    BY <1>0, <2>1, TheDelivery
  <2> HIDE DEF k
  <2>3. World.vlt = vault /\ World.req = requests /\ World.drawn = draws
    BY DEF World
  <2>4. FirstCodes(k, codesFile[k], World)
    <3>1. FileTrue(k, codesFile[k], locked[k], World) /\ draws[k] \in Nat
      BY <1>0, <2>2
    <3> QED BY <2>2, <2>3, <3>1 DEF FileTrue, FirstCodes, InStage, Opened
  <2>5. \A id \in Ids : World.req[id] # NoRequest /\ World.req[id].vault = c.vault
                          => FirstCodes(id, c.codes, World)
    BY <2>1, <2>2, <2>3, <2>4 DEF Opened
  <2> QED BY <1>1, <2>1, <2>3, <2>5 DEF CommandTrue, Deployed
<1>2. CommandTrue(c, World)
  BY <1>1
<1> QED BY <1>0, <1>2, PlainTyping

\* Steps that leave the files and what is locked alone, and publish no hashes.
LEMMA FilesGoOn ==
  ASSUME ClientsInv, [ClientsNext]_clientVars, UNCHANGED <<codesFile, locked, draws>>,
         \A id \in Ids : Lockable(id)' => Lockable(id)
  PROVE  \A id \in Ids : FileTrue(id, codesFile[id], locked[id], World)'
<1>1. \A id \in Ids : RequestGoesOn(requests[id], requests'[id])
  BY ClientsAreInTheMarket, MarketGoesOn DEF ClientsInv
<1>2. World'.drawn = World.drawn /\ World'.req = requests' /\ World.req = requests
  BY DEF World
<1>3. ASSUME NEW id \in Ids
      PROVE  FileTrue(id, codesFile[id], locked[id], World')
  <2>1. FileTrue(id, codesFile[id], locked[id], World)
    BY DEF ClientsInv
  <2>2. /\ requests[id] # NoRequest => requests'[id] # NoRequest
        /\ requests'[id] # NoRequest /\ (requests'[id].hashed \/ requests'[id].stage = "Assigned")
             => requests[id] # NoRequest /\ (requests[id].hashed \/ requests[id].stage = "Assigned")
    BY <1>1 DEF RequestGoesOn, Lockable, Opened
  <2> QED BY <1>2, <2>1, <2>2, FilesStand
<1> QED BY <1>3

\* The hashes of the codes sent are on the chain.
LEMMA PublishingKeeps ==
  ASSUME ClientsInv, [ClientsNext]_clientVars, NEW c \in Commands, CommandTrue(c, World),
         c.do = "publish-hashes", PublishHashes(c.id),
         locked' = [locked EXCEPT ![c.id] = c.codes], UNCHANGED <<codesFile, draws>>
  PROVE  /\ locked' \in [Ids -> Nat]
         /\ \A id \in Ids : FileTrue(id, codesFile[id], locked[id], World)'
<1> DEFINE key == c.id
<1>1. key \in Ids /\ c.codes \in Nat /\ FirstCodes(key, c.codes, World)
  BY WhatCommandsHold DEF CommandTrue
<1>2. /\ locked \in [Ids -> Nat] /\ draws \in [Ids -> Nat]
      /\ \A id \in Ids : FileTrue(id, codesFile[id], locked[id], World)
  BY DEF ClientsInv
<1>3. /\ locked' \in [Ids -> Nat] /\ locked'[key] = c.codes
      /\ \A id \in Ids \ {key} : locked'[id] = locked[id]
  BY <1>1, <1>2
<1>4. \A id \in Ids : RequestGoesOn(requests[id], requests'[id])
  BY ClientsAreInTheMarket, MarketGoesOn DEF ClientsInv
<1>5. Opened(key) /\ \A id \in Ids \ {key} : requests'[id] = requests[id]
  BY <1>1 DEF PublishHashes, InStage, ClientsInv, MarketInv, MarketTypes
<1>6. World'.drawn = draws /\ World'.req = requests' /\ World.drawn = draws /\ World.req = requests
  BY DEF World
<1> HIDE DEF key
<1>7. draws[key] \in Nat
  BY <1>1, <1>2
<1>8. FileTrue(key, codesFile[key], locked'[key], World')
  <2>1. FileTrue(key, codesFile[key], locked[key], World) /\ requests'[key] # NoRequest
    BY <1>1, <1>2, <1>4, <1>5 DEF RequestGoesOn, Opened
  <2> QED BY <1>1, <1>3, <1>6, <1>7, <2>1 DEF FileTrue, FirstCodes
<1>9. ASSUME NEW id \in Ids \ {key}
      PROVE  FileTrue(id, codesFile[id], locked'[id], World')
  <2>1. FileTrue(id, codesFile[id], locked[id], World)
    BY <1>2
  <2> QED BY <1>3, <1>5, <1>6, <2>1 DEF FileTrue
<1> QED BY <1>3, <1>8, <1>9

LEMMA MinedKeeps ==
  ASSUME ClientsInv, [ClientsNext]_clientVars, NEW user \in Users, Mined(user)
  PROVE  Own'
<1> DEFINE c == Head(sent[user]).call
<1>1. c \in Commands /\ CommandTrue(c, World)
  BY NextCommand DEF Mined
<1>2. /\ Calls(user, c) /\ sent[user] # <<>> /\ sent' = [sent EXCEPT ![user] = Tail(@)]
      /\ UNCHANGED draws
  BY DEF Mined
<1>3. UNCHANGED codesFile
  BY DEF Mined, File
<1>4. /\ c.do = "publish-hashes" => locked' = [locked EXCEPT ![c.id] = c.codes]
      /\ c.do # "publish-hashes" => UNCHANGED locked
  BY DEF Mined
<1> HIDE DEF c
<1>5. sent' \in [Users -> Seq(Queued)] /\ AllTrue(sent, World)'
  BY <1>2, ShrinkingKeeps
<1>6. CASE c.do = "publish-hashes"
  <2>1. PublishHashes(c.id)
    BY <1>2, <1>6 DEF Calls, SellerCalls, BuyerCalls, CourierCalls, OnRegistry
  <2>2. /\ locked' \in [Ids -> Nat]
        /\ \A id \in Ids : FileTrue(id, codesFile[id], locked[id], World)'
    BY <1>1, <1>2, <1>3, <1>4, <1>6, <2>1, PublishingKeeps
  <2> QED BY <1>2, <1>3, <1>5, <2>2 DEF Own, ClientsInv
<1>7. CASE c.do # "publish-hashes"
  <2>1. \/ UNCHANGED requests
        \/ \E s \in Sellers, r \in RequestTerms : OpenRequest(s, r)
        \/ \E k \in Ids, v \in Vaults : \E i : InStage(k, "Open") /\ Accept(k, i, v)
    BY <1>1, <1>2, <1>7, OtherCalls
  <2>2. \A id \in Ids : Lockable(id)' => Lockable(id)
    BY <2>1, NoNewHashes DEF ClientsInv, MarketInv
  <2>3. \A id \in Ids : FileTrue(id, codesFile[id], locked[id], World)'
    BY <1>2, <1>3, <1>4, <1>7, <2>2, FilesGoOn
  <2> QED BY <1>2, <1>3, <1>4, <1>5, <1>7, <2>3 DEF Own, ClientsInv
<1> QED BY <1>6, <1>7

LEMMA WaitingKeeps ==
  ASSUME ClientsInv, [ClientsNext]_clientVars,
         \/ \E u \in Users : Fails(u) \/ Interrupted(u)
         \/ Elsewhere
         \/ UNCHANGED clientVars
  PROVE  Own'
<1>1. UNCHANGED <<codesFile, locked, draws>>
  BY DEF Fails, Interrupted, Elsewhere, clientVars
<1>2. \A id \in Ids : Lockable(id)' => Lockable(id)
  <2>1. \/ UNCHANGED requests
        \/ \E k \in Ids, v \in Vaults : \E i : InStage(k, "Open") /\ Accept(k, i, v)
    BY OtherSteps DEF Fails, Interrupted, clientVars, vars, registryVars
  <2> QED BY <2>1, NoNewHashes DEF ClientsInv, MarketInv
<1>3. \A id \in Ids : FileTrue(id, codesFile[id], locked[id], World)'
  BY <1>1, <1>2, FilesGoOn
<1>4. sent' \in [Users -> Seq(Queued)] /\ AllTrue(sent, World)'
  <2>1. CASE UNCHANGED sent
    <3>1. draws \in [Ids -> Nat] /\ sent \in [Users -> Seq(Queued)]
      BY DEF ClientsInv
    <3>2. WorldOn(World, World')
      BY <1>1, <3>1, TheWorldGoesOn
    <3> QED BY <2>1, <3>1, <3>2, QueuesGoOn
  <2>2. ASSUME NEW u \in Users, Fails(u) \/ Interrupted(u)
        PROVE  sent' \in [Users -> Seq(Queued)] /\ AllTrue(sent, World)'
    <3>1. /\ sent[u] # <<>>
          /\ \/ sent' = [sent EXCEPT ![u] = Tail(@)]
             \/ sent' = [sent EXCEPT ![u][Len(sent[u])].waited = FALSE]
      BY <2>2 DEF Fails, Interrupted
    <3> QED BY <1>1, <3>1, ShrinkingKeeps
  <2> QED BY <2>1, <2>2 DEF Elsewhere, clientVars
<1> QED BY <1>1, <1>3, <1>4 DEF Own, ClientsInv

LEMMA ClientsGoOn ==
  ASSUME ClientsInv, [ClientsNext]_clientVars
  PROVE  ClientsInv'
<1>1. MarketInv /\ MarketTypes /\ ListsBounded /\ now \in 1..MaxTime /\ [Next]_vars
  BY ClientsAreInTheMarket DEF ClientsInv, MarketInv
<1>2. MarketInv' /\ ListsBounded' /\ now' \in 1..MaxTime
  BY <1>1, MarketStep, ListsStayBounded, NowBounded
<1>3. Own'
  BY SellerTypesKeeps, BuyerTypesKeeps, CourierTypesKeeps, MinedKeeps, WaitingKeeps
     DEF ClientsNext
<1> QED BY <1>2, <1>3 DEF ClientsInv, Own

-----------------------------------------------------------------------------
(* Theorems.                                                               *)

\* The market the clients work on keeps its books, whatever they type and
\* however often they are interrupted; and what is on its way, the codes file
\* and the chain are in step as ClientsInv says.
THEOREM TheClientsAreSound == ClientsSpec => []ClientsInv
<1>1. ClientsInit => ClientsInv
  BY NothingSent
<1>2. ClientsInv /\ [ClientsNext]_clientVars => ClientsInv'
  BY ClientsGoOn
<1> QED BY <1>1, <1>2, PTL DEF ClientsSpec

\* CodesOnFile: a delivery whose codes were drawn once can be picked up with
\* the file, and with what was read of it before.
THEOREM TheFileOpensTheVault == ClientsSpec => []CodesOnFile
<1>1. ClientsInv => CodesOnFile
  <2> SUFFICES ASSUME ClientsInv, NEW id \in Ids, locked[id] # 0, draws[id] = 1
               PROVE  /\ codesFile[id] = locked[id]
                      /\ \A a \in Accounts : \A i \in DOMAIN sent[a] :
                           sent[a][i].call.do = "pickup"
                             /\ sent[a][i].call.vault = requests[id].vault
                           => sent[a][i].call.codes = locked[id]
    BY DEF CodesOnFile
  <2>1. FileTrue(id, codesFile[id], locked[id], World)
    BY DEF ClientsInv
  <2>2. codesFile[id] = 1 /\ locked[id] = 1 /\ requests[id] # NoRequest
    BY <2>1 DEF FileTrue, World
  <2>3. ASSUME NEW a \in Accounts, NEW i \in DOMAIN sent[a],
               sent[a][i].call.do = "pickup", sent[a][i].call.vault = requests[id].vault
        PROVE  sent[a][i].call.codes = 1
    <3>1. a \in Users /\ AllTrue(sent, World)
      BY DEF Users, ClientsInv
    <3>2. CommandTrue(sent[a][i].call, World)
      BY <3>1 DEF AllTrue
    <3>3. FirstCodes(id, sent[a][i].call.codes, World)
      BY <2>2, <2>3, <3>2 DEF CommandTrue, World
    <3> QED BY <3>3 DEF FirstCodes, World
  <2> QED BY <2>2, <2>3
<1> QED BY <1>1, TheClientsAreSound, PTL

\* ListedBidIsAccepted: an acceptance that was typed takes the bid that was
\* listed, on the terms it was listed with.
THEOREM TheListedBidIsAccepted == ClientsSpec => ListedBidIsAccepted
<1> DEFINE Good == \A id \in Ids :
             /\ InStage(id, "Open") /\ requests'[id].stage = "Assigned"
             /\ sent' # sent
             => LET c == Head(sent["seller"]).call
                    t == vault'[requests'[id].vault].terms
                IN  /\ c.listed.courier = t.courier
                    /\ c.listed.offered.price = t.courierFee
                    /\ c.listed.offered.promisedTime = t.dropoffDeadline
<1>1. ASSUME ClientsInv, [ClientsNext]_clientVars PROVE Good
  <2> SUFFICES ASSUME NEW id \in Ids, InStage(id, "Open"),
                      requests'[id].stage = "Assigned", sent' # sent
               PROVE  LET c == Head(sent["seller"]).call
                          t == vault'[requests'[id].vault].terms
                      IN  /\ c.listed.courier = t.courier
                          /\ c.listed.offered.price = t.courierFee
                          /\ c.listed.offered.promisedTime = t.dropoffDeadline
    OBVIOUS
  <2>1. requests' # requests
    BY DEF InStage
  <2>2. PICK user \in Users : Mined(user)
    BY <1>1, <2>1 DEF ClientsNext, SellerTypes, BuyerTypes, CourierTypes, Types, Fails,
       Interrupted, Elsewhere, clientVars, vars, registryVars
  <2> DEFINE c == Head(sent[user]).call
  <2>3. c \in Commands /\ CommandTrue(c, World) /\ Calls(user, c)
    BY <1>1, <2>2, NextCommand DEF Mined
  <2> HIDE DEF c
  <2>4. c.do # "publish-hashes"
    <3>1. ASSUME PublishHashes(c.id), c.id \in Ids PROVE FALSE
      <4> DEFINE q == [requests[c.id] EXCEPT !.hashed = TRUE]
      <4>1. requests' = [requests EXCEPT ![c.id] = q] /\ InStage(c.id, "Open")
        BY <3>1 DEF PublishHashes
      <4>2. requests \in [Ids -> RequestRecords \cup {NoRequest}]
        BY <1>1 DEF ClientsInv, MarketInv, MarketTypes
      <4>3. q.stage = "Open"
        BY <3>1, <4>1, <4>2 DEF InStage, Opened, RequestRecords
      <4> HIDE DEF q
      <4> QED BY <3>1, <4>1, <4>2, <4>3 DEF InStage
    <3> QED BY <2>3, <3>1, WhatCommandsHold
        DEF Calls, SellerCalls, BuyerCalls, CourierCalls, OnRegistry
  <2>5. CASE \E s \in Sellers, r \in RequestTerms : OpenRequest(s, r)
    <3>1. PICK s \in Sellers, r \in RequestTerms : OpenRequest(s, r)
      BY <2>5
    <3> DEFINE key == <<s, sellerNonce[s] + 1>>
               q == [asked |-> r, hashed |-> FALSE, stage |-> "Open",
                     acceptedBid |-> 0, vault |-> NoVault]
    <3>2. requests' = [requests EXCEPT ![key] = q] /\ q.stage = "Open"
      BY <3>1 DEF OpenRequest
    <3> HIDE DEF q, key
    <3>3. requests'[id] = q \/ requests'[id] = requests[id]
      BY <1>1, <3>2 DEF ClientsInv, MarketInv, MarketTypes
    <3> QED BY <3>2, <3>3 DEF InStage
  <2>6. CASE /\ user = "seller" /\ c.do = "accept" /\ c.id \in Ids
             /\ \E v \in Vaults : InStage(c.id, "Open") /\ Accept(c.id, c.index, v)
    <3>1. PICK v \in Vaults : InStage(c.id, "Open") /\ Accept(c.id, c.index, v)
      BY <2>6
    <3>2. /\ requests'[c.id].vault = v
          /\ \A k \in Ids \ {c.id} : requests'[k] = requests[k]
          /\ vault'[v].terms.courier = bids[c.id][c.index].courier
          /\ vault'[v].terms.courierFee = bids[c.id][c.index].offered.price
          /\ vault'[v].terms.dropoffDeadline = bids[c.id][c.index].offered.promisedTime
      BY <1>1, <2>6, <3>1, AcceptedTerms DEF ClientsInv, MarketInv
    <3>3. id = c.id
      BY <3>2 DEF InStage
    <3>4. /\ bids[c.id][c.index].courier = c.listed.courier
          /\ bids[c.id][c.index].offered = c.listed.offered
      BY <2>3, <2>6 DEF CommandTrue, World
    <3> QED BY <2>6, <3>2, <3>3, <3>4 DEF c
  <2> QED BY <2>1, <2>3, <2>4, <2>5, <2>6, OtherCalls
<1>2. ClientsInv /\ [ClientsNext]_clientVars => [Good]_clientVars
  BY <1>1
<1> QED BY <1>2, TheClientsAreSound, PTL DEF ClientsSpec, ListedBidIsAccepted
=============================================================================
