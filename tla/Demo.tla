-------------------------------- MODULE Demo --------------------------------
(***************************************************************************)
(* The scripts a market is started with.  scripts/deploy.js puts the       *)
(* contracts on a node that has just started and names them in             *)
(* deployment.json; scripts/frontend-demo.js takes one delivery up to its   *)
(* pickup on them and names it in frontend-demo.json, which the page loads; *)
(* scripts/demo-end-to-end.js takes one to its end on contracts of its own. *)
(* A script is a program of awaits, one step each: a step that is not       *)
(* enabled reverts and ends it, and it may be interrupted before any.       *)
(* The files outlive it, and the node.                                      *)
(*                                                                          *)
(* A tick is an hour and a price is in hundredths of an ether; a run is over *)
(* before the next tick.  The three couriers bid in the order of Couriers.  *)
(***************************************************************************)
EXTENDS Marketplace, BidRanking

CONSTANTS
    Couriers,       \* courier1, courier2, courier3
    Stake,          \* what each of them stakes
    Nothing,        \* no script under way, no manifest
    MaxNodes        \* bound: how often the node is started

VARIABLES
    script,         \* the program under way: what is left of it, its
                    \* delivery and its vault
    node,           \* how often it was started, and are the contracts on it
    files           \* deployment.json is there; frontend-demo.json

demoVars == <<vars, script, node, files>>

Seller == CHOOSE s \in Sellers : TRUE

-----------------------------------------------------------------------------
(* The programs.                                                           *)

\* A step of the script as a whole, and the same one for every courier.
Once(do) == [do |-> do, by |-> 0]
ForEach(do) == [i \in DOMAIN Couriers |-> [do |-> do, by |-> i]]
Staking3 == <<[do |-> "admit", by |-> 1], [do |-> "stake", by |-> 1],
              [do |-> "admit", by |-> 2], [do |-> "stake", by |-> 2],
              [do |-> "admit", by |-> 3], [do |-> "stake", by |-> 3]>>
Trade == <<Once("policy"), Once("open"), Once("publish")>> \o ForEach("bid")
           \o <<Once("accept"), Once("fund"), Once("pickup")>>

DeployPlan == <<Once("contracts"), Once("factory"), Once("deploymentFile")>>
\* Bug: the delivery is named once its vault is known.
FrontendPlanEarly ==
    Staking3 \o SelectSeq(Trade, LAMBDA s : s.do \notin {"fund", "pickup"})
      \o <<Once("demoFile"), Once("fund"), Once("pickup")>>
FrontendPlan == Staking3 \o Trade \o <<Once("demoFile")>>
\* Bug: the dispute window is not waited for.
EndToEndImpatient ==
    <<Once("contracts"), Once("factory")>> \o Staking3 \o Trade
      \o <<Once("confirm"), Once("finalize")>>
EndToEndPlan ==
    <<Once("contracts"), Once("factory")>> \o Staking3 \o Trade
      \o <<Once("confirm"), Once("passWindow"), Once("finalize")>>

\* The numbers the two demos differ in.
EndToEnd == [policy |-> [enabled |-> TRUE, maxPrice |-> 20, minDeadlineBuffer |-> 12,
                         coSignThreshold |-> 2],
             maxPrice |-> 15, maxDeadline |-> 48, bidDeadline |-> 2,
             prices |-> <<8, 10, 14>>, promises |-> <<6, 12, 8>>]
Frontend == [policy |-> [enabled |-> TRUE, maxPrice |-> 20, minDeadlineBuffer |-> 1,
                         coSignThreshold |-> 2],
             maxPrice |-> 20, maxDeadline |-> 24, bidDeadline |-> 1,
             prices |-> <<12, 15, 18>>, promises |-> <<6, 4, 5>>]
Numbers == IF script.name = "endToEnd" THEN EndToEnd ELSE Frontend

\* d is one of the two, t the time.
Asked(d, t) == [declaredValue |-> 1, maxPrice |-> d.maxPrice,
                maxDeadline |-> t + d.maxDeadline, bidDeadline |-> t + d.bidDeadline,
                disputeWindow |-> 1, refuses |-> {}]
Offered(d, i, t) == [price |-> d.prices[i], promisedTime |-> t + d.promises[i],
                     refuses |-> {}]

\* Three couriers; RequestTerms and BidTerms hold what the demos come to, and
\* the end-to-end demo is over before the bound of the clock.
ASSUME DemoConstants ==
    /\ Nothing \notin Vaults
    /\ Couriers \in Seq(Accounts) /\ Len(Couriers) = 3
    /\ Sellers # {} /\ Stake \in Amounts /\ MaxTime >= 3
    /\ \A d \in {EndToEnd, Frontend} :
         /\ d.policy \in Policies
         /\ \A t \in 1..MaxTime :
              /\ Asked(d, t) \in RequestTerms
              /\ \A i \in 1..3 : Offered(d, i, t) \in BidTerms

-----------------------------------------------------------------------------
(* What the steps do to the market.                                        *)

\* Bug: who is a member already is not put up with.
KnownToNobody(c) == FALSE
\* frontend-demo.js puts up with "already member".
Known(c) == script.name = "frontend" /\ c \in Members
Admit(c) ==
    IF Known(c) THEN UNCHANGED vars ELSE AdmitMember(c) /\ OthersUnchanged

\* frontend-demo.js stakes only for who has less.
Staked(c) == script.name = "frontend" /\ contribution[c] >= Stake
StakeUp(c) ==
    IF Staked(c) THEN UNCHANGED vars ELSE DepositStake(c, Stake) /\ OthersUnchanged

\* Any bid its filters let through may be the ranking's winner: the scores
\* are in SellerAgent.
MayWin(w) ==
    LET limits == [maxPrice |-> Numbers.maxPrice,
                   maxDeadline |-> requests[script.id].asked.maxDeadline]
    IN  ~Filtered(bids[script.id][w].offered, bids[script.id][w].withdrawn, limits, now)
AgentAccepts(w) ==
    /\ MayWin(w)
    /\ AcceptBidByAgent(script.id, w, script.vault')
    /\ UNCHANGED now

\* The courier who picks up is the one at the winner's place in the list.
PicksUp == /\ Couriers[requests[script.id].acceptedBid] = Courier(script.vault)
           /\ Pickup(script.vault)

RegistryOnly(step) == step /\ UNCHANGED <<now, vault>> /\ PoolUnchanged
VaultOnly(step) == step /\ UNCHANGED <<now, registryVars>> /\ PoolUnchanged

Transaction(do, i) ==
    \/ do = "factory" /\ SetFactory(Registry) /\ OthersUnchanged
    \/ do = "admit" /\ Admit(Couriers[i])
    \/ do = "stake" /\ StakeUp(Couriers[i])
    \/ do = "policy" /\ RegistryOnly(SetAgentPolicy(Seller, Numbers.policy))
    \/ do = "publish" /\ RegistryOnly(PublishHashes(script.id))
    \/ do = "bid" /\ RegistryOnly(PlaceBid(script.id, Couriers[i], Offered(Numbers, i, now)))
    \/ do = "fund" /\ VaultOnly(Fund(script.vault))
    \/ do = "pickup" /\ VaultOnly(PicksUp)
    \/ do = "confirm" /\ VaultOnly(ConfirmDelivery(script.vault))
    \/ do = "finalize" /\ UNCHANGED <<now, registryVars>>
       /\ FinalizeDelivered(script.vault)
       /\ Release(script.vault, Courier(script.vault), Value(script.vault))

-----------------------------------------------------------------------------
(* Scripts.                                                                *)

DemoInit ==
    /\ now = 1 /\ PoolInit /\ VaultInit /\ RegistryInit
    /\ node = [started |-> 1, contracts |-> FALSE]
    /\ files = [deployment |-> FALSE, manifest |-> Nothing]
    /\ script \in {Nothing, [name |-> "endToEnd", plan |-> EndToEndPlan,
                             id |-> Nothing, vault |-> Nothing]}

Starts(name, plan) ==
    /\ script = Nothing
    /\ script' = [name |-> name, plan |-> plan, id |-> Nothing, vault |-> Nothing]
    /\ UNCHANGED <<vars, node, files>>

\* Every script but deploy.js begins by reading deployment.json.
Deploy == ~node.contracts /\ Starts("deploy", DeployPlan)
DemoAgain == /\ files.deployment
             /\ sellerNonce[Seller] < MaxRequests       \* bound
             /\ Starts("frontend", FrontendPlan)

GoOn(left) == script' = IF Len(left.plan) = 1 THEN Nothing
                        ELSE [left EXCEPT !.plan = Tail(@)]

Manifest == [id |-> script.id, vault |-> script.vault, node |-> node.started]

Step ==
    /\ script # Nothing
    /\ LET do == Head(script.plan).do
           by == Head(script.plan).by
       IN  /\ do \in {"contracts", "deploymentFile"} \/ node.contracts
           /\ \/ /\ Transaction(do, by) /\ GoOn(script)
                 /\ UNCHANGED <<node, files>>
              \/ /\ do = "contracts" /\ GoOn(script)
                 /\ node' = [node EXCEPT !.contracts = TRUE]
                 /\ UNCHANGED <<vars, files>>
              \/ /\ do = "open"
                 /\ RegistryOnly(OpenRequest(Seller, Asked(Numbers, now)))
                 /\ GoOn([script EXCEPT !.id = <<Seller, sellerNonce'[Seller]>>])
                 /\ UNCHANGED <<node, files>>
              \/ /\ do = "accept"
                 /\ \E v \in Vaults : GoOn([script EXCEPT !.vault = v])
                 /\ \E w \in DOMAIN bids[script.id] : AgentAccepts(w)
                 /\ UNCHANGED <<node, files>>
              \/ /\ do = "passWindow" /\ GoOn(script)
                 /\ now' = now + Asked(Numbers, now).disputeWindow + 1
                 /\ UNCHANGED <<vault, registryVars, node, files>> /\ PoolUnchanged
              \/ /\ do = "deploymentFile" /\ GoOn(script)
                 /\ files' = [files EXCEPT !.deployment = TRUE]
                 /\ UNCHANGED <<vars, node>>
              \/ /\ do = "demoFile" /\ GoOn(script)
                 /\ files' = [files EXCEPT !.manifest = Manifest]
                 /\ UNCHANGED <<vars, node>>

Runs(name) == script # Nothing /\ script.name = name
\* Nobody interrupts the demo on the node of its own.
Interruptible == ~Runs("endToEnd")

\* Ctrl-C, or a step that reverts.
Ends == /\ script # Nothing /\ Interruptible
        /\ script' = Nothing /\ UNCHANGED <<vars, node, files>>

\* A market as its contracts begin.
NewMarket ==
    LET none == [a \in Accounts |-> 0]
    IN  /\ memberList' = <<>> /\ registeredVaults' = {} /\ factory' = NoFactory
        /\ contribution' = none /\ reserved' = none
        /\ withdrawReqAt' = none /\ withdrawReqAmt' = none
        /\ totalStake' = 0 /\ activeValue' = 0 /\ balance' = 0
        /\ vault' = [v \in Vaults |-> NoVault]
        /\ sellerNonce' = [s \in Sellers |-> 0]
        /\ requests' = [id \in Ids |-> NoRequest] /\ bids' = [id \in Ids |-> <<>>]
        /\ agentPolicies' = [s \in Sellers |-> NoPolicy]

\* The node keeps nothing; the files stay.
NodeRestarts ==
    /\ Interruptible /\ node.started < MaxNodes
    /\ NewMarket /\ UNCHANGED now
    /\ node' = [started |-> node.started + 1, contracts |-> FALSE]
    /\ script' = Nothing /\ UNCHANGED files

\* The buyer, the mailbox, the arbiter and whoever calls a timeout, in their
\* own time.
Elsewhere ==
    /\ Interruptible /\ UNCHANGED <<script, node, files>>
    /\ \/ \E v \in Vaults : Carrying(v) \/ SettlingWell(v) \/ SettlingBadly(v)
       \/ script = Nothing /\ node.contracts /\ Clock

DemoNext == Deploy \/ DemoAgain \/ Step \/ Ends \/ NodeRestarts \/ Elsewhere

DemoSpec == DemoInit /\ [][DemoNext]_demoVars /\ WF_demoVars(Step)

-----------------------------------------------------------------------------
(* Properties.                                                             *)

\* Whichever bid wins, the end-to-end demo comes to its end: the courier has
\* the fee and the pool backs nothing any more.
EndToEndDelivers ==
    Runs("endToEnd")
      ~> \E v \in Vaults :
           /\ Deployed(v) /\ vault[v].finalized
           /\ vault[v].toCourier = vault[v].terms.courierFee
           /\ activeValue = 0 /\ totalStake = Len(Couriers) * Stake

\* What frontend-demo.json promises the page: on the node it was written for,
\* its vault is that of its delivery, the fee is in, and the package is on its
\* way or its story over, however the runs before were interrupted and
\* whatever the others do meanwhile.
ManifestIsTrue ==
    LET m == files.manifest
    IN  m # Nothing /\ m.node = node.started =>
          /\ InStage(m.id, "Assigned") /\ requests[m.id].vault = m.vault
          /\ vault[m.vault].funded
          /\ vault[m.vault].state \notin {"Funded", "Refunded"}

\* What the contracts require of the steps up to the acceptance, and of the
\* acceptance of bid w: the vault's constructor, registerByFactory() and
\* reserve() included.
Allowed(do, i) ==
    \/ do = "admit" /\ (Known(Couriers[i]) \/ Couriers[i] \notin Members)
    \/ do = "stake" /\ (Staked(Couriers[i]) \/ Couriers[i] \in Members)
    \/ do = "policy"
    \/ do = "open" /\ Askable(Asked(Numbers, now))
    \/ do = "publish" /\ InStage(script.id, "Open") /\ ~requests[script.id].hashed
    \/ do = "bid" /\ Biddable(script.id, Couriers[i], Offered(Numbers, i, now))
AcceptanceAllowed(w) ==
    LET t == TermsOf(script.id, w)
    IN  /\ InStage(script.id, "Open")
        /\ WithinPolicy(script.id, w) /\ Acceptable(script.id, w)
        /\ Constructible(t)
        /\ factory = Registry /\ Reservable(t.courier, t.declaredValue)

\* frontend-demo.js can be run again after any number of runs, interrupted or
\* not: on a market that deploy.js has finished no step up to its vault is
\* refused, unless the courier who bids has no capacity left, or the one who
\* wins lost it after the bid.  There is a winner.
RerunNeedsOnlyCapacity ==
    Runs("frontend") /\ script.vault = Nothing /\ node.contracts /\ factory # NoFactory =>
      LET do == Head(script.plan).do
          by == Head(script.plan).by
      IN  IF do = "accept"
          THEN /\ \E w \in DOMAIN bids[script.id] : MayWin(w)
               /\ \A w \in DOMAIN bids[script.id] :
                    /\ MayWin(w) /\ FreeCapacityFor(bids[script.id][w].courier) >= 1
                    => AcceptanceAllowed(w)
          ELSE \/ Allowed(do, by)
               \/ do = "bid" /\ FreeCapacityFor(Couriers[by]) < 1
=============================================================================
