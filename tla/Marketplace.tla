---------------------------- MODULE Marketplace -----------------------------
(***************************************************************************)
(* The three contracts together, as scripts/deploy.js wires them: one      *)
(* pool, one registry that is the pool's factory, and the vaults the        *)
(* registry spawns.  A transaction that crosses contracts is one step: the  *)
(* conjunction of what it does in each of them.                             *)
(***************************************************************************)
EXTENDS MarketplaceRegistry

CONSTANTS
    NoAccount,
    Amounts,            \* the stakes members move
    RequestTerms,       \* what sellers ask for
    BidTerms,           \* what couriers offer
    Policies            \* what sellers let their agents do

\* struct Request, once it is opened.
RequestRecords ==
    [asked : RequestTerms, hashed : BOOLEAN,
     stage : {"Open", "Assigned", "Cancelled"},
     acceptedBid : Nat, vault : Vaults \cup {NoVault}]

ASSUME MarketConstants ==
    /\ NoAccount \notin Accounts /\ NoVault \notin Vaults
    /\ NoRequest \notin RequestRecords
    /\ Amounts \subseteq Nat \ {0}
    /\ RequestTerms \subseteq
         [declaredValue : Nat, maxPrice : Nat, maxDeadline : Nat,
          bidDeadline : Nat, disputeWindow : Nat, refuses : SUBSET Parties]
    /\ \A b \in BidTerms :
         b.price \in Nat /\ b.promisedTime \in Nat /\ b.refuses \subseteq Parties

vars == <<now, poolVars, vault, registryVars>>

Init ==
    /\ now = 1
    /\ PoolInit /\ VaultInit /\ RegistryInit

\* The pool once the market is deployed and every courier is in it.
CouriersStaked ==
    /\ memberList \in {m \in [1..Cardinality(Accounts) -> Accounts] : Range(m) = Accounts}
    /\ \E n \in Amounts :
         /\ contribution = [a \in Accounts |-> n]
         /\ totalStake = n * Cardinality(Accounts)
    /\ balance = totalStake /\ totalStake <= MaxStake
    /\ reserved = [a \in Accounts |-> 0] /\ activeValue = 0
    /\ withdrawReqAt = [a \in Accounts |-> 0]
    /\ withdrawReqAmt = [a \in Accounts |-> 0]
    /\ registeredVaults = {} /\ factory = Registry

PoolUnchanged == UNCHANGED poolVars
OthersUnchanged == UNCHANGED <<now, vault, registryVars>>

-----------------------------------------------------------------------------
(* Steps of one contract.                                                  *)

Membership ==
    /\ OthersUnchanged
    /\ \/ SetFactory(Registry)
       \/ \E a \in Accounts : AdmitMember(a)
       \/ \E a \in Accounts, n \in Amounts : DepositStake(a, n) \/ RequestWithdraw(a, n)
       \/ \E a \in Accounts : FinalizeWithdraw(a)

Asking ==
    /\ UNCHANGED <<now, vault>> /\ PoolUnchanged
    /\ \/ \E s \in Sellers, p \in Policies : SetAgentPolicy(s, p)
       \/ \E s \in Sellers, r \in RequestTerms : OpenRequest(s, r)
       \/ \E id \in Ids : PublishHashes(id) \/ CancelRequest(id)

Bidding ==
    /\ UNCHANGED <<now, vault>> /\ PoolUnchanged
    /\ \E id \in Ids :
         \/ \E a \in Accounts, b \in BidTerms : PlaceBid(id, a, b)
         \/ \E i \in 1..MaxBids : WithdrawBid(id, i)

Carrying(v) ==
    /\ QuietStep(v)
    /\ UNCHANGED <<now, registryVars>> /\ PoolUnchanged

Clock == TimePasses /\ UNCHANGED <<vault, registryVars>> /\ PoolUnchanged

-----------------------------------------------------------------------------
(* Steps across contracts.                                                 *)

Accepting ==
    /\ UNCHANGED now
    /\ \E id \in Ids, i \in 1..MaxBids, v \in Vaults :
         AcceptBid(id, i, v) \/ AcceptBidByAgent(id, i, v)

Courier(v) == vault[v].terms.courier
Value(v) == vault[v].terms.declaredValue

SettlingWell(v) ==
    /\ UNCHANGED <<now, registryVars>>
    /\ ReleasingStep(v)
    /\ Release(v, Courier(v), Value(v))

SettlingBadly(v) ==
    /\ UNCHANGED <<now, registryVars>>
    /\ Deployed(v)
    /\ SlashingStep(v, Paid(Courier(v), Value(v)))
    /\ Slash(v, Courier(v), Value(v))

Next ==
    \/ Membership \/ Asking \/ Bidding \/ Accepting
    \/ \E v \in Vaults : Carrying(v) \/ SettlingWell(v) \/ SettlingBadly(v)
    \/ Clock

Spec == Init /\ [][Next]_vars

-----------------------------------------------------------------------------
(* Properties.                                                             *)

\* Vaults and requests keep their types; the pool's part is in PoolClients.
TypeOK ==
    /\ \A v \in Vaults : Deployed(v) =>
         /\ vault[v].terms \in Terms
         /\ vault[v].initialized
         /\ {vault[v].balance, vault[v].toCourier, vault[v].toBuyer} \subseteq Nat
    /\ \A id \in Ids : Opened(id) =>
         /\ requests[id].asked \in RequestTerms
         /\ requests[id].stage \in {"Open", "Assigned", "Cancelled"}
         /\ requests[id].acceptedBid \in 0..Len(bids[id])

\* "exactly one accepted bid per request; exactly one vault per delivery": a
\* vault exists exactly for each assigned request, is nobody else's, and
\* carries the terms of the bid that was accepted, which was not withdrawn
\* and stays as it was.
OneVaultPerDelivery ==
    /\ \A id \in Ids : InStage(id, "Assigned") =>
         LET i == requests[id].acceptedBid
             v == requests[id].vault
         IN  /\ v \in Vaults /\ Deployed(v)
             /\ i \in DOMAIN bids[id] /\ ~bids[id][i].withdrawn
             /\ vault[v].terms = TermsOf(id, i)
             /\ Courier(v) \in Members
    /\ \A v \in Vaults : Deployed(v) =>
         \E id \in Ids :
            /\ InStage(id, "Assigned") /\ requests[id].vault = v
            /\ \A other \in Ids : Opened(other) /\ requests[other].vault = v
                                   => other = id

\* A buyer whose delivery failed while the pool backed all it had promised
\* has the fee back and the declared value on top, less the dust: under one
\* wei per other member.
FailureIsCompensated ==
    [][\A v \in Vaults :
         /\ Deployed(v) /\ vault'[v].state = "Failed" /\ vault[v].state # "Failed"
         /\ activeValue <= totalStake
         => LET short == vault[v].terms.courierFee + Value(v) - vault'[v].toBuyer
            IN  short = 0 \/ short < Cardinality(Others(Courier(v)))]_vars

\* What the vaults do to the pool is what PoolClients assumes of them, so its
\* theorems hold of the marketplace.
Clients == INSTANCE PoolClients WITH
    ManualVaults <- {},
    Values <- {r.declaredValue : r \in RequestTerms} \ {0},
    claim <- [v \in Vaults |->
        IF ~Deployed(v) THEN "none"
        ELSE IF vault[v].finalized THEN "settled" ELSE "open"],
    courierOf <- [v \in Vaults |-> IF Deployed(v) THEN Courier(v) ELSE NoAccount],
    valueOf <- [v \in Vaults |-> IF Deployed(v) THEN Value(v) ELSE 0]
VaultsAreClients == Clients!Spec

\* The vaults the registry spawns are deliveries as Deliveries has them, and
\* the pool answers them, on terms that a request and a bid make up; a promise
\* is later than tick 0.
Agreements ==
    {Contract(r, [courier |-> a, offered |-> b]) :
        r \in RequestTerms, a \in Accounts, b \in {o \in BidTerms : o.promisedTime > 0}}
Vaulted == INSTANCE Deliveries WITH
    Offers <- Agreements,
    backing <- [v \in Vaults |-> IF Deployed(v) THEN "spawned" ELSE "none"]

\* The market implements both its parts: to the pool it is PoolClients, to the
\* vaults Deliveries, and what is proved of each holds in it.
PartsFit == VaultsAreClients /\ Vaulted!Spec

\* A settlement on the vault's side never waits for the pool: whenever a
\* vault's own state lets it be slashed, the pool's slash() goes through.
SlashNeverBlocked ==
    \A v \in Vaults : Deployed(v) /\ ~vault[v].finalized =>
        v \in registeredVaults /\ SlashFits(Courier(v), Value(v))
=============================================================================
