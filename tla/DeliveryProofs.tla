--------------------------- MODULE DeliveryProofs ---------------------------
(***************************************************************************)
(* Theorems of Deliveries, for every set of vaults, terms and deadlines;   *)
(* and of MailboxAgent over it, for every number of agent runs and         *)
(* requests to the server and every pause between confirmations.           *)
(***************************************************************************)
EXTENDS MailboxAgent, TLAPS

USE ChainConstants, VaultConstants, DeliveryConstants

-----------------------------------------------------------------------------
(* The inductive invariant.                                                *)

\* A delivery under way holds the fee exactly if it was funded, has paid
\* nobody yet, is funded from the pickup on, disputed only once delivered, and
\* was delivered in time; it waits as delivered only for a dispute window.
UnderWay(r) ==
    /\ r.state \in {"Funded", "PickedUp", "Delivered"}
    /\ r.balance = (IF r.funded THEN r.terms.courierFee ELSE 0)
    /\ r.toCourier = 0 /\ r.toBuyer = 0
    /\ r.state # "Funded" => r.funded
    /\ r.disputed => r.state = "Delivered"
    /\ r.state = "Delivered" => /\ r.deliveredAt \in 1..r.terms.dropoffDeadline
                               /\ r.terms.disputeWindow > 0

\* An ended one is empty, but for a deposit that came after the refund.
Ended(r) ==
    /\ r.state \in {"Delivered", "Refunded", "Failed"}
    /\ r.state # "Refunded" => r.funded /\ r.balance = 0
    /\ r.state = "Refunded" =>
         \/ r.balance = 0 /\ (~r.funded => r.toBuyer = 0)
         \/ r.funded /\ r.balance = r.terms.courierFee /\ r.toBuyer = 0

Sound(r) == IF r.finalized THEN Ended(r) ELSE UnderWay(r)

VaultsTyped ==
    /\ now \in Nat \ {0}
    /\ vault \in [Vaults -> VaultRecords \cup {NoVault}]

VaultInv == VaultsTyped /\ \A v \in Vaults : Deployed(v) => Sound(vault[v])

\* The steps that concern a vault, the others being the clock and the pool's.
OfVault(v) == Initialize(v) \/ Quiet(v) \/ Releasing(v) \/ Slashing(v)

LEMMA Steps ==
  ASSUME [Next]_vars
  PROVE  \/ Deploy \/ (\E v \in Vaults : OfVault(v))
         \/ Clock \/ UNCHANGED <<vault, now>>
BY DEF Next, vars, Register, OfVault

\* A deployment is the registry's or somebody's own.
LEMMA DeploySteps ==
  ASSUME Deploy
  PROVE  \E v \in Vaults, t \in Offers :
            /\ DeployVault(v, t) \/ SpawnVault(v, t)
            /\ now' = now
            /\ \E b \in Backings \ {"none"} : backing' = [backing EXCEPT ![v] = b]
BY DEF Deploy

\* A step that puts a sound record in one place keeps the invariant.
LEMMA OneVaultChanges ==
  ASSUME VaultInv, NEW v \in Vaults, NEW r \in VaultRecords, Sound(r),
         vault' = [vault EXCEPT ![v] = r], now' \in Nat \ {0}
  PROVE  VaultInv'
<1>1. vault \in [Vaults -> VaultRecords \cup {NoVault}]
  BY DEF VaultInv, VaultsTyped
<1>2. VaultsTyped'
  BY <1>1 DEF VaultsTyped
<1>3. ASSUME NEW w \in Vaults, Deployed(w)' PROVE Sound(vault'[w])
  <2>1. CASE w = v
    BY <1>1, <2>1
  <2>2. CASE w # v
    BY <1>1, <1>3, <2>2 DEF VaultInv, Deployed
  <2> QED BY <2>1, <2>2
<1> QED BY <1>2, <1>3 DEF VaultInv

LEMMA VaultInvInit == Init => VaultInv
BY DEF Init, VaultInit, VaultInv, VaultsTyped, Deployed

\* A new vault is sound.
LEMMA FreshIsSound ==
  ASSUME NEW t \in Terms
  PROVE  Fresh(t) \in VaultRecords /\ Sound(Fresh(t))
BY DEF Fresh, VaultRecords, State, Sound, UnderWay

\* Whoever deploys a vault, by hand or through the registry.
LEMMA NewIsSound ==
  ASSUME NEW v \in Vaults, NEW t \in Offers, DeployVault(v, t) \/ SpawnVault(v, t)
  PROVE  \E r \in VaultRecords :
            /\ Sound(r) /\ r.terms = t /\ t \in Terms /\ t.courierFee \in Nat \ {0}
            /\ ~r.funded /\ ~r.finalized /\ r.balance = 0 /\ r.deliveredAt = 0
            /\ r.toCourier = 0 /\ r.toBuyer = 0
            /\ ~Deployed(v) /\ vault' = [vault EXCEPT ![v] = r]
<1>1. t \in Terms /\ t.courierFee \in Nat \ {0} /\ ~Deployed(v)
  BY DeliveryConstants DEF DeployVault, SpawnVault, Constructible, Terms
<1>2. Fresh(t) \in VaultRecords /\ Sound(Fresh(t))
  BY <1>1, FreshIsSound
<1>3. CASE DeployVault(v, t)
  <2>1. vault' = [vault EXCEPT ![v] = Fresh(t)]
    BY <1>3 DEF DeployVault
  <2> QED BY <1>1, <1>2, <2>1 DEF Fresh
<1>4. CASE SpawnVault(v, t)
  <2> DEFINE r == [Fresh(t) EXCEPT !.initialized = TRUE]
  <2>1. r \in VaultRecords /\ Sound(r)
    BY <1>2 DEF VaultRecords, Fresh, Sound, UnderWay
  <2>2. vault' = [vault EXCEPT ![v] = r]
    BY <1>4 DEF SpawnVault
  <2>3. /\ r.terms = t /\ ~r.funded /\ ~r.finalized /\ r.balance = 0
        /\ r.deliveredAt = 0 /\ r.toCourier = 0 /\ r.toBuyer = 0
    BY DEF Fresh
  <2> QED BY <1>1, <2>1, <2>2, <2>3
<1> QED BY <1>3, <1>4

\* What a deployed vault holds.
LEMMA DeployedIsSound ==
  ASSUME VaultInv, NEW v \in Vaults, Deployed(v)
  PROVE  /\ vault[v] \in VaultRecords /\ Sound(vault[v])
         /\ vault[v].terms \in Terms
BY DEF VaultInv, VaultsTyped, Deployed, VaultRecords

-----------------------------------------------------------------------------
(* Every step keeps it.                                                    *)

\* What the steps that end a delivery leave behind.
LEMMA PaidOutIsSound ==
  ASSUME NEW r \in VaultRecords, r.funded
  PROVE  LET s == [r EXCEPT !.finalized = TRUE, !.state = "Delivered",
                            !.toCourier = @ + r.balance, !.balance = 0]
         IN  s \in VaultRecords /\ Sound(s)
<1> DEFINE s == [r EXCEPT !.finalized = TRUE, !.state = "Delivered",
                          !.toCourier = @ + r.balance, !.balance = 0]
<1>1. s \in VaultRecords
  <2>1. r.toCourier + r.balance \in Nat /\ "Delivered" \in State
    BY DEF VaultRecords, State
  <2> QED BY <2>1 DEF VaultRecords
<1>2. s.finalized /\ s.state = "Delivered" /\ s.funded /\ s.balance = 0
  BY DEF VaultRecords
<1> HIDE DEF s
<1>3. Sound(s)
  BY <1>2 DEF Sound, Ended
<1> QED BY <1>1, <1>3 DEF s

LEMMA RefundedIsSound ==
  ASSUME NEW r \in VaultRecords, ~r.finalized, UnderWay(r)
  PROVE  LET s == [r EXCEPT !.finalized = TRUE, !.state = "Refunded",
                            !.toBuyer = @ + r.balance, !.balance = 0]
         IN  s \in VaultRecords /\ Sound(s)
<1> DEFINE s == [r EXCEPT !.finalized = TRUE, !.state = "Refunded",
                          !.toBuyer = @ + r.balance, !.balance = 0]
<1>1. s \in VaultRecords
  <2>1. r.toBuyer + r.balance \in Nat /\ "Refunded" \in State
    BY DEF VaultRecords, State
  <2> QED BY <2>1 DEF VaultRecords
<1>2. /\ s.finalized /\ s.state = "Refunded" /\ s.balance = 0
      /\ ~s.funded => s.toBuyer = 0
  BY DEF VaultRecords, UnderWay
<1> HIDE DEF s
<1>3. Sound(s)
  BY <1>2 DEF Sound, Ended
<1> QED BY <1>1, <1>3 DEF s

LEMMA SlashedIsSound ==
  ASSUME NEW r \in VaultRecords, r.funded, NEW k \in Nat
  PROVE  LET s == [r EXCEPT !.finalized = TRUE, !.state = "Failed",
                            !.toBuyer = @ + r.balance + k, !.balance = 0]
         IN  s \in VaultRecords /\ Sound(s)
<1> DEFINE s == [r EXCEPT !.finalized = TRUE, !.state = "Failed",
                          !.toBuyer = @ + r.balance + k, !.balance = 0]
<1>1. s \in VaultRecords
  <2>1. r.toBuyer + r.balance + k \in Nat /\ "Failed" \in State
    BY DEF VaultRecords, State
  <2> QED BY <2>1 DEF VaultRecords
<1>2. s.finalized /\ s.state = "Failed" /\ s.funded /\ s.balance = 0
  BY DEF VaultRecords
<1> HIDE DEF s
<1>3. Sound(s)
  BY <1>2 DEF Sound, Ended
<1> QED BY <1>1, <1>3 DEF s

\* A step on a vault leaves a sound record in its place.
LEMMA OfVaultKeeps ==
  ASSUME VaultInv, NEW v \in Vaults, OfVault(v)
  PROVE  VaultInv' /\ vault'[v] \in VaultRecords
<1>0. now \in Nat \ {0} /\ vault \in [Vaults -> VaultRecords \cup {NoVault}]
  BY DEF VaultInv, VaultsTyped
<1> DEFINE r == vault[v]
<1>1. Deployed(v) /\ now' \in Nat \ {0} /\ now' = now
  BY <1>0 DEF OfVault, AtOnce, Initialize, InitializeVault, Quiet, QuietStep, Fund, Pickup, CanPickUp,
     ConfirmDelivery, RaiseDispute, Disputable, Releasing, ReleasingStep, ConfirmAndPay,
     Confirmable, ResolveForCourier, FinalizeDelivered, Finalizable, RefundOnPickupTimeout,
     PickupTimedOut, CancelByBuyerPrePickup, Cancellable, Slashing, Pending
<1>2. r \in VaultRecords /\ Sound(r) /\ r.terms \in Terms
  BY <1>1, DeployedIsSound
<1>3. ASSUME NEW s \in VaultRecords, Sound(s), vault' = [vault EXCEPT ![v] = s]
      PROVE  VaultInv' /\ vault'[v] \in VaultRecords
  BY <1>0, <1>1, <1>3, OneVaultChanges
<1>4. CASE Initialize(v)
  <2> DEFINE s == [r EXCEPT !.initialized = TRUE]
  <2>1. s \in VaultRecords /\ Sound(s)
    BY <1>2 DEF VaultRecords, Sound, Ended, UnderWay
  <2>2. vault' = [vault EXCEPT ![v] = s]
    BY <1>0, <1>4 DEF Initialize, InitializeVault
  <2> QED BY <1>3, <2>1, <2>2
<1>5. CASE Fund(v) /\ UNCHANGED now
  <2> DEFINE s == [r EXCEPT !.funded = TRUE, !.balance = @ + r.terms.courierFee]
  <2>1. r.balance + r.terms.courierFee \in Nat /\ ~r.funded
    BY <1>2, <1>5 DEF VaultRecords, Terms, Fund
  <2>2. s \in VaultRecords
    BY <1>2, <2>1 DEF VaultRecords
  <2>3. /\ s.funded /\ s.balance = r.balance + r.terms.courierFee
        /\ s.state = r.state /\ s.finalized = r.finalized
        /\ s.terms = r.terms /\ s.toCourier = r.toCourier
        /\ s.toBuyer = r.toBuyer /\ s.disputed = r.disputed
        /\ s.deliveredAt = r.deliveredAt
        /\ r.terms.courierFee \in Nat
    BY <1>2 DEF VaultRecords, Terms
  <2>4. vault' = [vault EXCEPT ![v] = s]
    BY <1>0, <1>5 DEF Fund
  <2> HIDE DEF s, r
  <2>5. Sound(s)
    BY <1>2, <2>1, <2>3 DEF Sound, Ended, UnderWay
  <2> QED BY <1>3, <2>2, <2>4, <2>5
<1>6. CASE Pickup(v) /\ UNCHANGED now
  <2> DEFINE s == [r EXCEPT !.state = "PickedUp"]
  <2>1. s \in VaultRecords /\ Sound(s)
    BY <1>2, <1>6 DEF VaultRecords, State, Sound, UnderWay, Pickup, CanPickUp, Pending
  <2>2. vault' = [vault EXCEPT ![v] = s]
    BY <1>0, <1>6 DEF Pickup, CanPickUp
  <2> QED BY <1>3, <2>1, <2>2
<1>7. CASE ConfirmDelivery(v) /\ UNCHANGED now
  <2> DEFINE s == [r EXCEPT !.state = "Delivered", !.deliveredAt = now]
  <2>1. /\ ~r.finalized /\ r.state = "PickedUp"
        /\ now \in 1..r.terms.dropoffDeadline /\ r.terms.disputeWindow > 0
    BY <1>0, <1>2, <1>7 DEF Terms, ConfirmDelivery, Confirmable, Pending
  <2>2. s \in VaultRecords
    BY <1>0, <1>2 DEF VaultRecords, State
  <2>3. /\ s.state = "Delivered" /\ s.deliveredAt = now
        /\ s.funded = r.funded /\ s.balance = r.balance
        /\ s.finalized = r.finalized /\ s.terms = r.terms
        /\ s.toCourier = r.toCourier /\ s.toBuyer = r.toBuyer
        /\ s.disputed = r.disputed
    BY <1>2 DEF VaultRecords
  <2>4. vault' = [vault EXCEPT ![v] = s]
    BY <1>0, <1>7 DEF ConfirmDelivery
  <2> HIDE DEF s, r
  <2>5. Sound(s)
    BY <1>2, <2>1, <2>3 DEF Sound, UnderWay
  <2> QED BY <1>3, <2>2, <2>4, <2>5
<1>8. CASE RaiseDispute(v) /\ UNCHANGED now
  <2> DEFINE s == [r EXCEPT !.disputed = TRUE]
  <2>1. s \in VaultRecords /\ Sound(s)
    BY <1>2, <1>8 DEF VaultRecords, Sound, UnderWay, RaiseDispute, Disputable, Pending
  <2>2. vault' = [vault EXCEPT ![v] = s]
    BY <1>0, <1>8 DEF RaiseDispute, Disputable
  <2> QED BY <1>3, <2>1, <2>2
<1>9. ASSUME NEW q \in VaultRecords, q.funded, PaidOut(v, q)
      PROVE  VaultInv' /\ vault'[v] \in VaultRecords
  BY <1>3, <1>9, PaidOutIsSound DEF PaidOut
<1>10. CASE ConfirmAndPay(v)
  <2> DEFINE q == [r EXCEPT !.deliveredAt = now]
  <2>1. q \in VaultRecords /\ q.funded
    BY <1>0, <1>2, <1>10 DEF VaultRecords, Sound, UnderWay, ConfirmAndPay,
       Confirmable, Pending
  <2> QED BY <1>9, <1>10, <2>1 DEF ConfirmAndPay
<1>11. CASE ResolveForCourier(v)
  <2> DEFINE q == [r EXCEPT !.ruling = "courier"]
  <2>1. q \in VaultRecords /\ q.funded
    BY <1>2, <1>11 DEF VaultRecords, Sound, UnderWay, ResolveForCourier, Pending
  <2> QED BY <1>9, <1>11, <2>1 DEF ResolveForCourier
<1>12. CASE FinalizeDelivered(v)
  <2>1. r.funded
    BY <1>2, <1>12 DEF Sound, UnderWay, FinalizeDelivered, Finalizable, Pending
  <2> QED BY <1>2, <1>9, <1>12, <2>1 DEF FinalizeDelivered, Finalizable
<1>13. CASE RefundOnPickupTimeout(v) \/ CancelByBuyerPrePickup(v)
  <2> DEFINE s == [r EXCEPT !.finalized = TRUE, !.state = "Refunded",
                            !.toBuyer = @ + r.balance, !.balance = 0]
  <2>1. ~r.finalized /\ UnderWay(r) /\ Refunded(v)
    BY <1>2, <1>13 DEF Sound, RefundOnPickupTimeout, PickupTimedOut, CancelByBuyerPrePickup, Cancellable,
         Pending
  <2>2. s \in VaultRecords /\ Sound(s)
    BY <1>2, <2>1, RefundedIsSound
  <2>3. vault' = [vault EXCEPT ![v] = s]
    BY <1>0, <2>1 DEF Refunded
  <2> QED BY <1>3, <2>2, <2>3
<1>14. ASSUME NEW q \in VaultRecords, q.funded, NEW k \in Nat,
              SlashedAndRefunded(v, q, k)
       PROVE  VaultInv' /\ vault'[v] \in VaultRecords
  BY <1>3, <1>14, SlashedIsSound DEF SlashedAndRefunded
<1>15. CASE Slashing(v)
  <2>1. PICK k \in Recoveries(v) : SlashingStep(v, k)
    BY <1>15 DEF Slashing
  <2>2. k \in Nat
    BY <1>2 DEF Recoveries, Terms
  <2>3. CASE ResolveForBuyer(v, k)
    <3> DEFINE q == [r EXCEPT !.ruling = "buyer"]
    <3>1. q \in VaultRecords /\ q.funded
      BY <1>2, <2>3 DEF VaultRecords, Sound, UnderWay, ResolveForBuyer, Pending
    <3> QED BY <1>14, <2>2, <2>3, <3>1 DEF ResolveForBuyer
  <2>4. CASE SlashOnDropoffTimeout(v, k)
    <3>1. r.funded
      BY <1>2, <2>4 DEF Sound, UnderWay, SlashOnDropoffTimeout, DropoffTimedOut, Pending
    <3> QED BY <1>2, <1>14, <2>2, <2>4, <3>1 DEF SlashOnDropoffTimeout, DropoffTimedOut
  <2> QED BY <2>1, <2>3, <2>4 DEF SlashingStep
<1> QED BY <1>4, <1>5, <1>6, <1>7, <1>8, <1>10, <1>11, <1>12, <1>13, <1>15
        DEF OfVault, AtOnce, Quiet, QuietStep, Releasing, ReleasingStep

LEMMA VaultInvStep == VaultInv /\ [Next]_vars => VaultInv'
<1> SUFFICES ASSUME VaultInv, [Next]_vars PROVE VaultInv'
  OBVIOUS
<1>0. now \in Nat \ {0} /\ vault \in [Vaults -> VaultRecords \cup {NoVault}]
  BY DEF VaultInv, VaultsTyped
<1>1. CASE Deploy
  <2>1. PICK v \in Vaults, t \in Offers :
               (DeployVault(v, t) \/ SpawnVault(v, t)) /\ now' = now
    BY <1>1, DeploySteps
  <2> QED BY <1>0, <2>1, NewIsSound, OneVaultChanges
<1>2. ASSUME NEW v \in Vaults, OfVault(v) PROVE VaultInv'
  BY <1>2, OfVaultKeeps
<1>3. CASE Clock
  BY <1>0, <1>3 DEF Clock, TimePasses, VaultInv, VaultsTyped, Deployed
<1>4. CASE UNCHANGED <<vault, now>>
  BY <1>0, <1>4 DEF VaultInv, VaultsTyped, Deployed
<1> QED BY <1>1, <1>2, <1>3, <1>4, Steps

\* A step on a vault is of one that is deployed, and changes no other.
LEMMA OwnRecord ==
  ASSUME vault \in [Vaults -> VaultRecords \cup {NoVault}], NEW v \in Vaults,
         OfVault(v)
  PROVE  Deployed(v) /\ vault' = [vault EXCEPT ![v] = vault'[v]]
BY DEF OfVault, AtOnce, Initialize, InitializeVault, Quiet, QuietStep, Fund, Pickup, CanPickUp,
   ConfirmDelivery, RaiseDispute, Disputable, Releasing, ReleasingStep, ConfirmAndPay,
   Confirmable, ResolveForCourier, FinalizeDelivered, Finalizable, RefundOnPickupTimeout,
   PickupTimedOut, CancelByBuyerPrePickup, Cancellable, Slashing, SlashingStep, ResolveForBuyer,
   SlashOnDropoffTimeout, DropoffTimedOut, PaidOut, Refunded, SlashedAndRefunded, Pending

\* What the pool knows of the vaults: nothing exactly of those there are not.
BackingTyped ==
    /\ backing \in [Vaults -> Backings]
    /\ \A v \in Vaults : Deployed(v) <=> backing[v] # "none"

LEMMA BackingStep == VaultInv /\ BackingTyped /\ [Next]_vars => BackingTyped'
<1> SUFFICES ASSUME VaultInv, BackingTyped, [Next]_vars PROVE BackingTyped'
  OBVIOUS
<1>0. /\ vault \in [Vaults -> VaultRecords \cup {NoVault}]
      /\ vault' \in [Vaults -> VaultRecords \cup {NoVault}]
      /\ backing \in [Vaults -> Backings]
  BY VaultInvStep DEF VaultInv, VaultsTyped, BackingTyped
<1>1. CASE Deploy
  <2>1. PICK v \in Vaults, t \in Offers :
           /\ DeployVault(v, t) \/ SpawnVault(v, t)
           /\ \E b \in Backings \ {"none"} : backing' = [backing EXCEPT ![v] = b]
    BY <1>1, DeploySteps
  <2>2. PICK r \in VaultRecords : vault' = [vault EXCEPT ![v] = r]
    BY <2>1, NewIsSound
  <2>3. \A w \in Vaults : Deployed(w)' <=> w = v \/ Deployed(w)
    BY <1>0, <2>2, VaultConstants DEF Deployed
  <2> QED BY <1>0, <2>1, <2>3 DEF BackingTyped, Backings
<1>2. ASSUME NEW v \in Vaults, OfVault(v) PROVE BackingTyped'
  <2>1. Deployed(v) /\ vault' = [vault EXCEPT ![v] = vault'[v]] /\ Deployed(v)'
    <3>1. Deployed(v) /\ vault' = [vault EXCEPT ![v] = vault'[v]]
      BY <1>0, <1>2, OwnRecord
    <3>2. Deployed(v)'
      BY <1>2, OfVaultKeeps, VaultConstants DEF Deployed
    <3> QED BY <3>1, <3>2
  <2>2. backing' = backing
    BY <1>2 DEF OfVault, Initialize, Quiet, Releasing, Slashing, AtOnce
  <2>3. \A w \in Vaults : Deployed(w)' <=> Deployed(w)
    BY <1>0, <2>1 DEF Deployed
  <2> QED BY <2>2, <2>3 DEF BackingTyped
<1>3. ASSUME NEW v \in Vaults, Register(v) PROVE BackingTyped'
  BY <1>0, <1>3 DEF Register, BackingTyped, Backings, Deployed
<1>4. CASE Clock \/ UNCHANGED vars
  BY <1>4 DEF Clock, vars, BackingTyped, Deployed
<1> QED BY <1>1, <1>2, <1>3, <1>4 DEF Next, OfVault

\* Every vault keeps its types, and so does what the pool knows of it.
THEOREM VaultTypes == Spec => []TypeOK
<1>1. Init => BackingTyped
  BY DEF Init, VaultInit, BackingTyped, Backings, Deployed
<1>2. VaultInv /\ BackingTyped => TypeOK
  BY DEF VaultInv, VaultsTyped, BackingTyped, TypeOK
<1> QED BY <1>1, <1>2, VaultInvInit, VaultInvStep, BackingStep, PTL DEF Spec

\* A delivered or failed vault is empty, and a refunded one can hold nothing
\* but the buyer's own deposit that came too late.
THEOREM OnlyLateDepositsAreStranded == Spec => []StrandedOnlyByLateDeposit
<1>1. VaultInv => StrandedOnlyByLateDeposit
  BY DEF VaultInv, StrandedOnlyByLateDeposit, Sound, Ended
<1> QED BY <1>1, VaultInvInit, VaultInvStep, PTL DEF Spec

-----------------------------------------------------------------------------
(* When the courier is paid, and what a pickup commits to.                 *)

\* Only a step of its own changes a deployed vault.
LEMMA OwnStep ==
  ASSUME VaultInv, [Next]_vars, NEW w \in Vaults, Deployed(w), vault'[w] # vault[w]
  PROVE  \/ InitializeVault(w) \/ QuietStep(w) \/ ReleasingStep(w)
         \/ \E k \in Nat : SlashingStep(w, k)
<1>0. vault \in [Vaults -> VaultRecords \cup {NoVault}]
  BY DEF VaultInv, VaultsTyped
<1>1. ~Deploy
  <2>1. SUFFICES ASSUME Deploy PROVE FALSE
    OBVIOUS
  <2>2. PICK v \in Vaults, t \in Offers : DeployVault(v, t) \/ SpawnVault(v, t)
    BY <2>1, DeploySteps
  <2> QED BY <1>0, <2>2 DEF DeployVault, SpawnVault, Deployed
<1>2. ~Clock /\ ~UNCHANGED <<vault, now>>
  BY DEF Clock
<1>3. PICK v \in Vaults : OfVault(v)
  BY <1>1, <1>2, Steps
<1>4. vault' = [vault EXCEPT ![v] = vault'[v]]
  BY <1>0, <1>3, OwnRecord
<1>5. v = w
  BY <1>0, <1>4
<1>6. CASE Slashing(w)
  <2>1. PICK k \in Recoveries(w) : SlashingStep(w, k)
    BY <1>6 DEF Slashing
  <2>2. k \in Nat
    BY DeployedIsSound DEF Recoveries, Terms
  <2> QED BY <2>1, <2>2
<1> QED BY <1>3, <1>5, <1>6 DEF OfVault, Initialize, Quiet, Releasing

\* The steps that end no delivery pay nobody.
LEMMA QuietKeeps ==
  ASSUME vault \in [Vaults -> VaultRecords \cup {NoVault}], NEW w \in Vaults,
         vault[w] \in VaultRecords, InitializeVault(w) \/ QuietStep(w)
  PROVE  /\ vault'[w].toCourier = vault[w].toCourier
         /\ vault'[w].finalized = vault[w].finalized
<1>1. CASE InitializeVault(w)
  BY <1>1 DEF InitializeVault, VaultRecords
<1>2. CASE Fund(w)
  BY <1>2 DEF Fund, VaultRecords
<1>3. CASE Pickup(w)
  BY <1>3 DEF Pickup, CanPickUp, VaultRecords
<1>4. CASE ConfirmDelivery(w)
  BY <1>4 DEF ConfirmDelivery, VaultRecords
<1>5. CASE RaiseDispute(w)
  BY <1>5 DEF RaiseDispute, Disputable, VaultRecords
<1> QED BY <1>1, <1>2, <1>3, <1>4, <1>5 DEF QuietStep

\* The steps that pay the courier.
LEMMA PayingSteps ==
  ASSUME VaultInv, [Next]_vars, NEW w \in Vaults, Pending(w),
         vault'[w].toCourier > vault[w].toCourier
  PROVE  ConfirmAndPay(w) \/ ResolveForCourier(w) \/ FinalizeDelivered(w)
<1>0. /\ vault \in [Vaults -> VaultRecords \cup {NoVault}] /\ Deployed(w)
      /\ vault[w] \in VaultRecords /\ vault[w].toCourier \in Nat
  BY DeployedIsSound DEF VaultInv, VaultsTyped, VaultRecords, Pending
<1>1. \/ InitializeVault(w) \/ QuietStep(w) \/ ReleasingStep(w)
      \/ \E k \in Nat : SlashingStep(w, k)
  <2>1. vault'[w] # vault[w]
    BY <1>0
  <2> QED BY <1>0, <2>1, OwnStep
<1>2. ~InitializeVault(w) /\ ~Fund(w) /\ ~Pickup(w) /\ ~ConfirmDelivery(w)
      /\ ~RaiseDispute(w)
  BY <1>0, QuietKeeps DEF QuietStep
<1>3. ~RefundOnPickupTimeout(w) /\ ~CancelByBuyerPrePickup(w)
  <2>1. ASSUME Refunded(w) PROVE FALSE
    <3>1. vault'[w].toCourier = vault[w].toCourier
      BY <1>0, <2>1 DEF Refunded, VaultRecords
    <3> QED BY <1>0, <3>1
  <2> QED BY <2>1 DEF RefundOnPickupTimeout, PickupTimedOut, CancelByBuyerPrePickup, Cancellable
<1>4. ASSUME NEW k \in Nat PROVE ~SlashingStep(w, k)
  <2>1. SUFFICES ASSUME SlashingStep(w, k) PROVE FALSE
    OBVIOUS
  <2>2. CASE ResolveForBuyer(w, k)
    <3>1. vault'[w].toCourier = vault[w].toCourier
      BY <1>0, <2>2 DEF ResolveForBuyer, SlashedAndRefunded, VaultRecords
    <3> QED BY <1>0, <3>1
  <2>3. CASE SlashOnDropoffTimeout(w, k)
    <3>1. vault'[w].toCourier = vault[w].toCourier
      BY <1>0, <2>3 DEF SlashOnDropoffTimeout, DropoffTimedOut, SlashedAndRefunded, VaultRecords
    <3> QED BY <1>0, <3>1
  <2> QED BY <2>1, <2>2, <2>3 DEF SlashingStep
<1> QED BY <1>1, <1>2, <1>3, <1>4 DEF ReleasingStep, QuietStep

\* The courier is paid only for a delivery confirmed in time and after the
\* buyer's last chance to object.
THEOREM CourierIsPaidWhenDue == Spec => CourierPaidWhenDue
<1>1. ASSUME VaultInv, [Next]_vars, NEW w \in Vaults, Pending(w),
             vault'[w].toCourier > vault[w].toCourier
      PROVE  LET r == vault'[w] IN
             /\ r.deliveredAt \in 1..r.terms.dropoffDeadline
             /\ IF r.disputed THEN r.ruling = "courier"
                ELSE now > r.deliveredAt + r.terms.disputeWindow
                     \/ r.terms.disputeWindow = 0
  <2> DEFINE r == vault[w]
             s == vault'[w]
  <2>1. /\ vault \in [Vaults -> VaultRecords \cup {NoVault}] /\ now \in Nat \ {0}
        /\ r \in VaultRecords /\ UnderWay(r) /\ r.terms.dropoffDeadline \in Nat
    BY <1>1, DeployedIsSound DEF VaultInv, VaultsTyped, Pending, Sound, Terms
  <2>2. CASE ConfirmAndPay(w)
    <3>1. /\ s.deliveredAt = now /\ s.disputed = r.disputed /\ s.terms = r.terms
          /\ r.state = "PickedUp" /\ now <= r.terms.dropoffDeadline
          /\ r.terms.disputeWindow = 0
      BY <2>1, <2>2 DEF ConfirmAndPay, Confirmable, PaidOut, VaultRecords
    <3>2. ~s.disputed
      BY <2>1, <3>1 DEF UnderWay
    <3> HIDE DEF r, s
    <3> QED BY <2>1, <3>1, <3>2 DEF r, s
  <2>3. CASE ResolveForCourier(w)
    <3>1. /\ s.deliveredAt = r.deliveredAt /\ s.disputed = r.disputed
          /\ s.terms = r.terms /\ s.ruling = "courier" /\ r.disputed
      BY <2>1, <2>3 DEF ResolveForCourier, PaidOut, VaultRecords
    <3> QED BY <2>1, <3>1 DEF UnderWay
  <2>4. CASE FinalizeDelivered(w)
    <3>1. /\ s.deliveredAt = r.deliveredAt /\ s.disputed = r.disputed
          /\ s.terms = r.terms /\ r.state = "Delivered" /\ ~r.disputed
          /\ now > r.deliveredAt + r.terms.disputeWindow
      BY <2>1, <2>4 DEF FinalizeDelivered, Finalizable, PaidOut, VaultRecords
    <3> QED BY <2>1, <3>1 DEF UnderWay
  <2> QED BY <1>1, <2>2, <2>3, <2>4, PayingSteps
<1>2. VaultInv /\ [Next]_vars =>
        [\A v \in Vaults : Pending(v) /\ vault'[v].toCourier > vault[v].toCourier =>
           LET r == vault'[v] IN
           /\ r.deliveredAt \in 1..r.terms.dropoffDeadline
           /\ IF r.disputed THEN r.ruling = "courier"
              ELSE now > r.deliveredAt + r.terms.disputeWindow
                   \/ r.terms.disputeWindow = 0]_vars
  BY <1>1
<1> QED BY <1>2, VaultInvInit, VaultInvStep, PTL DEF Spec, CourierPaidWhenDue

\* Between the pickup and the dropoff deadline a delivery can end only as
\* delivered, but for the arbiter's ruling on a dispute.
THEOREM PickupIsACommitment == Spec => PickupCommits
<1>1. ASSUME VaultInv, [Next]_vars, NEW w \in Vaults, Pending(w), vault'[w].finalized,
             vault[w].state \in {"PickedUp", "Delivered"},
             now <= vault[w].terms.dropoffDeadline
      PROVE  vault'[w].state = "Delivered" \/ vault'[w].ruling = "buyer"
  <2> DEFINE r == vault[w]
             s == vault'[w]
  <2>1. /\ vault \in [Vaults -> VaultRecords \cup {NoVault}] /\ now \in Nat \ {0}
        /\ r \in VaultRecords /\ ~r.finalized /\ r.terms.dropoffDeadline \in Nat
        /\ Deployed(w)
    BY <1>1, DeployedIsSound DEF VaultInv, VaultsTyped, Pending, Terms
  <2>2. \/ InitializeVault(w) \/ QuietStep(w) \/ ReleasingStep(w)
        \/ \E k \in Nat : SlashingStep(w, k)
    <3>1. s # r
      BY <1>1, <2>1, Zenon
    <3> QED BY <1>1, <2>1, <3>1, OwnStep
  <2>3. ~InitializeVault(w) /\ ~QuietStep(w)
    BY <1>1, <2>1, QuietKeeps
  <2>4. ~RefundOnPickupTimeout(w) /\ ~CancelByBuyerPrePickup(w)
    BY <1>1 DEF RefundOnPickupTimeout, PickupTimedOut, CancelByBuyerPrePickup, Cancellable
  <2>5. ASSUME ConfirmAndPay(w) \/ ResolveForCourier(w) \/ FinalizeDelivered(w)
        PROVE  s.state = "Delivered"
    <3>1. ASSUME NEW q, PaidOut(w, q), DOMAIN q = DOMAIN r
          PROVE  s.state = "Delivered"
      BY <2>1, <3>1 DEF PaidOut, VaultRecords
    <3> QED BY <2>1, <2>5, <3>1 DEF ConfirmAndPay, ResolveForCourier, FinalizeDelivered,
         Finalizable
  <2>6. ASSUME NEW k \in Nat, SlashingStep(w, k) PROVE s.ruling = "buyer"
    <3>1. ~SlashOnDropoffTimeout(w, k)
      BY <1>1, <2>1 DEF SlashOnDropoffTimeout, DropoffTimedOut
    <3>2. ResolveForBuyer(w, k)
      BY <2>6, <3>1 DEF SlashingStep
    <3> QED BY <2>1, <3>2 DEF ResolveForBuyer, SlashedAndRefunded, VaultRecords
  <2> QED BY <2>2, <2>3, <2>4, <2>5, <2>6 DEF ReleasingStep
<1>2. VaultInv /\ [Next]_vars =>
        [\A v \in Vaults :
           /\ Pending(v) /\ vault'[v].finalized
           /\ vault[v].state \in {"PickedUp", "Delivered"}
           /\ now <= vault[v].terms.dropoffDeadline
           => vault'[v].state = "Delivered" \/ vault'[v].ruling = "buyer"]_vars
  BY <1>1
<1> QED BY <1>2, VaultInvInit, VaultInvStep, PTL DEF Spec, PickupCommits

-----------------------------------------------------------------------------
(* One way forward.                                                        *)

\* Only a confirmation dates a delivery, at the time of its block.
LEMMA ConfirmedNow ==
  ASSUME VaultInv, [Next]_vars, NEW w \in Vaults, Deployed(w)
  PROVE  vault'[w].deliveredAt \in {vault[w].deliveredAt, now}
<1>0. vault \in [Vaults -> VaultRecords \cup {NoVault}] /\ vault[w] \in VaultRecords
  BY DeployedIsSound DEF VaultInv, VaultsTyped
<1>1. CASE InitializeVault(w)
  BY <1>0, <1>1 DEF InitializeVault, VaultRecords
<1>2. CASE QuietStep(w)
  <2>1. CASE Fund(w)
    BY <1>0, <2>1 DEF Fund, VaultRecords
  <2>2. CASE Pickup(w)
    BY <1>0, <2>2 DEF Pickup, VaultRecords
  <2>3. CASE ConfirmDelivery(w)
    BY <1>0, <2>3 DEF ConfirmDelivery, VaultRecords
  <2>4. CASE RaiseDispute(w)
    BY <1>0, <2>4 DEF RaiseDispute, VaultRecords
  <2> QED BY <1>2, <2>1, <2>2, <2>3, <2>4 DEF QuietStep
<1>3. CASE ReleasingStep(w)
  <2>1. CASE ConfirmAndPay(w)
    BY <1>0, <2>1 DEF ConfirmAndPay, PaidOut, VaultRecords
  <2>2. CASE ResolveForCourier(w)
    BY <1>0, <2>2 DEF ResolveForCourier, PaidOut, VaultRecords
  <2>3. CASE FinalizeDelivered(w)
    BY <1>0, <2>3 DEF FinalizeDelivered, PaidOut, VaultRecords
  <2>4. CASE Refunded(w)
    BY <1>0, <2>4 DEF Refunded, VaultRecords
  <2> QED BY <1>3, <2>1, <2>2, <2>3, <2>4
          DEF ReleasingStep, RefundOnPickupTimeout, CancelByBuyerPrePickup
<1>4. ASSUME NEW k \in Nat, SlashingStep(w, k)
      PROVE  vault'[w].deliveredAt = vault[w].deliveredAt
  <2>1. CASE ResolveForBuyer(w, k)
    BY <1>0, <2>1 DEF ResolveForBuyer, SlashedAndRefunded, VaultRecords
  <2>2. CASE SlashOnDropoffTimeout(w, k)
    BY <1>0, <2>2 DEF SlashOnDropoffTimeout, SlashedAndRefunded, VaultRecords
  <2> QED BY <1>4, <2>1, <2>2 DEF SlashingStep
<1>5. CASE vault'[w] = vault[w]
  BY <1>5
<1> QED BY <1>1, <1>2, <1>3, <1>4, <1>5, OwnStep

\* So none is dated in the future.
Dated == \A v \in Vaults : Deployed(v) => vault[v].deliveredAt <= now

LEMMA DatedStep == VaultInv /\ Dated /\ [Next]_vars => Dated'
<1> SUFFICES ASSUME VaultInv, Dated, [Next]_vars, NEW w \in Vaults, Deployed(w)'
             PROVE  vault'[w].deliveredAt <= now'
  BY DEF Dated
<1>1. VaultInv'
  BY VaultInvStep
<1>2. /\ now \in Nat /\ now' \in Nat /\ vault \in [Vaults -> VaultRecords \cup {NoVault}]
      /\ vault'[w] \in VaultRecords /\ vault'[w].deliveredAt \in Nat
  BY <1>1 DEF VaultInv, VaultsTyped, Deployed, VaultRecords
<1>3. now <= now'
  <2>1. CASE Deploy
    BY <1>2, <2>1, DeploySteps
  <2>2. ASSUME NEW v \in Vaults, OfVault(v)
        PROVE  now <= now'
    BY <1>2, <2>2 DEF OfVault, AtOnce, Initialize, Quiet, Releasing, Slashing
  <2>3. CASE Clock \/ UNCHANGED <<vault, now>>
    BY <1>2, <2>3 DEF Clock, TimePasses
  <2> QED BY <2>1, <2>2, <2>3, Steps
<1>4. CASE Deployed(w)
  <2>1. vault[w].deliveredAt \in Nat /\ vault[w].deliveredAt <= now
    BY <1>4, DeployedIsSound DEF Dated, VaultRecords
  <2> QED BY <1>2, <1>3, <1>4, <2>1, ConfirmedNow
<1>5. CASE ~Deployed(w)
  <2>1. Deploy
    <3>1. ASSUME NEW v \in Vaults, OfVault(v)
          PROVE  Deployed(v) /\ vault' = [vault EXCEPT ![v] = vault'[v]]
      BY <1>2, <3>1, OwnRecord
    <3>2. ASSUME NEW v \in Vaults, OfVault(v)
          PROVE  FALSE
      BY <1>2, <1>5, <3>1, <3>2 DEF Deployed
    <3> QED BY <1>5, <3>2, Steps DEF Clock, Deployed
  <2>2. PICK v \in Vaults, t \in Offers : DeployVault(v, t) \/ SpawnVault(v, t)
    BY <2>1, DeploySteps
  <2>3. PICK r \in VaultRecords : r.deliveredAt = 0 /\ vault' = [vault EXCEPT ![v] = r]
    BY <2>2, NewIsSound
  <2>4. vault'[w] = r
    BY <1>2, <1>5, <2>3 DEF Deployed
  <2> QED BY <1>2, <2>3, <2>4
<1> QED BY <1>4, <1>5

\* Whatever happened to it, a delivery under way waits for no deadline that
\* cannot come, paid in or not, and only the buyer's cancellation can race a
\* pickup: the functions that have a deadline are never open at once.
THEOREM TheWaysForward == Spec => []WaysForward
<1>1. Init => Dated
  BY DEF Init, VaultInit, Dated, Deployed
<1>2. ASSUME VaultInv, Dated, NEW v \in Vaults, Pending(v)
      PROVE  LET r == vault[v] IN
             \/ /\ r.state = "Funded" /\ ~r.disputed /\ Cancellable(v)
                /\ PickupTimedOut(v) <=> now > r.terms.pickupDeadline
                /\ CanPickUp(v) <=> r.funded /\ ~PickupTimedOut(v)
             \/ /\ r.state = "PickedUp" /\ ~r.disputed /\ ~Cancellable(v)
                /\ Confirmable(v) # DropoffTimedOut(v)
             \/ /\ r.state = "Delivered" /\ r.deliveredAt \in 1..now /\ ~Cancellable(v)
                /\ r.disputed \/ Disputable(v) # Finalizable(v)
  <2> DEFINE r == vault[v]
  <2>1. /\ r \in VaultRecords /\ UnderWay(r) /\ now \in Nat
        /\ r.terms.pickupDeadline \in Nat /\ r.terms.dropoffDeadline \in Nat
        /\ r.terms.disputeWindow \in Nat /\ r.deliveredAt \in Nat /\ r.deliveredAt <= now
        /\ r.funded \in BOOLEAN
    BY <1>2, DeployedIsSound
       DEF VaultInv, VaultsTyped, Pending, Sound, Terms, VaultRecords, Dated
  <2>2. CASE r.state = "Funded"
    <3>1. ~r.disputed /\ Cancellable(v)
      BY <1>2, <2>1, <2>2 DEF UnderWay, Cancellable
    <3>2. CanPickUp(v) <=> r.funded /\ now <= r.terms.pickupDeadline
      BY <1>2, <2>2 DEF CanPickUp
    <3>3. PickupTimedOut(v) <=> now > r.terms.pickupDeadline
      BY <1>2, <2>2 DEF PickupTimedOut
    <3>4. now <= r.terms.pickupDeadline <=> ~(now > r.terms.pickupDeadline)
      BY <2>1
    <3>5. CanPickUp(v) <=> r.funded /\ ~PickupTimedOut(v)
      BY <3>2, <3>3, <3>4
    <3> QED BY <2>2, <3>1, <3>3, <3>5
  <2>3. CASE r.state = "PickedUp"
    <3>1. ~r.disputed /\ ~Cancellable(v)
      BY <2>1, <2>3 DEF UnderWay, Cancellable
    <3>2. Confirmable(v) <=> now <= r.terms.dropoffDeadline
      BY <1>2, <2>3 DEF Confirmable
    <3>3. DropoffTimedOut(v) <=> now > r.terms.dropoffDeadline
      BY <1>2, <2>3 DEF DropoffTimedOut
    <3> QED BY <2>1, <2>3, <3>1, <3>2, <3>3
  <2>4. CASE r.state = "Delivered"
    <3>1. r.deliveredAt \in 1..now /\ r.terms.disputeWindow > 0 /\ ~Cancellable(v)
      BY <2>1, <2>4 DEF UnderWay, Cancellable
    <3>2. ~r.disputed => (Disputable(v) <=> now <= r.deliveredAt + r.terms.disputeWindow)
      BY <1>2, <2>4, <3>1 DEF Disputable
    <3>3. ~r.disputed => (Finalizable(v) <=> now > r.deliveredAt + r.terms.disputeWindow)
      BY <1>2, <2>4, <3>1 DEF Finalizable
    <3> QED BY <2>1, <2>4, <3>1, <3>2, <3>3
  <2> QED BY <2>1, <2>2, <2>3, <2>4 DEF UnderWay
<1>3. VaultInv /\ Dated => WaysForward
  BY <1>2 DEF WaysForward
<1> QED BY <1>1, <1>3, VaultInvInit, VaultInvStep, DatedStep, PTL DEF Spec

-----------------------------------------------------------------------------
(* The escrow's promise.                                                   *)

\* What the escrow shows after a step that changes one vault.
LEMMA OneEscrowChanges ==
  ASSUME VaultInv, NEW v \in Vaults, NEW s \in VaultRecords,
         vault' = [vault EXCEPT ![v] = s]
  PROVE  /\ agreedFee' = [agreedFee EXCEPT ![v] = s.terms.courierFee]
         /\ feeLocked' = [feeLocked EXCEPT ![v] = s.funded]
         /\ outcomes' = [outcomes EXCEPT ![v] = OutcomeOf(s)]
         /\ etherHeld' = [etherHeld EXCEPT ![v] = s.balance]
         /\ paidOut' = [paidOut EXCEPT ![v] = s.toCourier]
         /\ repaid' = [repaid EXCEPT ![v] = s.toBuyer]
<1>1. /\ vault \in [Vaults -> VaultRecords \cup {NoVault}]
      /\ s # NoVault /\ vault'[v] = s
      /\ \A w \in Vaults \ {v} : vault'[w] = vault[w]
  BY DEF VaultInv, VaultsTyped
<1>2. Deployed(v)' /\ \A w \in Vaults \ {v} : Deployed(w)' <=> Deployed(w)
  BY <1>1 DEF Deployed
<1>3. agreedFee' = [agreedFee EXCEPT ![v] = s.terms.courierFee]
  BY <1>1, <1>2 DEF agreedFee
<1>4. feeLocked' = [feeLocked EXCEPT ![v] = s.funded]
  BY <1>1, <1>2, Zenon DEF feeLocked
<1>5. outcomes' = [outcomes EXCEPT ![v] = OutcomeOf(s)]
  BY <1>1, <1>2 DEF outcomes, OutcomeOf
<1>6. etherHeld' = [etherHeld EXCEPT ![v] = s.balance]
  BY <1>1, <1>2 DEF etherHeld
<1>7. paidOut' = [paidOut EXCEPT ![v] = s.toCourier]
  BY <1>1, <1>2 DEF paidOut
<1>8. repaid' = [repaid EXCEPT ![v] = s.toBuyer]
  BY <1>1, <1>2 DEF repaid
<1> QED BY <1>3, <1>4, <1>5, <1>6, <1>7, <1>8

\* A deployed vault as the escrow shows it.
LEMMA EscrowShows ==
  ASSUME VaultInv, NEW v \in Vaults, Deployed(v)
  PROVE  /\ agreedFee[v] = vault[v].terms.courierFee /\ agreedFee[v] # NoVault
         /\ feeLocked[v] = vault[v].funded
         /\ outcomes[v] = OutcomeOf(vault[v])
         /\ etherHeld[v] = vault[v].balance
         /\ paidOut[v] = vault[v].toCourier
         /\ repaid[v] = vault[v].toBuyer
<1>1. vault[v].terms.courierFee \in Nat
  BY DeployedIsSound DEF Terms
<1>2. feeLocked[v] = vault[v].funded
  BY Zenon DEF feeLocked
<1> QED BY <1>1, <1>2 DEF agreedFee, outcomes, etherHeld, paidOut, repaid

\* Writing what is there already changes nothing.
LEMMA RewriteIsIdle ==
  ASSUME NEW S, NEW f, f = [w \in S |-> f[w]], NEW g, NEW v, NEW x,
         g = [f EXCEPT ![v] = x], f[v] = x
  PROVE  g = f
OBVIOUS

LEMMA ShownAreFunctions ==
  /\ agreedFee = [w \in Vaults |-> agreedFee[w]]
  /\ feeLocked = [w \in Vaults |-> feeLocked[w]]
  /\ outcomes = [w \in Vaults |-> outcomes[w]]
  /\ etherHeld = [w \in Vaults |-> etherHeld[w]]
  /\ paidOut = [w \in Vaults |-> paidOut[w]]
  /\ repaid = [w \in Vaults |-> repaid[w]]
<1>1. feeLocked = [w \in Vaults |-> feeLocked[w]]
  BY Zenon DEF feeLocked
<1> QED BY <1>1 DEF agreedFee, outcomes, etherHeld, paidOut, repaid

\* What a step that changes one deployed vault leaves as it was.
LEMMA EscrowKeeps ==
  ASSUME VaultInv, NEW v \in Vaults, Deployed(v), NEW s \in VaultRecords,
         vault' = [vault EXCEPT ![v] = s], s.terms = vault[v].terms
  PROVE  /\ agreedFee' = agreedFee
         /\ s.funded = vault[v].funded => feeLocked' = feeLocked
         /\ OutcomeOf(s) = OutcomeOf(vault[v]) => outcomes' = outcomes
         /\ s.balance = vault[v].balance => etherHeld' = etherHeld
         /\ s.toCourier = vault[v].toCourier => paidOut' = paidOut
         /\ s.toBuyer = vault[v].toBuyer => repaid' = repaid
<1> DEFINE r == vault[v]
<1>1. /\ agreedFee' = [agreedFee EXCEPT ![v] = s.terms.courierFee]
      /\ feeLocked' = [feeLocked EXCEPT ![v] = s.funded]
      /\ outcomes' = [outcomes EXCEPT ![v] = OutcomeOf(s)]
      /\ etherHeld' = [etherHeld EXCEPT ![v] = s.balance]
      /\ paidOut' = [paidOut EXCEPT ![v] = s.toCourier]
      /\ repaid' = [repaid EXCEPT ![v] = s.toBuyer]
  BY OneEscrowChanges
<1>2. /\ agreedFee[v] = r.terms.courierFee
      /\ feeLocked[v] = r.funded
      /\ outcomes[v] = OutcomeOf(r)
      /\ etherHeld[v] = r.balance
      /\ paidOut[v] = r.toCourier
      /\ repaid[v] = r.toBuyer
  BY EscrowShows
<1>3. agreedFee' = agreedFee
  BY ZenonT(30), <1>1, <1>2, ShownAreFunctions, RewriteIsIdle
<1>4. s.funded = r.funded => feeLocked' = feeLocked
  BY <1>1, <1>2, ShownAreFunctions, RewriteIsIdle
<1>5. OutcomeOf(s) = OutcomeOf(r) => outcomes' = outcomes
  BY <1>1, <1>2, ShownAreFunctions, RewriteIsIdle
<1>6. s.balance = r.balance => etherHeld' = etherHeld
  BY <1>1, <1>2, ShownAreFunctions, RewriteIsIdle
<1>7. s.toCourier = r.toCourier => paidOut' = paidOut
  BY <1>1, <1>2, ShownAreFunctions, RewriteIsIdle
<1>8. s.toBuyer = r.toBuyer => repaid' = repaid
  BY <1>1, <1>2, ShownAreFunctions, RewriteIsIdle
<1> QED BY <1>3, <1>4, <1>5, <1>6, <1>7, <1>8

LEMMA EscrowStart == Init => E!EscrowInit
<1> SUFFICES ASSUME Init PROVE E!EscrowInit
  OBVIOUS
<1>1. \A v \in Vaults : ~Deployed(v)
  BY DEF Init, VaultInit, Deployed
<1>2. feeLocked = [v \in Vaults |-> FALSE]
  BY <1>1, Zenon DEF feeLocked
<1> QED BY <1>1, <1>2 DEF E!EscrowInit, agreedFee, outcomes, etherHeld, paidOut, repaid

\* The ways a record r of a delivery under way may be replaced by s, as the
\* escrow's actions.
LEMMA EscrowAgrees ==
  ASSUME VaultInv, NEW v \in Vaults, ~Deployed(v), NEW s \in VaultRecords,
         vault' = [vault EXCEPT ![v] = s], s.terms.courierFee \in Nat \ {0},
         ~s.funded, ~s.finalized, s.balance = 0, s.toCourier = 0, s.toBuyer = 0
  PROVE  E!Agree(v)
<1>0. /\ agreedFee' = [agreedFee EXCEPT ![v] = s.terms.courierFee]
      /\ feeLocked' = [feeLocked EXCEPT ![v] = s.funded]
      /\ outcomes' = [outcomes EXCEPT ![v] = OutcomeOf(s)]
      /\ etherHeld' = [etherHeld EXCEPT ![v] = s.balance]
      /\ paidOut' = [paidOut EXCEPT ![v] = s.toCourier]
      /\ repaid' = [repaid EXCEPT ![v] = s.toBuyer]
  BY OneEscrowChanges
<1>1. /\ agreedFee[v] = NoVault /\ outcomes[v] = "open" /\ etherHeld[v] = 0
      /\ paidOut[v] = 0 /\ repaid[v] = 0
  BY DEF agreedFee, outcomes, etherHeld, paidOut, repaid
<1>2. feeLocked[v] = FALSE
  BY Zenon DEF feeLocked
<1>3. OutcomeOf(s) = "open" /\ s.funded = FALSE
  BY DEF OutcomeOf, VaultRecords
<1>4. /\ agreedFee' = [agreedFee EXCEPT ![v] = s.terms.courierFee]
      /\ feeLocked' = [feeLocked EXCEPT ![v] = FALSE]
      /\ outcomes' = [outcomes EXCEPT ![v] = "open"]
      /\ etherHeld' = [etherHeld EXCEPT ![v] = 0]
      /\ paidOut' = [paidOut EXCEPT ![v] = 0]
      /\ repaid' = [repaid EXCEPT ![v] = 0]
  BY <1>0, <1>3
<1>5. UNCHANGED <<feeLocked, outcomes, etherHeld, paidOut, repaid>>
  BY <1>1, <1>2, <1>4, ShownAreFunctions, RewriteIsIdle
<1>6. agreedFee'[v] = s.terms.courierFee
  BY <1>4, ShownAreFunctions
<1> QED BY <1>1, <1>4, <1>5, <1>6 DEF E!Agree

LEMMA EscrowLocks ==
  ASSUME VaultInv, NEW v \in Vaults, Deployed(v), NEW s \in VaultRecords,
         vault' = [vault EXCEPT ![v] = s], s.terms = vault[v].terms,
         ~vault[v].funded, s.funded, OutcomeOf(s) = OutcomeOf(vault[v]),
         s.balance = vault[v].balance + s.terms.courierFee,
         s.toCourier = vault[v].toCourier, s.toBuyer = vault[v].toBuyer
  PROVE  E!Lock(v)
<1>1. s.funded = TRUE
  BY DEF VaultRecords
<1>2. /\ feeLocked' = [feeLocked EXCEPT ![v] = TRUE]
      /\ etherHeld' = [etherHeld EXCEPT ![v] = s.balance]
  BY <1>1, OneEscrowChanges
<1>3. /\ agreedFee[v] # NoVault /\ agreedFee[v] = s.terms.courierFee
      /\ ~feeLocked[v] /\ etherHeld[v] = vault[v].balance
  BY EscrowShows
<1>4. UNCHANGED <<agreedFee, outcomes, paidOut, repaid>>
  BY EscrowKeeps
<1>5. etherHeld' = [etherHeld EXCEPT ![v] = @ + agreedFee[v]]
  BY <1>2, <1>3
<1> QED BY <1>2, <1>3, <1>4, <1>5 DEF E!Lock

LEMMA EscrowPays ==
  ASSUME VaultInv, NEW v \in Vaults, Pending(v), vault[v].funded,
         NEW s \in VaultRecords,
         vault' = [vault EXCEPT ![v] = s], s.terms = vault[v].terms,
         s.funded = vault[v].funded, OutcomeOf(s) = "courier", s.balance = 0,
         s.toCourier = s.terms.courierFee, s.toBuyer = vault[v].toBuyer
  PROVE  E!PayCourier(v)
<1>0. /\ agreedFee' = [agreedFee EXCEPT ![v] = s.terms.courierFee]
      /\ feeLocked' = [feeLocked EXCEPT ![v] = s.funded]
      /\ outcomes' = [outcomes EXCEPT ![v] = OutcomeOf(s)]
      /\ etherHeld' = [etherHeld EXCEPT ![v] = s.balance]
      /\ paidOut' = [paidOut EXCEPT ![v] = s.toCourier]
      /\ repaid' = [repaid EXCEPT ![v] = s.toBuyer]
  BY OneEscrowChanges
<1>1. /\ outcomes' = [outcomes EXCEPT ![v] = "courier"]
      /\ etherHeld' = [etherHeld EXCEPT ![v] = 0]
      /\ paidOut' = [paidOut EXCEPT ![v] = s.terms.courierFee]
  BY <1>0
<1>2. Deployed(v) /\ OutcomeOf(vault[v]) = "open"
  BY DEF Pending, OutcomeOf
<1>3. /\ agreedFee[v] # NoVault /\ agreedFee[v] = s.terms.courierFee
      /\ feeLocked[v] /\ outcomes[v] = "open"
  BY <1>2, EscrowShows
<1>4. UNCHANGED <<agreedFee, feeLocked, repaid>>
  BY <1>2, EscrowKeeps
<1> QED BY <1>1, <1>3, <1>4 DEF E!PayCourier

LEMMA EscrowRepays ==
  ASSUME VaultInv, NEW v \in Vaults, Pending(v), NEW s \in VaultRecords,
         vault' = [vault EXCEPT ![v] = s], s.terms = vault[v].terms,
         s.funded = vault[v].funded, OutcomeOf(s) = "buyer", s.balance = 0,
         s.toBuyer = (IF s.funded THEN s.terms.courierFee ELSE 0),
         s.toCourier = vault[v].toCourier
  PROVE  E!RepayBuyer(v)
<1>0. /\ agreedFee' = [agreedFee EXCEPT ![v] = s.terms.courierFee]
      /\ feeLocked' = [feeLocked EXCEPT ![v] = s.funded]
      /\ outcomes' = [outcomes EXCEPT ![v] = OutcomeOf(s)]
      /\ etherHeld' = [etherHeld EXCEPT ![v] = s.balance]
      /\ paidOut' = [paidOut EXCEPT ![v] = s.toCourier]
      /\ repaid' = [repaid EXCEPT ![v] = s.toBuyer]
  BY OneEscrowChanges
<1>1. /\ outcomes' = [outcomes EXCEPT ![v] = "buyer"]
      /\ etherHeld' = [etherHeld EXCEPT ![v] = 0]
      /\ repaid' = [repaid EXCEPT ![v] = s.toBuyer]
  BY <1>0
<1>2. Deployed(v) /\ OutcomeOf(vault[v]) = "open"
  BY DEF Pending, OutcomeOf
<1>3. /\ agreedFee[v] # NoVault /\ agreedFee[v] = s.terms.courierFee
      /\ feeLocked[v] = s.funded /\ outcomes[v] = "open"
  BY <1>2, EscrowShows
<1>4. UNCHANGED <<agreedFee, feeLocked, paidOut>>
  BY <1>2, EscrowKeeps
<1>5. s.toBuyer = IF feeLocked[v] THEN agreedFee[v] ELSE 0
  BY <1>3
<1> QED BY <1>1, <1>3, <1>4, <1>5 DEF E!RepayBuyer

LEMMA EscrowCompensates ==
  ASSUME VaultInv, NEW v \in Vaults, Pending(v), vault[v].funded,
         NEW s \in VaultRecords,
         vault' = [vault EXCEPT ![v] = s], s.terms = vault[v].terms,
         s.funded = vault[v].funded, OutcomeOf(s) = "compensated",
         s.balance = 0, s.toBuyer >= s.terms.courierFee,
         s.toCourier = vault[v].toCourier
  PROVE  E!CompensateBuyer(v)
<1>0. /\ agreedFee' = [agreedFee EXCEPT ![v] = s.terms.courierFee]
      /\ feeLocked' = [feeLocked EXCEPT ![v] = s.funded]
      /\ outcomes' = [outcomes EXCEPT ![v] = OutcomeOf(s)]
      /\ etherHeld' = [etherHeld EXCEPT ![v] = s.balance]
      /\ paidOut' = [paidOut EXCEPT ![v] = s.toCourier]
      /\ repaid' = [repaid EXCEPT ![v] = s.toBuyer]
  BY OneEscrowChanges
<1>1. /\ outcomes' = [outcomes EXCEPT ![v] = "compensated"]
      /\ etherHeld' = [etherHeld EXCEPT ![v] = 0]
      /\ repaid' = [repaid EXCEPT ![v] = s.toBuyer]
  BY <1>0
<1>2. Deployed(v) /\ OutcomeOf(vault[v]) = "open"
  BY DEF Pending, OutcomeOf
<1>3. /\ agreedFee[v] # NoVault /\ agreedFee[v] = s.terms.courierFee
      /\ feeLocked[v] /\ outcomes[v] = "open"
  BY <1>2, EscrowShows
<1>4. UNCHANGED <<agreedFee, feeLocked, paidOut>>
  BY <1>2, EscrowKeeps
<1>5. repaid'[v] = s.toBuyer
  BY <1>1, ShownAreFunctions
<1> QED BY <1>1, <1>3, <1>4, <1>5 DEF E!CompensateBuyer

\* A change to a vault that the escrow does not show.
LEMMA EscrowStutters ==
  ASSUME VaultInv, NEW v \in Vaults, Deployed(v), NEW s \in VaultRecords,
         vault' = [vault EXCEPT ![v] = s],
         s.terms = vault[v].terms, s.funded = vault[v].funded,
         s.finalized = vault[v].finalized, ~s.finalized \/ s.state = vault[v].state,
         s.balance = vault[v].balance, s.toCourier = vault[v].toCourier,
         s.toBuyer = vault[v].toBuyer
  PROVE  UNCHANGED E!escrowVars
<1>1. OutcomeOf(s) = OutcomeOf(vault[v])
  BY DEF OutcomeOf
<1>2. UNCHANGED <<agreedFee, feeLocked, outcomes, etherHeld, paidOut, repaid>>
  BY <1>1, EscrowKeeps
<1> QED BY <1>2 DEF E!escrowVars

\* _payout() pays the locked fee.
LEMMA PaidOutPaysCourier ==
  ASSUME VaultInv, NEW v \in Vaults, Pending(v), vault[v].funded,
         NEW q \in VaultRecords, PaidOut(v, q),
         q.funded = vault[v].funded, q.terms = vault[v].terms,
         q.balance = vault[v].balance, q.toCourier = vault[v].toCourier,
         q.toBuyer = vault[v].toBuyer
  PROVE  E!PayCourier(v)
<1> DEFINE s == [q EXCEPT !.finalized = TRUE, !.state = "Delivered",
                          !.toCourier = @ + q.balance, !.balance = 0]
<1>1. /\ vault[v] \in VaultRecords /\ UnderWay(vault[v])
      /\ vault[v].terms.courierFee \in Nat
  BY DeployedIsSound DEF Pending, Sound, Terms
<1>2. s \in VaultRecords
  BY <1>1, PaidOutIsSound
<1>3. /\ s.terms = vault[v].terms /\ s.funded = vault[v].funded
      /\ s.toBuyer = vault[v].toBuyer /\ s.finalized /\ s.state = "Delivered"
      /\ s.balance = 0 /\ s.toCourier = q.toCourier + q.balance
  BY DEF VaultRecords
<1>4. vault[v].balance = vault[v].terms.courierFee /\ vault[v].toCourier = 0
  BY <1>1 DEF UnderWay
<1>5. s.toCourier = s.terms.courierFee
  BY <1>1, <1>3, <1>4
<1>6. vault' = [vault EXCEPT ![v] = s]
  BY DEF PaidOut
<1> HIDE DEF s
<1>7. OutcomeOf(s) = "courier"
  BY <1>3 DEF OutcomeOf
<1> QED BY <1>2, <1>3, <1>5, <1>6, <1>7, EscrowPays

\* _slashAndRefund() returns the fee, and what is recovered on top.
LEMMA SlashedCompensatesBuyer ==
  ASSUME VaultInv, NEW v \in Vaults, Pending(v), vault[v].funded,
         NEW q \in VaultRecords, NEW k \in Nat, SlashedAndRefunded(v, q, k),
         q.funded = vault[v].funded, q.terms = vault[v].terms,
         q.balance = vault[v].balance, q.toCourier = vault[v].toCourier,
         q.toBuyer = vault[v].toBuyer
  PROVE  E!CompensateBuyer(v)
<1> DEFINE s == [q EXCEPT !.finalized = TRUE, !.state = "Failed",
                          !.toBuyer = @ + q.balance + k, !.balance = 0]
<1>1. /\ vault[v] \in VaultRecords /\ UnderWay(vault[v])
      /\ vault[v].terms.courierFee \in Nat
  BY DeployedIsSound DEF Pending, Sound, Terms
<1>2. s \in VaultRecords
  BY <1>1, SlashedIsSound
<1>3. /\ s.terms = vault[v].terms /\ s.funded = vault[v].funded
      /\ s.toCourier = vault[v].toCourier /\ s.finalized /\ s.state = "Failed"
      /\ s.balance = 0 /\ s.toBuyer = q.toBuyer + q.balance + k
  BY DEF VaultRecords
<1>4. vault[v].balance = vault[v].terms.courierFee /\ vault[v].toBuyer = 0
  BY <1>1 DEF UnderWay
<1>5. s.toBuyer >= s.terms.courierFee
  BY <1>1, <1>3, <1>4
<1>6. vault' = [vault EXCEPT ![v] = s]
  BY DEF SlashedAndRefunded
<1> HIDE DEF s
<1>7. OutcomeOf(s) = "compensated"
  BY <1>3 DEF OutcomeOf
<1> QED BY <1>2, <1>3, <1>5, <1>6, <1>7, EscrowCompensates

\* A refund returns what was paid in.
LEMMA RefundedRepaysBuyer ==
  ASSUME VaultInv, NEW v \in Vaults, Pending(v), Refunded(v)
  PROVE  E!RepayBuyer(v)
<1> DEFINE s == [vault[v] EXCEPT !.finalized = TRUE, !.state = "Refunded",
                                 !.toBuyer = @ + vault[v].balance, !.balance = 0]
<1>1. /\ vault[v] \in VaultRecords /\ UnderWay(vault[v]) /\ ~vault[v].finalized
      /\ vault[v].terms.courierFee \in Nat
  BY DeployedIsSound DEF Pending, Sound, Terms
<1>2. s \in VaultRecords
  BY <1>1, RefundedIsSound
<1>3. /\ s.terms = vault[v].terms /\ s.funded = vault[v].funded
      /\ s.toCourier = vault[v].toCourier /\ s.finalized /\ s.state = "Refunded"
      /\ s.balance = 0 /\ s.toBuyer = vault[v].toBuyer + vault[v].balance
  BY <1>1 DEF VaultRecords
<1>4. vault' = [vault EXCEPT ![v] = s]
  BY DEF Refunded
<1>5. /\ vault[v].balance = IF vault[v].funded THEN vault[v].terms.courierFee ELSE 0
      /\ vault[v].toBuyer = 0
  BY <1>1 DEF UnderWay
<1> HIDE DEF s
<1>6. OutcomeOf(s) = "buyer"
  BY <1>3 DEF OutcomeOf
<1>7. s.toBuyer = IF s.funded THEN s.terms.courierFee ELSE 0
  BY <1>1, <1>3, <1>5
<1> QED BY <1>2, <1>3, <1>4, <1>6, <1>7, EscrowRepays

LEMMA EscrowStep == VaultInv /\ [Next]_vars => [E!EscrowNext]_(E!escrowVars)
<1> SUFFICES ASSUME VaultInv, [Next]_vars
             PROVE  E!EscrowNext \/ UNCHANGED E!escrowVars
  OBVIOUS
<1>0. now \in Nat \ {0} /\ vault \in [Vaults -> VaultRecords \cup {NoVault}]
  BY DEF VaultInv, VaultsTyped
<1>1. CASE Deploy
  <2>1. PICK v \in Vaults, t \in Offers : DeployVault(v, t) \/ SpawnVault(v, t)
    BY <1>1, DeploySteps
  <2>2. PICK r \in VaultRecords :
           /\ r.terms = t /\ t.courierFee \in Nat \ {0} /\ t \in Terms
           /\ ~r.funded /\ ~r.finalized /\ r.balance = 0
           /\ r.toCourier = 0 /\ r.toBuyer = 0
           /\ ~Deployed(v) /\ vault' = [vault EXCEPT ![v] = r]
    BY <2>1, NewIsSound
  <2>4. E!Agree(v)
    BY <2>2, EscrowAgrees
  <2> QED BY <2>4 DEF E!EscrowNext
<1>2. ASSUME NEW v \in Vaults,
             OfVault(v)
      PROVE  E!EscrowNext \/ UNCHANGED E!escrowVars
  <2> DEFINE r == vault[v]
  <2>1. Deployed(v)
    BY <1>2 DEF OfVault, AtOnce, Initialize, InitializeVault, Quiet, QuietStep, Fund, Pickup, CanPickUp,
       ConfirmDelivery, RaiseDispute, Disputable, Releasing, ReleasingStep, ConfirmAndPay,
       Confirmable, ResolveForCourier, FinalizeDelivered, Finalizable, RefundOnPickupTimeout,
       PickupTimedOut, CancelByBuyerPrePickup, Cancellable, Slashing, Pending
  <2>2. r \in VaultRecords /\ Sound(r) /\ r.terms \in Terms
    BY <2>1, DeployedIsSound
  <2>3. CASE Initialize(v)
    <3> DEFINE s == [r EXCEPT !.initialized = TRUE]
    <3>1. s \in VaultRecords /\ vault' = [vault EXCEPT ![v] = s]
      BY <1>0, <2>2, <2>3 DEF VaultRecords, Initialize, InitializeVault
    <3>2. /\ s.terms = r.terms /\ s.funded = r.funded /\ s.finalized = r.finalized
          /\ s.state = r.state /\ s.balance = r.balance
          /\ s.toCourier = r.toCourier /\ s.toBuyer = r.toBuyer
      BY <2>2 DEF VaultRecords
    <3> QED BY <2>1, <3>1, <3>2, EscrowStutters
  <2>4. CASE Fund(v)
    <3> DEFINE s == [r EXCEPT !.funded = TRUE, !.balance = @ + r.terms.courierFee]
    <3>1. r.balance + r.terms.courierFee \in Nat /\ ~r.funded
      BY <2>2, <2>4 DEF VaultRecords, Terms, Fund
    <3>2. s \in VaultRecords /\ vault' = [vault EXCEPT ![v] = s]
      BY <1>0, <2>2, <2>4, <3>1 DEF VaultRecords, Fund
    <3>3. /\ s.funded /\ s.balance = r.balance + s.terms.courierFee
          /\ s.terms = r.terms /\ s.finalized = r.finalized /\ s.state = r.state
          /\ s.toCourier = r.toCourier /\ s.toBuyer = r.toBuyer
      BY <2>2 DEF VaultRecords
    <3>4. OutcomeOf(s) = OutcomeOf(r)
      BY <3>3 DEF OutcomeOf
    <3>5. E!Lock(v)
      BY <2>1, <3>1, <3>2, <3>3, <3>4, EscrowLocks
    <3> QED BY <3>5 DEF E!EscrowNext
  <2>5. CASE Pickup(v)
    <3> DEFINE s == [r EXCEPT !.state = "PickedUp"]
    <3>1. s \in VaultRecords /\ vault' = [vault EXCEPT ![v] = s] /\ ~r.finalized
      BY <1>0, <2>2, <2>5 DEF VaultRecords, State, Pickup, CanPickUp, Pending
    <3>2. /\ s.terms = r.terms /\ s.funded = r.funded /\ s.finalized = r.finalized
          /\ s.balance = r.balance
          /\ s.toCourier = r.toCourier /\ s.toBuyer = r.toBuyer
      BY <2>2 DEF VaultRecords
    <3> QED BY <2>1, <3>1, <3>2, EscrowStutters
  <2>6. CASE ConfirmDelivery(v)
    <3> DEFINE s == [r EXCEPT !.state = "Delivered", !.deliveredAt = now]
    <3>1. s \in VaultRecords /\ vault' = [vault EXCEPT ![v] = s] /\ ~r.finalized
      BY <1>0, <2>2, <2>6 DEF VaultRecords, State, ConfirmDelivery, Confirmable, Pending
    <3>2. /\ s.terms = r.terms /\ s.funded = r.funded /\ s.finalized = r.finalized
          /\ s.balance = r.balance
          /\ s.toCourier = r.toCourier /\ s.toBuyer = r.toBuyer
      BY <2>2 DEF VaultRecords
    <3> QED BY <2>1, <3>1, <3>2, EscrowStutters
  <2>7. CASE RaiseDispute(v)
    <3> DEFINE s == [r EXCEPT !.disputed = TRUE]
    <3>1. s \in VaultRecords /\ vault' = [vault EXCEPT ![v] = s] /\ ~r.finalized
      BY <1>0, <2>2, <2>7 DEF VaultRecords, RaiseDispute, Disputable, Pending
    <3>2. /\ s.terms = r.terms /\ s.funded = r.funded /\ s.finalized = r.finalized
          /\ s.balance = r.balance
          /\ s.toCourier = r.toCourier /\ s.toBuyer = r.toBuyer
      BY <2>2 DEF VaultRecords
    <3> QED BY <2>1, <3>1, <3>2, EscrowStutters
  <2>8. ASSUME NEW q \in VaultRecords, Pending(v), r.funded, PaidOut(v, q),
               q.funded = r.funded, q.terms = r.terms, q.balance = r.balance,
               q.toCourier = r.toCourier, q.toBuyer = r.toBuyer
        PROVE  E!EscrowNext
    BY <2>8, PaidOutPaysCourier DEF E!EscrowNext
  <2>9. CASE ConfirmAndPay(v)
    <3> DEFINE q == [r EXCEPT !.deliveredAt = now]
    <3>1. q \in VaultRecords /\ Pending(v) /\ r.funded /\ PaidOut(v, q)
      BY <1>0, <2>2, <2>9 DEF VaultRecords, Sound, UnderWay, ConfirmAndPay,
         Confirmable, Pending
    <3>2. /\ q.funded = r.funded /\ q.terms = r.terms /\ q.balance = r.balance
          /\ q.toCourier = r.toCourier /\ q.toBuyer = r.toBuyer
      BY <2>2 DEF VaultRecords
    <3> QED BY <2>8, <3>1, <3>2
  <2>10. CASE ResolveForCourier(v)
    <3> DEFINE q == [r EXCEPT !.ruling = "courier"]
    <3>1. q \in VaultRecords /\ Pending(v) /\ r.funded /\ PaidOut(v, q)
      BY <2>2, <2>10 DEF VaultRecords, Sound, UnderWay, ResolveForCourier, Pending
    <3>2. /\ q.funded = r.funded /\ q.terms = r.terms /\ q.balance = r.balance
          /\ q.toCourier = r.toCourier /\ q.toBuyer = r.toBuyer
      BY <2>2 DEF VaultRecords
    <3> QED BY <2>8, <3>1, <3>2
  <2>11. CASE FinalizeDelivered(v)
    <3>1. Pending(v) /\ r.funded /\ PaidOut(v, r)
      BY <2>2, <2>11 DEF Sound, UnderWay, FinalizeDelivered, Finalizable, Pending
    <3> QED BY <2>2, <2>8, <3>1
  <2>12. CASE RefundOnPickupTimeout(v) \/ CancelByBuyerPrePickup(v)
    <3>1. Pending(v) /\ Refunded(v)
      BY <2>12 DEF RefundOnPickupTimeout, PickupTimedOut, CancelByBuyerPrePickup, Cancellable
    <3> QED BY <3>1, RefundedRepaysBuyer DEF E!EscrowNext
  <2>13. CASE Slashing(v)
    <3>1. PICK k \in Recoveries(v) : SlashingStep(v, k)
      BY <2>13 DEF Slashing
    <3>2. k \in Nat
      BY <2>2 DEF Recoveries, Terms
    <3>3. CASE ResolveForBuyer(v, k)
      <4> DEFINE q == [r EXCEPT !.ruling = "buyer"]
      <4>1. q \in VaultRecords /\ Pending(v) /\ r.funded /\ SlashedAndRefunded(v, q, k)
        BY <2>2, <3>3 DEF VaultRecords, Sound, UnderWay, ResolveForBuyer, Pending
      <4>2. /\ q.funded = r.funded /\ q.terms = r.terms /\ q.balance = r.balance
            /\ q.toCourier = r.toCourier /\ q.toBuyer = r.toBuyer
        BY <2>2 DEF VaultRecords
      <4>3. E!CompensateBuyer(v)
        BY <3>2, <4>1, <4>2, SlashedCompensatesBuyer
      <4> QED BY <4>3 DEF E!EscrowNext
    <3>4. CASE SlashOnDropoffTimeout(v, k)
      <4>1. Pending(v) /\ r.funded /\ SlashedAndRefunded(v, r, k)
        BY <2>2, <3>4 DEF Sound, UnderWay, SlashOnDropoffTimeout, DropoffTimedOut, Pending
      <4>2. E!CompensateBuyer(v)
        BY <2>2, <3>2, <4>1, SlashedCompensatesBuyer
      <4> QED BY <4>2 DEF E!EscrowNext
    <3> QED BY <3>1, <3>3, <3>4 DEF SlashingStep
  <2> QED BY <1>2, <2>3, <2>4, <2>5, <2>6, <2>7, <2>9, <2>10, <2>11, <2>12, <2>13
          DEF OfVault, AtOnce, Quiet, QuietStep, Releasing, ReleasingStep
<1>3. ASSUME vault' = vault PROVE UNCHANGED E!escrowVars
  <2>1. feeLocked' = feeLocked
    BY <1>3, Zenon DEF feeLocked, Deployed
  <2> QED BY <1>3, <2>1 DEF E!escrowVars, agreedFee, outcomes, OutcomeOf, etherHeld,
          paidOut, repaid, Deployed
<1>4. CASE Clock
  BY <1>3, <1>4 DEF Clock
<1>5. CASE UNCHANGED <<vault, now>>
  BY <1>3, <1>5
<1> QED BY <1>1, <1>2, <1>4, <1>5, Steps

\* The vaults implement the escrow: a fee is locked at most once, one outcome
\* is decided, and the step that decides it moves all the vault holds to the
\* party that outcome names.
THEOREM VaultsKeepEscrowPromise == Spec => KeepsEscrowPromise
<1>1. Spec => []VaultInv
  BY VaultInvInit, VaultInvStep, PTL DEF Spec
<1> QED BY <1>1, EscrowStart, EscrowStep, PTL DEF Spec, KeepsEscrowPromise, E!EscrowSpec

-----------------------------------------------------------------------------
(* Mailbox agent and server: what the progress of their jobs says.          *)

USE MailboxConstants

Waiting == {"consulting", "sending", "orphaned"}
Signed == {"saving", "saved", "lost"}

JobRecords ==
    [at : {"new", "over"} \cup Waiting \cup Signed, vault : Vaults \cup {NoVault},
     sensed : BOOLEAN, consent : {"none", "ai", "nokey", "fallback"},
     checkedAt : Nat, signedAt : Nat, savedAt : Nat]

MailboxTypes ==
    /\ now \in Nat \ {0}
    /\ vault \in [Vaults -> VaultRecords]
    /\ lastSign \in Nat
    /\ jobs \in [Jobs -> JobRecords]

\* What the progress of a job says of its record.
JobSound(j, r) ==
    /\ r.at \in Signed <=> r.signedAt # 0
    /\ r.at \in Waiting \cup Signed => r.vault \in Vaults /\ r.checkedAt \in 1..now
    /\ r.at = "consulting" => j \in Posts
    /\ r.at \in {"sending", "orphaned"} \cup Signed /\ ~r.sensed =>
         j \in Posts /\ r.consent \in {"ai", "nokey"}
    /\ r.at = "saved" => r.savedAt \in r.checkedAt..now

\* The vault of a job that has signed can never be confirmed again.
OnChain(j) ==
    /\ vault[jobs[j].vault].state # "PickedUp"
    /\ vault[jobs[j].vault].deliveredAt = jobs[j].signedAt

Apart(j, k) ==
    jobs[j].at \in Signed /\ jobs[k].at \in Signed => jobs[j].vault # jobs[k].vault

\* An agent run put its own time back after job k had written the file.
PutBack(k, r) ==
    /\ jobs[r].at = "saved"
    /\ jobs[r].checkedAt <= jobs[k].savedAt
    /\ jobs[r].savedAt >= jobs[k].savedAt

\* The file remembers a saved job, unless it was put back.
Remembered(k) == lastSign >= Stamp(k) \/ \E r \in Runs \ {k} : PutBack(k, r)

MailboxInv ==
    /\ MailboxTypes
    /\ \A j \in Jobs : JobSound(j, jobs[j])
    /\ \A j \in Jobs : jobs[j].at \in Signed => OnChain(j)
    /\ \A j \in Jobs : \A k \in Jobs \ {j} : Apart(j, k)
    /\ PauseHasACause
    /\ \A k \in Jobs : jobs[k].at = "saved" => Remembered(k)

LEMMA MailboxStart == MailboxInit => MailboxInv
<1> SUFFICES ASSUME MailboxInit PROVE MailboxInv
  OBVIOUS
<1>1. vault \in [Vaults -> VaultRecords]
  <2>1. PICK t \in Offers : vault = [v \in Vaults |-> PickedUp(t)]
    BY DEF MailboxInit
  <2>2. t \in Terms /\ t.courierFee \in Nat
    BY DEF Terms
  <2>3. PickedUp(t) \in VaultRecords
    BY <2>2 DEF PickedUp, Fresh, VaultRecords, State
  <2> QED BY <2>1, <2>3
<1>2. NewJob \in JobRecords /\ NewJob.at = "new" /\ NewJob.signedAt = 0
  BY DEF NewJob, JobRecords, Waiting, Signed
<1>3. MailboxTypes /\ \A j \in Jobs : jobs[j] = NewJob
  BY <1>1, <1>2 DEF MailboxInit, MailboxTypes
<1>4. \A j \in Jobs : JobSound(j, jobs[j]) /\ jobs[j].at \notin Signed
  BY <1>2, <1>3 DEF JobSound, Signed, Waiting
<1> QED BY <1>3, <1>4 DEF MailboxInv, Apart, Signed, MailboxInit, PauseHasACause

-----------------------------------------------------------------------------
(* Steps of the jobs.                                                      *)

\* Jobs that move on before they sign, or fail, disturb no promise.
LEMMA JobsMoveOn ==
  ASSUME MailboxInv, UNCHANGED <<vars, lastSign>>, jobs' \in [Jobs -> JobRecords],
         \A j \in Jobs :
            \/ jobs'[j] = jobs[j]
            \/ /\ JobSound(j, jobs'[j])
               /\ jobs[j].at # "saved" /\ jobs'[j].at # "saved"
               /\ jobs'[j].at \in Signed =>
                    /\ jobs[j].at \in Signed
                    /\ jobs'[j].vault = jobs[j].vault
                    /\ jobs'[j].signedAt = jobs[j].signedAt
  PROVE  MailboxInv'
<1>1. MailboxTypes'
  BY DEF MailboxInv, MailboxTypes, vars
<1>2. \A j \in Jobs : JobSound(j, jobs[j])'
  BY DEF MailboxInv, JobSound, vars
<1>3. \A j \in Jobs : (jobs[j].at \in Signed)' =>
         /\ jobs[j].at \in Signed
         /\ jobs'[j].vault = jobs[j].vault /\ jobs'[j].signedAt = jobs[j].signedAt
  BY DEF Signed
<1>4. \A j \in Jobs : (jobs[j].at \in Signed => OnChain(j))'
  BY <1>3 DEF MailboxInv, OnChain, vars, Signed
<1>5. \A j \in Jobs : \A k \in Jobs \ {j} : Apart(j, k)'
  BY <1>3 DEF MailboxInv, Apart, Signed
<1>6. \A j \in Jobs : jobs[j].at = "saved" \/ jobs'[j].at = "saved" => jobs'[j] = jobs[j]
  OBVIOUS
<1>7. PauseHasACause'
  BY <1>6 DEF MailboxInv, PauseHasACause, Stamp
<1>8. ASSUME NEW k \in Jobs, jobs'[k].at = "saved" PROVE Remembered(k)'
  <2>1. jobs'[k] = jobs[k] /\ Remembered(k)
    BY <1>6, <1>8 DEF MailboxInv
  <2>2. \A r \in Runs : PutBack(k, r) => PutBack(k, r)'
    BY <1>6, <2>1 DEF PutBack, Jobs
  <2> QED BY <2>1, <2>2 DEF Remembered, Stamp
<1> QED BY <1>1, <1>2, <1>4, <1>5, <1>7, <1>8 DEF MailboxInv

\* The same for one job.
LEMMA JobMovesOn ==
  ASSUME MailboxInv, UNCHANGED <<vars, lastSign>>,
         NEW j \in Jobs, NEW r \in JobRecords, jobs' = [jobs EXCEPT ![j] = r],
         JobSound(j, r), r.at \notin Signed, jobs[j].at # "saved"
  PROVE  MailboxInv'
<1>1. jobs \in [Jobs -> JobRecords]
  BY DEF MailboxInv, MailboxTypes
<1>2. jobs' \in [Jobs -> JobRecords] /\ jobs'[j] = r
      /\ \A k \in Jobs \ {j} : jobs'[k] = jobs[k]
  BY <1>1
<1> QED BY <1>2, JobsMoveOn DEF Signed

LEMMA OverIsSound == Over \in JobRecords /\ Over.at = "over" /\ \A j \in Jobs : JobSound(j, Over)
BY DEF Over, NewJob, JobRecords, JobSound, Waiting, Signed

LEMMA CheckKeeps ==
  ASSUME MailboxInv, NEW j \in Jobs, NEW v \in Vaults, Check(j, v)
  PROVE  MailboxInv'
<1>1. CASE jobs' = [jobs EXCEPT ![j] = Over]
  BY <1>1, OverIsSound, JobMovesOn DEF Check, Signed
<1>2. ASSUME NEW ok \in BOOLEAN, j \in Runs => ok,
             jobs' = [jobs EXCEPT ![j].at = IF j \in Runs THEN "sending" ELSE "consulting",
                                  ![j].sensed = ok, ![j].vault = v, ![j].checkedAt = now]
      PROVE  MailboxInv'
  <2> DEFINE r == [jobs[j] EXCEPT !.at = IF j \in Runs THEN "sending" ELSE "consulting",
                                  !.sensed = ok, !.vault = v, !.checkedAt = now]
  <2>1. jobs[j] \in JobRecords /\ now \in Nat \ {0} /\ jobs[j].signedAt = 0
        /\ jobs[j].at = "new"
    BY DEF MailboxInv, MailboxTypes, Check, JobSound, Signed
  <2>2. /\ r \in JobRecords /\ r.at = IF j \in Runs THEN "sending" ELSE "consulting"
        /\ r.sensed = ok /\ r.vault = v /\ r.checkedAt = now /\ r.signedAt = 0
    BY <2>1 DEF JobRecords, Waiting
  <2>3. jobs' = [jobs EXCEPT ![j] = r]
    BY <1>2, <2>1 DEF MailboxInv, MailboxTypes
  <2> HIDE DEF r
  <2>4. JobSound(j, r)
    BY <1>2, <2>1, <2>2 DEF JobSound, Waiting, Signed, Jobs
  <2>5. r.at \notin Signed
    BY <2>2 DEF Signed
  <2> QED BY <2>1, <2>2, <2>3, <2>4, <2>5, JobMovesOn DEF Check
<1> QED BY <1>1, <1>2 DEF Check

LEMMA ConsultedKeeps ==
  ASSUME MailboxInv, NEW j \in Jobs, Consulted(j)
  PROVE  MailboxInv'
<1>1. CASE jobs' = [jobs EXCEPT ![j] = Over]
  BY <1>1, OverIsSound, JobMovesOn DEF Consulted, Signed
<1>2. ASSUME NEW c \in Consents(j),
             jobs' = [jobs EXCEPT ![j].at = "sending",
                                  ![j].consent = IF jobs[j].sensed THEN @ ELSE c]
      PROVE  MailboxInv'
  <2> DEFINE d == IF jobs[j].sensed THEN jobs[j].consent ELSE c
             r == [jobs[j] EXCEPT !.at = "sending", !.consent = d]
  <2>1. jobs[j] \in JobRecords /\ JobSound(j, jobs[j]) /\ jobs[j].at = "consulting"
    BY DEF MailboxInv, MailboxTypes, Consulted
  <2>2. /\ d \in {"none", "ai", "nokey", "fallback"}
        /\ (~jobs[j].sensed => d \in {"ai", "nokey"})
    BY <1>2, <2>1 DEF Consents, JobSound, JobRecords
  <2>3. /\ r \in JobRecords /\ r.at = "sending" /\ r.consent = d
        /\ r.sensed = jobs[j].sensed /\ r.vault = jobs[j].vault
        /\ r.checkedAt = jobs[j].checkedAt /\ r.signedAt = jobs[j].signedAt
    BY <2>1, <2>2 DEF JobRecords, Waiting
  <2>4. jobs' = [jobs EXCEPT ![j] = r]
    BY <1>2, <2>1 DEF MailboxInv, MailboxTypes
  <2> HIDE DEF r
  <2>5. JobSound(j, r) /\ r.at \notin Signed
    BY <2>1, <2>2, <2>3 DEF JobSound, Waiting, Signed
  <2> QED BY <2>1, <2>3, <2>4, <2>5, JobMovesOn DEF Consulted
<1> QED BY <1>1, <1>2 DEF Consulted

LEMMA RevertedKeeps ==
  ASSUME MailboxInv, NEW j \in Jobs, Reverted(j)
  PROVE  MailboxInv'
BY OverIsSound, JobMovesOn DEF Reverted, Signed

\* What a crash leaves of a job.
LEMMA CrashKeeps ==
  ASSUME MailboxInv, NEW dying, Crash(dying)
  PROVE  MailboxInv'
<1> DEFINE Remains(r) == [r EXCEPT !.at = CASE @ = "sending" -> "orphaned"
                                            [] @ = "saving" -> "lost"
                                            [] OTHER -> @]
<1>1. ASSUME NEW j \in Jobs
      PROVE  /\ jobs'[j] \in JobRecords
             /\ \/ jobs'[j] = jobs[j]
                \/ /\ JobSound(j, jobs'[j])
                   /\ jobs[j].at # "saved" /\ jobs'[j].at # "saved"
                   /\ jobs'[j].at \in Signed =>
                        /\ jobs[j].at \in Signed
                        /\ jobs'[j].vault = jobs[j].vault
                        /\ jobs'[j].signedAt = jobs[j].signedAt
  <2>1. jobs[j] \in JobRecords /\ JobSound(j, jobs[j])
    BY DEF MailboxInv, MailboxTypes
  <2>2. CASE j \notin dying
    BY <2>1, <2>2 DEF Crash
  <2>3. CASE j \in dying /\ jobs[j].at = "consulting"
    <3>1. jobs'[j] = Over
      BY <2>3 DEF Crash
    <3> QED BY <2>3, <3>1, OverIsSound DEF Signed
  <2>4. CASE j \in dying /\ jobs[j].at # "consulting"
    <3>1. jobs'[j] = Remains(jobs[j])
      BY <2>4 DEF Crash
    <3>2. CASE jobs[j].at \in {"sending", "saving"}
      <4> DEFINE r == Remains(jobs[j])
      <4>1. r.at = IF jobs[j].at = "sending" THEN "orphaned" ELSE "lost"
        BY <2>1, <3>2 DEF JobRecords
      <4>2. /\ r.sensed = jobs[j].sensed /\ r.consent = jobs[j].consent
            /\ r.vault = jobs[j].vault /\ r.checkedAt = jobs[j].checkedAt
            /\ r.signedAt = jobs[j].signedAt
        BY <2>1 DEF JobRecords
      <4>3. r \in JobRecords
        BY <2>1, <3>2 DEF JobRecords, Waiting, Signed
      <4> HIDE DEF r
      <4>4. JobSound(j, r)
        BY <2>1, <3>2, <4>1, <4>2 DEF JobSound, Waiting, Signed
      <4>5. jobs'[j] = r
        BY <3>1 DEF r
      <4> QED BY <3>2, <4>1, <4>2, <4>3, <4>4, <4>5 DEF Signed
    <3>3. CASE jobs[j].at \notin {"sending", "saving"}
      <4>1. Remains(jobs[j]) = jobs[j]
        BY <2>1, <3>3 DEF JobRecords
      <4> QED BY <2>1, <3>1, <4>1
    <3> QED BY <3>2, <3>3
  <2> QED BY <2>2, <2>3, <2>4
<1>2. jobs' \in [Jobs -> JobRecords]
  BY <1>1 DEF Crash
<1> QED BY <1>1, <1>2, JobsMoveOn DEF Crash

\* A vault that is confirmed was on its way and leaves that state for good.
LEMMA ConfirmationIsRecorded ==
  ASSUME vault \in [Vaults -> VaultRecords], now \in Nat \ {0}, NEW v \in Vaults,
         ConfirmDelivery(v) \/ ConfirmAndPay(v)
  PROVE  /\ vault' \in [Vaults -> VaultRecords]
         /\ vault[v].state = "PickedUp"
         /\ vault'[v].state # "PickedUp" /\ vault'[v].deliveredAt = now
         /\ \A w \in Vaults \ {v} : vault'[w] = vault[w]
<1> DEFINE r == vault[v]
<1>1. r \in VaultRecords /\ r.state = "PickedUp"
  BY DEF ConfirmDelivery, ConfirmAndPay, Confirmable
<1>2. CASE ConfirmDelivery(v)
  <2> DEFINE s == [r EXCEPT !.state = "Delivered", !.deliveredAt = now]
  <2>1. s \in VaultRecords /\ s.state = "Delivered" /\ s.deliveredAt = now
    BY <1>1 DEF VaultRecords, State
  <2>2. vault' = [vault EXCEPT ![v] = s]
    BY <1>2 DEF ConfirmDelivery
  <2> HIDE DEF s
  <2> QED BY <1>1, <2>1, <2>2
<1>3. CASE ConfirmAndPay(v)
  <2> DEFINE q == [r EXCEPT !.deliveredAt = now]
             s == [q EXCEPT !.finalized = TRUE, !.state = "Delivered",
                            !.toCourier = @ + q.balance, !.balance = 0]
  <2>1. q \in VaultRecords /\ q.deliveredAt = now
    BY <1>1 DEF VaultRecords
  <2>2. q.toCourier + q.balance \in Nat
    BY <2>1 DEF VaultRecords
  <2>3. s \in VaultRecords /\ s.state = "Delivered" /\ s.deliveredAt = now
    BY <2>1, <2>2 DEF VaultRecords, State
  <2>4. vault' = [vault EXCEPT ![v] = s]
    BY <1>3 DEF ConfirmAndPay, PaidOut
  <2> HIDE DEF s
  <2> QED BY <1>1, <2>3, <2>4
<1> QED BY <1>2, <1>3

LEMMA MinedKeeps ==
  ASSUME MailboxInv, NEW j \in Jobs, Mined(j)
  PROVE  MailboxInv'
<1> DEFINE v == jobs[j].vault
           r == [jobs[j] EXCEPT !.at = IF jobs[j].at = "sending" THEN "saving" ELSE "lost",
                                !.signedAt = now]
<1>1. /\ jobs \in [Jobs -> JobRecords] /\ vault \in [Vaults -> VaultRecords]
      /\ now \in Nat \ {0} /\ jobs[j] \in JobRecords /\ JobSound(j, jobs[j])
      /\ jobs[j].at \in {"sending", "orphaned"}
  BY DEF MailboxInv, MailboxTypes, Mined
<1>2. v \in Vaults
  BY <1>1 DEF JobSound, Waiting
<1>3. /\ vault' \in [Vaults -> VaultRecords] /\ vault[v].state = "PickedUp"
      /\ vault'[v].state # "PickedUp" /\ vault'[v].deliveredAt = now
      /\ \A w \in Vaults \ {v} : vault'[w] = vault[w]
  BY <1>1, <1>2, ConfirmationIsRecorded DEF Mined
<1>4. /\ r \in JobRecords /\ r.at \in {"saving", "lost"} /\ r.signedAt = now
      /\ r.vault = v /\ r.sensed = jobs[j].sensed /\ r.consent = jobs[j].consent
      /\ r.checkedAt = jobs[j].checkedAt
  BY <1>1 DEF JobRecords, Signed
<1>5. jobs' = [jobs EXCEPT ![j] = r]
  BY <1>1 DEF Mined
<1> HIDE DEF r, v
<1>6. jobs' \in [Jobs -> JobRecords] /\ jobs'[j] = r
      /\ \A k \in Jobs \ {j} : jobs'[k] = jobs[k]
  BY <1>1, <1>4, <1>5
<1>7. now' = now /\ lastSign' = lastSign
  BY DEF Mined, AtOnce
<1>8. MailboxTypes'
  BY <1>3, <1>6, <1>7 DEF MailboxInv, MailboxTypes
<1>9. ASSUME NEW k \in Jobs PROVE JobSound(k, jobs[k])'
  <2>1. JobSound(j, r)
    BY <1>1, <1>2, <1>4 DEF JobSound, Waiting, Signed
  <2> QED BY <1>6, <1>7, <2>1 DEF MailboxInv, JobSound
<1>10. ASSUME NEW k \in Jobs \ {j}, jobs[k].at \in Signed
       PROVE  jobs[k].vault \in Vaults \ {v} /\ OnChain(k)
  <2>1. OnChain(k) /\ JobSound(k, jobs[k])
    BY <1>10 DEF MailboxInv
  <2> QED BY <1>3, <1>10, <2>1 DEF OnChain, JobSound
<1>11. \A k \in Jobs : (jobs[k].at \in Signed => OnChain(k))'
  BY <1>3, <1>4, <1>6, <1>10 DEF OnChain
<1>12. \A k \in Jobs : \A l \in Jobs \ {k} : Apart(k, l)'
  BY <1>4, <1>6, <1>10 DEF MailboxInv, Apart
<1>13. \A k \in Jobs : jobs[k].at = "saved" \/ jobs'[k].at = "saved" => jobs'[k] = jobs[k]
  BY <1>1, <1>4, <1>6
<1>14. PauseHasACause'
  BY <1>7, <1>13 DEF MailboxInv, PauseHasACause, Stamp
<1>15. ASSUME NEW k \in Jobs, jobs'[k].at = "saved" PROVE Remembered(k)'
  <2>1. jobs'[k] = jobs[k] /\ Remembered(k)
    BY <1>13, <1>15 DEF MailboxInv
  <2>2. \A i \in Runs : PutBack(k, i) => PutBack(k, i)'
    BY <1>13, <2>1 DEF PutBack, Jobs
  <2> QED BY <1>7, <2>1, <2>2 DEF Remembered, Stamp
<1> QED BY <1>8, <1>9, <1>11, <1>12, <1>14, <1>15 DEF MailboxInv

\* The file is written: by the server with the newest time there is, by an
\* agent run with the time of its check, which any job the file forgets
\* overlapped.
LEMMA SaveKeeps ==
  ASSUME MailboxInv, NEW j \in Jobs, Save(j)
  PROVE  MailboxInv'
<1> DEFINE r == [jobs[j] EXCEPT !.at = "saved", !.savedAt = now]
<1>1. /\ jobs \in [Jobs -> JobRecords] /\ now \in Nat \ {0}
      /\ jobs[j] \in JobRecords /\ JobSound(j, jobs[j]) /\ jobs[j].at = "saving"
  BY DEF MailboxInv, MailboxTypes, Save
<1>2. /\ r \in JobRecords /\ r.at = "saved" /\ r.savedAt = now
      /\ r.signedAt = jobs[j].signedAt /\ r.vault = jobs[j].vault
      /\ r.sensed = jobs[j].sensed /\ r.consent = jobs[j].consent
      /\ r.checkedAt = jobs[j].checkedAt
  BY <1>1 DEF JobRecords, Signed
<1>3. jobs' = [jobs EXCEPT ![j] = r]
  BY <1>1 DEF Save
<1> HIDE DEF r
<1>4. jobs' \in [Jobs -> JobRecords] /\ jobs'[j] = r
      /\ \A k \in Jobs \ {j} : jobs'[k] = jobs[k]
  BY <1>1, <1>2, <1>3
<1>5. /\ now' = now /\ vault' = vault
      /\ lastSign' = IF j \in Runs THEN jobs[j].checkedAt ELSE now
  BY DEF Save, vars
<1>6. jobs[j].checkedAt \in 1..now
  BY <1>1 DEF JobSound, Signed
<1>7. lastSign' = Stamp(j)' /\ lastSign' \in Nat
  BY <1>1, <1>2, <1>4, <1>5, <1>6 DEF Stamp
<1>8. MailboxTypes'
  BY <1>4, <1>5, <1>7 DEF MailboxInv, MailboxTypes
<1>9. JobSound(j, r)
  BY <1>1, <1>2, <1>6 DEF JobSound, Waiting, Signed
<1>10. \A k \in Jobs : JobSound(k, jobs[k])'
  BY <1>4, <1>5, <1>9 DEF MailboxInv, JobSound
<1>11. \A k \in Jobs : (jobs[k].at \in Signed)' =>
         /\ jobs[k].at \in Signed
         /\ jobs'[k].vault = jobs[k].vault /\ jobs'[k].signedAt = jobs[k].signedAt
  BY <1>1, <1>2, <1>4 DEF Signed
<1>12. \A k \in Jobs : (jobs[k].at \in Signed => OnChain(k))'
  BY <1>5, <1>11 DEF MailboxInv, OnChain
<1>13. \A k \in Jobs : \A l \in Jobs \ {k} : Apart(k, l)'
  BY <1>11 DEF MailboxInv, Apart
<1>14. PauseHasACause'
  <2>1. jobs'[j].at = "saved" /\ jobs'[j].signedAt # 0
    BY <1>1, <1>2, <1>4 DEF JobSound, Signed
  <2> QED BY <1>7, <2>1 DEF PauseHasACause
<1>15. ASSUME NEW k \in Jobs, jobs'[k].at = "saved" PROVE Remembered(k)'
  <2>1. CASE k = j
    BY <1>1, <1>6, <1>7, <2>1 DEF Remembered
  <2>2. CASE k # j
    <3>1. jobs'[k] = jobs[k] /\ jobs[k] \in JobRecords /\ JobSound(k, jobs[k])
          /\ jobs[k].at = "saved"
      BY <1>1, <1>4, <1>15, <2>2 DEF MailboxInv
    <3>2. /\ jobs[k].checkedAt \in Nat /\ jobs[k].savedAt \in Nat
          /\ jobs[k].checkedAt <= jobs[k].savedAt /\ jobs[k].savedAt <= now
      BY <3>1 DEF JobSound, JobRecords
    <3>3. Stamp(k)' <= jobs[k].savedAt
      BY <3>1, <3>2 DEF Stamp
    <3>4. CASE lastSign' >= jobs[k].savedAt
      BY <1>7, <3>1, <3>2, <3>3, <3>4 DEF Remembered, Stamp
    <3>5. CASE lastSign' < jobs[k].savedAt
      <4>1. j \in Runs /\ lastSign' = jobs[j].checkedAt
        BY <1>1, <1>5, <3>2, <3>5
      <4>2. PutBack(k, j)'
        BY <1>1, <1>2, <1>4, <1>6, <3>1, <3>2, <3>5, <4>1 DEF PutBack
      <4> QED BY <2>2, <4>1, <4>2 DEF Remembered
    <3> QED BY <1>7, <3>2, <3>4, <3>5
  <2> QED BY <2>1, <2>2
<1> QED BY <1>8, <1>10, <1>12, <1>13, <1>14, <1>15 DEF MailboxInv

-----------------------------------------------------------------------------
(* Everybody else.                                                         *)

\* Nobody but the mailbox confirms, and no vault goes back on its way.
LEMMA OthersDoNotConfirm ==
  ASSUME vault \in [Vaults -> VaultRecords], NEW v \in Vaults,
         \/ RaiseDispute(v) \/ FinalizeDelivered(v) \/ ResolveForCourier(v)
         \/ \E k \in Recoveries(v) : SlashingStep(v, k)
  PROVE  /\ vault' \in [Vaults -> VaultRecords]
         /\ \A w \in Vaults :
              /\ vault'[w].deliveredAt = vault[w].deliveredAt
              /\ vault[w].state # "PickedUp" => vault'[w].state # "PickedUp"
<1> DEFINE r == vault[v]
<1>1. r \in VaultRecords
  OBVIOUS
<1>2. ASSUME NEW s \in VaultRecords, vault' = [vault EXCEPT ![v] = s],
             s.deliveredAt = r.deliveredAt, r.state # "PickedUp" => s.state # "PickedUp"
      PROVE  /\ vault' \in [Vaults -> VaultRecords]
             /\ \A w \in Vaults :
                  /\ vault'[w].deliveredAt = vault[w].deliveredAt
                  /\ vault[w].state # "PickedUp" => vault'[w].state # "PickedUp"
  BY <1>2
<1>3. CASE RaiseDispute(v)
  <2> DEFINE s == [r EXCEPT !.disputed = TRUE]
  <2>1. s \in VaultRecords /\ s.deliveredAt = r.deliveredAt /\ s.state = r.state
    BY <1>1 DEF VaultRecords
  <2>2. vault' = [vault EXCEPT ![v] = s]
    BY <1>3 DEF RaiseDispute, Disputable
  <2> HIDE DEF s
  <2> QED BY <1>2, <2>1, <2>2
<1>4. ASSUME NEW q \in VaultRecords, q.deliveredAt = r.deliveredAt, PaidOut(v, q)
      PROVE  /\ vault' \in [Vaults -> VaultRecords]
             /\ \A w \in Vaults :
                  /\ vault'[w].deliveredAt = vault[w].deliveredAt
                  /\ vault[w].state # "PickedUp" => vault'[w].state # "PickedUp"
  <2> DEFINE s == [q EXCEPT !.finalized = TRUE, !.state = "Delivered",
                            !.toCourier = @ + q.balance, !.balance = 0]
  <2>1. q.toCourier + q.balance \in Nat
    BY DEF VaultRecords
  <2>2. s \in VaultRecords /\ s.deliveredAt = r.deliveredAt /\ s.state = "Delivered"
    BY <1>4, <2>1 DEF VaultRecords, State
  <2>3. vault' = [vault EXCEPT ![v] = s]
    BY <1>4 DEF PaidOut
  <2> HIDE DEF s
  <2> QED BY <1>2, <2>2, <2>3
<1>5. ASSUME NEW q \in VaultRecords, q.deliveredAt = r.deliveredAt, NEW k \in Nat,
             SlashedAndRefunded(v, q, k)
      PROVE  /\ vault' \in [Vaults -> VaultRecords]
             /\ \A w \in Vaults :
                  /\ vault'[w].deliveredAt = vault[w].deliveredAt
                  /\ vault[w].state # "PickedUp" => vault'[w].state # "PickedUp"
  <2> DEFINE s == [q EXCEPT !.finalized = TRUE, !.state = "Failed",
                            !.toBuyer = @ + q.balance + k, !.balance = 0]
  <2>1. q.toBuyer + q.balance + k \in Nat
    BY DEF VaultRecords
  <2>2. s \in VaultRecords /\ s.deliveredAt = r.deliveredAt /\ s.state = "Failed"
    BY <1>5, <2>1 DEF VaultRecords, State
  <2>3. vault' = [vault EXCEPT ![v] = s]
    BY <1>5 DEF SlashedAndRefunded
  <2> HIDE DEF s
  <2> QED BY <1>2, <2>2, <2>3
<1>6. CASE FinalizeDelivered(v)
  BY <1>1, <1>4, <1>6 DEF FinalizeDelivered, Finalizable
<1>7. CASE ResolveForCourier(v)
  <2> DEFINE q == [r EXCEPT !.ruling = "courier"]
  <2>1. q \in VaultRecords /\ q.deliveredAt = r.deliveredAt /\ PaidOut(v, q)
    BY <1>1, <1>7 DEF VaultRecords, ResolveForCourier
  <2> QED BY <1>4, <2>1
<1>8. ASSUME NEW k \in Recoveries(v), SlashingStep(v, k)
      PROVE  /\ vault' \in [Vaults -> VaultRecords]
             /\ \A w \in Vaults :
                  /\ vault'[w].deliveredAt = vault[w].deliveredAt
                  /\ vault[w].state # "PickedUp" => vault'[w].state # "PickedUp"
  <2>1. k \in Nat
    BY <1>1 DEF Recoveries, VaultRecords, Terms
  <2>2. CASE ResolveForBuyer(v, k)
    <3> DEFINE q == [r EXCEPT !.ruling = "buyer"]
    <3>1. q \in VaultRecords /\ q.deliveredAt = r.deliveredAt
          /\ SlashedAndRefunded(v, q, k)
      BY <1>1, <2>2 DEF VaultRecords, ResolveForBuyer
    <3> QED BY <1>5, <2>1, <3>1
  <2>3. CASE SlashOnDropoffTimeout(v, k)
    BY <1>1, <1>5, <2>1, <2>3 DEF SlashOnDropoffTimeout, DropoffTimedOut
  <2> QED BY <1>8, <2>2, <2>3 DEF SlashingStep
<1> QED BY <1>3, <1>6, <1>7, <1>8

LEMMA ElsewhereKeeps ==
  ASSUME MailboxInv, Elsewhere
  PROVE  MailboxInv'
<1>0. vault \in [Vaults -> VaultRecords] /\ now \in Nat \ {0}
  BY DEF MailboxInv, MailboxTypes
<1>1. /\ vault' \in [Vaults -> VaultRecords] /\ now' \in Nat \ {0} /\ now' >= now
      /\ \A w \in Vaults :
           /\ vault'[w].deliveredAt = vault[w].deliveredAt
           /\ vault[w].state # "PickedUp" => vault'[w].state # "PickedUp"
  <2>1. CASE Clock
    BY <1>0, <2>1 DEF Clock, TimePasses
  <2>2. ASSUME NEW v \in Vaults,
               \/ RaiseDispute(v) /\ AtOnce
               \/ FinalizeDelivered(v) /\ AtOnce
               \/ ResolveForCourier(v) /\ AtOnce
               \/ Slashing(v)
        PROVE  /\ vault' \in [Vaults -> VaultRecords] /\ now' = now
               /\ \A w \in Vaults :
                    /\ vault'[w].deliveredAt = vault[w].deliveredAt
                    /\ vault[w].state # "PickedUp" => vault'[w].state # "PickedUp"
    BY <1>0, <2>2, OthersDoNotConfirm DEF Slashing, AtOnce
  <2> QED BY <1>0, <2>1, <2>2 DEF Elsewhere
<1>2. jobs' = jobs /\ lastSign' = lastSign
  BY DEF Elsewhere
<1>3. MailboxTypes'
  BY <1>1, <1>2 DEF MailboxInv, MailboxTypes
<1>4. ASSUME NEW j \in Jobs PROVE JobSound(j, jobs[j])'
  <2>1. JobSound(j, jobs[j]) /\ jobs[j] \in JobRecords
    BY DEF MailboxInv, MailboxTypes
  <2> QED BY <1>0, <1>1, <1>2, <2>1 DEF JobSound, JobRecords
<1>5. ASSUME NEW j \in Jobs, jobs[j].at \in Signed PROVE OnChain(j)'
  <2>1. OnChain(j) /\ jobs[j].vault \in Vaults
    BY <1>5 DEF MailboxInv, JobSound
  <2> QED BY <1>1, <1>2, <2>1 DEF OnChain
<1>6. \A j \in Jobs : \A k \in Jobs \ {j} : Apart(j, k)'
  BY <1>2 DEF MailboxInv, Apart
<1>7. PauseHasACause'
  BY <1>2 DEF MailboxInv, PauseHasACause, Stamp
<1>8. \A k \in Jobs : (jobs[k].at = "saved" => Remembered(k))'
  BY <1>2 DEF MailboxInv, Remembered, PutBack, Stamp
<1> QED BY <1>2, <1>3, <1>4, <1>5, <1>6, <1>7, <1>8 DEF MailboxInv

LEMMA MailboxStep == MailboxInv /\ [MailboxNext]_mailboxVars => MailboxInv'
<1> SUFFICES ASSUME MailboxInv, [MailboxNext]_mailboxVars PROVE MailboxInv'
  OBVIOUS
<1>1. ASSUME NEW j \in Jobs, Job(j) PROVE MailboxInv'
  BY <1>1, CheckKeeps, ConsultedKeeps, MinedKeeps, RevertedKeeps, SaveKeeps DEF Job
<1>2. ASSUME NEW dying, Crash(dying) PROVE MailboxInv'
  BY <1>2, CrashKeeps
<1>3. CASE Elsewhere
  BY <1>3, ElsewhereKeeps
<1>4. CASE UNCHANGED mailboxVars
  <2>1. UNCHANGED <<vars, lastSign>> /\ jobs' = jobs
    BY <1>4 DEF mailboxVars
  <2>2. jobs' \in [Jobs -> JobRecords]
    BY <2>1 DEF MailboxInv, MailboxTypes
  <2> QED BY <2>1, <2>2, JobsMoveOn
<1> QED BY <1>1, <1>2, <1>3, <1>4 DEF MailboxNext

-----------------------------------------------------------------------------
(* What the mailbox guarantees.                                            *)

LEMMA MailboxInvHolds == MailboxSpec => []MailboxInv
BY MailboxStart, MailboxStep, PTL DEF MailboxSpec

\* However many runs and requests try the same code, and whatever is lost on
\* the way, one of them confirms a vault, at the time the contract records.
THEOREM AVaultIsConfirmedOnce == MailboxSpec => []ConfirmedOnce
<1>1. MailboxInv => ConfirmedOnce
  BY DEF MailboxInv, ConfirmedOnce, JobSound, OnChain, Apart
<1> QED BY <1>1, MailboxInvHolds, PTL

\* The shared file holds the time of a confirmation that was mined.
THEOREM ThePauseHasACause == MailboxSpec => []PauseHasACause
<1>1. MailboxInv => PauseHasACause
  BY DEF MailboxInv
<1> QED BY <1>1, MailboxInvHolds, PTL

\* No failure gets a confirmation past an anomaly: only the server does, when
\* the AI says yes or there is no key to ask it with.
THEOREM NoFailureConfirmsAnAnomaly == MailboxSpec => []NoFailurePassesSensors
<1>1. MailboxInv => NoFailurePassesSensors
  BY DEF MailboxInv, NoFailurePassesSensors, JobSound, Signed
<1> QED BY <1>1, MailboxInvHolds, PTL

\* The pause between confirmations, for every length of it, and the one way
\* it can be cut short.
THEOREM ThePauseIsKept == MailboxSpec => PausesAreKept
<1>1. ASSUME MailboxInv, [MailboxNext]_mailboxVars,
             NEW j \in Jobs, NEW k \in Jobs,
             jobs[j].at = "new", jobs'[j].at \in InFlight, jobs[k].at = "saved"
      PROVE  \/ now - Stamp(k) >= Pause
             \/ \E r \in Runs \ {k} : PutBack(k, r)
  <2>1. jobs \in [Jobs -> JobRecords] /\ now \in Nat /\ lastSign \in Nat
        /\ JobSound(k, jobs[k]) /\ Remembered(k)
    BY <1>1 DEF MailboxInv, MailboxTypes
  <2>2. Stamp(k) \in Nat /\ Stamp(k) > 0
    BY <1>1, <2>1 DEF JobSound, Stamp, JobRecords, Signed
  <2>3. ~RateLimited
    <3>1. CASE \E i \in Jobs : \E v \in Vaults : Check(i, v)
      <4>1. PICK i \in Jobs, v \in Vaults : Check(i, v)
        BY <3>1
      <4>2. CASE jobs' = [jobs EXCEPT ![i] = Over]
        <5>1. jobs'[j].at \in {"new", "over"}
          BY <1>1, <2>1, <4>2 DEF Over, NewJob
        <5> QED BY <1>1, <5>1 DEF InFlight
      <4> QED BY <4>1, <4>2 DEF Check
    <3>2. CASE \E i \in Jobs : Consulted(i) \/ Mined(i) \/ Reverted(i) \/ Save(i)
      <4>1. PICK i \in Jobs : Consulted(i) \/ Mined(i) \/ Reverted(i) \/ Save(i)
        BY <3>2
      <4>2. i # j
        BY <1>1, <4>1 DEF Consulted, Mined, Reverted, Save
      <4>3. jobs'[j] = jobs[j]
        BY <2>1, <4>1, <4>2 DEF Consulted, Mined, Reverted, Save
      <4> QED BY <1>1, <4>3 DEF InFlight
    <3>3. ASSUME NEW dying, Crash(dying) PROVE FALSE
      <4>1. jobs'[j] = jobs[j] \/ jobs'[j].at = "new"
        BY <1>1, <2>1, <3>3 DEF Crash, JobRecords
      <4> QED BY <1>1, <4>1 DEF InFlight
    <3>4. CASE Elsewhere \/ UNCHANGED mailboxVars
      BY <1>1, <3>4 DEF Elsewhere, mailboxVars, InFlight
    <3> QED BY <1>1, <3>1, <3>2, <3>3, <3>4 DEF MailboxNext, Job
  <2> QED BY <2>1, <2>2, <2>3 DEF Remembered, RateLimited
<1>2. MailboxInv /\ [MailboxNext]_mailboxVars =>
        [\A j, k \in Jobs :
           /\ jobs[j].at = "new" /\ jobs'[j].at \in InFlight
           /\ jobs[k].at = "saved"
           => \/ now - Stamp(k) >= Pause
              \/ \E r \in Runs \ {k} :
                   /\ jobs[r].at = "saved"
                   /\ jobs[r].checkedAt <= jobs[k].savedAt
                   /\ jobs[r].savedAt >= jobs[k].savedAt]_mailboxVars
  BY <1>1 DEF PutBack
<1> QED BY <1>2, MailboxInvHolds, PTL DEF MailboxSpec, PausesAreKept
=============================================================================
