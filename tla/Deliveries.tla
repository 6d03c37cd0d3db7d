----------------------------- MODULE Deliveries -----------------------------
(***************************************************************************)
(* Delivery vaults on their own: whoever may call them does, in any order, *)
(* and the pool recovers anything up to the declared value from a slash.   *)
(*                                                                         *)
(* What a vault may ask of the pool depends on who made it.  The registry  *)
(* registers the vaults it spawns, for couriers who are members.  A vault  *)
(* deployed by hand is unknown to the pool, which then refuses reserve(),  *)
(* release() and slash() and with them every function that settles the     *)
(* vault, until the operator has registered it (registerVault, before its  *)
(* deployment or after) and admitted its courier.                          *)
(***************************************************************************)
EXTENDS DeliveryVault

CONSTANT Offers         \* the terms a vault may be deployed with

ASSUME DeliveryConstants == Offers \subseteq Terms

VARIABLE backing        \* what the pool knows of a vault and its courier

Backings == {"none", "unknown", "known", "spawned"}

vars == <<vault, backing, now>>

Init == VaultInit /\ now = 1 /\ backing = [v \in Vaults |-> "none"]

Recoveries(v) == 0..vault[v].terms.declaredValue

Answered(v) == backing[v] \in {"known", "spawned"}

AtOnce == UNCHANGED <<backing, now>>

\* By hand, or by the registry.
Deploy == \E v \in Vaults, t \in Offers, b \in Backings \ {"none"} :
    /\ IF b = "spawned" THEN SpawnVault(v, t) ELSE DeployVault(v, t)
    /\ backing' = [backing EXCEPT ![v] = b]
    /\ UNCHANGED now
\* The last of registerVault and admitMember that the vault was waiting for.
Register(v) ==
    /\ backing[v] = "unknown"
    /\ backing' = [backing EXCEPT ![v] = "known"]
    /\ UNCHANGED <<vault, now>>
Initialize(v) == InitializeVault(v) /\ Answered(v) /\ AtOnce
Quiet(v) == QuietStep(v) /\ AtOnce
Releasing(v) == ReleasingStep(v) /\ Answered(v) /\ AtOnce
Slashing(v) == Deployed(v) /\ \E r \in Recoveries(v) :
                  SlashingStep(v, r) /\ Answered(v) /\ AtOnce
Clock == TimePasses /\ UNCHANGED <<vault, backing>>

Next ==
    \/ Deploy
    \/ \E v \in Vaults :
         Register(v) \/ Initialize(v) \/ Quiet(v) \/ Releasing(v) \/ Slashing(v)
    \/ Clock

Spec == Init /\ [][Next]_vars

\* The functions anyone may call are called sooner or later: a keeper, or the
\* party the ether is due to, has every reason to.  The arbiter rules.
Keeper(v) ==
    \/ RefundOnPickupTimeout(v) \/ FinalizeDelivered(v)
    \/ Deployed(v) /\ \E r \in Recoveries(v) : SlashOnDropoffTimeout(v, r)
Arbiter(v) ==
    \/ ResolveForCourier(v)
    \/ Deployed(v) /\ \E r \in Recoveries(v) : ResolveForBuyer(v, r)

\* The calls go through for a spawned vault while the pool knows no vault but
\* the registry's.  One registered by hand may settle without a reservation:
\* release() then takes from activeValue what others have reserved, and a
\* slash() that finds too little left there reverts.
RegistryOnly == \A v \in Vaults : backing[v] # "known"
Sure(v) == backing[v] = "spawned" /\ RegistryOnly /\ AtOnce

FairSpec ==
    /\ Spec
    /\ WF_vars(Clock)
    /\ \A v \in Vaults : WF_vars(Sure(v) /\ Keeper(v)) /\ WF_vars(Sure(v) /\ Arbiter(v))

-----------------------------------------------------------------------------
(* Properties.                                                             *)

\* The storage of a vault keeps its types.
TypeOK ==
    /\ now \in Nat \ {0}
    /\ vault \in [Vaults -> VaultRecords \cup {NoVault}]
    /\ backing \in [Vaults -> Backings]
    /\ \A v \in Vaults : Deployed(v) <=> backing[v] # "none"

Friendly(v) == Deployed(v) /\ vault[v].terms.refuses = {}

\* The courier gets the fee only for a delivery the mailbox confirmed by the
\* dropoff deadline, and then only once the buyer can no longer object: the
\* window is over with no dispute, or the arbiter ruled for the courier.
CourierPaidWhenDue ==
    [][\A v \in Vaults : Pending(v) /\ vault'[v].toCourier > vault[v].toCourier =>
         LET r == vault'[v] IN
         /\ r.deliveredAt \in 1..r.terms.dropoffDeadline
         /\ IF r.disputed THEN r.ruling = "courier"
            ELSE now > r.deliveredAt + r.terms.disputeWindow
                 \/ r.terms.disputeWindow = 0]_vars

\* From the pickup to the dropoff deadline the delivery is committed: it can
\* end as delivered and in no other way, except by the arbiter's ruling on a
\* dispute after the mailbox confirmed ("no cancellation between PickedUp and
\* dropoffDeadline").
PickupCommits ==
    [][\A v \in Vaults :
         /\ Pending(v) /\ vault'[v].finalized
         /\ vault[v].state \in {"PickedUp", "Delivered"}
         /\ now <= vault[v].terms.dropoffDeadline
         => vault'[v].state = "Delivered" \/ vault'[v].ruling = "buyer"]_vars

\* The deadlines of a delivery under way neither overlap nor leave a gap, so
\* the paired comparisons `<=' and `>' of six functions add up.  As long
\* as it is not picked up the buyer can cancel, paid in or not, and so may race
\* a pickup or a timeout; from the tick after the pickup deadline on anyone can
\* time it out, and until then the courier can pick it up exactly if it is paid
\* for.  After the pickup the buyer cannot cancel, and it can be confirmed or
\* slashed, never both; once delivered it can be disputed or paid for, never
\* both, unless it is disputed, when the arbiter decides.
WaysForward ==
    \A v \in Vaults : Pending(v) =>
        LET r == vault[v] IN
        \/ /\ r.state = "Funded" /\ ~r.disputed /\ Cancellable(v)
           /\ PickupTimedOut(v) <=> now > r.terms.pickupDeadline
           /\ CanPickUp(v) <=> r.funded /\ ~PickupTimedOut(v)
        \/ /\ r.state = "PickedUp" /\ ~r.disputed /\ ~Cancellable(v)
           /\ Confirmable(v) # DropoffTimedOut(v)
        \/ /\ r.state = "Delivered" /\ r.deliveredAt \in 1..now /\ ~Cancellable(v)
           /\ r.disputed \/ Disputable(v) # Finalizable(v)

\* Ether can be stranded in a finalized vault in one way only: the buyer's
\* own deposit that arrives after a refund, which "cancel before pickup (full
\* refund)" (buyer_cli.js:27) does not expect.  A delivered or failed vault is
\* always empty.
StrandedOnlyByLateDeposit ==
    \A v \in Vaults : Deployed(v) /\ vault[v].finalized /\ vault[v].balance > 0
        => /\ vault[v].state = "Refunded"
           /\ vault[v].balance = vault[v].terms.courierFee
           /\ vault[v].toBuyer = 0

\* Every delivery the registry spawned, and whose parties accept ether, is
\* settled, whatever the buyer, the courier and the mailbox fail to do; unless
\* the operator registers vaults of other making.  Those may never settle.
EveryDeliverySettles ==
    \A v \in Vaults : Friendly(v) /\ backing[v] = "spawned" ~>
        (RegistryOnly => Deployed(v) /\ vault[v].finalized)

\* What an escrow shows of a vault.
OutcomeOf(r) ==
    IF ~r.finalized THEN "open"
    ELSE CASE r.state = "Delivered" -> "courier"
           [] r.state = "Refunded" -> "buyer"
           [] OTHER -> "compensated"

agreedFee == [v \in Vaults |-> IF Deployed(v) THEN vault[v].terms.courierFee ELSE NoVault]
feeLocked == [v \in Vaults |-> IF Deployed(v) THEN vault[v].funded ELSE FALSE]
outcomes  == [v \in Vaults |-> IF Deployed(v) THEN OutcomeOf(vault[v]) ELSE "open"]
etherHeld == [v \in Vaults |-> IF Deployed(v) THEN vault[v].balance ELSE 0]
paidOut   == [v \in Vaults |-> IF Deployed(v) THEN vault[v].toCourier ELSE 0]
repaid    == [v \in Vaults |-> IF Deployed(v) THEN vault[v].toBuyer ELSE 0]

\* The vaults keep the escrow's promise: each decides its outcome once, and
\* moves all it holds to the party that outcome names in the same step.
E == INSTANCE Escrow WITH
    NoFee <- NoVault, fee <- agreedFee, locked <- feeLocked,
    outcome <- outcomes, held <- etherHeld,
    courierGot <- paidOut, buyerGot <- repaid
KeepsEscrowPromise == E!EscrowSpec

=============================================================================
