---------------------------- MODULE DeliveryVault ---------------------------
(***************************************************************************)
(* contracts/DeliveryVault.sol: the escrow of one delivery, for every vault *)
(* address at once.  A vault is a record with the contract's storage, its   *)
(* constructor parameters (terms) and what the chain's log keeps of it: the *)
(* ether sent to the courier's payout address and to the buyer (Payout and  *)
(* Refund events) and the arbiter's ruling (DisputeResolved).               *)
(*                                                                          *)
(* Every external function is an action.  The caller a require names        *)
(* (buyer, courier, mailbox, arbiter) is the party that takes the action;   *)
(* "anyone" functions have no such party.  A party who reveals a code knows *)
(* its preimage.  The pool answers slash() with the ether it recovers,      *)
(* which the slashing actions take as a parameter; what release() and       *)
(* slash() do to the pool is in StakingPool.  A definition marked "Bug:" is *)
(* a plausible mistake in the one after it, which nothing uses.             *)
(***************************************************************************)
EXTENDS Ethereum

CONSTANT NoVault        \* nothing is deployed at the address yet

VARIABLE vault

State == {"Funded", "PickedUp", "Delivered", "Refunded", "Failed"}
Parties == {"courier", "buyer"}

\* Constructor parameters.  refuses: parties whose address rejects ether, so
\* that a call that sends them some reverts.
Terms == [courier : Accounts, declaredValue : Nat, courierFee : Nat,
          pickupDeadline : Nat, dropoffDeadline : Nat, disputeWindow : Nat,
          refuses : SUBSET Parties]

\* The storage of a vault.
VaultRecords ==
    [state : State, finalized : BOOLEAN, funded : BOOLEAN, deliveredAt : Nat,
     disputed : BOOLEAN, initialized : BOOLEAN, balance : Nat,
     toCourier : Nat, toBuyer : Nat, ruling : {"none", "courier", "buyer"},
     terms : Terms]

ASSUME VaultConstants == NoVault \notin VaultRecords \cup Nat

Fresh(t) ==
    [state |-> "Funded", finalized |-> FALSE, funded |-> FALSE,
     deliveredAt |-> 0, disputed |-> FALSE, initialized |-> FALSE,
     balance |-> 0, toCourier |-> 0, toBuyer |-> 0, ruling |-> "none",
     terms |-> t]

VaultInit == vault = [v \in Vaults |-> NoVault]

Deployed(v) == vault[v] # NoVault

-----------------------------------------------------------------------------
(* Deployment and funding.                                                 *)

Constructible(t) ==
    /\ t.declaredValue > 0
    /\ t.courierFee > 0
    /\ t.pickupDeadline > now
    /\ t.dropoffDeadline > t.pickupDeadline

DeployVault(v, t) ==
    /\ ~Deployed(v)
    /\ Constructible(t)
    /\ vault' = [vault EXCEPT ![v] = Fresh(t)]

\* The caller's reserve() must succeed with it.
InitializeVault(v) ==
    /\ Deployed(v) /\ ~vault[v].initialized
    /\ vault' = [vault EXCEPT ![v].initialized = TRUE]

\* Bug: the new vault is not initialised.
SpawnUninitialized(v, t) ==
    /\ ~Deployed(v)
    /\ Constructible(t)
    /\ vault' = [vault EXCEPT ![v] = Fresh(t)]
\* _accept() deploys and initialises in one transaction.
SpawnVault(v, t) ==
    /\ ~Deployed(v)
    /\ Constructible(t)
    /\ vault' = [vault EXCEPT ![v] = [Fresh(t) EXCEPT !.initialized = TRUE]]

\* The buyer pays the fee in, once; nothing looks at state or finalized.
Fund(v) ==
    /\ Deployed(v) /\ ~vault[v].funded
    /\ vault' = [vault EXCEPT ![v].funded = TRUE,
                              ![v].balance = @ + vault[v].terms.courierFee]

-----------------------------------------------------------------------------
(* How a delivery ends.                                                    *)

Pending(v) == Deployed(v) /\ ~vault[v].finalized

Accepts(v, party, amount) == amount = 0 \/ party \notin vault[v].terms.refuses

\* The payment is a call even when it is empty, so it can be refused.
\* Bug: the balance is sent but the vault is not marked finalized.
PaidOutUnmarked(v, r) ==
    /\ "courier" \notin r.terms.refuses
    /\ vault' = [vault EXCEPT ![v] =
         [r EXCEPT !.state = "Delivered", !.toCourier = @ + r.balance, !.balance = 0]]

\* Bug: pays the declared value instead of the balance.
PaidOutDeclaredValue(v, r) ==
    /\ "courier" \notin r.terms.refuses
    /\ vault' = [vault EXCEPT ![v] =
         [r EXCEPT !.finalized = TRUE, !.state = "Delivered",
                   !.toCourier = @ + r.terms.declaredValue,
                   !.balance = @ - r.terms.declaredValue]]

\* _payout() on the storage r the caller leaves.
PaidOut(v, r) ==
    /\ "courier" \notin r.terms.refuses
    /\ vault' = [vault EXCEPT ![v] =
         [r EXCEPT !.finalized = TRUE, !.state = "Delivered",
                   !.toCourier = @ + r.balance, !.balance = 0]]

Refunded(v) ==
    LET r == vault[v]
    IN  /\ Accepts(v, "buyer", r.balance)
        /\ vault' = [vault EXCEPT ![v] =
             [r EXCEPT !.finalized = TRUE, !.state = "Refunded",
                       !.toBuyer = @ + r.balance, !.balance = 0]]

\* Bug: the recovered stake stays in the vault.
SlashedAndKept(v, r, recovered) ==
    /\ Accepts(v, "buyer", r.balance + recovered)
    /\ vault' = [vault EXCEPT ![v] =
         [r EXCEPT !.finalized = TRUE, !.state = "Failed",
                   !.toBuyer = @ + r.balance, !.balance = recovered]]

\* _slashAndRefund() on the storage r the caller leaves.
SlashedAndRefunded(v, r, recovered) ==
    /\ Accepts(v, "buyer", r.balance + recovered)
    /\ vault' = [vault EXCEPT ![v] =
         [r EXCEPT !.finalized = TRUE, !.state = "Failed",
                   !.toBuyer = @ + r.balance + recovered, !.balance = 0]]

-----------------------------------------------------------------------------
(* What the functions with a deadline require.  Each compares the clock for *)
(* itself, as the source does.                                             *)

\* Bug: the buyer's deposit is not asked for.
CanPickUpUnfunded(v) ==
    /\ Pending(v) /\ vault[v].state = "Funded"
    /\ now <= vault[v].terms.pickupDeadline
CanPickUp(v) ==
    /\ Pending(v) /\ vault[v].state = "Funded" /\ vault[v].funded
    /\ now <= vault[v].terms.pickupDeadline

\* Bug: only a funded delivery can time out.
PickupTimedOutIfFunded(v) ==
    /\ Pending(v) /\ vault[v].state = "Funded" /\ vault[v].funded
    /\ now > vault[v].terms.pickupDeadline
PickupTimedOut(v) ==
    /\ Pending(v) /\ vault[v].state = "Funded"
    /\ now > vault[v].terms.pickupDeadline

Cancellable(v) == Pending(v) /\ vault[v].state = "Funded"

\* Bug: the state is not looked at.
ConfirmableAgain(v) ==
    /\ Pending(v)
    /\ now <= vault[v].terms.dropoffDeadline
Confirmable(v) ==
    /\ Pending(v) /\ vault[v].state = "PickedUp"
    /\ now <= vault[v].terms.dropoffDeadline

\* Bug: slashes at the deadline, while the mailbox may still confirm.
DropoffTimedOutAtDeadline(v) ==
    /\ Pending(v) /\ vault[v].state = "PickedUp"
    /\ now >= vault[v].terms.dropoffDeadline
DropoffTimedOut(v) ==
    /\ Pending(v) /\ vault[v].state = "PickedUp"
    /\ now > vault[v].terms.dropoffDeadline

Disputable(v) ==
    /\ Pending(v) /\ vault[v].state = "Delivered"
    /\ vault[v].terms.disputeWindow > 0
    /\ now <= vault[v].deliveredAt + vault[v].terms.disputeWindow
    /\ ~vault[v].disputed

\* Bug: a dispute does not hold the payment back.
FinalizableDisputed(v) ==
    /\ Pending(v) /\ vault[v].state = "Delivered"
    /\ vault[v].terms.disputeWindow > 0
    /\ now > vault[v].deliveredAt + vault[v].terms.disputeWindow
Finalizable(v) ==
    /\ Pending(v) /\ vault[v].state = "Delivered"
    /\ vault[v].terms.disputeWindow > 0
    /\ now > vault[v].deliveredAt + vault[v].terms.disputeWindow
    /\ ~vault[v].disputed

-----------------------------------------------------------------------------
(* The courier, the mailbox and the buyer, in the order of a delivery.     *)

Pickup(v) == CanPickUp(v) /\ vault' = [vault EXCEPT ![v].state = "PickedUp"]

\* confirmDelivery with a dispute window: the payment waits.
ConfirmDelivery(v) ==
    /\ Confirmable(v)
    /\ vault[v].terms.disputeWindow > 0
    /\ vault' = [vault EXCEPT ![v].state = "Delivered", ![v].deliveredAt = now]

\* confirmDelivery without one: the payment is part of the call.
ConfirmAndPay(v) ==
    /\ Confirmable(v)
    /\ vault[v].terms.disputeWindow = 0
    /\ PaidOut(v, [vault[v] EXCEPT !.deliveredAt = now])

RaiseDispute(v) == Disputable(v) /\ vault' = [vault EXCEPT ![v].disputed = TRUE]

\* resolveDispute(true) and resolveDispute(false), by pool.operator().
ResolveForCourier(v) ==
    /\ Pending(v) /\ vault[v].disputed
    /\ PaidOut(v, [vault[v] EXCEPT !.ruling = "courier"])
ResolveForBuyer(v, recovered) ==
    /\ Pending(v) /\ vault[v].disputed
    /\ SlashedAndRefunded(v, [vault[v] EXCEPT !.ruling = "buyer"], recovered)

FinalizeDelivered(v) == Finalizable(v) /\ PaidOut(v, vault[v])

-----------------------------------------------------------------------------
(* Timeouts and the buyer's cancellation.                                  *)

RefundOnPickupTimeout(v) == PickupTimedOut(v) /\ Refunded(v)

SlashOnDropoffTimeout(v, recovered) ==
    DropoffTimedOut(v) /\ SlashedAndRefunded(v, vault[v], recovered)

\* Bug: the buyer may still cancel after the pickup.
CancelAnyTime(v) ==
    /\ Pending(v)
    /\ vault[v].state \in {"Funded", "PickedUp"}
    /\ Refunded(v)
CancelByBuyerPrePickup(v) == Cancellable(v) /\ Refunded(v)

-----------------------------------------------------------------------------
(* The steps by what they ask of the pool.                                 *)

QuietStep(v) == Fund(v) \/ Pickup(v) \/ ConfirmDelivery(v) \/ RaiseDispute(v)

ReleasingStep(v) ==
    \/ ConfirmAndPay(v) \/ ResolveForCourier(v) \/ FinalizeDelivered(v)
    \/ RefundOnPickupTimeout(v) \/ CancelByBuyerPrePickup(v)

SlashingStep(v, recovered) ==
    ResolveForBuyer(v, recovered) \/ SlashOnDropoffTimeout(v, recovered)
=============================================================================
