------------------------------- MODULE Escrow -------------------------------
(***************************************************************************)
(* What an escrow promises, without deadlines, codes or disputes: the fee  *)
(* is locked at most once, the delivery's outcome is decided once, and the *)
(* decision hands everything that is held, and for a failed delivery the   *)
(* compensation on top, to one party in one step.  Later deposits are not   *)
(* promised to come back.                                                   *)
(***************************************************************************)
EXTENDS Integers

CONSTANTS Vaults, NoFee

VARIABLES
    fee,        \* the agreed fee, NoFee until there is an escrow
    locked,     \* the buyer has paid the fee in
    outcome,    \* "open", then "courier", "buyer" or "compensated"
    held,       \* ether in escrow
    courierGot, buyerGot

escrowVars == <<fee, locked, outcome, held, courierGot, buyerGot>>

EscrowInit ==
    /\ fee = [v \in Vaults |-> NoFee]
    /\ locked = [v \in Vaults |-> FALSE]
    /\ outcome = [v \in Vaults |-> "open"]
    /\ held = [v \in Vaults |-> 0]
    /\ courierGot = [v \in Vaults |-> 0]
    /\ buyerGot = [v \in Vaults |-> 0]

Agree(v) ==
    /\ fee[v] = NoFee
    /\ fee'[v] \in Nat \ {0}
    /\ fee' = [fee EXCEPT ![v] = fee'[v]]
    /\ UNCHANGED <<locked, outcome, held, courierGot, buyerGot>>

Lock(v) ==
    /\ fee[v] # NoFee /\ ~locked[v]
    /\ locked' = [locked EXCEPT ![v] = TRUE]
    /\ held' = [held EXCEPT ![v] = @ + fee[v]]
    /\ UNCHANGED <<fee, outcome, courierGot, buyerGot>>

\* The courier is paid only out of a fee that is locked.
PayCourier(v) ==
    /\ fee[v] # NoFee /\ outcome[v] = "open" /\ locked[v]
    /\ outcome' = [outcome EXCEPT ![v] = "courier"]
    /\ courierGot' = [courierGot EXCEPT ![v] = fee[v]]
    /\ held' = [held EXCEPT ![v] = 0]
    /\ UNCHANGED <<fee, locked, buyerGot>>

RepayBuyer(v) ==
    /\ fee[v] # NoFee /\ outcome[v] = "open"
    /\ outcome' = [outcome EXCEPT ![v] = "buyer"]
    /\ buyerGot' = [buyerGot EXCEPT ![v] = IF locked[v] THEN fee[v] ELSE 0]
    /\ held' = [held EXCEPT ![v] = 0]
    /\ UNCHANGED <<fee, locked, courierGot>>

\* A failed delivery was a funded one: the fee comes back in full, with
\* whatever the pool could recover.
CompensateBuyer(v) ==
    /\ fee[v] # NoFee /\ outcome[v] = "open" /\ locked[v]
    /\ outcome' = [outcome EXCEPT ![v] = "compensated"]
    /\ buyerGot'[v] >= fee[v]
    /\ buyerGot' = [buyerGot EXCEPT ![v] = buyerGot'[v]]
    /\ held' = [held EXCEPT ![v] = 0]
    /\ UNCHANGED <<fee, locked, courierGot>>

EscrowNext == \E v \in Vaults :
    Agree(v) \/ Lock(v) \/ PayCourier(v) \/ RepayBuyer(v) \/ CompensateBuyer(v)

EscrowSpec == EscrowInit /\ [][EscrowNext]_escrowVars
=============================================================================
