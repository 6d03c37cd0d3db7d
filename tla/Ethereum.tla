------------------------------ MODULE Ethereum ------------------------------
(***************************************************************************)
(* What the contracts share of the chain they run on: the addresses that   *)
(* take part and the clock.  block.timestamp is in ticks: it starts at 1,  *)
(* because the pool reads 0 as "no request", and stops at a bound.         *)
(***************************************************************************)
EXTENDS Totals

CONSTANTS
    Accounts,           \* addresses that may become members of the pool
    Vaults,             \* addresses at which a DeliveryVault may be deployed
    MaxTime             \* bound: the last block.timestamp

ASSUME ChainConstants ==
    /\ IsFiniteSet(Accounts) /\ IsFiniteSet(Vaults)
    /\ MaxTime \in Nat \ {0}

VARIABLE now            \* block.timestamp

TimePasses == now < MaxTime /\ now' = now + 1
=============================================================================
