---------------------------- MODULE PoolClients -----------------------------
(***************************************************************************)
(* The staking pool together with the least a pool may assume of the       *)
(* delivery vaults that call it (contracts/DeliveryVault.sol): a vault     *)
(* reserves once, in initialize(), and later settles once, by release() or *)
(* by slash(), always for its own courier and its own declared value.      *)
(*                                                                         *)
(* A vault the registry spawns registers and reserves in the transaction   *)
(* that creates it.  A vault in ManualVaults is deployed by hand and       *)
(* registered by the operator (registerVault), so it may settle before     *)
(* its deployer has called initialize(), and its deployer may call it even *)
(* then: nothing in the vault demands the one or forbids the other.        *)
(***************************************************************************)
EXTENDS StakingPool

CONSTANTS
    NoAccount,          \* a vault not yet deployed has no courier
    Amounts,            \* the stakes members move
    Values,             \* the declared values of packages
    ManualVaults        \* vaults the operator registers by hand

ASSUME ClientConstants ==
    /\ NoAccount \notin Accounts
    /\ Amounts \subseteq Nat \ {0}
    /\ Values \subseteq Nat \ {0}       \* "Vault: zero value"
    /\ ManualVaults \subseteq Vaults

VARIABLES
    claim,              \* the vault's standing with the pool
    courierOf,          \* DeliveryVault.courier
    valueOf             \* DeliveryVault.declaredValue

clientVars == <<claim, courierOf, valueOf>>
vars == <<poolVars, clientVars, now>>

\* A lapsed vault settled before it was initialised.
Standing == {"none", "deployed", "open", "settled", "lapsed"}

Init ==
    /\ PoolInit
    /\ now = 1
    /\ claim = [v \in Vaults |-> "none"]
    /\ courierOf = [v \in Vaults |-> NoAccount]
    /\ valueOf = [v \in Vaults |-> 0]

-----------------------------------------------------------------------------
(* The pool's own callers.                                                 *)

Quiet == UNCHANGED <<clientVars, now>>

Admit == \E a \in Accounts : AdmitMember(a) /\ Quiet
Appoint == \E f \in Factories \cup {NoFactory} : SetFactory(f) /\ Quiet
Deposit == \E a \in Accounts, n \in Amounts : DepositStake(a, n) /\ Quiet
Ask == \E a \in Accounts, n \in Amounts : RequestWithdraw(a, n) /\ Quiet
Withdraw(a) == FinalizeWithdraw(a) /\ Quiet
Clock == TimePasses /\ UNCHANGED <<poolVars, clientVars>>

-----------------------------------------------------------------------------
(* Vaults.                                                                 *)

SetClaim(v, standing, courier, value) ==
    /\ claim' = [claim EXCEPT ![v] = standing]
    /\ courierOf' = [courierOf EXCEPT ![v] = courier]
    /\ valueOf' = [valueOf EXCEPT ![v] = value]
    /\ UNCHANGED now

\* MarketplaceRegistry._accept: deploy, registerByFactory, initialize.
Spawn(v, courier, value) ==
    /\ v \in Vaults \ ManualVaults
    /\ claim[v] = "none"
    /\ \E f \in Factories : RegisterAndReserve(f, v, courier, value)
    /\ SetClaim(v, "open", courier, value)

\* Somebody deploys a vault of their own; nothing binds its courier yet.
Deploy(v, courier, value) ==
    /\ v \in ManualVaults
    /\ claim[v] = "none"
    /\ SetClaim(v, "deployed", courier, value)
    /\ UNCHANGED poolVars

OperatorRegisters(v) ==
    /\ v \in ManualVaults
    /\ RegisterVault(v) /\ Quiet

\* initialize() does not ask whether the vault has settled: what it reserves
\* then is never released.
Initialize(v) ==
    /\ claim[v] \in {"deployed", "lapsed"}
    /\ Reserve(v, courierOf[v], valueOf[v])
    /\ SetClaim(v, IF claim[v] = "deployed" THEN "open" ELSE "settled",
                courierOf[v], valueOf[v])

\* A vault settles whether or not it was initialised.
Settles(v) ==
    /\ claim[v] \in {"deployed", "open"}
    /\ claim' = [claim EXCEPT ![v] = IF @ = "open" THEN "settled" ELSE "lapsed"]
    /\ UNCHANGED <<courierOf, valueOf, now>>

\* _payout() and _refund().
SettleByRelease(v) == Settles(v) /\ Release(v, courierOf[v], valueOf[v])
\* _slashAndRefund().
SettleBySlash(v) == Settles(v) /\ Slash(v, courierOf[v], valueOf[v])

Open == \E v \in Vaults, a \in Accounts, n \in Values :
            Spawn(v, a, n) \/ Deploy(v, a, n)
VaultStep == \E v \in Vaults :
    \/ OperatorRegisters(v)
    \/ Initialize(v)
    \/ SettleByRelease(v)
    \/ SettleBySlash(v)

Next ==
    \/ Admit \/ Appoint \/ Deposit \/ Ask
    \/ \E a \in Accounts : Withdraw(a)
    \/ Open \/ VaultStep
    \/ Clock

Spec == Init /\ [][Next]_vars

\* Time passes, and whoever asked for their stake collects it once it is due.
FairSpec == Spec /\ WF_vars(Clock)
                 /\ \A a \in Accounts : WF_vars(Withdraw(a))

-----------------------------------------------------------------------------
(* Properties.                                                             *)

OpenClaims(a) == {v \in Vaults : claim[v] = "open" /\ courierOf[v] = a}

\* Stakes, reservations, requests and claims stay in their types: a stake is
\* held by members only, a request has an amount exactly while it is pending.
TypeOK ==
    /\ memberList \in Seq(Accounts)
    /\ contribution \in [Accounts -> Nat]
    /\ reserved \in [Accounts -> Nat]
    /\ withdrawReqAt \in [Accounts -> Nat]
    /\ withdrawReqAmt \in [Accounts -> Nat]
    /\ \A a \in Accounts \ Members : contribution[a] = 0
    /\ \A a \in Accounts : withdrawReqAt[a] = 0 <=> withdrawReqAmt[a] = 0
    /\ totalStake \in Nat /\ activeValue \in Nat /\ balance \in Nat
    /\ registeredVaults \subseteq Vaults
    /\ factory \in Factories \cup {NoFactory}
    /\ now \in Nat \ {0}
    /\ claim \in [Vaults -> Standing]
    /\ courierOf \in [Vaults -> Accounts \cup {NoAccount}]
    /\ valueOf \in [Vaults -> Nat]

\* The pool can always pay everyone back: its ether, the total it books and
\* the sum of the members' stakes are the same number, whatever slashes,
\* dust and clamped withdrawals came before.
Solvency ==
    /\ balance = totalStake
    /\ totalStake = Total(contribution, Accounts)

\* The books agree with the vaults: a member's reservation is the sum of the
\* declared values of the open deliveries they carry, and activeValue is the
\* sum of the reservations ("sum of currently-reserved delivery values").
ReservationLedger ==
    /\ \A a \in Accounts : reserved[a] = Total(valueOf, OpenClaims(a))
    /\ activeValue = Total(reserved, Accounts)

\* A delivery that holds a reservation can always be settled either way: its
\* slash() never reverts for lack of stake, of booked value or of ether, even
\* after withdrawals, other slashes or the factory's dismissal.
OpenClaimCanSettle ==
    \A v \in Vaults : claim[v] = "open" =>
        /\ v \in registeredVaults
        /\ courierOf[v] \in Members
        /\ SlashFits(courierOf[v], valueOf[v])

\* What the view freeCapacityFor() promises is what reserve() grants: the
\* registry checks the one and relies on the other in the same transaction.
FreeCapacityIsReservable ==
    \A a \in Accounts, n \in 1..MaxStake :
        n <= FreeCapacityFor(a) <=> Reservable(a, n)

\* What a step takes from a's stake, and the settlement of v that pays out.
Loss(a) == contribution[a] - contribution'[a]
SlashOf(v) ==
    /\ claim[v] \in {"deployed", "open"} /\ claim'[v] \in {"settled", "lapsed"}
    /\ balance' < balance

\* The step that ends a's request for withdrawal.
PaymentOf(a) == withdrawReqAt[a] # 0 /\ withdrawReqAt'[a] = 0

\* Another member's stake is touched only once the courier at fault has
\* nothing left ("their personal contribution is slashed first").
CourierPaysFirst ==
    [][\A v \in Vaults : SlashOf(v) =>
         \A a \in Accounts \ {courierOf[v]} :
             Loss(a) > 0 => contribution'[courierOf[v]] = 0]_vars

\* The others share the shortfall in proportion to their stakes: nobody pays
\* less than their share rounded down, and nobody, the sweeper of the dust
\* included, pays more than their exact share and one wei per other payer.
SharedProRata ==
    [][\A v \in Vaults : SlashOf(v) =>
         LET c == courierOf[v]
             owed == Take(c, valueOf[v])
             n == Cardinality(Others(c))
         IN  Base(c) > 0 => \A a \in Others(c) :
                /\ (Loss(a) + 1) * Base(c) > owed * contribution[a]
                /\ (Loss(a) - (n - 1)) * Base(c) <= owed * contribution[a]]_vars

\* A slash pays the vault its declared value, or all the pool has.  It falls
\* short only when the last other member on the list, who sweeps the dust, had
\* too little left to sweep it, and by less than one wei per other member.
SlashMakesWhole ==
    [][\A v \in Vaults : SlashOf(v) =>
         LET paid == balance - balance'
             due == Least(valueOf[v], totalStake)
         IN  /\ paid <= due
             /\ paid < due =>
                  /\ due - paid < Cardinality(Others(courierOf[v]))
                  /\ \E i \in DOMAIN memberList :
                        /\ memberList[i] # courierOf[v]
                        /\ contribution'[memberList[i]] = 0
                        /\ \A j \in DOMAIN memberList :
                             j > i => memberList[j] = courierOf[v]]_vars

\* Only a matured withdrawal may take the pool's backing below the value it
\* has promised: every other step, a slash included, keeps
\* activeValue <= totalStake.
CapacityLostOnlyByWithdrawal ==
    [][ activeValue <= totalStake
        => \/ activeValue' <= totalStake'
           \/ \E a \in Accounts : PaymentOf(a)
      ]_vars

\* A member's stake shrinks in two kinds of step only: the payment of that
\* member's own request, or the slash of some vault, which costs the pool no
\* more than that vault's declared value.  A payment comes after the delay,
\* pays out what the member's stake loses, at most what was asked for, and
\* takes nothing from anyone else's stake.
StakeLeavesByPaymentOrSlash ==
    [][\A a \in Accounts :
         /\ Loss(a) > 0 =>
              \/ PaymentOf(a)
              \/ \E v \in Vaults : SlashOf(v) /\ balance - balance' <= valueOf[v]
         /\ PaymentOf(a) =>
              /\ balance - balance' = Loss(a)
              /\ Loss(a) <= withdrawReqAmt[a]
              /\ now - withdrawReqAt[a] >= WithdrawalDelay
              /\ \A b \in Accounts \ {a} : Loss(b) = 0]_vars

\* A request for withdrawal is never stuck: slashes that eat the stake in the
\* meantime shrink the payment, possibly to nothing, and do not block it.
WithdrawalCompletes ==
    \A a \in Accounts : withdrawReqAt[a] # 0 ~> withdrawReqAt[a] = 0

-----------------------------------------------------------------------------
(* What the source says of itself and the code does not keep.              *)

\* StakingPool.sol:12, "activeValue <= totalStake at all times".
CapacityAtAllTimes == activeValue <= totalStake
=============================================================================
