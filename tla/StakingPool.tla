---------------------------- MODULE StakingPool -----------------------------
(***************************************************************************)
(* contracts/StakingPool.sol: the collateral the couriers share.           *)
(*                                                                         *)
(* Every external function is one action over the pool's storage: a        *)
(* transaction is atomic, a failed require or a checked-arithmetic revert  *)
(* is a disabled action.  Functions only a vault may call take the vault   *)
(* as their first argument; the modules that compose the pool say when a   *)
(* vault makes the call.  uint256 never wraps: Solidity 0.8 reverts, so a  *)
(* subtraction carries "no underflow" as a guard, and MaxStake keeps sums  *)
(* far from 2^256 as the supply of ether does.                             *)
(*                                                                         *)
(* A definition marked "Bug:" is a plausible mistake in the one after it.   *)
(* Nothing uses it: putting it in that one's place must break a property,   *)
(* which shows that the property watches the code.                          *)
(***************************************************************************)
EXTENDS Ethereum, Sequences, Functions

CONSTANTS
    Factories,          \* addresses setFactory may be given
    NoFactory,          \* address(0)
    WithdrawalDelay,    \* withdrawalDelay, in ticks of the clock
    MemberCapBps,       \* memberCapBps
    MaxStake            \* bound: the pool never holds more

ASSUME PoolConstants ==
    /\ NoFactory \notin Factories
    /\ WithdrawalDelay \in Nat
    /\ MemberCapBps \in Nat \ {0}
    /\ MaxStake \in Nat

VARIABLES
    memberList,         \* admitted members, in the order of admission
    contribution,       \* members[a].contribution
    reserved,           \* members[a].reserved
    withdrawReqAt,      \* members[a].withdrawReqAt; 0 = none
    withdrawReqAmt,     \* members[a].withdrawReqAmt
    totalStake,
    activeValue,
    registeredVaults,
    factory,
    balance             \* the ether the contract holds

stakes  == <<contribution, totalStake, balance>>
claims  == <<reserved, activeValue>>
asks    == <<withdrawReqAt, withdrawReqAmt>>
admin   == <<memberList, registeredVaults, factory>>
poolVars == <<stakes, claims, asks, admin>>

Members == Range(memberList)
Others(courier) == Members \ {courier}

MemberCap(stake) == (stake * MemberCapBps) \div 10000

PoolInit ==
    /\ memberList = <<>>
    /\ contribution = [a \in Accounts |-> 0]
    /\ reserved = [a \in Accounts |-> 0]
    /\ withdrawReqAt = [a \in Accounts |-> 0]
    /\ withdrawReqAmt = [a \in Accounts |-> 0]
    /\ totalStake = 0 /\ activeValue = 0 /\ balance = 0
    /\ registeredVaults = {}
    /\ factory = NoFactory

-----------------------------------------------------------------------------
(* Operator.                                                               *)

AdmitMember(a) ==
    /\ a \notin Members
    /\ memberList' = Append(memberList, a)
    /\ UNCHANGED <<stakes, claims, asks, registeredVaults, factory>>

RegisterVault(v) ==
    /\ v \notin registeredVaults
    /\ registeredVaults' = registeredVaults \cup {v}
    /\ UNCHANGED <<stakes, claims, asks, memberList, factory>>

SetFactory(f) ==
    /\ factory' = f
    /\ UNCHANGED <<stakes, claims, asks, memberList, registeredVaults>>

-----------------------------------------------------------------------------
(* Members.                                                                *)

DepositStake(a, amount) ==
    /\ a \in Members
    /\ amount > 0
    /\ totalStake + amount <= MaxStake          \* bound
    /\ contribution' = [contribution EXCEPT ![a] = @ + amount]
    /\ totalStake' = totalStake + amount
    /\ balance' = balance + amount
    /\ UNCHANGED <<claims, asks, admin>>

RequestWithdraw(a, amount) ==
    /\ a \in Members
    /\ amount > 0 /\ amount <= contribution[a]
    /\ withdrawReqAt[a] = 0
    /\ activeValue <= totalStake - amount
    /\ reserved[a] <= MemberCap(contribution[a] - amount)
    /\ now + WithdrawalDelay <= MaxTime         \* bound: it can mature
    /\ withdrawReqAt' = [withdrawReqAt EXCEPT ![a] = now]
    /\ withdrawReqAmt' = [withdrawReqAmt EXCEPT ![a] = amount]
    /\ UNCHANGED <<stakes, claims, admin>>

\* A matured request pays amount out of a's stake.
Collect(a, amount) ==
    /\ withdrawReqAt[a] # 0
    /\ amount <= totalStake                     \* no underflow
    /\ amount <= balance                        \* the transfer succeeds
    /\ contribution' = [contribution EXCEPT ![a] = @ - amount]
    /\ totalStake' = totalStake - amount
    /\ balance' = balance - amount
    /\ withdrawReqAt' = [withdrawReqAt EXCEPT ![a] = 0]
    /\ withdrawReqAmt' = [withdrawReqAmt EXCEPT ![a] = 0]
    /\ UNCHANGED <<claims, admin>>

Matured(a) == now >= withdrawReqAt[a] + WithdrawalDelay

\* Bug: no clamp, so the subtraction reverts after a slash.
FinalizeWithdrawUnclamped(a) ==
    /\ Matured(a)
    /\ withdrawReqAmt[a] <= contribution[a]
    /\ Collect(a, withdrawReqAmt[a])
\* Bug: the delay is not checked.
FinalizeWithdrawEarly(a) == Collect(a, Least(withdrawReqAmt[a], contribution[a]))

FinalizeWithdraw(a) ==
    /\ Matured(a)
    /\ Collect(a, Least(withdrawReqAmt[a], contribution[a]))

-----------------------------------------------------------------------------
(* Vaults.                                                                 *)

\* What reserve() requires of the pool, and what it then books.
\* Bug: the pool's total backing is not looked at.
ReservableByCapOnly(courier, value) ==
    /\ courier \in Members
    /\ reserved[courier] + value <= MemberCap(contribution[courier])
Reservable(courier, value) ==
    /\ courier \in Members
    /\ activeValue + value <= totalStake
    /\ reserved[courier] + value <= MemberCap(contribution[courier])

\* Bug: the member's books and the pool's part ways.
BookReservationOfMemberOnly(courier, value) ==
    /\ Reservable(courier, value)
    /\ reserved' = [reserved EXCEPT ![courier] = @ + value]
    /\ UNCHANGED activeValue
BookReservation(courier, value) ==
    /\ Reservable(courier, value)
    /\ reserved' = [reserved EXCEPT ![courier] = @ + value]
    /\ activeValue' = activeValue + value

Reserve(v, courier, value) ==
    /\ v \in registeredVaults
    /\ BookReservation(courier, value)
    /\ UNCHANGED <<stakes, asks, admin>>

\* registerByFactory and, in the same transaction, the vault's reserve().
RegisterAndReserve(f, v, courier, value) ==
    /\ f = factory /\ factory # NoFactory
    /\ v \notin registeredVaults
    /\ registeredVaults' = registeredVaults \cup {v}
    /\ BookReservation(courier, value)
    /\ UNCHANGED <<stakes, asks, memberList, factory>>

Release(v, courier, value) ==
    /\ v \in registeredVaults
    /\ courier \in Members
    /\ reserved' = [reserved EXCEPT ![courier] = @ - Least(@, value)]
    /\ activeValue' = activeValue - Least(activeValue, value)
    /\ UNCHANGED <<stakes, asks, admin>>

-----------------------------------------------------------------------------
(* slash(): the courier pays first, the others share what is still owed.   *)

\* Bug: the courier's stake is charged the whole amount, whatever it holds.
FromCourierUnclamped(courier, amount) == amount
\* Bug: the courier only pays a share, like everyone else.
FromCourierShared(courier, amount) ==
    IF totalStake = 0 THEN 0
    ELSE (Least(amount, totalStake) * contribution[courier]) \div totalStake
FromCourier(courier, amount) == Least(contribution[courier], amount)

Base(courier) == Total(contribution, Others(courier))

Take(courier, amount) ==
    Least(amount - FromCourier(courier, amount), Base(courier))

\* The last entry of memberList that is not the courier sweeps the dust.
\* Bug: nobody sweeps when the courier is the last member.
SweeperIfLast(courier) == memberList[Len(memberList)]
Sweeper(courier) ==
    LET n == Len(memberList)
    IN  IF memberList[n] # courier THEN memberList[n] ELSE memberList[n - 1]

\* take * c / base for every other member, before anyone sweeps.
ProRata(courier, amount) ==
    [a \in Others(courier) |->
        IF Base(courier) = 0 THEN 0
        ELSE (Take(courier, amount) * contribution[a]) \div Base(courier)]

\* What each other member is charged: the sweeper owes what the floors left
\* over, and nobody is charged more than they have.  The loop skips a member
\* without stake, so a sweeper without stake sweeps nothing.
\* Bug: everyone owes the same.
DueEvenly(courier, amount, a) ==
    Take(courier, amount) \div Cardinality(Others(courier))
Due(courier, amount, a) ==
    IF a = Sweeper(courier)
    THEN Take(courier, amount)
           - Total(ProRata(courier, amount), Others(courier) \ {a})
    ELSE ProRata(courier, amount)[a]

Share(courier, amount) ==
    [a \in Others(courier) |-> Least(Due(courier, amount, a), contribution[a])]

\* Bug: pays what was to be taken, not what the members were charged.
FromPoolPromised(courier, amount) == Take(courier, amount)
FromPool(courier, amount) == Total(Share(courier, amount), Others(courier))

Paid(courier, amount) == FromCourier(courier, amount) + FromPool(courier, amount)

\* The reservation slash() closes.
\* Bug: only what was paid is unreserved.
UnreservedAsPaid(courier, amount) == Least(reserved[courier], Paid(courier, amount))
Unreserved(courier, amount) == Least(reserved[courier], amount)

\* Checked arithmetic and the transfer: slash() reverts unless this holds.
SlashFits(courier, amount) ==
    /\ Paid(courier, amount) <= totalStake
    /\ Unreserved(courier, amount) <= activeValue
    /\ Paid(courier, amount) <= balance

Slash(v, courier, amount) ==
    /\ v \in registeredVaults
    /\ courier \in Members
    /\ SlashFits(courier, amount)
    /\ contribution' =
         [a \in Accounts |->
            CASE a = courier -> contribution[a] - FromCourier(courier, amount)
              [] a \in Others(courier) -> contribution[a] - Share(courier, amount)[a]
              [] OTHER -> contribution[a]]
    /\ totalStake' = totalStake - Paid(courier, amount)
    /\ balance' = balance - Paid(courier, amount)
    /\ reserved' = [reserved EXCEPT ![courier] = @ - Unreserved(courier, amount)]
    /\ activeValue' = activeValue - Unreserved(courier, amount)
    /\ UNCHANGED <<asks, admin>>

-----------------------------------------------------------------------------
(* Views.                                                                  *)

\* Bug: only the member's own cap is looked at.
FreeCapacityByCap(courier) ==
    IF courier \notin Members THEN 0
    ELSE Excess(MemberCap(contribution[courier]), reserved[courier])
FreeCapacityFor(courier) ==
    IF courier \notin Members THEN 0
    ELSE Least(Excess(MemberCap(contribution[courier]), reserved[courier]),
               Excess(totalStake, activeValue))

=============================================================================
