----------------------------- MODULE PoolProofs -----------------------------
(***************************************************************************)
(* Theorems of PoolClients, for every set of members and vaults, every cap *)
(* and every delay.                                                        *)
(***************************************************************************)
EXTENDS PoolClients, StakeTheorems

USE ChainConstants, PoolConstants, ClientConstants

-----------------------------------------------------------------------------
(* Type correctness.                                                       *)

LEMMA TypeInit == Init => TypeOK
BY DEF Init, PoolInit, TypeOK, Standing

\* A request has an amount exactly while it is pending.
RequestsTimed ==
    \A a \in Accounts : withdrawReqAt[a] = 0 <=> withdrawReqAmt[a] = 0

LEMMA RequestsTimedKept ==
  ASSUME PoolType, now \in Nat \ {0}, RequestsTimed, PoolOp
  PROVE  RequestsTimed'
<1>0. withdrawReqAt \in [Accounts -> Nat] /\ withdrawReqAmt \in [Accounts -> Nat]
  BY DEF PoolType
<1>1. CASE UNCHANGED asks
  BY <1>1 DEF RequestsTimed, asks
<1>2. ASSUME NEW a \in Accounts, MemberOp(a) PROVE RequestsTimed'
  <2>1. CASE FinalizeWithdraw(a)
    <3>1. /\ withdrawReqAt' = [withdrawReqAt EXCEPT ![a] = 0]
          /\ withdrawReqAmt' = [withdrawReqAmt EXCEPT ![a] = 0]
      BY <2>1 DEF FinalizeWithdraw, Collect
    <3> QED BY <1>0, <3>1 DEF RequestsTimed
  <2>2. ASSUME NEW n \in Nat, RequestWithdraw(a, n) PROVE RequestsTimed'
    <3>1. /\ n > 0 /\ withdrawReqAt' = [withdrawReqAt EXCEPT ![a] = now]
          /\ withdrawReqAmt' = [withdrawReqAmt EXCEPT ![a] = n]
      BY <2>2 DEF RequestWithdraw
    <3> QED BY <1>0, <3>1 DEF RequestsTimed
  <2> QED BY <1>1, <1>2, <2>1, <2>2 DEF MemberOp, AdmitMember, DepositStake
<1>3. CASE AdminOp \/ \E v \in Vaults, c \in Accounts, n \in Nat : VaultOp(v, c, n)
  BY <1>1, <1>3 DEF AdminOp, SetFactory, RegisterVault, VaultOp, Reserve, Release,
     Slash, RegisterAndReserve
<1> QED BY <1>1, <1>2, <1>3 DEF PoolOp, poolVars

\* Every step is an operation of the pool, or none.
LEMMA StepIsPoolOp == TypeOK /\ [Next]_vars => PoolOp
<1> SUFFICES ASSUME TypeOK, [Next]_vars PROVE PoolOp
  OBVIOUS
<1>0. PoolType /\ Members \subseteq Accounts
  BY MembersAreAccounts DEF TypeOK, PoolType, StakeType
<1>1. CASE Admit \/ \E a \in Accounts : Withdraw(a)
  BY <1>1 DEF Admit, Withdraw, PoolOp, MemberOp
<1>2. CASE Deposit \/ Ask
  <2>1. PICK a \in Accounts, n \in Amounts : DepositStake(a, n) \/ RequestWithdraw(a, n)
    BY <1>2 DEF Deposit, Ask
  <2>2. n \in Nat
    OBVIOUS
  <2> QED BY <2>1, <2>2 DEF PoolOp, MemberOp
<1>3. CASE Appoint
  BY <1>3 DEF Appoint, PoolOp, AdminOp
<1>4. CASE Open
  <2>1. PICK v \in Vaults, a \in Accounts, n \in Values :
             Spawn(v, a, n) \/ Deploy(v, a, n)
    BY <1>4 DEF Open
  <2>2. CASE \E f \in Factories : RegisterAndReserve(f, v, a, n)
    BY <2>2 DEF PoolOp, VaultOp
  <2> QED BY <2>1, <2>2 DEF Spawn, Deploy, PoolOp
<1>5. ASSUME NEW v \in Vaults,
             \/ Reserve(v, courierOf[v], valueOf[v])
             \/ Release(v, courierOf[v], valueOf[v])
             \/ Slash(v, courierOf[v], valueOf[v])
      PROVE  PoolOp
  <2>1. courierOf[v] \in Members
    BY <1>5 DEF Reserve, BookReservation, Reservable, Release, Slash
  <2>2. courierOf[v] \in Accounts /\ valueOf[v] \in Nat
    BY <1>0, <2>1 DEF TypeOK
  <2> QED BY <1>5, <2>2 DEF PoolOp, VaultOp
<1>6. CASE VaultStep
  BY <1>5, <1>6 DEF VaultStep, OperatorRegisters, PoolOp, AdminOp, Initialize,
     SettleByRelease, SettleBySlash
<1>7. CASE Clock \/ UNCHANGED vars
  BY <1>7 DEF Clock, vars, poolVars, PoolOp
<1> QED BY <1>1, <1>2, <1>3, <1>4, <1>6, <1>7 DEF Next

LEMMA TypeStep == TypeOK /\ [Next]_vars => TypeOK'
<1> SUFFICES ASSUME TypeOK, [Next]_vars PROVE TypeOK'
  OBVIOUS
<1>1. PoolType' /\ MembersHoldAll' /\ RequestsTimed'
  <2>1. PoolType /\ now \in Nat \ {0} /\ MembersHoldAll /\ RequestsTimed
    BY DEF TypeOK, PoolType, MembersHoldAll, RequestsTimed
  <2> QED BY <2>1, StepIsPoolOp, PoolTypeKept, MembersHoldAllKept, RequestsTimedKept
<1>2. /\ now \in Nat \ {0} /\ claim \in [Vaults -> Standing]
      /\ courierOf \in [Vaults -> Accounts \cup {NoAccount}]
      /\ valueOf \in [Vaults -> Nat]
  BY DEF TypeOK
<1>3. /\ now' \in Nat \ {0} /\ claim' \in [Vaults -> Standing]
      /\ courierOf' \in [Vaults -> Accounts \cup {NoAccount}]
      /\ valueOf' \in [Vaults -> Nat]
  <2>1. CASE Quiet \/ Clock \/ UNCHANGED vars
    BY <1>2, <2>1 DEF Quiet, Clock, TimePasses, vars, clientVars
  <2>2. ASSUME NEW v \in Vaults, NEW a \in Accounts \cup {NoAccount}, NEW n \in Nat,
               NEW st \in Standing, SetClaim(v, st, a, n) \/ Settles(v)
        PROVE  /\ now' \in Nat \ {0} /\ claim' \in [Vaults -> Standing]
               /\ courierOf' \in [Vaults -> Accounts \cup {NoAccount}]
               /\ valueOf' \in [Vaults -> Nat]
    BY <1>2, <2>2 DEF SetClaim, Settles, Standing
  <2>3. CASE Open
    BY <2>2, <2>3 DEF Open, Spawn, Deploy, Standing
  <2>4. CASE VaultStep
    BY <1>2, <2>1, <2>2, <2>4 DEF VaultStep, OperatorRegisters, Initialize,
       SettleByRelease, SettleBySlash, Standing
  <2> QED BY <2>1, <2>3, <2>4 DEF Next, Admit, Appoint, Deposit, Ask, Withdraw
<1> QED BY <1>1, <1>3 DEF TypeOK, PoolType, MembersHoldAll, RequestsTimed

\* The pool's storage and the vaults' standing keep their types.
THEOREM TypeCorrect == Spec => []TypeOK
BY TypeInit, TypeStep, PTL DEF Spec

-----------------------------------------------------------------------------
(* Solvency.                                                               *)

LEMMA SolvencyInit == Init => Solvency
BY SolventStart DEF Init, Solvent, Solvency

LEMMA SolvencyStep == TypeOK /\ Solvency /\ [Next]_vars => Solvency'
<1> SUFFICES ASSUME TypeOK, Solvency, [Next]_vars PROVE Solvency'
  OBVIOUS
<1>1. PoolType /\ Solvent
  BY DEF TypeOK, PoolType, Solvency, Solvent
<1>2. Solvent'
  BY <1>1, StepIsPoolOp, SolventKept
<1> QED BY <1>2 DEF Solvency, Solvent

\* The pool's ether, its booked total and the sum of its members' stakes
\* never part, whoever registers the vaults that slash it.
THEOREM PoolIsSolvent == Spec => []Solvency
BY TypeInit, TypeStep, SolvencyInit, SolvencyStep, PTL DEF Spec

-----------------------------------------------------------------------------
(* The reservation ledger, when every vault comes from the registry.       *)

FactoryOnly == ManualVaults = {}

\* What an open delivery can count on.
ClaimsBacked ==
    \A v \in Vaults :
       /\ claim[v] \notin {"deployed", "lapsed"}
       /\ claim[v] = "open" => v \in registeredVaults /\ courierOf[v] \in Members

LedgerInv == TypeOK /\ ClaimsBacked /\ ReservationLedger

LEMMA LedgerInit == Init => LedgerInv
<1> SUFFICES ASSUME Init PROVE LedgerInv
  OBVIOUS
<1>1. \A a \in Accounts : reserved[a] = 0 /\ OpenClaims(a) = {}
  BY DEF Init, PoolInit, OpenClaims
<1>2. Total(reserved, Accounts) = 0
  BY <1>1, TotalZero
<1>3. ReservationLedger
  BY <1>1, <1>2, TotalEmpty DEF ReservationLedger, Init, PoolInit
<1>4. ClaimsBacked
  BY DEF Init, PoolInit, ClaimsBacked
<1> QED BY <1>3, <1>4, TypeInit DEF LedgerInv

OpenBy == [a \in Accounts |-> OpenClaims(a)]

\* The books in the form the facts about ledgers have.
LEMMA LedgerForm ==
  ASSUME TypeOK
  PROVE  /\ OpenBy \in [Accounts -> SUBSET Vaults]
         /\ ReservationLedger <=> Ledger(reserved, activeValue, valueOf, OpenBy)
BY DEF OpenBy, OpenClaims, ReservationLedger, Ledger

\* The value of an open claim is part of its courier's reservation, and that
\* of the value the whole pool has promised.
LEMMA ClaimWithinReservation ==
  ASSUME LedgerInv, NEW v \in Vaults, claim[v] = "open"
  PROVE  /\ courierOf[v] \in Accounts
         /\ valueOf[v] \in Nat
         /\ valueOf[v] <= reserved[courierOf[v]]
         /\ reserved[courierOf[v]] <= activeValue
<1> DEFINE c == courierOf[v]
<1>1. TypeOK /\ c \in Accounts
  <2>1. StakeType /\ c \in Members
    BY DEF LedgerInv, ClaimsBacked, TypeOK, StakeType
  <2> QED BY <2>1, MembersAreAccounts DEF LedgerInv
<1>2. /\ OpenBy \in [Accounts -> SUBSET Vaults] /\ v \in OpenBy[c]
      /\ Ledger(reserved, activeValue, valueOf, OpenBy)
      /\ reserved \in [Accounts -> Nat] /\ valueOf \in [Vaults -> Nat]
  BY <1>1, LedgerForm DEF LedgerInv, OpenBy, OpenClaims, TypeOK
<1> HIDE DEF c
<1>3. valueOf[v] \in Nat /\ valueOf[v] <= reserved[c] /\ reserved[c] <= activeValue
  BY <1>1, <1>2, LedgerEntry
<1> QED BY <1>1, <1>3 DEF c

\* Opening a claim keeps the books.
LEMMA ClaimOpens ==
  ASSUME LedgerInv, TypeOK', NEW v \in Vaults, claim[v] = "none",
         NEW c \in Accounts, NEW n \in Nat,
         reserved' = [reserved EXCEPT ![c] = @ + n],
         activeValue' = activeValue + n,
         SetClaim(v, "open", c, n)
  PROVE  ReservationLedger'
<1>1. /\ OpenBy \in [Accounts -> SUBSET Vaults]
      /\ Ledger(reserved, activeValue, valueOf, OpenBy)
      /\ reserved \in [Accounts -> Nat] /\ valueOf \in [Vaults -> Nat]
      /\ claim \in [Vaults -> Standing]
      /\ courierOf \in [Vaults -> Accounts \cup {NoAccount}]
  BY LedgerForm DEF LedgerInv, TypeOK
<1>2. \A a \in Accounts : v \notin OpenBy[a]
  BY DEF OpenBy, OpenClaims
<1>3. Ledger([reserved EXCEPT ![c] = @ + n], activeValue + n,
             [valueOf EXCEPT ![v] = n], [OpenBy EXCEPT ![c] = @ \cup {v}])
  BY <1>1, <1>2, LedgerOpens
<1>4. valueOf' = [valueOf EXCEPT ![v] = n]
  BY DEF SetClaim
<1>5. OpenBy' = [OpenBy EXCEPT ![c] = @ \cup {v}]
  <2>1. ASSUME NEW a \in Accounts
        PROVE  OpenClaims(a)' = IF a = c THEN OpenClaims(a) \cup {v} ELSE OpenClaims(a)
    BY <1>1 DEF OpenClaims, SetClaim
  <2> QED BY <1>1, <2>1 DEF OpenBy
<1>6. Ledger(reserved', activeValue', valueOf', OpenBy')
  BY <1>3, <1>4, <1>5
<1> QED BY <1>6, LedgerForm DEF ReservationLedger, Ledger, OpenBy, OpenClaims

\* Settling a claim keeps the books.
LEMMA ClaimCloses ==
  ASSUME LedgerInv, NEW v \in Vaults, claim[v] = "open", Settles(v),
         reserved' = [reserved EXCEPT ![courierOf[v]] = @ - valueOf[v]],
         activeValue' = activeValue - valueOf[v]
  PROVE  ReservationLedger'
<1> DEFINE c == courierOf[v]
<1>1. /\ OpenBy \in [Accounts -> SUBSET Vaults]
      /\ Ledger(reserved, activeValue, valueOf, OpenBy)
      /\ reserved \in [Accounts -> Nat] /\ valueOf \in [Vaults -> Nat]
      /\ claim \in [Vaults -> Standing]
  BY LedgerForm DEF LedgerInv, TypeOK
<1>2. c \in Accounts /\ v \in OpenBy[c]
  BY ClaimWithinReservation DEF OpenBy, OpenClaims
<1>3. Ledger([reserved EXCEPT ![c] = @ - valueOf[v]], activeValue - valueOf[v],
             valueOf, [OpenBy EXCEPT ![c] = @ \ {v}])
  <2> HIDE DEF c
  <2> QED BY <1>1, <1>2, LedgerCloses
<1>4. valueOf' = valueOf /\ OpenBy' = [OpenBy EXCEPT ![c] = @ \ {v}]
  <2>1. ASSUME NEW a \in Accounts
        PROVE  OpenClaims(a)' = IF a = c THEN OpenClaims(a) \ {v} ELSE OpenClaims(a)
    BY <1>1 DEF OpenClaims, Settles
  <2> QED BY <1>1, <2>1 DEF OpenBy, Settles
<1>5. Ledger(reserved', activeValue', valueOf', OpenBy')
  BY <1>3, <1>4
<1> QED BY <1>5 DEF ReservationLedger, Ledger, OpenBy

LEMMA LedgerStep ==
  ASSUME FactoryOnly, LedgerInv, [Next]_vars
  PROVE  LedgerInv'
<1>0. TypeOK /\ TypeOK' /\ ClaimsBacked /\ ReservationLedger
  BY TypeStep DEF LedgerInv
<1>1. CASE UNCHANGED <<claims, clientVars, registeredVaults>> /\ Members \subseteq Members'
  <2>1. ClaimsBacked'
    BY <1>0, <1>1 DEF ClaimsBacked, clientVars
  <2>2. ReservationLedger'
    BY <1>0, <1>1 DEF ReservationLedger, OpenClaims, claims, clientVars
  <2> QED BY <1>0, <2>1, <2>2 DEF LedgerInv
<1>2. CASE Admit
  <2>1. PICK a \in Accounts : AdmitMember(a) /\ Quiet
    BY <1>2 DEF Admit
  <2>2. memberList \in Seq(Accounts) /\ memberList' = Append(memberList, a)
    BY <1>0, <2>1 DEF AdmitMember, TypeOK
  <2>3. Members \subseteq Members'
    BY <2>2 DEF Members, Range
  <2> QED BY <1>1, <2>1, <2>3 DEF AdmitMember, Quiet
<1>3. CASE Appoint \/ Deposit \/ Ask \/ Clock \/ \E a \in Accounts : Withdraw(a)
  <2>1. UNCHANGED <<claims, clientVars, registeredVaults, memberList>>
    BY <1>3 DEF Appoint, SetFactory, Deposit, DepositStake, Ask, RequestWithdraw,
                Clock, TimePasses, Withdraw, FinalizeWithdraw, Collect, admin, poolVars, Quiet
  <2> QED BY <1>1, <2>1 DEF Members
<1>4. CASE Open
  <2>1. PICK v \in Vaults, c \in Accounts, n \in Values : Spawn(v, c, n)
    BY <1>4 DEF Open, Deploy, FactoryOnly
  <2>2. /\ n \in Nat /\ claim[v] = "none" /\ c \in Members
        /\ reserved' = [reserved EXCEPT ![c] = @ + n]
        /\ activeValue' = activeValue + n
        /\ SetClaim(v, "open", c, n)
        /\ registeredVaults' = registeredVaults \cup {v}
        /\ memberList' = memberList
    BY <2>1 DEF Spawn, RegisterAndReserve, BookReservation, Reservable
  <2>3. ReservationLedger'
    BY <1>0, <2>2, ClaimOpens
  <2>4. ClaimsBacked'
    BY <1>0, <2>2 DEF ClaimsBacked, SetClaim, Members, TypeOK
  <2> QED BY <1>0, <2>3, <2>4 DEF LedgerInv
<1>5. ASSUME NEW v \in Vaults, SettleByRelease(v) \/ SettleBySlash(v)
      PROVE  LedgerInv'
  <2> DEFINE c == courierOf[v]
             n == valueOf[v]
  <2>1. claim[v] = "open" /\ Settles(v)
    BY <1>0, <1>5 DEF SettleByRelease, SettleBySlash, Settles, ClaimsBacked
  <2>2. /\ n \in Nat /\ n <= reserved[c] /\ reserved[c] <= activeValue
        /\ reserved[c] \in Nat /\ activeValue \in Nat /\ c \in Accounts
    BY <1>0, <2>1, ClaimWithinReservation DEF TypeOK
  <2>3. PoolType
    BY <1>0 DEF TypeOK, PoolType
  <2>4. /\ reserved' = [reserved EXCEPT ![c] = @ - n]
        /\ activeValue' = activeValue - n
        /\ UNCHANGED <<memberList, registeredVaults>>
    <3>1. Release(v, c, n) \/ Slash(v, c, n)
      BY <1>5 DEF SettleByRelease, SettleBySlash
    <3> HIDE DEF c, n
    <3> QED BY <2>2, <2>3, <3>1, SettlingBooks
  <2>5. ReservationLedger'
    BY <2>1, <2>4, ClaimCloses
  <2>6. ClaimsBacked'
    BY <1>0, <2>1, <2>4 DEF ClaimsBacked, Settles, Members, TypeOK
  <2> QED BY <1>0, <2>5, <2>6 DEF LedgerInv
<1>6. ASSUME NEW v \in Vaults PROVE ~OperatorRegisters(v) /\ ~Initialize(v)
  BY <1>0 DEF OperatorRegisters, FactoryOnly, Initialize, ClaimsBacked
<1>7. CASE UNCHANGED vars
  <2>1. UNCHANGED <<claims, clientVars, registeredVaults, memberList>>
    BY <1>7 DEF vars, poolVars, admin
  <2> QED BY <1>1, <2>1 DEF Members
<1> QED BY <1>2, <1>3, <1>4, <1>5, <1>6, <1>7 DEF Next, VaultStep

\* Every reservation in the pool's books is owed to an open delivery of that
\* courier, and to the wei.
THEOREM LedgerAgrees == ASSUME FactoryOnly PROVE Spec => []ReservationLedger
<1>1. LedgerInv /\ [Next]_vars => LedgerInv'
  BY LedgerStep
<1>2. LedgerInv => ReservationLedger
  BY DEF LedgerInv
<1> QED BY <1>1, <1>2, LedgerInit, PTL DEF Spec

-----------------------------------------------------------------------------
(* Consequences.                                                           *)

\* No delivery that holds a reservation can be locked by a slash() that
\* reverts.
THEOREM NoClaimIsStuck == ASSUME FactoryOnly PROVE Spec => []OpenClaimCanSettle
<1>1. LedgerInv /\ Solvency => OpenClaimCanSettle
  <2> SUFFICES ASSUME LedgerInv, Solvency, NEW v \in Vaults, claim[v] = "open"
               PROVE  /\ v \in registeredVaults
                      /\ courierOf[v] \in Members
                      /\ SlashFits(courierOf[v], valueOf[v])
    BY DEF OpenClaimCanSettle
  <2>1. PoolType /\ Solvent
    BY DEF LedgerInv, TypeOK, PoolType, Solvency, Solvent
  <2>2. SlashFits(courierOf[v], valueOf[v])
    BY <2>1, ClaimWithinReservation, SlashAlwaysFits
  <2> QED BY <2>2 DEF LedgerInv, ClaimsBacked
<1>2. LedgerInv /\ [Next]_vars => LedgerInv'
  BY LedgerStep
<1>3. LedgerInv => TypeOK
  BY DEF LedgerInv
<1> QED BY <1>1, <1>2, <1>3, LedgerInit, SolvencyInit, SolvencyStep, PTL DEF Spec

\* Only a withdrawal can leave the pool with less stake than it has promised:
\* a slash closes at least as much promise as it costs stake.
THEOREM OnlyWithdrawalsLoseCapacity ==
  ASSUME FactoryOnly PROVE Spec => CapacityLostOnlyByWithdrawal
<1> DEFINE Kept == activeValue <= totalStake
                   => \/ activeValue' <= totalStake'
                      \/ \E a \in Accounts : PaymentOf(a)
<1>1. LedgerInv /\ [Next]_vars => Kept
  <2> SUFFICES ASSUME LedgerInv, [Next]_vars, activeValue <= totalStake
               PROVE  \/ activeValue' <= totalStake'
                      \/ \E a \in Accounts : PaymentOf(a)
    OBVIOUS
  <2>0. TypeOK /\ ClaimsBacked /\ activeValue \in Nat /\ totalStake \in Nat
    BY DEF LedgerInv, TypeOK
  <2>1. CASE Admit \/ Appoint \/ Ask \/ Clock \/ UNCHANGED vars
    BY <2>1 DEF Admit, AdmitMember, Appoint, SetFactory, Ask, RequestWithdraw,
                Clock, vars, poolVars, stakes, claims
  <2>2. CASE Deposit
    BY <2>0, <2>2 DEF Deposit, DepositStake, claims
  <2>3. ASSUME NEW a \in Accounts, Withdraw(a)
        PROVE  PaymentOf(a)
    BY <2>0, <2>3 DEF PaymentOf, Withdraw, FinalizeWithdraw, Collect, TypeOK
  <2>4. CASE Open
    BY <2>4 DEF Open, Spawn, Deploy, FactoryOnly, RegisterAndReserve,
                BookReservation, Reservable, stakes
  <2>5. ASSUME NEW v \in Vaults, OperatorRegisters(v) \/ Initialize(v)
        PROVE  FALSE
    BY <2>0, <2>5 DEF OperatorRegisters, FactoryOnly, Initialize, ClaimsBacked
  <2>6. ASSUME NEW v \in Vaults, SettleByRelease(v) PROVE activeValue' <= totalStake'
    <3> DEFINE n == valueOf[v]
    <3>1. n \in Nat /\ totalStake' = totalStake
          /\ activeValue' = activeValue - Least(activeValue, n)
      BY <2>0, <2>6 DEF SettleByRelease, Release, stakes, TypeOK
    <3> HIDE DEF n
    <3> QED BY <2>0, <3>1 DEF Least
  <2>7. ASSUME NEW v \in Vaults, SettleBySlash(v) PROVE activeValue' <= totalStake'
    <3> DEFINE c == courierOf[v]
               n == valueOf[v]
    <3>1. claim[v] = "open" /\ Slash(v, c, n) /\ StakeType
      BY <2>0, <2>7 DEF SettleBySlash, Settles, ClaimsBacked, TypeOK, StakeType
    <3>2. /\ c \in Accounts /\ n \in Nat
          /\ n <= reserved[c] /\ reserved[c] <= activeValue /\ reserved[c] \in Nat
      BY <2>0, <3>1, ClaimWithinReservation DEF TypeOK
    <3>3. Paid(c, n) \in Nat /\ Paid(c, n) <= n
      BY <3>1, <3>2, SlashStakes
    <3>4. Unreserved(c, n) = n
      BY <3>2 DEF Unreserved, Least
    <3>5. activeValue' = activeValue - n /\ totalStake' = totalStake - Paid(c, n)
      BY <3>1, <3>4 DEF Slash
    <3> HIDE DEF c, n
    <3> QED BY <2>0, <3>2, <3>3, <3>5
  <2> QED BY <2>1, <2>2, <2>3, <2>4, <2>5, <2>6, <2>7 DEF Next, VaultStep
<1>2. LedgerInv /\ [Next]_vars => LedgerInv'
  BY LedgerStep
<1>3. Init => LedgerInv
  BY LedgerInit
<1> QED BY <1>1, <1>2, <1>3, PTL DEF Spec, CapacityLostOnlyByWithdrawal

-----------------------------------------------------------------------------
(* Who pays, and what the view promises: for hand-registered vaults too.   *)

\* The steps that end a claim and pay something out are its slashes.
LEMMA OnlySlashPaysOut ==
  ASSUME TypeOK, [Next]_vars, NEW v \in Vaults, SlashOf(v)
  PROVE  SettleBySlash(v)
<1>0. /\ claim \in [Vaults -> Standing]
      /\ claim[v] \in {"deployed", "open"} /\ claim'[v] \in {"settled", "lapsed"}
      /\ balance' # balance /\ balance \in Nat
  BY DEF SlashOf, TypeOK, Standing
<1>1. ASSUME NEW w \in Vaults, SettleByRelease(w) \/ SettleBySlash(w)
      PROVE  SettleBySlash(v)
  <2>1. w = v
    BY <1>0, <1>1 DEF SettleByRelease, SettleBySlash, Settles
  <2>2. ~SettleByRelease(w)
    BY <1>0 DEF SettleByRelease, Release, stakes
  <2> QED BY <1>1, <2>1, <2>2
<1>2. claim' # claim
  BY <1>0
<1>3. ~(Admit \/ Appoint \/ Deposit \/ Ask \/ Clock \/ UNCHANGED vars
          \/ \E a \in Accounts : Withdraw(a))
  BY <1>2 DEF Admit, Appoint, Deposit, Ask, Clock, Withdraw, Quiet, vars, clientVars
<1>4. ASSUME NEW w \in Vaults PROVE ~OperatorRegisters(w) /\ ~Initialize(w)
  BY <1>0, <1>2 DEF OperatorRegisters, Quiet, clientVars, Initialize, SetClaim
<1>5. ~Open
  BY <1>0 DEF Open, Spawn, Deploy, SetClaim
<1> QED BY <1>1, <1>3, <1>4, <1>5 DEF Next, VaultStep

\* Nobody else's stake is touched while the courier has some left.
THEOREM CourierIsSlashedFirst == Spec => CourierPaysFirst
<1> DEFINE First ==
      \A v \in Vaults : SlashOf(v) =>
         \A a \in Accounts \ {courierOf[v]} :
             Loss(a) > 0 => contribution'[courierOf[v]] = 0
<1>1. TypeOK /\ [Next]_vars => First
  <2> SUFFICES ASSUME TypeOK, [Next]_vars, NEW v \in Vaults, SlashOf(v),
                      NEW a \in Accounts \ {courierOf[v]}, Loss(a) > 0
               PROVE  contribution'[courierOf[v]] = 0
    OBVIOUS
  <2> DEFINE c == courierOf[v]
             n == valueOf[v]
  <2>1. StakeType /\ Members \subseteq Accounts
    BY MembersAreAccounts DEF TypeOK, StakeType
  <2>2. c \in Accounts /\ n \in Nat /\ Slash(v, c, n)
    BY <2>1, OnlySlashPaysOut DEF SettleBySlash, Slash, TypeOK
  <2>3. /\ contribution[a] \in Nat /\ contribution[c] \in Nat
        /\ contribution'[c] = contribution[c] - FromCourier(c, n)
        /\ contribution'[a] = IF a \in Others(c) THEN contribution[a] - Share(c, n)[a]
                              ELSE contribution[a]
    <3>1. a # c /\ a \in Accounts /\ c \notin Others(c)
      BY DEF Others
    <3>2. contribution' =
            [b \in Accounts |->
               CASE b = c -> contribution[b] - FromCourier(c, n)
                 [] b \in Others(c) -> contribution[b] - Share(c, n)[b]
                 [] OTHER -> contribution[b]]
      BY <2>2 DEF Slash
    <3> HIDE DEF c, n
    <3> QED BY <2>1, <2>2, <3>1, <3>2 DEF StakeType
  <2> HIDE DEF c, n
  <2>4. a \in Others(c) /\ Share(c, n)[a] > 0
    <3>1. a \in Others(c)
      BY <2>3 DEF Loss
    <3>2. Share(c, n)[a] \in Nat
      BY <2>1, <2>2, <3>1, ShareFits
    <3> QED BY <2>3, <3>1, <3>2 DEF Loss
  <2>5. FromPool(c, n) > 0
    <3>1. IsFiniteSet(Others(c)) /\ \A b \in Others(c) : Share(c, n)[b] \in Nat
      BY <2>1, <2>2, MembersAreAccounts, ShareFits
    <3>2. Share(c, n)[a] <= FromPool(c, n)
      BY <2>4, <3>1, EntryWithin DEF FromPool
    <3>3. FromPool(c, n) \in Nat /\ Share(c, n)[a] \in Nat
      BY <2>1, <2>2, <2>4, ShareFits
    <3> QED BY <2>4, <3>2, <3>3
  <2>6. Take(c, n) > 0 /\ Base(c) \in Nat /\ FromCourier(c, n) \in Nat
    <3>1. /\ FromPool(c, n) <= Take(c, n)
          /\ FromPool(c, n) \in Nat /\ Take(c, n) \in Nat
          /\ Base(c) \in Nat /\ FromCourier(c, n) \in Nat
      BY <2>1, <2>2, ShareFits, ProRataFits
    <3> QED BY <2>5, <3>1
  <2>7. FromCourier(c, n) < n
    BY <2>2, <2>6 DEF Take, Least
  <2>8. FromCourier(c, n) = contribution[c]
    BY <2>2, <2>3, <2>7 DEF FromCourier, Least
  <2> QED BY <2>3, <2>8 DEF c
<1> QED BY <1>1, TypeInit, TypeStep, PTL DEF Spec, CourierPaysFirst

\* The registry may rely on freeCapacityFor(): reserve() grants exactly that.
THEOREM CapacityViewIsExact == Spec => []FreeCapacityIsReservable
<1>1. TypeOK => FreeCapacityIsReservable
  <2> SUFFICES ASSUME TypeOK, NEW a \in Accounts, NEW n \in 1..MaxStake
               PROVE  n <= FreeCapacityFor(a) <=> Reservable(a, n)
    BY DEF FreeCapacityIsReservable
  <2> DEFINE cap == MemberCap(contribution[a])
  <2>1. n \in Nat \ {0} /\ reserved[a] \in Nat /\ contribution[a] \in Nat
        /\ totalStake \in Nat /\ activeValue \in Nat
    BY DEF TypeOK
  <2>2. cap \in Nat
    <3>1. contribution[a] * MemberCapBps \in Nat
      <4>1. \A x, y \in Nat : x * y \in Nat
        OBVIOUS
      <4> QED BY <2>1, <4>1
    <3>2. \A x \in Nat : x \div 10000 \in Nat
      OBVIOUS
    <3> QED BY <3>1, <3>2 DEF MemberCap
  <2>3. FreeCapacityFor(a) = IF a \notin Members THEN 0
          ELSE Least(Excess(cap, reserved[a]), Excess(totalStake, activeValue))
    BY DEF FreeCapacityFor
  <2>4. Reservable(a, n) <=> /\ a \in Members
                             /\ activeValue + n <= totalStake
                             /\ reserved[a] + n <= cap
    BY DEF Reservable
  <2> HIDE DEF cap
  <2> QED BY <2>1, <2>2, <2>3, <2>4 DEF Least, Excess
<1> QED BY <1>1, TypeInit, TypeStep, PTL DEF Spec
-----------------------------------------------------------------------------
(* What a slash takes from whom, and what it pays.                         *)

\* The list of members and their stakes: nobody twice, nobody else's.
ShareInv == TypeOK /\ MembersOnce /\ MembersHoldAll

LEMMA ShareInvHolds == Spec => []ShareInv
<1>1. Init => ShareInv
  BY TypeInit, MembersOnceStart, MembersHoldAllStart DEF Init, ShareInv
<1>2. ShareInv /\ [Next]_vars => ShareInv'
  <2> SUFFICES ASSUME ShareInv, [Next]_vars PROVE ShareInv'
    OBVIOUS
  <2>1. PoolType /\ PoolOp
    BY StepIsPoolOp DEF ShareInv, TypeOK, PoolType
  <2> QED BY <2>1, TypeStep, MembersOnceKept, MembersHoldAllKept DEF ShareInv
<1> QED BY <1>1, <1>2, PTL DEF Spec

\* A settlement that pays out is a slash for the vault's courier and value.
LEMMA SlashTakes ==
  ASSUME TypeOK, [Next]_vars, NEW v \in Vaults, SlashOf(v)
  PROVE  LET c == courierOf[v]
             n == valueOf[v]
         IN  /\ StakeType /\ c \in Accounts /\ n \in Nat
             /\ memberList' = memberList
             /\ balance' = balance - Paid(c, n)
             /\ Loss(c) = FromCourier(c, n)
             /\ \A a \in Others(c) : Loss(a) = Share(c, n)[a]
<1> DEFINE c == courierOf[v]
           n == valueOf[v]
<1>1. StakeType /\ Members \subseteq Accounts /\ Others(c) \subseteq Accounts
  BY MembersAreAccounts DEF TypeOK, StakeType
<1>2. c \in Accounts /\ n \in Nat /\ Slash(v, c, n)
  BY <1>1, OnlySlashPaysOut DEF SettleBySlash, Slash, TypeOK
<1>3. /\ contribution' =
           [b \in Accounts |->
              CASE b = c -> contribution[b] - FromCourier(c, n)
                [] b \in Others(c) -> contribution[b] - Share(c, n)[b]
                [] OTHER -> contribution[b]]
      /\ memberList' = memberList /\ balance' = balance - Paid(c, n)
  BY <1>2 DEF Slash, admin
<1> HIDE DEF c, n
<1>4. FromCourier(c, n) \in Nat /\ contribution[c] \in Nat
  BY <1>1, <1>2, ProRataFits DEF StakeType
<1>5. Loss(c) = FromCourier(c, n)
  <2>1. c \notin Others(c)
    BY DEF Others
  <2>2. contribution'[c] = contribution[c] - FromCourier(c, n)
    BY <1>2, <1>3, <2>1
  <2> QED BY <1>4, <2>2 DEF Loss
<1>6. ASSUME NEW a \in Others(c) PROVE Loss(a) = Share(c, n)[a]
  <2>1. a # c /\ a \in Accounts
    BY <1>1 DEF Others
  <2>2. Share(c, n)[a] \in Nat /\ contribution[a] \in Nat
    BY <1>1, <1>2, <2>1, ShareFits DEF StakeType
  <2>3. contribution'[a] = contribution[a] - Share(c, n)[a]
    BY <1>3, <2>1
  <2> QED BY <2>2, <2>3 DEF Loss
<1> QED BY <1>1, <1>2, <1>3, <1>5, <1>6 DEF c, n

\* The others pay in proportion to their stakes, to within the dust.
THEOREM SharesAreProRata == Spec => SharedProRata
<1> DEFINE Fair ==
      \A v \in Vaults : SlashOf(v) =>
         LET c == courierOf[v]
             owed == Take(c, valueOf[v])
             n == Cardinality(Others(c))
         IN  Base(c) > 0 => \A a \in Others(c) :
                /\ (Loss(a) + 1) * Base(c) > owed * contribution[a]
                /\ (Loss(a) - (n - 1)) * Base(c) <= owed * contribution[a]
<1>1. TypeOK /\ [Next]_vars => Fair
  <2> SUFFICES ASSUME TypeOK, [Next]_vars, NEW v \in Vaults, SlashOf(v),
                      Base(courierOf[v]) > 0, NEW a \in Others(courierOf[v])
               PROVE  LET c == courierOf[v]
                          owed == Take(c, valueOf[v])
                          n == Cardinality(Others(c))
                      IN  /\ (Loss(a) + 1) * Base(c) > owed * contribution[a]
                          /\ (Loss(a) - (n - 1)) * Base(c) <= owed * contribution[a]
    OBVIOUS
  <2> DEFINE c == courierOf[v]
             n == valueOf[v]
  <2>1. StakeType /\ c \in Accounts /\ n \in Nat /\ Loss(a) = Share(c, n)[a]
    BY SlashTakes
  <2>2. Base(c) # 0 /\ a \in Others(c)
    BY <2>1, ProRataFits
  <2> HIDE DEF c, n
  <2>3. /\ (Share(c, n)[a] + 1) * Base(c) > Take(c, n) * contribution[a]
        /\ (Share(c, n)[a] - (Cardinality(Others(c)) - 1)) * Base(c)
             <= Take(c, n) * contribution[a]
    BY <2>1, <2>2, SharesAreFair
  <2> QED BY <2>1, <2>3 DEF c, n
<1> QED BY <1>1, TypeInit, TypeStep, PTL DEF Spec, SharedProRata

\* A slash pays the whole value or all the pool has, but for the dust a
\* sweeper without stake cannot sweep.
THEOREM SlashesMakeWhole == Spec => SlashMakesWhole
<1> DEFINE Whole ==
      \A v \in Vaults : SlashOf(v) =>
         LET paid == balance - balance'
             due == Least(valueOf[v], totalStake)
         IN  /\ paid <= due
             /\ paid < due =>
                  /\ due - paid < Cardinality(Others(courierOf[v]))
                  /\ \E i \in DOMAIN memberList :
                        /\ memberList[i] # courierOf[v]
                        /\ contribution'[memberList[i]] = 0
                        /\ \A j \in DOMAIN memberList :
                             j > i => memberList[j] = courierOf[v]
<1>1. ShareInv /\ Solvency /\ [Next]_vars => Whole
  <2> SUFFICES ASSUME ShareInv, Solvency, [Next]_vars, NEW v \in Vaults, SlashOf(v)
               PROVE  LET paid == balance - balance'
                          due == Least(valueOf[v], totalStake)
                      IN  /\ paid <= due
                          /\ paid < due =>
                               /\ due - paid < Cardinality(Others(courierOf[v]))
                               /\ \E i \in DOMAIN memberList :
                                     /\ memberList[i] # courierOf[v]
                                     /\ contribution'[memberList[i]] = 0
                                     /\ \A j \in DOMAIN memberList :
                                          j > i => memberList[j] = courierOf[v]
    OBVIOUS
  <2> DEFINE c == courierOf[v]
             n == valueOf[v]
             w == Sweeper(c)
  <2>1. /\ TypeOK /\ MembersOnce /\ MembersHoldAll
        /\ StakeType /\ c \in Accounts /\ n \in Nat
        /\ balance' = balance - Paid(c, n)
        /\ \A a \in Others(c) : Loss(a) = Share(c, n)[a]
    BY SlashTakes DEF ShareInv
  <2> HIDE DEF c, n
  <2>2. /\ contribution[c] \in Nat /\ Base(c) \in Nat /\ balance \in Nat
        /\ FromCourier(c, n) \in Nat /\ FromPool(c, n) \in Nat /\ Take(c, n) \in Nat
        /\ FromPool(c, n) <= Take(c, n)
    BY <2>1, ProRataFits, ShareFits DEF TypeOK
  <2>3. totalStake = contribution[c] + Base(c)
    BY <2>1, StakeIsShared DEF Solvency, Solvent
  <2>4. balance - balance' = FromCourier(c, n) + FromPool(c, n)
    BY <2>1, <2>2 DEF Paid
  <2>5. FromCourier(c, n) + Take(c, n) = Least(n, totalStake)
    BY <2>1, <2>2, <2>3 DEF FromCourier, Take, Least
  <2>6. ASSUME FromPool(c, n) < Take(c, n)
        PROVE  /\ Take(c, n) - FromPool(c, n) < Cardinality(Others(c))
               /\ \E i \in DOMAIN memberList :
                     /\ memberList[i] # c
                     /\ contribution'[memberList[i]] = 0
                     /\ \A j \in DOMAIN memberList : j > i => memberList[j] = c
    <3>1. Take(c, n) - FromPool(c, n) < Cardinality(Others(c))
      BY <2>1, <2>2, <2>6, FloorsLoseLittle
    <3>2. Others(c) # {} /\ Share(c, n)[w] = contribution[w]
      BY <2>1, <2>6, ShortfallEmptiesSweeper
    <3>3. /\ w \in Others(c)
          /\ \E i \in DOMAIN memberList :
               /\ memberList[i] = w
               /\ \A j \in DOMAIN memberList : j > i => memberList[j] = c
      BY <2>1, <3>2, SweeperIsLast
    <3>4. w # c /\ contribution'[w] = 0
      <4>1. w # c /\ w \in Accounts
        BY <2>1, <3>3, MembersAreAccounts DEF Others
      <4>2. contribution \in [Accounts -> Nat] /\ contribution' \in [Accounts -> Nat]
        BY <2>1, TypeStep DEF TypeOK
      <4>3. Loss(w) = contribution[w]
        BY <2>1, <3>2, <3>3
      <4> HIDE DEF w
      <4>4. contribution[w] - contribution'[w] = contribution[w]
        BY <4>3 DEF Loss
      <4>5. contribution[w] \in Nat /\ contribution'[w] \in Nat
        BY <4>1, <4>2
      <4> QED BY <4>1, <4>4, <4>5
    <3> HIDE DEF w
    <3> QED BY <3>1, <3>3, <3>4
  <2>7. Least(n, totalStake) = Least(valueOf[v], totalStake) /\ c = courierOf[v]
    BY DEF c, n
  <2> QED BY <2>2, <2>4, <2>5, <2>6, <2>7
<1>2. ShareInv => TypeOK
  BY DEF ShareInv
<1> QED BY <1>1, <1>2, ShareInvHolds, PoolIsSolvent, PTL DEF Spec, SlashMakesWhole

-----------------------------------------------------------------------------
(* Withdrawals.                                                            *)

\* Only the step that pays it ends a request for withdrawal.
LEMMA OnlyPaymentEndsRequest ==
  ASSUME TypeOK, [Next]_vars, NEW a \in Accounts,
         withdrawReqAt[a] # 0, withdrawReqAt'[a] = 0
  PROVE  FinalizeWithdraw(a)
<1>0. withdrawReqAt \in [Accounts -> Nat] /\ now \in Nat \ {0}
  BY DEF TypeOK
<1>1. withdrawReqAt' # withdrawReqAt
  OBVIOUS
<1>2. CASE Admit \/ Appoint \/ Deposit \/ Clock \/ UNCHANGED vars
  BY <1>1, <1>2 DEF Admit, AdmitMember, Appoint, SetFactory, Deposit, DepositStake,
     Clock, vars, poolVars, asks
<1>3. CASE Ask
  BY <1>0, <1>3 DEF Ask, RequestWithdraw
<1>4. ASSUME NEW b \in Accounts, Withdraw(b) PROVE FinalizeWithdraw(a)
  <2>1. FinalizeWithdraw(b) /\ withdrawReqAt' = [withdrawReqAt EXCEPT ![b] = 0]
    BY <1>4 DEF Withdraw, FinalizeWithdraw, Collect
  <2>2. b = a
    BY <1>0, <2>1
  <2> QED BY <2>1, <2>2
<1>5. CASE Open \/ VaultStep
  BY <1>1, <1>5 DEF Open, Spawn, Deploy, RegisterAndReserve, VaultStep,
     OperatorRegisters, RegisterVault, Initialize, Reserve, SettleByRelease, Release,
     SettleBySlash, Slash, poolVars, asks
<1> QED BY <1>2, <1>3, <1>4, <1>5 DEF Next

\* Stake shrinks in the payment of a request or in the slash of a vault.
LEMMA StakeShrinksSo ==
  ASSUME TypeOK, [Next]_vars, NEW a \in Accounts, Loss(a) > 0
  PROVE  (\E b \in Accounts : FinalizeWithdraw(b)) \/ \E v \in Vaults : SettleBySlash(v)
<1>0. contribution \in [Accounts -> Nat] /\ contribution[a] \in Nat
  BY DEF TypeOK
<1>1. contribution' # contribution
  BY <1>0 DEF Loss
<1>2. CASE Admit \/ Appoint \/ Ask \/ Clock \/ UNCHANGED vars
  BY <1>1, <1>2 DEF Admit, AdmitMember, Appoint, SetFactory, Ask, RequestWithdraw,
     Clock, vars, poolVars, stakes
<1>3. CASE Deposit
  <2>1. PICK b \in Accounts, n \in Amounts : DepositStake(b, n)
    BY <1>3 DEF Deposit
  <2>2. contribution' = [contribution EXCEPT ![b] = @ + n] /\ n \in Nat
    BY <2>1 DEF DepositStake
  <2> QED BY <1>0, <2>2 DEF Loss
<1>4. CASE Open
  BY <1>1, <1>4 DEF Open, Spawn, Deploy, RegisterAndReserve, poolVars, stakes
<1>5. ASSUME NEW v \in Vaults,
             OperatorRegisters(v) \/ Initialize(v) \/ SettleByRelease(v)
      PROVE  FALSE
  BY <1>1, <1>5 DEF OperatorRegisters, RegisterVault, Initialize, Reserve,
     SettleByRelease, Release, stakes
<1> QED BY <1>2, <1>3, <1>4, <1>5 DEF Next, Withdraw, VaultStep

\* A slash that takes stake is seen to settle the vault and to pay, and costs
\* the pool no more than the vault's declared value.
LEMMA SlashIsSeen ==
  ASSUME TypeOK, Solvency, [Next]_vars, NEW a \in Accounts, Loss(a) > 0,
         NEW v \in Vaults, SettleBySlash(v)
  PROVE  SlashOf(v) /\ balance - balance' <= valueOf[v]
<1> DEFINE c == courierOf[v]
           n == valueOf[v]
<1>1. StakeType /\ Members \subseteq Accounts
  BY MembersAreAccounts DEF TypeOK, StakeType
<1>2. c \in Accounts /\ n \in Nat /\ Slash(v, c, n)
  BY <1>1 DEF SettleBySlash, Slash, TypeOK
<1>3. Paid(c, n) \in Nat /\ Paid(c, n) <= n
  BY <1>1, <1>2, SlashStakes
<1>4. /\ balance' = balance - Paid(c, n) /\ totalStake' = totalStake - Paid(c, n)
      /\ balance \in Nat
  BY <1>2 DEF Slash, TypeOK
<1> HIDE DEF c, n
<1>5. Paid(c, n) # 0
  <2>1. SUFFICES ASSUME Paid(c, n) = 0 PROVE FALSE
    OBVIOUS
  <2>2. FromCourier(c, n) = 0 /\ FromPool(c, n) = 0
    BY <1>1, <1>2, <2>1, ProRataFits, ShareFits DEF Paid
  <2>3. /\ contribution' = [b \in Accounts |->
              CASE b = c -> contribution[b] - FromCourier(c, n)
                [] b \in Others(c) -> contribution[b] - Share(c, n)[b]
                [] OTHER -> contribution[b]]
    BY <1>2 DEF Slash
  <2>4. contribution[a] \in Nat
    BY DEF TypeOK
  <2>5. a \in Others(c) /\ Share(c, n)[a] # 0
    BY <2>2, <2>3, <2>4 DEF Loss, Others
  <2>6. IsFiniteSet(Others(c)) /\ \A b \in Others(c) : Share(c, n)[b] \in Nat
    BY <1>1, <1>2, MembersAreAccounts, ShareFits
  <2>7. Share(c, n)[a] <= FromPool(c, n)
    BY <2>5, <2>6, EntryWithin DEF FromPool
  <2> QED BY <2>2, <2>5, <2>6, <2>7
<1>6. claim[v] \in {"deployed", "open"} /\ claim'[v] \in {"settled", "lapsed"}
  BY DEF SettleBySlash, Settles, TypeOK
<1>7. balance' < balance /\ balance - balance' <= n
  BY <1>3, <1>4, <1>5
<1> QED BY <1>6, <1>7 DEF SlashOf, n

\* Stake shrinks by its owner's own withdrawal or by a slash; a withdrawal
\* pays its member's own stake, at most what was asked for, and not before
\* its time.
THEOREM StakeIsTakenSoOnly == Spec => StakeLeavesByPaymentOrSlash
<1> DEFINE Own ==
      \A a \in Accounts :
         /\ Loss(a) > 0 =>
              \/ PaymentOf(a)
              \/ \E v \in Vaults : SlashOf(v) /\ balance - balance' <= valueOf[v]
         /\ PaymentOf(a) =>
              /\ balance - balance' = Loss(a)
              /\ Loss(a) <= withdrawReqAmt[a]
              /\ now - withdrawReqAt[a] >= WithdrawalDelay
              /\ \A b \in Accounts \ {a} : Loss(b) = 0
<1>1. ASSUME TypeOK, [Next]_vars, NEW a \in Accounts, PaymentOf(a)
      PROVE  /\ balance - balance' = Loss(a)
             /\ Loss(a) <= withdrawReqAmt[a]
             /\ now - withdrawReqAt[a] >= WithdrawalDelay
             /\ \A b \in Accounts \ {a} : Loss(b) = 0
  <2> DEFINE n == Least(withdrawReqAmt[a], contribution[a])
  <2>1. /\ Matured(a)
        /\ contribution' = [contribution EXCEPT ![a] = @ - n]
        /\ balance' = balance - n
    BY <1>1, OnlyPaymentEndsRequest DEF PaymentOf, FinalizeWithdraw, Collect
  <2>2. /\ contribution \in [Accounts -> Nat] /\ withdrawReqAmt[a] \in Nat
        /\ withdrawReqAt[a] \in Nat /\ balance \in Nat /\ now \in Nat
    BY <1>1 DEF TypeOK
  <2>3. n \in Nat /\ n <= withdrawReqAmt[a]
    BY <2>2 DEF Least
  <2> HIDE DEF n
  <2>4. Loss(a) = n /\ \A b \in Accounts \ {a} : Loss(b) = 0
    BY <2>1, <2>2, <2>3 DEF Loss
  <2>5. now - withdrawReqAt[a] >= WithdrawalDelay
    BY <2>1, <2>2 DEF Matured
  <2> QED BY <2>1, <2>2, <2>3, <2>4, <2>5
<1>2. ASSUME TypeOK, Solvency, [Next]_vars, NEW a \in Accounts, Loss(a) > 0
      PROVE  \/ PaymentOf(a)
             \/ \E v \in Vaults : SlashOf(v) /\ balance - balance' <= valueOf[v]
  <2>1. ASSUME NEW b \in Accounts, FinalizeWithdraw(b) PROVE PaymentOf(a)
    <3>1. /\ withdrawReqAt[b] # 0
          /\ withdrawReqAt' = [withdrawReqAt EXCEPT ![b] = 0]
          /\ contribution' =
               [contribution EXCEPT ![b] = @ - Least(withdrawReqAmt[b], contribution[b])]
      BY <2>1 DEF FinalizeWithdraw, Collect
    <3>2. contribution \in [Accounts -> Nat] /\ withdrawReqAt \in [Accounts -> Nat]
      BY <1>2 DEF TypeOK
    <3>3. a = b
      BY <1>2, <3>1, <3>2 DEF Loss
    <3> QED BY <3>1, <3>2, <3>3 DEF PaymentOf
  <2> QED BY <1>2, <2>1, StakeShrinksSo, SlashIsSeen
<1>3. TypeOK /\ Solvency /\ [Next]_vars => Own
  BY <1>1, <1>2
<1> QED BY <1>3, TypeInit, TypeStep, PoolIsSolvent, PTL
        DEF Spec, StakeLeavesByPaymentOrSlash
=============================================================================
