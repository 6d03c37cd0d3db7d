---------------------------- MODULE MarketProofs ----------------------------
(***************************************************************************)
(* Theorems of Marketplace, for every set of sellers, couriers and vaults, *)
(* every request, bid and policy.                                          *)
(***************************************************************************)
EXTENDS Marketplace, BidRanking, StakeTheorems

USE ChainConstants

-----------------------------------------------------------------------------
(* The ranking of bids, for whoever asks for it.                           *)

\* What holds of 0 and of each number after one it holds of, holds of all up
\* to n; stated with the set of those it holds of.
LEMMA CountingUp ==
  ASSUME NEW n \in Nat, NEW T, 0 \in T,
         \A i \in 1..n : i - 1 \in T => i \in T
  PROVE  \A i \in 0..n : i \in T
<1> DEFINE Bad == {i \in 0..n : i \notin T}
<1>1. SUFFICES ASSUME Bad # {} PROVE FALSE
  OBVIOUS
<1>2. IsFiniteSet(Bad) /\ Bad \subseteq Nat
  <2>1. IsFiniteSet(0..n)
    BY FS_Interval
  <2>2. Bad \in SUBSET (0..n)
    OBVIOUS
  <2> QED BY <2>1, <2>2, FS_Subset
<1>3. PICK i \in Bad : \A j \in Bad : i <= j
  <2> HIDE DEF Bad
  <2> QED BY <1>1, <1>2, LeastOfFinite
<1>4. i \in 1..n
  BY <1>3
<1>5. i - 1 \in T
  BY <1>3, <1>4
<1> QED BY <1>3, <1>4, <1>5

\* rank() of a book: the bids its filters let through, and how the loop goes on
\* from the leader w.
Passes(book, limits, nowSec, i) ==
    ~Filtered(book[i].offered, book[i].withdrawn, limits, nowSec)
Beats(book, limits, trusted, nowSec, i, w) ==
    /\ Passes(book, limits, nowSec, i)
    /\ w = 0 \/ Outscores(book[i].offered, book[w].offered, trusted, nowSec)

LEMMA LoopOfRank ==
  ASSUME NEW book, NEW limits, NEW trusted, NEW nowSec, Len(book) \in Nat
  PROVE  \E leader :
           /\ Rank(book, limits, trusted, nowSec) = leader[Len(book)]
           /\ leader[0] = 0
           /\ \A i \in 1..Len(book) :
                leader[i] = IF Beats(book, limits, trusted, nowSec, i, leader[i - 1])
                            THEN i ELSE leader[i - 1]
<1> DEFINE n == Len(book)
           beats(i, w) == Beats(book, limits, trusted, nowSec, i, w)
           Next1(f, i) == IF i = 0 THEN 0 ELSE IF beats(i, f[i - 1]) THEN i ELSE f[i - 1]
           leader == CHOOSE f : f = [i \in 0..n |-> Next1(f, i)]
<1>0. n \in Nat
  OBVIOUS
<1>1. Rank(book, limits, trusted, nowSec) = leader[n]
  BY DEF Rank, Passes, Beats
<1> DEFINE Starts(k, f) == f = [i \in 0..k |-> Next1(f, i)]
<1>2. \E f : Starts(n, f)
  <2> DEFINE T == {k \in 0..n : \E f : Starts(k, f)}
  <2>1. 0 \in T
    <3> DEFINE g == [i \in 0..0 |-> 0]
    <3>1. Starts(0, g)
      OBVIOUS
    <3> HIDE DEF g, Starts
    <3> QED BY <1>0, <3>1
  <2>2. ASSUME NEW k \in 1..n, k - 1 \in T
        PROVE  k \in T
    <3>1. PICK f : Starts(k - 1, f)
      BY <2>2
    <3> DEFINE g == [i \in 0..k |-> IF i = k THEN Next1(f, k) ELSE f[i]]
    <3>2. Starts(k, g)
      <4>1. ASSUME NEW i \in 0..k PROVE g[i] = Next1(g, i)
        <5>1. CASE i = k
          BY <5>1
        <5>2. CASE i # k
          <6>1. i \in 0..(k - 1) /\ (i # 0 => i - 1 \in 0..k /\ i - 1 # k)
            BY <5>2
          <6>2. f[i] = Next1(f, i)
            BY <3>1, <6>1
          <6> QED BY <5>2, <6>1, <6>2
        <5> QED BY <5>1, <5>2
      <4> QED BY <4>1
    <3> HIDE DEF g, Starts
    <3> QED BY <1>0, <3>2
  <2> HIDE DEF T, n
  <2>3. n \in T
    BY <1>0, <2>1, <2>2, CountingUp
  <2> QED BY <2>3 DEF T
<1>3. Starts(n, leader)
  BY <1>2
<1> HIDE DEF leader
<1> QED BY <1>0, <1>1, <1>3

\* The winner is 0, or a bid of the book that the filters let through.
LEMMA WinnerIsTakeable ==
  ASSUME NEW book, NEW limits, NEW trusted, NEW nowSec, Len(book) \in Nat
  PROVE  LET w == Rank(book, limits, trusted, nowSec)
         IN  \/ w = 0
             \/ /\ w \in 1..Len(book)
                /\ ~Filtered(book[w].offered, book[w].withdrawn, limits, nowSec)
<1> DEFINE n == Len(book)
           passes(i) == Passes(book, limits, nowSec, i)
           beats(i, w) == Beats(book, limits, trusted, nowSec, i, w)
<1>1. PICK leader :
        /\ Rank(book, limits, trusted, nowSec) = leader[n]
        /\ leader[0] = 0
        /\ \A i \in 1..n : leader[i] = IF beats(i, leader[i - 1]) THEN i ELSE leader[i - 1]
  BY LoopOfRank
<1> DEFINE T == {i \in 0..n : leader[i] = 0 \/ (leader[i] \in 1..n /\ passes(leader[i]))}
<1>2. 0 \in T
  BY <1>1
<1>3. ASSUME NEW i \in 1..n, i - 1 \in T
      PROVE  i \in T
  <2>1. beats(i, leader[i - 1]) => passes(i)
    BY DEF Beats
  <2> HIDE DEF passes, beats
  <2> QED BY <1>1, <1>3, <2>1
<1>4. n \in T
  <2> HIDE DEF T
  <2>1. \A i \in 0..n : i \in T
    BY <1>2, <1>3, CountingUp
  <2> QED BY <2>1
<1> QED BY <1>1, <1>4 DEF Passes

\* Bids as the contracts keep them: what a score is made of is a number.
Priced(b) == b.price \in Nat /\ b.promisedTime \in Nat /\ b.reputationE4 \in Nat

LEMMA ScoreParts ==
  ASSUME NEW b, Priced(b), NEW trusted, NEW nowSec \in Nat, b.promisedTime > nowSec
  PROVE  RepFactor(b, trusted) \in Nat \ {0} /\ Cost(b, trusted, nowSec) \in Nat
<1> DEFINE r == IF b.reputationE4 = 0 THEN 1 ELSE 100 * b.reputationE4
           t == b.promisedTime - nowSec
           c == t * b.price
<1>1. r \in Nat \ {0} /\ t \in Nat /\ b.price \in Nat
  BY DEF Priced
<1>2. c \in Nat
  <2> HIDE DEF t
  <2> QED BY <1>1
<1>3. /\ RepFactor(b, trusted) = IF trusted THEN r * r * r ELSE 1
      /\ Cost(b, trusted, nowSec) = IF trusted THEN c * c ELSE c
  BY DEF RepFactor, Cost
<1> HIDE DEF r, c
<1>4. r * r \in Nat \ {0} /\ c * c \in Nat
  BY <1>1, <1>2
<1>5. r * r * r \in Nat \ {0}
  BY <1>1, <1>4
<1> QED BY <1>2, <1>3, <1>4, <1>5

\* Fractions R / K, compared by multiplying out: what is above one that c is
\* not above is above c.
LEMMA FractionOrder ==
  ASSUME NEW Ra \in Nat \ {0}, NEW Ka \in Nat, NEW Rb \in Nat \ {0}, NEW Kb \in Nat,
         NEW Rc \in Nat \ {0}, NEW Kc \in Nat,
         Ra * Kb > Rb * Ka, ~(Rc * Kb > Rb * Kc)
  PROVE  Ra * Kc > Rc * Ka
<1>1. Rc * Kb <= Rb * Kc
  OBVIOUS
<1>2. Rc * (Ra * Kb) > Rc * (Rb * Ka)
  OBVIOUS
<1>3. Ra * (Rc * Kb) <= Ra * (Rb * Kc)
  BY <1>1
<1>4. Rb * (Ra * Kc) > Rb * (Rc * Ka)
  BY <1>2, <1>3
<1>5. SUFFICES ASSUME Ra * Kc <= Rc * Ka PROVE FALSE
  OBVIOUS
<1>6. Rb * (Ra * Kc) <= Rb * (Rc * Ka)
  BY <1>5
<1> QED BY <1>4, <1>6

\* What is left once every bid had its turn: no bid that passes scores higher
\* than the winner, and those before it score less.
FirstBest(book, limits, trusted, nowSec, w, n) ==
    IF w = 0 THEN \A j \in 1..n : ~Passes(book, limits, nowSec, j)
    ELSE /\ w \in 1..n /\ Passes(book, limits, nowSec, w)
         /\ \A j \in 1..n : Passes(book, limits, nowSec, j) =>
              /\ ~Outscores(book[j].offered, book[w].offered, trusted, nowSec)
              /\ j < w => Outscores(book[w].offered, book[j].offered, trusted, nowSec)

LEMMA BetterStays ==
  ASSUME NEW a, NEW b, NEW c, Priced(a), Priced(b), Priced(c), NEW trusted,
         NEW nowSec \in Nat, a.promisedTime > nowSec, b.promisedTime > nowSec,
         c.promisedTime > nowSec, Outscores(a, b, trusted, nowSec)
  PROVE  /\ ~Outscores(b, a, trusted, nowSec)
         /\ ~Outscores(c, b, trusted, nowSec) => Outscores(a, c, trusted, nowSec)
<1> DEFINE R(x) == RepFactor(x, trusted)
           K(x) == Cost(x, trusted, nowSec)
<1>1. /\ R(a) \in Nat \ {0} /\ R(b) \in Nat \ {0} /\ R(c) \in Nat \ {0}
      /\ K(a) \in Nat /\ K(b) \in Nat /\ K(c) \in Nat
  BY ScoreParts
<1>2. \A x, y : Outscores(x, y, trusted, nowSec) <=> R(x) * K(y) > R(y) * K(x)
  BY DEF Outscores
<1> HIDE DEF R, K
<1>3. R(a) * K(b) > R(b) * K(a)
  BY <1>2
<1>4. ~(R(b) * K(a) > R(a) * K(b))
  BY <1>1, <1>3
<1>5. ~(R(c) * K(b) > R(b) * K(c)) => R(a) * K(c) > R(c) * K(a)
  BY <1>1, <1>3, FractionOrder
<1> QED BY <1>2, <1>4, <1>5

LEMMA PassingIsInTime ==
  ASSUME NEW book, NEW limits, NEW nowSec \in Nat, NEW i, Priced(book[i].offered),
         Passes(book, limits, nowSec, i)
  PROVE  book[i].offered.promisedTime > nowSec
BY DEF Passes, Filtered, Priced

LEMMA RankIsFirstBest ==
  ASSUME NEW book, NEW limits, NEW trusted, NEW nowSec \in Nat, Len(book) \in Nat,
         \A i \in 1..Len(book) : Priced(book[i].offered)
  PROVE  FirstBest(book, limits, trusted, nowSec,
                   Rank(book, limits, trusted, nowSec), Len(book))
<1> DEFINE n == Len(book)
           passes(i) == Passes(book, limits, nowSec, i)
           beats(i, w) == Beats(book, limits, trusted, nowSec, i, w)
           out(i, j) == Outscores(book[i].offered, book[j].offered, trusted, nowSec)
           best(w, k) == FirstBest(book, limits, trusted, nowSec, w, k)
<1>1. PICK leader :
        /\ Rank(book, limits, trusted, nowSec) = leader[n]
        /\ leader[0] = 0
        /\ \A i \in 1..n : leader[i] = IF beats(i, leader[i - 1]) THEN i ELSE leader[i - 1]
  BY LoopOfRank
<1>2. \A w, k : best(w, k) <=>
        IF w = 0 THEN \A j \in 1..k : ~passes(j)
        ELSE /\ w \in 1..k /\ passes(w)
             /\ \A j \in 1..k : passes(j) => ~out(j, w) /\ (j < w => out(w, j))
  BY DEF FirstBest
<1>3. \A i, w : beats(i, w) <=> passes(i) /\ (w = 0 \/ out(i, w))
  BY DEF Beats
<1>4. ASSUME NEW a \in 1..n, NEW b \in 1..n, NEW c \in 1..n,
             passes(a), passes(b), passes(c), out(a, b)
      PROVE  ~out(b, a) /\ (~out(c, b) => out(a, c))
  <2>1. /\ book[a].offered.promisedTime > nowSec
        /\ book[b].offered.promisedTime > nowSec
        /\ book[c].offered.promisedTime > nowSec
    BY <1>4, PassingIsInTime
  <2> QED BY <1>4, <2>1, BetterStays
<1> DEFINE T == {k \in 0..n : best(leader[k], k)}
<1> HIDE DEF passes, beats, out, best
<1>5. 0 \in T
  BY <1>1, <1>2
<1>6. ASSUME NEW i \in 1..n, i - 1 \in T
      PROVE  i \in T
  <2> DEFINE w == leader[i - 1]
  <2>1. best(w, i - 1)
    BY <1>6
  <2> HIDE DEF w
  <2>2. \A j \in 1..i : j = i \/ j \in 1..(i - 1)
    OBVIOUS
  <2>3. CASE beats(i, w)
    <3>1. leader[i] = i
      BY <1>1, <2>3 DEF w
    <3>2. passes(i) /\ (w = 0 \/ out(i, w))
      BY <1>3, <2>3
    <3>3. ~out(i, i)
      BY <1>4, <3>2
    <3>4. ASSUME NEW j \in 1..(i - 1), passes(j)
          PROVE  ~out(j, i) /\ out(i, j)
      <4>1. w # 0 /\ w \in 1..n /\ passes(w) /\ ~out(j, w)
        BY <1>2, <2>1, <3>4
      <4>2. out(i, w) /\ j \in 1..n
        BY <3>2, <4>1
      <4>3. out(i, j)
        BY <1>4, <3>2, <3>4, <4>1, <4>2
      <4> QED BY <1>4, <3>2, <3>4, <4>2, <4>3
    <3>5. best(i, i)
      BY <1>2, <2>2, <3>2, <3>3, <3>4
    <3> QED BY <3>1, <3>5
  <2>4. CASE ~beats(i, w)
    <3>1. leader[i] = w
      BY <1>1, <2>4 DEF w
    <3>2. ~passes(i) \/ (w # 0 /\ ~out(i, w))
      BY <1>3, <2>4
    <3>3. w # 0 => w \in 1..(i - 1)
      BY <1>2, <2>1
    <3>4. best(w, i)
      BY <1>2, <2>1, <2>2, <3>2, <3>3
    <3> QED BY <3>1, <3>4
  <2> QED BY <2>3, <2>4
<1>7. best(leader[n], n)
  <2> HIDE DEF T
  <2>1. \A i \in 0..n : i \in T
    BY <1>5, <1>6, CountingUp
  <2> QED BY <2>1 DEF T
<1> QED BY <1>1, <1>7 DEF best

\* There is only one.
LEMMA OneFirstBest ==
  ASSUME NEW book, NEW limits, NEW trusted, NEW nowSec, NEW n \in Nat, NEW w, NEW e,
         FirstBest(book, limits, trusted, nowSec, w, n), w # 0,
         FirstBest(book, limits, trusted, nowSec, e, n), e # 0
  PROVE  w = e
BY DEF FirstBest

\* Cheaper, faster or better reputed is better, unless it costs nothing.
LEMMA DominatingOutscores ==
  ASSUME NEW b, NEW c, Priced(b), Priced(c), NEW trusted, NEW nowSec \in Nat,
         b.promisedTime > nowSec, c.promisedTime > nowSec, c.price > 0,
         b.price <= c.price, b.promisedTime <= c.promisedTime,
         trusted => b.reputationE4 >= c.reputationE4,
         \/ b.price < c.price \/ b.promisedTime < c.promisedTime
         \/ trusted /\ b.reputationE4 > c.reputationE4
  PROVE  Outscores(b, c, trusted, nowSec)
<1> DEFINE rb == IF b.reputationE4 = 0 THEN 1 ELSE 100 * b.reputationE4
           rc == IF c.reputationE4 = 0 THEN 1 ELSE 100 * c.reputationE4
           tb == b.promisedTime - nowSec
           tc == c.promisedTime - nowSec
           pb == b.price
           pc == c.price
           kb == tb * pb
           kc == tc * pc
<1>1. /\ rb \in Nat \ {0} /\ rc \in Nat \ {0} /\ tb \in Nat \ {0} /\ tc \in Nat \ {0}
      /\ pb \in Nat /\ pc \in Nat \ {0} /\ pb <= pc /\ tb <= tc
      /\ trusted => rb >= rc
      /\ pb < pc \/ tb < tc \/ (trusted /\ rb > rc)
  BY DEF Priced
<1>2. Outscores(b, c, trusted, nowSec) <=>
        (IF trusted THEN rb * rb * rb ELSE 1) * (IF trusted THEN kc * kc ELSE kc)
          > (IF trusted THEN rc * rc * rc ELSE 1) * (IF trusted THEN kb * kb ELSE kb)
  BY DEF Outscores, RepFactor, Cost
<1> HIDE DEF rb, rc, tb, tc, pb, pc
<1>3. kb \in Nat /\ kc \in Nat \ {0}
  BY <1>1
<1>4. kb <= kc /\ (pb < pc \/ tb < tc => kb < kc)
  <2>1. tb * pb <= tc * pb /\ tc * pb <= tc * pc
    BY <1>1
  <2>2. pb < pc => tc * pb < tc * pc
    BY <1>1
  <2>3. tb < tc => tb * pc < tc * pc
    BY <1>1
  <2>4. tb * pb <= tb * pc
    BY <1>1
  <2>5. tb * pb \in Nat /\ tc * pb \in Nat /\ tc * pc \in Nat /\ tb * pc \in Nat
    BY <1>1
  <2> QED BY <2>1, <2>2, <2>3, <2>4, <2>5
<1> HIDE DEF kb, kc
<1>5. CASE ~trusted
  BY <1>1, <1>2, <1>3, <1>4, <1>5
<1>6. CASE trusted
  <2> DEFINE Rb == rb * rb * rb
             Rc == rc * rc * rc
             Kb == kb * kb
             Kc == kc * kc
  <2>1. rb * rb \in Nat \ {0} /\ rc * rc \in Nat \ {0}
    BY <1>1
  <2>2. Rb \in Nat \ {0} /\ Rc \in Nat \ {0} /\ Kb \in Nat /\ Kc \in Nat \ {0}
    BY <1>1, <1>3, <2>1
  <2>3. Kb <= Kc /\ (kb < kc => Kb < Kc)
    BY <1>3, <1>4
  <2>4. rb * rb >= rc * rc /\ (rb > rc => rb * rb > rc * rc)
    BY <1>1, <1>6
  <2>5. Rb >= Rc /\ (rb > rc => Rb > Rc)
    <3> DEFINE sb == rb * rb
               sc == rc * rc
    <3>1. sb \in Nat \ {0} /\ sc \in Nat \ {0} /\ sb >= sc /\ (rb > rc => sb > sc)
      BY <2>1, <2>4
    <3> HIDE DEF sb, sc
    <3>2. sb * rb >= sc * rb /\ sc * rb >= sc * rc
      BY <1>1, <1>6, <3>1
    <3>3. rb > rc => sc * rb > sc * rc
      BY <1>1, <3>1
    <3>4. sb * rb \in Nat /\ sc * rb \in Nat /\ sc * rc \in Nat
      BY <1>1, <3>1
    <3>5. sb * rb >= sc * rc /\ (rb > rc => sb * rb > sc * rc)
      BY <3>2, <3>3, <3>4
    <3> QED BY <3>5 DEF sb, sc
  <2> HIDE DEF Rb, Rc, Kb, Kc
  <2>6. Rb * Kc >= Rc * Kc /\ Rc * Kc >= Rc * Kb
    BY <2>2, <2>3, <2>5
  <2>7. (Rb > Rc => Rb * Kc > Rc * Kc) /\ (Kb < Kc => Rc * Kc > Rc * Kb)
    BY <2>2
  <2>8. Rb * Kc \in Nat /\ Rc * Kc \in Nat /\ Rc * Kb \in Nat
    BY <2>2
  <2>9. Rb > Rc \/ Kb < Kc
    BY <1>1, <1>4, <2>3, <2>5
  <2>10. Rb * Kc > Rc * Kb
    BY <2>6, <2>7, <2>8, <2>9
  <2> QED BY <1>2, <1>6, <2>10 DEF Rb, Rc, Kb, Kc
<1> QED BY <1>5, <1>6

-----------------------------------------------------------------------------
(* The inductive invariant.                                                *)

BidRecords == [courier : Accounts, offered : BidTerms, withdrawn : BOOLEAN]

VaultTypes ==
    /\ now \in Nat \ {0}
    /\ vault \in [Vaults -> VaultRecords \cup {NoVault}]

MarketTypes ==
    /\ VaultTypes
    /\ requests \in [Ids -> RequestRecords \cup {NoRequest}]
    /\ bids \in [Ids -> Seq(BidRecords)]

\* A request has a vault only once it is assigned, and asks for the carriage
\* of something; a bid promised a time that was still to come.
RequestSound(id) ==
    Opened(id) =>
        /\ requests[id].asked.declaredValue > 0
        /\ requests[id].acceptedBid \in 0..Len(bids[id])
        /\ requests[id].vault # NoVault => requests[id].stage = "Assigned"

BidsSound(id) == \A i \in DOMAIN bids[id] : bids[id][i].offered.promisedTime > 1

VaultSound(v) ==
    Deployed(v) =>
        /\ vault[v].initialized
        /\ Courier(v) \in Members
        /\ v \in registeredVaults

\* What the vaults under way are worth, and who carries them.
worth == [v \in Vaults |-> IF Deployed(v) THEN Value(v) ELSE 0]
CarriedBy(a) ==
    {v \in Vaults : Deployed(v) /\ ~vault[v].finalized /\ Courier(v) = a}
carried == [a \in Accounts |-> CarriedBy(a)]
Books == Ledger(reserved, activeValue, worth, carried)

RequestsSound == \A id \in Ids : RequestSound(id) /\ BidsSound(id)
VaultsSound == \A v \in Vaults : VaultSound(v)

\* OneVaultPerDelivery in two parts, about an id, a bid and a vault.
Backed(id, i, v) ==
    /\ v \in Vaults /\ Deployed(v)
    /\ i \in DOMAIN bids[id] /\ ~bids[id][i].withdrawn
    /\ vault[v].terms = TermsOf(id, i)
    /\ Courier(v) \in Members
Assigned(id, i, v) ==
    InStage(id, "Assigned") /\ requests[id].acceptedBid = i /\ requests[id].vault = v
AssignedIsBacked == \A id \in Ids : \A i, v : Assigned(id, i, v) => Backed(id, i, v)
DeployedIsAssigned ==
    \A v \in Vaults : Deployed(v) => \E id \in Ids :
        /\ InStage(id, "Assigned") /\ requests[id].vault = v
        /\ \A other \in Ids : Opened(other) /\ requests[other].vault = v => other = id

MarketInv ==
    /\ MarketTypes /\ RequestsSound /\ VaultsSound
    /\ AssignedIsBacked /\ DeployedIsAssigned
    /\ PoolType /\ Solvent /\ MembersHoldAll /\ Books

-----------------------------------------------------------------------------
(* Steps of a vault.                                                       *)

\* v's record is replaced by another one of the same delivery.
Replaced(v, done) ==
    \E r \in VaultRecords :
      /\ vault' = [vault EXCEPT ![v] = r]
      /\ r.terms = vault[v].terms /\ r.initialized = vault[v].initialized
      /\ r.finalized = done

\* One record is about the same delivery as another.
SameDelivery(r, q) == r.terms = q.terms /\ r.initialized = q.initialized

LEMMA RecordFields ==
  ASSUME NEW r \in VaultRecords
  PROVE  /\ r.balance \in Nat /\ r.toCourier \in Nat /\ r.toBuyer \in Nat
         /\ r.terms.courierFee \in Nat
         /\ r.terms.courier \in Accounts /\ r.terms.declaredValue \in Nat
BY DEF VaultRecords, Terms

\* The record a payment, a refund or a slash leaves.
LEMMA ClosedRecord ==
  ASSUME NEW r \in VaultRecords, NEW n \in Nat, NEW st \in State, NEW q,
         \/ q = [r EXCEPT !.finalized = TRUE, !.state = st, !.toCourier = n, !.balance = 0]
         \/ q = [r EXCEPT !.finalized = TRUE, !.state = st, !.toBuyer = n, !.balance = 0]
  PROVE  q \in VaultRecords /\ SameDelivery(q, r) /\ q.finalized = TRUE
<1> USE DEF VaultRecords, SameDelivery
<1>1. CASE q = [r EXCEPT !.finalized = TRUE, !.state = st, !.toCourier = n, !.balance = 0]
  BY <1>1
<1>2. CASE q = [r EXCEPT !.finalized = TRUE, !.state = st, !.toBuyer = n, !.balance = 0]
  BY <1>2
<1> QED BY <1>1, <1>2

\* The record any other transaction leaves.
LEMMA OpenRecord ==
  ASSUME NEW r \in VaultRecords, NEW n \in Nat, NEW st \in State, NEW q,
         \/ q = [r EXCEPT !.funded = TRUE, !.balance = n]
         \/ q = [r EXCEPT !.state = st]
         \/ q = [r EXCEPT !.state = st, !.deliveredAt = n]
         \/ q = [r EXCEPT !.disputed = TRUE]
  PROVE  q \in VaultRecords /\ SameDelivery(q, r) /\ q.finalized = r.finalized
<1> USE DEF VaultRecords, SameDelivery
<1>1. CASE q = [r EXCEPT !.funded = TRUE, !.balance = n]
  BY <1>1
<1>2. CASE q = [r EXCEPT !.state = st]
  BY <1>2
<1>3. CASE q = [r EXCEPT !.state = st, !.deliveredAt = n]
  BY <1>3
<1>4. CASE q = [r EXCEPT !.disputed = TRUE]
  BY <1>4
<1> QED BY <1>1, <1>2, <1>3, <1>4

LEMMA RecordOf ==
  ASSUME VaultTypes, NEW v \in Vaults, Deployed(v)
  PROVE  /\ vault[v] \in VaultRecords
         /\ Courier(v) \in Accounts /\ Value(v) \in Nat
BY DEF VaultTypes, Deployed, VaultRecords, Terms, Courier, Value

\* A payment or refund finalizes the vault and moves its balance.
LEMMA PaymentReplaces ==
  ASSUME VaultTypes, NEW v \in Vaults, Deployed(v),
         NEW r \in VaultRecords, SameDelivery(r, vault[v]),
         \/ PaidOut(v, r)
         \/ Refunded(v)
         \/ \E n \in Nat : SlashedAndRefunded(v, r, n)
  PROVE  Replaced(v, TRUE)
<1>1. vault[v] \in VaultRecords /\ SameDelivery(vault[v], vault[v])
  BY RecordOf DEF SameDelivery
<1>2. {"Delivered", "Refunded", "Failed"} \subseteq State
  BY DEF State
<1>3. CASE PaidOut(v, r)
  <2> DEFINE n == r.toCourier + r.balance
             q == [r EXCEPT !.finalized = TRUE, !.state = "Delivered",
                            !.toCourier = n, !.balance = 0]
  <2>1. vault' = [vault EXCEPT ![v] = q]
    BY <1>3 DEF PaidOut
  <2>2. n \in Nat
    BY RecordFields
  <2> HIDE DEF n
  <2>3. q \in VaultRecords /\ SameDelivery(q, r) /\ q.finalized = TRUE
    BY <1>2, <2>2, ClosedRecord
  <2> HIDE DEF q
  <2> QED BY <2>1, <2>3 DEF Replaced, SameDelivery
<1>4. CASE Refunded(v)
  <2> DEFINE n == vault[v].toBuyer + vault[v].balance
             q == [vault[v] EXCEPT !.finalized = TRUE, !.state = "Refunded",
                                   !.toBuyer = n, !.balance = 0]
  <2>1. vault' = [vault EXCEPT ![v] = q]
    BY <1>4 DEF Refunded
  <2>2. n \in Nat
    BY <1>1, RecordFields
  <2> HIDE DEF n
  <2>3. q \in VaultRecords /\ SameDelivery(q, vault[v]) /\ q.finalized = TRUE
    BY <1>1, <1>2, <2>2, ClosedRecord
  <2> HIDE DEF q
  <2> QED BY <2>1, <2>3 DEF Replaced, SameDelivery
<1>5. ASSUME NEW k \in Nat, SlashedAndRefunded(v, r, k) PROVE Replaced(v, TRUE)
  <2> DEFINE n == r.toBuyer + r.balance + k
             q == [r EXCEPT !.finalized = TRUE, !.state = "Failed",
                            !.toBuyer = n, !.balance = 0]
  <2>1. vault' = [vault EXCEPT ![v] = q]
    BY <1>5 DEF SlashedAndRefunded
  <2>2. n \in Nat
    BY RecordFields
  <2> HIDE DEF n
  <2>3. q \in VaultRecords /\ SameDelivery(q, r) /\ q.finalized = TRUE
    BY <1>2, <2>2, ClosedRecord
  <2> HIDE DEF q
  <2> QED BY <2>1, <2>3 DEF Replaced, SameDelivery
<1> QED BY <1>3, <1>4, <1>5

LEMMA ReleasingReplaces ==
  ASSUME VaultTypes, NEW v \in Vaults, ReleasingStep(v)
  PROVE  Deployed(v) /\ ~vault[v].finalized /\ Replaced(v, TRUE)
<1>1. Deployed(v) /\ ~vault[v].finalized
  BY DEF ReleasingStep, ConfirmAndPay, Confirmable, ResolveForCourier, FinalizeDelivered,
       Finalizable, RefundOnPickupTimeout, PickupTimedOut, CancelByBuyerPrePickup,
       Cancellable, Pending
<1>2. vault[v] \in VaultRecords /\ now \in Nat /\ SameDelivery(vault[v], vault[v])
  BY <1>1, RecordOf DEF VaultTypes, SameDelivery
<1>3. /\ [vault[v] EXCEPT !.deliveredAt = now] \in VaultRecords
      /\ SameDelivery([vault[v] EXCEPT !.deliveredAt = now], vault[v])
      /\ [vault[v] EXCEPT !.ruling = "courier"] \in VaultRecords
      /\ SameDelivery([vault[v] EXCEPT !.ruling = "courier"], vault[v])
  BY <1>2 DEF VaultRecords, SameDelivery
<1>4. \/ \E r \in VaultRecords : SameDelivery(r, vault[v]) /\ PaidOut(v, r)
      \/ Refunded(v)
  BY <1>2, <1>3 DEF ReleasingStep, ConfirmAndPay, ResolveForCourier, FinalizeDelivered,
       Finalizable, RefundOnPickupTimeout, PickupTimedOut, CancelByBuyerPrePickup
<1> QED BY <1>1, <1>2, <1>4, PaymentReplaces

LEMMA SlashingReplaces ==
  ASSUME VaultTypes, NEW v \in Vaults, NEW n \in Nat, SlashingStep(v, n)
  PROVE  Deployed(v) /\ ~vault[v].finalized /\ Replaced(v, TRUE)
<1>1. Deployed(v) /\ ~vault[v].finalized
  BY DEF SlashingStep, ResolveForBuyer, SlashOnDropoffTimeout, DropoffTimedOut, Pending
<1>2. vault[v] \in VaultRecords /\ SameDelivery(vault[v], vault[v])
  BY <1>1, RecordOf DEF SameDelivery
<1>3. /\ [vault[v] EXCEPT !.ruling = "buyer"] \in VaultRecords
      /\ SameDelivery([vault[v] EXCEPT !.ruling = "buyer"], vault[v])
  BY <1>2 DEF VaultRecords, SameDelivery
<1>4. \E r \in VaultRecords : SameDelivery(r, vault[v]) /\ SlashedAndRefunded(v, r, n)
  BY <1>2, <1>3 DEF SlashingStep, ResolveForBuyer, SlashOnDropoffTimeout, DropoffTimedOut
<1> QED BY <1>1, <1>4, PaymentReplaces

LEMMA QuietReplaces ==
  ASSUME VaultTypes, NEW v \in Vaults, QuietStep(v)
  PROVE  Deployed(v) /\ Replaced(v, vault[v].finalized)
<1>1. Deployed(v)
  BY DEF QuietStep, Fund, Pickup, CanPickUp, ConfirmDelivery, Confirmable, RaiseDispute,
       Disputable, Pending
<1>2. vault[v] \in VaultRecords /\ now \in Nat
  BY <1>1, RecordOf DEF VaultTypes
<1> DEFINE n == vault[v].balance + vault[v].terms.courierFee
           Left(r) == \/ r = [vault[v] EXCEPT !.funded = TRUE, !.balance = n]
                      \/ r = [vault[v] EXCEPT !.state = "PickedUp"]
                      \/ r = [vault[v] EXCEPT !.state = "Delivered", !.deliveredAt = now]
                      \/ r = [vault[v] EXCEPT !.disputed = TRUE]
<1>3. \E r : vault' = [vault EXCEPT ![v] = r] /\ Left(r)
  BY ZenonT(30) DEF QuietStep, Fund, Pickup, CanPickUp, ConfirmDelivery, RaiseDispute, Disputable
<1>4. n \in Nat /\ {"PickedUp", "Delivered"} \subseteq State
  BY <1>2, RecordFields DEF State
<1> HIDE DEF n
<1>5. ASSUME NEW r, Left(r)
      PROVE  r \in VaultRecords /\ SameDelivery(r, vault[v]) /\ r.finalized = vault[v].finalized
  <2> USE <1>2, <1>4
  <2>1. CASE r = [vault[v] EXCEPT !.funded = TRUE, !.balance = n]
    BY <2>1, OpenRecord
  <2>2. CASE r = [vault[v] EXCEPT !.state = "PickedUp"]
    BY <2>2, OpenRecord
  <2>3. CASE r = [vault[v] EXCEPT !.state = "Delivered", !.deliveredAt = now]
    <3>1. "Delivered" \in State /\ now \in Nat
      OBVIOUS
    <3> QED BY <2>3, <3>1 DEF VaultRecords, SameDelivery
  <2>4. CASE r = [vault[v] EXCEPT !.disputed = TRUE]
    BY <2>4, OpenRecord
  <2> QED BY <1>5, <2>1, <2>2, <2>3, <2>4
<1> HIDE DEF Left
<1>6. PICK r : vault' = [vault EXCEPT ![v] = r] /\ Left(r)
  BY <1>3
<1> QED BY <1>1, <1>5, <1>6 DEF Replaced, SameDelivery

-----------------------------------------------------------------------------
(* What is once true of a vault, a request or a list of bids.              *)

\* A vault keeps its terms, a deposit and a dispute; it is taken out of
\* "Funded" once, is refunded from there only, and its end is its last state.
VaultGoesOn(r, q) ==
    r # NoVault =>
        /\ q # NoVault /\ q.terms = r.terms
        /\ r.funded => q.funded
        /\ r.disputed => q.disputed
        /\ r.finalized => q.finalized /\ q.state = r.state
        /\ r.state # "Funded" =>
             q.state # "Funded" /\ (q.state = "Refunded" => r.state = "Refunded")

LEMMA VaultStays == \A r : VaultGoesOn(r, r)
BY DEF VaultGoesOn

LEMMA VaultGoesOnAndOn ==
  ASSUME NEW r, NEW q, NEW p, VaultGoesOn(r, q), VaultGoesOn(q, p)
  PROVE  VaultGoesOn(r, p)
BY DEF VaultGoesOn

\* A payment, a refund or a slash of a vault under way.
LEMMA ClosingGoesOn ==
  ASSUME NEW r \in VaultRecords, ~r.finalized, NEW n,
         NEW st \in {"Delivered", "Refunded", "Failed"}, NEW q,
         st = "Refunded" => r.state = "Funded",
         \/ q = [r EXCEPT !.finalized = TRUE, !.state = st, !.toCourier = n, !.balance = 0]
         \/ q = [r EXCEPT !.finalized = TRUE, !.state = st, !.toBuyer = n, !.balance = 0]
  PROVE  VaultGoesOn(r, q) \/ q = NoVault
<1>1. CASE q = [r EXCEPT !.finalized = TRUE, !.state = st, !.toCourier = n, !.balance = 0]
  BY <1>1 DEF VaultRecords, VaultGoesOn
<1>2. CASE q = [r EXCEPT !.finalized = TRUE, !.state = st, !.toBuyer = n, !.balance = 0]
  BY <1>2 DEF VaultRecords, VaultGoesOn
<1> QED BY <1>1, <1>2

LEMMA QuietGoesOn ==
  ASSUME NEW r \in VaultRecords, NEW n, NEW q,
         \/ q = [r EXCEPT !.funded = TRUE, !.balance = n]
         \/ /\ ~r.finalized
            /\ \/ q = [r EXCEPT !.state = "PickedUp"]
               \/ q = [r EXCEPT !.state = "Delivered", !.deliveredAt = n]
               \/ q = [r EXCEPT !.disputed = TRUE]
               \/ q = [r EXCEPT !.deliveredAt = n]
               \/ q = [r EXCEPT !.ruling = n]
  PROVE  VaultGoesOn(r, q) \/ q = NoVault
<1> USE DEF VaultRecords, VaultGoesOn
<1>1. CASE q = [r EXCEPT !.funded = TRUE, !.balance = n]
  BY <1>1
<1>2. CASE ~r.finalized /\ q = [r EXCEPT !.state = "PickedUp"]
  BY <1>2
<1>3. CASE ~r.finalized /\ q = [r EXCEPT !.state = "Delivered", !.deliveredAt = n]
  BY <1>3
<1>4. CASE ~r.finalized /\ q = [r EXCEPT !.disputed = TRUE]
  BY <1>4
<1>5. CASE ~r.finalized /\ q = [r EXCEPT !.deliveredAt = n]
  BY <1>5
<1>6. CASE ~r.finalized /\ q = [r EXCEPT !.ruling = n]
  BY <1>6
<1> QED BY <1>1, <1>2, <1>3, <1>4, <1>5, <1>6

\* A step of a vault, whoever takes it.
VaultStep(v) ==
    QuietStep(v) \/ ReleasingStep(v) \/ \E n \in Nat : SlashingStep(v, n)

LEMMA VaultStepIsOwn ==
  ASSUME VaultTypes, NEW v \in Vaults, VaultStep(v)
  PROVE  /\ Deployed(v) /\ vault'[v] \in VaultRecords
         /\ vault' \in [Vaults -> VaultRecords \cup {NoVault}]
         /\ \A w \in Vaults \ {v} : vault'[w] = vault[w]
<1>1. Deployed(v) /\ \E done : Replaced(v, done)
  BY QuietReplaces, ReleasingReplaces, SlashingReplaces DEF VaultStep
<1> QED BY <1>1 DEF Replaced, VaultTypes

LEMMA VaultStepGoesOn ==
  ASSUME VaultTypes, NEW v \in Vaults, VaultStep(v)
  PROVE  \A w \in Vaults : VaultGoesOn(vault[w], vault'[w])
<1> DEFINE r == vault[v]
           q == vault'[v]
<1>1. /\ Deployed(v) /\ r \in VaultRecords /\ q \in VaultRecords
      /\ \A w \in Vaults \ {v} : vault'[w] = vault[w]
      /\ vault \in [Vaults -> VaultRecords \cup {NoVault}]
  BY VaultStepIsOwn, RecordOf DEF VaultTypes
<1>2. q # NoVault
  BY <1>1, VaultConstants
<1>3. VaultGoesOn(r, q)
  <2>1. CASE QuietStep(v)
    <3> DEFINE n == vault[v].balance + vault[v].terms.courierFee
    <3>1. \/ q = [r EXCEPT !.funded = TRUE, !.balance = n]
          \/ /\ ~r.finalized
             /\ \/ q = [r EXCEPT !.state = "PickedUp"]
                \/ q = [r EXCEPT !.state = "Delivered", !.deliveredAt = now]
                \/ q = [r EXCEPT !.disputed = TRUE]
      BY <1>1, <2>1 DEF QuietStep, Fund, Pickup, CanPickUp, ConfirmDelivery, Confirmable,
           RaiseDispute, Disputable,
         Pending
    <3> HIDE DEF n, r, q
    <3> QED BY <1>1, <1>2, <3>1, QuietGoesOn
  <2>2. CASE ReleasingStep(v)
    <3>1. ~r.finalized
      BY <2>2 DEF ReleasingStep, ConfirmAndPay, Confirmable, ResolveForCourier,
         FinalizeDelivered, Finalizable, RefundOnPickupTimeout, PickupTimedOut,
         CancelByBuyerPrePickup, Cancellable, Pending
    <3>2. CASE \/ ConfirmAndPay(v) \/ ResolveForCourier(v) \/ FinalizeDelivered(v)
      <4>1. \E p : /\ p = r \/ p = [r EXCEPT !.deliveredAt = now]
                      \/ p = [r EXCEPT !.ruling = "courier"]
                   /\ PaidOut(v, p)
        BY <3>2 DEF ConfirmAndPay, ResolveForCourier, FinalizeDelivered, Finalizable
      <4>2. PICK p : /\ p = r \/ p = [r EXCEPT !.deliveredAt = now]
                        \/ p = [r EXCEPT !.ruling = "courier"]
                     /\ PaidOut(v, p)
        BY <4>1
      <4>3. now \in Nat
        BY DEF VaultTypes
      <4> HIDE DEF r
      <4>4. p \in VaultRecords /\ ~p.finalized
        BY <1>1, <3>1, <4>2, <4>3 DEF VaultRecords
      <4>5. VaultGoesOn(r, p)
        <5>1. p # NoVault
          BY <4>4, VaultConstants
        <5> QED BY <1>1, <3>1, <4>2, <5>1, QuietGoesOn, VaultStays
      <4> DEFINE n == p.toCourier + p.balance
      <4>6. q = [p EXCEPT !.finalized = TRUE, !.state = "Delivered", !.toCourier = n,
                          !.balance = 0]
        BY <1>1, <4>2 DEF PaidOut
      <4> HIDE DEF n, q
      <4>7. VaultGoesOn(p, q)
        BY <1>2, <4>4, <4>6, ClosingGoesOn
      <4> QED BY <4>5, <4>7, VaultGoesOnAndOn
    <3>3. CASE RefundOnPickupTimeout(v) \/ CancelByBuyerPrePickup(v)
      <4> DEFINE n == r.toBuyer + r.balance
      <4>1. /\ r.state = "Funded"
            /\ q = [r EXCEPT !.finalized = TRUE, !.state = "Refunded", !.toBuyer = n,
                             !.balance = 0]
        BY <1>1, <3>3 DEF RefundOnPickupTimeout, PickupTimedOut, CancelByBuyerPrePickup,
           Cancellable, Refunded
      <4> HIDE DEF n, r, q
      <4> QED BY <1>1, <1>2, <3>1, <4>1, ClosingGoesOn
    <3> QED BY <2>2, <3>2, <3>3 DEF ReleasingStep
  <2>3. ASSUME NEW k \in Nat, SlashingStep(v, k) PROVE VaultGoesOn(r, q)
    <3>1. ~r.finalized
      BY <2>3 DEF SlashingStep, ResolveForBuyer, SlashOnDropoffTimeout, DropoffTimedOut, Pending
    <3>2. \E p : /\ p = r \/ p = [r EXCEPT !.ruling = "buyer"]
                 /\ SlashedAndRefunded(v, p, k)
      BY <2>3 DEF SlashingStep, ResolveForBuyer, SlashOnDropoffTimeout, DropoffTimedOut
    <3>3. PICK p : /\ p = r \/ p = [r EXCEPT !.ruling = "buyer"]
                   /\ SlashedAndRefunded(v, p, k)
      BY <3>2
    <3> HIDE DEF r
    <3>4. p \in VaultRecords /\ ~p.finalized
      BY <1>1, <3>1, <3>3 DEF VaultRecords
    <3>5. VaultGoesOn(r, p)
      <4>1. p # NoVault
        BY <3>4, VaultConstants
      <4> QED BY <1>1, <3>1, <3>3, <4>1, QuietGoesOn, VaultStays
    <3> DEFINE n == p.toBuyer + p.balance + k
    <3>6. q = [p EXCEPT !.finalized = TRUE, !.state = "Failed", !.toBuyer = n, !.balance = 0]
      BY <1>1, <3>3 DEF SlashedAndRefunded
    <3> HIDE DEF n, q
    <3>7. VaultGoesOn(p, q)
      BY <1>2, <3>4, <3>6, ClosingGoesOn
    <3> QED BY <3>5, <3>7, VaultGoesOnAndOn
  <2> QED BY <2>1, <2>2, <2>3 DEF VaultStep
<1> QED BY <1>1, <1>3, VaultStays

\* Requests keep what they ask for; hashes once published stay, and once it is
\* assigned or cancelled nothing changes any more.
RequestGoesOn(r, q) ==
    r # NoRequest =>
        /\ q # NoRequest /\ q.asked = r.asked
        /\ r.hashed => q.hashed
        /\ r.stage # "Open" => q = r

\* Bids stay where they are and as they are, but for their withdrawal.
StaysIn(book, later) ==
    \A i \in DOMAIN book :
        /\ i \in DOMAIN later
        /\ later[i].courier = book[i].courier /\ later[i].offered = book[i].offered
        /\ book[i].withdrawn => later[i].withdrawn

LEMMA RequestStays == \A r : RequestGoesOn(r, r)
BY DEF RequestGoesOn

LEMMA RequestGoesOnAndOn ==
  ASSUME NEW r, NEW q, NEW p, RequestGoesOn(r, q), RequestGoesOn(q, p)
  PROVE  RequestGoesOn(r, p)
BY DEF RequestGoesOn

LEMMA BidsStay == \A book : StaysIn(book, book)
BY DEF StaysIn

LEMMA StayingOn ==
  ASSUME NEW a, NEW b, NEW c, StaysIn(a, b), StaysIn(b, c)
  PROVE  StaysIn(a, c)
BY DEF StaysIn

\* Requests and bids over any set of terms asked for, and any of terms offered.
RequestsOver(Ask) ==
    [asked : Ask, hashed : BOOLEAN, stage : {"Open", "Assigned", "Cancelled"},
     acceptedBid : Nat, vault : Vaults \cup {NoVault}]
BidsOver(Off) == [courier : Accounts, offered : Off, withdrawn : BOOLEAN]

RegistryTypes(Ask, Off) ==
    /\ requests \in [Ids -> RequestsOver(Ask) \cup {NoRequest}]
    /\ bids \in [Ids -> Seq(BidsOver(Off))]

\* What a transaction of the registry leaves, if it moves a request or a bid.
RegistryGoesOn(Ask, Off) ==
    /\ RegistryTypes(Ask, Off)'
    /\ \A id \in Ids : RequestGoesOn(requests[id], requests'[id])
    /\ \A id \in Ids : StaysIn(bids[id], bids'[id])

LEMMA RegistryWaits ==
  ASSUME NEW Ask, NEW Off, RegistryTypes(Ask, Off), UNCHANGED <<requests, bids>>
  PROVE  RegistryGoesOn(Ask, Off)
BY RequestStays, BidsStay DEF RegistryGoesOn, RegistryTypes

LEMMA RequestMovesOn ==
  ASSUME NEW Ask, NEW Off, RegistryTypes(Ask, Off), UNCHANGED bids,
         NEW key, NEW q \in RequestsOver(Ask), requests' = [requests EXCEPT ![key] = q],
         key \in Ids => RequestGoesOn(requests[key], q)
  PROVE  RegistryGoesOn(Ask, Off)
<1>1. \A id \in Ids : requests'[id] = IF id = key THEN q ELSE requests[id]
  BY DEF RegistryTypes
<1>2. RegistryTypes(Ask, Off)'
  BY DEF RegistryTypes
<1> QED BY <1>1, <1>2, RequestStays, BidsStay DEF RegistryGoesOn

LEMMA BidsMoveOn ==
  ASSUME NEW Ask, NEW Off, RegistryTypes(Ask, Off), UNCHANGED requests,
         NEW key, NEW L \in Seq(BidsOver(Off)), bids' = [bids EXCEPT ![key] = L],
         key \in Ids => StaysIn(bids[key], L)
  PROVE  RegistryGoesOn(Ask, Off)
<1>1. \A id \in Ids : bids'[id] = IF id = key THEN L ELSE bids[id]
  BY DEF RegistryTypes
<1>2. RegistryTypes(Ask, Off)'
  BY DEF RegistryTypes
<1> QED BY <1>1, <1>2, RequestStays, BidsStay DEF RegistryGoesOn

LEMMA OpeningGoesOn ==
  ASSUME NEW Ask, NEW Off, RegistryTypes(Ask, Off),
         NEW s, NEW r \in Ask, OpenRequest(s, r)
  PROVE  RegistryGoesOn(Ask, Off)
<1> DEFINE key == <<s, sellerNonce[s] + 1>>
           q == [asked |-> r, hashed |-> FALSE, stage |-> "Open",
                 acceptedBid |-> 0, vault |-> NoVault]
<1>1. ~Opened(key) /\ requests' = [requests EXCEPT ![key] = q] /\ UNCHANGED bids
  BY DEF OpenRequest
<1>2. q \in RequestsOver(Ask)
  BY DEF RequestsOver
<1> HIDE DEF q, key
<1>3. RequestGoesOn(requests[key], q)
  BY <1>1 DEF RequestGoesOn, Opened
<1> QED BY <1>1, <1>2, <1>3, RequestMovesOn

\* Publishing, cancelling and accepting are for open requests.
LEMMA OpenRequestMoves ==
  ASSUME NEW Ask, NEW Off, RegistryTypes(Ask, Off), NoRequest \notin RequestsOver(Ask),
         NEW id \in Ids, InStage(id, "Open"), UNCHANGED bids,
         \/ PublishHashes(id) \/ CancelRequest(id)
         \/ \E i \in Nat, v \in Vaults : Assign(id, i, v)
  PROVE  RegistryGoesOn(Ask, Off)
<1> DEFINE r == requests[id]
           hashing == [r EXCEPT !.hashed = TRUE]
           cancelling == [r EXCEPT !.stage = "Cancelled"]
           assigning(i, v) == [r EXCEPT !.stage = "Assigned", !.acceptedBid = i, !.vault = v]
<1>1. r \in RequestsOver(Ask) /\ r.stage = "Open" /\ r # NoRequest
  BY DEF RegistryTypes, InStage, Opened
<1>2. ASSUME NEW q \in RequestsOver(Ask), requests' = [requests EXCEPT ![id] = q],
             q.asked = r.asked, r.hashed => q.hashed
      PROVE  RegistryGoesOn(Ask, Off)
  <2>1. q # NoRequest
    BY <1>2
  <2>2. RequestGoesOn(requests[id], q)
    BY <1>1, <1>2, <2>1 DEF RequestGoesOn
  <2> QED BY <1>2, <2>2, RequestMovesOn
<1> HIDE DEF r
<1>3. CASE PublishHashes(id)
  <2>1. requests' = [requests EXCEPT ![id] = hashing]
    BY <1>3 DEF PublishHashes, r
  <2>2. hashing \in RequestsOver(Ask) /\ hashing.asked = r.asked /\ hashing.hashed
    BY <1>1 DEF RequestsOver
  <2> HIDE DEF hashing
  <2> QED BY <1>2, <2>1, <2>2
<1>4. CASE CancelRequest(id)
  <2>1. requests' = [requests EXCEPT ![id] = cancelling]
    BY <1>4 DEF CancelRequest, r
  <2>2. /\ cancelling \in RequestsOver(Ask) /\ cancelling.asked = r.asked
        /\ r.hashed => cancelling.hashed
    BY <1>1 DEF RequestsOver
  <2> HIDE DEF cancelling
  <2> QED BY <1>2, <2>1, <2>2
<1>5. ASSUME NEW i \in Nat, NEW v \in Vaults, Assign(id, i, v)
      PROVE  RegistryGoesOn(Ask, Off)
  <2> DEFINE q == assigning(i, v)
  <2>1. requests' = [requests EXCEPT ![id] = q]
    BY <1>5 DEF Assign, r
  <2>2. q \in RequestsOver(Ask) /\ q.asked = r.asked /\ (r.hashed => q.hashed)
    BY <1>1 DEF RequestsOver
  <2> HIDE DEF q
  <2> QED BY <1>2, <2>1, <2>2
<1> QED BY <1>3, <1>4, <1>5

LEMMA BiddingGoesOn ==
  ASSUME NEW Ask, NEW Off, RegistryTypes(Ask, Off), NEW id \in Ids,
         \/ \E a \in Accounts, b \in Off : PlaceBid(id, a, b)
         \/ \E i : WithdrawBid(id, i)
  PROVE  RegistryGoesOn(Ask, Off)
<1>1. bids[id] \in Seq(BidsOver(Off))
  BY DEF RegistryTypes
<1>2. ASSUME NEW a \in Accounts, NEW b \in Off, PlaceBid(id, a, b)
      PROVE  RegistryGoesOn(Ask, Off)
  <2> DEFINE new == [courier |-> a, offered |-> b, withdrawn |-> FALSE]
             L == Append(bids[id], new)
  <2>1. new \in BidsOver(Off)
    BY DEF BidsOver
  <2>2. bids' = [bids EXCEPT ![id] = L] /\ UNCHANGED requests
    BY <1>2 DEF PlaceBid
  <2> HIDE DEF new
  <2>3. L \in Seq(BidsOver(Off)) /\ StaysIn(bids[id], L)
    BY <1>1, <2>1 DEF StaysIn
  <2> HIDE DEF L
  <2> QED BY <2>2, <2>3, BidsMoveOn
<1>3. ASSUME NEW i, WithdrawBid(id, i)
      PROVE  RegistryGoesOn(Ask, Off)
  <2> DEFINE old == bids[id][i]
             new == [old EXCEPT !.withdrawn = TRUE]
             L == [bids[id] EXCEPT ![i] = new]
  <2>1. i \in DOMAIN bids[id] /\ bids' = [bids EXCEPT ![id] = L] /\ UNCHANGED requests
    BY <1>3 DEF WithdrawBid
  <2>2. old \in BidsOver(Off)
    BY <1>1, <2>1
  <2>3. old = bids[id][i]
    OBVIOUS
  <2> HIDE DEF old
  <2>4. /\ new \in BidsOver(Off) /\ new.withdrawn
        /\ new.courier = old.courier /\ new.offered = old.offered
    BY <2>2 DEF BidsOver
  <2> HIDE DEF new
  <2>5. L \in Seq(BidsOver(Off)) /\ StaysIn(bids[id], L)
    BY <1>1, <2>1, <2>3, <2>4 DEF StaysIn
  <2> HIDE DEF L
  <2> QED BY <2>1, <2>5, BidsMoveOn
<1> QED BY <1>2, <1>3

-----------------------------------------------------------------------------
(* What the parts of the invariant depend on.                              *)

LEMMA BooksForm ==
  ASSUME MarketTypes, PoolType, Books
  PROVE  /\ reserved \in [Accounts -> Nat]
         /\ worth \in [Vaults -> Nat]
         /\ carried \in [Accounts -> SUBSET Vaults]
         /\ Ledger(reserved, activeValue, worth, carried)
<1>1. \A v \in Vaults : worth[v] \in Nat
  BY RecordOf DEF worth, MarketTypes
<1>2. worth \in [Vaults -> Nat]
  BY <1>1 DEF worth
<1>3. carried \in [Accounts -> SUBSET Vaults]
  BY DEF carried, CarriedBy
<1> QED BY <1>2, <1>3 DEF PoolType, Books

\* A delivery under way is within its courier's reservation and the pool's
\* active value.
LEMMA UnderWay ==
  ASSUME MarketTypes, PoolType, Books, NEW v \in Vaults, Deployed(v), ~vault[v].finalized
  PROVE  /\ Courier(v) \in Accounts /\ Value(v) \in Nat
         /\ v \in carried[Courier(v)] /\ worth[v] = Value(v)
         /\ Value(v) <= reserved[Courier(v)] /\ reserved[Courier(v)] <= activeValue
<1>1. Courier(v) \in Accounts /\ Value(v) \in Nat
  BY RecordOf DEF MarketTypes
<1>2. v \in carried[Courier(v)] /\ worth[v] = Value(v)
  BY <1>1 DEF carried, CarriedBy, worth
<1>3. /\ reserved \in [Accounts -> Nat]
      /\ worth \in [Vaults -> Nat]
      /\ carried \in [Accounts -> SUBSET Vaults]
      /\ Ledger(reserved, activeValue, worth, carried)
  BY BooksForm
<1> HIDE DEF worth, carried
<1>4. worth[v] <= reserved[Courier(v)] /\ reserved[Courier(v)] <= activeValue
  BY <1>1, <1>2, <1>3, LedgerEntry
<1> QED BY <1>1, <1>2, <1>4

\* While no vault moves and the pool's claims stand, so do the books.
LEMMA VaultsStand ==
  ASSUME VaultsSound, Books,
         UNCHANGED <<vault, reserved, activeValue, registeredVaults>>,
         Members \subseteq Members'
  PROVE  VaultsSound' /\ Books'
<1>1. VaultsSound'
  BY DEF VaultsSound, VaultSound, Deployed, Courier
<1>2. worth' = worth /\ carried' = carried
  BY DEF worth, carried, CarriedBy, Deployed, Value, Courier
<1>3. Books'
  BY <1>2 DEF Books, Ledger
<1> QED BY <1>1, <1>3

\* A vault that moves keeps its delivery.
LEMMA DeliveriesStand ==
  ASSUME AssignedIsBacked, DeployedIsAssigned, UNCHANGED <<requests, bids>>,
         \A v \in Vaults : /\ vault'[v] # NoVault <=> vault[v] # NoVault
                           /\ vault[v] # NoVault => vault'[v].terms = vault[v].terms,
         Members \subseteq Members'
  PROVE  AssignedIsBacked' /\ DeployedIsAssigned'
<1>1. ASSUME NEW id \in Ids, NEW i, NEW v, Assigned(id, i, v)'
      PROVE  Backed(id, i, v)'
  <2>1. Assigned(id, i, v)
    BY <1>1 DEF Assigned, InStage, Opened
  <2>2. Backed(id, i, v)
    BY <2>1 DEF AssignedIsBacked
  <2>3. v \in Vaults /\ Deployed(v)' /\ vault'[v].terms = vault[v].terms
    BY <2>2 DEF Backed, Deployed
  <2>4. TermsOf(id, i)' = TermsOf(id, i) /\ bids'[id] = bids[id]
    BY DEF TermsOf, Contract
  <2>5. vault'[v].terms = TermsOf(id, i)'
    BY <2>2, <2>3, <2>4 DEF Backed
  <2>6. Courier(v)' = Courier(v)
    BY <2>3 DEF Courier
  <2> QED BY <2>2, <2>3, <2>4, <2>5, <2>6 DEF Backed
<1>2. ASSUME NEW v \in Vaults, Deployed(v)'
      PROVE  \E id \in Ids :
                /\ InStage(id, "Assigned")' /\ requests'[id].vault = v
                /\ \A other \in Ids : Opened(other)' /\ requests'[other].vault = v
                                       => other = id
  <2>1. Deployed(v)
    BY <1>2 DEF Deployed
  <2> QED BY <2>1 DEF DeployedIsAssigned, InStage, Opened
<1> QED BY <1>1, <1>2 DEF AssignedIsBacked, DeployedIsAssigned

\* So does a request that moves before it is assigned.
LEMMA RequestsMove ==
  ASSUME AssignedIsBacked, DeployedIsAssigned, NoVault \notin Vaults, UNCHANGED vault,
         Members \subseteq Members',
         \A id \in Ids : InStage(id, "Assigned") =>
              requests'[id] = requests[id] /\ bids'[id] = bids[id],
         \A id \in Ids : Opened(id)' =>
              \/ requests'[id] = requests[id]
              \/ requests'[id].stage # "Assigned" /\ requests'[id].vault = NoVault
  PROVE  AssignedIsBacked' /\ DeployedIsAssigned'
<1>1. ASSUME NEW id \in Ids, NEW i, NEW v, Assigned(id, i, v)'
      PROVE  Backed(id, i, v)'
  <2>1. Assigned(id, i, v) /\ bids'[id] = bids[id] /\ requests'[id] = requests[id]
    BY <1>1 DEF Assigned, InStage, Opened
  <2>2. Backed(id, i, v)
    BY <2>1 DEF AssignedIsBacked
  <2> QED BY <2>1, <2>2 DEF Backed, TermsOf, Contract, Courier, Deployed
<1>2. ASSUME NEW v \in Vaults, Deployed(v)'
      PROVE  \E id \in Ids :
                /\ InStage(id, "Assigned")' /\ requests'[id].vault = v
                /\ \A other \in Ids : Opened(other)' /\ requests'[other].vault = v
                                       => other = id
  <2>1. PICK id \in Ids :
                /\ InStage(id, "Assigned") /\ requests[id].vault = v
                /\ \A other \in Ids : Opened(other) /\ requests[other].vault = v
                                       => other = id
    BY <1>2 DEF DeployedIsAssigned, Deployed
  <2>2. ASSUME NEW other \in Ids, Opened(other)', requests'[other].vault = v
        PROVE  other = id
    BY <2>1, <2>2 DEF Opened
  <2>3. InStage(id, "Assigned")' /\ requests'[id].vault = v
    BY <2>1 DEF InStage, Opened
  <2> QED BY <2>2, <2>3
<1> QED BY <1>1, <1>2 DEF AssignedIsBacked, DeployedIsAssigned

-----------------------------------------------------------------------------
(* The pool's side of a step.                                              *)

LEMMA MembershipOp ==
  ASSUME PoolType, Amounts \subseteq Nat, Registry \in Factories, Membership
  PROVE  /\ PoolOp
         /\ UNCHANGED <<reserved, activeValue, registeredVaults>>
         /\ Members \subseteq Members'
<1>1. CASE SetFactory(Registry)
  BY <1>1 DEF SetFactory, PoolOp, AdminOp, claims, admin, Members
<1>2. ASSUME NEW a \in Accounts, AdmitMember(a)
      PROVE  /\ PoolOp /\ UNCHANGED <<reserved, activeValue, registeredVaults>>
             /\ Members \subseteq Members'
  <2>1. memberList \in Seq(Accounts) /\ memberList' = Append(memberList, a)
    BY <1>2 DEF AdmitMember, PoolType
  <2>2. Members \subseteq Members'
    BY <2>1 DEF Members, Range
  <2> QED BY <1>2, <2>2 DEF AdmitMember, PoolOp, MemberOp, claims
<1>3. ASSUME NEW a \in Accounts, NEW n \in Amounts, DepositStake(a, n) \/ RequestWithdraw(a, n)
      PROVE  /\ PoolOp /\ UNCHANGED <<reserved, activeValue, registeredVaults>>
             /\ Members \subseteq Members'
  <2>1. n \in Nat
    OBVIOUS
  <2> QED BY <1>3, <2>1 DEF DepositStake, RequestWithdraw, PoolOp, MemberOp, claims, admin,
       Members
<1>4. ASSUME NEW a \in Accounts, FinalizeWithdraw(a)
      PROVE  /\ PoolOp /\ UNCHANGED <<reserved, activeValue, registeredVaults>>
             /\ Members \subseteq Members'
  BY <1>4 DEF FinalizeWithdraw, Collect, PoolOp, MemberOp, claims, admin, Members
<1> QED BY <1>1, <1>2, <1>3, <1>4 DEF Membership

-----------------------------------------------------------------------------
(* Steps of the registry that leave vaults and pool alone.                 *)

\* The constants of the market, one fact each.
LEMMA MarketFacts ==
  /\ NoVault \notin Vaults /\ NoVault \notin VaultRecords
  /\ NoRequest \notin RequestRecords
  /\ Amounts \subseteq Nat /\ Registry \in Factories
  /\ \A r \in RequestTerms :
       /\ r.declaredValue \in Nat /\ r.disputeWindow \in Nat
       /\ r.refuses \subseteq Parties
  /\ \A b \in BidTerms :
       b.price \in Nat /\ b.promisedTime \in Nat /\ b.refuses \subseteq Parties
BY MarketConstants, VaultConstants, RegistryConstants

\* A request that moves is opened, or was open and is not assigned yet.
RequestMoves(id) ==
    \/ requests'[id] = requests[id]
    \/ /\ requests'[id] \in RequestRecords
       /\ requests'[id].asked.declaredValue > 0
       /\ requests'[id].acceptedBid \in 0..Len(bids[id])
       /\ requests'[id].stage # "Assigned" /\ requests'[id].vault = NoVault
       /\ ~InStage(id, "Assigned")

LEMMA OpenedRecord ==
  ASSUME MarketTypes, RequestsSound, NEW id \in Ids, InStage(id, "Open")
  PROVE  /\ requests[id] \in RequestRecords
         /\ requests[id].asked.declaredValue > 0
         /\ requests[id].acceptedBid \in 0..Len(bids[id])
         /\ requests[id].vault = NoVault
BY DEF MarketTypes, VaultTypes, RequestsSound, RequestSound, InStage, Opened

LEMMA AskingMoves ==
  ASSUME MarketTypes, RequestsSound, Asking
  PROVE  /\ UNCHANGED bids
         /\ requests' \in [Ids -> RequestRecords \cup {NoRequest}]
         /\ \A id \in Ids : RequestMoves(id)
<1>0. requests \in [Ids -> RequestRecords \cup {NoRequest}] /\ bids \in [Ids -> Seq(BidRecords)]
  BY DEF MarketTypes, VaultTypes
<1>1. ASSUME NEW s \in Sellers, NEW p \in Policies, SetAgentPolicy(s, p)
      PROVE  UNCHANGED <<requests, bids>>
  BY <1>1 DEF SetAgentPolicy
<1>2. ASSUME NEW s \in Sellers, NEW r \in RequestTerms, OpenRequest(s, r)
      PROVE  \E key : \E q \in RequestRecords :
               /\ requests' = [requests EXCEPT ![key] = q]
               /\ ~Opened(key) /\ UNCHANGED bids
               /\ q.asked.declaredValue > 0 /\ q.acceptedBid = 0
               /\ q.stage = "Open" /\ q.vault = NoVault
  <2> DEFINE q == [asked |-> r, hashed |-> FALSE, stage |-> "Open",
                   acceptedBid |-> 0, vault |-> NoVault]
             key == <<s, sellerNonce[s] + 1>>
  <2>1. /\ requests' = [requests EXCEPT ![key] = q] /\ ~Opened(key)
        /\ r.declaredValue > 0 /\ UNCHANGED bids
    BY <1>2 DEF OpenRequest, Askable
  <2>2. /\ q \in RequestRecords /\ q.asked.declaredValue > 0 /\ q.acceptedBid = 0
        /\ q.stage = "Open" /\ q.vault = NoVault
    BY <2>1 DEF RequestRecords
  <2> HIDE DEF q, key
  <2> QED BY <2>1, <2>2
<1>3. ASSUME NEW key \in Ids, PublishHashes(key) \/ CancelRequest(key)
      PROVE  \E q \in RequestRecords :
               /\ requests' = [requests EXCEPT ![key] = q] /\ UNCHANGED bids
               /\ InStage(key, "Open")
               /\ q.asked = requests[key].asked
               /\ q.acceptedBid = requests[key].acceptedBid
               /\ q.stage # "Assigned" /\ q.vault = requests[key].vault
  <2>1. InStage(key, "Open") /\ UNCHANGED bids
    BY <1>3 DEF PublishHashes, CancelRequest
  <2>2. requests[key] \in RequestRecords /\ requests[key].stage = "Open"
    BY <2>1, OpenedRecord DEF InStage
  <2>3. CASE PublishHashes(key)
    <3> DEFINE q == [requests[key] EXCEPT !.hashed = TRUE]
    <3>1. /\ q \in RequestRecords /\ q.asked = requests[key].asked
          /\ q.acceptedBid = requests[key].acceptedBid
          /\ q.stage # "Assigned" /\ q.vault = requests[key].vault
      BY <2>2 DEF RequestRecords
    <3>2. requests' = [requests EXCEPT ![key] = q]
      BY <2>3 DEF PublishHashes
    <3> HIDE DEF q
    <3> QED BY <2>1, <3>1, <3>2
  <2>4. CASE CancelRequest(key)
    <3> DEFINE q == [requests[key] EXCEPT !.stage = "Cancelled"]
    <3>1. /\ q \in RequestRecords /\ q.asked = requests[key].asked
          /\ q.acceptedBid = requests[key].acceptedBid
          /\ q.stage # "Assigned" /\ q.vault = requests[key].vault
      BY <2>2 DEF RequestRecords
    <3>2. requests' = [requests EXCEPT ![key] = q]
      BY <2>4 DEF CancelRequest
    <3> HIDE DEF q
    <3> QED BY <2>1, <3>1, <3>2
  <2> QED BY <1>3, <2>3, <2>4
<1>4. ASSUME NEW key, NEW q \in RequestRecords, UNCHANGED bids,
             requests' = [requests EXCEPT ![key] = q],
             key \in Ids =>
               /\ q.asked.declaredValue > 0 /\ q.acceptedBid \in 0..Len(bids[key])
               /\ q.stage # "Assigned" /\ q.vault = NoVault /\ ~InStage(key, "Assigned")
      PROVE  /\ UNCHANGED bids
             /\ requests' \in [Ids -> RequestRecords \cup {NoRequest}]
             /\ \A id \in Ids : RequestMoves(id)
  BY <1>0, <1>4 DEF RequestMoves
<1>5. CASE \E s \in Sellers, p \in Policies : SetAgentPolicy(s, p)
  BY <1>0, <1>1, <1>5 DEF RequestMoves
<1>6. CASE \E s \in Sellers, r \in RequestTerms : OpenRequest(s, r)
  <2>1. PICK key, q :
               /\ q \in RequestRecords
               /\ requests' = [requests EXCEPT ![key] = q]
               /\ ~Opened(key) /\ UNCHANGED bids
               /\ q.asked.declaredValue > 0 /\ q.acceptedBid = 0
               /\ q.stage = "Open" /\ q.vault = NoVault
    BY <1>2, <1>6
  <2>2. key \in Ids => 0 \in 0..Len(bids[key])
    BY <1>0
  <2>3. ~InStage(key, "Assigned")
    BY <2>1 DEF InStage
  <2> QED BY <1>4, <2>1, <2>2, <2>3
<1>7. CASE \E id \in Ids : PublishHashes(id) \/ CancelRequest(id)
  <2>1. PICK key \in Ids : PublishHashes(key) \/ CancelRequest(key)
    BY <1>7
  <2>2. PICK q \in RequestRecords :
               /\ requests' = [requests EXCEPT ![key] = q] /\ UNCHANGED bids
               /\ InStage(key, "Open")
               /\ q.asked = requests[key].asked
               /\ q.acceptedBid = requests[key].acceptedBid
               /\ q.stage # "Assigned" /\ q.vault = requests[key].vault
    BY <1>3, <2>1
  <2>3. ~InStage(key, "Assigned")
    BY <2>2 DEF InStage
  <2> QED BY <1>4, <2>2, <2>3, OpenedRecord
<1> QED BY <1>5, <1>6, <1>7 DEF Asking

\* A bid that is placed or withdrawn leaves a list of bids as long at least.
LEMMA BiddingMoves ==
  ASSUME MarketTypes, RequestsSound, Bidding
  PROVE  /\ UNCHANGED requests
         /\ bids' \in [Ids -> Seq(BidRecords)]
         /\ \A id \in Ids :
              \/ bids'[id] = bids[id]
              \/ /\ ~InStage(id, "Assigned")
                 /\ Len(bids'[id]) >= Len(bids[id])
                 /\ \A i \in DOMAIN bids'[id] : bids'[id][i].offered.promisedTime > 1
<1>0. bids \in [Ids -> Seq(BidRecords)] /\ now \in Nat \ {0}
  BY DEF MarketTypes, VaultTypes
<1>1. PICK key \in Ids :
         \/ \E a \in Accounts, b \in BidTerms : PlaceBid(key, a, b)
         \/ \E i \in 1..MaxBids : WithdrawBid(key, i)
  BY DEF Bidding
<1>2. InStage(key, "Open") /\ UNCHANGED requests
  BY <1>1 DEF PlaceBid, Biddable, WithdrawBid
<1>3. \A i \in DOMAIN bids[key] : bids[key][i].offered.promisedTime > 1
  BY DEF RequestsSound, BidsSound
<1>4. \E L \in Seq(BidRecords) :
        /\ bids' = [bids EXCEPT ![key] = L] /\ Len(L) >= Len(bids[key])
        /\ \A i \in DOMAIN L : L[i].offered.promisedTime > 1
  <2>1. bids[key] \in Seq(BidRecords)
    BY <1>0
  <2>2. ASSUME NEW a \in Accounts, NEW b \in BidTerms, PlaceBid(key, a, b)
        PROVE  \E L \in Seq(BidRecords) :
                 /\ bids' = [bids EXCEPT ![key] = L] /\ Len(L) >= Len(bids[key])
                 /\ \A i \in DOMAIN L : L[i].offered.promisedTime > 1
    <3> DEFINE new == [courier |-> a, offered |-> b, withdrawn |-> FALSE]
               L == Append(bids[key], new)
    <3>1. new \in BidRecords /\ new.offered.promisedTime > 1
      <4>1. b.promisedTime > now /\ b.promisedTime \in Nat
        BY <2>2, MarketFacts DEF PlaceBid, Biddable
      <4> QED BY <1>0, <4>1 DEF BidRecords
    <3>2. bids' = [bids EXCEPT ![key] = L]
      BY <2>2 DEF PlaceBid
    <3> HIDE DEF new
    <3>3. L \in Seq(BidRecords) /\ Len(L) = Len(bids[key]) + 1 /\ Len(bids[key]) \in Nat
      BY <2>1, <3>1
    <3>4. ASSUME NEW i \in DOMAIN L PROVE L[i].offered.promisedTime > 1
      BY <1>3, <2>1, <3>1
    <3>5. Len(L) >= Len(bids[key])
      BY <3>3
    <3> HIDE DEF L
    <3> QED BY <3>2, <3>3, <3>4, <3>5
  <2>3. ASSUME NEW i, WithdrawBid(key, i)
        PROVE  \E L \in Seq(BidRecords) :
                 /\ bids' = [bids EXCEPT ![key] = L] /\ Len(L) >= Len(bids[key])
                 /\ \A j \in DOMAIN L : L[j].offered.promisedTime > 1
    <3> DEFINE old == bids[key][i]
               new == [old EXCEPT !.withdrawn = TRUE]
               L == [bids[key] EXCEPT ![i] = new]
    <3>1. i \in DOMAIN bids[key] /\ bids' = [bids EXCEPT ![key] = L]
      BY <2>3 DEF WithdrawBid
    <3>2. old \in BidRecords
      BY <2>1, <3>1
    <3> HIDE DEF old
    <3>3. new \in BidRecords /\ new.offered = old.offered
      BY <3>2 DEF BidRecords
    <3> HIDE DEF new
    <3>4. L \in Seq(BidRecords) /\ Len(L) = Len(bids[key]) /\ Len(bids[key]) \in Nat
      BY <2>1, <3>1, <3>3
    <3>5. \A j \in DOMAIN L : L[j].offered.promisedTime > 1
      BY <1>3, <3>1, <3>3 DEF old
    <3>6. Len(L) >= Len(bids[key])
      BY <3>4
    <3> HIDE DEF L
    <3> QED BY <3>1, <3>4, <3>5, <3>6
  <2> QED BY <1>1, <2>2, <2>3
<1>5. ~InStage(key, "Assigned")
  BY <1>2 DEF InStage
<1> QED BY <1>0, <1>2, <1>4, <1>5

-----------------------------------------------------------------------------
(* A vault under way moves, or ends.                                       *)

\* Whatever a vault does to its own record, it stays sound and its
\* delivery's, while the registry stands still.
LEMMA ReplacedStands ==
  ASSUME MarketInv, NEW v \in Vaults, Deployed(v), NEW done \in BOOLEAN, Replaced(v, done),
         UNCHANGED <<now, requests, bids, registeredVaults>>, Members \subseteq Members'
  PROVE  /\ MarketTypes' /\ RequestsSound' /\ VaultsSound'
         /\ AssignedIsBacked' /\ DeployedIsAssigned'
         /\ worth' = worth
         /\ \A a \in Accounts : CarriedBy(a)' =
              IF ~done /\ a = Courier(v)
              THEN CarriedBy(a) \cup {v} ELSE CarriedBy(a) \ {v}
<1>1. PICK r \in VaultRecords :
        /\ vault' = [vault EXCEPT ![v] = r]
        /\ r.terms = vault[v].terms /\ r.initialized = vault[v].initialized
        /\ r.finalized = done
  BY DEF Replaced
<1>2. MarketTypes /\ NoVault \notin VaultRecords
  BY MarketFacts DEF MarketInv
<1>3. /\ vault' \in [Vaults -> VaultRecords \cup {NoVault}]
      /\ vault'[v] = r
      /\ \A w \in Vaults \ {v} : vault'[w] = vault[w]
  BY <1>1, <1>2 DEF MarketTypes, VaultTypes
<1>4. \A w \in Vaults : /\ vault'[w] # NoVault <=> vault[w] # NoVault
                        /\ vault[w] # NoVault => vault'[w].terms = vault[w].terms
                        /\ vault[w] # NoVault => vault'[w].initialized = vault[w].initialized
                        /\ w # v => vault'[w] = vault[w]
  BY <1>1, <1>2, <1>3 DEF Deployed
<1>5. MarketTypes'
  BY <1>2, <1>3 DEF MarketTypes, VaultTypes
<1>6. RequestsSound'
  BY DEF MarketInv, RequestsSound, RequestSound, BidsSound, Opened
<1>7. VaultsSound'
  <2>1. ASSUME NEW w \in Vaults, Deployed(w)'
        PROVE  vault'[w].initialized /\ vault'[w].terms.courier \in Members' /\ w \in registeredVaults'
    <3>1. VaultSound(w) /\ Deployed(w)
      BY <1>4, <2>1 DEF MarketInv, VaultsSound, Deployed
    <3> QED BY <1>4, <3>1 DEF VaultSound, Deployed, Courier
  <2> QED BY <2>1 DEF VaultsSound, VaultSound, Courier
<1>8. AssignedIsBacked' /\ DeployedIsAssigned'
  <2>1. AssignedIsBacked /\ DeployedIsAssigned
    BY DEF MarketInv
  <2> QED BY <1>4, <2>1, DeliveriesStand
<1>9. worth' = worth
  <2>1. \A w \in Vaults : (IF vault'[w] # NoVault THEN vault'[w].terms.declaredValue ELSE 0)
                         = (IF vault[w] # NoVault THEN vault[w].terms.declaredValue ELSE 0)
    BY <1>4
  <2> QED BY <2>1 DEF worth, Deployed, Value
<1>10. ASSUME NEW a \in Accounts
       PROVE  CarriedBy(a)' =
              IF ~done /\ a = Courier(v)
              THEN CarriedBy(a) \cup {v} ELSE CarriedBy(a) \ {v}
  <2>1. vault[v] # NoVault /\ vault'[v].finalized = done /\ vault'[v].terms = vault[v].terms
    BY <1>1, <1>3 DEF Deployed
  <2>2. \A w \in Vaults \ {v} : w \in CarriedBy(a)' <=> w \in CarriedBy(a)
    BY <1>4 DEF CarriedBy, Deployed, Courier
  <2>3. v \in CarriedBy(a)' <=> ~done /\ a = Courier(v)
    BY <1>4, <2>1 DEF CarriedBy, Deployed, Courier
  <2>4. a # Courier(v) => v \notin CarriedBy(a)
    BY DEF CarriedBy
  <2>5. CarriedBy(a) \subseteq Vaults /\ CarriedBy(a)' \subseteq Vaults
    BY DEF CarriedBy
  <2> QED BY <2>2, <2>3, <2>4, <2>5
<1> QED BY <1>5, <1>6, <1>7, <1>8, <1>9, <1>10

LEMMA CarryingKeeps ==
  ASSUME MarketInv, NEW v \in Vaults, Carrying(v)
  PROVE  /\ PoolOp
         /\ MarketTypes' /\ RequestsSound' /\ VaultsSound'
         /\ AssignedIsBacked' /\ DeployedIsAssigned' /\ Books'
<1>1. MarketTypes /\ Books /\ PoolType
  BY DEF MarketInv
<1>2. /\ Deployed(v) /\ Replaced(v, vault[v].finalized) /\ vault[v].finalized \in BOOLEAN
      /\ UNCHANGED <<now, requests, bids>> /\ UNCHANGED poolVars
  <2>1. QuietStep(v) /\ UNCHANGED <<now, registryVars>> /\ UNCHANGED poolVars
    BY DEF Carrying, PoolUnchanged
  <2>2. Deployed(v) /\ Replaced(v, vault[v].finalized)
    BY <1>1, <2>1, QuietReplaces DEF MarketTypes
  <2>3. vault[v].finalized \in BOOLEAN
    BY <1>1, <2>2, RecordOf DEF VaultRecords, MarketTypes
  <2> QED BY <2>1, <2>2, <2>3 DEF registryVars
<1>3. UNCHANGED <<reserved, activeValue, registeredVaults>> /\ Members' = Members
  BY <1>2 DEF poolVars, claims, admin, Members
<1>4. /\ MarketTypes' /\ RequestsSound' /\ VaultsSound'
      /\ AssignedIsBacked' /\ DeployedIsAssigned' /\ worth' = worth
      /\ \A a \in Accounts : CarriedBy(a)' =
              IF ~vault[v].finalized /\ a = Courier(v)
              THEN CarriedBy(a) \cup {v} ELSE CarriedBy(a) \ {v}
  BY <1>2, <1>3, ReplacedStands
<1>5. \A a \in Accounts : CarriedBy(a)' = CarriedBy(a)
  <2>1. \A a \in Accounts : v \in CarriedBy(a) <=> ~vault[v].finalized /\ a = Courier(v)
    BY <1>2 DEF CarriedBy
  <2> QED BY <1>4, <2>1
<1>6. carried' = carried
  BY <1>5 DEF carried
<1>7. Books'
  BY <1>1, <1>3, <1>4, <1>6 DEF Books, Ledger
<1> QED BY <1>2, <1>4, <1>7 DEF PoolOp

LEMMA SettlingKeeps ==
  ASSUME MarketInv, NEW v \in Vaults, SettlingWell(v) \/ SettlingBadly(v)
  PROVE  /\ PoolOp
         /\ MarketTypes' /\ RequestsSound' /\ VaultsSound'
         /\ AssignedIsBacked' /\ DeployedIsAssigned' /\ Books'
<1> DEFINE c == Courier(v)
           n == Value(v)
<1>1. MarketTypes /\ Books /\ PoolType
  BY DEF MarketInv
<1>2. /\ Deployed(v) /\ ~vault[v].finalized /\ Replaced(v, TRUE)
      /\ c \in Accounts /\ n \in Nat
      /\ Release(v, c, n) \/ Slash(v, c, n)
      /\ UNCHANGED <<now, requests, bids>>
  <2>1. CASE SettlingWell(v)
    <3>1. ReleasingStep(v) /\ Release(v, c, n) /\ UNCHANGED <<now, registryVars>>
      BY <2>1 DEF SettlingWell
    <3>2. Deployed(v) /\ ~vault[v].finalized /\ Replaced(v, TRUE)
      BY <1>1, <3>1, ReleasingReplaces DEF MarketTypes
    <3>3. c \in Accounts /\ n \in Nat
      BY <1>1, <3>2, RecordOf DEF MarketTypes
    <3> QED BY <3>1, <3>2, <3>3 DEF registryVars
  <2>2. CASE SettlingBadly(v)
    <3>1. /\ Deployed(v) /\ SlashingStep(v, Paid(c, n)) /\ Slash(v, c, n)
          /\ UNCHANGED <<now, registryVars>>
      BY <2>2 DEF SettlingBadly
    <3>2. c \in Accounts /\ n \in Nat
      BY <1>1, <3>1, RecordOf DEF MarketTypes
    <3> HIDE DEF c, n
    <3>3. StakeType
      BY <1>1 DEF PoolType, StakeType
    <3>4. Paid(c, n) \in Nat
      BY <3>1, <3>2, <3>3, SlashStakes
    <3>5. Deployed(v) /\ ~vault[v].finalized /\ Replaced(v, TRUE)
      BY <1>1, <3>1, <3>4, SlashingReplaces DEF MarketTypes
    <3> QED BY <3>1, <3>2, <3>5 DEF registryVars
  <2> QED BY <2>1, <2>2
<1>3. /\ v \in carried[c] /\ worth[v] = n
      /\ n <= reserved[c] /\ reserved[c] <= activeValue
  BY <1>1, <1>2, UnderWay
<1>4. PoolOp
  BY <1>2 DEF PoolOp, VaultOp
<1>5. c = Courier(v)
  OBVIOUS
<1> HIDE DEF c, n
<1>6. /\ reserved' = [reserved EXCEPT ![c] = @ - n] /\ activeValue' = activeValue - n
      /\ UNCHANGED <<memberList, registeredVaults>>
  BY <1>1, <1>2, <1>3, SettlingBooks
<1>7. Members' = Members
  BY <1>6 DEF Members
<1>8. /\ MarketTypes' /\ RequestsSound' /\ VaultsSound'
      /\ AssignedIsBacked' /\ DeployedIsAssigned' /\ worth' = worth
      /\ \A a \in Accounts : CarriedBy(a)' =
              IF ~TRUE /\ a = Courier(v)
              THEN CarriedBy(a) \cup {v} ELSE CarriedBy(a) \ {v}
  BY <1>2, <1>6, <1>7, ReplacedStands
<1>9. carried' = [carried EXCEPT ![c] = @ \ {v}]
  <2>1. \A a \in Accounts :
          CarriedBy(a)' = IF a = c THEN CarriedBy(a) \ {v} ELSE CarriedBy(a)
    <3>1. \A a \in Accounts : a # c => v \notin CarriedBy(a)
      BY <1>5 DEF CarriedBy
    <3> QED BY <1>8, <3>1
  <2> QED BY <1>2, <2>1 DEF carried
<1>10. /\ reserved \in [Accounts -> Nat]
       /\ worth \in [Vaults -> Nat]
       /\ carried \in [Accounts -> SUBSET Vaults]
       /\ Ledger(reserved, activeValue, worth, carried)
  BY <1>1, BooksForm
<1> HIDE DEF worth, carried
<1>11. Ledger([reserved EXCEPT ![c] = @ - worth[v]], activeValue - worth[v],
              worth, [carried EXCEPT ![c] = @ \ {v}])
  BY <1>2, <1>3, <1>10, LedgerCloses
<1>12. Ledger(reserved', activeValue', worth', carried')
  BY <1>3, <1>6, <1>8, <1>9, <1>11
<1>13. Books'
  BY <1>12 DEF Books, Ledger
<1> QED BY <1>4, <1>8, <1>13

-----------------------------------------------------------------------------
(* A bid is accepted: the one step that spawns a vault.                    *)

LEMMA AcceptingSpawns ==
  ASSUME MarketInv, Accepting
  PROVE  \E id \in Ids, v \in Vaults : \E i :
           /\ i \in DOMAIN bids[id] /\ InStage(id, "Open") /\ Accept(id, i, v)
           /\ UNCHANGED <<now, bids>>
           /\ TermsOf(id, i) \in Terms
<1>1. PICK id \in Ids, i \in 1..MaxBids, v \in Vaults :
        i \in DOMAIN bids[id] /\ InStage(id, "Open") /\ Accept(id, i, v)
  BY DEF Accepting, AcceptBid, AcceptBidByAgent
<1>2. UNCHANGED <<now, bids>>
  BY <1>1 DEF Accepting, Accept
<1> DEFINE r == requests[id].asked
           b == bids[id][i]
<1>3. r \in RequestTerms /\ r.declaredValue \in Nat /\ r.disputeWindow \in Nat
      /\ r.refuses \subseteq Parties
  <2>1. requests[id] \in RequestRecords
    BY <1>1, OpenedRecord DEF MarketInv
  <2>2. r \in RequestTerms
    BY <2>1 DEF RequestRecords
  <2> HIDE DEF r
  <2> QED BY <2>2, MarketFacts
<1>4. b \in BidRecords /\ b.offered.promisedTime > 1
  <2>1. bids[id] \in Seq(BidRecords)
    BY DEF MarketInv, MarketTypes, VaultTypes
  <2> QED BY <1>1, <2>1 DEF MarketInv, RequestsSound, BidsSound
<1>5. /\ b.courier \in Accounts /\ b.offered.price \in Nat
      /\ b.offered.promisedTime \in Nat /\ b.offered.promisedTime > 1
      /\ b.offered.refuses \subseteq Parties
  <2>1. b.courier \in Accounts /\ b.offered \in BidTerms
    BY <1>4 DEF BidRecords
  <2> HIDE DEF b
  <2> QED BY <1>4, <2>1, MarketFacts
<1>6. TermsOf(id, i) \in Terms
  <2>1. TermsOf(id, i) = [courier |-> b.courier, declaredValue |-> r.declaredValue,
           courierFee |-> b.offered.price, pickupDeadline |-> b.offered.promisedTime - 1,
           dropoffDeadline |-> b.offered.promisedTime, disputeWindow |-> r.disputeWindow,
           refuses |-> b.offered.refuses \cup r.refuses]
    BY DEF TermsOf, Contract
  <2> HIDE DEF r, b
  <2>2. b.offered.promisedTime - 1 \in Nat /\ b.offered.refuses \cup r.refuses \subseteq Parties
    BY <1>3, <1>5
  <2> QED BY <1>3, <1>5, <2>1, <2>2 DEF Terms
<1> QED BY <1>1, <1>2, <1>6

\* What an acceptance leaves of requests, and in its vault.
LEMMA AcceptedTerms ==
  ASSUME MarketTypes, NEW id \in Ids, NEW i, NEW v \in Vaults,
         InStage(id, "Open"), Accept(id, i, v)
  PROVE  /\ requests'[id].vault = v
         /\ \A k \in Ids \ {id} : requests'[k] = requests[k]
         /\ vault[v] = NoVault /\ requests[id].hashed
         /\ vault'[v].terms.courier = bids[id][i].courier
         /\ vault'[v].terms.courierFee = bids[id][i].offered.price
         /\ vault'[v].terms.dropoffDeadline = bids[id][i].offered.promisedTime
<1> DEFINE q == [requests[id] EXCEPT !.stage = "Assigned", !.acceptedBid = i, !.vault = v]
           t == TermsOf(id, i)
           s == [Fresh(t) EXCEPT !.initialized = TRUE]
<1>1. /\ requests' = [requests EXCEPT ![id] = q] /\ vault' = [vault EXCEPT ![v] = s]
      /\ Opened(id) /\ vault[v] = NoVault /\ requests[id].hashed
  BY DEF Accept, Acceptable, Assign, SpawnVault, InStage, Deployed
<1>2. /\ requests \in [Ids -> RequestRecords \cup {NoRequest}]
      /\ vault \in [Vaults -> VaultRecords \cup {NoVault}]
  BY DEF MarketTypes, VaultTypes
<1>3. requests[id] \in RequestRecords
  BY <1>1, <1>2 DEF Opened
<1>4. q.vault = v /\ q.hashed = requests[id].hashed
  BY <1>3 DEF RequestRecords
<1>5. t.courier = bids[id][i].courier /\ t.courierFee = bids[id][i].offered.price
      /\ t.dropoffDeadline = bids[id][i].offered.promisedTime
  BY DEF TermsOf, Contract
<1> HIDE DEF t
<1>6. s.terms = t
  BY DEF Fresh
<1> HIDE DEF q, s
<1> QED BY <1>1, <1>2, <1>4, <1>5, <1>6

LEMMA AcceptingKeeps ==
  ASSUME MarketInv, Accepting
  PROVE  /\ PoolOp
         /\ MarketTypes' /\ RequestsSound' /\ VaultsSound'
         /\ AssignedIsBacked' /\ DeployedIsAssigned' /\ Books'
<1>1. /\ MarketTypes /\ RequestsSound /\ VaultsSound /\ Books /\ PoolType
      /\ AssignedIsBacked /\ DeployedIsAssigned
  BY DEF MarketInv
<1>2. PICK id \in Ids, v \in Vaults : \E j :
           /\ j \in DOMAIN bids[id] /\ InStage(id, "Open") /\ Accept(id, j, v)
           /\ UNCHANGED <<now, bids>> /\ TermsOf(id, j) \in Terms
  BY AcceptingSpawns
<1>3. PICK i :
           /\ i \in DOMAIN bids[id] /\ InStage(id, "Open") /\ Accept(id, i, v)
           /\ UNCHANGED <<now, bids>> /\ TermsOf(id, i) \in Terms
  BY <1>2
<1> DEFINE t == TermsOf(id, i)
           c == t.courier
           n == t.declaredValue
           s == [Fresh(t) EXCEPT !.initialized = TRUE]
           q == [requests[id] EXCEPT !.stage = "Assigned", !.acceptedBid = i, !.vault = v]
<1>4. c \in Accounts /\ n \in Nat /\ t \in Terms
  BY <1>3 DEF Terms
<1>5. t = TermsOf(id, i) /\ t' = TermsOf(id, i)' /\ TermsOf(id, i)' = t
  <2>1. requests'[id].asked = requests[id].asked
    <3>1. requests[id] \in RequestRecords
      BY <1>1, <1>3, OpenedRecord
    <3>2. q.asked = requests[id].asked
      BY <3>1 DEF RequestRecords
    <3>3. requests' = [requests EXCEPT ![id] = q] /\ id \in DOMAIN requests
      BY <1>1, <1>3 DEF Accept, Assign, MarketTypes, VaultTypes
    <3> HIDE DEF q
    <3> QED BY <3>2, <3>3
  <2>2. TermsOf(id, i)' = TermsOf(id, i)
    BY <1>3, <2>1 DEF TermsOf, Contract
  <2> QED BY <2>2
<1> HIDE DEF t
<1>6. /\ ~Deployed(v) /\ vault' = [vault EXCEPT ![v] = s]
      /\ RegisterAndReserve(Registry, v, c, n)
      /\ requests' = [requests EXCEPT ![id] = q]
      /\ ~bids[id][i].withdrawn
  BY <1>3 DEF Accept, SpawnVault, Assign, t, Acceptable
<1>7. /\ s \in VaultRecords /\ s.terms = t /\ s.initialized /\ ~s.finalized /\ s # NoVault
  <2>1. s \in VaultRecords /\ s.terms = t /\ s.initialized /\ ~s.finalized
    BY <1>4 DEF Fresh, VaultRecords, State
  <2> QED BY <2>1, MarketFacts
<1>8. /\ q \in RequestRecords /\ q.asked = requests[id].asked /\ q.stage = "Assigned"
      /\ q.acceptedBid = i /\ q.vault = v /\ q # NoRequest
      /\ q.asked.declaredValue > 0 /\ i \in 0..Len(bids[id]) /\ v # NoVault
  <2>1. requests[id] \in RequestRecords /\ requests[id].asked.declaredValue > 0
    BY <1>1, <1>3, OpenedRecord
  <2>2. i \in Nat /\ i \in 0..Len(bids[id])
    BY <1>1, <1>3 DEF MarketTypes, VaultTypes
  <2>3. /\ q \in RequestRecords /\ q.asked = requests[id].asked /\ q.stage = "Assigned"
        /\ q.acceptedBid = i /\ q.vault = v
    BY <2>1, <2>2 DEF RequestRecords
  <2> HIDE DEF q
  <2> QED BY <2>1, <2>2, <2>3, MarketFacts
<1> HIDE DEF s, q, c, n
<1>9. /\ vault'[v] = s /\ \A w \in Vaults \ {v} : vault'[w] = vault[w]
      /\ vault' \in [Vaults -> VaultRecords \cup {NoVault}]
      /\ requests'[id] = q /\ \A k \in Ids \ {id} : requests'[k] = requests[k]
      /\ requests' \in [Ids -> RequestRecords \cup {NoRequest}]
      /\ UNCHANGED <<now, bids>>
  BY <1>1, <1>3, <1>6, <1>7, <1>8 DEF MarketTypes, VaultTypes
<1>10. /\ reserved' = [reserved EXCEPT ![c] = @ + n] /\ activeValue' = activeValue + n
       /\ registeredVaults' = registeredVaults \cup {v}
       /\ Members' = Members /\ c \in Members
  BY <1>6 DEF RegisterAndReserve, BookReservation, Reservable, Members
<1>11. PoolOp
  BY <1>4, <1>6, MarketFacts DEF PoolOp, VaultOp
<1>12. MarketTypes'
  BY <1>1, <1>9 DEF MarketTypes, VaultTypes
<1>13. RequestsSound'
  <2>1. ASSUME NEW k \in Ids, Opened(k)'
        PROVE  /\ requests'[k].asked.declaredValue > 0
               /\ requests'[k].acceptedBid \in 0..Len(bids'[k])
               /\ requests'[k].vault # NoVault => requests'[k].stage = "Assigned"
    <3>1. CASE k = id
      BY <1>8, <1>9, <3>1
    <3>2. CASE k # id
      BY <1>1, <1>9, <2>1, <3>2 DEF RequestsSound, RequestSound, Opened
    <3> QED BY <3>1, <3>2
  <2>2. \A k \in Ids : BidsSound(k)'
    BY <1>1, <1>9 DEF RequestsSound, BidsSound
  <2> QED BY <2>1, <2>2 DEF RequestsSound, RequestSound
<1>14. VaultsSound'
  <2>1. ASSUME NEW w \in Vaults, Deployed(w)'
        PROVE  vault'[w].initialized /\ vault'[w].terms.courier \in Members' /\ w \in registeredVaults'
    <3>1. CASE w = v
      BY <1>7, <1>9, <1>10, <3>1 DEF c
    <3>2. CASE w # v
      BY <1>1, <1>9, <1>10, <2>1, <3>2 DEF VaultsSound, VaultSound, Deployed, Courier
    <3> QED BY <3>1, <3>2
  <2> QED BY <2>1 DEF VaultsSound, VaultSound, Courier
<1>15. AssignedIsBacked'
  <2>1. ASSUME NEW k \in Ids, NEW j, NEW w, Assigned(k, j, w)' PROVE Backed(k, j, w)'
    <3>1. CASE k = id
      <4>1. j = i /\ w = v
        BY <1>8, <1>9, <2>1, <3>1 DEF Assigned
      <4>2. Deployed(v)' /\ vault'[v].terms = TermsOf(id, i)' /\ Courier(v)' \in Members'
        BY <1>5, <1>7, <1>9, <1>10 DEF Deployed, Courier, c
      <4> QED BY <1>3, <1>6, <1>9, <3>1, <4>1, <4>2 DEF Backed
    <3>2. CASE k # id
      <4>1. Assigned(k, j, w) /\ requests'[k] = requests[k]
        BY <1>9, <2>1, <3>2 DEF Assigned, InStage, Opened
      <4>2. Backed(k, j, w)
        BY <1>1, <4>1 DEF AssignedIsBacked
      <4>3. w \in Vaults /\ w # v /\ vault'[w] = vault[w]
        BY <1>6, <1>9, <4>2 DEF Backed
      <4>4. TermsOf(k, j)' = TermsOf(k, j)
        BY <1>9, <4>1 DEF TermsOf, Contract
      <4>5. Deployed(w)' /\ vault'[w].terms = TermsOf(k, j)' /\ Courier(w)' \in Members'
        BY <1>10, <4>2, <4>3, <4>4 DEF Backed, Deployed, Courier
      <4> QED BY <1>9, <4>2, <4>5 DEF Backed
    <3> QED BY <3>1, <3>2
  <2> QED BY <2>1 DEF AssignedIsBacked
<1>16. DeployedIsAssigned'
  <2>1. ASSUME NEW w \in Vaults, Deployed(w)'
        PROVE  \E k \in Ids :
                 /\ InStage(k, "Assigned")' /\ requests'[k].vault = w
                 /\ \A other \in Ids : Opened(other)' /\ requests'[other].vault = w
                                        => other = k
    <3>1. CASE w = v
      <4>1. InStage(id, "Assigned")' /\ requests'[id].vault = v
        BY <1>8, <1>9 DEF InStage, Opened
      <4>2. ASSUME NEW other \in Ids, Opened(other)', requests'[other].vault = v, other # id
            PROVE  FALSE
        <5>1. Opened(other) /\ requests[other].vault = v
          BY <1>9, <4>2 DEF Opened
        <5>2. InStage(other, "Assigned")
          BY <1>1, <1>8, <5>1 DEF RequestsSound, RequestSound, InStage
        <5>3. Backed(other, requests[other].acceptedBid, v)
          BY <1>1, <5>1, <5>2 DEF AssignedIsBacked, Assigned
        <5> QED BY <1>6, <5>3 DEF Backed
      <4> QED BY <3>1, <4>1, <4>2
    <3>2. CASE w # v
      <4>1. Deployed(w)
        BY <1>9, <2>1, <3>2 DEF Deployed
      <4>2. PICK k \in Ids :
              /\ InStage(k, "Assigned") /\ requests[k].vault = w
              /\ \A other \in Ids : Opened(other) /\ requests[other].vault = w => other = k
        BY <1>1, <4>1 DEF DeployedIsAssigned
      <4>3. k # id
        BY <1>3, <4>2 DEF InStage
      <4>4. InStage(k, "Assigned")' /\ requests'[k].vault = w
        BY <1>9, <4>2, <4>3 DEF InStage, Opened
      <4>5. ASSUME NEW other \in Ids, Opened(other)', requests'[other].vault = w
            PROVE  other = k
        <5>1. other # id
          BY <1>8, <1>9, <3>2, <4>5
        <5> QED BY <1>9, <4>2, <4>5, <5>1 DEF Opened
      <4> QED BY <4>4, <4>5
    <3> QED BY <3>1, <3>2
  <2> QED BY <2>1 DEF DeployedIsAssigned
<1>17. worth' = [worth EXCEPT ![v] = n] /\ carried' = [carried EXCEPT ![c] = @ \cup {v}]
  <2>1. \A w \in Vaults : w # v => /\ Deployed(w)' <=> Deployed(w)
                                  /\ vault'[w] = vault[w]
    BY <1>9 DEF Deployed
  <2>2. Deployed(v)' /\ vault'[v].terms.declaredValue = n /\ vault'[v].terms.courier = c
        /\ ~vault'[v].finalized
    BY <1>7, <1>9 DEF Deployed, c, n
  <2>3. worth' = [worth EXCEPT ![v] = n]
    BY <1>9, <2>2 DEF worth, Deployed, Value
  <2>4. \A a \in Accounts : CarriedBy(a)' = IF a = c THEN CarriedBy(a) \cup {v} ELSE CarriedBy(a)
    <3> TAKE a \in Accounts
    <3>1. \A w \in Vaults \ {v} : w \in CarriedBy(a)' <=> w \in CarriedBy(a)
      BY <1>9 DEF CarriedBy, Deployed, Courier
    <3>2. v \in CarriedBy(a)' <=> a = c
      BY <2>2 DEF CarriedBy, Courier, Deployed
    <3>3. CarriedBy(a) \subseteq Vaults /\ CarriedBy(a)' \subseteq Vaults /\ v \notin CarriedBy(a)
      BY <1>6 DEF CarriedBy
    <3> QED BY <3>1, <3>2, <3>3
  <2>5. carried' = [carried EXCEPT ![c] = @ \cup {v}]
    BY <1>4, <2>4 DEF carried
  <2> QED BY <2>3, <2>5
<1>18. Books'
  <2>1. /\ reserved \in [Accounts -> Nat]
        /\ worth \in [Vaults -> Nat]
        /\ carried \in [Accounts -> SUBSET Vaults]
        /\ Ledger(reserved, activeValue, worth, carried)
    BY <1>1, BooksForm
  <2>2. \A a \in Accounts : v \notin carried[a]
    BY <1>6 DEF carried, CarriedBy
  <2>3. c \in Accounts /\ n \in Nat
    BY <1>4 DEF c, n
  <2> HIDE DEF worth, carried
  <2>4. Ledger([reserved EXCEPT ![c] = @ + n], activeValue + n,
               [worth EXCEPT ![v] = n], [carried EXCEPT ![c] = @ \cup {v}])
    BY <2>1, <2>2, <2>3, LedgerOpens
  <2>5. Ledger(reserved', activeValue', worth', carried')
    BY <1>10, <1>17, <2>4
  <2> QED BY <2>5 DEF Books, Ledger
<1> QED BY <1>11, <1>12, <1>13, <1>14, <1>15, <1>16, <1>18

-----------------------------------------------------------------------------
(* The invariant.                                                          *)

\* On a market that has spawned no vault yet, with its couriers' stake booked.
LEMMA FreshMarket ==
  ASSUME now \in Nat \ {0}, VaultInit, PoolType, Solvent, MembersHoldAll,
         \A a \in Accounts : reserved[a] = 0, activeValue = 0,
         requests \in [Ids -> RequestRecords \cup {NoRequest}],
         bids \in [Ids -> Seq(BidRecords)],
         RequestsSound, \A id \in Ids : ~InStage(id, "Assigned")
  PROVE  MarketInv
<1>1. MarketTypes
  BY DEF MarketTypes, VaultTypes, VaultInit
<1>2. \A v \in Vaults : ~Deployed(v)
  BY DEF VaultInit, Deployed
<1>3. VaultsSound /\ AssignedIsBacked /\ DeployedIsAssigned
  BY <1>2 DEF VaultsSound, VaultSound, AssignedIsBacked, Assigned, DeployedIsAssigned
<1>4. Books
  <2>1. \A a \in Accounts : carried[a] = {}
    BY <1>2 DEF carried, CarriedBy
  <2> HIDE DEF carried, worth
  <2>2. \A a \in Accounts : Total(worth, carried[a]) = 0
    BY <2>1, TotalEmpty
  <2>3. Total(reserved, Accounts) = 0
    BY TotalZero
  <2> QED BY <2>2, <2>3 DEF Books, Ledger
<1> QED BY <1>1, <1>3, <1>4 DEF MarketInv

LEMMA InitMarket == Init => MarketInv
<1> SUFFICES ASSUME Init PROVE MarketInv
  OBVIOUS
<1>1. now = 1 /\ PoolInit /\ VaultInit /\ RegistryInit
  BY DEF Init
<1>2. \A id \in Ids : ~Opened(id) /\ bids[id] = <<>>
  BY <1>1 DEF RegistryInit, Opened
<1>3. RequestsSound /\ \A id \in Ids : ~InStage(id, "Assigned")
  BY <1>2 DEF RequestsSound, RequestSound, BidsSound, InStage
<1>4. /\ requests \in [Ids -> RequestRecords \cup {NoRequest}]
      /\ bids \in [Ids -> Seq(BidRecords)]
  BY <1>1 DEF RegistryInit
<1>5. activeValue = 0 /\ \A a \in Accounts : reserved[a] = 0
  BY <1>1 DEF PoolInit
<1> QED BY <1>1, <1>3, <1>4, <1>5, PoolTypeStart, SolventStart, MembersHoldAllStart, FreshMarket

\* The pool when every courier has staked the same.
LEMMA StakedPool ==
  ASSUME CouriersStaked
  PROVE  /\ PoolType /\ Solvent /\ MembersHoldAll
         /\ activeValue = 0 /\ \A a \in Accounts : reserved[a] = 0
<1>1. Cardinality(Accounts) \in Nat
  BY FS_CardinalityType
<1>2. /\ memberList \in [1..Cardinality(Accounts) -> Accounts]
      /\ Range(memberList) = Accounts
  BY DEF CouriersStaked
<1>3. memberList \in Seq(Accounts) /\ Members = Accounts
  BY <1>1, <1>2 DEF Members
<1>4. PICK n \in Amounts :
        /\ contribution = [a \in Accounts |-> n]
        /\ totalStake = n * Cardinality(Accounts)
  BY DEF CouriersStaked
<1>5. n \in Nat
  BY MarketFacts
<1>6. totalStake = Total(contribution, Accounts)
  BY <1>4, <1>5, TotalConstant
<1>7. totalStake \in Nat
  BY <1>1, <1>4, <1>5
<1>8. PoolType
  BY <1>3, <1>4, <1>5, <1>7, RegistryConstants DEF CouriersStaked, PoolType
<1>9. Solvent /\ MembersHoldAll
  BY <1>3, <1>6 DEF CouriersStaked, Solvent, MembersHoldAll
<1> QED BY <1>8, <1>9 DEF CouriersStaked

\* Steps that leave the vaults alone keep what is said of them.
LEMMA QuietKeeps ==
  ASSUME MarketInv, UNCHANGED vault, now' \in Nat \ {0},
         UNCHANGED <<reserved, activeValue, registeredVaults>>, Members \subseteq Members',
         requests' \in [Ids -> RequestRecords \cup {NoRequest}],
         bids' \in [Ids -> Seq(BidRecords)],
         \A id \in Ids : RequestMoves(id),
         \A id \in Ids :
              \/ bids'[id] = bids[id]
              \/ /\ ~InStage(id, "Assigned")
                 /\ Len(bids'[id]) >= Len(bids[id])
                 /\ \A i \in DOMAIN bids'[id] : bids'[id][i].offered.promisedTime > 1
  PROVE  /\ MarketTypes' /\ RequestsSound' /\ VaultsSound'
         /\ AssignedIsBacked' /\ DeployedIsAssigned' /\ Books'
<1>1. /\ MarketTypes /\ RequestsSound /\ VaultsSound /\ Books
      /\ AssignedIsBacked /\ DeployedIsAssigned /\ NoVault \notin Vaults
  BY MarketFacts DEF MarketInv
<1>2. MarketTypes'
  BY <1>1 DEF MarketTypes, VaultTypes
<1>3. VaultsSound' /\ Books'
  BY <1>1, VaultsStand
<1>4. \A id \in Ids : BidsSound(id)'
  BY <1>1 DEF RequestsSound, BidsSound
<1>5. ASSUME NEW id \in Ids, Opened(id)'
      PROVE  /\ requests'[id].asked.declaredValue > 0
             /\ requests'[id].acceptedBid \in 0..Len(bids'[id])
             /\ requests'[id].vault # NoVault => requests'[id].stage = "Assigned"
  <2>1. Len(bids[id]) \in Nat /\ Len(bids'[id]) \in Nat /\ Len(bids'[id]) >= Len(bids[id])
    BY <1>1 DEF MarketTypes, VaultTypes
  <2>2. CASE requests'[id] = requests[id]
    <3>1. RequestSound(id) /\ Opened(id)
      BY <1>1, <1>5, <2>2 DEF RequestsSound, Opened
    <3> QED BY <2>1, <2>2, <3>1 DEF RequestSound
  <2>3. CASE requests'[id] # requests[id]
    BY <2>1, <2>3 DEF RequestMoves
  <2> QED BY <2>2, <2>3
<1>6. RequestsSound'
  BY <1>4, <1>5 DEF RequestsSound, RequestSound
<1>7. /\ \A id \in Ids : InStage(id, "Assigned") =>
              requests'[id] = requests[id] /\ bids'[id] = bids[id]
      /\ \A id \in Ids : Opened(id)' =>
              \/ requests'[id] = requests[id]
              \/ requests'[id].stage # "Assigned" /\ requests'[id].vault = NoVault
  BY DEF RequestMoves
<1>8. AssignedIsBacked' /\ DeployedIsAssigned'
  BY <1>1, <1>7, RequestsMove
<1> QED BY <1>2, <1>3, <1>6, <1>8

LEMMA MarketStep ==
  ASSUME MarketInv, [Next]_vars
  PROVE  MarketInv'
<1> DEFINE Kept == /\ MarketTypes' /\ RequestsSound' /\ VaultsSound'
                   /\ AssignedIsBacked' /\ DeployedIsAssigned' /\ Books'
<1>0. /\ MarketTypes /\ RequestsSound /\ PoolType /\ Solvent /\ MembersHoldAll
      /\ requests \in [Ids -> RequestRecords \cup {NoRequest}]
      /\ bids \in [Ids -> Seq(BidRecords)]
      /\ now \in Nat \ {0}
      /\ \A id \in Ids : Len(bids[id]) >= Len(bids[id])
  BY DEF MarketInv, MarketTypes, VaultTypes
<1>1. ASSUME UNCHANGED poolVars
      PROVE  /\ PoolOp /\ UNCHANGED <<reserved, activeValue, registeredVaults>>
             /\ Members \subseteq Members'
  BY <1>1 DEF PoolOp, poolVars, claims, admin, Members
<1> SUFFICES PoolOp /\ Kept
  <2>1. ASSUME PoolOp PROVE PoolType' /\ Solvent' /\ MembersHoldAll'
    BY <1>0, <2>1, PoolTypeKept, SolventKept, MembersHoldAllKept
  <2> QED BY <2>1 DEF MarketInv
<1>2. CASE Membership
  <2>1. /\ PoolOp /\ UNCHANGED <<reserved, activeValue, registeredVaults>>
        /\ Members \subseteq Members'
    BY <1>0, <1>2, MembershipOp, MarketFacts
  <2>2. UNCHANGED <<now, vault, requests, bids>>
    BY <1>2 DEF Membership, OthersUnchanged, registryVars
  <2>3. Kept
    BY <1>0, <2>1, <2>2, QuietKeeps DEF RequestMoves
  <2> QED BY <2>1, <2>3
<1>3. CASE Asking
  <2>1. UNCHANGED <<now, vault>> /\ UNCHANGED poolVars
    BY <1>3 DEF Asking, PoolUnchanged
  <2>2. /\ UNCHANGED bids
        /\ requests' \in [Ids -> RequestRecords \cup {NoRequest}]
        /\ \A id \in Ids : RequestMoves(id)
    BY <1>0, <1>3, AskingMoves
  <2>3. Kept
    BY <1>0, <1>1, <2>1, <2>2, QuietKeeps
  <2> QED BY <1>1, <2>1, <2>3
<1>4. CASE Bidding
  <2>1. UNCHANGED <<now, vault>> /\ UNCHANGED poolVars
    BY <1>4 DEF Bidding, PoolUnchanged
  <2>2. /\ UNCHANGED requests
        /\ bids' \in [Ids -> Seq(BidRecords)]
        /\ \A id \in Ids :
              \/ bids'[id] = bids[id]
              \/ /\ ~InStage(id, "Assigned")
                 /\ Len(bids'[id]) >= Len(bids[id])
                 /\ \A i \in DOMAIN bids'[id] : bids'[id][i].offered.promisedTime > 1
    BY <1>0, <1>4, BiddingMoves
  <2>3. \A id \in Ids : RequestMoves(id)
    BY <2>2 DEF RequestMoves
  <2>4. Kept
    BY <1>0, <1>1, <2>1, <2>2, <2>3, QuietKeeps
  <2> QED BY <1>1, <2>1, <2>4
<1>5. CASE Accepting
  BY <1>5, AcceptingKeeps
<1>6. ASSUME NEW v \in Vaults, Carrying(v) \/ SettlingWell(v) \/ SettlingBadly(v)
      PROVE  PoolOp /\ Kept
  BY <1>6, CarryingKeeps, SettlingKeeps
<1>7. CASE Clock
  <2>1. UNCHANGED <<vault, requests, bids>> /\ UNCHANGED poolVars /\ now' \in Nat \ {0}
    BY <1>0, <1>7 DEF Clock, PoolUnchanged, registryVars, TimePasses
  <2>2. Kept
    BY <1>0, <1>1, <2>1, QuietKeeps DEF RequestMoves
  <2> QED BY <1>1, <2>1, <2>2
<1>8. CASE UNCHANGED vars
  <2>1. UNCHANGED <<now, vault, requests, bids>> /\ UNCHANGED poolVars
    BY <1>8 DEF vars, registryVars
  <2>2. Kept
    BY <1>0, <1>1, <2>1, QuietKeeps DEF RequestMoves
  <2> QED BY <1>1, <2>1, <2>2
<1> QED BY <1>2, <1>3, <1>4, <1>5, <1>6, <1>7, <1>8 DEF Next

\* What any step leaves of requests, bids and vaults, of what is said of them
\* once.
LEMMA MarketGoesOn ==
  ASSUME MarketInv, [Next]_vars
  PROVE  /\ \A id \in Ids : RequestGoesOn(requests[id], requests'[id])
         /\ \A id \in Ids : StaysIn(bids[id], bids'[id])
         /\ \A v \in Vaults : VaultGoesOn(vault[v], vault'[v])
<1> DEFINE A == RequestTerms
           B == BidTerms
<1>0. /\ MarketTypes /\ VaultTypes /\ PoolType
      /\ vault \in [Vaults -> VaultRecords \cup {NoVault}]
  BY DEF MarketInv, MarketTypes, VaultTypes
<1>1. RequestsOver(A) = RequestRecords /\ BidsOver(B) = BidRecords
  BY DEF RequestsOver, RequestRecords, BidsOver, BidRecords
<1>2. RegistryTypes(A, B) /\ NoRequest \notin RequestsOver(A)
  BY <1>0, <1>1, MarketFacts DEF RegistryTypes, MarketTypes
<1>3. RegistryGoesOn(A, B)
  <2>1. CASE UNCHANGED <<requests, bids>>
    BY <1>2, <2>1, RegistryWaits
  <2>2. CASE Asking
    <3>1. ASSUME NEW s \in Sellers, NEW p \in Policies, SetAgentPolicy(s, p)
          PROVE  UNCHANGED <<requests, bids>>
      BY <3>1 DEF SetAgentPolicy
    <3>2. ASSUME NEW id \in Ids, PublishHashes(id) \/ CancelRequest(id)
          PROVE  RegistryGoesOn(A, B)
      <4>1. InStage(id, "Open") /\ UNCHANGED bids
        BY <3>2 DEF PublishHashes, CancelRequest
      <4> QED BY <1>2, <3>2, <4>1, OpenRequestMoves
    <3> QED BY <1>2, <2>1, <2>2, <3>1, <3>2, OpeningGoesOn DEF Asking
  <2>3. CASE Bidding
    BY <1>2, <2>3, BiddingGoesOn DEF Bidding
  <2>4. CASE Accepting
    <3>1. PICK id \in Ids, v \in Vaults : \E i :
             /\ i \in DOMAIN bids[id] /\ InStage(id, "Open") /\ Accept(id, i, v)
             /\ UNCHANGED <<now, bids>> /\ TermsOf(id, i) \in Terms
      BY <2>4, AcceptingSpawns
    <3>2. PICK i : i \in DOMAIN bids[id] /\ Assign(id, i, v)
      BY <3>1 DEF Accept
    <3>3. i \in Nat
      <4>1. bids[id] \in Seq(BidsOver(B))
        BY <1>2 DEF RegistryTypes
      <4> QED BY <3>2, <4>1
    <3> QED BY <1>2, <3>1, <3>2, <3>3, OpenRequestMoves
  <2> QED BY <2>1, <2>2, <2>3, <2>4
     DEF Next, Membership, OthersUnchanged, Carrying, SettlingWell, SettlingBadly, Clock,
         registryVars, vars
<1>4. \A v \in Vaults : VaultGoesOn(vault[v], vault'[v])
  <2>1. CASE UNCHANGED vault
    BY <2>1, VaultStays
  <2>2. CASE Accepting
    <3>1. PICK id \in Ids, v \in Vaults : \E i : Accept(id, i, v)
      BY <2>2, AcceptingSpawns
    <3>2. vault[v] = NoVault /\ \A w \in Vaults \ {v} : vault'[w] = vault[w]
      BY <1>0, <3>1 DEF Accept, SpawnVault, Deployed
    <3>3. VaultGoesOn(vault[v], vault'[v])
      BY <3>2 DEF VaultGoesOn
    <3> QED BY <3>2, <3>3, VaultStays
  <2>3. ASSUME NEW v \in Vaults, QuietStep(v) \/ SettlingWell(v) \/ SettlingBadly(v)
        PROVE  VaultStep(v)
    <3>1. CASE SettlingBadly(v)
      <4>1. /\ Deployed(v) /\ SlashingStep(v, Paid(Courier(v), Value(v)))
            /\ Slash(v, Courier(v), Value(v))
        BY <3>1 DEF SettlingBadly
      <4>2. Courier(v) \in Accounts /\ Value(v) \in Nat /\ StakeType
        BY <1>0, <4>1, RecordOf DEF PoolType, StakeType
      <4>3. Paid(Courier(v), Value(v)) \in Nat
        BY <4>1, <4>2, SlashStakes
      <4> QED BY <4>1, <4>3 DEF VaultStep
    <3> QED BY <2>3, <3>1 DEF VaultStep, SettlingWell
  <2>4. CASE \E v \in Vaults : QuietStep(v) \/ SettlingWell(v) \/ SettlingBadly(v)
    BY <1>0, <2>3, <2>4, VaultStepGoesOn
  <2> QED BY <2>1, <2>2, <2>4
     DEF Next, Membership, OthersUnchanged, Asking, Bidding, Carrying, Clock, vars
<1> QED BY <1>3, <1>4 DEF RegistryGoesOn

\* A vault is never handed out twice: the request it is assigned to had it, or
\* nobody had.
LEMMA VaultsChangeNoHands ==
  ASSUME MarketInv, [Next]_vars, NEW id \in Ids, NEW v \in Vaults,
         Opened(id)', requests'[id].vault = v
  PROVE  \/ Opened(id) /\ requests[id].vault = v
         \/ vault[v] = NoVault
<1> SUFFICES ASSUME Deployed(v) PROVE Opened(id) /\ requests[id].vault = v
  BY DEF Deployed
<1>1. MarketInv'
  BY MarketStep
<1>2. PICK k \in Ids : InStage(k, "Assigned") /\ requests[k].vault = v
  BY DEF MarketInv, DeployedIsAssigned
<1>3. requests'[k] = requests[k] /\ Opened(k)'
  BY <1>2, MarketGoesOn DEF RequestGoesOn, InStage, Opened
<1>4. Deployed(v)'
  BY MarketGoesOn DEF VaultGoesOn, Deployed
<1>5. k = id
  BY <1>1, <1>2, <1>3, <1>4 DEF MarketInv, DeployedIsAssigned
<1> QED BY <1>2, <1>3, <1>5 DEF InStage

\* No request has more bids than the bound.
ListsBounded == \A id \in Ids : Len(bids[id]) <= MaxBids

LEMMA ListsStayBounded ==
  ASSUME MarketTypes, ListsBounded, [Next]_vars
  PROVE  ListsBounded'
<1>0. bids \in [Ids -> Seq(BidRecords)] /\ MaxBids \in Nat
  BY RegistryConstants DEF MarketTypes
<1>1. CASE UNCHANGED bids
  BY <1>1 DEF ListsBounded
<1>2. ASSUME NEW key \in Ids, NEW a \in Accounts, NEW b \in BidTerms, PlaceBid(key, a, b)
      PROVE  ListsBounded'
  <2> DEFINE new == [courier |-> a, offered |-> b, withdrawn |-> FALSE]
             L == Append(bids[key], new)
  <2>1. bids' = [bids EXCEPT ![key] = L] /\ Len(bids[key]) < MaxBids
    BY <1>2 DEF PlaceBid
  <2>2. new \in BidRecords
    BY DEF BidRecords
  <2> HIDE DEF new
  <2>3. bids[key] \in Seq(BidRecords)
    BY <1>0
  <2>4. Len(L) <= MaxBids
    BY <1>0, <2>1, <2>2, <2>3
  <2> HIDE DEF L
  <2> QED BY <1>0, <2>1, <2>4 DEF ListsBounded
<1>3. ASSUME NEW key \in Ids, NEW i, WithdrawBid(key, i)
      PROVE  ListsBounded'
  <2> DEFINE new == [bids[key][i] EXCEPT !.withdrawn = TRUE]
             L == [bids[key] EXCEPT ![i] = new]
  <2>1. bids' = [bids EXCEPT ![key] = L] /\ i \in DOMAIN bids[key]
    BY <1>3 DEF WithdrawBid
  <2>2. bids[key] \in Seq(BidRecords)
    BY <1>0
  <2>3. bids[key][i] \in BidRecords
    BY <2>1, <2>2
  <2>4. new \in BidRecords
    BY <2>3 DEF BidRecords
  <2> HIDE DEF new
  <2>5. Len(L) = Len(bids[key])
    BY <2>1, <2>2, <2>4
  <2> HIDE DEF L
  <2> QED BY <1>0, <2>1, <2>5 DEF ListsBounded
<1>4. CASE Bidding
  BY <1>2, <1>3, <1>4 DEF Bidding
<1>5. CASE Accepting
  BY <1>1, <1>5 DEF Accepting, AcceptBid, AcceptBidByAgent, Accept
<1>6. CASE Asking
  BY <1>1, <1>6 DEF Asking, SetAgentPolicy, OpenRequest, PublishHashes, CancelRequest
<1> QED BY <1>1, <1>4, <1>5, <1>6 DEF Next, Membership, OthersUnchanged, Carrying,
       SettlingWell, SettlingBadly, Clock, registryVars, vars

\* The market keeps its books: requests, bids and vaults are what they are
\* said to be, the pool is solvent, and what couriers have reserved is what
\* the vaults under way declare.
THEOREM TheMarketIsSound == Spec => []MarketInv
<1>1. Init => MarketInv
  BY InitMarket
<1>2. MarketInv /\ [Next]_vars => MarketInv'
  BY MarketStep
<1> QED BY <1>1, <1>2, PTL DEF Spec

\* TypeOK: requests and vaults keep their types, and no accepted bid is
\* outside its request's list.
THEOREM MarketTypesHold == Spec => []TypeOK
<1>1. MarketInv => TypeOK
  <2> SUFFICES ASSUME MarketInv PROVE TypeOK
    OBVIOUS
  <2>1. MarketTypes /\ RequestsSound /\ VaultsSound
    BY DEF MarketInv
  <2>2. ASSUME NEW v \in Vaults, Deployed(v)
        PROVE  /\ vault[v].terms \in Terms /\ vault[v].initialized
               /\ {vault[v].balance, vault[v].toCourier, vault[v].toBuyer} \subseteq Nat
    <3>1. vault[v] \in VaultRecords /\ vault[v].initialized
      BY <2>1, <2>2, RecordOf DEF VaultsSound, VaultSound, MarketTypes
    <3> QED BY <3>1 DEF VaultRecords
  <2>3. ASSUME NEW id \in Ids, Opened(id)
        PROVE  /\ requests[id].asked \in RequestTerms
               /\ requests[id].stage \in {"Open", "Assigned", "Cancelled"}
               /\ requests[id].acceptedBid \in 0..Len(bids[id])
    <3>1. requests[id] \in RequestRecords /\ RequestSound(id)
      BY <2>1, <2>3 DEF MarketTypes, VaultTypes, Opened, RequestsSound
    <3> QED BY <2>3, <3>1 DEF RequestRecords, RequestSound
  <2> QED BY <2>2, <2>3 DEF TypeOK
<1> QED BY <1>1, TheMarketIsSound, PTL

\* OneVaultPerDelivery: _accept() never gives a request two vaults, a vault
\* to two requests, or a vault the terms of another bid.
THEOREM EveryDeliveryHasItsVault == Spec => []OneVaultPerDelivery
<1>1. MarketInv => OneVaultPerDelivery
  <2> SUFFICES ASSUME MarketInv PROVE OneVaultPerDelivery
    OBVIOUS
  <2>1. AssignedIsBacked /\ DeployedIsAssigned
    BY DEF MarketInv
  <2>2. ASSUME NEW id \in Ids, InStage(id, "Assigned")
        PROVE  Backed(id, requests[id].acceptedBid, requests[id].vault)
    BY <2>1, <2>2 DEF AssignedIsBacked, Assigned
  <2> QED BY <2>1, <2>2 DEF OneVaultPerDelivery, Backed, DeployedIsAssigned
<1> QED BY <1>1, TheMarketIsSound, PTL

\* SlashNeverBlocked: no vault under way waits for the pool, whose slash()
\* goes through for what it declares.
THEOREM AFailureIsAlwaysSettled == Spec => []SlashNeverBlocked
<1>1. MarketInv => SlashNeverBlocked
  <2> SUFFICES ASSUME MarketInv, NEW v \in Vaults, Deployed(v), ~vault[v].finalized
               PROVE  v \in registeredVaults /\ SlashFits(Courier(v), Value(v))
    BY DEF SlashNeverBlocked
  <2>1. MarketTypes /\ PoolType /\ Solvent /\ Books /\ VaultSound(v)
    BY DEF MarketInv, VaultsSound
  <2>2. /\ Courier(v) \in Accounts /\ Value(v) \in Nat
        /\ Value(v) <= reserved[Courier(v)] /\ reserved[Courier(v)] <= activeValue
    BY <2>1, UnderWay
  <2>3. SlashFits(Courier(v), Value(v))
    BY <2>1, <2>2, SlashAlwaysFits
  <2> QED BY <2>1, <2>3 DEF VaultSound
<1> QED BY <1>1, TheMarketIsSound, PTL

-----------------------------------------------------------------------------
(* The marketplace implements PoolClients: its vaults are the clients the  *)
(* pool's theorems assume.  First, the pool inside Clients is this one.    *)

LEMMA SamePoolState ==
  /\ Clients!PoolInit <=> PoolInit
  /\ Clients!poolVars = poolVars
  /\ Clients!stakes = stakes /\ Clients!claims = claims
  /\ Clients!asks = asks /\ Clients!admin = admin
  /\ Clients!Members = Members
BY DEF Clients!PoolInit, PoolInit, Clients!poolVars, poolVars, Clients!stakes, stakes,
       Clients!claims, claims, Clients!asks, asks, Clients!admin, admin,
       Clients!Members, Members, Clients!Range, Range

LEMMA SameMembership ==
  /\ \A a : Clients!AdmitMember(a) <=> AdmitMember(a)
  /\ \A f : Clients!SetFactory(f) <=> SetFactory(f)
  /\ \A a, n : Clients!DepositStake(a, n) <=> DepositStake(a, n)
  /\ \A a, n : Clients!RequestWithdraw(a, n) <=> RequestWithdraw(a, n)
  /\ \A a : Clients!FinalizeWithdraw(a) <=> FinalizeWithdraw(a)
<1> USE SamePoolState DEF Clients!stakes, stakes,
       Clients!claims, claims, Clients!asks, asks, Clients!admin, admin
<1>1. \A a : Clients!AdmitMember(a) <=> AdmitMember(a)
  BY DEF Clients!AdmitMember, AdmitMember
<1>2. \A f : Clients!SetFactory(f) <=> SetFactory(f)
  BY DEF Clients!SetFactory, SetFactory
<1>3. \A a, n : Clients!DepositStake(a, n) <=> DepositStake(a, n)
  BY DEF Clients!DepositStake, DepositStake
<1>4. \A a, n : Clients!RequestWithdraw(a, n) <=> RequestWithdraw(a, n)
  BY DEF Clients!RequestWithdraw, RequestWithdraw, Clients!MemberCap, MemberCap
<1>5. \A a : Clients!FinalizeWithdraw(a) <=> FinalizeWithdraw(a)
  BY DEF Clients!FinalizeWithdraw, FinalizeWithdraw, Clients!Collect, Collect,
         Clients!Matured, Matured, Clients!Least, Least
<1> QED BY <1>1, <1>2, <1>3, <1>4, <1>5

LEMMA SameReservation ==
  /\ \A f, v, c, n : Clients!RegisterAndReserve(f, v, c, n) <=> RegisterAndReserve(f, v, c, n)
  /\ \A v, c, n : Clients!Release(v, c, n) <=> Release(v, c, n)
<1> USE SamePoolState DEF Clients!stakes, stakes,
       Clients!claims, claims, Clients!asks, asks, Clients!admin, admin
<1>1. \A f, v, c, n : Clients!RegisterAndReserve(f, v, c, n) <=> RegisterAndReserve(f, v, c, n)
  BY DEF Clients!RegisterAndReserve, RegisterAndReserve, Clients!BookReservation,
         BookReservation, Clients!Reservable, Reservable, Clients!MemberCap, MemberCap
<1>2. \A v, c, n : Clients!Release(v, c, n) <=> Release(v, c, n)
  BY DEF Clients!Release, Release, Clients!Least, Least
<1> QED BY <1>1, <1>2

LEMMA SameSlash == \A v, c, n : Clients!Slash(v, c, n) <=> Slash(v, c, n)
<1>1. \A m, n : Clients!Least(m, n) = Least(m, n)
  BY DEF Clients!Least, Least
<1>2. \A c : Clients!Others(c) = Others(c)
  BY SamePoolState DEF Clients!Others, Others
<1>3. \A f, S : Clients!Total(f, S) = Total(f, S)
  <2>1. \A S : Clients!Cardinality(S) = Cardinality(S)
    BY DEF Clients!Cardinality, Cardinality
  <2>2. \A f, S : Clients!Coins(f, S) = Coins(f, S)
    BY DEF Clients!Coins, Coins
  <2> QED BY <2>1, <2>2 DEF Clients!Total, Total
<1>4. \A c, n : Clients!FromCourier(c, n) = FromCourier(c, n)
  BY <1>1 DEF Clients!FromCourier, FromCourier
<1>5. \A c : Clients!Base(c) = Base(c)
  BY <1>2, <1>3 DEF Clients!Base, Base
<1>6. \A c, n : Clients!Take(c, n) = Take(c, n)
  BY <1>1, <1>4, <1>5 DEF Clients!Take, Take
<1>7. \A c : Clients!Sweeper(c) = Sweeper(c)
  BY DEF Clients!Sweeper, Sweeper
<1>8. \A c, n : Clients!ProRata(c, n) = ProRata(c, n)
  BY <1>2, <1>5, <1>6 DEF Clients!ProRata, ProRata
<1>9. \A c, n, a : Clients!Due(c, n, a) = Due(c, n, a)
  BY <1>2, <1>3, <1>6, <1>7, <1>8 DEF Clients!Due, Due
<1>10. \A c, n : Clients!Share(c, n) = Share(c, n)
  BY <1>1, <1>2, <1>9 DEF Clients!Share, Share
<1>11. \A c, n : Clients!FromPool(c, n) = FromPool(c, n)
  BY <1>2, <1>3, <1>10 DEF Clients!FromPool, FromPool
<1>12. \A c, n : /\ Clients!Paid(c, n) = Paid(c, n)
                 /\ Clients!Unreserved(c, n) = Unreserved(c, n)
  BY <1>1, <1>4, <1>11 DEF Clients!Paid, Paid, Clients!Unreserved, Unreserved
<1>13. \A c, n : Clients!SlashFits(c, n) <=> SlashFits(c, n)
  BY <1>12 DEF Clients!SlashFits, SlashFits
<1> SUFFICES ASSUME NEW v, NEW c, NEW n PROVE Clients!Slash(v, c, n) <=> Slash(v, c, n)
  OBVIOUS
<1>14. [a \in Accounts |->
          CASE a = c -> contribution[a] - Clients!FromCourier(c, n)
            [] a \in Clients!Others(c) -> contribution[a] - Clients!Share(c, n)[a]
            [] OTHER -> contribution[a]]
       = [a \in Accounts |->
          CASE a = c -> contribution[a] - FromCourier(c, n)
            [] a \in Others(c) -> contribution[a] - Share(c, n)[a]
            [] OTHER -> contribution[a]]
  BY <1>2, <1>4, <1>10
<1> QED BY SamePoolState, <1>12, <1>13, <1>14
        DEF Clients!Slash, Slash, Clients!asks, asks, Clients!admin, admin

\* A vault as its pool sees it.
standing == [v \in Vaults |->
    IF ~Deployed(v) THEN "none"
    ELSE IF vault[v].finalized THEN "settled" ELSE "open"]
carrier == [v \in Vaults |-> IF Deployed(v) THEN Courier(v) ELSE NoAccount]

\* What the pool knows of a vault, as Deliveries says it.
known == [v \in Vaults |-> IF Deployed(v) THEN "spawned" ELSE "none"]

LEMMA KnownByStanding ==
  /\ known = [v \in Vaults |-> IF standing[v] = "none" THEN "none" ELSE "spawned"]
  /\ known' = [v \in Vaults |-> IF standing'[v] = "none" THEN "none" ELSE "spawned"]
BY DEF known, standing

\* What PoolClients asks of a start, an opened and a settled delivery.
LEMMA ClientsStart ==
  ASSUME PoolInit, now = 1, standing = [v \in Vaults |-> "none"],
         carrier = [v \in Vaults |-> NoAccount], worth = [v \in Vaults |-> 0]
  PROVE  Clients!Init
BY SamePoolState DEF Clients!Init, standing, carrier, worth

LEMMA ClientsOpen ==
  ASSUME NEW v \in Vaults, NEW c, NEW n, standing[v] = "none",
         RegisterAndReserve(Registry, v, c, n), Registry \in Factories,
         standing' = [standing EXCEPT ![v] = "open"],
         carrier' = [carrier EXCEPT ![v] = c],
         worth' = [worth EXCEPT ![v] = n], UNCHANGED now
  PROVE  Clients!Spawn(v, c, n)
<1>1. \E f \in Factories : Clients!RegisterAndReserve(f, v, c, n)
  BY SameReservation
<1>2. v \in Vaults \ {}
  OBVIOUS
<1> QED BY <1>1, <1>2 DEF Clients!Spawn, Clients!SetClaim, standing, carrier, worth

LEMMA ClientsSettle ==
  ASSUME NEW v \in Vaults, standing[v] = "open",
         Release(v, carrier[v], worth[v]) \/ Slash(v, carrier[v], worth[v]),
         standing' = [standing EXCEPT ![v] = "settled"],
         UNCHANGED <<carrier, worth, now>>
  PROVE  Clients!SettleByRelease(v) \/ Clients!SettleBySlash(v)
<1>1. \/ Clients!Release(v, carrier[v], worth[v])
      \/ Clients!Slash(v, carrier[v], worth[v])
  BY SameReservation, SameSlash
<1>2. Clients!Settles(v)
  BY DEF Clients!Settles, standing, carrier, worth
<1> QED BY <1>1, <1>2 DEF Clients!SettleByRelease, Clients!SettleBySlash, carrier, worth

LEMMA ClientsQuiet ==
  ASSUME UNCHANGED <<standing, carrier, worth>>
  PROVE  UNCHANGED Clients!clientVars
BY DEF Clients!clientVars, standing, carrier, worth

\* As long as no vault moves, none is seen to move.
LEMMA VaultsLookSame ==
  ASSUME UNCHANGED vault
  PROVE  UNCHANGED <<standing, carrier, worth>>
BY DEF standing, carrier, worth, Deployed, Courier, Value

\* A vault that is replaced is seen to end, if at all.
LEMMA ReplacedLooks ==
  ASSUME MarketTypes, NEW v \in Vaults, Deployed(v), NEW done, Replaced(v, done)
  PROVE  /\ UNCHANGED <<carrier, worth>>
         /\ standing' = [standing EXCEPT ![v] = IF done THEN "settled" ELSE "open"]
<1>1. PICK r \in VaultRecords :
        /\ vault' = [vault EXCEPT ![v] = r]
        /\ r.terms = vault[v].terms /\ r.finalized = done
  BY DEF Replaced
<1>2. /\ vault'[v] = r /\ r # NoVault
      /\ \A w \in Vaults \ {v} : vault'[w] = vault[w]
  BY <1>1, MarketFacts DEF MarketTypes, VaultTypes
<1>3. \A w \in Vaults :
        /\ Deployed(w)' <=> Deployed(w)
        /\ vault'[w] # NoVault <=> vault[w] # NoVault
        /\ vault[w] # NoVault => vault'[w].terms = vault[w].terms
  BY <1>1, <1>2 DEF Deployed
<1>4. UNCHANGED <<carrier, worth>>
  BY <1>3 DEF carrier, worth, Deployed, Courier, Value
<1>5. \A w \in Vaults : standing'[w] =
        IF w = v THEN IF done THEN "settled" ELSE "open" ELSE standing[w]
  BY <1>1, <1>2, <1>3 DEF standing, Deployed
<1>6. standing' = [standing EXCEPT ![v] = IF done THEN "settled" ELSE "open"]
  BY <1>5 DEF standing
<1> QED BY <1>4, <1>6

LEMMA AcceptingIsOpening ==
  ASSUME MarketInv, Accepting
  PROVE  Clients!Open
<1>1. MarketTypes /\ RequestsSound
  BY DEF MarketInv
<1>2. PICK id \in Ids, v \in Vaults : \E j :
           /\ j \in DOMAIN bids[id] /\ InStage(id, "Open") /\ Accept(id, j, v)
           /\ UNCHANGED <<now, bids>> /\ TermsOf(id, j) \in Terms
  BY AcceptingSpawns
<1>3. PICK i :
           /\ i \in DOMAIN bids[id] /\ InStage(id, "Open") /\ Accept(id, i, v)
           /\ UNCHANGED <<now, bids>> /\ TermsOf(id, i) \in Terms
  BY <1>2
<1> DEFINE t == TermsOf(id, i)
           c == t.courier
           n == t.declaredValue
           s == [Fresh(t) EXCEPT !.initialized = TRUE]
<1>4. c \in Accounts /\ n \in {r.declaredValue : r \in RequestTerms} \ {0}
  <2>1. requests[id] \in RequestRecords /\ requests[id].asked.declaredValue > 0
    BY <1>1, <1>3, OpenedRecord
  <2>2. requests[id].asked \in RequestTerms
    BY <2>1 DEF RequestRecords
  <2>3. n = requests[id].asked.declaredValue
    BY DEF TermsOf, Contract
  <2>4. c \in Accounts
    BY <1>3 DEF Terms
  <2> QED BY <2>1, <2>2, <2>3, <2>4
<1> HIDE DEF t
<1>5. /\ ~Deployed(v) /\ vault' = [vault EXCEPT ![v] = s]
      /\ RegisterAndReserve(Registry, v, c, n)
  BY <1>3 DEF Accept, SpawnVault, t
<1>6. s.terms = t /\ ~s.finalized /\ s # NoVault
  <2>1. s \in VaultRecords /\ s.terms = t /\ ~s.finalized
    BY <1>3 DEF Fresh, VaultRecords, State, t
  <2> QED BY <2>1, MarketFacts
<1> HIDE DEF s
<1>7. /\ vault'[v] = s /\ \A w \in Vaults \ {v} : vault'[w] = vault[w]
  BY <1>1, <1>5 DEF MarketTypes, VaultTypes
<1>8. standing[v] = "none"
  BY <1>5 DEF standing
<1>9. /\ \A w \in Vaults : standing'[w] = IF w = v THEN "open" ELSE standing[w]
      /\ \A w \in Vaults : carrier'[w] = IF w = v THEN c ELSE carrier[w]
      /\ \A w \in Vaults : worth'[w] = IF w = v THEN n ELSE worth[w]
  BY <1>6, <1>7 DEF standing, carrier, worth, Deployed, Courier, Value
<1>10. /\ standing' = [standing EXCEPT ![v] = "open"]
       /\ carrier' = [carrier EXCEPT ![v] = c]
       /\ worth' = [worth EXCEPT ![v] = n]
  BY <1>9 DEF standing, carrier, worth
<1>11. Clients!Spawn(v, c, n)
  BY <1>3, <1>5, <1>8, <1>10, ClientsOpen, MarketFacts
<1> QED BY <1>4, <1>11 DEF Clients!Open

LEMMA SettlingLooks ==
  ASSUME MarketInv, NEW v \in Vaults, SettlingWell(v) \/ SettlingBadly(v)
  PROVE  /\ standing[v] = "open" /\ standing' = [standing EXCEPT ![v] = "settled"]
         /\ Release(v, carrier[v], worth[v]) \/ Slash(v, carrier[v], worth[v])
         /\ UNCHANGED <<carrier, worth, now>>
<1>1. MarketTypes /\ PoolType
  BY DEF MarketInv
<1>2. /\ Deployed(v) /\ ~vault[v].finalized /\ Replaced(v, TRUE)
      /\ Release(v, Courier(v), Value(v)) \/ Slash(v, Courier(v), Value(v))
      /\ UNCHANGED now
  <2>1. CASE SettlingWell(v)
    BY <1>1, <2>1, ReleasingReplaces DEF SettlingWell, MarketTypes
  <2>2. CASE SettlingBadly(v)
    <3>1. /\ Deployed(v) /\ SlashingStep(v, Paid(Courier(v), Value(v)))
          /\ Slash(v, Courier(v), Value(v)) /\ UNCHANGED now
      BY <2>2 DEF SettlingBadly
    <3>2. Paid(Courier(v), Value(v)) \in Nat
      BY <1>1, <3>1, RecordOf, SlashStakes DEF PoolType, StakeType, MarketTypes
    <3> QED BY <1>1, <3>1, <3>2, SlashingReplaces DEF MarketTypes
  <2> QED BY <2>1, <2>2
<1>3. /\ UNCHANGED <<carrier, worth>>
      /\ standing' = [standing EXCEPT ![v] = "settled"]
  BY <1>1, <1>2, ReplacedLooks
<1>4. standing[v] = "open" /\ carrier[v] = Courier(v) /\ worth[v] = Value(v)
  BY <1>2 DEF standing, carrier, worth
<1> QED BY <1>2, <1>3, <1>4

LEMMA SettlingIsSettling ==
  ASSUME MarketInv, NEW v \in Vaults, SettlingWell(v) \/ SettlingBadly(v)
  PROVE  Clients!SettleByRelease(v) \/ Clients!SettleBySlash(v)
BY SettlingLooks, ClientsSettle

LEMMA CarryingLooksIdle ==
  ASSUME MarketInv, NEW v \in Vaults, Carrying(v)
  PROVE  UNCHANGED <<standing, carrier, worth>>
<1>1. MarketTypes /\ QuietStep(v)
  BY DEF MarketInv, Carrying
<1>2. Deployed(v) /\ Replaced(v, vault[v].finalized)
  BY <1>1, QuietReplaces DEF MarketTypes
<1>3. /\ UNCHANGED <<carrier, worth>>
      /\ standing' = [standing EXCEPT ![v] = IF vault[v].finalized THEN "settled" ELSE "open"]
  BY <1>1, <1>2, ReplacedLooks
<1>4. standing[v] = IF vault[v].finalized THEN "settled" ELSE "open"
  BY <1>2 DEF standing
<1>5. standing' = standing
  BY <1>3, <1>4 DEF standing
<1> QED BY <1>3, <1>5

LEMMA ClientsStep ==
  ASSUME MarketInv, [Next]_vars
  PROVE  [Clients!Next]_(Clients!vars)
<1>0. MarketTypes /\ RequestsSound /\ PoolType
  BY DEF MarketInv
<1>1. ASSUME UNCHANGED <<standing, carrier, worth>>, UNCHANGED poolVars, UNCHANGED now
      PROVE  UNCHANGED Clients!vars
  BY <1>1, ClientsQuiet, SamePoolState
     DEF Clients!vars, Clients!poolVars, poolVars, Clients!stakes, stakes,
         Clients!claims, claims, Clients!asks, asks, Clients!admin, admin
<1>2. CASE Membership
  <2>1. UNCHANGED Clients!clientVars /\ UNCHANGED now
    <3>1. UNCHANGED <<now, vault>>
      BY <1>2 DEF Membership, OthersUnchanged
    <3> QED BY <3>1, VaultsLookSame, ClientsQuiet
  <2>2. Clients!Quiet
    BY <2>1 DEF Clients!Quiet
  <2>3. CASE SetFactory(Registry)
    BY <2>2, <2>3, SameMembership, MarketFacts DEF Clients!Next, Clients!Appoint
  <2>4. CASE \E a \in Accounts : AdmitMember(a)
    BY <2>2, <2>4, SameMembership DEF Clients!Next, Clients!Admit
  <2>5. CASE \E a \in Accounts, n \in Amounts : DepositStake(a, n) \/ RequestWithdraw(a, n)
    BY <2>2, <2>5, SameMembership DEF Clients!Next, Clients!Deposit, Clients!Ask
  <2>6. CASE \E a \in Accounts : FinalizeWithdraw(a)
    BY <2>2, <2>6, SameMembership DEF Clients!Next, Clients!Withdraw
  <2> QED BY <1>2, <2>3, <2>4, <2>5, <2>6 DEF Membership
<1>3. CASE Asking \/ Bidding \/ UNCHANGED vars
  <2>1. UNCHANGED <<now, vault>> /\ UNCHANGED poolVars
    BY <1>3 DEF Asking, Bidding, PoolUnchanged, vars
  <2> QED BY <1>1, <2>1, VaultsLookSame
<1>4. CASE Accepting
  BY <1>4, AcceptingIsOpening DEF Clients!Next
<1>5. ASSUME NEW v \in Vaults, Carrying(v) PROVE UNCHANGED Clients!vars
  <2>1. UNCHANGED now /\ UNCHANGED poolVars
    BY <1>5 DEF Carrying, PoolUnchanged
  <2> QED BY <1>1, <1>5, <2>1, CarryingLooksIdle
<1>6. ASSUME NEW v \in Vaults, SettlingWell(v) \/ SettlingBadly(v) PROVE Clients!Next
  BY <1>6, SettlingIsSettling DEF Clients!Next, Clients!VaultStep
<1>7. CASE Clock
  <2>1. UNCHANGED vault /\ UNCHANGED poolVars /\ TimePasses
    BY <1>7 DEF Clock, PoolUnchanged
  <2>2. UNCHANGED Clients!clientVars
    BY <2>1, VaultsLookSame, ClientsQuiet
  <2>3. Clients!Clock
    BY <2>1, <2>2, SamePoolState
       DEF Clients!Clock, Clients!TimePasses, TimePasses, Clients!poolVars, poolVars,
           Clients!stakes, stakes, Clients!claims, claims, Clients!asks, asks,
           Clients!admin, admin
  <2> QED BY <2>3 DEF Clients!Next
<1> QED BY <1>2, <1>3, <1>4, <1>5, <1>6, <1>7 DEF Next

\* VaultsAreClients: what the registry's vaults do to the pool is what
\* PoolClients allows, so what is proved of the pool there holds here.
THEOREM MarketVaultsAreClients == Spec => VaultsAreClients
<1>1. Init => Clients!Init
  <2> SUFFICES ASSUME Init PROVE Clients!Init
    OBVIOUS
  <2>1. PoolInit /\ now = 1 /\ \A v \in Vaults : ~Deployed(v)
    BY DEF Init, VaultInit, Deployed
  <2>2. /\ standing = [v \in Vaults |-> "none"]
        /\ carrier = [v \in Vaults |-> NoAccount] /\ worth = [v \in Vaults |-> 0]
    BY <2>1 DEF standing, carrier, worth
  <2> QED BY <2>1, <2>2, ClientsStart
<1>2. MarketInv /\ [Next]_vars => [Clients!Next]_(Clients!vars)
  BY ClientsStep
<1> QED BY <1>1, <1>2, TheMarketIsSound, PTL DEF Spec, VaultsAreClients, Clients!Spec

-----------------------------------------------------------------------------
(* The registry's vaults are deliveries.                                   *)

\* Vaulted says of a vault what this module says.
LEMMA SameGuards ==
  \A v : /\ Vaulted!Deployed(v) <=> Deployed(v)
         /\ Vaulted!Pending(v) <=> Pending(v)
         /\ Vaulted!CanPickUp(v) <=> CanPickUp(v)
         /\ Vaulted!PickupTimedOut(v) <=> PickupTimedOut(v)
         /\ Vaulted!Confirmable(v) <=> Confirmable(v)
         /\ Vaulted!DropoffTimedOut(v) <=> DropoffTimedOut(v)
         /\ Vaulted!Disputable(v) <=> Disputable(v)
         /\ Vaulted!Finalizable(v) <=> Finalizable(v)
         /\ Vaulted!Cancellable(v) <=> Cancellable(v)
BY DEF Vaulted!Deployed, Deployed, Vaulted!Pending, Pending,
       Vaulted!CanPickUp, CanPickUp, Vaulted!PickupTimedOut, PickupTimedOut,
       Vaulted!Confirmable, Confirmable, Vaulted!DropoffTimedOut, DropoffTimedOut,
       Vaulted!Disputable, Disputable, Vaulted!Finalizable, Finalizable,
       Vaulted!Cancellable, Cancellable

LEMMA SameEndings ==
  /\ \A v, r : Vaulted!PaidOut(v, r) <=> PaidOut(v, r)
  /\ \A v : Vaulted!Refunded(v) <=> Refunded(v)
  /\ \A v, r, k : Vaulted!SlashedAndRefunded(v, r, k) <=> SlashedAndRefunded(v, r, k)
BY DEF Vaulted!PaidOut, PaidOut, Vaulted!Refunded, Refunded,
       Vaulted!SlashedAndRefunded, SlashedAndRefunded, Vaulted!Accepts, Accepts

LEMMA SameSteps ==
  /\ \A v : Vaulted!QuietStep(v) <=> QuietStep(v)
  /\ \A v : Vaulted!ReleasingStep(v) <=> ReleasingStep(v)
  /\ \A v, k : Vaulted!SlashingStep(v, k) <=> SlashingStep(v, k)
<1>1. ASSUME NEW v PROVE Vaulted!QuietStep(v) <=> QuietStep(v)
  BY SameGuards
     DEF Vaulted!QuietStep, QuietStep, Vaulted!Fund, Fund,
         Vaulted!Pickup, Pickup, Vaulted!ConfirmDelivery, ConfirmDelivery,
         Vaulted!RaiseDispute, RaiseDispute
<1>2. ASSUME NEW v PROVE Vaulted!ReleasingStep(v) <=> ReleasingStep(v)
  BY SameGuards, SameEndings
     DEF Vaulted!ReleasingStep, ReleasingStep, Vaulted!ConfirmAndPay, ConfirmAndPay,
         Vaulted!ResolveForCourier, ResolveForCourier, Vaulted!FinalizeDelivered, FinalizeDelivered,
         Vaulted!RefundOnPickupTimeout, RefundOnPickupTimeout, Vaulted!CancelByBuyerPrePickup, CancelByBuyerPrePickup
<1>3. ASSUME NEW v, NEW k PROVE Vaulted!SlashingStep(v, k) <=> SlashingStep(v, k)
  BY SameGuards, SameEndings
     DEF Vaulted!SlashingStep, SlashingStep, Vaulted!ResolveForBuyer, ResolveForBuyer,
         Vaulted!SlashOnDropoffTimeout, SlashOnDropoffTimeout
<1> QED BY <1>1, <1>2, <1>3

LEMMA SameSpawn == \A v, t : Vaulted!SpawnVault(v, t) <=> SpawnVault(v, t)
BY SameGuards DEF Vaulted!SpawnVault, SpawnVault, Vaulted!Constructible, Constructible,
       Vaulted!Fresh, Fresh

\* What a request and a bid make up can be a vault's terms.
LEMMA AgreementsAreTerms == Agreements \subseteq Terms
<1> SUFFICES ASSUME NEW t \in Agreements PROVE t \in Terms
  OBVIOUS
<1> DEFINE Made(r, a, b) == Contract(r, [courier |-> a, offered |-> b])
           Promised == {o \in BidTerms : o.promisedTime > 0}
<1>0. Agreements = {Made(r, a, b) : r \in RequestTerms, a \in Accounts, b \in Promised}
  BY DEF Agreements
<1> HIDE DEF Made, Promised
<1>1. PICK r \in RequestTerms, a \in Accounts, b \in Promised : t = Made(r, a, b)
  BY <1>0
<1> USE DEF Made, Promised
<1>2. /\ r.declaredValue \in Nat /\ r.disputeWindow \in Nat /\ r.refuses \subseteq Parties
      /\ b.price \in Nat /\ b.promisedTime \in Nat /\ b.refuses \subseteq Parties
      /\ b.promisedTime > 0
  BY MarketFacts
<1>3. b.promisedTime - 1 \in Nat /\ b.refuses \cup r.refuses \subseteq Parties
  BY <1>2
<1> QED BY <1>1, <1>2, <1>3 DEF Contract, Terms

LEMMA AcceptedOnAgreement ==
  ASSUME MarketTypes, RequestsSound, NEW id \in Ids, NEW i \in DOMAIN bids[id],
         InStage(id, "Open")
  PROVE  TermsOf(id, i) \in Agreements
<1> DEFINE r == requests[id].asked
           b == bids[id][i]
<1>1. r \in RequestTerms
  <2>1. requests[id] \in RequestRecords
    BY OpenedRecord
  <2> QED BY <2>1 DEF RequestRecords
<1>2. /\ b.courier \in Accounts /\ b.offered \in BidTerms /\ b.offered.promisedTime > 1
      /\ b.offered.promisedTime \in Nat
  <2>1. bids[id] \in Seq(BidRecords)
    BY DEF MarketTypes
  <2>2. b \in BidRecords /\ b.offered.promisedTime > 1
    BY <2>1 DEF RequestsSound, BidsSound
  <2>3. b.courier \in Accounts /\ b.offered \in BidTerms
    BY <2>2 DEF BidRecords
  <2> QED BY <2>2, <2>3, MarketFacts
<1>3. TermsOf(id, i) = Contract(r, [courier |-> b.courier, offered |-> b.offered])
  BY DEF TermsOf, Contract
<1>4. b.offered.promisedTime > 0
  BY <1>2
<1> HIDE DEF r, b
<1> QED BY <1>1, <1>2, <1>3, <1>4 DEF Agreements

\* A slash brings in no more than the value declared.
LEMMA RecoveredIsBounded ==
  ASSUME MarketInv, NEW v \in Vaults, SettlingBadly(v)
  PROVE  Paid(Courier(v), Value(v)) \in Vaulted!Recoveries(v)
<1>1. Deployed(v) /\ Slash(v, Courier(v), Value(v)) /\ MarketTypes /\ PoolType
  BY DEF SettlingBadly, MarketInv
<1>2. /\ Paid(Courier(v), Value(v)) \in Nat /\ Paid(Courier(v), Value(v)) <= Value(v)
      /\ Value(v) \in Nat
  BY <1>1, RecordOf, SlashStakes DEF PoolType, StakeType, MarketTypes
<1> QED BY <1>2 DEF Vaulted!Recoveries, Value

\* The pool goes on knowing a vault that settles.
LEMMA SettlingIsKnown ==
  ASSUME MarketInv, NEW v \in Vaults, SettlingWell(v) \/ SettlingBadly(v)
  PROVE  Deployed(v) /\ UNCHANGED <<known, now>>
<1>1. /\ standing[v] = "open" /\ standing' = [standing EXCEPT ![v] = "settled"]
      /\ UNCHANGED now
  BY SettlingLooks
<1>2. UNCHANGED known
  BY <1>1, KnownByStanding DEF standing
<1>3. Deployed(v)
  BY <1>1 DEF standing
<1> QED BY <1>1, <1>2, <1>3

LEMMA VaultedStep ==
  ASSUME MarketInv, [Next]_vars
  PROVE  [Vaulted!Next]_(Vaulted!vars)
<1>0. MarketTypes /\ RequestsSound
  BY DEF MarketInv
<1>a. UNCHANGED vault => UNCHANGED known
  BY DEF known, Deployed
<1>b. ASSUME NEW v \in Vaults, Deployed(v) PROVE Vaulted!Answered(v)
  BY <1>b DEF Vaulted!Answered
<1>c. ASSUME UNCHANGED <<known, now>> PROVE Vaulted!AtOnce
  BY <1>c DEF Vaulted!AtOnce, known
<1>1. CASE Membership \/ Asking \/ Bidding \/ UNCHANGED vars
  <2>1. UNCHANGED <<now, vault>>
    BY <1>1 DEF Membership, OthersUnchanged, Asking, Bidding, vars
  <2> QED BY <1>a, <2>1 DEF Vaulted!vars, known
<1>2. CASE Accepting
  <2>1. PICK id \in Ids, v \in Vaults : \E j :
           /\ j \in DOMAIN bids[id] /\ InStage(id, "Open") /\ Accept(id, j, v)
           /\ UNCHANGED <<now, bids>> /\ TermsOf(id, j) \in Terms
    BY <1>2, AcceptingSpawns
  <2>2. PICK i : /\ i \in DOMAIN bids[id] /\ InStage(id, "Open") /\ Accept(id, i, v)
                 /\ UNCHANGED now
    BY <2>1
  <2>3. TermsOf(id, i) \in Agreements
    BY <1>0, <2>2, AcceptedOnAgreement
  <2>4. Vaulted!SpawnVault(v, TermsOf(id, i))
    BY <2>2, SameSpawn DEF Accept
  <2>5. known' = [known EXCEPT ![v] = "spawned"]
    <3> DEFINE r == [Fresh(TermsOf(id, i)) EXCEPT !.initialized = TRUE]
    <3>1. r # NoVault /\ vault' = [vault EXCEPT ![v] = r]
      <4>1. r \in VaultRecords
        BY <2>3, AgreementsAreTerms DEF Fresh, VaultRecords, State
      <4> HIDE DEF r
      <4> QED BY <2>2, <4>1, MarketFacts DEF Accept, SpawnVault, r
    <3> HIDE DEF r
    <3>2. \A w \in Vaults : Deployed(w)' <=> w = v \/ Deployed(w)
      BY <1>0, <3>1 DEF Deployed, MarketTypes, VaultTypes
    <3> QED BY <3>2 DEF known
  <2>6. "spawned" \in Vaulted!Backings \ {"none"}
    BY DEF Vaulted!Backings
  <2> QED BY <2>2, <2>3, <2>4, <2>5, <2>6 DEF Vaulted!Deploy, Vaulted!Next, known
<1>3. ASSUME NEW v \in Vaults, Carrying(v) PROVE Vaulted!Next
  <2>1. Vaulted!Quiet(v)
    <3>1. UNCHANGED <<known, now>>
      BY <1>3, CarryingLooksIdle, KnownByStanding DEF Carrying
    <3> QED BY <1>3, <1>c, <3>1, SameSteps DEF Carrying, Vaulted!Quiet
  <2> QED BY <2>1 DEF Vaulted!Next
<1>4. ASSUME NEW v \in Vaults, SettlingWell(v) PROVE Vaulted!Next
  <2>1. Vaulted!Releasing(v)
    BY <1>4, <1>b, <1>c, SettlingIsKnown, SameSteps DEF SettlingWell, Vaulted!Releasing
  <2> QED BY <2>1 DEF Vaulted!Next
<1>5. ASSUME NEW v \in Vaults, SettlingBadly(v) PROVE Vaulted!Next
  <2>1. /\ Deployed(v) /\ Vaulted!SlashingStep(v, Paid(Courier(v), Value(v)))
        /\ UNCHANGED now
    BY <1>5, SameSteps DEF SettlingBadly
  <2>2. Vaulted!Slashing(v)
    BY <1>5, <1>b, <1>c, <2>1, SettlingIsKnown, RecoveredIsBounded, SameGuards
       DEF Vaulted!Slashing
  <2> QED BY <2>2 DEF Vaulted!Next
<1>6. CASE Clock
  <2>1. UNCHANGED known /\ UNCHANGED vault /\ TimePasses
    BY <1>6, <1>a DEF Clock
  <2> QED BY <2>1 DEF TimePasses, Vaulted!Clock, Vaulted!TimePasses, Vaulted!Next, known
<1> QED BY <1>1, <1>2, <1>3, <1>4, <1>5, <1>6 DEF Next

\* The market implements both its parts: every step of it is one of PoolClients
\* or leaves the pool alone, and one of Deliveries or leaves the vaults alone.
\* So what PoolProofs and DeliveryProofs prove holds in it, with the pool there
\* is: whatever the stakes are, a courier is paid only when due, a pickup
\* commits, and the deadlines of a vault neither overlap nor leave a gap.
THEOREM TheMarketFitsItsParts == Spec => PartsFit
<1>1. Init => Vaulted!Init
  BY DEF Init, VaultInit, Deployed, Vaulted!Init, Vaulted!VaultInit
<1>2. MarketInv /\ [Next]_vars => [Vaulted!Next]_(Vaulted!vars)
  BY VaultedStep
<1>3. Spec => Vaulted!Spec
  BY <1>1, <1>2, TheMarketIsSound, PTL DEF Spec, Vaulted!Spec
<1> QED BY <1>3, MarketVaultsAreClients DEF PartsFit

-----------------------------------------------------------------------------
(* What a failure pays.                                                    *)

\* Until it ends, a vault holds the fee exactly if it was funded, has paid the
\* buyer nothing, is funded from the pickup on and disputed only once
\* delivered.
Escrowed(r) ==
    ~r.finalized =>
        /\ r.toBuyer = 0
        /\ r.balance = (IF r.funded THEN r.terms.courierFee ELSE 0)
        /\ r.state # "Funded" => r.funded
        /\ r.disputed => r.state = "Delivered"
EscrowInv == \A v \in Vaults : Deployed(v) => Escrowed(vault[v])

LEMMA QuietEscrow ==
  ASSUME MarketTypes, NEW v \in Vaults, QuietStep(v), Escrowed(vault[v])
  PROVE  /\ Deployed(v) /\ Escrowed(vault'[v])
         /\ vault'[v].state = "Failed" => vault[v].state = "Failed"
         /\ \A w \in Vaults \ {v} : vault'[w] = vault[w]
<1>1. Deployed(v) /\ vault[v] \in VaultRecords
  BY QuietReplaces, RecordOf DEF MarketTypes
<1>2. v \in DOMAIN vault /\ DOMAIN vault = Vaults
  BY DEF MarketTypes, VaultTypes
<1>3. /\ vault[v].balance \in Nat /\ vault[v].terms.courierFee \in Nat
  BY <1>1, RecordFields
<1> USE <1>1, <1>2, <1>3 DEF Escrowed, VaultRecords
<1>4. CASE Fund(v)
  BY <1>4 DEF Fund
<1>5. CASE Pickup(v)
  BY <1>5 DEF Pickup, CanPickUp, Pending
<1>6. CASE ConfirmDelivery(v)
  BY <1>6 DEF ConfirmDelivery, Confirmable, Pending
<1>7. CASE RaiseDispute(v)
  BY <1>7 DEF RaiseDispute, Disputable, Pending
<1> QED BY <1>4, <1>5, <1>6, <1>7 DEF QuietStep

\* A settlement ends its vault and touches no other.
LEMMA SettlingEnds ==
  ASSUME MarketInv, NEW v \in Vaults, SettlingWell(v) \/ SettlingBadly(v)
  PROVE  /\ Deployed(v) /\ vault'[v].finalized
         /\ \A w \in Vaults \ {v} : vault'[w] = vault[w]
<1>1. MarketTypes /\ PoolType
  BY DEF MarketInv
<1>2. Deployed(v) /\ Replaced(v, TRUE)
  <2>1. CASE SettlingWell(v)
    BY <1>1, <2>1, ReleasingReplaces DEF SettlingWell, MarketTypes
  <2>2. CASE SettlingBadly(v)
    <3>1. /\ Deployed(v) /\ SlashingStep(v, Paid(Courier(v), Value(v)))
          /\ Slash(v, Courier(v), Value(v))
      BY <2>2 DEF SettlingBadly
    <3>2. Paid(Courier(v), Value(v)) \in Nat
      BY <1>1, <3>1, RecordOf, SlashStakes DEF PoolType, StakeType, MarketTypes
    <3> QED BY <1>1, <3>1, <3>2, SlashingReplaces DEF MarketTypes
  <2> QED BY <2>1, <2>2
<1> QED BY <1>1, <1>2 DEF Replaced, MarketTypes, VaultTypes

\* A spawned vault is fresh.
LEMMA AcceptingEscrow ==
  ASSUME MarketInv, Accepting
  PROVE  \E v \in Vaults :
           /\ ~Deployed(v) /\ Escrowed(vault'[v])
           /\ \A w \in Vaults \ {v} : vault'[w] = vault[w]
<1>1. PICK id \in Ids, v \in Vaults : \E j : Accept(id, j, v)
  BY AcceptingSpawns
<1>2. PICK t : /\ ~Deployed(v)
               /\ vault' = [vault EXCEPT ![v] = [Fresh(t) EXCEPT !.initialized = TRUE]]
  BY <1>1 DEF Accept, SpawnVault
<1>3. Escrowed([Fresh(t) EXCEPT !.initialized = TRUE])
  BY DEF Escrowed, Fresh
<1>4. DOMAIN vault = Vaults
  BY DEF MarketInv, MarketTypes, VaultTypes
<1> QED BY <1>2, <1>3, <1>4

\* A step leaves a vault alone unless it is the vault's own.
LEMMA OwnStep ==
  ASSUME MarketInv, [Next]_vars
  PROVE  \/ UNCHANGED vault
         \/ Accepting
         \/ \E v \in Vaults : QuietStep(v) \/ SettlingWell(v) \/ SettlingBadly(v)
BY DEF Next, Membership, OthersUnchanged, Asking, Bidding, Clock, Carrying, vars

LEMMA EscrowStep ==
  ASSUME MarketInv, EscrowInv, [Next]_vars
  PROVE  EscrowInv'
<1>0. MarketTypes
  BY DEF MarketInv
<1>1. CASE UNCHANGED vault
  BY <1>1 DEF EscrowInv, Deployed
<1>2. ASSUME NEW v \in Vaults, Escrowed(vault'[v]),
             \A w \in Vaults \ {v} : vault'[w] = vault[w]
      PROVE  EscrowInv'
  BY <1>2 DEF EscrowInv, Deployed
<1>3. CASE Accepting
  BY <1>2, <1>3, AcceptingEscrow
<1>4. ASSUME NEW v \in Vaults, QuietStep(v) PROVE EscrowInv'
  <2>1. Escrowed(vault[v])
    BY <1>0, <1>4, QuietReplaces DEF EscrowInv, MarketTypes
  <2> QED BY <1>0, <1>2, <1>4, <2>1, QuietEscrow
<1>5. ASSUME NEW v \in Vaults, SettlingWell(v) \/ SettlingBadly(v) PROVE EscrowInv'
  BY <1>2, <1>5, SettlingEnds DEF Escrowed
<1> QED BY <1>1, <1>3, <1>4, <1>5, OwnStep

\* A delivery only fails by a slash, and then its buyer gets the fee back and
\* what the pool paid.
LEMMA FailureIsASlash ==
  ASSUME MarketInv, EscrowInv, [Next]_vars, NEW v \in Vaults, Deployed(v),
         vault'[v].state = "Failed", vault[v].state # "Failed"
  PROVE  /\ ~vault[v].finalized
         /\ vault'[v].toBuyer = vault[v].terms.courierFee + Paid(Courier(v), Value(v))
<1>0. MarketTypes /\ PoolType
  BY DEF MarketInv
<1>1. vault[v] \in VaultRecords /\ vault[v].balance \in Nat /\ vault[v].terms.courierFee \in Nat
      /\ DOMAIN vault = Vaults /\ Escrowed(vault[v])
  BY <1>0, RecordOf, RecordFields DEF MarketTypes, VaultTypes, EscrowInv
<1>2. ASSUME NEW w \in Vaults, SettlingBadly(w) PROVE w = v
  BY <1>0, <1>2, SettlingEnds
<1>3. ~Accepting
  BY AcceptingEscrow
<1>4. ASSUME NEW w \in Vaults, QuietStep(w) PROVE FALSE
  <2>1. Escrowed(vault[w])
    BY <1>0, <1>4, QuietReplaces DEF EscrowInv, MarketTypes
  <2> QED BY <1>0, <1>4, <2>1, QuietEscrow
<1>5. ASSUME NEW w \in Vaults, SettlingWell(w) PROVE FALSE
  <2>1. w = v
    BY <1>5, SettlingEnds
  <2>2. ReleasingStep(v)
    BY <1>5, <2>1 DEF SettlingWell
  <2>3. \/ \E r : DOMAIN r = DOMAIN vault[v] /\ PaidOut(v, r)
        \/ Refunded(v)
    BY <2>2 DEF ReleasingStep, ConfirmAndPay, ResolveForCourier, FinalizeDelivered, Finalizable,
                RefundOnPickupTimeout, PickupTimedOut, CancelByBuyerPrePickup
  <2> QED BY <1>1, <2>3 DEF PaidOut, Refunded, VaultRecords
<1>6. SettlingBadly(v)
  BY <1>2, <1>3, <1>4, <1>5, OwnStep
<1> DEFINE k == Paid(Courier(v), Value(v))
<1>7. SlashingStep(v, k) /\ Slash(v, Courier(v), Value(v))
  BY <1>6 DEF SettlingBadly
<1>8. k \in Nat
  BY <1>0, <1>7, RecordOf, SlashStakes DEF PoolType, StakeType, MarketTypes
<1> HIDE DEF k
<1>9. ~vault[v].finalized
  BY <1>0, <1>7, <1>8, SlashingReplaces DEF MarketTypes
<1>10. vault[v].toBuyer = 0 /\ vault[v].balance = vault[v].terms.courierFee
  BY <1>1, <1>7, <1>9 DEF SlashingStep, ResolveForBuyer, SlashOnDropoffTimeout,
       DropoffTimedOut, Escrowed
<1>11. \E r : /\ DOMAIN r = DOMAIN vault[v] /\ r.toBuyer = vault[v].toBuyer
              /\ r.balance = vault[v].balance /\ SlashedAndRefunded(v, r, k)
  <2>1. CASE ResolveForBuyer(v, k)
    <3> DEFINE r == [vault[v] EXCEPT !.ruling = "buyer"]
    <3>1. /\ DOMAIN r = DOMAIN vault[v] /\ r.toBuyer = vault[v].toBuyer
          /\ r.balance = vault[v].balance
      BY <1>1 DEF VaultRecords
    <3>2. SlashedAndRefunded(v, r, k)
      BY <2>1 DEF ResolveForBuyer
    <3> HIDE DEF r
    <3> QED BY <3>1, <3>2
  <2>2. CASE SlashOnDropoffTimeout(v, k)
    BY <2>2 DEF SlashOnDropoffTimeout, DropoffTimedOut
  <2> QED BY <1>7, <2>1, <2>2 DEF SlashingStep
<1>12. vault'[v].toBuyer = vault[v].toBuyer + vault[v].balance + k
  BY <1>1, <1>11 DEF SlashedAndRefunded, VaultRecords
<1> QED BY <1>1, <1>8, <1>9, <1>10, <1>12 DEF k

\* FailureIsCompensated: as long as the pool backs what it has promised, the
\* buyer of a failed delivery has the fee back and the declared value on top,
\* less under one wei per other member.
THEOREM FailuresAreCompensated == Spec => FailureIsCompensated
<1> DEFINE Compensated ==
      \A v \in Vaults :
         /\ Deployed(v) /\ vault'[v].state = "Failed" /\ vault[v].state # "Failed"
         /\ activeValue <= totalStake
         => LET short == vault[v].terms.courierFee + Value(v) - vault'[v].toBuyer
            IN  short = 0 \/ short < Cardinality(Others(Courier(v)))
<1>1. MarketInv /\ EscrowInv /\ [Next]_vars => Compensated
  <2> SUFFICES ASSUME MarketInv, EscrowInv, [Next]_vars, NEW v \in Vaults, Deployed(v),
                      vault'[v].state = "Failed", vault[v].state # "Failed",
                      activeValue <= totalStake
               PROVE  LET short == vault[v].terms.courierFee + Value(v) - vault'[v].toBuyer
                      IN  short = 0 \/ short < Cardinality(Others(Courier(v)))
    OBVIOUS
  <2> DEFINE c == Courier(v)
             n == Value(v)
             fee == vault[v].terms.courierFee
  <2>1. /\ MarketTypes /\ PoolType /\ Solvent /\ MembersHoldAll /\ Books
        /\ StakeType /\ totalStake \in Nat /\ activeValue \in Nat
        /\ \A a \in Accounts : reserved[a] \in Nat
    BY DEF MarketInv, PoolType, StakeType
  <2>2. ~vault[v].finalized /\ vault'[v].toBuyer = fee + Paid(c, n)
    BY FailureIsASlash
  <2>3. /\ c \in Accounts /\ n \in Nat
        /\ n <= reserved[c] /\ reserved[c] <= activeValue
    BY <2>1, <2>2, UnderWay
  <2>4. fee \in Nat
    BY <2>1, RecordOf, RecordFields DEF MarketTypes
  <2> HIDE DEF c, n, fee
  <2>5. Paid(c, n) \in Nat
    <3>1. /\ FromCourier(c, n) \in Nat /\ FromPool(c, n) \in Nat
      BY <2>1, <2>3, ProRataFits, ShareFits
    <3> QED BY <3>1 DEF Paid
  <2>6. n <= totalStake
    BY <2>1, <2>3
  <2>7. n - Paid(c, n) = 0 \/ n - Paid(c, n) < Cardinality(Others(c))
    BY <2>1, <2>3, <2>6, BackedSlashPays
  <2>8. fee + n - (fee + Paid(c, n)) = n - Paid(c, n)
    BY <2>3, <2>4, <2>5
  <2> QED BY <2>2, <2>7, <2>8 DEF c, n, fee
<1>2. Init => EscrowInv
  BY DEF Init, VaultInit, EscrowInv, Deployed
<1>3. MarketInv /\ EscrowInv /\ [Next]_vars => EscrowInv'
  BY EscrowStep
<1> QED BY <1>1, <1>2, <1>3, TheMarketIsSound, PTL DEF Spec, FailureIsCompensated
=============================================================================
