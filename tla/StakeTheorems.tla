--------------------------- MODULE StakeTheorems ----------------------------
(***************************************************************************)
(* Facts the proofs share: about sums and finite sets, and about the       *)
(* operations of StakingPool, for whoever calls them: what slash()         *)
(* computes, what every operation preserves, and the books that match      *)
(* reservations with open deliveries.                                      *)
(***************************************************************************)
EXTENDS StakingPool, FiniteSetTheorems, TLAPS

-----------------------------------------------------------------------------
(* Totals.  Sets are finite and functions are Nat-valued on them.           *)
(* Induction is over the subsets of a finite set, stated with a set FF of  *)
(* subsets in place of a predicate so that it can be instantiated.         *)

\* A family of subsets of S that holds {} and is closed under adding a member
\* of S holds S.
LEMMA SubsetInduction ==
  ASSUME NEW S, IsFiniteSet(S), NEW FF,
         {} \in FF,
         \A T \in SUBSET S : \A x \in S \ T : T \in FF => T \cup {x} \in FF
  PROVE  S \in FF
<1> DEFINE Bad == {T \in SUBSET S : T \notin FF}
<1>1. SUFFICES ASSUME S \notin FF PROVE FALSE
  OBVIOUS
<1>2. Bad # {} /\ Bad \subseteq SUBSET S
  BY <1>1
<1>3. IsWellFoundedOn(StrictSubsetOrdering(S), SUBSET S)
  BY FS_StrictSubsetOrderingWellFounded, FS_FiniteSubsetsOfFinite
<1>4. PICK T \in Bad : \A U \in Bad : ~(<<U, T>> \in StrictSubsetOrdering(S))
  <2> HIDE DEF Bad
  <2> QED BY <1>2, <1>3, WFMin
<1>5. PICK x \in T : TRUE
  BY <1>4
<1>6. T \ {x} \notin Bad
  BY <1>4, <1>5 DEF StrictSubsetOrdering
<1>7. T \ {x} \in FF /\ T = (T \ {x}) \cup {x} /\ x \in S \ (T \ {x})
  BY <1>4, <1>5, <1>6
<1> QED
  BY <1>4, <1>7

\* A finite set of numbers has a least one.
LEMMA LeastOfFinite ==
  ASSUME NEW S, IsFiniteSet(S), S \subseteq Nat, S # {}
  PROVE  \E x \in S : \A y \in S : x <= y
<1> DEFINE FF == {T \in SUBSET S : T = {} \/ \E x \in T : \A y \in T : x <= y}
<1>1. {} \in FF
  OBVIOUS
<1>2. ASSUME NEW T \in SUBSET S, NEW x \in S \ T, T \in FF
      PROVE  T \cup {x} \in FF
  <2>1. CASE T = {}
    BY <2>1
  <2>2. CASE T # {}
    <3>1. PICK z \in T : \A y \in T : z <= y
      BY <1>2, <2>2
    <3>2. x \in Nat /\ T \subseteq Nat
      OBVIOUS
    <3>3. CASE x <= z
      <4>1. \A y \in T \cup {x} : x <= y
        BY <3>1, <3>2, <3>3
      <4> QED BY <4>1
    <3>4. CASE z <= x
      <4>1. \A y \in T \cup {x} : z <= y
        BY <3>1, <3>2, <3>4
      <4> QED BY <3>1, <4>1
    <3> QED BY <3>1, <3>2, <3>3, <3>4
  <2> QED BY <2>1, <2>2
<1> HIDE DEF FF
<1>3. S \in FF
  BY <1>1, <1>2, SubsetInduction
<1> QED BY <1>3 DEF FF

-----------------------------------------------------------------------------

\* n coins of one entry.
LEMMA StackFinite ==
  ASSUME NEW x, NEW n \in Nat
  PROVE  IsFiniteSet({x} \X (1..n)) /\ Cardinality({x} \X (1..n)) = n
<1>1. IsFiniteSet({x}) /\ Cardinality({x}) = 1
  BY FS_Singleton
<1>2. IsFiniteSet(1..n) /\ Cardinality(1..n) = n
  <2>1. /\ IsFiniteSet(1..n)
        /\ Cardinality(1..n) = IF 1 > n THEN 0 ELSE n - 1 + 1
    BY FS_Interval
  <2> QED BY <2>1
<1>3. /\ IsFiniteSet({x} \X (1..n))
      /\ Cardinality({x} \X (1..n)) = Cardinality({x}) * Cardinality(1..n)
  BY <1>1, <1>2, FS_Product
<1> QED BY <1>1, <1>2, <1>3

\* A finite set of Nat-valued entries needs finitely many coins.
LEMMA CoinsFinite ==
  ASSUME NEW S, IsFiniteSet(S), NEW f, \A x \in S : f[x] \in Nat
  PROVE  IsFiniteSet(Coins(f, S))
<1> DEFINE Good == {T \in SUBSET S : IsFiniteSet(Coins(f, T))}
<1>1. {} \in Good
  BY FS_EmptySet DEF Coins
<1>2. ASSUME NEW T \in SUBSET S, NEW x \in S \ T, T \in Good
      PROVE  T \cup {x} \in Good
  <2>1. Coins(f, T \cup {x}) = Coins(f, T) \cup ({x} \X (1..f[x]))
    BY DEF Coins
  <2>2. IsFiniteSet({x} \X (1..f[x]))
    <3>1. f[x] \in Nat
      OBVIOUS
    <3> QED BY <3>1, StackFinite
  <2>3. IsFiniteSet(Coins(f, T))
    BY <1>2
  <2>4. IsFiniteSet(Coins(f, T) \cup ({x} \X (1..f[x])))
    BY <2>2, <2>3, FS_Union
  <2> QED BY <2>1, <2>4
<1> HIDE DEF Good
<1>3. S \in Good
  BY <1>1, <1>2, SubsetInduction
<1> QED BY <1>3 DEF Good

\* A total is a natural number.
LEMMA TotalType ==
  ASSUME NEW S, IsFiniteSet(S), NEW f, \A x \in S : f[x] \in Nat
  PROVE  Total(f, S) \in Nat
BY CoinsFinite, FS_CardinalityType DEF Total

\* Nothing totals nothing.
LEMMA TotalEmpty == ASSUME NEW f PROVE Total(f, {}) = 0
BY FS_EmptySet DEF Total, Coins

\* A total adds up entry by entry.
LEMMA TotalInsert ==
  ASSUME NEW S, IsFiniteSet(S), NEW x, x \notin S, NEW f,
         f[x] \in Nat, \A y \in S : f[y] \in Nat
  PROVE  Total(f, S \cup {x}) = Total(f, S) + f[x]
<1> DEFINE P == {x} \X (1..f[x])
<1>1. Coins(f, S \cup {x}) = Coins(f, S) \cup P
  BY DEF Coins
<1>2. Coins(f, S) \cap P = {}
  BY DEF Coins
<1>3. IsFiniteSet(Coins(f, S))
  BY CoinsFinite
<1>4. IsFiniteSet(P) /\ Cardinality(P) = f[x]
  BY StackFinite
<1>5. Cardinality(Coins(f, S)) \in Nat
  BY <1>3, FS_CardinalityType
<1> HIDE DEF P
<1>6. Cardinality(Coins(f, S) \cup P) = Cardinality(Coins(f, S)) + f[x] - 0
  BY <1>2, <1>3, <1>4, FS_Union, FS_EmptySet
<1>7. Cardinality(Coins(f, S \cup {x})) = Cardinality(Coins(f, S) \cup P)
  BY <1>1
<1> QED BY <1>5, <1>6, <1>7 DEF Total

\* A total with one entry set apart.
LEMMA TotalRemove ==
  ASSUME NEW S, IsFiniteSet(S), NEW x \in S, NEW f, \A y \in S : f[y] \in Nat
  PROVE  Total(f, S) = Total(f, S \ {x}) + f[x]
<1>1. IsFiniteSet(S \ {x}) /\ S = (S \ {x}) \cup {x}
  BY FS_RemoveElement
<1> QED BY <1>1, TotalInsert

\* Totals only look at the entries.
LEMMA TotalSame ==
  ASSUME NEW S, NEW f, NEW g, \A x \in S : f[x] = g[x]
  PROVE  Total(f, S) = Total(g, S)
<1>1. Coins(f, S) = Coins(g, S)
  BY DEF Coins
<1> QED BY <1>1 DEF Total

-----------------------------------------------------------------------------

\* Adding entry by entry adds the totals.
LEMMA TotalPlus ==
  ASSUME NEW S, IsFiniteSet(S), NEW f, NEW g, NEW h,
         \A x \in S : g[x] \in Nat /\ h[x] \in Nat /\ f[x] = g[x] + h[x]
  PROVE  Total(f, S) = Total(g, S) + Total(h, S)
<1> DEFINE Good == {T \in SUBSET S : Total(f, T) = Total(g, T) + Total(h, T)}
<1>1. {} \in Good
  BY TotalEmpty
<1>2. ASSUME NEW T \in SUBSET S, NEW x \in S \ T, T \in Good
      PROVE  T \cup {x} \in Good
  <2>1. IsFiniteSet(T)
    BY FS_Subset
  <2>2. \A y \in T \cup {x} : f[y] \in Nat /\ g[y] \in Nat /\ h[y] \in Nat
    OBVIOUS
  <2>3. /\ Total(f, T \cup {x}) = Total(f, T) + f[x]
        /\ Total(g, T \cup {x}) = Total(g, T) + g[x]
        /\ Total(h, T \cup {x}) = Total(h, T) + h[x]
    BY <2>1, <2>2, TotalInsert
  <2>4. Total(f, T) \in Nat /\ Total(g, T) \in Nat /\ Total(h, T) \in Nat
    BY <2>1, <2>2, TotalType
  <2>5. Total(f, T) = Total(g, T) + Total(h, T) /\ f[x] = g[x] + h[x]
    BY <1>2
  <2>6. Total(f, T \cup {x}) = Total(g, T \cup {x}) + Total(h, T \cup {x})
    BY <2>2, <2>3, <2>4, <2>5
  <2> QED BY <2>6
<1> HIDE DEF Good
<1>3. S \in Good
  BY <1>1, <1>2, SubsetInduction
<1> QED BY <1>3 DEF Good

\* Smaller entries make a smaller total.
LEMMA TotalMonotone ==
  ASSUME NEW S, IsFiniteSet(S), NEW f, NEW g,
         \A x \in S : f[x] \in Nat /\ g[x] \in Nat /\ f[x] <= g[x]
  PROVE  Total(f, S) <= Total(g, S)
<1> DEFINE h == [x \in S |-> g[x] - f[x]]
<1>1. \A x \in S : f[x] \in Nat /\ h[x] \in Nat /\ g[x] = f[x] + h[x]
  OBVIOUS
<1>2. Total(f, S) \in Nat /\ Total(h, S) \in Nat
  BY <1>1, TotalType
<1> HIDE DEF h
<1>3. Total(g, S) = Total(f, S) + Total(h, S)
  BY <1>1, TotalPlus
<1> QED BY <1>2, <1>3

\* Zero entries total zero.
LEMMA TotalZero ==
  ASSUME NEW S, NEW f, \A x \in S : f[x] = 0
  PROVE  Total(f, S) = 0
<1>1. \A x \in S : 1..f[x] = {}
  OBVIOUS
<1>2. Coins(f, S) = {}
  BY <1>1 DEF Coins
<1> QED BY <1>2, FS_EmptySet DEF Total

\* Everyone with the same.
LEMMA TotalConstant ==
  ASSUME NEW S, IsFiniteSet(S), NEW f, NEW n \in Nat, \A x \in S : f[x] = n
  PROVE  Total(f, S) = n * Cardinality(S)
<1> DEFINE Good == {T \in SUBSET S : Total(f, T) = n * Cardinality(T)}
<1>1. {} \in Good
  BY TotalEmpty, FS_EmptySet
<1>2. ASSUME NEW T \in SUBSET S, NEW x \in S \ T, T \in Good
      PROVE  T \cup {x} \in Good
  <2>1. IsFiniteSet(T)
    BY FS_Subset
  <2>2. x \notin T /\ f[x] = n /\ f[x] \in Nat /\ \A y \in T : f[y] \in Nat
    OBVIOUS
  <2> HIDE DEF Good
  <2>3. Total(f, T \cup {x}) = Total(f, T) + n
    BY <2>1, <2>2, TotalInsert
  <2>4. Cardinality(T \cup {x}) = Cardinality(T) + 1 /\ Cardinality(T) \in Nat
    BY <2>1, FS_AddElement, FS_CardinalityType
  <2>5. Total(f, T) = n * Cardinality(T)
    BY <1>2 DEF Good
  <2>6. Total(f, T \cup {x}) = n * Cardinality(T \cup {x})
    BY <2>3, <2>4, <2>5
  <2> QED BY <2>6 DEF Good
<1>3. S \in Good
  <2> HIDE DEF Good
  <2> QED BY <1>1, <1>2, SubsetInduction
<1> QED BY <1>3

\* Replacing one entry moves the total by the difference.
LEMMA TotalUpdate ==
  ASSUME NEW S, IsFiniteSet(S), NEW x \in S, NEW f, NEW g,
         \A y \in S : f[y] \in Nat /\ g[y] \in Nat,
         \A y \in S \ {x} : g[y] = f[y]
  PROVE  /\ Total(g, S) = Total(f, S) - f[x] + g[x]
         /\ f[x] <= Total(f, S)
<1>1. IsFiniteSet(S \ {x})
  BY FS_RemoveElement
<1>2. Total(f, S \ {x}) = Total(g, S \ {x})
  BY TotalSame
<1>3. /\ Total(f, S) = Total(f, S \ {x}) + f[x]
      /\ Total(g, S) = Total(g, S \ {x}) + g[x]
  BY TotalRemove
<1>4. Total(f, S \ {x}) \in Nat
  BY <1>1, TotalType
<1> QED BY <1>2, <1>3, <1>4

\* An entry is at most the total.
LEMMA EntryWithin ==
  ASSUME NEW S, IsFiniteSet(S), NEW x \in S, NEW f, \A y \in S : f[y] \in Nat
  PROVE  f[x] <= Total(f, S)
BY TotalUpdate

\* A set and the rest of a larger one share its total.
LEMMA TotalSplit ==
  ASSUME NEW S, IsFiniteSet(S), NEW R \in SUBSET S,
         NEW f, \A x \in S : f[x] \in Nat
  PROVE  Total(f, S) = Total(f, R) + Total(f, S \ R)
<1> DEFINE Good == {T \in SUBSET (S \ R) : Total(f, R \cup T) = Total(f, R) + Total(f, T)}
<1>0. IsFiniteSet(R) /\ IsFiniteSet(S \ R)
  BY FS_Subset, FS_Difference
<1>1. {} \in Good
  <2>1. Total(f, R) \in Nat /\ R \cup {} = R
    BY <1>0, TotalType
  <2> QED BY <2>1, TotalEmpty
<1>2. ASSUME NEW T \in SUBSET (S \ R), NEW x \in (S \ R) \ T, T \in Good
      PROVE  T \cup {x} \in Good
  <2>1. IsFiniteSet(T) /\ IsFiniteSet(R \cup T)
    BY <1>0, FS_Subset, FS_Union
  <2>2. /\ Total(f, T \cup {x}) = Total(f, T) + f[x]
        /\ Total(f, (R \cup T) \cup {x}) = Total(f, R \cup T) + f[x]
    BY <2>1, TotalInsert
  <2>3. Total(f, R) \in Nat /\ Total(f, T) \in Nat /\ f[x] \in Nat
    BY <1>0, <2>1, TotalType
  <2>4. Total(f, R \cup T) = Total(f, R) + Total(f, T)
    BY <1>2
  <2>5. R \cup (T \cup {x}) = (R \cup T) \cup {x}
    OBVIOUS
  <2>6. Total(f, R \cup (T \cup {x})) = Total(f, R \cup T) + f[x]
    BY <2>2, <2>5
  <2>7. Total(f, R \cup (T \cup {x})) = Total(f, R) + Total(f, T \cup {x})
    BY <2>2, <2>3, <2>4, <2>6
  <2> QED BY <2>7
<1> HIDE DEF Good
<1>3. S \ R \in Good
  BY <1>0, <1>1, <1>2, SubsetInduction
<1>4. R \cup (S \ R) = S
  OBVIOUS
<1> QED BY <1>3, <1>4 DEF Good

\* Entries bounded in proportion have totals bounded in proportion.
LEMMA TotalProportion ==
  ASSUME NEW S, IsFiniteSet(S), NEW f, NEW g, NEW k \in Nat, NEW b \in Nat,
         \A x \in S : f[x] \in Nat /\ g[x] \in Nat /\ g[x] * b <= k * f[x]
  PROVE  Total(g, S) * b <= k * Total(f, S)
<1> DEFINE Good == {T \in SUBSET S : Total(g, T) * b <= k * Total(f, T)}
<1>1. {} \in Good
  BY TotalEmpty
<1>2. ASSUME NEW T \in SUBSET S, NEW x \in S \ T, T \in Good
      PROVE  T \cup {x} \in Good
  <2>1. IsFiniteSet(T)
    BY FS_Subset
  <2>2. /\ Total(f, T \cup {x}) = Total(f, T) + f[x]
        /\ Total(g, T \cup {x}) = Total(g, T) + g[x]
    BY <2>1, TotalInsert
  <2>3. Total(f, T) \in Nat /\ Total(g, T) \in Nat
    BY <2>1, TotalType
  <2>4. Total(g, T) * b <= k * Total(f, T) /\ g[x] * b <= k * f[x]
    BY <1>2
  <2>5. (Total(g, T) + g[x]) * b <= k * (Total(f, T) + f[x])
    <3>1. ASSUME NEW p \in Nat, NEW q \in Nat, NEW r \in Nat, NEW s \in Nat,
                 p * b <= k * q, r * b <= k * s
          PROVE  (p + r) * b <= k * (q + s)
      BY <3>1
    <3> QED BY <2>3, <2>4, <3>1, f[x] \in Nat, g[x] \in Nat
  <2>6. Total(g, T \cup {x}) * b <= k * Total(f, T \cup {x})
    BY <2>2, <2>5
  <2> QED BY <2>6
<1> HIDE DEF Good
<1>3. S \in Good
  BY <1>1, <1>2, SubsetInduction
<1> QED BY <1>3 DEF Good

\* Rounding every entry down loses less than one unit per entry.
LEMMA TotalRounding ==
  ASSUME NEW S, IsFiniteSet(S), NEW f, NEW g, NEW k \in Nat, NEW b \in Nat \ {0},
         \A x \in S : f[x] \in Nat /\ g[x] \in Nat /\ k * f[x] <= g[x] * b + (b - 1)
  PROVE  k * Total(f, S) <= Total(g, S) * b + Cardinality(S) * (b - 1)
<1> DEFINE Good == {T \in SUBSET S :
              k * Total(f, T) <= Total(g, T) * b + Cardinality(T) * (b - 1)}
<1>1. {} \in Good
  <2>1. Total(f, {}) = 0 /\ Total(g, {}) = 0 /\ Cardinality({}) = 0
    BY TotalEmpty, FS_EmptySet
  <2> QED BY <2>1
<1>2. ASSUME NEW T \in SUBSET S, NEW x \in S \ T, T \in Good
      PROVE  T \cup {x} \in Good
  <2>1. IsFiniteSet(T)
    BY FS_Subset
  <2>2. /\ Total(f, T \cup {x}) = Total(f, T) + f[x]
        /\ Total(g, T \cup {x}) = Total(g, T) + g[x]
    BY <2>1, TotalInsert
  <2>3. Cardinality(T \cup {x}) = Cardinality(T) + 1
    BY <2>1, FS_AddElement
  <2>4. Total(f, T) \in Nat /\ Total(g, T) \in Nat /\ Cardinality(T) \in Nat
    BY <2>1, TotalType, FS_CardinalityType
  <2>5. /\ k * Total(f, T) <= Total(g, T) * b + Cardinality(T) * (b - 1)
        /\ k * f[x] <= g[x] * b + (b - 1)
    BY <1>2
  <2>6. k * (Total(f, T) + f[x]) <= (Total(g, T) + g[x]) * b + (Cardinality(T) + 1) * (b - 1)
    <3>1. ASSUME NEW p \in Nat, NEW q \in Nat, NEW r \in Nat, NEW s \in Nat, NEW m \in Nat,
                 k * q <= p * b + m * (b - 1), k * s <= r * b + (b - 1)
          PROVE  k * (q + s) <= (p + r) * b + (m + 1) * (b - 1)
      BY <3>1
    <3> QED BY <2>4, <2>5, <3>1, f[x] \in Nat, g[x] \in Nat
  <2>7. k * Total(f, T \cup {x}) <= Total(g, T \cup {x}) * b + Cardinality(T \cup {x}) * (b - 1)
    BY <2>2, <2>3, <2>6
  <2> QED BY <2>7
<1> HIDE DEF Good
<1>3. S \in Good
  BY <1>1, <1>2, SubsetInduction
<1> QED BY <1>3 DEF Good

USE ChainConstants, PoolConstants

-----------------------------------------------------------------------------
(* What slash() computes.                                                  *)

\* The state the arithmetic of slash() reads.
StakeType ==
    /\ memberList \in Seq(Accounts)
    /\ contribution \in [Accounts -> Nat]

\* Members are accounts, and finitely many.
LEMMA MembersAreAccounts ==
  ASSUME StakeType, NEW c
  PROVE  /\ Members \subseteq Accounts
         /\ Others(c) \subseteq Accounts
         /\ IsFiniteSet(Others(c))
<1>1. Members \subseteq Accounts
  BY DEF StakeType, Members, Range
<1>2. Others(c) \subseteq Accounts
  BY <1>1 DEF Others
<1> QED BY <1>1, <1>2, FS_Subset

\* The base, what is taken from it and the rounded-down shares are natural
\* numbers, and the shares of any group of members fit into what is taken.
LEMMA ProRataFits ==
  ASSUME StakeType, NEW c \in Accounts, NEW n \in Nat
  PROVE  /\ FromCourier(c, n) \in Nat
         /\ Base(c) \in Nat
         /\ Take(c, n) \in Nat /\ Take(c, n) <= Base(c)
         /\ FromCourier(c, n) + Take(c, n) <= n
         /\ \A a \in Others(c) : ProRata(c, n)[a] \in Nat
         /\ \A R \in SUBSET Others(c) : Total(ProRata(c, n), R) <= Take(c, n)
<1> DEFINE O == Others(c)
           b == Base(c)
           t == Take(c, n)
           p == ProRata(c, n)
<1>1. O \subseteq Accounts /\ IsFiniteSet(O) /\ \A a \in O : contribution[a] \in Nat
  BY MembersAreAccounts DEF StakeType
<1>2. b \in Nat
  BY <1>1, TotalType DEF Base
<1>3. FromCourier(c, n) \in Nat /\ FromCourier(c, n) <= n
  BY DEF FromCourier, Least, StakeType
<1>4. t \in Nat /\ t <= b /\ FromCourier(c, n) + t <= n
  BY <1>2, <1>3 DEF Take, Least
<1>5. ASSUME NEW a \in O
      PROVE  p[a] \in Nat /\ p[a] * b <= t * contribution[a]
  <2>1. p[a] = IF b = 0 THEN 0 ELSE (t * contribution[a]) \div b
    BY DEF ProRata
  <2>2. contribution[a] \in Nat
    BY <1>1
  <2> HIDE DEF b, t, p, O
  <2>3. t * contribution[a] \in Nat
    BY <1>4, <2>2
  <2>4. CASE b = 0
    BY <1>4, <2>1, <2>2, <2>3, <2>4
  <2>5. CASE b # 0
    <3>1. ASSUME NEW x \in Nat, NEW y \in Nat \ {0}
          PROVE  (x \div y) \in Nat /\ (x \div y) * y <= x
      OBVIOUS
    <3> QED BY <1>2, <2>1, <2>3, <2>5, <3>1
  <2> QED BY <2>4, <2>5
<1>6. ASSUME NEW R \in SUBSET O PROVE Total(p, R) <= t
  <2>1. IsFiniteSet(R)
    BY <1>1, FS_Subset
  <2>2. Total(p, R) * b <= t * Total(contribution, R)
    <3> HIDE DEF p, b, t
    <3> QED BY <1>1, <1>2, <1>4, <1>5, <2>1, TotalProportion
  <2>3. Total(contribution, R) \in Nat /\ Total(contribution, R) <= b
    <3>1. b = Total(contribution, R) + Total(contribution, O \ R)
      BY <1>1, TotalSplit DEF Base
    <3>2. IsFiniteSet(O \ R)
      BY <1>1, FS_Difference
    <3>3. Total(contribution, R) \in Nat /\ Total(contribution, O \ R) \in Nat
      BY <1>1, <2>1, <3>2, TotalType
    <3> QED BY <3>1, <3>3
  <2>4. Total(p, R) \in Nat
    BY <1>5, <2>1, TotalType
  <2>5. CASE b = 0
    <3>1. \A a \in R : p[a] = 0
      BY <2>5 DEF ProRata
    <3>2. Total(p, R) = 0
      BY <3>1, TotalZero
    <3> QED BY <1>4, <3>2
  <2>6. CASE b # 0
    <3>1. t * Total(contribution, R) <= t * b
      <4>1. ASSUME NEW x \in Nat, NEW y \in Nat, NEW z \in Nat, x <= y
            PROVE  z * x <= z * y
        BY <4>1
      <4> HIDE DEF b, t
      <4> QED BY <1>2, <1>4, <2>3, <4>1
    <3>2. Total(p, R) * b <= t * b
      <4> HIDE DEF b, t, p
      <4>1. /\ Total(p, R) * b \in Nat /\ t * Total(contribution, R) \in Nat
            /\ t * b \in Nat
        BY <1>2, <1>4, <2>3, <2>4
      <4> QED BY <2>2, <3>1, <4>1
    <3>3. ASSUME NEW x \in Nat, NEW y \in Nat, NEW z \in Nat \ {0}, x * z <= y * z
          PROVE  x <= y
      BY <3>3
    <3> HIDE DEF b, t, p
    <3> QED BY <1>2, <1>4, <2>4, <2>6, <3>2, <3>3
  <2> QED BY <2>5, <2>6
<1> QED BY <1>2, <1>3, <1>4, <1>5, <1>6

\* Each other member is charged a natural number they can pay, and together
\* they are charged no more than is taken.
LEMMA ShareFits ==
  ASSUME StakeType, NEW c \in Accounts, NEW n \in Nat
  PROVE  /\ \A a \in Others(c) : /\ Share(c, n)[a] \in Nat
                                 /\ Share(c, n)[a] <= contribution[a]
         /\ FromPool(c, n) \in Nat
         /\ FromPool(c, n) <= Take(c, n)
<1> DEFINE O == Others(c)
           t == Take(c, n)
           p == ProRata(c, n)
           s == Share(c, n)
           w == Sweeper(c)
<1>1. O \subseteq Accounts /\ IsFiniteSet(O) /\ \A a \in O : contribution[a] \in Nat
  BY MembersAreAccounts DEF StakeType
<1>2. /\ t \in Nat
      /\ \A a \in O : p[a] \in Nat
      /\ \A R \in SUBSET O : Total(p, R) <= t
  BY ProRataFits
<1>3. \A R \in SUBSET O : IsFiniteSet(R) /\ Total(p, R) \in Nat
  <2> TAKE R \in SUBSET O
  <2>1. IsFiniteSet(R)
    BY <1>1, FS_Subset
  <2> QED BY <1>2, <2>1, TotalType
<1>4. ASSUME NEW a \in O
      PROVE  Due(c, n, a) \in Nat /\ (a # w => Due(c, n, a) = p[a])
  <2>1. O \ {a} \in SUBSET O
    OBVIOUS
  <2> QED BY <1>2, <1>3, <2>1 DEF Due
<1>5. ASSUME NEW a \in O
      PROVE  /\ s[a] \in Nat /\ s[a] <= contribution[a]
             /\ s[a] <= Due(c, n, a)
  BY <1>1, <1>4 DEF Share, Least
<1>6. FromPool(c, n) = Total(s, O) /\ Total(s, O) \in Nat
  BY <1>1, <1>5, TotalType DEF FromPool
<1>7. CASE w \notin O
  <2>1. \A a \in O : s[a] \in Nat /\ p[a] \in Nat /\ s[a] <= p[a]
    BY <1>2, <1>4, <1>5, <1>7
  <2>2. Total(s, O) <= Total(p, O)
    <3> HIDE DEF s, p, O
    <3> QED BY <1>1, <2>1, TotalMonotone
  <2>3. Total(p, O) <= t /\ Total(p, O) \in Nat
    BY <1>2, <1>3
  <2> QED BY <1>2, <1>5, <1>6, <2>2, <2>3
<1>8. CASE w \in O
  <2> DEFINE R == O \ {w}
  <2>1. R \in SUBSET O /\ IsFiniteSet(R) /\ Total(p, R) \in Nat
    BY <1>3
  <2>2. \A a \in R : s[a] \in Nat /\ p[a] \in Nat /\ s[a] <= p[a]
    BY <1>2, <1>4, <1>5
  <2>3. Total(s, R) <= Total(p, R) /\ Total(s, R) \in Nat
    <3> HIDE DEF s, p, R
    <3> QED BY <2>1, <2>2, TotalMonotone, TotalType
  <2>4. s[w] \in Nat /\ s[w] <= t - Total(p, R)
    BY <1>5, <1>8 DEF Due
  <2>5. Total(s, O) = Total(s, R) + s[w]
    <3> HIDE DEF s
    <3> QED BY <1>1, <1>5, <1>8, TotalRemove
  <2>6. Total(s, O) <= t
    <3> HIDE DEF s, p, R, t, O
    <3> QED BY <1>2, <2>1, <2>3, <2>4, <2>5
  <2> QED BY <1>5, <1>6, <2>6
<1> QED BY <1>7, <1>8

-----------------------------------------------------------------------------
(* What slash() does to the stakes.                                        *)

\* A slash leaves natural stakes, takes from each member what Share and
\* FromCourier say, pays at most its amount and at most all stakes.
LEMMA SlashStakes ==
  ASSUME StakeType, NEW v, NEW c \in Accounts, NEW n \in Nat, Slash(v, c, n)
  PROVE  /\ contribution' \in [Accounts -> Nat]
         /\ Paid(c, n) \in Nat
         /\ Paid(c, n) <= n
         /\ Total(contribution', Accounts) = Total(contribution, Accounts) - Paid(c, n)
<1> DEFINE O == Others(c)
           s == Share(c, n)
           k == FromCourier(c, n)
           loss == [a \in Accounts |-> contribution[a] - contribution'[a]]
           Rest == Accounts \ O
<1>1. O \subseteq Accounts /\ IsFiniteSet(O) /\ c \notin O
  BY MembersAreAccounts DEF Others
<1>2. /\ k \in Nat /\ k <= contribution[c]
      /\ FromPool(c, n) \in Nat /\ k + FromPool(c, n) <= n
      /\ \A a \in O : s[a] \in Nat /\ s[a] <= contribution[a]
  <2>1. k \in Nat /\ k <= contribution[c]
    BY DEF FromCourier, Least, StakeType
  <2>2. k + Take(c, n) <= n /\ Take(c, n) \in Nat
    BY ProRataFits
  <2> QED BY <2>1, <2>2, ShareFits
<1>3. /\ contribution \in [Accounts -> Nat]
      /\ DOMAIN contribution' = Accounts
      /\ contribution'[c] = contribution[c] - k
      /\ \A a \in O : contribution'[a] = contribution[a] - s[a]
      /\ \A a \in Rest \ {c} : contribution'[a] = contribution[a]
  BY <1>1 DEF Slash, StakeType
<1> HIDE DEF O, s, k
<1>4. contribution' \in [Accounts -> Nat]
  <2>1. contribution' = [a \in Accounts |-> contribution'[a]]
    BY DEF Slash
  <2>2. \A a \in Accounts : contribution'[a] \in Nat
    BY <1>1, <1>2, <1>3
  <2> QED BY <2>1, <2>2
<1>5. /\ \A a \in Accounts : loss[a] \in Nat
      /\ \A a \in O : loss[a] = s[a]
      /\ loss[c] = k
      /\ \A a \in Rest \ {c} : loss[a] = 0
      /\ \A a \in Accounts : contribution[a] = contribution'[a] + loss[a]
  BY <1>1, <1>2, <1>3, <1>4
<1> HIDE DEF loss
<1>6. /\ Total(contribution, Accounts) = Total(contribution', Accounts) + Total(loss, Accounts)
      /\ Total(contribution', Accounts) \in Nat
  BY <1>4, <1>5, TotalPlus, TotalType
<1>7. Total(loss, Accounts) = k + FromPool(c, n)
  <2>1. Total(loss, Accounts) = Total(loss, O) + Total(loss, Rest)
    BY <1>1, <1>5, TotalSplit
  <2>2. Total(loss, O) = FromPool(c, n)
    BY <1>5, TotalSame DEF FromPool, O, s
  <2>3. Total(loss, Rest) = Total(loss, Rest \ {c}) + loss[c]
    <3>1. IsFiniteSet(Rest) /\ c \in Rest
      BY <1>1, FS_Difference
    <3> QED BY <1>5, <3>1, TotalRemove
  <2>4. Total(loss, Rest \ {c}) = 0
    BY <1>5, TotalZero
  <2> QED BY <1>2, <1>5, <2>1, <2>2, <2>3, <2>4
<1> QED BY <1>2, <1>4, <1>6, <1>7 DEF Paid, k

\* Moving one stake moves the total with it.
LEMMA OneStakeMoves ==
  ASSUME NEW f \in [Accounts -> Nat], NEW a \in Accounts, NEW y \in Nat
  PROVE  Total([f EXCEPT ![a] = y], Accounts) = Total(f, Accounts) - f[a] + y
<1> DEFINE g == [f EXCEPT ![a] = y]
<1>1. /\ \A b \in Accounts : f[b] \in Nat /\ g[b] \in Nat
      /\ \A b \in Accounts \ {a} : g[b] = f[b]
      /\ g[a] = y
  OBVIOUS
<1> HIDE DEF g
<1>2. Total(g, Accounts) = Total(f, Accounts) - f[a] + g[a]
  BY <1>1, TotalUpdate
<1> QED BY <1>1, <1>2 DEF g

-----------------------------------------------------------------------------
(* What every operation of the pool preserves.                             *)

PoolType ==
    /\ memberList \in Seq(Accounts)
    /\ contribution \in [Accounts -> Nat]
    /\ reserved \in [Accounts -> Nat]
    /\ withdrawReqAt \in [Accounts -> Nat]
    /\ withdrawReqAmt \in [Accounts -> Nat]
    /\ totalStake \in Nat /\ activeValue \in Nat /\ balance \in Nat
    /\ registeredVaults \subseteq Vaults
    /\ factory \in Factories \cup {NoFactory}

Solvent == balance = totalStake /\ totalStake = Total(contribution, Accounts)

\* A transaction of the pool, by anyone who may send it.
MemberOp(a) ==
    \/ AdmitMember(a) \/ FinalizeWithdraw(a)
    \/ \E n \in Nat : DepositStake(a, n) \/ RequestWithdraw(a, n)
AdminOp ==
    \/ \E f \in Factories \cup {NoFactory} : SetFactory(f)
    \/ \E v \in Vaults : RegisterVault(v)
VaultOp(v, c, n) ==
    \/ Reserve(v, c, n) \/ Release(v, c, n) \/ Slash(v, c, n)
    \/ \E f \in Factories : RegisterAndReserve(f, v, c, n)
PoolOp ==
    \/ \E a \in Accounts : MemberOp(a)
    \/ AdminOp
    \/ \E v \in Vaults, c \in Accounts, n \in Nat : VaultOp(v, c, n)
    \/ UNCHANGED poolVars

LEMMA PoolTypeStart == PoolInit => PoolType
BY DEF PoolInit, PoolType

LEMMA SolventStart == PoolInit => Solvent
<1> SUFFICES ASSUME PoolInit PROVE Solvent
  OBVIOUS
<1>1. \A a \in Accounts : contribution[a] = 0
  BY DEF PoolInit
<1> QED BY <1>1, TotalZero DEF PoolInit, Solvent

\* A withdrawal that goes through pays a natural amount out of one's stake.
LEMMA WithdrawalPays ==
  ASSUME PoolType, NEW a \in Accounts, FinalizeWithdraw(a)
  PROVE  \E n \in Nat :
           /\ n <= contribution[a] /\ n <= totalStake /\ n <= balance
           /\ contribution' = [contribution EXCEPT ![a] = contribution[a] - n]
           /\ totalStake' = totalStake - n /\ balance' = balance - n
           /\ withdrawReqAt' = [withdrawReqAt EXCEPT ![a] = 0]
           /\ withdrawReqAmt' = [withdrawReqAmt EXCEPT ![a] = 0]
           /\ UNCHANGED <<claims, admin>>
<1> DEFINE n == Least(withdrawReqAmt[a], contribution[a])
<1>1. n \in Nat /\ n <= contribution[a]
  BY DEF Least, PoolType
<1>2. /\ n <= totalStake /\ n <= balance
      /\ contribution' = [contribution EXCEPT ![a] = contribution[a] - n]
      /\ totalStake' = totalStake - n /\ balance' = balance - n
      /\ withdrawReqAt' = [withdrawReqAt EXCEPT ![a] = 0]
      /\ withdrawReqAmt' = [withdrawReqAmt EXCEPT ![a] = 0]
      /\ UNCHANGED <<claims, admin>>
  BY DEF FinalizeWithdraw, Collect
<1> HIDE DEF n
<1> QED BY <1>1, <1>2

LEMMA PoolTypeKept ==
  ASSUME PoolType, now \in Nat, PoolOp
  PROVE  PoolType'
<1> USE DEF PoolType, stakes, claims, asks, admin
<1>1. ASSUME NEW a \in Accounts, MemberOp(a) PROVE PoolType'
  <2>1. CASE AdmitMember(a)
    BY <2>1 DEF AdmitMember
  <2>2. CASE FinalizeWithdraw(a)
    <3>1. PICK n \in Nat :
           /\ n <= contribution[a] /\ n <= totalStake /\ n <= balance
           /\ contribution' = [contribution EXCEPT ![a] = contribution[a] - n]
           /\ totalStake' = totalStake - n /\ balance' = balance - n
           /\ withdrawReqAt' = [withdrawReqAt EXCEPT ![a] = 0]
           /\ withdrawReqAmt' = [withdrawReqAmt EXCEPT ![a] = 0]
           /\ UNCHANGED <<claims, admin>>
      BY <2>2, WithdrawalPays
    <3> QED BY <3>1
  <2>3. ASSUME NEW n \in Nat, DepositStake(a, n) \/ RequestWithdraw(a, n)
        PROVE  PoolType'
    <3>1. CASE DepositStake(a, n)
      BY <3>1 DEF DepositStake
    <3>2. CASE RequestWithdraw(a, n)
      BY <3>2 DEF RequestWithdraw
    <3> QED BY <2>3, <3>1, <3>2
  <2> QED BY <1>1, <2>1, <2>2, <2>3 DEF MemberOp
<1>2. CASE AdminOp
  BY <1>2 DEF AdminOp, SetFactory, RegisterVault
<1>3. ASSUME NEW v \in Vaults, NEW c \in Accounts, NEW n \in Nat, VaultOp(v, c, n)
      PROVE  PoolType'
  <2>1. CASE Reserve(v, c, n)
    BY <2>1 DEF Reserve, BookReservation
  <2>2. CASE \E f \in Factories : RegisterAndReserve(f, v, c, n)
    BY <2>2 DEF RegisterAndReserve, BookReservation
  <2>3. CASE Release(v, c, n)
    BY <2>3 DEF Release, Least
  <2>4. CASE Slash(v, c, n)
    <3>1. contribution' \in [Accounts -> Nat] /\ Paid(c, n) \in Nat
      BY <2>4, SlashStakes DEF StakeType
    <3>2. Unreserved(c, n) \in Nat /\ Unreserved(c, n) <= reserved[c]
      BY DEF Unreserved, Least
    <3>3. /\ Paid(c, n) <= totalStake /\ Paid(c, n) <= balance
          /\ Unreserved(c, n) <= activeValue
          /\ totalStake' = totalStake - Paid(c, n)
          /\ balance' = balance - Paid(c, n)
          /\ reserved' = [reserved EXCEPT ![c] = @ - Unreserved(c, n)]
          /\ activeValue' = activeValue - Unreserved(c, n)
          /\ UNCHANGED <<asks, admin>>
      BY <2>4 DEF Slash, SlashFits
    <3>4. reserved' \in [Accounts -> Nat]
      BY <3>2, <3>3
    <3>5. totalStake' \in Nat /\ activeValue' \in Nat /\ balance' \in Nat
      BY SMTT(30), <3>1, <3>2, <3>3
    <3> QED BY <3>1, <3>3, <3>4, <3>5
  <2> QED BY <1>3, <2>1, <2>2, <2>3, <2>4 DEF VaultOp
<1>4. CASE UNCHANGED poolVars
  BY <1>4 DEF poolVars
<1> QED BY <1>1, <1>2, <1>3, <1>4 DEF PoolOp

LEMMA SolventKept ==
  ASSUME PoolType, Solvent, PoolOp
  PROVE  Solvent'
<1>0. /\ balance = totalStake /\ totalStake = Total(contribution, Accounts)
      /\ totalStake \in Nat /\ contribution \in [Accounts -> Nat] /\ StakeType
  BY DEF PoolType, Solvent, StakeType
<1>1. CASE UNCHANGED stakes
  BY <1>1 DEF stakes, Solvent
<1>2. ASSUME NEW a \in Accounts, NEW y \in Nat,
             contribution' = [contribution EXCEPT ![a] = y],
             totalStake' = totalStake - contribution[a] + y, balance' = totalStake'
      PROVE  Solvent'
  <2>1. Total(contribution', Accounts) = Total(contribution, Accounts) - contribution[a] + y
    BY <1>0, <1>2, OneStakeMoves
  <2> QED BY <1>0, <1>2, <2>1 DEF Solvent
<1>3. ASSUME NEW a \in Accounts, MemberOp(a) PROVE Solvent'
  <2>1. CASE FinalizeWithdraw(a)
    <3>1. PICK n \in Nat :
           /\ n <= contribution[a]
           /\ contribution' = [contribution EXCEPT ![a] = contribution[a] - n]
           /\ totalStake' = totalStake - n /\ balance' = balance - n
      BY <2>1, WithdrawalPays
    <3> DEFINE y == contribution[a] - n
    <3>2. /\ y \in Nat /\ totalStake' = totalStake - contribution[a] + y
          /\ balance' = totalStake'
      BY <1>0, <3>1
    <3>3. contribution' = [contribution EXCEPT ![a] = y]
      BY <3>1
    <3> HIDE DEF y
    <3> QED BY <1>2, <3>2, <3>3
  <2>2. ASSUME NEW n \in Nat, DepositStake(a, n) PROVE Solvent'
    <3> DEFINE y == contribution[a] + n
    <3>1. /\ y \in Nat /\ totalStake' = totalStake - contribution[a] + y
          /\ balance' = totalStake'
      BY <1>0, <2>2 DEF DepositStake
    <3>2. contribution' = [contribution EXCEPT ![a] = y]
      BY <2>2 DEF DepositStake
    <3> HIDE DEF y
    <3> QED BY <1>2, <3>1, <3>2
  <2>3. CASE AdmitMember(a) \/ \E n \in Nat : RequestWithdraw(a, n)
    BY <1>1, <2>3 DEF AdmitMember, RequestWithdraw
  <2> QED BY <1>3, <2>1, <2>2, <2>3 DEF MemberOp
<1>4. CASE AdminOp
  BY <1>1, <1>4 DEF AdminOp, SetFactory, RegisterVault
<1>5. ASSUME NEW v \in Vaults, NEW c \in Accounts, NEW n \in Nat, VaultOp(v, c, n)
      PROVE  Solvent'
  <2>1. CASE Slash(v, c, n)
    <3>1. Total(contribution', Accounts) = Total(contribution, Accounts) - Paid(c, n)
      BY <1>0, <2>1, SlashStakes
    <3>2. totalStake' = totalStake - Paid(c, n) /\ balance' = balance - Paid(c, n)
      BY <2>1 DEF Slash
    <3> QED BY <1>0, <3>1, <3>2 DEF Solvent
  <2>2. CASE Reserve(v, c, n) \/ Release(v, c, n)
               \/ \E f \in Factories : RegisterAndReserve(f, v, c, n)
    BY <1>1, <2>2 DEF Reserve, Release, RegisterAndReserve
  <2> QED BY <1>5, <2>1, <2>2 DEF VaultOp
<1>6. CASE UNCHANGED poolVars
  BY <1>1, <1>6 DEF poolVars
<1> QED BY <1>3, <1>4, <1>5, <1>6 DEF PoolOp

-----------------------------------------------------------------------------
(* Reservations and the deliveries they are for.                           *)

\* res: what each account has reserved; act: the sum of it; val: the value of
\* each vault's delivery; open: the vaults each account has open deliveries in.
Ledger(res, act, val, open) ==
    /\ \A a \in Accounts : res[a] = Total(val, open[a])
    /\ act = Total(res, Accounts)

\* The value of an open delivery is part of its courier's reservation, and
\* that of the value the whole pool has promised.
LEMMA LedgerEntry ==
  ASSUME NEW res \in [Accounts -> Nat], NEW act, NEW val \in [Vaults -> Nat],
         NEW open \in [Accounts -> SUBSET Vaults], Ledger(res, act, val, open),
         NEW c \in Accounts, NEW v \in Vaults, v \in open[c]
  PROVE  /\ val[v] \in Nat /\ act \in Nat
         /\ val[v] <= res[c] /\ res[c] <= act
         /\ res[c] - val[v] = Total(val, open[c] \ {v})
<1> DEFINE K == open[c]
<1>1. v \in K /\ IsFiniteSet(K) /\ \A w \in K : val[w] \in Nat
  <2>1. K \in SUBSET Vaults
    OBVIOUS
  <2> QED BY <2>1, FS_Subset
<1>2. /\ Total(val, K) = Total(val, K \ {v}) + val[v]
      /\ val[v] <= Total(val, K)
  BY <1>1, TotalRemove, EntryWithin
<1>3. res[c] = Total(val, K) /\ act = Total(res, Accounts)
  BY DEF Ledger
<1>4. res[c] <= Total(res, Accounts) /\ Total(res, Accounts) \in Nat
  <2>1. \A a \in Accounts : res[a] \in Nat
    OBVIOUS
  <2> QED BY <2>1, EntryWithin, TotalType
<1>5. Total(val, K \ {v}) \in Nat
  <2>1. IsFiniteSet(K \ {v})
    BY <1>1, FS_RemoveElement
  <2> QED BY <1>1, <2>1, TotalType
<1> QED BY <1>1, <1>2, <1>3, <1>4, <1>5

\* Opening a delivery books its value with its courier and nobody else.
LEMMA LedgerOpens ==
  ASSUME NEW res \in [Accounts -> Nat], NEW act, NEW val \in [Vaults -> Nat],
         NEW open \in [Accounts -> SUBSET Vaults], Ledger(res, act, val, open),
         NEW v \in Vaults, \A a \in Accounts : v \notin open[a],
         NEW c \in Accounts, NEW n \in Nat
  PROVE  Ledger([res EXCEPT ![c] = @ + n], act + n,
                [val EXCEPT ![v] = n], [open EXCEPT ![c] = @ \cup {v}])
<1> DEFINE res2 == [res EXCEPT ![c] = @ + n]
           val2 == [val EXCEPT ![v] = n]
           open2 == [open EXCEPT ![c] = @ \cup {v}]
<1>1. ASSUME NEW a \in Accounts PROVE res2[a] = Total(val2, open2[a])
  <2> DEFINE K == open[a]
  <2>1. v \notin K /\ IsFiniteSet(K) /\ K \subseteq Vaults
    <3>1. v \notin K /\ K \subseteq Vaults
      OBVIOUS
    <3> QED BY <3>1, FS_Subset
  <2>2. /\ \A w \in K : val2[w] = val[w] /\ val2[w] \in Nat
        /\ val2[v] = n
    BY <2>1
  <2>3. /\ open2[a] = IF a = c THEN K \cup {v} ELSE K
        /\ res2[a] = IF a = c THEN res[a] + n ELSE res[a]
    OBVIOUS
  <2> HIDE DEF val2, res2, open2
  <2>4. Total(val2, K) = Total(val, K) /\ res[a] = Total(val, K) /\ res[a] \in Nat
    BY <2>2, TotalSame DEF Ledger
  <2>5. Total(val2, K \cup {v}) = Total(val2, K) + val2[v]
    BY <2>1, <2>2, TotalInsert
  <2> QED BY <2>2, <2>3, <2>4, <2>5
<1>2. act + n = Total(res2, Accounts)
  <2>1. res[c] \in Nat /\ res[c] + n \in Nat /\ res2 = [res EXCEPT ![c] = res[c] + n]
    OBVIOUS
  <2>2. Total(res2, Accounts) = Total(res, Accounts) - res[c] + (res[c] + n)
    <3>1. \A y \in Nat : Total([res EXCEPT ![c] = y], Accounts)
                            = Total(res, Accounts) - res[c] + y
      BY OneStakeMoves
    <3> QED BY <2>1, <3>1
  <2>3. Total(res, Accounts) \in Nat /\ act = Total(res, Accounts)
    <3>1. \A a \in Accounts : res[a] \in Nat
      OBVIOUS
    <3> QED BY <3>1, TotalType DEF Ledger
  <2> HIDE DEF res2
  <2> QED BY <2>1, <2>2, <2>3
<1> HIDE DEF res2, val2, open2
<1>3. Ledger(res2, act + n, val2, open2)
  BY <1>1, <1>2 DEF Ledger
<1> QED BY <1>3 DEF res2, val2, open2

\* Settling a delivery takes its value off its courier's reservation.
LEMMA LedgerCloses ==
  ASSUME NEW res \in [Accounts -> Nat], NEW act, NEW val \in [Vaults -> Nat],
         NEW open \in [Accounts -> SUBSET Vaults], Ledger(res, act, val, open),
         NEW c \in Accounts, NEW v \in Vaults, v \in open[c]
  PROVE  Ledger([res EXCEPT ![c] = @ - val[v]], act - val[v],
                val, [open EXCEPT ![c] = @ \ {v}])
<1> DEFINE n == val[v]
           res2 == [res EXCEPT ![c] = @ - n]
           open2 == [open EXCEPT ![c] = @ \ {v}]
<1>1. /\ n \in Nat /\ n <= res[c]
      /\ res[c] - n = Total(val, open[c] \ {v})
  <2>1. /\ val[v] \in Nat /\ act \in Nat
        /\ val[v] <= res[c] /\ res[c] <= act
        /\ res[c] - val[v] = Total(val, open[c] \ {v})
    BY SMTT(30), LedgerEntry DEF Ledger
  <2> QED BY <2>1
<1>2. ASSUME NEW a \in Accounts PROVE res2[a] = Total(val, open2[a])
  <2>1. CASE a = c
    BY <1>1, <2>1
  <2>2. CASE a # c
    BY <2>2 DEF Ledger
  <2> QED BY <2>1, <2>2
<1>3. act - n = Total(res2, Accounts)
  <2>1. res[c] \in Nat /\ res[c] - n \in Nat /\ res2 = [res EXCEPT ![c] = res[c] - n]
    BY <1>1
  <2>2. Total(res2, Accounts) = Total(res, Accounts) - res[c] + (res[c] - n)
    <3>1. \A y \in Nat : Total([res EXCEPT ![c] = y], Accounts)
                            = Total(res, Accounts) - res[c] + y
      BY OneStakeMoves
    <3> QED BY <2>1, <3>1
  <2>3. Total(res, Accounts) \in Nat /\ act = Total(res, Accounts)
    <3>1. \A a \in Accounts : res[a] \in Nat
      OBVIOUS
    <3> QED BY <3>1, TotalType DEF Ledger
  <2> HIDE DEF res2, n
  <2> QED BY <1>1, <2>1, <2>2, <2>3
<1> HIDE DEF res2, open2
<1>4. Ledger(res2, act - n, val, open2)
  BY <1>2, <1>3 DEF Ledger
<1> QED BY <1>4 DEF res2, open2

\* A release or slash of what is reserved books exactly that.
LEMMA SettlingBooks ==
  ASSUME PoolType, NEW v, NEW c \in Accounts, NEW n \in Nat,
         n <= reserved[c], reserved[c] <= activeValue,
         Release(v, c, n) \/ Slash(v, c, n)
  PROVE  /\ reserved' = [reserved EXCEPT ![c] = @ - n]
         /\ activeValue' = activeValue - n
         /\ UNCHANGED <<memberList, registeredVaults>>
<1>1. reserved[c] \in Nat /\ activeValue \in Nat
  BY DEF PoolType
<1>2. Least(reserved[c], n) = n /\ Least(activeValue, n) = n
  BY <1>1 DEF Least
<1>3. CASE Release(v, c, n)
  BY <1>2, <1>3 DEF Release, admin
<1>4. CASE Slash(v, c, n)
  BY <1>2, <1>4 DEF Slash, Unreserved, admin
<1> QED BY <1>3, <1>4

\* slash() never reverts for a solvent pool and an amount that is reserved.
LEMMA SlashAlwaysFits ==
  ASSUME PoolType, Solvent, NEW c \in Accounts, NEW n \in Nat,
         n <= reserved[c], reserved[c] <= activeValue
  PROVE  SlashFits(c, n)
<1> DEFINE O == Others(c)
<1>1. StakeType /\ contribution[c] \in Nat
  BY DEF PoolType, StakeType
<1>2. /\ FromPool(c, n) <= Take(c, n) /\ Take(c, n) <= Base(c)
      /\ FromPool(c, n) \in Nat /\ Take(c, n) \in Nat /\ Base(c) \in Nat
      /\ FromCourier(c, n) \in Nat
  BY <1>1, ShareFits, ProRataFits
<1>3. Paid(c, n) \in Nat /\ Paid(c, n) <= contribution[c] + Base(c)
  <2>1. FromCourier(c, n) <= contribution[c]
    BY <1>1 DEF FromCourier, Least
  <2> QED BY <1>1, <1>2, <2>1 DEF Paid
<1>4. contribution[c] + Base(c) <= Total(contribution, Accounts)
  <2>1. /\ O \subseteq Accounts /\ c \notin O /\ c \in Accounts \ O
        /\ \A a \in Accounts : contribution[a] \in Nat
    BY <1>1, MembersAreAccounts DEF Others, StakeType
  <2>2. Total(contribution, Accounts)
          = Total(contribution, O) + Total(contribution, Accounts \ O)
    BY <2>1, TotalSplit
  <2>3. IsFiniteSet(O) /\ IsFiniteSet(Accounts \ O)
    BY <2>1, FS_Subset, FS_Difference
  <2>4. /\ contribution[c] <= Total(contribution, Accounts \ O)
        /\ Total(contribution, Accounts \ O) \in Nat
        /\ Total(contribution, O) \in Nat
    BY <2>1, <2>3, EntryWithin, TotalType
  <2> QED BY <2>1, <2>2, <2>4 DEF Base
<1>5. Paid(c, n) <= totalStake /\ Paid(c, n) <= balance
  <2>1. totalStake \in Nat /\ totalStake = Total(contribution, Accounts) /\ balance = totalStake
    BY DEF PoolType, Solvent
  <2> QED BY <1>1, <1>2, <1>3, <1>4, <2>1
<1>6. Unreserved(c, n) <= activeValue
  BY DEF Unreserved, Least, PoolType
<1> QED BY <1>5, <1>6 DEF SlashFits

-----------------------------------------------------------------------------
(* What a slash falls short by.                                            *)

\* Only members have stakes; no operation gives anyone else one.
MembersHoldAll == \A a \in Accounts \ Members : contribution[a] = 0

LEMMA MembersHoldAllStart == PoolInit => MembersHoldAll
BY DEF PoolInit, MembersHoldAll

LEMMA MembersHoldAllKept ==
  ASSUME PoolType, MembersHoldAll, PoolOp
  PROVE  MembersHoldAll'
<1>0. contribution \in [Accounts -> Nat] /\ memberList \in Seq(Accounts)
  BY DEF PoolType
<1>1. ASSUME UNCHANGED contribution, Members \subseteq Members' PROVE MembersHoldAll'
  BY <1>1 DEF MembersHoldAll
<1>2. ASSUME NEW a \in Accounts, MemberOp(a) PROVE MembersHoldAll'
  <2>1. CASE AdmitMember(a)
    <3>1. Members \subseteq Members'
      BY <1>0, <2>1 DEF AdmitMember, Members, Range
    <3> QED BY <1>1, <2>1, <3>1 DEF AdmitMember, stakes
  <2>2. CASE FinalizeWithdraw(a)
    <3>1. PICK n \in Nat :
           /\ n <= contribution[a]
           /\ contribution' = [contribution EXCEPT ![a] = contribution[a] - n]
           /\ UNCHANGED admin
      BY <2>2, WithdrawalPays
    <3>2. Members' = Members
      BY <3>1 DEF admin, Members
    <3> QED BY <1>0, <3>1, <3>2 DEF MembersHoldAll
  <2>3. ASSUME NEW n \in Nat, DepositStake(a, n) PROVE MembersHoldAll'
    BY <1>0, <2>3 DEF DepositStake, MembersHoldAll, admin, Members
  <2>4. ASSUME NEW n \in Nat, RequestWithdraw(a, n) PROVE MembersHoldAll'
    BY <1>1, <2>4 DEF RequestWithdraw, stakes, admin, Members
  <2> QED BY <1>2, <2>1, <2>2, <2>3, <2>4 DEF MemberOp
<1>3. CASE AdminOp
  BY <1>1, <1>3 DEF AdminOp, SetFactory, RegisterVault, stakes, Members
<1>4. ASSUME NEW v \in Vaults, NEW c \in Accounts, NEW n \in Nat, VaultOp(v, c, n)
      PROVE  MembersHoldAll'
  <2>1. CASE Slash(v, c, n)
    <3>1. /\ c \in Members /\ Members' = Members
          /\ contribution' =
              [a \in Accounts |->
                 CASE a = c -> contribution[a] - FromCourier(c, n)
                   [] a \in Others(c) -> contribution[a] - Share(c, n)[a]
                   [] OTHER -> contribution[a]]
      BY <2>1 DEF Slash, admin, Members
    <3> QED BY <3>1 DEF MembersHoldAll, Others
  <2>2. CASE Reserve(v, c, n) \/ Release(v, c, n)
               \/ \E f \in Factories : RegisterAndReserve(f, v, c, n)
    BY <1>1, <2>2 DEF Reserve, Release, RegisterAndReserve, stakes, admin, Members
  <2> QED BY <1>4, <2>1, <2>2 DEF VaultOp
<1>5. CASE UNCHANGED poolVars
  BY <1>1, <1>5 DEF poolVars, stakes, admin, Members
<1> QED BY <1>2, <1>3, <1>4, <1>5 DEF PoolOp

\* Each share is the exact one rounded down, which its member has, or more.
LEMMA SharesAreClose ==
  ASSUME StakeType, NEW c \in Accounts, NEW n \in Nat, NEW a \in Others(c), Base(c) # 0
  PROVE  LET p == ProRata(c, n)[a]
         IN  /\ p \in Nat
             /\ p * Base(c) <= Take(c, n) * contribution[a]
             /\ Take(c, n) * contribution[a] <= p * Base(c) + (Base(c) - 1)
             /\ p <= contribution[a] /\ p <= Due(c, n, a) /\ Due(c, n, a) \in Int
             /\ p <= Share(c, n)[a]
<1> DEFINE O == Others(c)
           t == Take(c, n)
           b == Base(c)
           q == ProRata(c, n)
           p == ProRata(c, n)[a]
<1>1. /\ O \subseteq Accounts /\ IsFiniteSet(O) /\ \A x \in O : contribution[x] \in Nat
      /\ contribution[a] \in Nat
  BY MembersAreAccounts DEF StakeType
<1>2. /\ b \in Nat \ {0} /\ t \in Nat /\ t <= b /\ p \in Nat
      /\ \A x \in O : q[x] \in Nat
      /\ \A R \in SUBSET O : Total(q, R) <= t
  BY ProRataFits
<1>3. p = (t * contribution[a]) \div b
  BY DEF ProRata
<1>4. p * b <= t * contribution[a] /\ t * contribution[a] <= p * b + (b - 1)
  <2> DEFINE x == t * contribution[a]
  <2>1. x \in Nat /\ p = x \div b
    BY <1>1, <1>2, <1>3
  <2>2. ASSUME NEW y \in Nat, NEW z \in Nat \ {0}
        PROVE  y <= (y \div z) * z + (z - 1) /\ (y \div z) * z <= y
    OBVIOUS
  <2> HIDE DEF x, p, t, b
  <2>3. x <= (x \div b) * b + (b - 1) /\ (x \div b) * b <= x
    BY <1>2, <2>1, <2>2
  <2>4. p * b <= x /\ x <= p * b + (b - 1)
    BY <2>1, <2>3
  <2> QED BY <2>4 DEF x
<1>5. p <= contribution[a]
  <2>1. ASSUME NEW x \in Nat, NEW y \in Nat, NEW z \in Nat, x <= y
        PROVE  x * z <= y * z
    BY <2>1
  <2>2. ASSUME NEW x \in Nat, NEW y \in Nat, NEW z \in Nat \ {0}, x * z <= z * y
        PROVE  x <= y
    BY <2>2
  <2> HIDE DEF p, t, b
  <2>3. t * contribution[a] <= b * contribution[a]
    BY <1>1, <1>2, <2>1
  <2>4. p * b \in Int /\ t * contribution[a] \in Int /\ b * contribution[a] \in Int
    BY <1>1, <1>2
  <2>5. p * b <= b * contribution[a]
    BY <1>4, <2>3, <2>4
  <2> QED BY <1>1, <1>2, <2>2, <2>5
<1>6. Due(c, n, a) \in Int /\ p <= Due(c, n, a)
  <2>1. CASE a = Sweeper(c)
    <3>1. IsFiniteSet(O \ {a}) /\ O \ {a} \in SUBSET O
      BY <1>1, FS_RemoveElement
    <3>2. Total(q, O) = Total(q, O \ {a}) + q[a] /\ Total(q, O \ {a}) \in Nat
      <4> HIDE DEF q
      <4> QED BY <1>1, <1>2, <3>1, TotalRemove, TotalType
    <3>3. Due(c, n, a) = t - Total(q, O \ {a})
      BY <2>1 DEF Due
    <3>4. Total(q, O) <= t /\ q[a] = p
      BY <1>2
    <3> HIDE DEF q, p, t, O
    <3> QED BY <1>2, <3>2, <3>3, <3>4
  <2>2. CASE a # Sweeper(c)
    BY <1>2, <2>2 DEF Due
  <2> QED BY <2>1, <2>2
<1>7. Share(c, n)[a] = Least(Due(c, n, a), contribution[a])
  BY DEF Share
<1> HIDE DEF p, t, b
<1>8. p <= Share(c, n)[a]
  BY <1>1, <1>2, <1>5, <1>6, <1>7 DEF Least
<1> QED BY <1>2, <1>4, <1>5, <1>6, <1>8 DEF p, t, b

\* The floors lose less than a wei for every other member.
LEMMA FloorsLoseLittle ==
  ASSUME StakeType, NEW c \in Accounts, NEW n \in Nat
  PROVE  \/ FromPool(c, n) = Take(c, n)
         \/ Take(c, n) - FromPool(c, n) < Cardinality(Others(c))
<1> DEFINE O == Others(c)
           t == Take(c, n)
           b == Base(c)
           p == ProRata(c, n)
           s == Share(c, n)
           m == Cardinality(O)
           P == Total(p, O)
<1>1. /\ O \subseteq Accounts /\ IsFiniteSet(O) /\ \A a \in O : contribution[a] \in Nat
      /\ m \in Nat
  BY MembersAreAccounts, FS_CardinalityType DEF StakeType
<1>2. /\ b \in Nat /\ t \in Nat /\ t <= b /\ FromPool(c, n) \in Nat
      /\ FromPool(c, n) <= t
      /\ \A a \in O : p[a] \in Nat /\ s[a] \in Nat
  BY ProRataFits, ShareFits
<1>3. CASE b = 0
  BY <1>2, <1>3
<1>4. CASE b # 0
  <2>1. \A a \in O : /\ t * contribution[a] <= p[a] * b + (b - 1)
                     /\ p[a] <= s[a]
    BY <1>4, SharesAreClose
  <2>2. P <= FromPool(c, n) /\ P \in Nat
    <3>1. FromPool(c, n) = Total(s, O)
      BY DEF FromPool
    <3> HIDE DEF p, s, O
    <3> QED BY <1>1, <1>2, <2>1, <3>1, TotalMonotone, TotalType
  <2>3. t * b <= P * b + m * (b - 1)
    <3>1. b = Total(contribution, O)
      BY DEF Base
    <3> HIDE DEF p, t, b, O
    <3>2. t * Total(contribution, O) <= P * b + m * (b - 1)
      BY <1>1, <1>2, <1>4, <2>1, TotalRounding
    <3> QED BY <3>1, <3>2
  <2>4. ASSUME NEW x \in Nat, NEW y \in Nat, NEW z \in Nat \ {0}, NEW k \in Nat,
               x * z <= y * z + k * (z - 1)
        PROVE  x <= y \/ x - y < k
    <3>1. CASE k = 0
      <4>1. x * z <= y * z
        BY <2>4, <3>1
      <4> QED BY <4>1
    <3>2. CASE k # 0
      <4> SUFFICES ASSUME x - y >= k PROVE FALSE
        OBVIOUS
      <4>1. PICK d \in Nat : x = y + k + d
        <5>1. x - y - k \in Nat /\ x = y + k + (x - y - k)
          OBVIOUS
        <5> QED BY <5>1
      <4>2. (y + k + d) * z <= y * z + k * (z - 1)
        BY <2>4, <4>1
      <4>3. y * z + k * z + d * z <= y * z + k * z - k
        BY <4>2
      <4>4. d * z \in Nat /\ y * z \in Nat /\ k * z \in Nat
        OBVIOUS
      <4> QED BY <3>2, <4>3, <4>4
    <3> QED BY <3>1, <3>2
  <2> HIDE DEF t, P, b, m
  <2>5. t <= P \/ t - P < m
    BY <1>1, <1>2, <1>4, <2>2, <2>3, <2>4
  <2>6. CASE t <= P
    BY <1>2, <2>2, <2>6 DEF t
  <2>7. CASE t - P < m
    BY <1>1, <1>2, <2>2, <2>7 DEF t, m
  <2> QED BY <2>5, <2>6, <2>7
<1> QED BY <1>3, <1>4

\* The sweeper is charged at most its exact share and a wei per other payer.
LEMMA SweeperPaysDust ==
  ASSUME StakeType, NEW c \in Accounts, NEW n \in Nat, Base(c) # 0,
         NEW a \in Others(c), a = Sweeper(c)
  PROVE  LET m == Cardinality(Others(c)) - 1
         IN  /\ m \in Nat
             /\ (Share(c, n)[a] - m) * Base(c) <= Take(c, n) * contribution[a]
<1> DEFINE O == Others(c)
           R == O \ {a}
           t == Take(c, n)
           b == Base(c)
           p == ProRata(c, n)
           s == Share(c, n)[a]
           m == Cardinality(O) - 1
           Q == Total(p, R)
           F == Total(contribution, R)
           k == contribution[a]
<1>1. /\ O \subseteq Accounts /\ IsFiniteSet(O) /\ \A x \in O : contribution[x] \in Nat
      /\ IsFiniteSet(R) /\ Cardinality(R) = m /\ m \in Nat /\ k \in Nat
  <2>1. O \subseteq Accounts /\ IsFiniteSet(O) /\ a \in O
    BY MembersAreAccounts
  <2>2. IsFiniteSet(R) /\ Cardinality(R) = Cardinality(O) - 1
    BY <2>1, FS_RemoveElement
  <2>3. Cardinality(R) \in Nat
    BY <2>2, FS_CardinalityType
  <2> QED BY <2>1, <2>2, <2>3 DEF StakeType
<1>2. /\ b \in Nat \ {0} /\ t \in Nat /\ \A x \in O : p[x] \in Nat
      /\ s \in Nat
  BY ProRataFits, ShareFits
<1>3. Q \in Nat /\ F \in Nat /\ b = F + k
  <2>1. b = Total(contribution, O)
    BY DEF Base
  <2> HIDE DEF p, b
  <2> QED BY <1>1, <1>2, <2>1, TotalType, TotalRemove
<1>4. t * F <= Q * b + m * (b - 1)
  <2>1. \A x \in R : t * contribution[x] <= p[x] * b + (b - 1)
    BY SharesAreClose
  <2> HIDE DEF p, t, b, R, m
  <2>2. \A x \in R : contribution[x] \in Nat /\ p[x] \in Nat
    BY <1>1, <1>2 DEF R
  <2>3. t * F <= Q * b + Cardinality(R) * (b - 1)
    BY <1>1, <1>2, <2>1, <2>2, TotalRounding
  <2> QED BY <1>1, <2>3
<1>5. s <= t - Q
  <2>1. Due(c, n, a) = t - Q
    BY DEF Due
  <2>2. s = Least(Due(c, n, a), k)
    BY DEF Share
  <2> HIDE DEF t, Q, s, k
  <2> QED BY <1>1, <1>2, <1>3, <2>1, <2>2 DEF Least
<1>6. ASSUME NEW b1 \in Nat \ {0}, NEW t1 \in Nat, NEW F1 \in Nat, NEW k1 \in Nat,
             NEW Q1 \in Nat, NEW m1 \in Nat, NEW s1 \in Nat,
             b1 = F1 + k1, t1 * F1 <= Q1 * b1 + m1 * (b1 - 1), s1 <= t1 - Q1
      PROVE  (s1 - m1) * b1 <= t1 * k1
  <2>1. PICK d \in Nat : t1 = Q1 + s1 + d
    <3>1. t1 - Q1 - s1 \in Nat /\ t1 = Q1 + s1 + (t1 - Q1 - s1)
      BY <1>6
    <3> QED BY <3>1
  <2>2. t1 * b1 = t1 * F1 + t1 * k1
    BY <1>6
  <2>3. t1 * b1 = Q1 * b1 + s1 * b1 + d * b1
    BY <2>1
  <2>4. Q1 * b1 + s1 * b1 + d * b1 <= Q1 * b1 + m1 * b1 - m1 + t1 * k1
    <3>1. m1 * (b1 - 1) = m1 * b1 - m1
      OBVIOUS
    <3>2. /\ t1 * b1 \in Int /\ t1 * F1 \in Int /\ t1 * k1 \in Int /\ Q1 * b1 \in Int
          /\ m1 * b1 \in Int
      OBVIOUS
    <3> QED BY <1>6, <2>2, <2>3, <3>1, <3>2
  <2>5. (s1 - m1) * b1 = s1 * b1 - m1 * b1
    OBVIOUS
  <2>6. /\ d * b1 \in Nat /\ s1 * b1 \in Int /\ m1 * b1 \in Int /\ Q1 * b1 \in Int
        /\ t1 * k1 \in Int
    OBVIOUS
  <2> QED BY <2>4, <2>5, <2>6
<1> HIDE DEF b, t, F, k, Q, m, s
<1>7. (s - m) * b <= t * k
  BY <1>1, <1>2, <1>3, <1>4, <1>5, <1>6
<1> QED BY <1>1, <1>7 DEF s, m, b, t, k

\* Every other member pays at least their share rounded down, and at most
\* their exact share and one wei per other payer.
LEMMA SharesAreFair ==
  ASSUME StakeType, NEW c \in Accounts, NEW n \in Nat, NEW a \in Others(c), Base(c) # 0
  PROVE  LET s == Share(c, n)[a]
             m == Cardinality(Others(c)) - 1
         IN  /\ (s + 1) * Base(c) > Take(c, n) * contribution[a]
             /\ (s - m) * Base(c) <= Take(c, n) * contribution[a]
<1> DEFINE s == Share(c, n)[a]
           m == Cardinality(Others(c)) - 1
           p == ProRata(c, n)[a]
           b == Base(c)
           e == Take(c, n) * contribution[a]
<1>1. /\ b \in Nat \ {0} /\ s \in Nat /\ p \in Nat /\ p <= s
      /\ p * b <= e /\ e <= p * b + (b - 1)
  BY ProRataFits, ShareFits, SharesAreClose
<1>2. e \in Nat /\ m \in Nat
  <2>1. a \in Accounts /\ IsFiniteSet(Others(c))
    BY MembersAreAccounts
  <2>2. Cardinality(Others(c)) \in Nat /\ Cardinality(Others(c)) # 0
    BY <2>1, FS_CardinalityType, FS_EmptySet
  <2>3. Take(c, n) \in Nat /\ contribution[a] \in Nat
    BY <2>1, ProRataFits DEF StakeType
  <2>4. \A x, y \in Nat : x * y \in Nat
    OBVIOUS
  <2> QED BY <2>2, <2>3, <2>4
<1>3. \A x, y, z \in Int : z >= 0 /\ x <= y => x * z <= y * z
  <2> SUFFICES ASSUME NEW x \in Int, NEW y \in Int, NEW z \in Int, z >= 0, x <= y
               PROVE  x * z <= y * z
    OBVIOUS
  <2>1. PICK d \in Nat : y = x + d
    <3>1. y - x \in Nat /\ y = x + (y - x)
      OBVIOUS
    <3> QED BY <3>1
  <2>2. y * z = x * z + d * z /\ d * z \in Nat
    BY <2>1
  <2> QED BY <2>2
<1>4. (s + 1) * b > e
  <2> HIDE DEF s, p, b, e
  <2>1. (p + 1) * b <= (s + 1) * b
    BY <1>1, <1>3
  <2>2. (p + 1) * b = p * b + b /\ p * b \in Int /\ (s + 1) * b \in Int
    BY <1>1
  <2> QED BY <1>1, <1>2, <2>1, <2>2
<1>5. (s - m) * b <= e
  <2>1. CASE a = Sweeper(c)
    BY <2>1, <1>1, SweeperPaysDust
  <2>2. CASE a # Sweeper(c)
    <3>1. s <= p
      <4>1. s = Least(p, contribution[a]) /\ p <= contribution[a] /\ contribution[a] \in Nat
        BY <2>2, <1>1, SharesAreClose, MembersAreAccounts DEF Share, Due, StakeType
      <4> HIDE DEF s, p
      <4> QED BY <1>1, <4>1 DEF Least
    <3> HIDE DEF s, p, b, e, m
    <3>2. (s - m) * b <= p * b
      BY <1>1, <1>2, <1>3, <3>1
    <3>3. (s - m) * b \in Int /\ p * b \in Int
      BY <1>1, <1>2
    <3> QED BY <1>1, <1>2, <3>2, <3>3
  <2> QED BY <2>1, <2>2
<1> QED BY <1>4, <1>5

\* The members' list names each of them once.
MembersOnce == \A i, j \in DOMAIN memberList : memberList[i] = memberList[j] => i = j

LEMMA MembersOnceStart == PoolInit => MembersOnce
BY DEF PoolInit, MembersOnce

LEMMA MembersOnceKept ==
  ASSUME PoolType, MembersOnce, PoolOp
  PROVE  MembersOnce'
<1>0. memberList \in Seq(Accounts)
  BY DEF PoolType
<1>1. ASSUME memberList' = memberList PROVE MembersOnce'
  BY <1>1 DEF MembersOnce
<1>2. ASSUME NEW a \in Accounts, AdmitMember(a) PROVE MembersOnce'
  <2> DEFINE k == Len(memberList)
  <2>1. /\ k \in Nat /\ DOMAIN memberList = 1..k /\ DOMAIN memberList' = 1..(k + 1)
        /\ memberList'[k + 1] = a
        /\ \A i \in 1..k : memberList'[i] = memberList[i] /\ memberList[i] # a
    BY <1>0, <1>2 DEF AdmitMember, Members, Range
  <2> HIDE DEF k
  <2> QED BY <2>1 DEF MembersOnce
<1>3. ASSUME NEW a \in Accounts, MemberOp(a) PROVE MembersOnce'
  BY <1>1, <1>2, <1>3 DEF MemberOp, FinalizeWithdraw, Collect, DepositStake,
     RequestWithdraw, admin
<1>4. ASSUME AdminOp \/ \E v \in Vaults, c \in Accounts, n \in Nat : VaultOp(v, c, n)
      PROVE  MembersOnce'
  BY <1>1, <1>4 DEF AdminOp, SetFactory, RegisterVault, VaultOp, Reserve, Release,
     Slash, RegisterAndReserve, admin
<1> QED BY <1>1, <1>3, <1>4 DEF PoolOp, poolVars, admin

\* With anyone to share with, the sweeper is the last of them.
LEMMA SweeperIsLast ==
  ASSUME StakeType, MembersOnce, NEW c, Others(c) # {}
  PROVE  /\ Sweeper(c) \in Others(c)
         /\ \E i \in DOMAIN memberList :
              /\ memberList[i] = Sweeper(c)
              /\ \A j \in DOMAIN memberList : j > i => memberList[j] = c
<1> DEFINE k == Len(memberList)
<1>1. memberList \in Seq(Accounts) /\ k \in Nat /\ DOMAIN memberList = 1..k
  BY DEF StakeType
<1>2. PICK i \in 1..k : memberList[i] # c
  BY <1>1 DEF Others, Members, Range
<1>3. Members = {memberList[j] : j \in 1..k}
  BY <1>1 DEF Members, Range
<1>4. CASE memberList[k] # c
  <2>1. Sweeper(c) = memberList[k]
    BY <1>4 DEF Sweeper
  <2>2. k \in 1..k /\ \A j \in 1..k : ~(j > k)
    BY <1>1, <1>2
  <2> QED BY <1>1, <1>3, <1>4, <2>1, <2>2 DEF Others
<1>5. CASE memberList[k] = c
  <2>1. Sweeper(c) = memberList[k - 1]
    BY <1>5 DEF Sweeper
  <2> HIDE DEF k
  <2>2. k - 1 \in 1..k /\ k \in 1..k
    BY <1>1, <1>2, <1>5
  <2>3. memberList[k - 1] # c
    <3>1. k - 1 # k
      BY <1>1
    <3> QED BY <1>1, <1>5, <2>2, <3>1 DEF MembersOnce
  <2>4. \A j \in 1..k : j > k - 1 => j = k
    BY <1>1
  <2> QED BY <1>1, <1>3, <1>5, <2>1, <2>2, <2>3, <2>4 DEF Others
<1> QED BY <1>4, <1>5

\* If the others pay less than is taken, the sweeper has given all it had.
LEMMA ShortfallEmptiesSweeper ==
  ASSUME StakeType, MembersOnce, NEW c \in Accounts, NEW n \in Nat,
         FromPool(c, n) < Take(c, n)
  PROVE  /\ Others(c) # {}
         /\ Share(c, n)[Sweeper(c)] = contribution[Sweeper(c)]
<1> DEFINE O == Others(c)
           t == Take(c, n)
           p == ProRata(c, n)
           s == Share(c, n)
           w == Sweeper(c)
           R == O \ {w}
<1>1. /\ O \subseteq Accounts /\ IsFiniteSet(O) /\ \A a \in O : contribution[a] \in Nat
  BY MembersAreAccounts DEF StakeType
<1>2. /\ Base(c) \in Nat /\ t \in Nat /\ t <= Base(c) /\ FromPool(c, n) \in Nat
      /\ \A a \in O : p[a] \in Nat /\ s[a] \in Nat
  BY ProRataFits, ShareFits
<1>3. Base(c) # 0
  BY <1>2
<1>4. O # {}
  BY <1>3, TotalEmpty DEF Base
<1>5. w \in O
  BY <1>4, SweeperIsLast
<1>6. \A a \in R : s[a] = p[a]
  <2> TAKE a \in R
  <2>1. p[a] <= contribution[a] /\ contribution[a] \in Nat /\ p[a] \in Nat
    BY <1>1, <1>2, <1>3, SharesAreClose
  <2>2. s[a] = Least(p[a], contribution[a])
    BY DEF Share, Due
  <2> HIDE DEF s, p
  <2> QED BY <2>1, <2>2 DEF Least
<1>7. Total(s, R) = Total(p, R) /\ Total(p, R) \in Nat
  <2>1. IsFiniteSet(R)
    BY <1>1, FS_RemoveElement
  <2>2. Total(s, R) = Total(p, R)
    <3> HIDE DEF s, p, R
    <3> QED BY <1>6, TotalSame
  <2>3. \A a \in R : p[a] \in Nat
    BY <1>2
  <2> HIDE DEF p, R
  <2> QED BY <2>1, <2>2, <2>3, TotalType
<1>8. FromPool(c, n) = Total(s, R) + s[w]
  <2>1. FromPool(c, n) = Total(s, O)
    BY DEF FromPool
  <2> HIDE DEF s
  <2> QED BY <1>1, <1>2, <1>5, <2>1, TotalRemove
<1>9. Due(c, n, w) = t - Total(p, R) /\ s[w] = Least(Due(c, n, w), contribution[w])
  BY <1>5 DEF Due, Share
<1>10. contribution[w] \in Nat /\ s[w] \in Nat
  BY <1>1, <1>2, <1>5
<1>11. FromPool(c, n) < t
  OBVIOUS
<1> HIDE DEF s, p, t, w, R, O
<1>12. s[w] = contribution[w]
  BY <1>2, <1>7, <1>8, <1>9, <1>10, <1>11 DEF Least
<1> QED BY <1>4, <1>12 DEF s, w, O

\* What the pool books is the courier's stake and what the others share by.
LEMMA StakeIsShared ==
  ASSUME StakeType, Solvent, MembersHoldAll, NEW c \in Accounts
  PROVE  totalStake = contribution[c] + Base(c)
<1> DEFINE O == Others(c)
           Rest == Accounts \ O
<1>1. O \subseteq Accounts /\ IsFiniteSet(O) /\ c \notin O
  BY MembersAreAccounts DEF Others
<1>2. contribution \in [Accounts -> Nat] /\ contribution[c] \in Nat
  BY DEF StakeType
<1>3. Total(contribution, Accounts) = Total(contribution, O) + Total(contribution, Rest)
  BY <1>1, <1>2, TotalSplit
<1>4. IsFiniteSet(Rest) /\ c \in Rest
  BY <1>1, FS_Difference
<1>5. \A a \in Rest \ {c} : contribution[a] = 0
  BY DEF Others, MembersHoldAll
<1>6. Total(contribution, Rest \ {c}) = 0
  BY <1>5, TotalZero
<1>7. Total(contribution, Rest) = Total(contribution, Rest \ {c}) + contribution[c]
  BY <1>2, <1>4, TotalRemove
<1>8. Base(c) \in Nat
  BY ProRataFits
<1> QED BY <1>2, <1>3, <1>6, <1>7, <1>8 DEF Solvent, Base

\* While the pool backs all it has promised, a slash pays a reserved amount in
\* full but for the dust.
LEMMA BackedSlashPays ==
  ASSUME PoolType, Solvent, MembersHoldAll, NEW c \in Accounts, NEW n \in Nat,
         n <= totalStake
  PROVE  n - Paid(c, n) = 0 \/ n - Paid(c, n) < Cardinality(Others(c))
<1> DEFINE O == Others(c)
<1>1. StakeType /\ contribution \in [Accounts -> Nat] /\ contribution[c] \in Nat
  BY DEF PoolType, StakeType
<1>2. O \subseteq Accounts /\ IsFiniteSet(O) /\ c \notin O
  BY <1>1, MembersAreAccounts DEF Others
<1>3. /\ Take(c, n) \in Nat /\ Base(c) \in Nat /\ FromCourier(c, n) \in Nat
      /\ FromPool(c, n) \in Nat
  BY <1>1, ProRataFits, ShareFits
<1>4. totalStake = contribution[c] + Base(c)
  BY <1>1, StakeIsShared
<1>5. n - FromCourier(c, n) <= Base(c) /\ n - FromCourier(c, n) >= 0
  BY <1>1, <1>3, <1>4 DEF FromCourier, Least
<1>6. Take(c, n) = n - FromCourier(c, n)
  BY <1>3, <1>5 DEF Take, Least
<1>7. n - Paid(c, n) = Take(c, n) - FromPool(c, n)
  BY <1>3, <1>6 DEF Paid
<1> QED BY <1>1, <1>3, <1>7, FloorsLoseLittle
=============================================================================
