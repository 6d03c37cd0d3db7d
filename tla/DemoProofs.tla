----------------------------- MODULE DemoProofs -----------------------------
(***************************************************************************)
(* Theorems of Demo: the scripts take the market's own steps, and what     *)
(* frontend-demo.json names is as it promises, for any number of runs,     *)
(* interruptions and restarts of the node.                                 *)
(***************************************************************************)
EXTENDS Demo, MarketProofs

-----------------------------------------------------------------------------
(* Plans.                                                                  *)

Steps ==
    [do : {"admit", "stake", "bid"}, by : 1..3]
    \cup [do : {"contracts", "factory", "deploymentFile", "policy", "open", "publish", "accept",
                "fund", "pickup", "confirm", "passWindow", "finalize", "demoFile"},
          by : {0}]

\* Nothing is done with what a step makes before that step.
After(plan, first, uses) ==
    \A j \in DOMAIN plan : plan[j].do \in uses =>
        \E i \in 1..(j - 1) : plan[i].do = first
OnRequest == {"publish", "bid", "accept"}
OnItsVault == {"fund", "pickup", "confirm", "finalize"}

\* How the demo for the page ends.
FrontendEnd(plan) ==
    LET n == Len(plan)
    IN  /\ plan[n].do = "demoFile"
        /\ n >= 2 => plan[n - 1].do = "pickup"
        /\ n >= 3 => plan[n - 2].do = "fund"
        /\ n >= 4 => plan[n - 3].do = "accept"
        /\ \A i \in DOMAIN plan : plan[i].do \in {"open", "accept"} => i <= n - 3

PlanTrue(name, plan) ==
    LET n == Len(plan)
    IN  /\ plan \in Seq(Steps) /\ n >= 1 /\ plan[n].do # "accept"
        /\ \A i \in DOMAIN plan :
             /\ plan[i].do = "demoFile" => name = "frontend" /\ i = n
             /\ plan[i].do = "passWindow" => name = "endToEnd" /\ i = n - 1
        /\ name = "frontend" => FrontendEnd(plan)

LEMMA TheRest ==
  ASSUME NEW plan \in Seq(Steps), Len(plan) >= 1, Len(plan) # 1
  PROVE  /\ Tail(plan) \in Seq(Steps) /\ Len(Tail(plan)) = Len(plan) - 1 /\ Len(plan) >= 2
         /\ \A i \in DOMAIN Tail(plan) : i + 1 \in DOMAIN plan /\ Tail(plan)[i] = plan[i + 1]
         /\ DOMAIN Tail(plan) = 1..(Len(plan) - 1) /\ Len(plan) \in Nat
<1>1. Len(plan) \in Nat /\ Len(plan) >= 2 /\ plan # <<>>
  <2>1. Len(plan) \in Nat
    OBVIOUS
  <2> DEFINE n == Len(plan)
  <2>2. n \in Nat /\ n >= 1 /\ n # 1
    BY <2>1
  <2> HIDE DEF n
  <2>3. n >= 2
    BY <2>2
  <2> USE DEF n
  <2>4. plan # <<>>
    BY <2>3
  <2> QED BY <2>1, <2>3, <2>4
<1>2. Tail(plan) \in Seq(Steps) /\ Len(Tail(plan)) = Len(plan) - 1
  BY <1>1
<1>3. DOMAIN Tail(plan) = 1..(Len(plan) - 1)
  BY <1>2
<1>4. \A i \in 1..(Len(plan) - 1) : i + 1 \in DOMAIN plan /\ Tail(plan)[i] = plan[i + 1]
  BY <1>1
<1> QED BY <1>1, <1>2, <1>3, <1>4

LEMMA PlanGoesOn ==
  ASSUME NEW name, NEW plan, PlanTrue(name, plan), Len(plan) # 1
  PROVE  PlanTrue(name, Tail(plan))
<1> DEFINE t == Tail(plan)
           n == Len(plan)
<1>1. plan \in Seq(Steps) /\ n >= 1
  BY DEF PlanTrue
<1>2. /\ t \in Seq(Steps) /\ Len(t) = n - 1 /\ n >= 2 /\ n \in Nat /\ DOMAIN t = 1..(n - 1)
      /\ \A i \in DOMAIN t : i + 1 \in DOMAIN plan /\ t[i] = plan[i + 1]
  BY <1>1, TheRest
<1> HIDE DEF t
<1>3. /\ plan[n].do # "accept"
      /\ \A i \in DOMAIN plan :
           /\ plan[i].do = "demoFile" => name = "frontend" /\ i = n
           /\ plan[i].do = "passWindow" => name = "endToEnd" /\ i = n - 1
      /\ name = "frontend" => FrontendEnd(plan)
  BY DEF PlanTrue
<1> HIDE DEF n
<1>4. t[n - 1] = plan[n]
  BY <1>2
<1>5. \A i \in DOMAIN t :
        /\ t[i].do = "demoFile" => name = "frontend" /\ i = n - 1
        /\ t[i].do = "passWindow" => name = "endToEnd" /\ i = n - 2
  BY <1>2, <1>3
<1>6. ASSUME name = "frontend" PROVE FrontendEnd(t)
  <2>1. /\ plan[n].do = "demoFile"
        /\ n >= 2 => plan[n - 1].do = "pickup"
        /\ n >= 3 => plan[n - 2].do = "fund"
        /\ n >= 4 => plan[n - 3].do = "accept"
        /\ \A i \in DOMAIN plan : plan[i].do \in {"open", "accept"} => i <= n - 3
    BY <1>3, <1>6 DEF FrontendEnd, n
  <2>2. n - 1 >= 2 => t[n - 2] = plan[n - 1]
    BY <1>2
  <2>3. n - 1 >= 3 => t[n - 3] = plan[n - 2]
    BY <1>2
  <2>4. /\ n - 1 >= 4 => t[n - 4] = plan[n - 3]
        /\ \A i \in DOMAIN t : t[i].do \in {"open", "accept"} => i <= n - 4
    BY <1>2, <2>1
  <2> DEFINE m == Len(t)
  <2>5. m = n - 1 /\ m \in Nat /\ n \in Nat
    BY <1>2
  <2> HIDE DEF m
  <2>6. /\ m >= 2 => n - 1 >= 2 /\ n >= 2
        /\ m >= 3 => n - 1 >= 3 /\ n >= 3
        /\ m >= 4 => n - 1 >= 4 /\ n >= 4
        /\ m - 1 = n - 2 /\ m - 2 = n - 3 /\ m - 3 = n - 4
    BY <2>5
  <2>7. t[m].do = "demoFile"
    BY <1>4, <2>1, <2>5
  <2>8. /\ m >= 2 => t[m - 1].do = "pickup"
        /\ m >= 3 => t[m - 2].do = "fund"
        /\ m >= 4 => t[m - 3].do = "accept"
    BY <2>1, <2>2, <2>3, <2>4, <2>6
  <2> QED BY <2>4, <2>6, <2>7, <2>8 DEF FrontendEnd, m
<1>7. n - 1 >= 1 /\ n - 1 - 1 = n - 2
  BY <1>2
<1> QED BY <1>2, <1>3, <1>4, <1>5, <1>6, <1>7 DEF PlanTrue, t

LEMMA AfterGoesOn ==
  ASSUME NEW plan \in Seq(Steps), Len(plan) >= 1, Len(plan) # 1, NEW first, NEW uses,
         After(plan, first, uses), plan[1].do # first
  PROVE  After(Tail(plan), first, uses)
<1> SUFFICES ASSUME NEW j \in DOMAIN Tail(plan), Tail(plan)[j].do \in uses
             PROVE  \E i \in 1..(j - 1) : Tail(plan)[i].do = first
  BY DEF After
<1>1. /\ DOMAIN Tail(plan) = 1..(Len(plan) - 1) /\ Len(plan) \in Nat
      /\ \A i \in DOMAIN Tail(plan) : i + 1 \in DOMAIN plan /\ Tail(plan)[i] = plan[i + 1]
  BY TheRest
<1>2. PICK i \in 1..j : plan[i].do = first
  <2>1. j + 1 \in DOMAIN plan /\ plan[j + 1].do \in uses /\ (j + 1) - 1 = j
    BY <1>1
  <2> QED BY <2>1 DEF After
<1>3. i # 1 /\ i - 1 \in 1..(j - 1) /\ i - 1 \in DOMAIN Tail(plan) /\ (i - 1) + 1 = i
  BY <1>1, <1>2
<1>4. Tail(plan)[i - 1].do = first
  BY <1>1, <1>2, <1>3
<1> QED BY <1>3, <1>4

\* Nothing is used of what is not there at the start of a plan.
LEMMA FirstUse ==
  ASSUME NEW plan \in Seq(Steps), Len(plan) >= 1, NEW first, NEW uses,
         After(plan, first, uses)
  PROVE  plan[1].do \notin uses
<1>1. 1 \in DOMAIN plan /\ 1..(1 - 1) = {}
  OBVIOUS
<1> QED BY <1>1 DEF After

LEMMA Joined ==
  ASSUME NEW s \in Seq(Steps), NEW t \in Seq(Steps)
  PROVE  /\ s \o t \in Seq(Steps) /\ Len(s \o t) = Len(s) + Len(t)
         /\ Len(s) \in Nat /\ Len(t) \in Nat
         /\ DOMAIN (s \o t) = 1..(Len(s) + Len(t))
         /\ \A i \in 1..Len(s) : (s \o t)[i] = s[i]
         /\ \A i \in 1..Len(t) : (s \o t)[Len(s) + i] = t[i]
<1>1. Len(s) \in Nat /\ Len(t) \in Nat
  OBVIOUS
<1>2. s \o t \in Seq(Steps) /\ Len(s \o t) = Len(s) + Len(t)
  OBVIOUS
<1>3. \A i \in 1..Len(s) : (s \o t)[i] = s[i]
  OBVIOUS
<1>4. \A i \in 1..Len(t) : (s \o t)[Len(s) + i] = t[i]
  OBVIOUS
<1> QED BY <1>1, <1>2, <1>3, <1>4

Setup == {"contracts", "factory", "admit", "stake"}

LEMMA StakingPlan ==
  /\ Staking3 \in Seq(Steps) /\ Len(Staking3) = 6
  /\ \A i \in 1..6 : Staking3[i].do \in Setup
<1>1. \A do \in {"admit", "stake"}, i \in 1..3 : [do |-> do, by |-> i] \in Steps
  BY DEF Steps
<1>2. Staking3 \in Seq(Steps)
  BY <1>1 DEF Staking3
<1>3. Len(Staking3) = 6
  BY DEF Staking3
<1>4. /\ Staking3[1].do = "admit" /\ Staking3[2].do = "stake" /\ Staking3[3].do = "admit"
      /\ Staking3[4].do = "stake" /\ Staking3[5].do = "admit" /\ Staking3[6].do = "stake"
  BY DEF Staking3
<1>5. 1..6 = {1, 2, 3, 4, 5, 6}
  OBVIOUS
<1> QED BY <1>2, <1>3, <1>4, <1>5 DEF Setup

LEMMA Listed ==
  ASSUME NEW S, NEW n \in Nat, NEW f \in [1..n -> S]
  PROVE  f \in Seq(S)
OBVIOUS

LEMMA TradePlan ==
  /\ Trade \in Seq(Steps) /\ Len(Trade) = 9
  /\ Trade[1].do = "policy" /\ Trade[2].do = "open" /\ Trade[3].do = "publish"
  /\ \A i \in 4..6 : Trade[i].do = "bid" /\ Trade[i].by = i - 3
  /\ Trade[7].do = "accept" /\ Trade[8].do = "fund" /\ Trade[9].do = "pickup"
<1> DEFINE X == <<Once("policy"), Once("open"), Once("publish")>>
           B == ForEach("bid")
           Y == <<Once("accept"), Once("fund"), Once("pickup")>>
<1>1. \A do \in {"policy", "open", "publish", "accept", "fund", "pickup"} :
        Once(do) \in Steps /\ Once(do).do = do
  BY DEF Steps, Once
<1>2. /\ X \in Seq(Steps) /\ Len(X) = 3
      /\ X[1].do = "policy" /\ X[2].do = "open" /\ X[3].do = "publish"
  BY <1>1
<1>3. /\ Y \in Seq(Steps) /\ Len(Y) = 3
      /\ Y[1].do = "accept" /\ Y[2].do = "fund" /\ Y[3].do = "pickup"
  BY <1>1
<1>4. /\ B \in Seq(Steps) /\ Len(B) = 3
      /\ \A i \in 1..3 : B[i].do = "bid" /\ B[i].by = i
  <2>1. DOMAIN Couriers = 1..3
    BY DemoConstants
  <2> DEFINE Bidding3(i) == [do |-> "bid", by |-> i]
  <2>2. B = [i \in 1..3 |-> Bidding3(i)]
    BY <2>1 DEF ForEach
  <2>3. \A i \in 1..3 :
           Bidding3(i) \in Steps /\ Bidding3(i).do = "bid" /\ Bidding3(i).by = i
    BY DEF Steps
  <2> HIDE DEF Bidding3, B
  <2>4. B \in [1..3 -> Steps] /\ \A i \in 1..3 : B[i].do = "bid" /\ B[i].by = i
    BY <2>2, <2>3
  <2>5. B \in Seq(Steps) /\ Len(B) = 3
    <3>1. 3 \in Nat
      OBVIOUS
    <3>2. B \in Seq(Steps)
      BY <2>4, <3>1, Listed
    <3>3. DOMAIN B = 1..3
      BY <2>4
    <3> QED BY <3>1, <3>2, <3>3
  <2> QED BY <2>4, <2>5
<1>5. Trade = (X \o B) \o Y
  BY DEF Trade
<1> HIDE DEF X, B, Y
<1> DEFINE T == X \o B
<1>6. /\ T \in Seq(Steps) /\ Len(T) = 6
      /\ \A i \in 1..3 : T[i] = X[i]
      /\ \A i \in 1..3 : T[3 + i] = B[i]
  <2>1. /\ X \o B \in Seq(Steps) /\ Len(X \o B) = Len(X) + Len(B)
        /\ \A i \in 1..Len(X) : (X \o B)[i] = X[i]
        /\ \A i \in 1..Len(B) : (X \o B)[Len(X) + i] = B[i]
    BY <1>2, <1>4, Joined
  <2> HIDE DEF T
  <2>2. /\ T \in Seq(Steps) /\ Len(T) = Len(X) + Len(B)
        /\ \A i \in 1..Len(X) : T[i] = X[i]
        /\ \A i \in 1..Len(B) : T[Len(X) + i] = B[i]
    BY <2>1 DEF T
  <2> QED BY <1>2, <1>4, <2>2
<1>7. Trade = T \o Y
  BY <1>5
<1> HIDE DEF T
<1>8. /\ Trade \in Seq(Steps) /\ Len(Trade) = 9
      /\ \A i \in 1..6 : Trade[i] = T[i]
      /\ \A i \in 1..3 : Trade[6 + i] = Y[i]
  <2>1. /\ Trade \in Seq(Steps) /\ Len(Trade) = Len(T) + Len(Y)
        /\ \A i \in 1..Len(T) : Trade[i] = T[i]
        /\ \A i \in 1..Len(Y) : Trade[Len(T) + i] = Y[i]
    BY <1>3, <1>6, <1>7, Joined
  <2> QED BY <1>3, <1>6, <2>1
<1>9. ASSUME NEW i \in 4..6 PROVE Trade[i].do = "bid" /\ Trade[i].by = i - 3
  <2>1. i - 3 \in 1..3 /\ 3 + (i - 3) = i /\ i \in 1..6
    OBVIOUS
  <2>2. Trade[i] = B[i - 3]
    BY <1>6, <1>8, <2>1
  <2> QED BY <1>4, <2>1, <2>2
<1>10. Trade[1] = X[1] /\ Trade[2] = X[2] /\ Trade[3] = X[3]
  BY <1>6, <1>8
<1>11. Trade[7] = Y[1] /\ Trade[8] = Y[2] /\ Trade[9] = Y[3]
  <2>1. 6 + 1 = 7 /\ 6 + 2 = 8 /\ 6 + 3 = 9
    OBVIOUS
  <2> QED BY <1>8, <2>1
<1> QED BY <1>2, <1>3, <1>8, <1>9, <1>10, <1>11

\* A demo: what comes before its delivery, the delivery up to the pickup, and
\* what comes after.
LEMMA DemoPlan ==
  ASSUME NEW s \in Seq(Steps), NEW u \in Seq(Steps), Len(u) >= 1,
         \A i \in 1..Len(s) : s[i].do \in Setup,
         \A i \in 1..Len(u) : u[i].do \in {"confirm", "passWindow", "finalize", "demoFile"}
  PROVE  LET p == s \o Trade \o u
             n == Len(s)
         IN  /\ p \in Seq(Steps) /\ Len(p) = n + 9 + Len(u)
             /\ After(p, "open", OnRequest) /\ After(p, "accept", OnItsVault)
             /\ \A i \in 1..n : p[i] = s[i]
             /\ \A i \in 1..9 : p[n + i] = Trade[i]
             /\ \A i \in 1..Len(u) : p[n + 9 + i] = u[i]
<1> DEFINE h == s \o Trade
           p == h \o u
           n == Len(s)
<1>1. /\ h \in Seq(Steps) /\ Len(h) = n + 9 /\ n \in Nat
      /\ \A i \in 1..n : h[i] = s[i]
      /\ \A i \in 1..9 : h[n + i] = Trade[i]
  <2>1. /\ h \in Seq(Steps) /\ Len(h) = n + Len(Trade) /\ n \in Nat
        /\ \A i \in 1..n : h[i] = s[i]
        /\ \A i \in 1..Len(Trade) : h[n + i] = Trade[i]
    BY ZenonT(30), TradePlan, Joined
  <2> HIDE DEF h, n
  <2> QED BY TradePlan, <2>1
<1> HIDE DEF h
<1>2. /\ p \in Seq(Steps) /\ Len(p) = n + 9 + Len(u) /\ Len(u) \in Nat
      /\ DOMAIN p = 1..(n + 9 + Len(u))
      /\ \A i \in 1..(n + 9) : p[i] = h[i]
      /\ \A i \in 1..Len(u) : p[n + 9 + i] = u[i]
  <2>1. /\ p \in Seq(Steps) /\ Len(p) = Len(h) + Len(u) /\ Len(u) \in Nat
        /\ DOMAIN p = 1..(Len(h) + Len(u))
        /\ \A i \in 1..Len(h) : p[i] = h[i]
        /\ \A i \in 1..Len(u) : p[Len(h) + i] = u[i]
    BY <1>1, Joined
  <2>2. Len(h) = n + 9
    BY <1>1
  <2> HIDE DEF p, n
  <2> QED BY <2>1, <2>2
<1> HIDE DEF p, n
<1>3. /\ \A i \in 1..n : p[i] = s[i]
      /\ \A i \in 1..9 : p[n + i] = Trade[i]
  <2>1. \A m \in Nat : /\ \A i \in 1..m : i \in 1..(m + 9)
                       /\ \A i \in 1..9 : m + i \in 1..(m + 9)
    OBVIOUS
  <2>2. \A i \in 1..n : p[i] = s[i]
    <3> TAKE i \in 1..n
    <3>1. i \in 1..(n + 9)
      BY <1>1, <2>1
    <3>2. p[i] = h[i]
      BY <1>2, <3>1
    <3> QED BY <1>1, <3>2
  <2>3. \A i \in 1..9 : p[n + i] = Trade[i]
    <3> TAKE i \in 1..9
    <3>1. n + i \in 1..(n + 9)
      BY <1>1, <2>1
    <3>2. p[n + i] = h[n + i]
      BY <1>2, <3>1
    <3> QED BY <1>1, <3>2
  <2> QED BY <2>2, <2>3
<1>4. \A j \in DOMAIN p :
        \/ j \in 1..n
        \/ j - n \in 1..9 /\ n + (j - n) = j
        \/ j - (n + 9) \in 1..Len(u) /\ n + 9 + (j - (n + 9)) = j
  <2>1. \A m \in Nat, k \in Nat : \A j \in 1..(m + 9 + k) :
           \/ j \in 1..m
           \/ j - m \in 1..9 /\ m + (j - m) = j
           \/ j - (m + 9) \in 1..k /\ m + 9 + (j - (m + 9)) = j
    OBVIOUS
  <2> DEFINE k == Len(u)
  <2>2. n \in Nat /\ k \in Nat
    BY <1>1, <1>2
  <2> HIDE DEF k
  <2>3. \A j \in 1..(n + 9 + k) :
           \/ j \in 1..n
           \/ j - n \in 1..9 /\ n + (j - n) = j
           \/ j - (n + 9) \in 1..k /\ n + 9 + (j - (n + 9)) = j
    BY <2>1, <2>2
  <2> QED BY <1>2, <2>3 DEF k
<1>5. /\ p[n + 2].do = "open" /\ p[n + 7].do = "accept"
      /\ n + 1 \in Nat /\ n + 2 \in Nat /\ n + 7 \in Nat
  BY <1>1, <1>3, TradePlan
<1>6. ASSUME NEW j \in DOMAIN p, p[j].do \in OnRequest
      PROVE  n + 2 \in 1..(j - 1)
  <2>1. CASE j \in 1..n
    BY <1>3, <1>6, <2>1 DEF OnRequest, Setup, n
  <2>2. CASE j - n \in 1..9 /\ n + (j - n) = j
    <3>1. PICK i \in 1..9 : n + i = j
      BY <2>2
    <3>2. p[j] = Trade[i]
      BY <1>3, <3>1
    <3>3. i # 1 /\ i # 2
      BY <1>6, <3>2, TradePlan DEF OnRequest
    <3>4. n \in Nat /\ i \in 3..9 /\ j = n + i
      BY <1>1, <3>1, <3>3
    <3> QED BY <3>4
  <2>3. CASE j - (n + 9) \in 1..Len(u) /\ n + 9 + (j - (n + 9)) = j
    <3>1. p[j] = u[j - (n + 9)]
      BY <1>2, <2>3
    <3> QED BY <1>6, <2>3, <3>1 DEF OnRequest
  <2> QED BY <1>4, <2>1, <2>2, <2>3
<1>7. ASSUME NEW j \in DOMAIN p, p[j].do \in OnItsVault
      PROVE  n + 7 \in 1..(j - 1)
  <2>1. CASE j \in 1..n
    BY <1>3, <1>7, <2>1 DEF OnItsVault, Setup, n
  <2>2. CASE j - n \in 1..9 /\ n + (j - n) = j
    <3>1. PICK i \in 1..9 : n + i = j
      BY <2>2
    <3>2. p[j] = Trade[i]
      BY <1>3, <3>1
    <3>3. i \notin {1, 2, 3, 4, 5, 6, 7}
      BY <1>7, <3>2, TradePlan DEF OnItsVault
    <3>4. n \in Nat /\ i \in 8..9 /\ j = n + i
      BY <1>1, <3>1, <3>3
    <3> QED BY <3>4
  <2>3. CASE j - (n + 9) \in 1..Len(u) /\ n + 9 + (j - (n + 9)) = j
    <3>1. PICK i \in 1..Len(u) : n + 9 + i = j
      BY <2>3
    <3>2. n \in Nat /\ i \in Nat /\ i >= 1 /\ j = n + 9 + i
      BY <1>1, <1>2, <3>1
    <3> QED BY <3>2
  <2> QED BY <1>4, <2>1, <2>2, <2>3
<1>8. After(p, "open", OnRequest) /\ After(p, "accept", OnItsVault)
  BY <1>5, <1>6, <1>7 DEF After
<1> QED BY <1>2, <1>3, <1>8 DEF p, h, n

Ordered(plan) == After(plan, "open", OnRequest) /\ After(plan, "accept", OnItsVault)

LEMMA OnceIsAStep ==
  \A do \in {"contracts", "factory", "deploymentFile", "confirm", "passWindow", "finalize",
             "demoFile"} :
    Once(do) \in Steps /\ Once(do).do = do
BY DEF Steps, Once

LEMMA FrontendPlanIsTrue ==
  /\ PlanTrue("frontend", FrontendPlan) /\ Ordered(FrontendPlan) /\ Len(FrontendPlan) = 16
  /\ \A i \in 1..6 : FrontendPlan[i] = Staking3[i]
  /\ \A i \in 1..9 : FrontendPlan[6 + i] = Trade[i]
  /\ FrontendPlan[16].do = "demoFile"
<1> DEFINE u == <<Once("demoFile")>>
           p == Staking3 \o Trade \o u
<1>1. u \in Seq(Steps) /\ Len(u) = 1 /\ u[1].do = "demoFile"
  BY OnceIsAStep
<1> HIDE DEF u
<1>2. /\ p \in Seq(Steps) /\ Len(p) = 6 + 9 + 1 /\ Ordered(p)
      /\ \A i \in 1..6 : p[i] = Staking3[i]
      /\ \A i \in 1..9 : p[6 + i] = Trade[i]
      /\ p[6 + 9 + 1] = u[1]
  <2>1. \A i \in 1..Len(u) : u[i].do \in {"confirm", "passWindow", "finalize", "demoFile"}
    BY <1>1
  <2>2. /\ p \in Seq(Steps) /\ Len(p) = Len(Staking3) + 9 + Len(u) /\ Ordered(p)
        /\ \A i \in 1..Len(Staking3) : p[i] = Staking3[i]
        /\ \A i \in 1..9 : p[Len(Staking3) + i] = Trade[i]
        /\ \A i \in 1..Len(u) : p[Len(Staking3) + 9 + i] = u[i]
    <3>1. /\ Staking3 \in Seq(Steps) /\ u \in Seq(Steps) /\ Len(u) >= 1
          /\ \A i \in 1..Len(Staking3) : Staking3[i].do \in Setup
      BY <1>1, StakingPlan
    <3> QED BY <2>1, <3>1, DemoPlan DEF Ordered
  <2> HIDE DEF p
  <2> QED BY <1>1, <2>2, StakingPlan
<1> HIDE DEF p
<1>3. /\ Len(p) = 16 /\ DOMAIN p = 1..16
      /\ \A i \in 1..9 : p[6 + i] = Trade[i]
      /\ p[16] = u[1]
  BY <1>2
<1>4. p[13] = Trade[7] /\ p[14] = Trade[8] /\ p[15] = Trade[9]
  <2>1. 6 + 7 = 13 /\ 6 + 8 = 14 /\ 6 + 9 = 15
    OBVIOUS
  <2> QED BY <1>3, <2>1
<1>5. \A i \in 1..16 : i \in 1..6 \/ (i - 6 \in 1..9 /\ 6 + (i - 6) = i) \/ i = 16
  OBVIOUS
<1>6. ASSUME NEW i \in 1..16
      PROVE  /\ p[i].do \in {"open", "accept"} => i <= 13
             /\ p[i].do = "demoFile" => i = 16
             /\ p[i].do # "passWindow"
  <2>1. CASE i \in 1..6
    BY <1>2, <2>1, StakingPlan DEF Setup
  <2>2. CASE i - 6 \in 1..9 /\ 6 + (i - 6) = i
    <3>1. p[i] = Trade[i - 6]
      BY <1>3, <2>2
    <3>2. CASE i - 6 \in 1..7
      <4>1. \A j \in 1..7 : Trade[j].do \notin {"demoFile", "passWindow"}
        BY TradePlan
      <4>2. i <= 13
        BY <3>2
      <4> QED BY <3>1, <3>2, <4>1, <4>2
    <3>3. CASE i - 6 = 8 \/ i - 6 = 9
      BY <3>1, <3>3, TradePlan
    <3> QED BY <2>2, <3>2, <3>3
  <2>3. CASE i = 16
    BY <1>1, <1>3, <2>3
  <2> QED BY <1>5, <2>1, <2>2, <2>3
<1>7. FrontendEnd(p)
  BY <1>1, <1>3, <1>4, <1>6, TradePlan DEF FrontendEnd
<1>8. PlanTrue("frontend", p)
  BY <1>1, <1>2, <1>3, <1>6, <1>7 DEF PlanTrue
<1>9. \A i \in 1..6 : p[i] = Staking3[i]
  BY <1>2
<1> QED BY <1>1, <1>2, <1>3, <1>8, <1>9 DEF FrontendPlan, p, u

\* What each step of the demo for the page is, by how many come before it.
LEMMA StepsOfFrontend ==
  ASSUME NEW k \in 0..15
  PROVE  LET s == FrontendPlan[k + 1]
         IN  \/ s.do = "admit" /\ s.by \in 1..3 /\ k = 2 * s.by - 2
             \/ s.do = "stake" /\ s.by \in 1..3 /\ k = 2 * s.by - 1
             \/ s.do = "policy" /\ k = 6
             \/ s.do = "open" /\ k = 7
             \/ s.do = "publish" /\ k = 8
             \/ s.do = "bid" /\ s.by \in 1..3 /\ k = 8 + s.by
             \/ s.do = "accept" /\ k = 12
             \/ s.do \in {"fund", "pickup", "demoFile"} /\ k \in 13..15
<1> DEFINE p == FrontendPlan
<1>1. /\ p[1] = [do |-> "admit", by |-> 1] /\ p[2] = [do |-> "stake", by |-> 1]
      /\ p[3] = [do |-> "admit", by |-> 2] /\ p[4] = [do |-> "stake", by |-> 2]
      /\ p[5] = [do |-> "admit", by |-> 3] /\ p[6] = [do |-> "stake", by |-> 3]
  <2>1. /\ Staking3[1] = [do |-> "admit", by |-> 1] /\ Staking3[2] = [do |-> "stake", by |-> 1]
        /\ Staking3[3] = [do |-> "admit", by |-> 2] /\ Staking3[4] = [do |-> "stake", by |-> 2]
        /\ Staking3[5] = [do |-> "admit", by |-> 3] /\ Staking3[6] = [do |-> "stake", by |-> 3]
    BY DEF Staking3
  <2> QED BY <2>1, FrontendPlanIsTrue
<1>2. /\ p[7] = Trade[1] /\ p[8] = Trade[2] /\ p[9] = Trade[3] /\ p[10] = Trade[4]
      /\ p[11] = Trade[5] /\ p[12] = Trade[6] /\ p[13] = Trade[7] /\ p[14] = Trade[8]
      /\ p[15] = Trade[9] /\ p[16].do = "demoFile"
  <2>1. \A i \in 1..9 : p[6 + i] = Trade[i]
    BY FrontendPlanIsTrue
  <2>2. /\ p[6 + 1] = Trade[1] /\ p[6 + 2] = Trade[2] /\ p[6 + 3] = Trade[3]
        /\ p[6 + 4] = Trade[4] /\ p[6 + 5] = Trade[5] /\ p[6 + 6] = Trade[6]
        /\ p[6 + 7] = Trade[7] /\ p[6 + 8] = Trade[8] /\ p[6 + 9] = Trade[9]
    BY <2>1
  <2> QED BY <2>2, FrontendPlanIsTrue
<1>3. /\ p[7].do = "policy" /\ p[8].do = "open" /\ p[9].do = "publish"
      /\ p[10].do = "bid" /\ p[10].by = 1 /\ p[11].do = "bid" /\ p[11].by = 2
      /\ p[12].do = "bid" /\ p[12].by = 3
      /\ p[13].do = "accept" /\ p[14].do = "fund" /\ p[15].do = "pickup"
  BY <1>2, TradePlan
<1> HIDE DEF p
<1>4. CASE k \in 0..5
  <2>1. k = 0 \/ k = 1 \/ k = 2 \/ k = 3 \/ k = 4 \/ k = 5
    BY <1>4
  <2>2. \/ p[k + 1].do = "admit" /\ p[k + 1].by \in 1..3 /\ k = 2 * p[k + 1].by - 2
        \/ p[k + 1].do = "stake" /\ p[k + 1].by \in 1..3 /\ k = 2 * p[k + 1].by - 1
    BY <1>1, <2>1
  <2> QED BY <2>2 DEF p
<1>5. CASE k \in 6..8
  <2>1. k = 6 \/ k = 7 \/ k = 8
    BY <1>5
  <2> QED BY <1>3, <2>1 DEF p
<1>6. CASE k \in 9..11
  <2>1. k = 9 \/ k = 10 \/ k = 11
    BY <1>6
  <2>2. p[k + 1].do = "bid" /\ p[k + 1].by \in 1..3 /\ k = 8 + p[k + 1].by
    BY <1>3, <2>1
  <2> QED BY <2>2 DEF p
<1>7. CASE k \in 12..15
  <2>1. k = 12 \/ k = 13 \/ k = 14 \/ k = 15
    BY <1>7
  <2>2. \/ p[k + 1].do = "accept" /\ k = 12
        \/ p[k + 1].do \in {"fund", "pickup", "demoFile"} /\ k \in 13..15
    BY <1>2, <1>3, <2>1
  <2> QED BY <2>2 DEF p
<1>8. k \in 0..5 \/ k \in 6..8 \/ k \in 9..11 \/ k \in 12..15
  OBVIOUS
<1> QED BY <1>4, <1>5, <1>6, <1>7, <1>8

LEMMA EndToEndPlanIsTrue == PlanTrue("endToEnd", EndToEndPlan) /\ Ordered(EndToEndPlan)
<1> DEFINE c == <<Once("contracts"), Once("factory")>>
           s == c \o Staking3
           u == <<Once("confirm"), Once("passWindow"), Once("finalize")>>
           p == s \o Trade \o u
<1>1. /\ u \in Seq(Steps) /\ Len(u) = 3
      /\ u[1].do = "confirm" /\ u[2].do = "passWindow" /\ u[3].do = "finalize"
  BY OnceIsAStep
<1>2. c \in Seq(Steps) /\ Len(c) = 2 /\ c[1].do = "contracts" /\ c[2].do = "factory"
  BY OnceIsAStep
<1> HIDE DEF u, c
<1>3. s \in Seq(Steps) /\ Len(s) = 8 /\ \A i \in 1..8 : s[i].do \in Setup
  <2>1. /\ s \in Seq(Steps) /\ Len(s) = Len(c) + Len(Staking3)
        /\ \A i \in 1..Len(c) : s[i] = c[i]
        /\ \A i \in 1..Len(Staking3) : s[Len(c) + i] = Staking3[i]
    BY <1>2, StakingPlan, Joined
  <2> HIDE DEF s
  <2>2. /\ Len(s) = 8 /\ s[1] = c[1] /\ s[2] = c[2]
        /\ \A i \in 1..6 : s[2 + i] = Staking3[i]
    BY <1>2, <2>1, StakingPlan
  <2>3. \A i \in 1..8 : i = 1 \/ i = 2 \/ (i - 2 \in 1..6 /\ 2 + (i - 2) = i)
    OBVIOUS
  <2>4. ASSUME NEW i \in 1..8 PROVE s[i].do \in Setup
    <3>1. CASE i = 1 \/ i = 2
      BY <1>2, <2>2, <3>1 DEF Setup
    <3>2. CASE i - 2 \in 1..6 /\ 2 + (i - 2) = i
      BY <2>2, <3>2, StakingPlan
    <3> QED BY <2>3, <3>1, <3>2
  <2> QED BY <2>1, <2>2, <2>4
<1> HIDE DEF s
<1>4. /\ p \in Seq(Steps) /\ Len(p) = 8 + 9 + 3 /\ Ordered(p)
      /\ \A i \in 1..8 : p[i] = s[i]
      /\ \A i \in 1..9 : p[8 + i] = Trade[i]
      /\ \A i \in 1..3 : p[8 + 9 + i] = u[i]
  <2>1. \A i \in 1..Len(u) : u[i].do \in {"confirm", "passWindow", "finalize", "demoFile"}
    BY <1>1
  <2>2. /\ p \in Seq(Steps) /\ Len(p) = Len(s) + 9 + Len(u) /\ Ordered(p)
        /\ \A i \in 1..Len(s) : p[i] = s[i]
        /\ \A i \in 1..9 : p[Len(s) + i] = Trade[i]
        /\ \A i \in 1..Len(u) : p[Len(s) + 9 + i] = u[i]
    <3>1. /\ s \in Seq(Steps) /\ u \in Seq(Steps) /\ Len(u) >= 1
          /\ \A i \in 1..Len(s) : s[i].do \in Setup
      BY <1>1, <1>3
    <3> QED BY <2>1, <3>1, DemoPlan DEF Ordered
  <2> HIDE DEF p
  <2> QED BY <1>1, <1>3, <2>2
<1> HIDE DEF p
<1>5. /\ Len(p) = 20 /\ DOMAIN p = 1..20
      /\ p[18] = u[1] /\ p[19] = u[2] /\ p[20] = u[3]
  <2>1. 8 + 9 + 1 = 18 /\ 8 + 9 + 2 = 19 /\ 8 + 9 + 3 = 20
    OBVIOUS
  <2> QED BY <1>4, <2>1
<1>6. \A i \in 1..20 : \/ i \in 1..8 \/ (i - 8 \in 1..9 /\ 8 + (i - 8) = i)
                       \/ i = 18 \/ i = 19 \/ i = 20
  OBVIOUS
<1>7. ASSUME NEW i \in 1..20
      PROVE  p[i].do # "demoFile" /\ (p[i].do = "passWindow" => i = 19)
  <2>1. CASE i \in 1..8
    BY <1>3, <1>4, <2>1 DEF Setup
  <2>2. CASE i - 8 \in 1..9 /\ 8 + (i - 8) = i
    <3>1. p[i] = Trade[i - 8]
      BY <1>4, <2>2
    <3>2. \A j \in 1..9 : Trade[j].do \notin {"demoFile", "passWindow"}
      BY TradePlan
    <3> QED BY <2>2, <3>1, <3>2
  <2>3. CASE i = 18 \/ i = 19 \/ i = 20
    BY <1>1, <1>5, <2>3
  <2> QED BY <1>6, <2>1, <2>2, <2>3
<1>8. PlanTrue("endToEnd", p)
  BY <1>1, <1>4, <1>5, <1>7 DEF PlanTrue
<1> QED BY <1>4, <1>8 DEF EndToEndPlan, p, s, u, c

LEMMA DeployPlanIsTrue == PlanTrue("deploy", DeployPlan) /\ Ordered(DeployPlan)
<1>1. /\ DeployPlan \in Seq(Steps) /\ Len(DeployPlan) = 3 /\ DOMAIN DeployPlan = 1..3
      /\ DeployPlan[1].do = "contracts" /\ DeployPlan[2].do = "factory"
      /\ DeployPlan[3].do = "deploymentFile"
  BY OnceIsAStep DEF DeployPlan
<1> QED BY <1>1 DEF PlanTrue, Ordered, After, OnRequest, OnItsVault

-----------------------------------------------------------------------------
(* The invariant.                                                          *)

Scripts == [name : {"deploy", "frontend", "endToEnd"}, plan : Seq(Steps),
            id : Ids \cup {Nothing}, vault : Vaults \cup {Nothing}]
Manifests == [id : Ids \cup {Nothing}, vault : Vaults \cup {Nothing}, node : Nat]

\* The vault is the delivery's own.
Named(id, v) ==
    /\ id \in Ids /\ v \in Vaults
    /\ InStage(id, "Assigned") /\ requests[id].vault = v /\ Deployed(v)
\* The package has left with the fee in.
HasLeft(v) == vault[v].funded /\ vault[v].state \notin {"Funded", "Refunded"}

\* What a script has done by what is left of it.
ScriptTrue(s) ==
    LET n == Len(s.plan)
    IN  /\ PlanTrue(s.name, s.plan)
        /\ s.id \in Ids \/ After(s.plan, "open", OnRequest)
        /\ s.vault \in Vaults \/ After(s.plan, "accept", OnItsVault)
        /\ s.name = "endToEnd" /\ n >= 2 => now = 1
        /\ s.name = "frontend" =>
             /\ n <= 3 => Named(s.id, s.vault)
             /\ n <= 2 => vault[s.vault].funded
             /\ n <= 1 => HasLeft(s.vault)

\* Of an earlier node nothing is said.
ManifestTrue(m) ==
    /\ m.node <= node.started
    /\ m.node = node.started => Named(m.id, m.vault) /\ HasLeft(m.vault)

\* Every seller's requests are counted.
Counted == sellerNonce \in [Sellers -> Nat]

DemoInv ==
    /\ MarketInv /\ ListsBounded /\ now \in 1..MaxTime /\ Counted
    /\ node \in [started : Nat, contracts : BOOLEAN]
    /\ files \in [deployment : BOOLEAN, manifest : Manifests \cup {Nothing}]
    /\ files.manifest # Nothing => ManifestTrue(files.manifest)
    /\ script # Nothing => script \in Scripts /\ ScriptTrue(script)

\* A plan that begins.
LEMMA Beginning ==
  ASSUME NEW name \in {"deploy", "frontend", "endToEnd"}, NEW plan,
         PlanTrue(name, plan), Ordered(plan), name = "frontend" => Len(plan) >= 4,
         name = "endToEnd" => now = 1,
         script = [name |-> name, plan |-> plan, id |-> Nothing, vault |-> Nothing]
  PROVE  script \in Scripts /\ ScriptTrue(script)
<1>1. script \in Scripts
  BY DEF Scripts, PlanTrue
<1>2. Len(plan) \in Nat
  BY DEF PlanTrue
<1> QED BY <1>1, <1>2 DEF ScriptTrue, Ordered

LEMMA NothingRun ==
  ASSUME DemoInit
  PROVE  DemoInv
<1>1. Init
  BY DEF DemoInit, Init
<1>2. MarketInv
  BY <1>1, InitMarket
<1>3. ListsBounded /\ now \in 1..MaxTime
  <2>1. \A id \in Ids : bids[id] = <<>>
    BY DEF DemoInit, RegistryInit
  <2>2. Len(<<>>) = 0 /\ MaxBids \in Nat /\ MaxTime \in Nat \ {0}
    BY RegistryConstants, ChainConstants
  <2> QED BY <2>1, <2>2 DEF ListsBounded, DemoInit
<1>4. /\ node \in [started : Nat, contracts : BOOLEAN]
      /\ files \in [deployment : BOOLEAN, manifest : Manifests \cup {Nothing}]
      /\ files.manifest = Nothing
  BY DEF DemoInit
<1>5. script # Nothing => script \in Scripts /\ ScriptTrue(script)
  BY EndToEndPlanIsTrue, Beginning DEF DemoInit
<1>6. Counted
  BY DEF DemoInit, RegistryInit, Counted
<1> QED BY <1>2, <1>3, <1>4, <1>5, <1>6 DEF DemoInv

-----------------------------------------------------------------------------
(* The scripts in the market.                                              *)

\* The next step of the script.
LEMMA NextStep ==
  ASSUME DemoInv, script # Nothing
  PROVE  LET s == Head(script.plan)
         IN  /\ s \in Steps /\ s = script.plan[1]
             /\ script.plan \in Seq(Steps) /\ Len(script.plan) >= 1
             /\ s.do \in {"admit", "stake", "bid"} => s.by \in 1..3
             /\ s.do \in OnRequest => script.id \in Ids
             /\ s.do \in OnItsVault => script.vault \in Vaults
<1>1. script.plan \in Seq(Steps) /\ Len(script.plan) >= 1
  BY DEF DemoInv, ScriptTrue, PlanTrue
<1>2. 1 \in DOMAIN script.plan /\ script.plan # <<>>
  BY <1>1
<1>3. Head(script.plan) = script.plan[1] /\ script.plan[1] \in Steps
  BY <1>1, <1>2
<1>4. script.id \in Ids \/ script.plan[1].do \notin OnRequest
  BY <1>1, FirstUse DEF DemoInv, ScriptTrue
<1>5. script.vault \in Vaults \/ script.plan[1].do \notin OnItsVault
  BY <1>1, FirstUse DEF DemoInv, ScriptTrue
<1> QED BY <1>1, <1>3, <1>4, <1>5 DEF Steps

LEMMA TheNumbers ==
  ASSUME DemoInv
  PROVE  /\ Seller \in Sellers /\ Stake \in Amounts
         /\ Numbers.policy \in Policies /\ Asked(Numbers, now) \in RequestTerms
         /\ \A i \in 1..3 : Couriers[i] \in Accounts /\ Offered(Numbers, i, now) \in BidTerms
<1>1. Numbers \in {EndToEnd, Frontend} /\ now \in 1..MaxTime
  BY DEF Numbers, DemoInv
<1>2. Seller \in Sellers
  BY DemoConstants DEF Seller
<1>3. \A i \in 1..3 : Couriers[i] \in Accounts
  <2>1. Couriers \in Seq(Accounts) /\ Len(Couriers) = 3
    BY DemoConstants
  <2>2. DOMAIN Couriers = 1..3
    BY <2>1
  <2>3. \A i \in DOMAIN Couriers : Couriers[i] \in Accounts
    BY <2>1
  <2> QED BY <2>2, <2>3
<1> QED BY <1>1, <1>2, <1>3, DemoConstants

\* A transaction is a step of the market; who is put up with takes none.
LEMMA TransactionIsAStep ==
  ASSUME DemoInv, script # Nothing,
         Transaction(Head(script.plan).do, Head(script.plan).by)
  PROVE  [Next]_vars
<1> DEFINE do == Head(script.plan).do
           i == Head(script.plan).by
<1>1. /\ do \in {"admit", "stake", "bid"} => i \in 1..3
      /\ do \in OnRequest => script.id \in Ids
      /\ do \in OnItsVault => script.vault \in Vaults
  BY NextStep
<1>2. Transaction(do, i)
  OBVIOUS
<1> HIDE DEF do, i
<1>3. CASE do = "factory" /\ SetFactory(Registry) /\ OthersUnchanged
  BY <1>3 DEF Membership, Next
<1>4. CASE do = "admit" /\ Admit(Couriers[i])
  BY <1>1, <1>4, TheNumbers DEF Admit, Membership, Next
<1>5. CASE do = "stake" /\ StakeUp(Couriers[i])
  BY <1>1, <1>5, TheNumbers DEF StakeUp, Membership, Next
<1>6. CASE do = "policy" /\ RegistryOnly(SetAgentPolicy(Seller, Numbers.policy))
  BY <1>6, TheNumbers DEF RegistryOnly, Asking, Next
<1>7. CASE do = "publish" /\ RegistryOnly(PublishHashes(script.id))
  BY <1>1, <1>7 DEF RegistryOnly, Asking, Next, OnRequest
<1>8. CASE do = "bid" /\ RegistryOnly(PlaceBid(script.id, Couriers[i], Offered(Numbers, i, now)))
  BY <1>1, <1>8, TheNumbers DEF RegistryOnly, Bidding, Next, OnRequest
<1>9. CASE \/ do = "fund" /\ VaultOnly(Fund(script.vault))
           \/ do = "pickup" /\ VaultOnly(PicksUp)
           \/ do = "confirm" /\ VaultOnly(ConfirmDelivery(script.vault))
  <2>1. script.vault \in Vaults
    BY <1>1, <1>9 DEF OnItsVault
  <2>2. Carrying(script.vault)
    BY <1>9 DEF VaultOnly, PicksUp, Carrying, QuietStep
  <2> QED BY <2>1, <2>2 DEF Next
<1>10. CASE /\ do = "finalize" /\ UNCHANGED <<now, registryVars>>
            /\ FinalizeDelivered(script.vault)
            /\ Release(script.vault, Courier(script.vault), Value(script.vault))
  <2>1. script.vault \in Vaults
    BY <1>1, <1>10 DEF OnItsVault
  <2>2. SettlingWell(script.vault)
    BY <1>10 DEF SettlingWell, ReleasingStep
  <2> QED BY <2>1, <2>2 DEF Next
<1> QED BY <1>2, <1>3, <1>4, <1>5, <1>6, <1>7, <1>8, <1>9, <1>10 DEF Transaction

\* Acceptance by the agent: the vault is the script's.
LEMMA AcceptingStep ==
  ASSUME DemoInv, script # Nothing, Head(script.plan).do = "accept",
         NEW v \in Vaults, GoOn([script EXCEPT !.vault = v]),
         NEW w \in DOMAIN bids[script.id], AgentAccepts(w)
  PROVE  /\ Len(script.plan) # 1 /\ script' = [script EXCEPT !.vault = v, !.plan = Tail(@)]
         /\ script' \in Scripts /\ script'.vault = v /\ script'.id = script.id
         /\ script'.name = script.name /\ script'.plan = Tail(script.plan)
         /\ script.id \in Ids /\ InStage(script.id, "Open") /\ Accept(script.id, w, v)
         /\ Next
<1>1. script \in Scripts /\ ScriptTrue(script) /\ script.plan \in Seq(Steps)
      /\ Len(script.plan) \in Nat /\ script.id \in Ids /\ script.plan[1].do = "accept"
  BY NextStep DEF DemoInv, OnRequest
<1>2. Len(script.plan) # 1
  BY <1>1 DEF ScriptTrue, PlanTrue
<1> DEFINE left == [script EXCEPT !.vault = v]
           rest == [left EXCEPT !.plan = Tail(@)]
<1>3. left \in Scripts /\ left.vault = v /\ left.plan = script.plan
      /\ left.id = script.id /\ left.name = script.name
  BY <1>1 DEF Scripts
<1>4. script' = rest /\ rest = [script EXCEPT !.vault = v, !.plan = Tail(@)]
  BY <1>1, <1>2, <1>3 DEF GoOn
<1> HIDE DEF left
<1>5. rest.vault = v /\ rest.id = script.id /\ rest.name = script.name
      /\ rest.plan = Tail(script.plan) /\ rest \in Scripts
  <2>1. Tail(left.plan) \in Seq(Steps) /\ Len(left.plan) >= 1
    BY <1>1, <1>2, <1>3, NextStep, TheRest
  <2> QED BY <1>3, <2>1 DEF Scripts
<1> HIDE DEF rest
<1>6. AcceptBidByAgent(script.id, w, v) /\ UNCHANGED now
  BY <1>4, <1>5 DEF AgentAccepts
<1>7. w \in 1..MaxBids
  <2>1. bids[script.id] \in Seq(BidRecords) /\ Len(bids[script.id]) <= MaxBids
    BY <1>1 DEF DemoInv, MarketInv, MarketTypes, ListsBounded
  <2> QED BY <2>1, RegistryConstants
<1>8. Next
  BY <1>1, <1>6, <1>7 DEF Accepting, Next
<1> QED BY <1>1, <1>2, <1>4, <1>5, <1>6, <1>8 DEF AcceptBidByAgent

-----------------------------------------------------------------------------
(* What a step leaves of the market and of its stories.                    *)

StoryGoesOn ==
    /\ \A id \in Ids : RequestGoesOn(requests[id], requests'[id])
    /\ \A v \in Vaults : VaultGoesOn(vault[v], vault'[v])

LEMMA NamedStays ==
  ASSUME StoryGoesOn, NEW id, NEW v, Named(id, v)
  PROVE  /\ Named(id, v)'
         /\ vault[v].funded => vault'[v].funded
         /\ HasLeft(v) => HasLeft(v)'
<1>1. /\ id \in Ids /\ v \in Vaults /\ requests[id] # NoRequest /\ vault[v] # NoVault
      /\ requests[id].stage = "Assigned" /\ requests[id].vault = v
  BY DEF Named, InStage, Opened, Deployed
<1>2. requests'[id] = requests[id]
  BY <1>1 DEF StoryGoesOn, RequestGoesOn
<1>3. VaultGoesOn(vault[v], vault'[v])
  BY <1>1 DEF StoryGoesOn
<1>4. Named(id, v)'
  BY <1>1, <1>2, <1>3 DEF VaultGoesOn, Named, InStage, Opened, Deployed
<1>5. vault[v].funded => vault'[v].funded
  BY <1>1, <1>3 DEF VaultGoesOn
<1>6. HasLeft(v) => HasLeft(v)'
  BY <1>1, <1>3 DEF VaultGoesOn, HasLeft
<1> QED BY <1>4, <1>5, <1>6

\* What the steps of the market come to.
MarketOn == MarketInv' /\ ListsBounded' /\ Counted' /\ now' \in 1..MaxTime

LEMMA InTheMarket ==
  ASSUME DemoInv, [Next]_vars
  PROVE  MarketOn /\ StoryGoesOn
<1>1. MarketInv /\ MarketTypes /\ ListsBounded /\ now \in 1..MaxTime
  BY DEF DemoInv, MarketInv
<1>2. now' \in 1..MaxTime
  <2>1. now \in Nat /\ MaxTime \in Nat
    BY <1>1, ChainConstants
  <2>2. UNCHANGED now \/ TimePasses
    BY DEF Next, Membership, OthersUnchanged, Asking, Bidding, Accepting,
       Carrying, SettlingWell, SettlingBadly, Clock, vars
  <2> QED BY <1>1, <2>1, <2>2 DEF TimePasses
<1>3. Counted'
  <2>1. Counted
    BY DEF DemoInv
  <2>2. \/ UNCHANGED sellerNonce
        \/ \E s \in Sellers : sellerNonce' = [sellerNonce EXCEPT ![s] = @ + 1]
    BY DEF Next, Membership, OthersUnchanged, Asking, Bidding, Accepting,
       Carrying, SettlingWell, SettlingBadly, Clock, vars, registryVars,
       OpenRequest, PublishHashes, CancelRequest, SetAgentPolicy, PlaceBid, WithdrawBid,
       AcceptBid, AcceptBidByAgent, Accept
  <2> QED BY <2>1, <2>2 DEF Counted
<1> QED BY <1>1, <1>2, <1>3, MarketStep, ListsStayBounded, MarketGoesOn DEF MarketOn, StoryGoesOn

\* The clock of the demo on its own node is set forward.
LEMMA WindowPasses ==
  ASSUME DemoInv, now = 1, now' = now + Asked(Numbers, now).disputeWindow + 1,
         UNCHANGED <<vault, registryVars>>, PoolUnchanged
  PROVE  MarketOn /\ StoryGoesOn
<1>1. now' = 3 /\ now' \in Nat \ {0}
  BY DEF Asked
<1>2. /\ UNCHANGED <<requests, bids, vault>> /\ UNCHANGED poolVars
  BY DEF registryVars, PoolUnchanged
<1>3. MarketInv /\ MarketTypes /\ PoolType /\ Solvent /\ MembersHoldAll /\ ListsBounded
  BY DEF DemoInv, MarketInv
<1>4. /\ UNCHANGED <<reserved, activeValue, registeredVaults>> /\ Members \subseteq Members'
      /\ PoolOp
  BY <1>2 DEF PoolOp, poolVars, claims, admin, Members
<1>5. /\ MarketTypes' /\ RequestsSound' /\ VaultsSound'
      /\ AssignedIsBacked' /\ DeployedIsAssigned' /\ Books'
  BY <1>1, <1>2, <1>3, <1>4, QuietKeeps DEF RequestMoves, MarketTypes
<1>6. PoolType' /\ Solvent' /\ MembersHoldAll'
  BY <1>3, <1>4, PoolTypeKept, SolventKept, MembersHoldAllKept
<1>7. ListsBounded' /\ now' \in 1..MaxTime
  BY <1>1, <1>2, <1>3, ChainConstants, DemoConstants DEF ListsBounded
<1>8. Counted'
  BY DEF DemoInv, Counted, registryVars
<1> QED BY <1>2, <1>5, <1>6, <1>7, <1>8, RequestStays, VaultStays
       DEF MarketOn, StoryGoesOn, MarketInv

\* A node that starts again has a market of its own.
IsNew ==
    /\ now \in Nat \ {0} /\ PoolInit /\ VaultInit /\ RegistryInit

LEMMA NewIsSound == IsNew => MarketInv /\ ListsBounded
<1> SUFFICES ASSUME IsNew PROVE MarketInv /\ ListsBounded
  OBVIOUS
<1>1. \A id \in Ids : ~Opened(id) /\ bids[id] = <<>>
  BY DEF IsNew, RegistryInit, Opened
<1>2. RequestsSound /\ \A id \in Ids : ~InStage(id, "Assigned")
  BY <1>1 DEF RequestsSound, RequestSound, BidsSound, InStage
<1>3. /\ requests \in [Ids -> RequestRecords \cup {NoRequest}]
      /\ bids \in [Ids -> Seq(BidRecords)]
  BY DEF IsNew, RegistryInit
<1>4. activeValue = 0 /\ \A a \in Accounts : reserved[a] = 0
  BY DEF IsNew, PoolInit
<1>5. MarketInv
  BY <1>2, <1>3, <1>4, PoolTypeStart, SolventStart, MembersHoldAllStart, FreshMarket DEF IsNew
<1>6. ListsBounded
  BY <1>1, RegistryConstants DEF ListsBounded
<1> QED BY <1>5, <1>6

LEMMA RestartedMarket ==
  ASSUME DemoInv, NewMarket, UNCHANGED now
  PROVE  MarketOn
<1>1. now \in Nat \ {0} /\ now' \in 1..MaxTime
  BY ChainConstants DEF DemoInv
<1>2. IsNew'
  BY <1>1 DEF IsNew, NewMarket, PoolInit, VaultInit, RegistryInit
<1>3. (MarketInv /\ ListsBounded)'
  BY <1>2, NewIsSound, PTL
<1>4. Counted'
  BY DEF NewMarket, Counted
<1> QED BY <1>1, <1>3, <1>4 DEF MarketOn

-----------------------------------------------------------------------------
(* The invariant goes on.                                                  *)

\* What the demo for the page does next, by what is left.
LEMMA FrontendNext ==
  ASSUME DemoInv, script # Nothing
  PROVE  LET n == Len(script.plan)
             do == Head(script.plan).do
         IN  /\ script.name = "frontend" =>
                  /\ n = 1 => do = "demoFile"
                  /\ n = 2 => do = "pickup"
                  /\ n = 3 => do = "fund"
                  /\ n = 4 => do = "accept"
                  /\ do \in {"open", "accept"} => n >= 4
             /\ do = "demoFile" => script.name = "frontend" /\ n = 1
             /\ do = "passWindow" => script.name = "endToEnd" /\ n = 2
             /\ n \in Nat
<1>1. /\ PlanTrue(script.name, script.plan)
      /\ Head(script.plan) = script.plan[1]
      /\ script.plan \in Seq(Steps) /\ Len(script.plan) >= 1
  BY NextStep DEF DemoInv, ScriptTrue
<1>2. Len(script.plan) \in Nat /\ 1 \in DOMAIN script.plan
  BY <1>1
<1> DEFINE plan == script.plan
           n == Len(plan)
<1>3. /\ plan[1].do = "demoFile" => script.name = "frontend" /\ 1 = n
      /\ plan[1].do = "passWindow" => script.name = "endToEnd" /\ 1 = n - 1
      /\ n \in Nat
  BY <1>1, <1>2 DEF PlanTrue
<1>4. ASSUME script.name = "frontend"
      PROVE  /\ plan[n].do = "demoFile"
             /\ n >= 2 => plan[n - 1].do = "pickup"
             /\ n >= 3 => plan[n - 2].do = "fund"
             /\ n >= 4 => plan[n - 3].do = "accept"
             /\ plan[1].do \in {"open", "accept"} => 1 <= n - 3
  BY <1>1, <1>2, <1>4 DEF PlanTrue, FrontendEnd
<1> HIDE DEF n
<1>5. (n = 2 => n - 1 = 1) /\ (n = 3 => n - 2 = 1) /\ (n = 4 => n - 3 = 1)
  OBVIOUS
<1>6. /\ 1 = n - 1 => n = 2
      /\ 1 <= n - 3 => n >= 4
  BY <1>3
<1>7. script.name = "frontend" =>
        /\ n = 1 => plan[1].do = "demoFile"
        /\ n = 2 => plan[1].do = "pickup"
        /\ n = 3 => plan[1].do = "fund"
        /\ n = 4 => plan[1].do = "accept"
        /\ plan[1].do \in {"open", "accept"} => n >= 4
  BY <1>4, <1>5, <1>6
<1> QED BY <1>1, <1>3, <1>6, <1>7 DEF n

LEMMA ScriptGoesOn ==
  ASSUME DemoInv, script # Nothing, NEW left \in Scripts, GoOn(left),
         left.plan = script.plan, left.name = script.name,
         left.id \in Ids \/ (left.id = script.id /\ Head(script.plan).do # "open"),
         left.vault \in Vaults \/ (left.vault = script.vault /\ Head(script.plan).do # "accept"),
         script.name = "endToEnd" /\ Len(script.plan) >= 3 => now' = 1,
         script.name = "frontend" =>
            /\ Len(script.plan) <= 4 => Named(left.id, left.vault)'
            /\ Len(script.plan) <= 3 => vault'[left.vault].funded
            /\ Len(script.plan) <= 2 => HasLeft(left.vault)'
  PROVE  (script # Nothing => script \in Scripts /\ ScriptTrue(script))'
<1> DEFINE plan == script.plan
           n == Len(plan)
           rest == [left EXCEPT !.plan = Tail(@)]
<1>1. CASE n = 1
  BY <1>1 DEF GoOn
<1>2. CASE n # 1
  <2>1. /\ plan \in Seq(Steps) /\ n >= 1 /\ PlanTrue(script.name, plan)
        /\ Head(plan) = plan[1]
        /\ script.id \in Ids \/ After(plan, "open", OnRequest)
        /\ script.vault \in Vaults \/ After(plan, "accept", OnItsVault)
    BY NextStep DEF DemoInv, ScriptTrue
  <2>2. Tail(plan) \in Seq(Steps) /\ Len(Tail(plan)) = n - 1 /\ n \in Nat
    BY <1>2, <2>1, TheRest
  <2>3. script' = rest
    BY <1>2 DEF GoOn
  <2>4. /\ rest.plan = Tail(plan) /\ rest.name = script.name /\ rest.id = left.id
        /\ rest.vault = left.vault /\ rest \in Scripts
    BY <2>2 DEF Scripts
  <2>5. PlanTrue(script.name, Tail(plan))
    BY <1>2, <2>1, PlanGoesOn
  <2>6. left.id \in Ids \/ After(Tail(plan), "open", OnRequest)
    BY <1>2, <2>1, AfterGoesOn
  <2>7. left.vault \in Vaults \/ After(Tail(plan), "accept", OnItsVault)
    BY <1>2, <2>1, AfterGoesOn
  <2>8. /\ n - 1 >= 2 => n >= 3
        /\ n - 1 <= 3 => n <= 4
        /\ n - 1 <= 2 => n <= 3
        /\ n - 1 <= 1 => n <= 2
    BY <2>2
  <2>9. /\ script' \in Scripts /\ script'.plan = Tail(plan) /\ script'.name = script.name
        /\ script'.id = left.id /\ script'.vault = left.vault
    BY <2>3, <2>4
  <2> HIDE DEF rest, plan
  <2>10. ScriptTrue(script)'
    BY <2>2, <2>5, <2>6, <2>7, <2>8, <2>9 DEF ScriptTrue, plan
  <2> QED BY <2>9, <2>10
<1> QED BY <1>1, <1>2

LEMMA ManifestStays ==
  ASSUME DemoInv, StoryGoesOn, UNCHANGED <<node, files>>
  PROVE  (files.manifest # Nothing => ManifestTrue(files.manifest))'
BY NamedStays DEF DemoInv, ManifestTrue

\* The last steps before the manifest, and what is true of them before and
\* after.
LEMMA StoriesOfScripts ==
  ASSUME DemoInv, script # Nothing, StoryGoesOn, script.name = "frontend",
         NEW id, NEW v, id = script.id, v = script.vault
  PROVE  /\ Len(script.plan) <= 3 => Named(id, v) /\ Named(id, v)'
         /\ Len(script.plan) <= 2 => vault'[v].funded
         /\ Len(script.plan) <= 1 => HasLeft(v)'
<1> DEFINE n == Len(script.plan)
<1>1. /\ n <= 3 => Named(id, v)
      /\ n <= 2 => vault[v].funded
      /\ n <= 1 => HasLeft(v)
  BY DEF DemoInv, ScriptTrue
<1>2. n \in Nat
  BY FrontendNext
<1> HIDE DEF n
<1>3. (n <= 1 => n <= 2) /\ (n <= 2 => n <= 3)
  BY <1>2
<1>4. ASSUME Named(id, v)
      PROVE  /\ Named(id, v)'
             /\ vault[v].funded => vault'[v].funded
             /\ HasLeft(v) => HasLeft(v)'
  BY <1>4, NamedStays
<1>5. /\ n <= 3 => Named(id, v) /\ Named(id, v)'
      /\ n <= 2 => vault'[v].funded
      /\ n <= 1 => HasLeft(v)'
  BY <1>1, <1>3, <1>4
<1> QED BY <1>5 DEF n

\* A step after which the script is as it was but for its plan.
LEMMA SameDeliveryGoesOn ==
  ASSUME DemoInv, script # Nothing, GoOn(script), StoryGoesOn,
         Head(script.plan).do \notin {"open", "accept"},
         script.name = "endToEnd" /\ Len(script.plan) >= 3 => now' = 1,
         NEW v, v = script.vault,
         script.name = "frontend" /\ Head(script.plan).do = "fund" => vault'[v].funded,
         script.name = "frontend" /\ Head(script.plan).do = "pickup" =>
            vault'[v].state \notin {"Funded", "Refunded"}
  PROVE  (script # Nothing => script \in Scripts /\ ScriptTrue(script))'
<1>1. PICK left \in Scripts : left = script
  BY DEF DemoInv
<1>2. GoOn(left) /\ left.plan = script.plan /\ left.name = script.name
      /\ left.id = script.id /\ left.vault = script.vault
  BY <1>1
<1> DEFINE n == Len(script.plan)
           do == Head(script.plan).do
<1>3. /\ script.name = "frontend" =>
            /\ n = 2 => do = "pickup"
            /\ n = 3 => do = "fund"
            /\ n = 4 => do = "accept"
      /\ n \in Nat
  BY FrontendNext
<1>4. script.name = "frontend" =>
         /\ n <= 3 => Named(left.id, left.vault)'
         /\ n <= 2 => vault'[left.vault].funded
         /\ n <= 1 => HasLeft(left.vault)'
  BY <1>2, StoriesOfScripts
<1>5. script.name = "frontend" /\ do = "fund" => vault'[left.vault].funded
  BY <1>2
<1>6. script.name = "frontend" /\ do = "pickup" =>
         vault'[left.vault].state \notin {"Funded", "Refunded"}
  BY <1>2
<1>7. do \notin {"open", "accept"}
  OBVIOUS
<1> HIDE DEF n, do
<1>8. /\ n <= 4 => n <= 3 \/ n = 4
      /\ n <= 3 => n <= 2 \/ n = 3
      /\ n <= 2 => n <= 1 \/ n = 2
      /\ n = 2 => n <= 2
  BY <1>3
<1>9. script.name = "frontend" =>
         /\ n <= 4 => Named(left.id, left.vault)'
         /\ n <= 3 => vault'[left.vault].funded
         /\ n <= 2 => HasLeft(left.vault)'
  BY <1>3, <1>4, <1>5, <1>6, <1>7, <1>8 DEF HasLeft
<1> QED BY <1>2, <1>7, <1>9, ScriptGoesOn DEF n, do

LEMMA AllGoesOn ==
  ASSUME MarketOn, (files.manifest # Nothing => ManifestTrue(files.manifest))',
         (script # Nothing => script \in Scripts /\ ScriptTrue(script))',
         node' \in [started : Nat, contracts : BOOLEAN],
         files' \in [deployment : BOOLEAN, manifest : Manifests \cup {Nothing}]
  PROVE  DemoInv'
BY DEF DemoInv, MarketOn

LEMMA TransactionGoesOn ==
  ASSUME DemoInv, script # Nothing,
         Transaction(Head(script.plan).do, Head(script.plan).by), GoOn(script),
         UNCHANGED <<node, files>>
  PROVE  DemoInv'
<1>1. MarketOn /\ StoryGoesOn
  BY TransactionIsAStep, InTheMarket
<1> DEFINE do == Head(script.plan).do
           i == Head(script.plan).by
<1>2. Transaction(do, i)
  OBVIOUS
<1>3. do \in OnItsVault => script.vault \in Vaults
  BY NextStep
<1> HIDE DEF do, i
<1>4. do \notin {"open", "accept"} /\ now' = now
  BY <1>2 DEF Transaction, Admit, StakeUp, RegistryOnly, VaultOnly, OthersUnchanged, vars
<1>5. PICK v : v = script.vault
  OBVIOUS
<1>6. vault \in [Vaults -> VaultRecords \cup {NoVault}]
  BY DEF DemoInv, MarketInv, MarketTypes, VaultTypes
<1>7. ASSUME do = "fund" PROVE vault'[v].funded
  <2>1. v \in Vaults /\ Fund(v)
    BY <1>2, <1>3, <1>5, <1>7 DEF Transaction, OnItsVault, VaultOnly
  <2>2. vault[v] \in VaultRecords
    BY <1>6, <2>1 DEF Fund, Deployed
  <2>3. vault'[v].funded
    BY <1>6, <2>1, <2>2 DEF Fund, VaultRecords
  <2> QED BY <2>3
<1>8. ASSUME do = "pickup" PROVE vault'[v].state \notin {"Funded", "Refunded"}
  <2>1. v \in Vaults /\ Pickup(v)
    BY <1>2, <1>3, <1>5, <1>8 DEF Transaction, OnItsVault, VaultOnly, PicksUp
  <2>2. vault[v] \in VaultRecords
    BY <1>6, <2>1 DEF Pickup, CanPickUp, Pending, Deployed
  <2>3. vault'[v].state = "PickedUp"
    BY <1>6, <2>1, <2>2 DEF Pickup, CanPickUp, VaultRecords
  <2> QED BY <2>3
<1>9. script.name = "endToEnd" /\ Len(script.plan) >= 3 => now' = 1
  <2>1. Len(script.plan) \in Nat
    BY FrontendNext
  <2>2. script.name = "endToEnd" /\ Len(script.plan) >= 2 => now = 1
    BY DEF DemoInv, ScriptTrue
  <2> QED BY <1>4, <2>1, <2>2
<1>10. (script # Nothing => script \in Scripts /\ ScriptTrue(script))'
  BY <1>1, <1>4, <1>5, <1>7, <1>8, <1>9, SameDeliveryGoesOn DEF do
<1> QED BY <1>1, <1>10, ManifestStays, AllGoesOn DEF DemoInv

\* The step that names the delivery.
LEMMA OpeningNames ==
  ASSUME DemoInv, script # Nothing, Head(script.plan).do = "open",
         RegistryOnly(OpenRequest(Seller, Asked(Numbers, now))),
         GoOn([script EXCEPT !.id = <<Seller, sellerNonce'[Seller]>>]),
         UNCHANGED <<node, files>>
  PROVE  DemoInv'
<1>1. [Next]_vars
  BY TheNumbers DEF RegistryOnly, Asking, Next
<1>2. MarketOn /\ StoryGoesOn
  BY <1>1, InTheMarket
<1> DEFINE id == <<Seller, sellerNonce'[Seller]>>
           named == [script EXCEPT !.id = id]
<1>3. id \in Ids
  <2>1. Seller \in Sellers /\ sellerNonce \in [Sellers -> Nat]
    BY TheNumbers DEF DemoInv, Counted
  <2>2. /\ sellerNonce[Seller] + 1 <= MaxRequests
        /\ sellerNonce' = [sellerNonce EXCEPT ![Seller] = sellerNonce[Seller] + 1]
    BY DEF RegistryOnly, OpenRequest
  <2>3. sellerNonce'[Seller] \in 1..MaxRequests
    BY <2>1, <2>2, RegistryConstants
  <2> QED BY <2>1, <2>3 DEF Ids
<1> HIDE DEF id
<1>4. named \in Scripts /\ named.id = id /\ named.plan = script.plan
      /\ named.name = script.name /\ named.vault = script.vault
  BY <1>3 DEF DemoInv, Scripts
<1>5. PICK left \in Scripts : left = named
  BY <1>4
<1>6. GoOn(left)
  BY <1>5 DEF id
<1> HIDE DEF named
<1>7. now' = now
  BY DEF RegistryOnly
<1> DEFINE n == Len(script.plan)
<1>8. /\ script.name = "endToEnd" /\ n >= 2 => now = 1
      /\ script.name = "frontend" => n >= 4 /\ n # 4
      /\ n \in Nat
  BY FrontendNext DEF DemoInv, ScriptTrue
<1> HIDE DEF n
<1>9. /\ script.name = "endToEnd" /\ n >= 3 => now' = 1
      /\ script.name = "frontend" => ~(n <= 4) /\ ~(n <= 3) /\ ~(n <= 2)
  BY <1>7, <1>8
<1>10. (script # Nothing => script \in Scripts /\ ScriptTrue(script))'
  BY <1>3, <1>4, <1>5, <1>6, <1>9, ScriptGoesOn DEF n
<1> QED BY <1>2, <1>10, ManifestStays, AllGoesOn DEF DemoInv

\* An accepted delivery has the vault that was made for it.
LEMMA AcceptedIsNamed ==
  ASSUME MarketInv, MarketOn, StoryGoesOn, NEW id \in Ids, NEW w, NEW v \in Vaults,
         InStage(id, "Open"), Accept(id, w, v)
  PROVE  Named(id, v)'
<1>1. requests'[id].vault = v
  BY AcceptedTerms DEF MarketInv
<1>2. Opened(id)'
  BY DEF StoryGoesOn, RequestGoesOn, InStage, Opened
<1>3. requests'[id].stage = "Assigned"
  <2>1. /\ requests' = [requests EXCEPT ![id] =
             [requests[id] EXCEPT !.stage = "Assigned", !.acceptedBid = w, !.vault = v]]
    BY DEF Accept, Assign
  <2>2. requests \in [Ids -> RequestRecords \cup {NoRequest}] /\ requests[id] # NoRequest
    BY DEF MarketInv, MarketTypes, InStage, Opened
  <2>3. requests[id] \in RequestRecords
    BY <2>2
  <2> QED BY <2>1, <2>2, <2>3 DEF RequestRecords
<1>4. PICK i : i = requests'[id].acceptedBid
  OBVIOUS
<1>5. Assigned(id, i, v)'
  BY <1>1, <1>2, <1>3, <1>4 DEF Assigned, InStage
<1>6. AssignedIsBacked'
  BY DEF MarketOn, MarketInv
<1>7. Deployed(v)'
  BY <1>5, <1>6 DEF AssignedIsBacked, Backed
<1> QED BY <1>1, <1>2, <1>3, <1>7 DEF Named, InStage

\* The step that names the vault.
LEMMA AcceptingNames ==
  ASSUME DemoInv, script # Nothing, Head(script.plan).do = "accept",
         \E v \in Vaults : GoOn([script EXCEPT !.vault = v]),
         \E w \in DOMAIN bids[script.id] : AgentAccepts(w),
         UNCHANGED <<node, files>>
  PROVE  DemoInv'
<1>1. PICK v \in Vaults : GoOn([script EXCEPT !.vault = v])
  OBVIOUS
<1>2. PICK w \in DOMAIN bids[script.id] : AgentAccepts(w)
  OBVIOUS
<1>3. /\ script.id \in Ids /\ InStage(script.id, "Open") /\ Accept(script.id, w, v)
      /\ Next
  BY <1>1, <1>2, AcceptingStep
<1>4. MarketOn /\ StoryGoesOn
  BY <1>3, InTheMarket
<1>5. PICK id \in Ids : id = script.id
  BY <1>3
<1>6. Named(id, v)'
  BY <1>3, <1>4, <1>5, AcceptedIsNamed DEF DemoInv
<1> DEFINE named == [script EXCEPT !.vault = v]
<1>7. named \in Scripts /\ named.vault = v /\ named.plan = script.plan
      /\ named.name = script.name /\ named.id = script.id
  BY DEF DemoInv, Scripts
<1>8. PICK left \in Scripts : left = named
  BY <1>7
<1>9. GoOn(left)
  BY <1>1, <1>8
<1> HIDE DEF named
<1>10. now' = now
  BY <1>2 DEF AgentAccepts
<1> DEFINE n == Len(script.plan)
<1>11. /\ script.name = "endToEnd" /\ n >= 2 => now = 1
       /\ script.name = "frontend" => n >= 4
       /\ n \in Nat
  BY FrontendNext DEF DemoInv, ScriptTrue
<1> HIDE DEF n
<1>12. /\ script.name = "endToEnd" /\ n >= 3 => now' = 1
       /\ script.name = "frontend" => ~(n <= 3) /\ ~(n <= 2)
  BY <1>10, <1>11
<1>13. left.id = id /\ left.vault = v /\ Named(left.id, left.vault)'
  BY <1>5, <1>6, <1>7, <1>8
<1>14. (script # Nothing => script \in Scripts /\ ScriptTrue(script))'
  BY <1>5, <1>7, <1>8, <1>9, <1>12, <1>13, ScriptGoesOn DEF n
<1> QED BY <1>4, <1>14, ManifestStays, AllGoesOn DEF DemoInv

\* The steps that are no transactions, but for the last one of the demo for
\* the page.
LEMMA NodeStep ==
  ASSUME DemoInv, script # Nothing, GoOn(script),
         \/ /\ Head(script.plan).do = "contracts"
            /\ node' = [node EXCEPT !.contracts = TRUE] /\ UNCHANGED <<vars, files>>
         \/ /\ Head(script.plan).do = "deploymentFile"
            /\ files' = [files EXCEPT !.deployment = TRUE] /\ UNCHANGED <<vars, node>>
  PROVE  DemoInv'
<1>1. MarketOn /\ StoryGoesOn
  BY InTheMarket
<1>2. now' = now
  BY DEF vars
<1>3. PICK v : v = script.vault
  OBVIOUS
<1>4. script.name = "endToEnd" /\ Len(script.plan) >= 3 => now' = 1
  <2>1. Len(script.plan) \in Nat
    BY FrontendNext
  <2>2. script.name = "endToEnd" /\ Len(script.plan) >= 2 => now = 1
    BY DEF DemoInv, ScriptTrue
  <2> QED BY <1>2, <2>1, <2>2
<1>5. (script # Nothing => script \in Scripts /\ ScriptTrue(script))'
  BY <1>1, <1>3, <1>4, SameDeliveryGoesOn
<1> DEFINE yes == TRUE
<1>6. yes \in BOOLEAN
  OBVIOUS
<1>7. \/ node' = [node EXCEPT !.contracts = yes] /\ files' = files
      \/ files' = [files EXCEPT !.deployment = yes] /\ node' = node
  OBVIOUS
<1> HIDE DEF yes
<1>8. /\ node \in [started : Nat, contracts : BOOLEAN]
      /\ files \in [deployment : BOOLEAN, manifest : Manifests \cup {Nothing}]
      /\ files.manifest # Nothing => ManifestTrue(files.manifest)
  BY DEF DemoInv
<1>9. /\ node' \in [started : Nat, contracts : BOOLEAN] /\ node'.started = node.started
      /\ files' \in [deployment : BOOLEAN, manifest : Manifests \cup {Nothing}]
      /\ files'.manifest = files.manifest
  BY <1>6, <1>7, <1>8
<1>10. (files.manifest # Nothing => ManifestTrue(files.manifest))'
  BY <1>1, <1>8, <1>9, NamedStays DEF ManifestTrue
<1> QED BY <1>1, <1>5, <1>9, <1>10, AllGoesOn

\* The demo on its own node sets the clock forward.
LEMMA WindowStep ==
  ASSUME DemoInv, script # Nothing, GoOn(script), Head(script.plan).do = "passWindow",
         now' = now + Asked(Numbers, now).disputeWindow + 1,
         UNCHANGED <<vault, registryVars, node, files>>, PoolUnchanged
  PROVE  DemoInv'
<1> DEFINE n == Len(script.plan)
<1>1. script.name = "endToEnd" /\ n = 2
  BY FrontendNext
<1>2. script.name = "endToEnd" /\ n >= 2 => now = 1
  BY DEF DemoInv, ScriptTrue
<1> HIDE DEF n
<1>3. now = 1 /\ ~(n >= 3) /\ script.name # "frontend"
  BY <1>1, <1>2
<1>4. MarketOn /\ StoryGoesOn
  BY <1>3, WindowPasses
<1>5. PICK v : v = script.vault
  OBVIOUS
<1>6. (script # Nothing => script \in Scripts /\ ScriptTrue(script))'
  BY <1>3, <1>4, <1>5, SameDeliveryGoesOn DEF n
<1> QED BY <1>4, <1>6, ManifestStays, AllGoesOn DEF DemoInv

\* frontend-demo.json is written at the end of the demo for the page.
LEMMA FileStep ==
  ASSUME DemoInv, script # Nothing, GoOn(script), Head(script.plan).do = "demoFile",
         files' = [files EXCEPT !.manifest = Manifest], UNCHANGED <<vars, node>>
  PROVE  DemoInv'
<1>1. MarketOn /\ StoryGoesOn
  BY InTheMarket
<1>2. script.name = "frontend" /\ Len(script.plan) = 1
  BY FrontendNext
<1>3. script' = Nothing
  BY <1>2 DEF GoOn
<1>4. PICK id, v : id = script.id /\ v = script.vault
  OBVIOUS
<1>5. Named(id, v)' /\ HasLeft(v)'
  BY <1>1, <1>2, <1>4, StoriesOfScripts
<1>6. /\ script \in Scripts /\ node \in [started : Nat, contracts : BOOLEAN]
      /\ files \in [deployment : BOOLEAN, manifest : Manifests \cup {Nothing}]
  BY DEF DemoInv
<1>7. Manifest \in Manifests /\ Manifest = [id |-> id, vault |-> v, node |-> node.started]
  BY <1>4, <1>6 DEF Manifest, Manifests, Scripts
<1>8. /\ files' \in [deployment : BOOLEAN, manifest : Manifests \cup {Nothing}]
      /\ files'.manifest = [id |-> id, vault |-> v, node |-> node.started]
  BY <1>6, <1>7
<1>9. /\ files'.manifest.id = id /\ files'.manifest.vault = v
      /\ files'.manifest.node = node'.started /\ node' = node
  BY <1>8
<1>10. ManifestTrue(files.manifest)'
  BY <1>5, <1>6, <1>9 DEF ManifestTrue
<1> QED BY <1>1, <1>3, <1>6, <1>8, <1>9, <1>10, AllGoesOn

LEMMA StepGoesOn ==
  ASSUME DemoInv, Step
  PROVE  DemoInv'
<1> DEFINE do == Head(script.plan).do
           by == Head(script.plan).by
<1>1. CASE Transaction(do, by) /\ GoOn(script) /\ UNCHANGED <<node, files>>
  BY <1>1, TransactionGoesOn DEF Step
<1>2. CASE /\ do = "contracts" /\ GoOn(script)
           /\ node' = [node EXCEPT !.contracts = TRUE]
           /\ UNCHANGED <<vars, files>>
  BY <1>2, NodeStep DEF Step
<1>3. CASE /\ do = "open"
           /\ RegistryOnly(OpenRequest(Seller, Asked(Numbers, now)))
           /\ GoOn([script EXCEPT !.id = <<Seller, sellerNonce'[Seller]>>])
           /\ UNCHANGED <<node, files>>
  BY <1>3, OpeningNames DEF Step
<1>4. CASE /\ do = "accept"
           /\ \E v \in Vaults : GoOn([script EXCEPT !.vault = v])
           /\ \E w \in DOMAIN bids[script.id] : AgentAccepts(w)
           /\ UNCHANGED <<node, files>>
  BY <1>4, AcceptingNames DEF Step
<1>5. CASE /\ do = "passWindow" /\ GoOn(script)
           /\ now' = now + Asked(Numbers, now).disputeWindow + 1
           /\ UNCHANGED <<vault, registryVars, node, files>> /\ PoolUnchanged
  BY <1>5, WindowStep DEF Step
<1>6. CASE /\ do = "deploymentFile" /\ GoOn(script)
           /\ files' = [files EXCEPT !.deployment = TRUE]
           /\ UNCHANGED <<vars, node>>
  BY <1>6, NodeStep DEF Step
<1>7. CASE /\ do = "demoFile" /\ GoOn(script)
           /\ files' = [files EXCEPT !.manifest = Manifest]
           /\ UNCHANGED <<vars, node>>
  BY <1>7, FileStep DEF Step
<1> QED BY <1>1, <1>2, <1>3, <1>4, <1>5, <1>6, <1>7 DEF Step

LEMMA BeginningGoesOn ==
  ASSUME DemoInv, NEW name \in {"deploy", "frontend"}, NEW plan,
         PlanTrue(name, plan), Ordered(plan), name = "frontend" => Len(plan) >= 4,
         Starts(name, plan)
  PROVE  DemoInv'
<1>1. MarketOn /\ StoryGoesOn
  BY InTheMarket DEF Starts
<1>2. plan \in Seq(Steps) /\ Len(plan) \in Nat
  BY DEF PlanTrue
<1> DEFINE begun == [name |-> name, plan |-> plan, id |-> Nothing, vault |-> Nothing]
<1>3. begun \in Scripts /\ begun.name = name /\ begun.plan = plan
  BY <1>2 DEF Scripts
<1>4. script' = begun
  BY DEF Starts
<1> HIDE DEF begun
<1>5. script' \in Scripts /\ script'.name = name /\ script'.plan = plan
  BY <1>3, <1>4
<1>6. After(plan, "open", OnRequest) /\ After(plan, "accept", OnItsVault)
  BY DEF Ordered
<1> DEFINE n == Len(plan)
<1>7. /\ name = "frontend" => ~(n <= 3) /\ ~(n <= 2) /\ ~(n <= 1)
      /\ name # "endToEnd"
  <2>1. n \in Nat /\ (name = "frontend" => n >= 4) /\ name \in {"deploy", "frontend"}
    BY <1>2
  <2> HIDE DEF n
  <2> QED BY <2>1
<1>8. ScriptTrue(script)'
  BY <1>5, <1>6, <1>7 DEF ScriptTrue
<1>9. UNCHANGED <<node, files>>
  BY DEF Starts
<1> QED BY <1>1, <1>5, <1>8, <1>9, ManifestStays, AllGoesOn DEF DemoInv

LEMMA StartGoesOn ==
  ASSUME DemoInv, Deploy \/ DemoAgain
  PROVE  DemoInv'
<1>1. Starts("deploy", DeployPlan) \/ Starts("frontend", FrontendPlan)
  BY DEF Deploy, DemoAgain
<1>2. Len(FrontendPlan) >= 4
  BY FrontendPlanIsTrue
<1> QED BY <1>1, <1>2, DeployPlanIsTrue, FrontendPlanIsTrue, BeginningGoesOn

LEMMA EndGoesOn ==
  ASSUME DemoInv, Ends
  PROVE  DemoInv'
<1>1. script' = Nothing /\ UNCHANGED <<vars, node, files>>
  BY DEF Ends
<1>2. MarketOn /\ StoryGoesOn
  BY <1>1, InTheMarket
<1> QED BY <1>1, <1>2, ManifestStays, AllGoesOn DEF DemoInv

\* Of the manifest of an earlier node nothing is claimed any more.
LEMMA RestartGoesOn ==
  ASSUME DemoInv, NodeRestarts
  PROVE  DemoInv'
<1>1. /\ NewMarket /\ UNCHANGED now /\ script' = Nothing /\ files' = files
      /\ node' = [started |-> node.started + 1, contracts |-> FALSE]
  BY DEF NodeRestarts
<1>2. MarketOn
  BY <1>1, RestartedMarket
<1>3. /\ node \in [started : Nat, contracts : BOOLEAN]
      /\ files \in [deployment : BOOLEAN, manifest : Manifests \cup {Nothing}]
      /\ files.manifest # Nothing => ManifestTrue(files.manifest)
  BY DEF DemoInv
<1>4. node.started \in Nat
  BY <1>3
<1>5. node' \in [started : Nat, contracts : BOOLEAN] /\ node'.started = node.started + 1
  BY <1>1, <1>4
<1>6. files.manifest # Nothing => files.manifest.node \in Nat
  BY <1>3 DEF Manifests
<1>7. (files.manifest # Nothing => ManifestTrue(files.manifest))'
  <2> SUFFICES ASSUME files.manifest # Nothing PROVE ManifestTrue(files.manifest)'
    BY <1>1
  <2>1. files.manifest.node <= node.started /\ files.manifest.node \in Nat
    BY <1>3, <1>6 DEF ManifestTrue
  <2>2. files.manifest.node <= node.started + 1 /\ files.manifest.node # node.started + 1
    BY <1>4, <2>1
  <2>3. files'.manifest.node <= node'.started /\ files'.manifest.node # node'.started
    BY <1>1, <1>5, <2>2
  <2> QED BY <2>3 DEF ManifestTrue
<1> QED BY <1>1, <1>2, <1>3, <1>5, <1>7, AllGoesOn

\* What the others do, and the clock.
LEMMA OthersGoOn ==
  ASSUME DemoInv, Elsewhere \/ UNCHANGED demoVars
  PROVE  DemoInv'
<1>1. UNCHANGED <<script, node, files>> /\ [Next]_vars
  BY DEF Elsewhere, Next, demoVars
<1>2. MarketOn /\ StoryGoesOn
  BY <1>1, InTheMarket
<1>3. script # Nothing /\ script.name = "endToEnd" => now' = now
  BY DEF Elsewhere, Interruptible, Runs, demoVars, vars
<1>4. (script # Nothing => script \in Scripts /\ ScriptTrue(script))'
  <2> SUFFICES ASSUME script # Nothing PROVE script \in Scripts /\ ScriptTrue(script)'
    BY <1>1 DEF DemoInv
  <2>1. PICK id, v : id = script.id /\ v = script.vault
    OBVIOUS
  <2>2. script.name = "frontend" =>
          /\ Len(script.plan) <= 3 => Named(id, v)'
          /\ Len(script.plan) <= 2 => vault'[v].funded
          /\ Len(script.plan) <= 1 => HasLeft(v)'
    BY <1>2, <2>1, StoriesOfScripts
  <2>3. script' = script /\ script \in Scripts /\ ScriptTrue(script)
    BY <1>1 DEF DemoInv
  <2>4. script.name = "frontend" =>
          /\ Len(script.plan) <= 3 => Named(script.id, script.vault)'
          /\ Len(script.plan) <= 2 => vault'[script.vault].funded
          /\ Len(script.plan) <= 1 => HasLeft(script.vault)'
    BY <2>1, <2>2, <2>3
  <2> QED BY <1>3, <2>3, <2>4 DEF ScriptTrue
<1> QED BY <1>1, <1>2, <1>4, ManifestStays, AllGoesOn DEF DemoInv

\* Whatever is run, interrupted or restarted, a script has done what the rest
\* of its plan relies on, and what frontend-demo.json names is there: the
\* scripts of deploy.js, frontend-demo.js and demo-end-to-end.js.
THEOREM TheScriptsAreSound == DemoSpec => []DemoInv
<1>1. DemoInv /\ [DemoNext]_demoVars => DemoInv'
  BY StepGoesOn, StartGoesOn, EndGoesOn, RestartGoesOn, OthersGoOn DEF DemoNext
<1> QED BY NothingRun, <1>1, PTL DEF DemoSpec

\* The manifest keeps its promise to the page, on the node it was written for.
THEOREM TheManifestIsTrue == DemoSpec => []ManifestIsTrue
<1>1. DemoInv => ManifestIsTrue
  BY DEF DemoInv, ManifestTrue, Named, HasLeft, ManifestIsTrue
<1> QED BY <1>1, TheScriptsAreSound, PTL

-----------------------------------------------------------------------------
(* The demo for the page is run again.                                     *)

\* Delivery ids are handed out in order: nothing is at one to come.
HandedOut ==
    \A s \in Sellers, n \in 1..MaxRequests :
        n > sellerNonce[s] => requests[<<s, n>>] = NoRequest /\ bids[<<s, n>>] = <<>>

\* The delivery of a run that has done k of its steps, and is the clock's.
OwnDelivery(id, k) ==
    /\ id \in Ids /\ id[1] = Seller /\ InStage(id, "Open")
    /\ requests[id].asked = Asked(Frontend, now)
    /\ requests[id].hashed <=> k >= 9
    /\ k >= 10 => bids[id] # <<>>
    /\ \A w \in DOMAIN bids[id] :
         /\ ~bids[id][w].withdrawn
         /\ \E i \in 1..3 : bids[id][w].offered = Offered(Frontend, i, now)

\* What is left of a run is the rest of the plan, and what it has done lasts.
RunTrue(s) ==
    LET n == Len(s.plan)
        k == 16 - n
    IN  /\ n \in 1..16
        /\ \A j \in 1..n : s.plan[j] = FrontendPlan[k + j]
        /\ \A i \in 1..3 : 2 * i - 1 <= k => Couriers[i] \in Members
        /\ k >= 7 => agentPolicies[Seller] = Frontend.policy
        /\ k \in 8..12 => OwnDelivery(s.id, k)
        /\ k >= 13 => s.vault \in Vaults

RunInv ==
    /\ DemoInv /\ HandedOut
    /\ factory \in {NoFactory, Registry} /\ DOMAIN agentPolicies = Sellers
    /\ Runs("frontend") => RunTrue(script)

\* How far a run has come, and what is next.
LEMMA RunSoFar ==
  ASSUME RunInv, Runs("frontend")
  PROVE  LET k == 16 - Len(script.plan)
             s == Head(script.plan)
         IN  /\ script # Nothing /\ script.name = "frontend" /\ RunTrue(script)
             /\ k \in 0..15 /\ Len(script.plan) = 16 - k
             /\ \/ s.do = "admit" /\ s.by \in 1..3 /\ k = 2 * s.by - 2
                \/ s.do = "stake" /\ s.by \in 1..3 /\ k = 2 * s.by - 1
                \/ s.do = "policy" /\ k = 6
                \/ s.do = "open" /\ k = 7
                \/ s.do = "publish" /\ k = 8
                \/ s.do = "bid" /\ s.by \in 1..3 /\ k = 8 + s.by
                \/ s.do = "accept" /\ k = 12
                \/ s.do \in {"fund", "pickup", "demoFile"} /\ k \in 13..15
<1>1. DemoInv /\ script # Nothing /\ script.name = "frontend" /\ RunTrue(script)
  BY DEF RunInv, Runs
<1> DEFINE n == Len(script.plan)
           k == 16 - n
<1>2. n \in 1..16 /\ \A j \in 1..n : script.plan[j] = FrontendPlan[k + j]
  BY <1>1 DEF RunTrue
<1>3. Head(script.plan) = script.plan[1]
  BY <1>1, NextStep
<1> HIDE DEF n
<1>4. k \in 0..15 /\ n = 16 - k /\ 1 \in 1..n
  BY <1>2
<1>5. Head(script.plan) = FrontendPlan[k + 1]
  BY <1>2, <1>3, <1>4
<1> QED BY ZenonT(30), <1>1, <1>4, <1>5, StepsOfFrontend DEF n

-----------------------------------------------------------------------------
(* The ids.                                                                *)

LEMMA OneIdMoves ==
  ASSUME DemoInv, HandedOut, UNCHANGED sellerNonce,
         NEW key \in Ids, Opened(key),
         \A id \in Ids \ {key} : requests'[id] = requests[id] /\ bids'[id] = bids[id]
  PROVE  HandedOut'
<1> SUFFICES ASSUME NEW s \in Sellers, NEW n \in 1..MaxRequests, n > sellerNonce'[s]
             PROVE  requests'[<<s, n>>] = NoRequest /\ bids'[<<s, n>>] = <<>>
  BY DEF HandedOut
<1>1. requests[<<s, n>>] = NoRequest /\ bids[<<s, n>>] = <<>>
  BY DEF HandedOut
<1>2. <<s, n>> \in Ids \ {key}
  BY <1>1 DEF Ids, Opened
<1> QED BY <1>1, <1>2

LEMMA NewIdOpens ==
  ASSUME DemoInv, HandedOut, NEW s \in Sellers, NEW r, OpenRequest(s, r)
  PROVE  HandedOut'
<1> DEFINE n == sellerNonce[s] + 1
<1>1. /\ n <= MaxRequests /\ UNCHANGED bids
      /\ sellerNonce' = [sellerNonce EXCEPT ![s] = n]
      /\ requests' = [requests EXCEPT ![<<s, n>>] =
           [asked |-> r, hashed |-> FALSE, stage |-> "Open",
            acceptedBid |-> 0, vault |-> NoVault]]
  BY DEF OpenRequest
<1>2. sellerNonce \in [Sellers -> Nat] /\ MaxRequests \in Nat
  BY RegistryConstants DEF DemoInv, Counted
<1> SUFFICES ASSUME NEW t \in Sellers, NEW m \in 1..MaxRequests, m > sellerNonce'[t]
             PROVE  requests'[<<t, m>>] = NoRequest /\ bids'[<<t, m>>] = <<>>
  BY DEF HandedOut
<1>3. m > sellerNonce[t] /\ (t = s => m # n)
  <2>1. CASE t = s
    <3>1. sellerNonce'[s] = n /\ n = sellerNonce[s] + 1 /\ sellerNonce[s] \in Nat
      BY <1>1, <1>2
    <3> HIDE DEF n
    <3> QED BY <2>1, <3>1
  <2>2. CASE t # s
    BY <1>1, <1>2, <2>2
  <2> QED BY <2>1, <2>2
<1>4. requests[<<t, m>>] = NoRequest /\ bids[<<t, m>>] = <<>>
  BY <1>3 DEF HandedOut
<1>5. <<t, m>> # <<s, n>>
  BY <1>3
<1> HIDE DEF n
<1>6. requests'[<<t, m>>] = requests[<<t, m>>]
  <2>1. <<t, m>> \in Ids /\ requests \in [Ids -> RequestRecords \cup {NoRequest}]
    BY DEF DemoInv, MarketInv, MarketTypes, Ids
  <2> QED BY <1>1, <1>5, <2>1
<1> QED BY <1>1, <1>4, <1>6

\* What every step keeps but for the node's restart.
Lasting ==
    /\ HandedOut' /\ Members \subseteq Members'
    /\ factory' \in {NoFactory, Registry} /\ DOMAIN agentPolicies' = Sellers

LEMMA RegistryStill ==
  ASSUME RunInv, UNCHANGED registryVars,
         \/ UNCHANGED memberList
         \/ \E a \in Accounts : memberList' = Append(memberList, a),
         factory' \in {factory, Registry}
  PROVE  Lasting
<1>1. HandedOut' /\ DOMAIN agentPolicies' = Sellers /\ factory' \in {NoFactory, Registry}
  BY DEF RunInv, HandedOut, registryVars
<1>2. Members \subseteq Members'
  <2>1. CASE UNCHANGED memberList
    BY <2>1 DEF Members
  <2>2. ASSUME NEW a \in Accounts, memberList' = Append(memberList, a)
        PROVE  Members \subseteq Members'
    <3>1. memberList \in Seq(Accounts)
      BY DEF RunInv, DemoInv, MarketInv, PoolType
    <3>2. /\ Append(memberList, a) \in Seq(Accounts)
          /\ \A i \in DOMAIN memberList : /\ i \in DOMAIN Append(memberList, a)
                                         /\ Append(memberList, a)[i] = memberList[i]
      BY <3>1
    <3> QED BY <2>2, <3>2 DEF Members, Range
  <2> QED BY <2>1, <2>2
<1> QED BY <1>1, <1>2 DEF Lasting

LEMMA PoolStill ==
  ASSUME RunInv, HandedOut', UNCHANGED memberList, factory' = factory,
         DOMAIN agentPolicies' = DOMAIN agentPolicies
  PROVE  Lasting
BY DEF RunInv, Lasting, Members

LEMMA TransactionsLast ==
  ASSUME RunInv, script # Nothing,
         Transaction(Head(script.plan).do, Head(script.plan).by)
  PROVE  Lasting
<1> DEFINE do == Head(script.plan).do
           i == Head(script.plan).by
<1>1. /\ do \in {"admit", "stake", "bid"} => i \in 1..3
      /\ do \in OnRequest => script.id \in Ids
      /\ requests \in [Ids -> RequestRecords \cup {NoRequest}]
      /\ bids \in [Ids -> Seq(BidRecords)]
      /\ DemoInv /\ HandedOut
  BY NextStep DEF RunInv, DemoInv, MarketInv, MarketTypes
<1>2. Transaction(do, i)
  OBVIOUS
<1> HIDE DEF do, i
<1>3. CASE do = "factory" /\ SetFactory(Registry) /\ OthersUnchanged
  BY <1>3, RegistryStill DEF SetFactory, OthersUnchanged
<1>4. CASE do = "admit" /\ Admit(Couriers[i])
  <2>1. Couriers[i] \in Accounts
    BY <1>1, <1>4, TheNumbers
  <2>2. CASE UNCHANGED vars
    BY <2>2, RegistryStill DEF vars, poolVars, admin
  <2>3. CASE AdmitMember(Couriers[i]) /\ OthersUnchanged
    BY <2>1, <2>3, RegistryStill DEF AdmitMember, OthersUnchanged
  <2> QED BY <1>4, <2>2, <2>3 DEF Admit
<1>5. CASE do = "stake" /\ StakeUp(Couriers[i])
  <2>1. CASE UNCHANGED vars
    BY <2>1, RegistryStill DEF vars, poolVars, admin
  <2>2. CASE DepositStake(Couriers[i], Stake) /\ OthersUnchanged
    BY <2>2, RegistryStill DEF DepositStake, OthersUnchanged, admin
  <2> QED BY <1>5, <2>1, <2>2 DEF StakeUp
<1>6. CASE do = "policy" /\ RegistryOnly(SetAgentPolicy(Seller, Numbers.policy))
  <2>1. HandedOut'
    BY <1>1, <1>6 DEF RegistryOnly, SetAgentPolicy, HandedOut
  <2> QED BY <1>6, <2>1, PoolStill DEF RegistryOnly, SetAgentPolicy, PoolUnchanged, poolVars, admin
<1>7. CASE do = "publish" /\ RegistryOnly(PublishHashes(script.id))
  <2>1. script.id \in Ids /\ Opened(script.id)
    BY <1>1, <1>7 DEF OnRequest, RegistryOnly, PublishHashes, InStage
  <2>2. HandedOut'
    BY <1>1, <1>7, <2>1, OneIdMoves DEF RegistryOnly, PublishHashes
  <2> QED BY <1>7, <2>2, PoolStill DEF RegistryOnly, PublishHashes, PoolUnchanged, poolVars, admin
<1>8. CASE do = "bid" /\ RegistryOnly(PlaceBid(script.id, Couriers[i], Offered(Numbers, i, now)))
  <2>1. script.id \in Ids /\ Opened(script.id)
    BY <1>1, <1>8 DEF OnRequest, RegistryOnly, PlaceBid, Biddable, InStage
  <2>2. HandedOut'
    BY <1>1, <1>8, <2>1, OneIdMoves DEF RegistryOnly, PlaceBid
  <2> QED BY <1>8, <2>2, PoolStill DEF RegistryOnly, PlaceBid, PoolUnchanged, poolVars, admin
<1>9. CASE \/ do = "fund" /\ VaultOnly(Fund(script.vault))
           \/ do = "pickup" /\ VaultOnly(PicksUp)
           \/ do = "confirm" /\ VaultOnly(ConfirmDelivery(script.vault))
  BY <1>9, RegistryStill DEF VaultOnly, PoolUnchanged, poolVars, admin
<1>10. CASE /\ do = "finalize" /\ UNCHANGED <<now, registryVars>>
            /\ FinalizeDelivered(script.vault)
            /\ Release(script.vault, Courier(script.vault), Value(script.vault))
  BY <1>10, RegistryStill DEF Release, admin
<1> QED BY <1>2, <1>3, <1>4, <1>5, <1>6, <1>7, <1>8, <1>9, <1>10 DEF Transaction

LEMMA StepsLast ==
  ASSUME RunInv, \/ Step \/ Deploy \/ DemoAgain \/ Ends \/ Elsewhere \/ UNCHANGED demoVars
  PROVE  Lasting
<1>1. CASE UNCHANGED vars
  BY <1>1, RegistryStill DEF vars, poolVars, admin
<1>2. CASE Deploy \/ DemoAgain \/ Ends \/ UNCHANGED demoVars
  BY <1>1, <1>2 DEF Deploy, DemoAgain, Starts, Ends, demoVars
<1>3. CASE Elsewhere
  <2>1. CASE \E v \in Vaults : Carrying(v) \/ SettlingWell(v) \/ SettlingBadly(v)
    BY <2>1, RegistryStill DEF Carrying, SettlingWell, SettlingBadly, PoolUnchanged, Release, Slash,
       poolVars, admin
  <2>2. CASE Clock
    BY <2>2, RegistryStill DEF Clock, PoolUnchanged, poolVars, admin
  <2> QED BY <1>3, <2>1, <2>2 DEF Elsewhere
<1>4. CASE Step
  <2> DEFINE do == Head(script.plan).do
             by == Head(script.plan).by
  <2>1. CASE Transaction(do, by)
    BY <1>4, <2>1, TransactionsLast DEF Step
  <2>2. CASE RegistryOnly(OpenRequest(Seller, Asked(Numbers, now)))
    <3>1. HandedOut'
      BY <2>2, TheNumbers, NewIdOpens DEF RunInv, RegistryOnly
    <3> QED BY <2>2, <3>1, PoolStill
         DEF RegistryOnly, OpenRequest, PoolUnchanged, poolVars, admin
  <2>3. CASE /\ do = "accept"
             /\ \E v \in Vaults : GoOn([script EXCEPT !.vault = v])
             /\ \E w \in DOMAIN bids[script.id] : AgentAccepts(w)
    <3>1. PICK v \in Vaults, w \in DOMAIN bids[script.id] :
             GoOn([script EXCEPT !.vault = v]) /\ AgentAccepts(w)
      BY <2>3
    <3>2. script.id \in Ids /\ InStage(script.id, "Open") /\ Accept(script.id, w, v)
      BY <1>4, <2>3, <3>1, AcceptingStep DEF Step, RunInv
    <3>3. requests \in [Ids -> RequestRecords \cup {NoRequest}]
      BY DEF RunInv, DemoInv, MarketInv, MarketTypes
    <3>4. HandedOut'
      BY <3>2, <3>3, OneIdMoves DEF RunInv, Accept, Assign, InStage
    <3> QED BY <3>2, <3>4, PoolStill DEF Accept, RegisterAndReserve
  <2>4. CASE UNCHANGED <<vault, registryVars, node, files>> /\ PoolUnchanged
    BY <2>4, RegistryStill DEF PoolUnchanged, poolVars, admin
  <2> QED BY <1>1, <1>4, <2>1, <2>2, <2>3, <2>4 DEF Step
<1> QED BY <1>2, <1>3, <1>4

\* The run that a step leaves behind.
LEMMA RunMoves ==
  ASSUME RunInv, Runs("frontend"), NEW k \in 0..14, Len(script.plan) = 16 - k,
         NEW id, NEW v, script'.plan = Tail(script.plan), script'.id = id, script'.vault = v,
         \A i \in 1..3 : 2 * i - 1 <= k + 1 => Couriers[i] \in Members',
         k + 1 >= 7 => agentPolicies'[Seller] = Frontend.policy,
         k + 1 \in 8..12 => OwnDelivery(id, k + 1)',
         k + 1 >= 13 => v \in Vaults
  PROVE  RunTrue(script)'
<1>1. /\ script # Nothing /\ script.plan \in Seq(Steps) /\ Len(script.plan) >= 1
      /\ \A j \in 1..Len(script.plan) :
           script.plan[j] = FrontendPlan[(16 - Len(script.plan)) + j]
  BY NextStep DEF RunInv, Runs, RunTrue
<1>2. Len(script.plan) # 1 /\ 16 - Len(script.plan) = k /\ Len(script.plan) - 1 = 15 - k
  OBVIOUS
<1>3. /\ Len(Tail(script.plan)) = 15 - k
      /\ \A i \in 1..(15 - k) : i + 1 \in 1..(16 - k) /\ Tail(script.plan)[i] = script.plan[i + 1]
  BY <1>1, <1>2, TheRest
<1>4. \A i \in 1..(15 - k) : Tail(script.plan)[i] = FrontendPlan[(k + 1) + i]
  <2> TAKE i \in 1..(15 - k)
  <2>1. script.plan[i + 1] = FrontendPlan[k + (i + 1)]
    BY <1>1, <1>2, <1>3
  <2>2. k + (i + 1) = (k + 1) + i
    OBVIOUS
  <2> QED BY <1>3, <2>1, <2>2
<1>5. /\ Len(script'.plan) = 15 - k /\ 15 - k \in 1..16 /\ 16 - (15 - k) = k + 1
      /\ \A i \in 1..(15 - k) : script'.plan[i] = FrontendPlan[(k + 1) + i]
  BY <1>3, <1>4
<1> QED BY <1>5 DEF RunTrue

\* Its delivery when the registry and the clock stand still.
LEMMA OwnStays ==
  ASSUME NEW id, NEW k, OwnDelivery(id, k), requests' = requests, bids' = bids, now' = now
  PROVE  OwnDelivery(id, k)'
BY DEF OwnDelivery, InStage, Opened

\* ... and when it comes to be, is published and is bid for.
LEMMA OwnOpens ==
  ASSUME RunInv, Runs("frontend"),
         RegistryOnly(OpenRequest(Seller, Asked(Numbers, now)))
  PROVE  \E id \in Ids : id = <<Seller, sellerNonce'[Seller]>> /\ OwnDelivery(id, 8)'
<1>1. Numbers = Frontend
  BY DEF Numbers, Runs
<1>2. /\ Seller \in Sellers /\ sellerNonce \in [Sellers -> Nat] /\ MaxRequests \in Nat
      /\ requests \in [Ids -> RequestRecords \cup {NoRequest}]
      /\ DemoInv /\ HandedOut
  BY TheNumbers, RegistryConstants DEF RunInv, DemoInv, Counted, MarketInv, MarketTypes
<1> DEFINE n == sellerNonce[Seller] + 1
           r == [asked |-> Asked(Frontend, now), hashed |-> FALSE, stage |-> "Open",
                 acceptedBid |-> 0, vault |-> NoVault]
<1>3. /\ n <= MaxRequests /\ UNCHANGED <<bids, now>>
      /\ requests' = [requests EXCEPT ![<<Seller, n>>] = r]
  BY <1>1 DEF RegistryOnly, OpenRequest
<1>4. n \in 1..MaxRequests /\ n > sellerNonce[Seller]
  BY <1>2, <1>3
<1>5. bids[<<Seller, n>>] = <<>>
  BY <1>2, <1>4 DEF HandedOut
<1>6. PICK id \in Ids : id = <<Seller, n>>
  BY <1>2, <1>4 DEF Ids
<1> HIDE DEF n
<1>7. requests'[id] = r /\ bids'[id] = <<>> /\ id[1] = Seller
  BY <1>2, <1>3, <1>5, <1>6
<1>8. r # NoRequest
  <2>1. r \in RequestRecords
    BY <1>1, <1>2, TheNumbers DEF RequestRecords
  <2> QED BY <2>1, MarketConstants
<1>9. /\ requests'[id] # NoRequest /\ requests'[id].stage = "Open"
      /\ requests'[id].asked = Asked(Frontend, now) /\ requests'[id].hashed = FALSE
      /\ DOMAIN bids'[id] = {}
  BY <1>7, <1>8
<1>10. OwnDelivery(id, 8)'
  BY <1>3, <1>7, <1>9 DEF OwnDelivery, InStage, Opened, Asked
<1>11. sellerNonce'[Seller] = n
  BY <1>2 DEF RegistryOnly, OpenRequest, n
<1> QED BY <1>6, <1>10, <1>11

LEMMA OwnPublished ==
  ASSUME RunInv, NEW id \in Ids, OwnDelivery(id, 8), RegistryOnly(PublishHashes(id))
  PROVE  OwnDelivery(id, 9)'
<1>1. /\ requests' = [requests EXCEPT ![id].hashed = TRUE] /\ UNCHANGED <<bids, now>>
  BY DEF RegistryOnly, PublishHashes
<1>2. /\ requests \in [Ids -> RequestRecords \cup {NoRequest}]
      /\ requests[id] # NoRequest
  BY DEF RunInv, DemoInv, MarketInv, MarketTypes, OwnDelivery, InStage, Opened
<1>3. requests[id] \in RequestRecords
  BY <1>2
<1>4. /\ requests'[id] \in RequestRecords /\ requests'[id].hashed = TRUE
      /\ requests'[id].stage = requests[id].stage /\ requests'[id].asked = requests[id].asked
  BY <1>1, <1>2, <1>3 DEF RequestRecords
<1>5. requests'[id] # NoRequest
  BY <1>4, MarketConstants
<1> QED BY <1>1, <1>4, <1>5 DEF OwnDelivery, InStage, Opened

LEMMA OwnBidFor ==
  ASSUME RunInv, Runs("frontend"), NEW id \in Ids, NEW k \in 9..11, NEW i \in 1..3,
         OwnDelivery(id, k),
         RegistryOnly(PlaceBid(id, Couriers[i], Offered(Numbers, i, now)))
  PROVE  OwnDelivery(id, k + 1)'
<1>1. Numbers = Frontend
  BY DEF Numbers, Runs
<1> DEFINE b == [courier |-> Couriers[i], offered |-> Offered(Frontend, i, now),
                 withdrawn |-> FALSE]
<1>2. bids' = [bids EXCEPT ![id] = Append(@, b)] /\ UNCHANGED <<requests, now>>
  BY <1>1 DEF RegistryOnly, PlaceBid
<1>3. bids \in [Ids -> Seq(BidRecords)]
  BY DEF RunInv, DemoInv, MarketInv, MarketTypes
<1>4. b.offered = Offered(Frontend, i, now) /\ b.withdrawn = FALSE
  OBVIOUS
<1> HIDE DEF b
<1>5. PICK l : l = bids[id]
  OBVIOUS
<1>6. l \in Seq(BidRecords) /\ bids'[id] = Append(l, b)
  BY <1>2, <1>3, <1>5
<1>7. /\ Append(l, b) # <<>>
      /\ \A w \in DOMAIN Append(l, b) :
           (w \in DOMAIN l /\ Append(l, b)[w] = l[w]) \/ Append(l, b)[w] = b
  BY <1>6
<1>8. \A w \in DOMAIN l :
        /\ ~l[w].withdrawn
        /\ \E j \in 1..3 : l[w].offered = Offered(Frontend, j, now)
  BY <1>5 DEF OwnDelivery
<1>9. \A w \in DOMAIN bids'[id] :
        /\ ~bids'[id][w].withdrawn
        /\ \E j \in 1..3 : bids'[id][w].offered = Offered(Frontend, j, now')
  BY <1>2, <1>4, <1>6, <1>7, <1>8
<1>10. requests[id].hashed /\ k + 1 >= 9 /\ bids'[id] # <<>>
  BY <1>6, <1>7 DEF OwnDelivery
<1> QED BY <1>2, <1>9, <1>10 DEF OwnDelivery, InStage, Opened

LEMMA Left ==
  ASSUME NEW left \in Scripts, Len(left.plan) # 1, GoOn(left)
  PROVE  script'.plan = Tail(left.plan) /\ script'.id = left.id /\ script'.vault = left.vault
BY DEF GoOn, Scripts

\* What a run's step does beyond the delivery: the courier it admits and the
\* policy it sets.
LEMMA AdmitsAndSets ==
  ASSUME RunInv, Runs("frontend"), Step, NEW k \in 0..15, Len(script.plan) = 16 - k
  PROVE  /\ \A i \in 1..3 : 2 * i - 1 <= k + 1 => Couriers[i] \in Members'
         /\ k + 1 >= 7 => agentPolicies'[Seller] = Frontend.policy
<1> DEFINE do == Head(script.plan).do
           by == Head(script.plan).by
<1>1. /\ RunTrue(script) /\ Members \subseteq Members' /\ 16 - Len(script.plan) = k
      /\ \/ do = "admit" /\ by \in 1..3 /\ k = 2 * by - 2
         \/ do = "stake" /\ by \in 1..3 /\ k = 2 * by - 1
         \/ do = "policy" /\ k = 6
         \/ do = "open" /\ k = 7
         \/ do = "publish" /\ k = 8
         \/ do = "bid" /\ by \in 1..3 /\ k = 8 + by
         \/ do = "accept" /\ k = 12
         \/ do \in {"fund", "pickup", "demoFile"} /\ k \in 13..15
  BY RunSoFar, StepsLast DEF Lasting
<1>2. /\ \A i \in 1..3 : 2 * i - 1 <= k => Couriers[i] \in Members
      /\ k >= 7 => agentPolicies[Seller] = Frontend.policy
  BY <1>1 DEF RunTrue
<1>3. do = "admit" => Couriers[by] \in Members'
  <2> SUFFICES ASSUME do = "admit" PROVE Couriers[by] \in Members'
    OBVIOUS
  <2>1. Admit(Couriers[by])
    BY DEF Step, Transaction
  <2>2. PICK c : c = Couriers[by]
    OBVIOUS
  <2>3. c \in Accounts
    BY <1>1, <2>2, TheNumbers DEF RunInv
  <2>4. CASE c \in Members
    BY <1>1, <2>2, <2>4
  <2>5. CASE memberList' = Append(memberList, c)
    <3>1. memberList \in Seq(Accounts)
      BY DEF RunInv, DemoInv, MarketInv, PoolType
    <3>2. /\ Len(memberList) + 1 \in DOMAIN memberList'
          /\ memberList'[Len(memberList) + 1] = c
      BY <2>3, <2>5, <3>1
    <3> QED BY <2>2, <3>2 DEF Members, Range
  <2> QED BY <2>1, <2>2, <2>4, <2>5 DEF Admit, Known, AdmitMember
<1>4. do = "policy" => agentPolicies'[Seller] = Frontend.policy
  <2> SUFFICES ASSUME do = "policy" PROVE agentPolicies'[Seller] = Frontend.policy
    OBVIOUS
  <2>1. SetAgentPolicy(Seller, Frontend.policy)
    BY DEF Step, Transaction, RegistryOnly, Numbers, Runs
  <2>2. DOMAIN agentPolicies = Sellers /\ Seller \in Sellers
    BY TheNumbers DEF RunInv
  <2> QED BY <2>1, <2>2 DEF SetAgentPolicy
<1>5. do # "policy" => agentPolicies' = agentPolicies
  <2> SUFFICES ASSUME do # "policy" PROVE agentPolicies' = agentPolicies
    OBVIOUS
  <2>1. CASE Transaction(do, by)
    BY <2>1 DEF Transaction, Admit, StakeUp, OthersUnchanged, RegistryOnly, VaultOnly,
       PublishHashes, PlaceBid, vars, registryVars
  <2>2. CASE RegistryOnly(OpenRequest(Seller, Asked(Numbers, now)))
    BY <2>2 DEF RegistryOnly, OpenRequest
  <2>3. CASE \E w \in DOMAIN bids[script.id] : AgentAccepts(w)
    BY <2>3 DEF AgentAccepts, AcceptBidByAgent, Accept
  <2>4. CASE UNCHANGED vars \/ UNCHANGED <<vault, registryVars, node, files>>
    BY <2>4 DEF vars, registryVars
  <2> QED BY <2>1, <2>2, <2>3, <2>4 DEF Step
<1> HIDE DEF do, by
<1>6. ASSUME NEW i \in 1..3, 2 * i - 1 <= k + 1 PROVE Couriers[i] \in Members'
  <2>1. CASE 2 * i - 1 <= k
    BY <1>1, <1>2, <2>1
  <2>2. CASE k = 2 * i - 2
    <3>1. do = "admit" /\ by = i
      BY <1>1, <2>2
    <3> QED BY <1>3, <3>1
  <2> QED BY <1>6, <2>1, <2>2
<1>7. k + 1 >= 7 => k >= 7 \/ do = "policy"
  BY <1>1
<1>8. k >= 7 => do # "policy"
  BY <1>1
<1> QED BY <1>2, <1>4, <1>5, <1>6, <1>7, <1>8

\* A run goes on by its own step,
LEMMA RunStep ==
  ASSUME RunInv, Runs("frontend"), Step
  PROVE  (Runs("frontend") => RunTrue(script))'
<1> DEFINE do == Head(script.plan).do
           by == Head(script.plan).by
<1>1. PICK k \in 0..15 : Len(script.plan) = 16 - k
  BY RunSoFar
<1>2. 16 - Len(script.plan) = k /\ Len(script.plan) - 1 = 15 - k
  BY <1>1
<1>3. /\ RunTrue(script) /\ script \in Scripts /\ script # Nothing
      /\ \/ do = "admit" /\ by \in 1..3 /\ k = 2 * by - 2
         \/ do = "stake" /\ by \in 1..3 /\ k = 2 * by - 1
         \/ do = "policy" /\ k = 6
         \/ do = "open" /\ k = 7
         \/ do = "publish" /\ k = 8
         \/ do = "bid" /\ by \in 1..3 /\ k = 8 + by
         \/ do = "accept" /\ k = 12
         \/ do \in {"fund", "pickup", "demoFile"} /\ k \in 13..15
  BY <1>2, RunSoFar DEF RunInv, DemoInv
<1>4. PICK id, v : id = script.id /\ v = script.vault
  OBVIOUS
<1>5. /\ k \in 8..12 => OwnDelivery(id, k)
      /\ k >= 13 => v \in Vaults
  BY <1>2, <1>3, <1>4 DEF RunTrue
<1>6. CASE k = 15
  <2>1. Len(script.plan) = 1
    BY <1>1, <1>6
  <2>2. do \notin {"open", "accept"}
    BY <1>3, <1>6
  <2>3. GoOn(script)
    BY <2>2 DEF Step
  <2> QED BY <2>1, <2>3 DEF GoOn, Runs
<1>7. ASSUME k # 15, NEW left \in Scripts, GoOn(left), left.plan = script.plan,
             NEW i, NEW u, left.id = i, left.vault = u,
             k + 1 \in 8..12 => OwnDelivery(i, k + 1)',
             k + 1 >= 13 => u \in Vaults
      PROVE  RunTrue(script)'
  <2>1. k \in 0..14 /\ Len(left.plan) # 1
    <3>1. k \in 0..14 /\ 16 - k # 1
      BY <1>7
    <3> QED BY <1>1, <1>7, <3>1
  <2>2. script'.plan = Tail(script.plan) /\ script'.id = i /\ script'.vault = u
    BY <1>7, <2>1, Left
  <2> QED BY <1>1, <1>7, <2>1, <2>2, AdmitsAndSets, RunMoves
<1>8. CASE do = "open"
  <2>1. k = 7 /\ k # 15 /\ k + 1 = 8 /\ ~(k + 1 >= 13)
    BY <1>3, <1>8
  <2>2. /\ RegistryOnly(OpenRequest(Seller, Asked(Numbers, now)))
        /\ GoOn([script EXCEPT !.id = <<Seller, sellerNonce'[Seller]>>])
    BY <1>8 DEF Step, Transaction
  <2>3. PICK i \in Ids : i = <<Seller, sellerNonce'[Seller]>> /\ OwnDelivery(i, 8)'
    BY <2>2, OwnOpens
  <2> DEFINE named == [script EXCEPT !.id = i]
  <2>4. named \in Scripts /\ named.plan = script.plan /\ named.id = i /\ named.vault = v
    BY <1>3, <1>4 DEF Scripts
  <2>5. PICK left \in Scripts : left = named
    BY <2>4
  <2>6. GoOn(left)
    BY <2>2, <2>3, <2>5
  <2> HIDE DEF named
  <2> QED BY <1>7, <2>1, <2>3, <2>4, <2>5, <2>6
<1>9. CASE do = "accept"
  <2>1. k = 12 /\ k # 15 /\ ~(k + 1 \in 8..12)
    BY <1>3, <1>9
  <2>2. PICK u \in Vaults : GoOn([script EXCEPT !.vault = u])
    BY <1>9 DEF Step, Transaction
  <2> DEFINE named == [script EXCEPT !.vault = u]
  <2>3. named \in Scripts /\ named.plan = script.plan /\ named.id = id /\ named.vault = u
    BY <1>3, <1>4 DEF Scripts
  <2>4. PICK left \in Scripts : left = named
    BY <2>3
  <2>5. GoOn(left)
    BY <2>2, <2>4
  <2> HIDE DEF named
  <2> QED BY <1>7, <2>1, <2>2, <2>3, <2>4, <2>5
<1>10. CASE k # 15 /\ do \notin {"open", "accept"}
  <2>1. GoOn(script)
    BY <1>10 DEF Step
  <2>2. k + 1 >= 13 => v \in Vaults
    <3>1. k + 1 >= 13 => k >= 13
      BY <1>3, <1>10
    <3> QED BY <1>5, <3>1
  <2>3. ASSUME k + 1 \in 8..12 PROVE OwnDelivery(id, k + 1)'
    <3>1. k \in 8..11
      BY <1>3, <1>10, <2>3
    <3>2. OwnDelivery(id, k) /\ id \in Ids
      BY <1>5, <3>1 DEF OwnDelivery
    <3>3. CASE do = "publish"
      <4>1. k = 8
        BY <1>3, <3>3
      <4>2. RegistryOnly(PublishHashes(id))
        BY <1>4, <3>3 DEF Step, Transaction
      <4> QED BY <3>2, <4>1, <4>2, OwnPublished
    <3>4. CASE do = "bid"
      <4>1. by \in 1..3 /\ k \in 9..11
        BY <1>3, <3>4
      <4>2. PICK j \in 1..3 : j = by
        BY <4>1
      <4>3. RegistryOnly(PlaceBid(id, Couriers[j], Offered(Numbers, j, now)))
        BY <1>4, <3>4, <4>2 DEF Step, Transaction
      <4> QED BY <3>2, <4>1, <4>3, OwnBidFor
    <3>5. do = "publish" \/ do = "bid"
      BY <1>3, <1>10, <3>1
    <3> QED BY <3>3, <3>4, <3>5
  <2> QED BY <1>3, <1>4, <1>7, <1>10, <2>1, <2>2, <2>3
<1>11. CASE k # 15
  BY <1>8, <1>9, <1>10, <1>11
<1> QED BY <1>6, <1>11

\* ... begins with everything to do,
LEMMA RunStarts ==
  ASSUME RunInv, DemoAgain
  PROVE  RunTrue(script)'
<1>1. script'.plan = FrontendPlan
  BY DEF DemoAgain, Starts
<1>2. Len(FrontendPlan) = 16
  BY FrontendPlanIsTrue
<1>3. /\ Len(script'.plan) = 16 /\ 16 \in 1..16 /\ 16 - 16 = 0
      /\ \A j \in 1..16 : script'.plan[j] = FrontendPlan[0 + j]
  BY <1>1, <1>2
<1>4. \A i \in 1..3 : ~(2 * i - 1 <= 0)
  OBVIOUS
<1> QED BY <1>3, <1>4 DEF RunTrue

\* ... and loses nothing to what the others do meanwhile.
LEMMA RunRests ==
  ASSUME RunInv, Runs("frontend"), Elsewhere \/ UNCHANGED demoVars
  PROVE  RunTrue(script)'
<1>1. /\ script' = script /\ UNCHANGED registryVars /\ now' = now
      /\ Members \subseteq Members'
  <2>1. UNCHANGED registryVars /\ now' = now /\ script' = script
    BY DEF Elsewhere, Carrying, SettlingWell, SettlingBadly, Runs, demoVars, vars
  <2> QED BY <2>1, StepsLast DEF Lasting
<1>2. requests' = requests /\ bids' = bids /\ agentPolicies' = agentPolicies
  BY <1>1 DEF registryVars
<1>3. PICK id, k : id = script.id /\ k = 16 - Len(script.plan)
  OBVIOUS
<1>4. OwnDelivery(id, k) => OwnDelivery(id, k)'
  BY <1>1, <1>2, OwnStays
<1> QED BY <1>1, <1>2, <1>3, <1>4 DEF RunInv, RunTrue

LEMMA NameStays ==
  ASSUME RunInv, Step
  PROVE  script' = Nothing \/ script'.name = script.name
<1>1. script \in Scripts
  BY DEF RunInv, DemoInv, Step
<1>2. ASSUME NEW left, left = script \/ (\E id : left = [script EXCEPT !.id = id])
                       \/ (\E v : left = [script EXCEPT !.vault = v]),
             GoOn(left)
      PROVE  script' = Nothing \/ script'.name = script.name
  <2>1. script = [name |-> script.name, plan |-> script.plan, id |-> script.id,
                  vault |-> script.vault]
    BY <1>1 DEF Scripts
  <2>2. [left EXCEPT !.plan = Tail(@)].name = script.name
    <3>1. "name" \in DOMAIN left /\ left.name = script.name
      BY <1>2, <2>1
    <3> QED BY <3>1
  <2> QED BY <1>2, <2>2 DEF GoOn
<1> QED BY <1>2 DEF Step

LEMMA RunGoesOn ==
  ASSUME RunInv, [DemoNext]_demoVars
  PROVE  RunInv'
<1>1. DemoInv /\ DemoInv'
  BY StepGoesOn, StartGoesOn, EndGoesOn, RestartGoesOn, OthersGoOn DEF DemoNext, RunInv
<1>2. CASE NodeRestarts
  <2>1. NewMarket /\ script' = Nothing
    BY <1>2 DEF NodeRestarts
  <2>2. HandedOut'
    BY <2>1 DEF NewMarket, HandedOut, Ids
  <2> QED BY <1>1, <2>1, <2>2 DEF NewMarket, RunInv, Runs
<1>3. CASE Step \/ Deploy \/ DemoAgain \/ Ends \/ Elsewhere \/ UNCHANGED demoVars
  <2>1. Lasting
    BY <1>3, StepsLast
  <2>2. CASE Step /\ Runs("frontend")
    BY <1>1, <2>1, <2>2, RunStep DEF RunInv, Lasting
  <2>3. CASE Step /\ ~Runs("frontend")
    BY <1>1, <2>1, <2>3, NameStays DEF RunInv, Lasting, Runs, Step
  <2>4. CASE Deploy \/ Ends
    <3>1. ~Runs("frontend")'
      BY <2>4 DEF Deploy, Starts, Ends, Runs
    <3> QED BY <1>1, <2>1, <3>1 DEF RunInv, Lasting
  <2>5. CASE DemoAgain
    BY <1>1, <2>1, <2>5, RunStarts DEF RunInv, Lasting
  <2>6. CASE Elsewhere \/ UNCHANGED demoVars
    <3>1. script' = script
      BY <2>6 DEF Elsewhere, demoVars
    <3> QED BY <1>1, <2>1, <2>6, <3>1, RunRests DEF RunInv, Lasting, Runs
  <2> QED BY <1>3, <2>2, <2>3, <2>4, <2>5, <2>6
<1> QED BY <1>2, <1>3 DEF DemoNext

LEMMA NoRun ==
  ASSUME DemoInit
  PROVE  RunInv
<1>1. DemoInv
  BY NothingRun
<1>2. HandedOut /\ factory = NoFactory /\ DOMAIN agentPolicies = Sellers
  BY DEF DemoInit, RegistryInit, PoolInit, HandedOut, Ids
<1>3. ~Runs("frontend")
  BY DEF DemoInit, Runs
<1> QED BY <1>1, <1>2, <1>3 DEF RunInv

\* However often frontend-demo.js is run and wherever it was interrupted, a
\* run under way has its couriers admitted, its policy set and its delivery as
\* it left it: scripts/frontend-demo.js step by step.
THEOREM TheRunsAreSound == DemoSpec => []RunInv
BY NoRun, RunGoesOn, PTL DEF DemoSpec

\* What is free can be reserved, and is a number.
LEMMA FreeIsReservable ==
  ASSUME PoolType, NEW c \in Accounts
  PROVE  FreeCapacityFor(c) \in Nat /\ (FreeCapacityFor(c) >= 1 => Reservable(c, 1))
<1> DEFINE cap == MemberCap(contribution[c])
<1>1. reserved[c] \in Nat /\ contribution[c] \in Nat /\ totalStake \in Nat /\ activeValue \in Nat
  BY DEF PoolType
<1>2. cap \in Nat
  <2>1. contribution[c] * MemberCapBps \in Nat
    <3>1. MemberCapBps \in Nat /\ \A x, y \in Nat : x * y \in Nat
      BY PoolConstants
    <3> QED BY <1>1, <3>1
  <2>2. \A x \in Nat : x \div 10000 \in Nat
    OBVIOUS
  <2> QED BY <2>1, <2>2 DEF MemberCap
<1>3. FreeCapacityFor(c) = IF c \notin Members THEN 0
        ELSE Least(Excess(cap, reserved[c]), Excess(totalStake, activeValue))
  BY DEF FreeCapacityFor
<1>4. Reservable(c, 1) <=> /\ c \in Members
                           /\ activeValue + 1 <= totalStake
                           /\ reserved[c] + 1 <= cap
  BY DEF Reservable
<1> HIDE DEF cap
<1> QED BY <1>1, <1>2, <1>3, <1>4 DEF Least, Excess

\* The numbers of the demo for the page.
LEMMA FrontendNumbers ==
  ASSUME now \in 1..MaxTime, NEW i \in 1..3
  PROVE  LET b == Offered(Frontend, i, now)
             r == Asked(Frontend, now)
             p == Frontend.policy
         IN  /\ b.price \in 1..20 /\ b.promisedTime \in (now + 4)..(now + 6)
             /\ r.declaredValue = 1 /\ r.maxPrice = 20
             /\ r.maxDeadline = now + 24 /\ r.bidDeadline = now + 1
             /\ p.enabled /\ p.maxPrice = 20 /\ p.minDeadlineBuffer = 1
             /\ p.coSignThreshold = 2
             /\ now \in Nat
<1>1. now \in Nat
  BY ChainConstants
<1>2. /\ Frontend.prices = <<12, 15, 18>> /\ Frontend.promises = <<6, 4, 5>>
      /\ Frontend.maxPrice = 20 /\ Frontend.maxDeadline = 24 /\ Frontend.bidDeadline = 1
      /\ Frontend.policy = [enabled |-> TRUE, maxPrice |-> 20, minDeadlineBuffer |-> 1,
                            coSignThreshold |-> 2]
  BY DEF Frontend
<1>3. Frontend.prices[i] \in 1..20 /\ Frontend.promises[i] \in 4..6
  <2>1. i = 1 \/ i = 2 \/ i = 3
    OBVIOUS
  <2> QED BY <1>2, <2>1
<1> QED BY <1>1, <1>2, <1>3 DEF Offered, Asked

\* Every bid of a run may win, and may be accepted if its courier can still
\* back the delivery.
LEMMA EveryBidMayWin ==
  ASSUME RunInv, Runs("frontend"), OwnDelivery(script.id, 12),
         agentPolicies[Seller] = Frontend.policy, factory # NoFactory,
         NEW w \in DOMAIN bids[script.id]
  PROVE  /\ MayWin(w)
         /\ FreeCapacityFor(bids[script.id][w].courier) >= 1 => AcceptanceAllowed(w)
<1>1. PICK id \in Ids : id = script.id
  BY DEF OwnDelivery
<1>2. /\ InStage(id, "Open") /\ id[1] = Seller /\ requests[id].asked = Asked(Frontend, now)
      /\ requests[id].hashed /\ w \in DOMAIN bids[id] /\ ~bids[id][w].withdrawn
  BY <1>1 DEF OwnDelivery
<1>3. PICK i \in 1..3 : bids[id][w].offered = Offered(Frontend, i, now)
  BY <1>1 DEF OwnDelivery
<1>4. now \in 1..MaxTime /\ PoolType /\ bids[id] \in Seq(BidRecords)
  BY DEF RunInv, DemoInv, MarketInv, MarketTypes
<1>5. PICK b, r, p : /\ b = bids[id][w].offered /\ r = requests[id].asked
                     /\ p = agentPolicies[id[1]]
  OBVIOUS
<1>6. /\ b.price \in 1..20 /\ b.promisedTime \in (now + 4)..(now + 6)
      /\ r.declaredValue = 1 /\ r.maxPrice = 20
      /\ r.maxDeadline = now + 24 /\ r.bidDeadline = now + 1
      /\ p.enabled /\ p.maxPrice = 20 /\ p.minDeadlineBuffer = 1
      /\ p.coSignThreshold = 2
      /\ now \in Nat
  BY <1>2, <1>3, <1>4, <1>5, FrontendNumbers
<1>7. MayWin(w)
  <2> DEFINE limits == [maxPrice |-> 20, maxDeadline |-> r.maxDeadline]
  <2>1. Numbers.maxPrice = 20
    BY DEF Numbers, Runs, Frontend
  <2>2. /\ ~(b.price > limits.maxPrice) /\ ~(b.promisedTime > limits.maxDeadline)
        /\ ~(b.promisedTime <= now)
    BY <1>6
  <2>3. ~Filtered(b, bids[id][w].withdrawn, limits, now)
    BY <1>2, <2>2 DEF Filtered
  <2> QED BY <1>1, <1>5, <2>1, <2>3 DEF MayWin
<1>8. ASSUME FreeCapacityFor(bids[id][w].courier) >= 1
      PROVE  AcceptanceAllowed(w)
  <2>1. PICK c \in Accounts : c = bids[id][w].courier
    <3>1. bids[id][w] \in BidRecords
      BY <1>2, <1>4
    <3> QED BY <3>1 DEF BidRecords
  <2>2. WithinPolicy(id, w)
    BY <1>5, <1>6 DEF WithinPolicy
  <2>3. Acceptable(id, w)
    BY <1>2, <1>5, <1>6, <1>8 DEF Acceptable
  <2>4. PICK t : t = TermsOf(id, w)
    OBVIOUS
  <2>5. /\ t.courier = c /\ t.declaredValue = 1 /\ t.courierFee = b.price
        /\ t.pickupDeadline = b.promisedTime - 1 /\ t.dropoffDeadline = b.promisedTime
    BY <1>5, <1>6, <2>1, <2>4 DEF TermsOf, Contract
  <2>6. Constructible(t)
    BY <1>6, <2>5 DEF Constructible
  <2>7. Reservable(c, 1)
    BY <1>4, <1>8, <2>1, FreeIsReservable
  <2>8. factory = Registry
    BY DEF RunInv
  <2> QED BY <1>1, <1>2, <2>2, <2>3, <2>4, <2>5, <2>6, <2>7, <2>8 DEF AcceptanceAllowed
<1> QED BY <1>1, <1>7, <1>8

LEMMA RunNeedsOnlyCapacity == RunInv => RerunNeedsOnlyCapacity
<1> DEFINE do == Head(script.plan).do
           by == Head(script.plan).by
<1> SUFFICES ASSUME RunInv, Runs("frontend"), script.vault = Nothing, factory # NoFactory
             PROVE  IF do = "accept"
                    THEN /\ \E w \in DOMAIN bids[script.id] : MayWin(w)
                         /\ \A w \in DOMAIN bids[script.id] :
                              /\ MayWin(w) /\ FreeCapacityFor(bids[script.id][w].courier) >= 1
                              => AcceptanceAllowed(w)
                    ELSE \/ Allowed(do, by)
                         \/ do = "bid" /\ FreeCapacityFor(Couriers[by]) < 1
  BY DEF RerunNeedsOnlyCapacity
<1>1. PICK k \in 0..15 : k = 16 - Len(script.plan)
  BY RunSoFar
<1>2. /\ script.name = "frontend"
      /\ \/ do = "admit" /\ by \in 1..3 /\ k = 2 * by - 2
         \/ do = "stake" /\ by \in 1..3 /\ k = 2 * by - 1
         \/ do = "policy" /\ k = 6
         \/ do = "open" /\ k = 7
         \/ do = "publish" /\ k = 8
         \/ do = "bid" /\ by \in 1..3 /\ k = 8 + by
         \/ do = "accept" /\ k = 12
         \/ do \in {"fund", "pickup", "demoFile"} /\ k \in 13..15
  BY <1>1, RunSoFar
<1>3. /\ \A i \in 1..3 : 2 * i - 1 <= k => Couriers[i] \in Members
      /\ k >= 7 => agentPolicies[Seller] = Frontend.policy
      /\ k \in 8..12 => OwnDelivery(script.id, k)
      /\ ~(k >= 13)
  BY <1>1, RunSoFar, DemoConstants DEF RunTrue
<1>4. /\ DemoInv /\ Numbers = Frontend /\ now \in 1..MaxTime /\ PoolType
      /\ bids \in [Ids -> Seq(BidRecords)]
  BY <1>2 DEF RunInv, DemoInv, Numbers, MarketInv, MarketTypes
<1> HIDE DEF do, by
<1>5. CASE do = "admit"
  BY <1>2, <1>5 DEF Allowed, Known
<1>6. CASE do = "stake"
  <2>1. Couriers[by] \in Members
    BY <1>2, <1>3, <1>6
  <2> QED BY <1>6, <2>1 DEF Allowed
<1>7. CASE do = "policy"
  BY <1>7 DEF Allowed
<1>8. CASE do = "open"
  <2>1. PICK r : r = Asked(Numbers, now)
    OBVIOUS
  <2>2. /\ r.declaredValue = 1 /\ r.maxPrice = 20
        /\ r.maxDeadline = now + 24 /\ r.bidDeadline = now + 1 /\ now \in Nat
    BY <1>4, <2>1, FrontendNumbers
  <2>3. Askable(r)
    BY <2>2 DEF Askable
  <2> QED BY <1>8, <2>1, <2>3 DEF Allowed
<1>9. CASE do = "publish"
  <2>1. k = 8
    BY <1>2, <1>9
  <2>2. InStage(script.id, "Open") /\ ~requests[script.id].hashed
    BY <1>3, <2>1 DEF OwnDelivery
  <2> QED BY <1>9, <2>2 DEF Allowed
<1>10. CASE do = "bid"
  <2>1. by \in 1..3 /\ k \in 9..11
    BY <1>2, <1>10
  <2>2. InStage(script.id, "Open") /\ requests[script.id].asked = Asked(Frontend, now)
    BY <1>3, <2>1 DEF OwnDelivery
  <2>3. Couriers[by] \in Accounts
    BY <1>4, <2>1, TheNumbers
  <2>4. FreeCapacityFor(Couriers[by]) \in Nat
    BY <1>4, <2>3, FreeIsReservable
  <2>5. PICK b, r : b = Offered(Frontend, by, now) /\ r = requests[script.id].asked
    OBVIOUS
  <2>6. /\ b.price \in 1..20 /\ b.promisedTime \in (now + 4)..(now + 6)
        /\ r.declaredValue = 1 /\ r.maxPrice = 20
        /\ r.maxDeadline = now + 24 /\ r.bidDeadline = now + 1 /\ now \in Nat
    BY <1>4, <2>1, <2>2, <2>5, FrontendNumbers
  <2>7. FreeCapacityFor(Couriers[by]) >= 1
          => Biddable(script.id, Couriers[by], Offered(Numbers, by, now))
    <3>1. /\ now <= r.bidDeadline /\ b.price <= r.maxPrice
          /\ b.promisedTime <= r.maxDeadline /\ b.promisedTime > now
      BY <2>6
    <3> QED BY <1>4, <2>2, <2>5, <2>6, <3>1 DEF Biddable
  <2>8. FreeCapacityFor(Couriers[by]) >= 1 \/ FreeCapacityFor(Couriers[by]) < 1
    BY <2>4
  <2> QED BY <1>10, <2>7, <2>8 DEF Allowed
<1>11. CASE do = "accept"
  <2>1. k = 12
    BY <1>2, <1>11
  <2>2. OwnDelivery(script.id, 12) /\ agentPolicies[Seller] = Frontend.policy
    BY <1>3, <2>1
  <2>3. \A w \in DOMAIN bids[script.id] :
          /\ MayWin(w)
          /\ FreeCapacityFor(bids[script.id][w].courier) >= 1 => AcceptanceAllowed(w)
    BY <2>2, EveryBidMayWin
  <2>4. \E w : w \in DOMAIN bids[script.id]
    <3>1. bids[script.id] # <<>> /\ bids[script.id] \in Seq(BidRecords)
      BY <1>4, <2>2 DEF OwnDelivery
    <3>2. 1 \in DOMAIN bids[script.id]
      BY <3>1
    <3> QED BY <3>2
  <2> QED BY <1>11, <2>3, <2>4
<1> QED BY <1>2, <1>3, <1>5, <1>6, <1>7, <1>8, <1>9, <1>10, <1>11

\* frontend-demo.js can be run again after any number of runs, interrupted or
\* not: up to its vault it is refused nothing but capacity, and it has a
\* winner.
THEOREM ARerunNeedsOnlyCapacity == DemoSpec => []RerunNeedsOnlyCapacity
BY RunNeedsOnlyCapacity, TheRunsAreSound, PTL
=============================================================================
