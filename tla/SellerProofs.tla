---------------------------- MODULE SellerProofs ----------------------------
(***************************************************************************)
(* Theorems of SellerAgent, for any number of requests, bids and couriers, *)
(* whatever the agent's limit.  The market's invariant holds under the     *)
(* agent too, because whatever the agent sends is a step of the market;     *)
(* the agent's part says how old its view may be.                          *)
(***************************************************************************)
EXTENDS SellerAgent, MarketProofs

-----------------------------------------------------------------------------
(* The inductive invariant.                                                *)

AgentShape ==
    agent = [at |-> agent.at, id |-> agent.id, preferTrusted |-> agent.preferTrusted,
             policy |-> agent.policy, book |-> agent.book, winner |-> agent.winner]

HasBook == agent.at \in {"ranking", "explaining", "sending"}
HasWinner == agent.at \in {"explaining", "sending"} /\ agent.winner # 0

\* A winner could be taken when it was found.
WinnerTakeable ==
    /\ agent.winner \in DOMAIN agent.book
    /\ ~agent.book[agent.winner].withdrawn
    /\ agent.book[agent.winner].offered.price <= AgentMaxPrice

\* The bids in the agent's hands are those of its request, or older ones.
AgentInv ==
    /\ AgentShape
    /\ agent.at # "idle" => agent.id \in Ids /\ Opened(agent.id)
    /\ HasBook => agent.book \in Seq(BidRecords) /\ StaysIn(agent.book, bids[agent.id])
    /\ HasWinner => WinnerTakeable
    /\ agent.at = "sending" => agent.winner # 0

SellerInv == MarketInv /\ ListsBounded /\ AgentInv

LEMMA SellerStart == AgentInit => SellerInv
<1> SUFFICES ASSUME AgentInit PROVE SellerInv
  OBVIOUS
<1>1. PoolType /\ Solvent /\ MembersHoldAll /\ activeValue = 0
      /\ \A a \in Accounts : reserved[a] = 0
  BY StakedPool DEF AgentInit
<1>2. /\ requests = [id \in Ids |-> NoRequest] /\ bids = [id \in Ids |-> <<>>]
      /\ \A id \in Ids : ~Opened(id)
  BY DEF AgentInit, RegistryInit, Opened
<1>3. RequestsSound /\ \A id \in Ids : ~InStage(id, "Assigned")
  BY <1>2 DEF RequestsSound, RequestSound, BidsSound, InStage
<1>4. MarketInv
  BY <1>1, <1>2, <1>3, FreshMarket DEF AgentInit
<1>5. ListsBounded
  BY <1>2, RegistryConstants DEF ListsBounded
<1>6. AgentInv
  BY DEF AgentInit, AgentInv, AgentShape, HasBook, HasWinner, Idle
<1> QED BY <1>4, <1>5, <1>6 DEF SellerInv

-----------------------------------------------------------------------------
(* The agent in the market.                                                *)

\* The index the agent sends is one the market's steps allow.
LEMMA AgentIsInTheMarket ==
  ASSUME SellerInv, [AgentNext]_agentVars
  PROVE  [Next]_vars
<1>1. CASE AgentAccepts
  <2>1. agent.at = "sending" /\ agent.id \in Ids /\ agent.winner \in DOMAIN agent.book
    BY <1>1 DEF AgentAccepts, Goes, SellerInv, AgentInv, HasWinner, WinnerTakeable
  <2>2. agent.winner \in DOMAIN bids[agent.id]
    BY <2>1 DEF SellerInv, AgentInv, HasBook, StaysIn
  <2>3. bids[agent.id] \in Seq(BidRecords) /\ Len(bids[agent.id]) <= MaxBids
    BY <2>1 DEF SellerInv, MarketInv, MarketTypes, ListsBounded
  <2>4. agent.winner \in 1..MaxBids
    BY <2>2, <2>3, RegistryConstants
  <2>5. Accepting
    BY <1>1, <2>1, <2>4 DEF AgentAccepts, Accepting
  <2> QED BY <2>5 DEF Next
<1>2. CASE AgentReverts
  BY Zenon, <1>2 DEF AgentReverts
<1>3. CASE \/ \E id \in Ids : Watch(id)
           \/ ReadPolicy \/ ReadBids \/ RankBids \/ Decide
  BY <1>3 DEF Watch, ReadPolicy, ReadBids, RankBids, Decide
<1>4. CASE Elsewhere
  BY <1>4 DEF Elsewhere, SellerAccepts, Accepting, Next
<1>5. CASE UNCHANGED agentVars
  BY <1>5 DEF agentVars
<1> QED BY <1>1, <1>2, <1>3, <1>4, <1>5 DEF AgentNext, AgentStep

LEMMA MarketKeepsOn ==
  ASSUME SellerInv, [AgentNext]_agentVars
  PROVE  /\ MarketInv' /\ ListsBounded'
         /\ \A id \in Ids : Opened(id) => Opened(id)'
         /\ \A id \in Ids : StaysIn(bids[id], bids'[id])
<1>1. [Next]_vars /\ MarketInv /\ MarketTypes /\ ListsBounded
  BY AgentIsInTheMarket DEF SellerInv, MarketInv
<1>2. MarketInv' /\ ListsBounded'
  BY <1>1, MarketStep, ListsStayBounded
<1> QED BY <1>1, <1>2, MarketGoesOn DEF RequestGoesOn, Opened

\* The agent's request and the bids it read, after a step in which it keeps both.
LEMMA ViewKept ==
  ASSUME SellerInv, [AgentNext]_agentVars, agent.at # "idle", agent'.id = agent.id
  PROVE  /\ agent'.id \in Ids /\ Opened(agent.id)'
         /\ HasBook /\ agent'.book = agent.book =>
              agent'.book \in Seq(BidRecords) /\ StaysIn(agent'.book, bids'[agent'.id])
<1>1. agent.id \in Ids /\ Opened(agent.id)
  BY DEF SellerInv, AgentInv
<1>2. agent'.id \in Ids /\ Opened(agent.id)'
  BY <1>1, MarketKeepsOn DEF Opened
<1>3. StaysIn(bids[agent.id], bids'[agent.id])
  BY <1>1, MarketKeepsOn
<1>4. HasBook => agent.book \in Seq(BidRecords) /\ StaysIn(agent.book, bids'[agent.id])
  BY <1>3, StayingOn DEF SellerInv, AgentInv
<1> QED BY <1>2, <1>4

-----------------------------------------------------------------------------
(* Every step keeps the agent's part.                                      *)

\* A step that leaves the agent alone.
LEMMA AgentWaits ==
  ASSUME SellerInv, [AgentNext]_agentVars, UNCHANGED agent
  PROVE  AgentInv'
<1>1. agent' = agent
  OBVIOUS
<1>2. agent.at # "idle" => agent'.id \in Ids /\ Opened(agent.id)'
  BY <1>1, ViewKept
<1>3. HasBook => agent'.book \in Seq(BidRecords) /\ StaysIn(agent'.book, bids'[agent'.id])
  <2>1. HasBook => agent.at # "idle"
    BY DEF HasBook
  <2> QED BY <1>1, <2>1, ViewKept
<1>4. AgentShape' /\ (HasWinner' => WinnerTakeable') /\ (agent'.at = "sending" => agent'.winner # 0)
  BY <1>1 DEF SellerInv, AgentInv, AgentShape, HasWinner, WinnerTakeable
<1> QED BY <1>1, <1>2, <1>3, <1>4 DEF AgentInv, HasBook, Opened

LEMMA WatchKeeps ==
  ASSUME SellerInv, NEW id \in Ids, Watch(id)
  PROVE  AgentInv'
<1>1. PICK b \in BOOLEAN :
        agent' = [agent EXCEPT !.at = "asking", !.id = id, !.preferTrusted = b]
  BY DEF Watch
<1>2. AgentShape' /\ agent'.at = "asking" /\ agent'.id = id
  BY <1>1 DEF SellerInv, AgentInv, AgentShape
<1>3. Opened(id)'
  BY DEF Watch, vars, registryVars, Opened
<1> QED BY <1>2, <1>3 DEF AgentInv, HasBook, HasWinner, Opened

LEMMA ReadPolicyKeeps == SellerInv /\ ReadPolicy => AgentInv'
<1> SUFFICES ASSUME SellerInv, ReadPolicy PROVE AgentInv'
  OBVIOUS
<1>1. AgentShape' /\ agent'.at = "waiting" /\ agent'.id = agent.id /\ agent.at # "idle"
  BY DEF ReadPolicy, SellerInv, AgentInv, AgentShape
<1>2. agent'.id \in Ids /\ Opened(agent.id)'
  BY <1>1, ViewKept DEF AgentNext, AgentStep
<1> QED BY <1>1, <1>2 DEF AgentInv, HasBook, HasWinner, Opened

LEMMA ReadBidsKeeps == SellerInv /\ ReadBids => AgentInv'
<1> SUFFICES ASSUME SellerInv, ReadBids PROVE AgentInv'
  OBVIOUS
<1>1. AgentShape' /\ agent'.id = agent.id /\ agent'.at \in {"noBids", "ranking"}
      /\ agent'.book = bids[agent.id] /\ agent.at # "idle"
  BY DEF ReadBids, SellerInv, AgentInv, AgentShape
<1>2. agent'.id \in Ids /\ Opened(agent.id)'
  BY <1>1, ViewKept DEF AgentNext, AgentStep
<1>3. UNCHANGED bids /\ bids \in [Ids -> Seq(BidRecords)]
  BY DEF ReadBids, vars, registryVars, SellerInv, MarketInv, MarketTypes
<1>4. agent'.book \in Seq(BidRecords) /\ StaysIn(agent'.book, bids'[agent'.id])
  BY <1>1, <1>2, <1>3, BidsStay
<1> QED BY <1>1, <1>2, <1>4 DEF AgentInv, HasBook, HasWinner, Opened

\* The winner of the ranking is 0 or a bid within the agent's limits.
LEMMA RankedWinner ==
  ASSUME SellerInv, RankBids
  PROVE  LET w == agent'.winner
         IN  /\ agent.book \in Seq(BidRecords) /\ agent.id \in Ids /\ Opened(agent.id)
             /\ AgentShape' /\ agent'.id = agent.id /\ agent'.at = "explaining"
             /\ agent'.book = agent.book
             /\ w = Rank(agent.book, Limits, agent.preferTrusted, now)
             /\ w # 0 => /\ w \in DOMAIN agent.book
                         /\ ~agent.book[w].withdrawn
                         /\ agent.book[w].offered.price <= AgentMaxPrice
<1> DEFINE w == Rank(agent.book, Limits, agent.preferTrusted, now)
<1>1. AgentShape' /\ agent'.id = agent.id /\ agent'.at = "explaining"
      /\ agent'.book = agent.book /\ agent'.winner = w
  BY DEF RankBids, SellerInv, AgentInv, AgentShape
<1>2. agent.book \in Seq(BidRecords) /\ agent.id \in Ids /\ Opened(agent.id)
  BY DEF RankBids, SellerInv, AgentInv, HasBook
<1>3. w # 0 => /\ w \in DOMAIN agent.book
               /\ ~Filtered(agent.book[w].offered, agent.book[w].withdrawn, Limits, now)
  BY <1>2, WinnerIsTakeable
<1>4. ASSUME NEW b, NEW withdrawn, ~Filtered(b, withdrawn, Limits, now)
      PROVE  ~withdrawn /\ ~(b.price > AgentMaxPrice)
  BY <1>4 DEF Filtered, Limits
<1> HIDE DEF w
<1>5. w # 0 => agent.book[w].offered \in BidTerms
  <2>1. w # 0 => agent.book[w] \in BidRecords
    BY <1>2, <1>3
  <2> QED BY <2>1 DEF BidRecords
<1>6. w # 0 => /\ ~agent.book[w].withdrawn
               /\ agent.book[w].offered.price <= AgentMaxPrice
  BY <1>3, <1>4, <1>5, MarketConstants, SellerConstants
<1> QED BY <1>1, <1>2, <1>3, <1>6 DEF w

LEMMA RankBidsKeeps == SellerInv /\ RankBids => AgentInv'
<1> SUFFICES ASSUME SellerInv, RankBids PROVE AgentInv'
  OBVIOUS
<1>1. HasBook /\ agent.at # "idle" /\ [AgentNext]_agentVars
  BY DEF RankBids, HasBook, AgentNext, AgentStep
<1>2. agent'.id \in Ids /\ Opened(agent.id)' /\ StaysIn(agent'.book, bids'[agent'.id])
  BY <1>1, RankedWinner, ViewKept
<1> QED BY <1>2, RankedWinner DEF AgentInv, HasBook, HasWinner, WinnerTakeable, Opened

LEMMA DecideKeeps == SellerInv /\ Decide => AgentInv'
<1> SUFFICES ASSUME SellerInv, Decide PROVE AgentInv'
  OBVIOUS
<1>1. /\ AgentShape' /\ agent'.id = agent.id /\ agent'.book = agent.book
      /\ agent'.winner = agent.winner /\ agent.at = "explaining"
      /\ agent'.at \in {"noEligible", "escalated", "sending"}
      /\ agent'.at = "sending" => agent.winner # 0
  BY DEF Decide, Goes, SellerInv, AgentInv, AgentShape
<1>2. HasBook /\ [AgentNext]_agentVars
  BY <1>1 DEF HasBook, AgentNext, AgentStep
<1>3. /\ agent'.id \in Ids /\ Opened(agent.id)'
      /\ agent'.book \in Seq(BidRecords) /\ StaysIn(agent'.book, bids'[agent'.id])
  BY <1>1, <1>2, ViewKept
<1> QED BY <1>1, <1>3 DEF SellerInv, AgentInv, HasBook, HasWinner, WinnerTakeable, Opened

\* The transaction of the agent, whether mined or reverted, is its end.
LEMMA WatchCloses ==
  ASSUME SellerInv, AgentAccepts \/ AgentReverts
  PROVE  AgentInv'
<1>1. PICK to \in Ended : Goes("sending", to)
  <2>1. Goes("sending", "accepted") \/ Goes("sending", "reverted")
    BY Zenon DEF AgentAccepts, AgentReverts
  <2> QED BY <2>1 DEF Ended
<1>2. AgentShape' /\ agent'.id = agent.id /\ agent'.at = to /\ agent.at = "sending"
  BY <1>1 DEF Goes, SellerInv, AgentInv, AgentShape
<1>3. agent'.id \in Ids /\ Opened(agent.id)'
  BY <1>2, ViewKept DEF AgentNext, AgentStep
<1> QED BY <1>2, <1>3 DEF AgentInv, HasBook, HasWinner, Ended, Opened

LEMMA SellerStep == SellerInv /\ [AgentNext]_agentVars => SellerInv'
<1> SUFFICES ASSUME SellerInv, [AgentNext]_agentVars PROVE SellerInv'
  OBVIOUS
<1>1. AgentStep => AgentInv'
  BY WatchKeeps, ReadPolicyKeeps, ReadBidsKeeps, RankBidsKeeps, DecideKeeps,
     WatchCloses DEF AgentStep
<1>2. Elsewhere \/ UNCHANGED agentVars => AgentInv'
  BY AgentWaits DEF Elsewhere, agentVars
<1>3. AgentInv'
  BY <1>1, <1>2 DEF AgentNext
<1> QED BY <1>3, MarketKeepsOn DEF SellerInv

\* However the agent comes in: the market stays as sound as it is without it.
THEOREM TheAgentsMarketIsSound == AgentSpec => []SellerInv
BY SellerStart, SellerStep, PTL DEF AgentSpec

-----------------------------------------------------------------------------
(* The ranking.                                                            *)

LEMMA RankingIsRankBids ==
  ASSUME SellerInv, [AgentNext]_agentVars,
         agent.at = "ranking", agent'.at = "explaining"
  PROVE  RankBids
<1>1. ~Elsewhere /\ agent' # agent
  BY DEF Elsewhere
<1>2. ~ReadPolicy /\ ~ReadBids /\ ~Decide /\ ~AgentAccepts /\ \A id \in Ids : ~Watch(id)
  BY DEF ReadPolicy, ReadBids, Decide, Goes, Watch, AgentAccepts
<1>3. ~AgentReverts
  <2>1. AgentReverts => Goes("sending", "reverted")
    BY Zenon DEF AgentReverts
  <2>2. ~Goes("sending", "reverted")
    BY DEF Goes
  <2> QED BY <2>1, <2>2
<1> QED BY <1>1, <1>2, <1>3 DEF AgentNext, AgentStep, agentVars

\* A bid may be taken: what the filters ask, in numbers.
TakeableBid(b, maxDeadline) ==
    /\ ~b.withdrawn
    /\ b.offered.price <= AgentMaxPrice
    /\ b.offered.promisedTime \in now + 1 .. maxDeadline

\* The bids the agent ranks can be scored, and are ranked as they should be.
LEMMA RankedBook ==
  ASSUME SellerInv, RankBids
  PROVE  LET book == agent.book
             n == Len(book)
             d == requests[agent.id].asked.maxDeadline
         IN  /\ now \in Nat \ {0} /\ n \in Nat /\ DOMAIN book = 1..n
             /\ \A i \in 1..n : Priced(book[i].offered)
             /\ \A i \in 1..n : TakeableBid(book[i], d) <=> Passes(book, Limits, now, i)
             /\ FirstBest(book, Limits, agent.preferTrusted, now, agent'.winner, n)
<1> DEFINE book == agent.book
           n == Len(book)
           d == requests[agent.id].asked.maxDeadline
<1>1. book \in Seq(BidRecords) /\ agent.id \in Ids /\ Opened(agent.id)
      /\ agent'.winner = Rank(book, Limits, agent.preferTrusted, now)
  BY RankedWinner
<1>2. now \in Nat \ {0} /\ d \in Nat
  <2>1. requests[agent.id] \in RequestRecords /\ now \in Nat \ {0}
    BY <1>1 DEF SellerInv, MarketInv, MarketTypes, VaultTypes, Opened
  <2>2. requests[agent.id].asked \in RequestTerms
    BY <2>1 DEF RequestRecords
  <2> QED BY <2>1, <2>2, MarketConstants
<1>3. n \in Nat /\ DOMAIN book = 1..n
  BY <1>1
<1>4. \A i \in 1..n : Priced(book[i].offered)
  <2> SUFFICES ASSUME NEW i \in 1..n PROVE Priced(book[i].offered)
    OBVIOUS
  <2>1. book[i] \in BidRecords
    BY <1>1
  <2>2. book[i].offered \in BidTerms
    BY <2>1 DEF BidRecords
  <2> QED BY <2>2, MarketConstants, SellerConstants DEF Priced
<1>5. Limits = [maxPrice |-> AgentMaxPrice, maxDeadline |-> d]
  BY DEF Limits
<1> HIDE DEF d, book
<1>6. \A i \in 1..n : TakeableBid(book[i], d) <=> Passes(book, Limits, now, i)
  <2> SUFFICES ASSUME NEW i \in 1..n
               PROVE  TakeableBid(book[i], d) <=> Passes(book, Limits, now, i)
    OBVIOUS
  <2> DEFINE b == book[i].offered
             gone == book[i].withdrawn
  <2>1. b.price \in Nat /\ b.promisedTime \in Nat /\ AgentMaxPrice \in Nat
    BY <1>4, SellerConstants DEF Priced
  <2>2. Filtered(b, gone, Limits, now) <=>
          gone \/ b.price > AgentMaxPrice \/ b.promisedTime > d \/ b.promisedTime <= now
    BY <1>5 DEF Filtered
  <2>3. TakeableBid(book[i], d) <=>
          ~gone /\ b.price <= AgentMaxPrice /\ b.promisedTime \in now + 1 .. d
    BY DEF TakeableBid
  <2>4. Passes(book, Limits, now, i) <=> ~Filtered(b, gone, Limits, now)
    BY DEF Passes
  <2> HIDE DEF b, gone
  <2>5. /\ b.price > AgentMaxPrice <=> ~(b.price <= AgentMaxPrice)
        /\ b.promisedTime > d \/ b.promisedTime <= now <=> b.promisedTime \notin now + 1 .. d
    BY <1>2, <2>1
  <2> QED BY Zenon, <2>2, <2>3, <2>4, <2>5
<1>7. FirstBest(book, Limits, agent.preferTrusted, now, agent'.winner, n)
  BY <1>1, <1>2, <1>3, <1>4, RankIsFirstBest
<1> QED BY <1>2, <1>3, <1>4, <1>6, <1>7 DEF book, d

\* Whatever the bids, the limits and the moment: the agent's choice is a bid it
\* may take, and every other one it may take is worse in something or the same.
THEOREM TheChoiceIsUndominated == AgentSpec => WinnerIsUndominated
<1> DEFINE
      Takeable(i) ==
                /\ ~agent.book[i].withdrawn
                /\ agent.book[i].offered.price <= AgentMaxPrice
                /\ agent.book[i].offered.promisedTime
                     \in now + 1 .. requests[agent.id].asked.maxDeadline
      Dominates(b, c) ==
                /\ b.price <= c.price /\ b.promisedTime <= c.promisedTime
                /\ agent.preferTrusted => b.reputationE4 >= c.reputationE4
                /\ \/ b.price < c.price \/ b.promisedTime < c.promisedTime
                   \/ agent.preferTrusted /\ b.reputationE4 > c.reputationE4
      Chosen(w) ==
             IF w = 0 THEN \A i \in DOMAIN agent.book : ~Takeable(i)
             ELSE /\ Takeable(w)
                  /\ agent.book[w].offered.price > 0 =>
                       \A i \in DOMAIN agent.book : Takeable(i) =>
                          ~Dominates(agent.book[i].offered, agent.book[w].offered)
      P == agent.at = "ranking" /\ agent'.at = "explaining" => Chosen(agent'.winner)
<1>1. ASSUME SellerInv, [AgentNext]_agentVars
      PROVE  [P]_agentVars
  <2> SUFFICES ASSUME agent.at = "ranking", agent'.at = "explaining"
               PROVE  Chosen(agent'.winner)
    OBVIOUS
  <2> DEFINE book == agent.book
             n == Len(book)
             d == requests[agent.id].asked.maxDeadline
             w == agent'.winner
  <2>1. RankBids
    BY <1>1, RankingIsRankBids
  <2>2. /\ now \in Nat \ {0} /\ n \in Nat /\ DOMAIN book = 1..n
        /\ \A i \in 1..n : Priced(book[i].offered)
        /\ \A i \in 1..n : TakeableBid(book[i], d) <=> Passes(book, Limits, now, i)
        /\ FirstBest(book, Limits, agent.preferTrusted, now, w, n)
    BY <1>1, <2>1, RankedBook
  <2>3. \A i : Takeable(i) <=> TakeableBid(book[i], d)
    BY DEF TakeableBid
  <2> HIDE DEF Takeable, book, d, w
  <2>4. CASE w = 0
    <3>1. \A i \in 1..n : ~Takeable(i)
      BY <2>2, <2>3, <2>4 DEF FirstBest
    <3> QED BY <2>2, <2>4, <3>1 DEF w, book
  <2>5. CASE w # 0
    <3>1. w \in 1..n /\ Takeable(w) /\ Passes(book, Limits, now, w)
      BY <2>2, <2>3, <2>5 DEF FirstBest
    <3>2. ASSUME book[w].offered.price > 0, NEW i \in 1..n, Takeable(i)
          PROVE  ~Dominates(book[i].offered, book[w].offered)
      <4>1. Passes(book, Limits, now, i)
        BY <2>2, <2>3, <3>2
      <4>2. ~Outscores(book[i].offered, book[w].offered, agent.preferTrusted, now)
        BY <2>2, <2>5, <4>1 DEF FirstBest
      <4>3. /\ Priced(book[i].offered) /\ Priced(book[w].offered)
            /\ book[i].offered.promisedTime > now /\ book[w].offered.promisedTime > now
        BY <2>2, <3>1, <4>1, PassingIsInTime
      <4> DEFINE b == book[i].offered
                 c == book[w].offered
      <4> HIDE DEF b, c
      <4>4. Dominates(b, c) => Outscores(b, c, agent.preferTrusted, now)
        BY <2>2, <3>2, <4>3, DominatingOutscores DEF b, c
      <4> QED BY <4>2, <4>4 DEF b, c
    <3> QED BY <2>2, <2>5, <3>1, <3>2 DEF w, book
  <2> QED BY <2>4, <2>5
<1> HIDE DEF P
<1>2. AgentSpec => [][P]_agentVars
  BY <1>1, SellerStart, SellerStep, PTL DEF AgentSpec
<1> QED BY <1>2 DEF WinnerIsUndominated, P

\* A bid ranked alone and without limits wins exactly if it is in time.
LEMMA AloneInTime ==
  ASSUME NEW p \in Nat, NEW eta \in Nat \ {0}, NEW t \in Nat
  PROVE  Feasible(p, eta, t) <=> eta > t
<1> DEFINE one == AskedBid(p, eta)
           w == Rank(one, <<>>, FALSE, t)
<1>1. Len(one) = 1 /\ one[1].withdrawn = FALSE /\ one[1].offered.promisedTime = eta
      /\ Priced(one[1].offered)
  BY DEF AskedBid, Priced
<1>2. "maxPrice" \notin DOMAIN <<>> /\ "maxDeadline" \notin DOMAIN <<>>
  OBVIOUS
<1> HIDE DEF one
<1>3. Passes(one, <<>>, t, 1) <=> eta > t
  BY <1>1, <1>2 DEF Passes, Filtered
<1>4. FirstBest(one, <<>>, FALSE, t, w, 1)
  <2>1. Len(one) \in Nat /\ \A i \in 1..Len(one) : Priced(one[i].offered)
    BY <1>1
  <2> QED BY <1>1, <2>1, RankIsFirstBest
<1> HIDE DEF w
<1>5. w = 1 <=> Passes(one, <<>>, t, 1)
  <2>1. 1 \in 1..1 /\ \A j \in 1..1 : j = 1
    OBVIOUS
  <2>2. CASE w = 0
    BY <1>4, <2>1, <2>2 DEF FirstBest
  <2>3. CASE w # 0
    <3>1. w \in 1..1 /\ Passes(one, <<>>, t, w)
      BY <1>4, <2>3 DEF FirstBest
    <3> QED BY <2>1, <3>1
  <2> QED BY <2>2, <2>3
<1> QED BY <1>3, <1>5 DEF Feasible, w, one

\* What passes the limits passes without them.
LEMMA LimitsOnlyFilter ==
  ASSUME NEW book, NEW limits, NEW nowSec, NEW i, Passes(book, limits, nowSec, i)
  PROVE  Passes(book, <<>>, nowSec, i)
<1>1. "maxPrice" \notin DOMAIN <<>> /\ "maxDeadline" \notin DOMAIN <<>>
  OBVIOUS
<1> QED BY <1>1 DEF Passes, Filtered

\* The best of all bids is the best of those that pass, if it passes.
LEMMA BestOfFewer ==
  ASSUME NEW book, NEW limits, NEW trusted, ~trusted, NEW nowSec, NEW n \in Nat, NEW e,
         FirstBest(book, <<>>, FALSE, nowSec, e, n), e # 0, Passes(book, limits, nowSec, e)
  PROVE  FirstBest(book, limits, trusted, nowSec, e, n)
<1>1. \A b, c : Outscores(b, c, trusted, nowSec) <=> Outscores(b, c, FALSE, nowSec)
  BY DEF Outscores, RepFactor, Cost
<1> QED BY <1>1, LimitsOnlyFilter DEF FirstBest

\* What the agent answers couriers over A2A is what it does with their bids, if
\* they ask with the time of arrival, if it is not told to prefer the trusted,
\* and if no limit of its own stands against the bid it explained.
THEOREM TheListenerAgrees == AgentSpec => ListenerAgrees
<1> DEFINE
      e == Explained(agent.book, now)
      Agreed(w) ==
             /\ w # 0 =>
                  LET b == agent.book[w].offered
                  IN  \A earlier \in 1..now :
                         LET takes == b.promisedTime - earlier
                         IN  /\ Feasible(b.price, b.promisedTime, earlier)
                             /\ takes <= earlier => ~Feasible(b.price, takes, earlier)
             /\ w # 0 => e # 0
             /\ e # 0 /\ ~agent.preferTrusted =>
                  \/ w = e
                  \/ Filtered(agent.book[e].offered, agent.book[e].withdrawn, Limits, now)
      P == agent.at = "ranking" /\ agent'.at = "explaining" => Agreed(agent'.winner)
<1>1. ASSUME SellerInv, [AgentNext]_agentVars
      PROVE  [P]_agentVars
  <2> SUFFICES ASSUME agent.at = "ranking", agent'.at = "explaining"
               PROVE  Agreed(agent'.winner)
    OBVIOUS
  <2> DEFINE book == agent.book
             n == Len(book)
             w == agent'.winner
  <2>1. RankBids
    BY <1>1, RankingIsRankBids
  <2>2. /\ now \in Nat \ {0} /\ n \in Nat
        /\ \A i \in 1..n : Priced(book[i].offered)
        /\ FirstBest(book, Limits, agent.preferTrusted, now, w, n)
    BY <1>1, <2>1, RankedBook
  <2>3. e = Rank(book, <<>>, FALSE, now)
    BY DEF Explained
  <2>4. FirstBest(book, <<>>, FALSE, now, e, n)
    BY <2>2, <2>3, RankIsFirstBest
  <2> HIDE DEF book, w, e
  <2>5. w # 0 => w \in 1..n /\ Passes(book, Limits, now, w)
    BY <2>2 DEF FirstBest
  <2>6. ASSUME w # 0, NEW earlier \in 1..now
        PROVE  LET b == book[w].offered
                   takes == b.promisedTime - earlier
               IN  /\ Feasible(b.price, b.promisedTime, earlier)
                   /\ takes <= earlier => ~Feasible(b.price, takes, earlier)
    <3> DEFINE b == book[w].offered
               takes == b.promisedTime - earlier
    <3>1. Priced(b) /\ b.promisedTime > now
      BY <2>2, <2>5, <2>6, PassingIsInTime
    <3>2. /\ b.price \in Nat /\ earlier \in Nat
          /\ b.promisedTime \in Nat \ {0} /\ b.promisedTime > earlier
          /\ takes \in Nat \ {0}
      BY <2>2, <3>1 DEF Priced
    <3> HIDE DEF b, takes
    <3>3. Feasible(b.price, b.promisedTime, earlier)
      BY <3>2, AloneInTime
    <3>4. takes <= earlier => ~Feasible(b.price, takes, earlier)
      BY <3>2, AloneInTime
    <3> QED BY <3>3, <3>4 DEF b, takes
  <2>7. w # 0 => e # 0
    BY <2>4, <2>5, LimitsOnlyFilter DEF FirstBest
  <2>8. ASSUME e # 0, ~agent.preferTrusted, Passes(book, Limits, now, e)
        PROVE  w = e
    <3>1. FirstBest(book, Limits, agent.preferTrusted, now, e, n)
      BY <2>2, <2>4, <2>8, BestOfFewer
    <3>2. w # 0
      BY <2>2, <2>4, <2>8 DEF FirstBest
    <3> QED BY <2>2, <2>8, <3>1, <3>2, OneFirstBest
  <2> QED BY <2>6, <2>7, <2>8 DEF Passes, book, w
<1> HIDE DEF P
<1>2. AgentSpec => [][P]_agentVars
  BY <1>1, SellerStart, SellerStep, PTL DEF AgentSpec
<1> QED BY <1>2 DEF ListenerAgrees, P, Agreed, e

LEMMA SameBid ==
  ASSUME NEW b \in BidRecords, NEW c \in BidRecords, ~b.withdrawn, ~c.withdrawn,
         b.courier = c.courier, b.offered = c.offered
  PROVE  b = c
<1>1. /\ b = [courier |-> b.courier, offered |-> b.offered, withdrawn |-> b.withdrawn]
      /\ c = [courier |-> c.courier, offered |-> c.offered, withdrawn |-> c.withdrawn]
      /\ b.withdrawn \in BOOLEAN /\ c.withdrawn \in BOOLEAN
  BY DEF BidRecords
<1>2. b.withdrawn = FALSE /\ c.withdrawn = FALSE
  BY <1>1
<1> QED BY <1>1, <1>2

\* However long the agent waited for timers, models and receipts, and whatever
\* seller and couriers did meanwhile: the bid it accepts is the one it ranked
\* first, not withdrawn, within its own limit and within the policy in force.
THEOREM AgentKeepsItsLimits == AgentSpec => AcceptsWithinLimits
<1> DEFINE
      P == AcceptsNow =>
             LET r == requests[agent.id].asked
                 b == bids[agent.id][agent.winner]
                 p == agentPolicies[agent.id[1]]
                 t == vault'[requests'[agent.id].vault].terms
             IN  /\ b = agent.book[agent.winner] /\ ~b.withdrawn
                 /\ t.courier = b.courier /\ t.courierFee = b.offered.price
                 /\ t.courierFee <= AgentMaxPrice /\ t.courierFee <= p.maxPrice
                 /\ t.dropoffDeadline + p.minDeadlineBuffer <= r.maxDeadline
                 /\ p.coSignThreshold = 0 \/ r.declaredValue <= p.coSignThreshold
<1>1. ASSUME SellerInv, [AgentNext]_agentVars
      PROVE  [P]_agentVars
  <2> SUFFICES ASSUME AcceptsNow PROVE P
    OBVIOUS
  <2>1. AgentAccepts
    <3>1. agent.at = "sending" /\ agent'.at = "accepted"
      BY DEF AcceptsNow
    <3>2. AgentReverts => Goes("sending", "reverted")
      BY Zenon DEF AgentReverts
    <3>3. ~Goes("sending", "reverted")
      BY <1>1, <3>1 DEF Goes, SellerInv, AgentInv, AgentShape
    <3>4. ~Elsewhere /\ agent' # agent
      BY <3>1 DEF Elsewhere
    <3>5. ~ReadPolicy /\ ~ReadBids /\ ~RankBids /\ ~Decide /\ \A id \in Ids : ~Watch(id)
      BY <3>1 DEF ReadPolicy, ReadBids, RankBids, Decide, Goes, Watch
    <3> QED BY <1>1, <3>2, <3>3, <3>4, <3>5 DEF AgentNext, AgentStep, agentVars
  <2> DEFINE id == agent.id
             i == agent.winner
  <2>2. PICK v \in Vaults : AcceptBidByAgent(id, i, v)
    BY <2>1 DEF AgentAccepts
  <2>3. /\ id \in Ids /\ WinnerTakeable
        /\ agent.book \in Seq(BidRecords) /\ StaysIn(agent.book, bids[id])
    BY <1>1 DEF AcceptsNow, SellerInv, AgentInv, HasBook, HasWinner
  <2>4. ~bids[id][i].withdrawn /\ WithinPolicy(id, i)
    BY <2>2 DEF AcceptBidByAgent, Accept, Acceptable
  <2>5. bids[id][i] = agent.book[i]
    <3>1. bids[id] \in Seq(BidRecords)
      BY <1>1, <2>3 DEF SellerInv, MarketInv, MarketTypes
    <3>2. /\ i \in DOMAIN bids[id] /\ i \in DOMAIN agent.book
          /\ bids[id][i].courier = agent.book[i].courier
          /\ bids[id][i].offered = agent.book[i].offered /\ ~agent.book[i].withdrawn
      BY <2>3 DEF StaysIn, WinnerTakeable
    <3>3. bids[id][i] \in BidRecords /\ agent.book[i] \in BidRecords
      BY <2>3, <3>1, <3>2
    <3> QED BY <2>4, <3>2, <3>3, SameBid
  <2>6. requests'[id].vault = v /\ vault'[v].terms = TermsOf(id, i)
    <3>1. /\ vault' = [vault EXCEPT ![v] = [Fresh(TermsOf(id, i)) EXCEPT !.initialized = TRUE]]
          /\ Assign(id, i, v)
      BY <2>2 DEF AcceptBidByAgent, Accept, SpawnVault
    <3>2. DOMAIN vault = Vaults /\ DOMAIN requests = Ids
      BY <1>1 DEF SellerInv, MarketInv, MarketTypes, VaultTypes
    <3>3. requests'[id].vault = v
      BY <2>3, <3>1, <3>2 DEF Assign
    <3>4. [Fresh(TermsOf(id, i)) EXCEPT !.initialized = TRUE].terms = TermsOf(id, i)
      BY DEF Fresh
    <3> QED BY <3>1, <3>2, <3>3, <3>4
  <2> HIDE DEF id, i
  <2>7. /\ TermsOf(id, i).courier = bids[id][i].courier
        /\ TermsOf(id, i).courierFee = bids[id][i].offered.price
        /\ TermsOf(id, i).dropoffDeadline = bids[id][i].offered.promisedTime
    BY DEF TermsOf, Contract
  <2>8. bids[id][i].offered.price <= AgentMaxPrice
    BY <2>3, <2>5 DEF WinnerTakeable, i
  <2> QED BY <2>4, <2>5, <2>6, <2>7, <2>8 DEF WithinPolicy, id, i
<1> HIDE DEF P
<1>2. AgentSpec => [][P]_agentVars
  BY <1>1, SellerStart, SellerStep, PTL DEF AgentSpec
<1> QED BY <1>2 DEF AcceptsWithinLimits, P
=============================================================================
