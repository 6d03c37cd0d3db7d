----------------------------- MODULE SellerAgent -----------------------------
(***************************************************************************)
(* agents/seller_agent.js, "watch": one agent that waits for the end of a   *)
(* request's bidding, ranks the bids and accepts the best one for the       *)
(* seller, while the seller, the couriers and the clock go on.  Everything *)
(* between two awaits is one step; every answer of the chain may be old by  *)
(* the time it is used.  What it reads of the request itself never changes  *)
(* once it is open.  The agent's clock is the chain's.                      *)
(***************************************************************************)
EXTENDS Marketplace, BidRanking

CONSTANT
    AgentMaxPrice       \* <maxPriceEth>

ASSUME SellerConstants ==
    /\ AgentMaxPrice \in Nat
    /\ \A b \in BidTerms : b.reputationE4 \in Nat

VARIABLE agent

agentVars == <<vars, agent>>

Idle == [at |-> "idle", id |-> <<>>, preferTrusted |-> FALSE,
         policy |-> NoPolicy, book |-> <<>>, winner |-> 0]

Busy == {"asking", "waiting", "ranking", "explaining", "sending"}
Ended == {"noBids", "noEligible", "escalated", "accepted", "reverted"}

\* The market as the agent finds it: every courier is a member with stake.
AgentInit ==
    /\ now = 1
    /\ VaultInit /\ RegistryInit /\ CouriersStaked
    /\ agent = Idle

-----------------------------------------------------------------------------
(* watch().                                                                *)

Limits == [maxPrice |-> AgentMaxPrice,
           maxDeadline |-> requests[agent.id].asked.maxDeadline]

Goes(from, to) == agent.at = from /\ agent' = [agent EXCEPT !.at = to]

\* getRequest() answers.
Watch(id) ==
    /\ agent.at = "idle"
    /\ Opened(id)
    /\ \E preferTrusted \in BOOLEAN :
         agent' = [agent EXCEPT !.at = "asking", !.id = id, !.preferTrusted = preferTrusted]
    /\ UNCHANGED vars

\* agentPolicies() answers, or cannot be read, which leaves the agent with no
\* policy, as if none were set.
ReadPolicy ==
    /\ agent.at = "asking"
    /\ \E p \in {agentPolicies[agent.id[1]], NoPolicy} :
         agent' = [agent EXCEPT !.at = "waiting", !.policy = p]
    /\ UNCHANGED vars

\* Bug: after the deadline the agent still waits for a first bid.
ReadSomeBids ==
    /\ agent.at = "waiting"
    /\ now >= requests[agent.id].asked.bidDeadline
    /\ bids[agent.id] # <<>>
    /\ agent' = [agent EXCEPT !.at = "ranking", !.book = bids[agent.id]]
    /\ UNCHANGED vars
\* The bidding is over, and getBids() answers.
ReadBids ==
    /\ agent.at = "waiting"
    /\ now >= requests[agent.id].asked.bidDeadline
    /\ agent' = [agent EXCEPT !.at = IF bids[agent.id] = <<>> THEN "noBids" ELSE "ranking",
                              !.book = bids[agent.id]]
    /\ UNCHANGED vars

RankBids ==
    /\ agent.at = "ranking"
    /\ agent' = [agent EXCEPT !.at = "explaining",
                   !.winner = Rank(agent.book, Limits, agent.preferTrusted, now)]
    /\ UNCHANGED vars

\* The co-signature check uses the policy read before the wait.
NeedsCoSign ==
    /\ agent.policy.enabled
    /\ requests[agent.id].asked.declaredValue > agent.policy.coSignThreshold

\* llmExplain() answers or fails.
Decide ==
    /\ \/ agent.winner = 0 /\ Goes("explaining", "noEligible")
       \/ agent.winner # 0 /\ NeedsCoSign /\ Goes("explaining", "escalated")
       \/ agent.winner # 0 /\ ~NeedsCoSign /\ Goes("explaining", "sending")
    /\ UNCHANGED vars

AgentAccepts ==
    /\ Goes("sending", "accepted")
    /\ \E v \in Vaults : AcceptBidByAgent(agent.id, agent.winner, v)
    /\ UNCHANGED now

AgentReverts ==
    /\ Goes("sending", "reverted")
    /\ ~ \E v \in Vaults : ENABLED AcceptBidByAgent(agent.id, agent.winner, v)
    /\ UNCHANGED vars

AgentStep ==
    \/ \E id \in Ids : Watch(id)
    \/ ReadPolicy \/ ReadBids \/ RankBids \/ Decide
    \/ AgentAccepts \/ AgentReverts

\* Everybody else; AcceptBid stands for the seller.
SellerAccepts ==
    /\ UNCHANGED now
    /\ \E id \in Ids, i \in 1..MaxBids, v \in Vaults : AcceptBid(id, i, v)

Elsewhere ==
    /\ \/ Membership \/ Asking \/ Bidding \/ SellerAccepts
       \/ \E v \in Vaults : Carrying(v) \/ SettlingWell(v) \/ SettlingBadly(v)
       \/ Clock
    /\ UNCHANGED agent

AgentNext == AgentStep \/ Elsewhere

AgentSpec == AgentInit /\ [][AgentNext]_agentVars

\* The chain's clock runs, and so does the agent once it is started.
FairAgentSpec == AgentSpec /\ WF_agentVars(Clock /\ UNCHANGED agent)
                           /\ WF_agentVars(agent.at # "idle" /\ AgentStep)

-----------------------------------------------------------------------------
(* Properties.                                                             *)

\* The bid the agent ranks first is one it may take, and no other it may take
\* is as cheap, as fast and, if that counts, as well reputed, and better in
\* something.  Bids that cost nothing are all equal to it.
WinnerIsUndominated ==
    [][agent.at = "ranking" /\ agent'.at = "explaining" =>
         LET book == agent.book
             Takeable(i) ==
                /\ ~book[i].withdrawn
                /\ book[i].offered.price <= AgentMaxPrice
                /\ book[i].offered.promisedTime
                     \in now + 1 .. requests[agent.id].asked.maxDeadline
             Dominates(b, c) ==
                /\ b.price <= c.price /\ b.promisedTime <= c.promisedTime
                /\ agent.preferTrusted => b.reputationE4 >= c.reputationE4
                /\ \/ b.price < c.price \/ b.promisedTime < c.promisedTime
                   \/ agent.preferTrusted /\ b.reputationE4 > c.reputationE4
             w == agent'.winner
         IN  IF w = 0 THEN \A i \in DOMAIN book : ~Takeable(i)
             ELSE /\ Takeable(w)
                  /\ book[w].offered.price > 0 =>
                       \A i \in DOMAIN book : Takeable(i) =>
                          ~Dominates(book[i].offered, book[w].offered)]_agentVars

\* What the agent answers couriers agrees with what it does as far as it can.  A
\* bid it ranks first, it would have called feasible at any time before, had it
\* been asked with the time of arrival; asked with the time it takes, as
\* docs/A2A.md:46 does, it would not, as a duration is long past on a clock
\* that counts from 1970.  The bid it would have explained as the winner of the
\* same bids wins, unless the limits or preferTrusted, which the listener is
\* not given, stand against it.
ListenerAgrees ==
    [][agent.at = "ranking" /\ agent'.at = "explaining" =>
         LET book == agent.book
             w == agent'.winner
             e == Explained(book, now)
         IN  /\ w # 0 =>
                  LET b == book[w].offered
                  IN  \A earlier \in 1..now :
                         LET takes == b.promisedTime - earlier
                         IN  /\ Feasible(b.price, b.promisedTime, earlier)
                             /\ takes <= earlier => ~Feasible(b.price, takes, earlier)
             /\ w # 0 => e # 0
             /\ e # 0 /\ ~agent.preferTrusted =>
                  \/ w = e
                  \/ Filtered(book[e].offered, book[e].withdrawn, Limits, now)]_agentVars

AcceptsNow == agent.at = "sending" /\ agent'.at = "accepted"

\* However old the agent's view is, what it accepts is within the limits it
\* was started with and within the policy in force, and it is still the bid
\* it ranked, not withdrawn and not late.
AcceptsWithinLimits ==
    [][AcceptsNow =>
         LET r == requests[agent.id].asked
             b == bids[agent.id][agent.winner]
             p == agentPolicies[agent.id[1]]
             t == vault'[requests'[agent.id].vault].terms
         IN  /\ b = agent.book[agent.winner] /\ ~b.withdrawn
             /\ t.courier = b.courier /\ t.courierFee = b.offered.price
             /\ t.courierFee <= AgentMaxPrice /\ t.courierFee <= p.maxPrice
             /\ t.dropoffDeadline + p.minDeadlineBuffer <= r.maxDeadline
             /\ p.coSignThreshold = 0 \/ r.declaredValue <= p.coSignThreshold]_agentVars

\* A watch ends, whatever the others do.
WatchEnds == agent.at \in Busy ~> agent.at \in Ended

-----------------------------------------------------------------------------
(* What the source says and the code does not keep.                        *)

\* seller_agent.js:42, "listen until bid deadline, then accept best bid": the
\* transaction for a winner nothing else stands against does not revert.
BestBidIsAccepted ==
    [][agent.at = "sending" /\ agent'.at = "reverted" =>
         LET id == agent.id
             t == TermsOf(id, agent.winner)
         IN  \/ ~InStage(id, "Open") \/ ~requests[id].hashed
             \/ bids[id][agent.winner].withdrawn
             \/ ~WithinPolicy(id, agent.winner)
             \/ ~Constructible(t)
             \/ FreeCapacityFor(t.courier) < t.declaredValue]_agentVars
=============================================================================
