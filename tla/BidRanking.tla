----------------------------- MODULE BidRanking -----------------------------
(***************************************************************************)
(* agents/seller_agent_core.js: the seller agent's choice among the bids.  *)
(* A bid's score is r^alpha / (t * p), with alpha = 3/2 for a seller who   *)
(* prefers trusted couriers and 0 otherwise.  Scores are only compared, so *)
(* the fractions are multiplied out, and squared where alpha = 3/2; a      *)
(* price of 0, whose score is Infinity, needs no case of its own.          *)
(* Rounding of the doubles is left out.                                    *)
(***************************************************************************)
EXTENDS Integers, Sequences

\* r^alpha, squared.  r is reputationE4 / 10000 in millionths, and no less
\* than 1e-6.
RepFactor(b, trusted) ==
    LET r == IF b.reputationE4 = 0 THEN 1 ELSE 100 * b.reputationE4
    IN  IF trusted THEN r * r * r ELSE 1

\* t * p, squared where r^alpha is.
Cost(b, trusted, nowSec) ==
    LET c == (b.promisedTime - nowSec) * b.price
    IN  IF trusted THEN c * c ELSE c

\* b scores higher than c.
Outscores(b, c, trusted, nowSec) ==
    RepFactor(b, trusted) * Cost(c, trusted, nowSec)
      > RepFactor(c, trusted) * Cost(b, trusted, nowSec)

\* Bug: a withdrawn bid is ranked.
FilteredIfOpen(b, withdrawn, limits, nowSec) ==
    \/ "maxPrice" \in DOMAIN limits /\ b.price > limits.maxPrice
    \/ "maxDeadline" \in DOMAIN limits /\ b.promisedTime > limits.maxDeadline
    \/ b.promisedTime <= nowSec
\* The hard filters.  A limit that was not set filters nothing.
Filtered(b, withdrawn, limits, nowSec) ==
    \/ withdrawn
    \/ "maxPrice" \in DOMAIN limits /\ b.price > limits.maxPrice
    \/ "maxDeadline" \in DOMAIN limits /\ b.promisedTime > limits.maxDeadline
    \/ b.promisedTime <= nowSec

\* The index of the winner, 0 if every bid is filtered out: the loop keeps a
\* leader and replaces it only by a bid that scores higher.
Rank(book, limits, trusted, nowSec) ==
    LET beats(i, w) ==
            /\ ~Filtered(book[i].offered, book[i].withdrawn, limits, nowSec)
            /\ w = 0 \/ Outscores(book[i].offered, book[w].offered, trusted, nowSec)
        leader[i \in 0..Len(book)] ==
            IF i = 0 THEN 0
            ELSE IF beats(i, leader[i - 1]) THEN i ELSE leader[i - 1]
    IN  leader[Len(book)]

-----------------------------------------------------------------------------
(* agents/seller_agent.js, "a2a-listen": what couriers may ask an agent     *)
(* before they pay for a bid.  It ranks without limits and without           *)
(* preferTrusted, changes nothing and forgets what it said.                 *)

\* What a courier asks about, with a reputation it is assumed to have.
AskedBid(askedPrice, promisedEta) ==
    <<[withdrawn |-> FALSE,
       offered |-> [price |-> askedPrice, promisedTime |-> promisedEta,
                    reputationE4 |-> 9000]]>>

\* Bug: asks for a buffer before the promised time.
FeasibleBuffered(askedPrice, promisedEta, nowSec) ==
    /\ promisedEta # 0 /\ promisedEta > nowSec + 2
    /\ Rank(AskedBid(askedPrice, promisedEta), <<>>, FALSE, nowSec) = 1
\* "bid-discuss": the bid is ranked alone, with promisedEta as the absolute time
\* that a bid on the chain promises.  A price comes as a string of digits, so it
\* is never missing, not even as "0".
Feasible(askedPrice, promisedEta, nowSec) ==
    /\ promisedEta # 0
    /\ Rank(AskedBid(askedPrice, promisedEta), <<>>, FALSE, nowSec) = 1

\* "rank-explain": the bids as the registry has them.
Explained(book, nowSec) == Rank(book, <<>>, FALSE, nowSec)
=============================================================================
