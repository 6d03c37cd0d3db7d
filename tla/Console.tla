------------------------------ MODULE Console -------------------------------
(***************************************************************************)
(* frontend/app.js: one open page of the web front end over the market.    *)
(* The page keeps four things in step by hand: the form's fields, what it  *)
(* shows, the codes in the browser's storage and the chain.  A click starts *)
(* a handler, a plan of awaits; several handlers may wait at once, and an   *)
(* answer may come after the fields it was asked for have changed.  Each    *)
(* await is two steps: the node answers, and the handler goes on with the   *)
(* answer to its next await.                                                *)
(*                                                                         *)
(* A plan is made of                                                       *)
(*   send     a transaction, until its receipt                             *)
(*   list     refreshRequests()     details  refreshDetails()              *)
(*   status   refreshVaultStatus()  bids     loadBids()                    *)
(*   rank     the server's /api/agent/rank                                 *)
(*   adopt    the fields take what the transaction's event says: no await  *)
(* The wallet that signs is left out: a call its signer may not make is    *)
(* one that fails.                                                         *)
(***************************************************************************)
EXTENDS Marketplace, BidRanking, FiniteSetsExt

CONSTANTS
    Nothing,        \* an empty field, nothing shown, no handler
    Slots,          \* bound: handlers waiting at once
    MaxClicks,      \* bound: what the user does
    MaxMoves,       \* bound: what others do to the chain
    Scenes,         \* the books of the requests found open, request by request
    FormMaxPrice,   \* the form's maximum price
    PreferTrusted   \* the form's checkbox

\* Delivery ids are hashes, vaults addresses, and a handler that asked for
\* something is not Nothing; the books found open were placed on requests that
\* were opened.
ASSUME ConsoleConstants ==
    /\ Nothing \notin Ids \cup Vaults /\ Ids \cap Vaults = {}
    /\ Nothing \notin
         [name : {"connect", "refresh", "select", "publishHashes", "acceptBid", "placeBid",
                  "withdrawBid", "vault", "pool", "setAgent"},
          plan : Seq({"send", "list", "details", "status", "bids", "rank", "adopt"}),
          arg : {Nothing} \cup [id : Ids] \cup [vault : Vaults], answer : {Nothing},
          event : {Nothing} \cup Ids \cup Vaults, alone : BOOLEAN]
    /\ FormMaxPrice \in Nat
    /\ Scenes \subseteq
         Seq(Seq([courier : Accounts, offered : BidTerms, withdrawn : BOOLEAN]))
    /\ \A scene \in Scenes :
         /\ Len(scene) \in 1..MaxRequests
         /\ \A n \in DOMAIN scene :
              /\ Len(scene[n]) <= MaxBids
              /\ \A i \in DOMAIN scene[n] : scene[n][i].offered.promisedTime > 1

VARIABLES
    page,       \* the fields: provider set, deliveryId, vaultAddress,
                \* acceptBidIndex, the codes; and the pick behind the index
    shown,      \* state.selectedRequest, state.selectedVault, state.lastBids
    handlers,   \* by slot
    kept,       \* localStorage dlm.codes.<id>: which codes, 0 = none
    locked,     \* the codes whose hashes are on the chain, 0 = none
    draws,      \* codes drawn so far
    spent       \* clicks and moves so far

consoleVars == <<vars, page, shown, handlers, kept, locked, draws, spent>>

Blank == [request |-> Nothing, status |-> Nothing, book |-> Nothing]

\* A market under way: the page's user has published the codes of the requests,
\* and has the first one in the form, or comes back to an empty form.
ConsoleInit ==
    /\ now = 1 /\ VaultInit /\ CouriersStaked
    /\ \E scene \in Scenes, r \in {r \in RequestTerms : r.declaredValue > 0} :
         /\ sellerNonce = [s \in Sellers |-> Len(scene)]
         /\ bids = [id \in Ids |-> IF id[2] \in DOMAIN scene THEN scene[id[2]] ELSE <<>>]
         /\ requests = [id \in Ids |->
              IF id[2] \notin DOMAIN scene THEN NoRequest
              ELSE [asked |-> r, hashed |-> TRUE, stage |-> "Open",
                    acceptedBid |-> 0, vault |-> NoVault]]
    /\ agentPolicies \in [Sellers -> Policies]
    /\ locked = [id \in Ids |-> IF Opened(id) THEN id[2] ELSE 0]
    /\ kept = locked /\ draws = MaxRequests
    /\ \E start \in {Nothing} \cup {id \in Ids : id[2] = 1} :
         page = [on |-> start # Nothing, id |-> start, vault |-> Nothing, index |-> 1,
                 codes |-> 0, pick |-> Nothing]
    /\ shown = Blank
    /\ handlers = [t \in Slots |-> Nothing]
    /\ spent = [clicks |-> 0, moves |-> 0]

-----------------------------------------------------------------------------
(* The fields.                                                             *)

\* The codes of another delivery stay in the form if there are none to show.
SetDelivery(p, id) ==
    [p EXCEPT !.id = id, !.codes = IF kept[id] # 0 THEN kept[id] ELSE @]

SetVaultAddress(p, v) == IF v = NoVault THEN p ELSE [p EXCEPT !.vault = v]

Adopt(p, event) ==
    IF event \in Ids THEN SetDelivery(p, event) ELSE SetVaultAddress(p, event)

-----------------------------------------------------------------------------
(* Handlers.                                                               *)

Refresh == <<"list", "details", "status">>

\* What a step reads from the fields before it waits.
Asked(step, p, arg) ==
    CASE step \in {"details", "bids"} -> [id |-> p.id]
      [] step = "status" -> [vault |-> p.vault]
      [] step \in {"send", "rank"} -> arg
      [] OTHER -> Nothing

\* Steps that return, or end the handler, before they wait.  An id stays once
\* there is one, and a vault comes after it: no id, no status either.
Skipped(step, p) ==
    \/ step \notin {"adopt", "rank"} /\ ~p.on
    \/ step \in {"details", "bids"} /\ p.id = Nothing
    \/ step = "status" /\ p.vault = Nothing

\* From here to the next await, with the fields p.
RunOn(running, t, h, p) ==
    LET due == {i \in DOMAIN h.plan : ~Skipped(h.plan[i], p)}
        rest == IF due = {} THEN <<>> ELSE SubSeq(h.plan, Min(due), Len(h.plan))
        adopts == rest = <<"adopt">>
    IN  /\ page' = IF adopts THEN Adopt(p, h.event) ELSE p
        /\ handlers' = [running EXCEPT ![t] =
             IF adopts \/ rest = <<>> THEN Nothing
             ELSE [h EXCEPT !.plan = rest, !.arg = Asked(Head(rest), p, h.arg),
                            !.answer = Nothing]]

At(t, step) == handlers[t] # Nothing /\ Head(handlers[t].plan) = step
Answered(t) == handlers[t].answer # Nothing
Rest(h) == [h EXCEPT !.plan = Tail(@)]

\* Whatever else happens meanwhile disturbs those who wait.
Disturbed == [t \in Slots |->
    IF handlers[t] = Nothing THEN Nothing ELSE [handlers[t] EXCEPT !.alone = FALSE]]

Handler(name, plan, arg) ==
    [name |-> name, plan |-> plan, arg |-> arg, answer |-> Nothing,
     event |-> Nothing, alone |-> \A t \in Slots : handlers[t] = Nothing]

Click == /\ spent.clicks < MaxClicks
         /\ spent' = [spent EXCEPT !.clicks = @ + 1]
ChainUnchanged == UNCHANGED <<vars, locked>>

-----------------------------------------------------------------------------
(* Clicks that only read.                                                  *)

Starts(name, plan, arg, p) == \E t \in Slots :
    /\ handlers[t] = Nothing
    /\ RunOn(Disturbed, t, Handler(name, plan, arg), p)

\* Dev Connect or a wallet; a lost wallet takes the provider away, and what
\* is on its way goes on.
Connect == Starts("connect", Refresh, Nothing, [page EXCEPT !.on = TRUE])
Disconnect == page' = [page EXCEPT !.on = FALSE] /\ handlers' = Disturbed

\* A click in the list of requests.
Select(id) ==
    /\ Opened(id)
    /\ Starts("select", <<"details", "status", "bids">>, Nothing, SetDelivery(page, id))

TypeId(id) == /\ Opened(id) /\ id # page.id
              /\ page' = [page EXCEPT !.id = id]
              /\ handlers' = Disturbed
TypeIndex(i) == /\ i # page.index
                /\ page' = [page EXCEPT !.index = i, !.pick = Nothing]
                /\ handlers' = Disturbed

Reading ==
    /\ Click /\ ChainUnchanged /\ UNCHANGED <<shown, kept, draws>>
    /\ \/ Connect \/ Disconnect
       \/ page.on /\ Starts("refresh", Refresh, Nothing, page)
       \/ page.on /\ page.vault # Nothing /\ Starts("status", <<"status">>, Nothing, page)
       \/ page.on /\ page.id # Nothing /\ Starts("bids", <<"bids">>, Nothing, page)
       \/ \E id \in Ids : Select(id) \/ TypeId(id)
       \/ \E i \in 1..MaxBids : TypeIndex(i)

\* A reload empties the page but for the two fields the browser's storage
\* keeps; what was sent may still be mined.
Reload ==
    /\ Click /\ ChainUnchanged /\ UNCHANGED <<kept, draws>>
    /\ shown' = Blank
    /\ page' = [page EXCEPT !.on = FALSE, !.index = 1, !.codes = 0, !.pick = Nothing]
    /\ handlers' = [t \in Slots |->
         IF At(t, "send") THEN [handlers[t] EXCEPT !.plan = <<"send">>] ELSE Nothing]

\* Bug: withdrawn bids are left out, so that the indices shift.
CandidatesOpen(book) == SelectSeq(book, LAMBDA b : ~b.withdrawn)
\* Every bid listed, in its place.
Candidates(book) == book

\* aiPickBid(): the bids last listed, with the limits of the form and of the
\* request last shown, go to the server.
AiPick ==
    /\ Click /\ ChainUnchanged /\ UNCHANGED <<shown, kept, draws>>
    /\ shown.book # Nothing /\ shown.book.of # <<>>
    /\ Starts("pick", <<"rank">>,
         [id |-> shown.book.id, book |-> Candidates(shown.book.of), limits |->
            IF shown.request = Nothing THEN [maxPrice |-> FormMaxPrice]
            ELSE [maxPrice |-> FormMaxPrice,
                  maxDeadline |-> shown.request.of.asked.maxDeadline]], page)

-----------------------------------------------------------------------------
(* Clicks that send a transaction.                                         *)

Send(name, last, call, p) ==
    /\ Click /\ ChainUnchanged /\ UNCHANGED shown
    /\ Starts(name, <<"send">> \o Refresh \o last, call, p)

\* The codes are stored before the transaction is sent, and even if the page
\* is not connected, and used again if there are any.
\* Bug: every click draws new codes.
SendHashesRedrawn ==
    /\ page.id # Nothing
    /\ draws' = draws + 1
    /\ kept' = [kept EXCEPT ![page.id] = draws']
    /\ Send("publishHashes", <<>>, [id |-> page.id, codes |-> draws'],
            [page EXCEPT !.codes = draws'])
SendHashes ==
    /\ page.id # Nothing
    /\ draws' = IF kept[page.id] = 0 THEN draws + 1 ELSE draws
    /\ LET codes == IF kept[page.id] = 0 THEN draws + 1 ELSE kept[page.id]
       IN  /\ kept' = [kept EXCEPT ![page.id] = codes]
           /\ Send("publishHashes", <<>>, [id |-> page.id, codes |-> codes],
                   [page EXCEPT !.codes = codes])

Sending ==
    \/ SendHashes
    \/ /\ page.on /\ UNCHANGED <<kept, draws>>
       /\ \/ Send("openRequest", <<"adopt">>, Nothing, page)
          \/ Send("pool", <<>>, Nothing, page)
          \/ Send("setAgent", <<>>, Nothing, page)
          \/ /\ page.id # Nothing
             /\ \/ Send("acceptBid", <<"adopt">>,
                        [id |-> page.id, index |-> page.index, pick |-> page.pick], page)
                \/ Send("placeBid", <<"bids">>, [id |-> page.id], page)
                \/ Send("withdrawBid", <<"bids">>, [id |-> page.id], page)
          \/ /\ page.vault # Nothing
             /\ Send("vault", <<>>, [vault |-> page.vault, codes |-> page.codes], page)

\* What the chain makes of a transaction, and the event it logs.  A vault
\* lets a code through only if it is the one its delivery's hashes lock.
DeliveryOf(v) == CHOOSE id \in Ids : Opened(id) /\ requests[id].vault = v

VaultCall(v, codes) ==
    /\ Carrying(v) \/ SettlingWell(v) \/ SettlingBadly(v)
    /\ vault'[v].state \in {"PickedUp", "Delivered"} \ {vault[v].state}
         => codes = locked[DeliveryOf(v)]

PoolCall == OthersUnchanged /\ \E a \in Accounts :
    \/ AdmitMember(a) \/ FinalizeWithdraw(a)
    \/ \E n \in Amounts : DepositStake(a, n) \/ RequestWithdraw(a, n)

Executed(name, call, event) ==
    /\ IF name = "publishHashes" THEN locked' = [locked EXCEPT ![call.id] = call.codes]
       ELSE UNCHANGED locked
    /\ IF name \in {"openRequest", "acceptBid"} THEN event # Nothing ELSE event = Nothing
    /\ \/ name = "vault" /\ VaultCall(call.vault, call.codes)
       \/ name = "pool" /\ PoolCall
       \/ /\ name = "acceptBid" /\ event \in Vaults /\ UNCHANGED now
          /\ AcceptBid(call.id, call.index, event)
       \/ /\ UNCHANGED <<now, vault>> /\ PoolUnchanged
          /\ \/ name = "publishHashes" /\ PublishHashes(call.id)
             \/ name = "setAgent" /\ \E s \in Sellers, q \in Policies : SetAgentPolicy(s, q)
             \/ /\ name = "placeBid"
                /\ \E a \in Accounts, b \in BidTerms : PlaceBid(call.id, a, b)
             \/ name = "withdrawBid" /\ \E i \in 1..MaxBids : WithdrawBid(call.id, i)
             \/ /\ name = "openRequest" /\ event \in Ids
                /\ \E r \in RequestTerms : OpenRequest(event[1], r)
                /\ event[2] = sellerNonce'[event[1]]

-----------------------------------------------------------------------------
(* What comes back.                                                        *)

Mined(t) ==
    /\ At(t, "send")
    /\ LET h == handlers[t]
       IN  \E event \in {Nothing} \cup Ids \cup Vaults :
             /\ Executed(h.name, h.arg, event)
             /\ RunOn(handlers, t, [Rest(h) EXCEPT !.event = event], page)
    /\ UNCHANGED <<shown, kept, draws, spent>>

\* The node, the wallet, the server or the contract says no: the handler ends.
Failed(t) ==
    /\ handlers[t] # Nothing /\ ~Answered(t)
    /\ ~At(t, "list")                       \* refreshRequests() catches
    /\ handlers' = [handlers EXCEPT ![t] = Nothing]
    /\ ChainUnchanged /\ UNCHANGED <<page, shown, kept, draws, spent>>

Snapshot(v) ==
    [state |-> vault[v].state, funded |-> vault[v].funded,
     finalized |-> vault[v].finalized, disputed |-> vault[v].disputed,
     balance |-> vault[v].balance, courierFee |-> vault[v].terms.courierFee]

\* handleAgentRank() of the server ranks what it was sent, at its own time.
Answer(t) ==
    /\ handlers[t] # Nothing /\ ~Answered(t)
    /\ LET h == handlers[t]
           replies(a) == handlers' = [handlers EXCEPT ![t].answer = a]
       IN  \/ At(t, "details") /\ replies([request |-> requests[h.arg.id]])
           \/ At(t, "status") /\ Deployed(h.arg.vault)
              /\ replies([status |-> Snapshot(h.arg.vault)])
           \/ At(t, "bids") /\ replies([bids |-> bids[h.arg.id]])
           \/ At(t, "rank")
              /\ replies([winner |-> Rank(h.arg.book, h.arg.limits, PreferTrusted, now)])
    /\ ChainUnchanged /\ UNCHANGED <<page, shown, kept, draws, spent>>

GoesOn(t, p) ==
    /\ RunOn(handlers, t, Rest(handlers[t]), p)
    /\ ChainUnchanged /\ UNCHANGED <<kept, draws, spent>>

UseList(t) == At(t, "list") /\ GoesOn(t, page) /\ UNCHANGED shown

\* Bug: the vault is not taken from the request.
UseDetailsAlone(t) ==
    /\ At(t, "details") /\ Answered(t)
    /\ LET h == handlers[t]
       IN  /\ shown' = [shown EXCEPT !.request = [id |-> h.arg.id, of |-> h.answer.request]]
           /\ GoesOn(t, page)
UseDetails(t) ==
    /\ At(t, "details") /\ Answered(t)
    /\ LET h == handlers[t]
       IN  /\ shown' = [shown EXCEPT !.request = [id |-> h.arg.id, of |-> h.answer.request]]
           /\ GoesOn(t, SetVaultAddress(page, h.answer.request.vault))

\* Bug: the address is read again once the answer is there.
UseStatusOfField(t) ==
    /\ At(t, "status") /\ Answered(t)
    /\ shown' = [shown EXCEPT !.status = [vault |-> page.vault, of |-> handlers[t].answer.status]]
    /\ GoesOn(t, page)
UseStatus(t) ==
    /\ At(t, "status") /\ Answered(t)
    /\ shown' = [shown EXCEPT !.status = [vault |-> handlers[t].arg.vault, of |-> handlers[t].answer.status]]
    /\ GoesOn(t, page)

UseBids(t) ==
    /\ At(t, "bids") /\ Answered(t)
    /\ shown' = [shown EXCEPT !.book = [id |-> handlers[t].arg.id, of |-> handlers[t].answer.bids]]
    /\ GoesOn(t, page)

\* The winner goes into the form; pick remembers what it was among.
UsePick(t) ==
    /\ At(t, "rank") /\ Answered(t)
    /\ LET sent == handlers[t].arg
           w == handlers[t].answer.winner
       IN  GoesOn(t, IF w = 0 THEN page ELSE
             [page EXCEPT !.index = w,
                          !.pick = [id |-> sent.id, bid |-> sent.book[w]]])
    /\ UNCHANGED shown

\* The chain goes on without the page.
Elsewhere ==
    /\ spent.moves < MaxMoves /\ spent' = [spent EXCEPT !.moves = @ + 1]
    /\ \/ Bidding \/ Accepting
       \/ \E v \in Vaults : Carrying(v) \/ SettlingWell(v) \/ SettlingBadly(v)
    /\ handlers' = Disturbed
    /\ UNCHANGED <<page, shown, kept, locked, draws>>

ConsoleNext ==
    \/ Reading \/ Reload \/ AiPick \/ Sending
    \/ \E t \in Slots :
         \/ Mined(t) \/ Failed(t) \/ Answer(t)
         \/ UseList(t) \/ UseDetails(t) \/ UseStatus(t) \/ UseBids(t) \/ UsePick(t)
    \/ Elsewhere

ConsoleSpec == ConsoleInit /\ [][ConsoleNext]_consoleVars

-----------------------------------------------------------------------------
(* Properties.                                                             *)

\* However late the answers come and whatever is clicked meanwhile, what the
\* page shows of a request, of its bids and of a vault was once true of that
\* very one: it may lag behind the chain and never runs ahead of it.
NeverAhead ==
    /\ shown.request # Nothing =>
         LET old == shown.request.of  new == requests[shown.request.id]
         IN  /\ old.asked = new.asked /\ (old.hashed => new.hashed)
             /\ old.stage # "Open" => old = new
    /\ shown.status # Nothing =>
         LET old == shown.status.of  new == Snapshot(shown.status.vault)
         IN  /\ old.courierFee = new.courierFee
             /\ old.funded => new.funded
             /\ old.disputed => new.disputed
             /\ old.finalized => new.finalized /\ old.state = new.state
             /\ old.state # "Funded" => new.state # "Funded"
    /\ shown.book # Nothing =>
         LET old == shown.book.of  new == bids[shown.book.id]
         IN  \A i \in DOMAIN old :
               /\ i \in DOMAIN new /\ old[i].offered = new[i].offered
               /\ old[i].withdrawn => new[i].withdrawn

\* The page shows the delivery in its field as it is on the chain, and the vault
\* in its field likewise: the delivery's own if it has one.  A delivery without
\* a vault leaves the vault that was there, of whatever other delivery.
InStep ==
    page.id # Nothing =>
        LET r == requests[page.id]
        IN  /\ shown.request = [id |-> page.id, of |-> r]
            /\ r.vault # NoVault => page.vault = r.vault
            /\ page.vault # Nothing =>
                 shown.status = [vault |-> page.vault, of |-> Snapshot(page.vault)]

\* Late answers can leave the page mixed up.  A refresh that ends, of a delivery
\* selected, a wallet connected or a transaction mined, and that nothing
\* disturbs, leaves it in step again, whatever the mix-up; and selecting a
\* delivery brings back the codes that open its vault.  Not so openRequest():
\* it refreshes first, and then puts the new delivery's id over the old
\* request.  The status, bids and pick buttons do not refresh.
UndisturbedRefreshRepairs ==
    [][\A t \in Slots :
         LET h == handlers[t]
         IN  /\ h # Nothing /\ handlers'[t] = Nothing
             /\ h.alone /\ Answered(t) /\ spent' = spent
             /\ h.name \notin {"openRequest", "status", "bids", "pick"}
             => /\ InStep'
                /\ h.name = "select" /\ locked[page.id] # 0
                     => page'.codes = locked[page.id]]_consoleVars

\* Codes that are locked on the chain are in the browser's storage, whatever
\* is clicked twice, fails or is reloaded: without them nobody can pick the
\* package up.
CodesAreKept == \A id \in Ids : locked[id] # 0 => kept[id] = locked[id]

\* The index the agent picked, sent for the delivery whose bids it ranked,
\* accepts the very bid it ranked, at the limits it ranked with, however old
\* the listing was.  For another delivery it can accept a bid nobody ranked.
PickedBidIsAccepted ==
    [][\A t \in Slots :
         LET call == handlers[t].arg
         IN  /\ At(t, "send") /\ handlers[t].name = "acceptBid"
             /\ call.pick # Nothing /\ call.pick.id = call.id
             /\ Mined(t)
             => /\ bids[call.id][call.index].offered = call.pick.bid.offered
                /\ vault'[requests'[call.id].vault].terms.courier = call.pick.bid.courier
                /\ vault'[requests'[call.id].vault].terms.courierFee <= FormMaxPrice]_consoleVars
=============================================================================
