# Decentralized logistics marketplace: TLA+ models, checks and proofs

The program is a delivery market on Ethereum: three Solidity contracts
(`contracts/`), two off-chain agents (`agents/`), a demo web front end
(`frontend/`), command-line clients (`clients/`) and scripts that deploy and
show it (`scripts/`).  This directory models all of them and the interleavings
between them, checks the models with TLC and proves with TLAPS, for every size,
all their safety properties: of the pool, the vaults, the composed market, both
agents, the page, the clients and the scripts.  What is left to TLC alone is
liveness.
Paths and line numbers below are those of the repository.

    tlc -workers 2 -config pool_slash.cfg MCPoolClients     # a run
    tlapm PoolProofs.tla                                    # a proof

`PROJECT.json` lists the runs, the source lines each definition stands for, the
hazards and the theorems.

## 1. The system

| component | state it keeps | operations |
|---|---|---|
| Staking pool, `contracts/StakingPool.sol` | members in order of admission, stake and reserved value per member, one pending withdrawal per member, `totalStake`, `activeValue`, the vaults that may call it, its factory, its ether | admit, deposit, request and finalize a withdrawal, register a vault, reserve, release, slash |
| Delivery vault, `contracts/DeliveryVault.sol`, one per delivery | `state`, `finalized`, `funded`, `deliveredAt`, `disputed`, its ether; the deal as immutables | fund, pickup, confirm, dispute, resolve, finalize, refund and slash on a timeout, cancel |
| Registry, `contracts/MarketplaceRegistry.sol` | requests, bids and the sellers' agent policies | open, publish hashes, bid, withdraw a bid, cancel, set policy, accept (as seller or as agent) |
| Seller agent, `agents/seller_agent.js`, `seller_agent_core.js` | what it read from the chain since it was started | `watch`: wait for the bid deadline, rank, explain, escalate or accept; `a2a-listen`: answer couriers |
| Mailbox agent, `agents/mailbox_agent.js` | `lastSign`, in a file | `confirm`: rate limit, sensors, `confirmDelivery` |
| Front-end server, `frontend/server.js` | the same file | confirm as mailbox, admit as operator, rank bids |
| Page, `frontend/app.js` | the form's fields, what was last read of a request, its bids and its vault, the codes in the browser's storage | connect, select, refresh, AI pick, a click per transaction |
| Command-line clients, `clients/` | `codes.<id>.json` | a command per transaction |
| Deploy script and demos, `scripts/` | `deployment.json`, `frontend-demo.json` | fixed sequences of transactions |
| Tests, `test/`, `e2e/` | none | fixed scenarios |

How they interact.  `_accept` of the registry creates a vault, registers it with
the pool and lets it reserve the courier's stake, in one transaction.  From
then on only the vault talks to the pool: it settles once, by `release` or by
`slash`, and a slash sends ether back to the vault, which passes it to the
buyer.  The agents read the chain, wait for timers, models and receipts, and
send a transaction that may be mined when what they read is no longer true.
The mailbox agent and the server sign with the same key and share one file.
The page, the clients and the scripts do the same by hand: what a user typed or
saw, and what a file says, may be older than the chain.

What is hard here:

- a withdrawal is checked when it is requested and paid a delay later;
- a slash touches every member, with three levels of rounding;
- reservations of several deliveries are one number per member;
- two deadlines, a dispute window and four callers race in each vault;
- `fund` looks at neither `state` nor `finalized`;
- the seller and the agent may both accept, while bidders withdraw;
- the seller's agent has one tick of the clock in which it can succeed;
- the page's handlers overlap: an answer may come after the field it was asked
  for has changed;
- the codes that open a vault exist in one browser, or in one file, and must
  be there before their hashes are on the chain;
- a script may stop half-way, be run again, and its files outlive the node;
- the rate limit is read before several awaits and written after them;
- a process may die between a mined transaction and the write that records it.

What makes each component correct:

- Pool: it can pay everyone back; its books agree with the open deliveries;
  every open delivery can be settled; the courier at fault pays first and the
  rest is shared by stake; the buyer is made whole up to a named dust; a
  withdrawal completes; stake leaves only by its owner's withdrawal or a slash.
- Vault: one outcome, decided once, which moves everything held to one party;
  the courier is paid only when due; after the pickup nobody can back out;
  nothing is stranded but a deposit that comes too late; every delivery the
  registry spawned ends.
- Registry: one vault per assigned request, with the terms of the accepted
  bid, and backed by the pool.
- Seller agent: the best admissible bid; an acceptance within limits that may
  have changed; the watch ends.
- Mailbox: a delivery is confirmed once; no failure gets a confirmation past
  the sensors; the pause between confirmations.
- Page: never ahead of the chain, put right by a refresh (with an exception), no
  codes lost, the bid picked is the bid accepted.
- Clients: the codes on the chain are on file; an index means the bid that was
  listed.
- Scripts: the demo delivers; it can be run again; its manifest is true.

The full list, each at the line where it bites, is under `hazards` in
`PROJECT.json`.

## 2. The modules

    Totals ── Ethereum ─┬─ StakingPool ── PoolClients ─── MCPoolClients, PoolProofs
                        └─ DeliveryVault ─┬─ Deliveries ─ MCDeliveries, DeliveryProofs
                                 │        │      ├─────── MailboxAgent ─ MCMailboxAgent, DeliveryProofs
                                 │        │      └ ─ ─ ─  Escrow (refinement)
                        MarketplaceRegistry ─ Marketplace ─ MCMarketplace, MarketProofs
                                                  │  └ ─ ─ ─ PoolClients, Deliveries (refinements)
                                                  ├─────── Clients ────── MCClients, ClientsProofs
                                                  ├─┬───── SellerAgent ── MCSellerAgent, SellerProofs
                                                  │ ├───── Console ────── MCConsole, ConsoleProofs
                                                  │ └───── Demo ───────── MCDemo, DemoProofs
                                   BidRanking ────┘

    StakeTheorems (sums, and the pool whoever calls it) ─┬─ PoolProofs
                                                         └─ MarketProofs ─┬─ SellerProofs
                                                                          ├─ ConsoleProofs
                                                                          ├─ ClientsProofs
                                                                          └─ DemoProofs

| module | models |
|---|---|
| `Totals`, `Ethereum` | sums written as counting coins (so that no recursion is needed), the clamped difference; the addresses and `block.timestamp` |
| `StakingPool` | every function of the pool that changes storage.  `Slash` is `slash()` with `Take` (what the courier has left), `Base`, the floored shares, the sweep by the last member on the list and the clamp to what each member has |
| `PoolClients` | the pool with the weakest vaults that may call it: each reserves at most once and settles once.  `ManualVaults` are vaults the operator registers by hand (`registerVault`), which may settle before they reserve (`lapsed`), and reserve all the same afterwards |
| `DeliveryVault` | every external function of a vault is an action; `PaidOut`, `Refunded`, `SlashedAndRefunded` are the three internal ways to end.  `refuses` says which party's address rejects ether, so that the call that pays it reverts |
| `Deliveries` | vaults on their own: the registry spawns them or anyone deploys them, and anyone calls them; the pool recovers anything between nothing and the declared value.  `backing` is what the pool knows of a vault: a spawned one is registered and its courier a member, one deployed by hand is `unknown` until the operator has seen to both (`Register`), and the calls that reach the pool revert until then |
| `Escrow` | the abstract escrow: a fee locked once, an outcome decided once, all ether moved by that decision |
| `MarketplaceRegistry` | requests, bids, policies, acceptance; an acceptance is the conjunction of what it does in the registry, the vault and the pool |
| `Marketplace` | the three contracts as `scripts/deploy.js` wires them |
| `BidRanking` | `rank()`: the hard filters, each only if its limit is set, and the comparison of scores `r^alpha / (t*p)`, multiplied out so that only integers are compared; the two answers of the A2A listener that come from it |
| `SellerAgent` | `watch()`, one step per stretch between two awaits, over `Marketplace`; a policy that cannot be read is none (`fetchPolicy` catches) |
| `MailboxAgent` | `confirm` of the agent and `handleMailboxConfirm` of the server with the sensors, the AI and what stands in for its answer, over `Deliveries` |
| `Console` | the page: a click starts a plan of awaits, several plans run at once, each await is asked for with the fields of that moment and answered later.  `page` are the fields, `shown` is `state`, `kept` is `localStorage` |
| `Clients` | the three clients: a command is typed with what its user knows, sent, mined in its account's order or failed, and may be interrupted meanwhile |
| `Demo` | `deploy.js`, `frontend-demo.js` and `demo-end-to-end.js` as programs of one transaction per step, interrupted anywhere; nodes that restart and keep nothing; the two files |

Correspondence.  A contract's storage is a variable, or a field of the vault
record, of the same name; a transaction is one action, `require` is a guard, a
revert is a disabled action.  A transaction across contracts is the conjunction
of its parts, so that if one part would revert none of it happens.  Two things
stand in a vault's record that are not storage but are in the chain's log: the
ether sent to each party and the arbiter's ruling.  Callers named by a `require` are the
party the action stands for; the operator's functions may be called at any
time.  Times are ticks and amounts are small numbers of wei.  No amount or sum
of the models comes near 2^256, where Solidity would revert anyway; every
subtraction the compiler checks is a guard (`SlashFits`, for one) and `TypeOK`
shows that no other one underflows.

Definitions marked `Bug:` are plausible mistakes in the definition that follows
them.  Nothing uses them; `PROJECT.json` names them as the mutations that show
that each property can fail: put in the place of the definition they belong
to, TLC finds the property violated.

Every `.cfg` says `CHECK_DEADLOCK FALSE`: the clock stops at `MaxTime`, and a
market in which every delivery is settled, every request closed and every agent
ended has nothing left to do.  That nothing stops before its time is what the
liveness properties and `WaysForward` are for.

## 3. The runs

Sizes are distinct states, after symmetry where it is used.

| run | states | what it asks |
|---|---|---|
| `pool_slash` | 370k | `TypeOK`, `Solvency`, `CourierPaysFirst`, `SharedProRata`, `SlashMakesWhole` |
| `pool_withdraw` | 186k | `ReservationLedger`, `OpenClaimCanSettle`, `FreeCapacityIsReservable`, `CapacityLostOnlyByWithdrawal`, `StakeLeavesByPaymentOrSlash`, `WithdrawalCompletes` |
| `vault_settle` | 390k | `TypeOK`, `WaysForward`, `StrandedOnlyByLateDeposit`, `CourierPaidWhenDue`, `PickupCommits`, `KeepsEscrowPromise`, `EveryDeliverySettles` |
| `market` | 777k | `TypeOK`, `OneVaultPerDelivery`, `SlashNeverBlocked`, `FailureIsCompensated`, `PartsFit` |
| `seller_agent` | 606k | `ListenerAgrees`, `WinnerIsUndominated`, `AcceptsWithinLimits`, `WatchEnds` |
| `mailbox` | 4.3M | `ConfirmedOnce`, `PauseHasACause`, `NoFailurePassesSensors`, `PausesAreKept` |
| `console` | 1.2M | `NeverAhead`, `CodesAreKept`, `UndisturbedRefreshRepairs`, `PickedBidIsAccepted` |
| `demo` | 1.4M | `ManifestIsTrue`, `RerunNeedsOnlyCapacity`, `EndToEndDelivers` |
| `clients` | 1.5M | `CodesOnFile`, `ListedBidIsAccepted` |
| `pool_capacity`, `seller_deadline`, `mailbox_anomaly` | | one statement of the source each, which TLC refutes (section 4) |

The bounds, and why the cases of interest happen within them:

- `pool_slash`: four members, the fewest for a slash with three payers beside
  the courier, so that two shares are floored and one is swept, with a member of
  no stake among them; stakes and values 1 and 3, total at most 6, so that a
  share can be 0, fractional or clamped and a courier can have less than the
  declared value; two vaults, one of them registered by hand; time stands
  still.
- `pool_withdraw`: two members, two vaults, a delay of 1 and 3 ticks: a request
  can be made, mature, and be overtaken by a reservation and by a slash.  The
  cap of 200 % is the deployed one.
- `vault_settle`: two vaults, pickup by tick 2, dropoff by tick 3, a window of 0
  or 1 and a last tick of 5, past the end of the longest delivery; parties that
  accept ether, a courier who refuses it, a buyer who does; spawned vaults and
  vaults deployed by hand, registered before, during or never.
- `market`: two couriers, two requests of one seller, one bid each, two vaults,
  four ticks: both deliveries are open at once, over the same stake, while
  withdrawals mature.  The acceptance by session key and its policy are on.
- `seller_agent`: one request, two bids out of four kinds (fast or slow, trusted
  or not, one above the agent's limit), bidding that ends at tick 2 of 3, a
  policy the seller may change at any time among three (one stricter on price
  and time, one that asks for a co-signature).  The courier has stake and the
  registry is the factory from the start.  The agent is started with or without
  a preference for trusted couriers.
- `mailbox`: two runs of the agent and one request to the server, two vaults, a
  pause of 2 ticks, a last tick of 4: overlapping, consecutive and crashed
  jobs, for the same vault and for different ones.
- `console`: two handlers at once, three clicks and one step of others: enough
  for an answer that comes back after a selection, a click on top of a waiting
  handler, a reload with a transaction on its way, and for list, pick and accept
  one after the other.  Two requests whose best bids have different indices, one
  of them with a withdrawn bid in front; an empty page that connects, or a page
  with a delivery in it.  The clock stands still, so that the requests stay
  acceptable; late answers do not need it.
- `demo`: the numbers of both scripts, in hours and hundredths of an ether, but
  for the stakes: a stake of 1 and a cap of 100 % instead of 3 ether and 200 %,
  so that one open delivery, not six, exhausts a courier.  Two runs of the
  front-end demo on each of two nodes.
- `clients`: two couriers, a market just deployed or one with a request and two
  bids, four commands in all, two of a user's at once.

Symmetry is used over accounts, vaults or jobs that no definition tells apart,
and only in runs without liveness properties.

### Properties worth a word

- `SharedProRata` bounds what each payer loses from both sides: at least the
  share rounded down, at most the exact share and one wei per other payer.
- `SlashMakesWhole` is the exact truth about the dust: a payment falls short
  only if the last other member on the list is out of stake, and by less than
  one wei per other member.
- `StakeLeavesByPaymentOrSlash` looks at every step in which anyone's stake
  shrinks, whatever the step is called: it is the payment of that member's own
  request, or a slash, which costs the pool at most the declared value.
- `WaysForward`: at every tick a delivery is in time or overdue, never both
  and never neither, which is what the paired comparisons `<=` and `>` of six
  functions must add up to.  Before the pickup the buyer can cancel at any time,
  paid in or not, and so races the courier's pickup and the keeper's refund; an
  unfunded delivery cannot be picked up and still times out.  It speaks of the
  `require`s by name (`CanPickUp`, `PickupTimedOut` and the others), which the
  actions have for guards.
- `PartsFit` says that `Marketplace` implements both of its parts.  To the pool
  it is `PoolClients`, with no vault registered by hand: what the vaults do to
  the pool is what the pool's theorems assume of them.  To the vaults it is
  `Deliveries`: the terms the registry makes up from a request and a bid are
  such as a vault takes, and what the pool recovers is within the bounds that
  `Deliveries` lets it be.
- `FailureIsCompensated` crosses all three contracts: while the pool backed its
  promises, a buyer whose delivery failed has the fee back and the declared
  value on top, less the dust.
- `PausesAreKept` states what the shared file does guarantee, and names the one
  exception: an agent run that overlapped a confirmation may put its own, older
  time back.
- `NoFailurePassesSensors` follows the sensors through the jobs: no answer of the
  AI that is lost or cannot be parsed, no crash and no agent run gets a
  confirmation past an anomaly.  Two things do, and the documentation says that
  nothing does: the AI's yes, and the want of a key to ask it with.  That is
  the run `mailbox_anomaly` (section 4).
- `ListenerAgrees` compares the listener's answers, given without limits, with
  what `watch` decides later.  Asked with the absolute time of arrival, the
  listener would have called the winning bid feasible at any time before; asked
  with a duration, as `docs/A2A.md` has it, it calls the same bid infeasible.
  And the bid that `rank-explain` names wins unless a limit or the preference
  stands against it.
- `NeverAhead` is about answers that come late and in any order: what is shown is
  an old truth about the very request, vault or listing it claims to be of.
- `UndisturbedRefreshRepairs` is the page's way out of a mix-up.  There are
  mix-ups: a handler may adopt the vault of a delivery the user has left
  (`app.js:557`), or draw a late answer over a newer selection.  A refresh that
  nothing disturbs shows the delivery in the field, and the vault in the field,
  as they are.  It leaves two mix-ups in place.  `openRequest` refreshes first
  (`app.js:344`) and then puts the new delivery's id over the request it has just
  read (`app.js:498`): of it the property says nothing.  And a delivery without a
  vault does not clear the vault's field, so that the address and the status of
  another delivery's vault stay, up to date but not this delivery's.  The
  status, bids and AI-pick buttons do not refresh.
- `PickedBidIsAccepted` has an exception: the index stays in the form when
  another delivery is selected, and means another bid there.
- `CodesOnFile` has one, too: `publish-hashes` typed twice for a delivery
  overwrites the codes before the registry refuses the second hashes.
- `RerunNeedsOnlyCapacity` reads the scripts as they are: the front-end demo puts
  up with "already member" and with a stake that is there, and so gets as far as
  its vault whatever the runs before left behind.  `demo-end-to-end.js` does not,
  and deploys contracts of its own instead.  The one thing a run does leave
  behind is a delivery that holds a courier's stake: `placeBid` and `reserve()`
  may refuse for want of capacity, and the property says that nothing else is
  refused, neither on the way there nor in the acceptance.  `Allowed` and
  `AcceptanceAllowed` put together what the transactions require; the bounds of
  the model (`MaxRequests` and the like) are left out of them.
- `WinnerIsUndominated` compares with dominance, not with the score.  A bid at
  price 0 has the score Infinity: it always wins, whatever its reputation, and
  the vault's constructor ("Vault: zero fee") then reverts the
  acceptance.  The property excepts it.

### Fairness

- `Clock`: block time goes on.
- A member who asked for a withdrawal collects it (`finalizeWithdraw` is the
  member's own call and the money is theirs).
- The functions anyone may call in a vault (`refundOnPickupTimeout`,
  `slashOnDropoffTimeout`, `finalizeDelivered`) are called sooner or later: the
  party the ether is due to has every reason to.  Buyer, courier and mailbox
  are assumed to do nothing.
- The arbiter rules on a dispute.  Nothing in the code forces it
  (`resolveDispute` is the pool operator's): it is an assumption, and without it
  a disputed vault stays open for ever.
- A script is a sequential program: its next step is taken, or it ends
  (`WF(Step)`).  For `EndToEndDelivers` nobody interrupts it and nobody else is
  on its node, as with Hardhat's in-process network.
- The agent's process runs once it is started.  Its crash is not modelled: it
  sends one transaction and writes nothing, so a crash is the end of a watch.

`WithdrawalCompletes`, `EveryDeliverySettles`, `WatchEnds` and
`EndToEndDelivers` are checked under these.

`EveryDeliverySettles` is about vaults the registry spawned.  The pool answers
those: their courier is a member and their slash never reverts, which is
`OpenClaimCanSettle` and `SlashNeverBlocked`, as long as no vault is registered
by hand.  So the fairness of `Deliveries` (`Sure`) asks for calls that go through
under that condition only, and the property promises an end under it only.  A
vault deployed by hand that nobody registers never settles: `release` and `slash`
revert for it (`StakingPool.sol:83`), and `slash` for a courier who is no member.
A delivery with a party that refuses ether can stay open, too: the code has no
pull payment.

## 4. Where the code does not do what its text says

| run | statement | what happens |
|---|---|---|
| `pool_capacity` | "activeValue <= totalStake at all times" (`StakingPool.sol:12`) | stake is requested back while idle, then reserved against, then paid out: `finalizeWithdraw` does not look again |
| `seller_deadline` | "listen until bid deadline, then accept best bid" (`seller_agent.js:42`) | one tick later the registry rejects the acceptance |
| `mailbox_anomaly` | "will not call `confirmDelivery` unless its simulated sensors pass" (`docs/REPORT.md:22`), "on a sensor-anomaly the confirmation is refused even if the code is correct" (`mailbox_agent.js:20`) | the server never tests `sensors.ok`: it confirms on the AI's yes, and without a key at once, with the reason "sensor check passed" (`server.js:125`) |

More of the kind, seen while modelling and left without a run of its own:

- "per-member reserved value <= memberCap(contribution)" (`StakingPool.sol:13`):
  a slash shrinks the stake under the member's other reservations.
- "last member sweeps the dust" (`StakingPool.sol:303`): if that member has no
  stake, `continue` comes first and nobody sweeps.  `SlashMakesWhole` has the
  exception.
- "one confirmation per 60s" (`mailbox_agent.js:18`): two jobs pass the check
  before either writes the file.  `PausesAreKept` says what is left.
- `deploy.js:21` passes a delay of 0 and calls it "1-day withdrawal delay".
- "cancel before pickup (full refund)" (`buyer_cli.js:27`): a deposit that
  arrives after the refund stays in the vault for ever, as `fund` asks neither
  for `notFinalized` nor for a state.  `StrandedOnlyByLateDeposit` has it as the
  only way to strand ether.
- `docs/A2A.md:46` sends `promisedEta` as a duration (3600); the listener compares
  it with the clock (`seller_agent.js:155`), so that every such bid is answered
  "infeasible".  `ListenerAgrees` states both halves.
- `docs/A2A.md:62` and `seller_agent.js:168` give the reason "within budget and
  deadline buffer"; the listener has neither a budget nor a buffer and checks
  none.  Nor does it refuse a price of 0: it comes as the string "0", which
  `!askedPrice` lets through.
- `deliveryProgressLabel` of the page says "Paid out" of any finalized vault,
  the refunded and the slashed included (`app.js:762`).
- A filtered bid's score of -Infinity is `null` in JSON, so that the page's
  test for it fails and the bid is logged with score 0 (`app.js:604`).

A threshold of 0 for the co-signature means "none needed" to the contract and
"always escalate" to the agent.  The models keep both readings; no text of the
repository settles which is meant.

## 5. The proofs

Theorems hold for every value of the constants that satisfies the named
assumptions (`ChainConstants`, `PoolConstants`, `VaultConstants`,
`DeliveryConstants`, `RegistryConstants`, `MarketConstants`,
`MailboxConstants`, `SellerConstants`, `ConsoleConstants`, `DemoConstants`, and
the `ClientConstants` of `PoolClients` and of `Clients`): finite sets of accounts
and vaults, amounts and times that are natural numbers, a special value apart
from the ordinary ones.  The bounds of the models (`MaxTime`, `MaxRequests`,
`MaxBids`, `MaxStake`, and how many clicks, commands, runs and nodes there are)
are any natural number.  Where a program computes what it sends from the clock,
its module keeps what a user types or a script says apart from it (`Asks` and
`Offers` of `Clients`, `EndToEnd` and `Frontend` of `Demo`), and the assumption
says that the market's set of terms holds whatever they come to.

`StakeTheorems`.  First, the sum of a function over a finite set, with the laws
the pool needs: a change at one point, a sum of sums, a bound on a sum of
floors.  The induction over finite sets is done once, with sets of subsets
instead of a predicate.  Then what one operation of the pool does, whoever calls it, so that
the pool's clients and the market share it: types and solvency are kept
(`PoolTypeKept`, `SolventKept`), a reservation opens and closes its entry in the
books (`LedgerOpens`, `LedgerCloses`), a vault in the books can be slashed
(`SlashAlwaysFits`).  The core is that the floored shares add up to at most the
shortfall, each is at most the payer's stake, and what the loop subtracts from
the members is what it subtracts from `totalStake` and sends.  `SharesAreFair`
bounds each share; `FloorsLoseLittle`, `SweeperPaysDust` and
`ShortfallEmptiesSweeper` are the rounding from the other side: the floors
lose under one wei per payer, the last on the list makes it up, and only an
empty stake of theirs leaves a difference.  They need `MembersOnce` and
`MembersHoldAll`, that the list names each holder of stake once: a stake outside
it would be in `totalStake`, which divides, and pay nothing.

`PoolProofs`.

- `TypeCorrect`, `PoolIsSolvent`, `CourierIsSlashedFirst`,
  `CapacityViewIsExact`, `SharesAreProRata`, `SlashesMakeWhole` and
  `StakeIsTakenSoOnly` need no assumption on how vaults were registered.
- `LedgerAgrees`, `NoClaimIsStuck`, `OnlyWithdrawalsLoseCapacity` assume
  `FactoryOnly`, that no vault is registered by hand.  Their inductive invariant
  is `LedgerInv` = types, `ClaimsBacked` (an open claim belongs to a registered
  vault and to a member) and `ReservationLedger`.  The ledger alone is not
  inductive: `release` clamps, and does not clamp only because the member's
  reservation contains that claim's value; and a claim of an account outside
  the list could not be charged.  With a vault registered by hand the ledger is
  false: the vault can settle, and lower somebody's reservation, without ever
  having reserved.

`DeliveryProofs`.  The inductive invariant `VaultInv` describes a vault under
way (it holds the fee exactly if it was funded, has paid nobody, is funded from
the pickup on, was delivered in time and not in the future) and an ended one
(empty, but for a deposit after a refund).  None of the properties is inductive
without it: `StrandedOnlyByLateDeposit` needs to know what a vault held before it ended,
`CourierPaidWhenDue` when it was delivered.  From it follow `VaultTypes`,
`OnlyLateDepositsAreStranded`, `CourierIsPaidWhenDue`, `PickupIsACommitment`,
`TheWaysForward` (a delivery that waits for its dispute window has one,
and it began in the past, so that the window is open or over) and
`VaultsKeepEscrowPromise`, the refinement: every step of a vault is one step
of `Escrow` or a stutter, with one lemma per step of the escrow.

The same module has the mailbox agent, whose jobs work on those vaults.
`MailboxInv` says what a job knows at each of its awaits: when
it looked at the file, what its sensors said and who consented, and, once its
transaction is mined, that its vault can never be confirmed again.  The last
conjunct is what makes `ThePauseIsKept` true: a time in the file stays, unless
an agent run that had read the file before puts its own back.  From it follow
also `AVaultIsConfirmedOnce`, `ThePauseHasACause` and
`NoFailureConfirmsAnAnomaly`.

`MarketProofs`.  `MarketInv` (theorem `TheMarketIsSound`) is, of the composed
contracts: types; each request has a vault only when assigned; each deployed
vault is registered, initialised and has a member for its courier; the two
halves of `OneVaultPerDelivery`; the pool's types, solvency and list; and
`Books`, the reservation ledger over the vaults under way.  The parts hold each
other up: a settlement closes its entry in the books only because the vault is
registered and its courier a member, an acceptance opens one only because the
vault it takes was free, which no request can have then.  From it follow

- `MarketTypesHold`, `EveryDeliveryHasItsVault` and `AFailureIsAlwaysSettled`;
- `MarketVaultsAreClients`: every step of the market is one of `PoolClients`
  or a stutter, with no vault registered by hand.  So the theorems of
  `PoolProofs`, those under `FactoryOnly` too, are true of the market;
- `TheMarketFitsItsParts`: every step of it is one of `Deliveries`, too, or a
  stutter.  `AgreementsAreTerms` discharges what `Deliveries` assumes of the
  terms on offer, and a slash is shown to recover no more than the declared
  value.  So the theorems on vaults, and the escrow's promise with them, are
  true of the vaults the registry spawns;
- `FailuresAreCompensated`, with `EscrowInv` (what a vault under way holds and
  has paid) and the pool's rounding: a vault can fail only after its pickup, so
  the fee is in it.

The last part of `MarketProofs` is what the modules over the market rest on.
What has happened on the chain stays: a request keeps what it asks for and does
not leave its last stage (`RequestGoesOn`), a bid stays where it was and as it
was but for a withdrawal (`StaysIn`), a vault keeps its terms and does not go
back (`VaultGoesOn`).  `MarketGoesOn` says so of every step.  So a program that
read something, waited, and comes back with it needs one lemma, not one for each
transaction others may have sent meanwhile.  Each of the four programs takes
only steps of the market, so that `MarketInv` is part of its invariant and
all of the above is true in its presence.

`SellerProofs` (`SellerInv`, theorem `TheAgentsMarketIsSound`).  The agent's view
of the bids is carried over its awaits by `StaysIn`: the one change that matters,
a withdrawal, the registry looks at when it accepts.  Hence
`AgentKeepsItsLimits`.  The loop of `rank()` is a recursive function over the
bids; `RankIsFirstBest`, by counting up, says that it is defined and that it
returns the first among the acceptable bids that no other outscores.  That needs the order
of the scores to be transitive: a score is a fraction, the comparison multiplies
out, and `FractionOrder` puts it together again.  Then

- `TheChoiceIsUndominated`: `DominatingOutscores`, a bid better in one thing and
  worse in none has a greater score, whichever alpha is used;
- `TheListenerAgrees`: a bid alone wins exactly if it is not late (`AloneInTime`),
  and without limits the same loop runs over more bids, so that its first best
  is the agent's unless a limit filters it.

`ConsoleProofs`.  `KeptInv` says of every handler that waits that it sends first
or not at all, and that codes on their way are those the browser keeps for that
delivery; codes are stored before they are sent and those of another delivery
are never touched.  Hence `NoCodesAreLost`.  `ConsoleInv` (theorem
`ThePageIsSound`) adds what the page and every handler believe of the chain:
that each request, list of bids or status they hold was once so, of the
delivery or vault it is filed under.  An answer is put down under what it was
asked for, which the handler took when it started and not from the form; that
makes it inductive although answers come late, in any order, and are drawn over
newer ones.  Hence `ThePageNeverRunsAhead` and, as bids keep their place,
`TheRankedBidIsAccepted`.  The third invariant is about a refresh as a whole.
`AloneInv` says that a handler which nothing disturbed is the only one waiting,
and that what its plan no longer holds has been done and still agrees with the
chain, since nothing moved meanwhile.  In every plan the details come before the
status; the status is skipped only if there is no vault in the field; the vault a
handler adopts is the one its details gave.  So whichever of the ten handlers it
was, when its last answer comes the delivery and the vault in the fields are
shown as they are: `TheRefreshRepairs`.  `openRequest`, which adopts another
delivery after its refresh, is not one of the ten.
It takes from `ConsoleConstants` that a handler that waits is not `Nothing`.

`ClientsProofs` (`ClientsInv`, theorem `TheClientsAreSound`).  What waits in
a queue of transactions was true of the market when it was typed and is of a kind that
stays true; the codes file of a delivery is at the first draw as long as nobody
typed `publish-hashes` twice, and the chain is behind the file.  Hence
`TheFileOpensTheVault` and `TheListedBidIsAccepted`.

`DemoProofs` (`DemoInv`, theorem `TheScriptsAreSound`).  A script is a plan that
shrinks.  `PlanTrue` says of what is left what its order guarantees (a delivery
is opened before it is used, a vault accepted before it is funded, the manifest
is written last), and goes from a plan to its rest; it is shown of the three
programs as they are written.  `ScriptTrue` reads off what has happened from how
much is left: with three steps to go the vault is the delivery's, with two the
fee is in, with one the package has left.  What others do meanwhile changes
none of it, by `MarketGoesOn`.  A manifest says nothing of a later node.  Hence
`TheManifestIsTrue`.  `RunInv` (theorem `TheRunsAreSound`) says more of a run of
the demo for the page: what is left is the rest of the program, step for step,
and by how many are done the couriers are members, the policy is the demo's, and
its delivery is open, published and bid for, with the demo's own numbers and at
the clock's time, as no tick passes during a run.  It needs `HandedOut`, that
nothing is stored under an id to come, so that the new delivery starts without
bids; and `Lasting`, that a step of anybody else takes none of it away.
From it, and from what `freeCapacityFor` promises (`FreeIsReservable`), follows
`ARerunNeedsOnlyCapacity` by going through the sixteen steps.

Only model-checked is what is temporal under fairness: `WithdrawalCompletes`,
`EveryDeliverySettles`, `WatchEnds` and `EndToEndDelivers`.  Liveness and
`ENABLED` are out of the prover's reach, which is why the safety properties speak
of guards by their names.

## 6. What is not modelled, and why

- Calls are atomic.  A receiver of ether may call back before the call returns,
  and `fund` and `confirmDelivery` (which may pay the courier) are not
  `nonReentrant`.  Every function changes its storage before it calls the pool,
  and pays a party by one transfer that comes last; the pool calls nobody but the
  vault it pays, or the member that collects.  So a nested call finds the state after the outer
  one, and is the next step of an interleaving that is checked; if the transfer
  fails both are undone.  That is an argument from the source: no property here
  would notice if an effect were moved behind the transfer.
- `markHeld`, `markFinalized`: only a vault may call them and no vault does.
- The operator's key is trusted for what it admits and registers; accounts are
  members at most once.  Codes are known to who may reveal them; hashes do not
  collide.
- Seller agent: the explanation text; the framing of A2A messages; the rounding
  of doubles.  Its clock, as that of the page, the server and the clients, is
  the chain's.
- Page: rendering and the log; which of the wallets signs (a call its signer may
  not make is one that fails); the request list shows the last 8 blocks only,
  the model offers every request.  `aiMailboxConfirm` is a vault's call in
  `Console` and a job of the server in `MailboxAgent`.  Sending and mining are
  one step: the receipt.
- Server: serving files.
- Clients: the commands that only read; transactions of one account are mined in
  the order of their nonces, and none is replaced.
- Scripts: `deploy.js` runs on a node that has just started; a run is shorter
  than a tick, the wait for the dispute window apart; the second manifest for
  other chains.  The tests are scenarios, and only read as a reference.

## 7. Plan

Built, in this order: pool with its clients and proofs; vaults with their
proofs and the escrow; registry and the composed market; the two agents; the
page; the scripts; the clients.

The proofs were built along the same line, each module's on the one below it.
Every safety property that a run checks is proved.  What is left: vaults
registered by hand inside `Marketplace`, and what a buyer can rely on there.
