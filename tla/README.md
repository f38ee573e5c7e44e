# Blueballs, modelled in TLA+

Blueballs is a banking API, a foreign-exchange node with its settlement
contracts, and a site that shows both. The parts that decide about money,
authority and evidence are modelled here as TLA+ modules, checked with TLC on
small instances; what matters most is proved with TLAPS for every value of the
constants. Each definition is translated from the source; the "map" of
`PROJECT.json` says which lines.

- [The system](#the-system): components, what is hard about them
- [Modules](#modules): which module models which part, and how
- [Runs](#runs): instances, bounds, fairness, what each run shows, findings
- [Proofs](#proofs): what is proved, from what, along which argument
- [Not modelled, and the plan](#not-modelled-and-the-plan)

## The system

| Component | State it keeps | Operations | What makes it right |
| --- | --- | --- | --- |
| Provider outbox (`apps/api/src/provider-outbox.js`, outcome handlers) | jobs, attempts, cases, resource rows, postings | queue with a command, claim, send, check the answer, finish, exhaust | the books say of an external movement only what the provider did; it is instructed once; doubt ends on somebody's desk |
| Webhooks and sealed secrets (`webhook-outbox.js`, `provider-payload-crypto.js`) | deliveries, jobs, keyring | stage, replay, claim, post, finish, rotate | what a tenant reads of a delivery is true; careful rotation refuses nothing |
| Provider inbound settlement (`provider-inbound.js`) | applied events | accept evidence | one settlement is credited once |
| Unit of work (`kernel.js`, `lib.js`) | cache, snapshots, staged rows, audit | begin, write, post, emit, commit, fail | a command sees itself and what is committed, and takes effect at once or not at all |
| HTTP pipeline, idempotency, keys (`server.js`, `key-permissions.js`) | quotas, replay records, keys | authenticate, gate, replay, mint, revoke | one effect per key; authority only narrows |
| Products, approvals, records (`routes/*.js`, `server.js`) | ledger, customers, cards, vaults, credit, wallets, approvals, mandates, papers, projects, QR codes, statements | the routes | every book is explained by what the products did; thresholds hold; records are borne out |
| Coin market (`routes/fx-lp.js`, `fx-swap.js`, `pricing.js`) | intents, positions, quotes | swap, rest, commit, withdraw, price | providers are covered, prices move the right way |
| Firm maker market (`packages/fx-market`) | orders, reservations, routes, chain events | admit, reserve, submit, confirm, fail, release, expire, cancel, block | no order is sold twice or beyond its signature; released quantity comes back |
| Settlement contracts (`packages/fx-contracts`) | vault, fills, cancellations, epochs, authorizations, nonces | deposit, withdraw, execute, cancel, authorize | solvent vault, atomic routes, signed terms |
| Quote coordination, risk book, reference liquidity (`apps/fx-node`, `fx-pricing`) | quotes, reservations, positions, slices | reserve source by source, undo, submit, confirm, fail, expire | a firm quote is backed by every source it names; limits hold |
| Policy engine (`packages/fx-policy`) and what the node offers under it | participants, credentials, authorizations, offers | upsert, authorize, verify, revoke, start, scenario | what verifies would be granted again now |
| Fiat settlement, monetary reserve (`fx-fiat`, `fx-monetary`) | intents, attestations, deposits, receipts | reserve, attest, settle, mint, redeem | one payment fulfils one leg; holders can collect |
| Reference trades, public runtime, simulator (`apps/fx-node`, `fx-simulator`) | trade, scenario, report | plan, reserve, apply, run | a trade is the best its budget buys; what is told is what is offered |
| Site (`workers/site`, `src/api.ts`, `SandboxPage.tsx`) | turns, budgets, calls, page | ask, answer, refund, call, show | the site neither overspends nor shows what did not happen |

How they meet. A banking command is one unit of work: its rows, postings, events
and, for an external effect, an outbox job are committed together. A pump
carries the job to the provider gateway and its answer back into one more unit
of work; another carries events to webhooks; settlements come back through the
inbound endpoint. The FX node asks policy and pricing, reserves liquidity at
each source (one is the maker market), hands the route to an execution adapter
(the contracts settle a token route) and confirms or fails every source with
what came of it. All FX stores are databases of their own.

What is hard about them:

- an outbox leaves its transaction to make a call, so commands, retries, late
  answers, timeouts and restarts fall between claim and finish;
- a call of the market is two or three transactions on a file that several
  processes may have open, and a quote is rows in as many databases as it has
  sources;
- the unit of work changes one shared cache in place and has to put back
  exactly what it found;
- a route on chain touches many balances and must leave all or nothing, and
  prices of partial fills are rounded;
- policies, keys, orders, delays and scenarios change under what was decided
  on them before;
- the same thing arrives twice: a settlement under a fresh event id, a command
  under its idempotency key, an attestation for another intent, a click.

## Modules

| Module | What it is |
| --- | --- |
| `ProviderOutbox` | the outbox, the commands that queue work, transport, contract check, outcome handlers and an external provider |
| `MoneyMovement` | abstract: what the books may say of an external movement |
| `WebhookOutbox`, `SealedSecrets` | deliveries; what is sealed under which key |
| `FxMarket`, `FirmLiquidity` | the maker market, step by step, for several processes; abstract: quantity promised to a route stays held until its outcome is booked |
| `FxVault`, `AtomicSettlement`, `AtomicExchange` | the vault; with orders, cancellation, registry and router; abstract: a route as a single exchange |
| `RiskBook`, `FxQuotes` | the bank's positions and limits; firm quotes over all sources |
| `NodeClock`, `FxPolicy` | the clock of the stores; the policy engine and what the node offers under it |
| `MonetaryReserve`, `FiatSettlement` | instruments and receipts; fiat legs and their evidence |
| `TradePlanning`, `PublicReference`, `NodeQuotes`, `FxSimulator` | a trade from its budget to firm legs; what is public of the node; quotes over the private market alone; the simulator |
| `SandboxSite` | the builder agent with its budgets, and a tab of the sandbox |
| `UnitOfWork`, `CommandStore` | the unit of work; abstract: a private copy that is committed or thrown away |
| `BankCustomers` | ledger, customers, onboarding, accounts, simulations |
| `BankPolicies`, `BankProducts`, `WalletApprovals`, `ProviderInbound`, `SwapMarket` | spending policies; rails, vaults, credit, exchange, ramps and cards; wallets and approvals; settlements; the coin market and its price |
| `ApiRequests` | commands under idempotency keys; a request before its handler; keys and tenants |
| `BankRecords`, `BuilderProjects`, `QrCodes` | mandates, payees, papers, statements, pages, netting; builder projects; payment codes |
| `MCProviderOutbox`, `MCFxMarket`, `MCFirmQuotes`, `MCReferenceNode`, `MCBanking` | the small instances, and properties that join those of several modules |
| `ProviderOutboxProofs`, `FxMarketProofs`, `AtomicSettlementProofs`, `FxQuotesProofs`, `BankingProofs`, `StoreProofs`, `SiteProofs` | theorems |
| `SumTheorems` | lemmas about sums over finite sets, minima and division that rounds up |

### ProviderOutbox

One action is one unit of work (`inRequestScope` commits all of it or nothing)
or one step of the pump between two of them. `ReserveAndQueue` and
`CreateAndQueue` are the commands (balance check, postings to `clearing:*`,
resource row, job). `Claim` takes the lease and counts the attempt,
`ClaimExhausted` sends a job to manual review, `Send` / `PayloadUnreadable` /
`TransportAmbiguous` are the ways out of `sendProviderOperation`, `Finish` is
the transaction that applies the checked result with the handler of the
capability, `Abandon` is a crash: the attempt in hand lives in memory only.
`LeaseExpires` is the clock. `ProviderHandles` and `ProviderConcludes` are the
provider: it need not deduplicate `job_id`, and may answer late or never.
`worker` is the single attempt in hand, as the `draining` flag allows one
drain per process.

Abstractions. `next_attempt_at` is not kept: a waiting job may be claimed at
any time, which allows more than the code does. `rejected_before_submission` is merged with
`not_sent`, and `submitted` with `unknown`, which the code treats alike. The
ledger is the account's balance, the amount in the clearing account (`held`)
and the amount in `external:settled:*` (`paid`) of each job. Only the handlers
that production runs are there; freezing a card, closing an account or
cancelling a transfer are sandbox operations (`spec/banking/operation-modes.mjs`).

Assumed of the provider: a `retry` answer or a 429 means the request was left
alone, a `not_sent` answer is definitive, success means it was done.

Fairness (`Fairness`): the pump's timer keeps draining, the request has a
timeout, an answer is finished, leases run out. Nothing is assumed of the
provider, the network or crashes.

### FxMarket

`op[p]` is the call process p is in and the step it has reached: each step is
one transaction of the code (for `reserveExactOutput`: reservations, then the
route row; for `confirmSubmittedRoute`: fills, then the route row, then the
order states). A process may die between steps (`MayCrash`). Tables are
functions over orders and routes; `chain` is what became of the execution.
Whether an order's window covers the clock, its authorisation verifies or a
route has expired is asked of the environment at each use. `offchain_hidden`
and `onchain_invalidated` are one set, since what sets the latter has no
caller; `Greedy` is the matching loop of `SqliteFxMarket.reserveExactOutput`.

`alone` says that one process runs at a time and finishes its calls: what is
promised to a route in execution can be kept only then (`AloneInFlightHeld`,
`AloneImplementsFirmLiquidity`); everything else is asked of any number of
processes.

Methods of `SqliteFxMarket` that nothing under `src/` calls are left out, so
the component is listed as partly modelled.

### FxVault, AtomicSettlement

One external function is one action; a revert is a step not taken. `execute`
alone is taken apart, into `Execute`, one `SettleFill` per turn of its loop,
and `Finish` or `Revert`, with the state to go back to kept in `route.before`;
transactions are serial, so nothing happens in between. Nothing is lost by it:
every state a revert can undo is visible to the invariants.

Contracts are deployed and bound to each other in `Init`. Validity windows and
deadlines are asked of the environment (a call that is out of time reverts).
Signed orders and intents are constants: a signature that does not verify
reverts. A policy authorization that expired, was revoked or never granted is
`NotLive`. A withdrawal request keeps its age instead of its block; ages above
`2 * MaxDelay` make no difference, so `MaxAge` is exact. Tokens may take a fee
from what is deposited or from the sender of a transfer, and anybody may send
tokens to the vault, but tokens do not call back and balances change by
transfers only (no rebasing). Amounts do not overflow 256 bits: checked
arithmetic reverts, and the only unchecked subtractions are from a balance just
compared with the amount and from the liabilities that include it
(`LedgerAddsUp`).

### RiskBook, FxQuotes

Every source of a quote keeps its reservations in a database of its own, and
the quote is a row of one more, so a call over the legs is many transactions.
`reservePlan` and `releaseTrade` await each leg: other requests run between
`ReserveStart`, `ReserveLeg`, `InsertQuote`, `ReleaseLeg` and `ReleaseMark`, and
`call[q]` is the leg the call on quote q is at. `markSubmitted`, `confirm`,
`fail` and `expire` run to their end without an await; `Submit`, `Confirm`,
`Fail` and `Expire` are one action each, which reaches all the legs or stops
after some of them, when a leg refuses or the node dies. `disturbed` remembers
that a call was cut short by a crash or a database error.

`leg` and `held` are the reservations and the reserved output of the reference
sources and of the maker orders, `risk` and `delta` those of the bank.
`LeaveMarket` is what `FxMarket` does to an order that is cancelled or blocked:
its reservations are released unless its route was submitted. A maker order is
taken whole or not at all, so a private leg has one order, while the code may
put several into a route; `FxMarket` models those. `chain` is what became of the
execution: nothing until the adapter was called. `confirm` and `fail` are called
by an operator or by the adapter's answer, in any state of the quote and any
number of times, but tell the truth about the execution; a call that repeats an
outcome with another event id is refused and is not a step.

Abstractions. Sources are numbered from the cheapest, so a plan is the greedy
use of them in that order (`Planned`). The bank charges `Cost` for a unit of
output; a leg's price, validity, policy and presence are asked of the
environment at each use. `riskBook.expire`, which nothing calls, is left out,
and so is a second release of a trade while one is under way, which finds
nothing left to give back.

### WebhookOutbox, SealedSecrets

`EnqueueEvent` stages one delivery for every webhook that listens; `Replay`
makes another with an ordinal of its own. The one pump claims under a lease
(`Pump`), posts (`PostDelivery`), records (`FinishAttempt`) and may die in
between (`PumpDies`). What a tenant reads (`delivery`) and what the pump works on
(`job`) are two rows; `accepted` and `posted` are the receiver's side.
`SealedSecrets` is the keyring over deployments: what is sealed under which key,
and which commands and attempts need to open it. `careful` remembers whether
each deployment kept the keys that rows still name, as the documentation asks.

### UnitOfWork, CommandStore

`inRequestScope` is `Begin` when its turn has come, writes that change the shared
cache in place after a snapshot of the row's content (`SnapshotOnce`), postings
and events that wait in the store, and an end that commits all in one
transaction (`CommitUnit`) or puts the rows back (`Restored`); a process may die
in between. A row is who wrote each of its fields. `CommandStore` is what handlers are promised: a private copy of all
that is committed, that becomes the committed state in one step or is thrown
away. The refinement is what allows every Bank module to take a request as one
action.

### The banking products

A book is an account in a currency; `ledger` maps books to balances, and
`Post` is the only way to change it. `BankCustomers` has customers with their
applications, accounts that open and close, and the simulations that fund them;
`BankProducts` adds rails (a transfer settles now, or later unless it is cancelled
before), vaults, credit lines, exchange between any two currencies, coins
included, against quotes that lapse, ramps, and cards with disputes and freezes. An
authorisation is asked for under the policies attached to the card, its merchant
categories and its limits per purchase, day and month; approving it settles it.
`BankPolicies` has the policies with their caps, for cards and wallets alike;
`WalletApprovals` wallets and chains that ask several people; `ProviderInbound`
what production credits on evidence; `SwapMarket` the coin market: intents cross
resting makers, then the pool, then the operator's book, and the plan settles
whole or not at all. `PricesInOrder` is about the price formula over what
rests in a corridor, `ProvidersCovered` about what a pool owes its providers;
both are parts of `FiguresAddUp`. `BooksExplained` says of every book of the
products and of the builder (`BooksSpec` in `BuilderProjects`, which joins them
over one ledger) what explains its balance, in terms of their rows: a rail's
clearing book is what was sent over it and not returned, the credit books what
is drawn, the issuer's reserve in a currency what the coins redeemed in it come
to, a project's book what its accounts were seeded with. A handler that posts
twice, not at all, or to another book breaks it.

### Commands, gate, keys, records

`ApiRequests` has three parts. `CommandNext` is the pipeline of a mutation in its
order: quota, today's checks, the idempotency lookup, the handler, the stored
answer. `GateNext` is what happens before: a quota per source at arrival, the body and the turn in the
queue, and only then the credential, the tenant's quota, what the route asks and
the mode of the process; a key may be revoked at any of these steps. `KeyNext`
mints keys from keys and starts processes in both modes over one database.
`BankRecords` holds rows derived from others (a subscription from a mandate, a
name check from the name it holds) and what is computed from the journal:
statements, pages read by cursor while the list grows, netting batches. Of a
statement that runs to the present, the opening balance is what was posted before
and what the statement before it closed with; of one for a past period only the
transactions are asserted, the same whenever it is made, since its balances are of
the day it was made on. `BuilderProjects` and `QrCodes` are the sandbox builder and
the payment codes, with their checksum computed as the code does; `ReadsBack`
speaks of codes whose lengths have two digits, run `qr` shows one that does not.

### The stores of the FX node

Every call of these stores is one synchronous transaction, so it is one action;
what interleaves are calls of different callers, the clock and restarts.
`FxPolicy` is the policy engine and, beneath it, what the node offers:
`Startup` configures the reference policy and seeds accounts, credentials and
authorizations again (the settlement graph is in memory only), `Scenario` what an operator
applies. An authorization is its place in the sequence of rows. `MonetaryReserve` spends reserve oldest deposit
first, by redemption and receipts alike. `FiatSettlement` takes evidence in any
order, late, repeated or aimed at another intent. `TradePlanning` is the
bisection for the largest payout a budget buys and the legs firmed one by one
while sources change. `PublicReference` tells anybody what each source offers.
`NodeQuotes` is the quote row beside the market's route, in two databases, with a
crash between the two writes. `FxSimulator` is the run of a simulation with all
counters of its report.

### SandboxSite

The agent of the builder is one object per tenant with its own daily count, and
one object counts for all; each runs one event at a time and takes another
wherever a handler awaits (`asked`, `allowed`, `calling`). The second half is a
tab: calls through a key that may be rejected and replaced, retries, the guard
against a second click and the page that shows a project.

## Runs

| Run | Instance | What it shows |
| --- | --- | --- |
| `outbox` | parts `provider` (a transfer with four attempts, a card, an identity check, two custody sends that compete for 2 units), `webhooks` (one event, one webhook, one replay, two attempts) and `secrets` (six deployments, production and sandbox) | `BooksMatchProvider`, `AtMostOneInstruction`, `TransferMoneyAccountedFor`, `NothingFromNothing`, `DeliveriesHonest`, `ImplementsMoneyMovement`, and the liveness `TransferEnds`, `DeliveriesEnd` |
| `evidence` (violation) | one custody send | see findings |
| `market` | two processes that may crash, orders of 3 for 4 and 2 for 3, a route for 4 and two for 1; also one process alone | `BooksBalance`, `FilledByRoutes`, `RouteTold`, `LiquidityRestored`; alone: `AloneInFlightHeld`, `AloneImplementsFirmLiquidity` |
| `market_stranded` (violation) | one process | see findings |
| `routes` | parts `contracts` (a maker with two orders, 3 for 2 at epoch 1 and 1 for 1 at epoch 0, a taker, a maker that takes its own order) and `coordinator` (two quotes for 2 units from a reference source, a maker order and the bank, capacities and limits of 1 or 2) | contracts: `Solvent`, `LedgerAddsUp`, `CancellationIsFinal`, `ImplementsAtomicExchange`; coordinator: `LegsAccountedFor`, `InFlightBacked`, `ExposureBound` |
| `leaving` (violation) | one account, one unit, delays up to 4, fairness for the leaver | see findings |
| `quote_stuck` (violation) | part `coordinator` | see findings |
| `stores` | parts `policy`, `money`, `fiat`, `trade`, `public`, `quotes`, `simulator`, `agent`, `client`, up to time 2 | `PolicyHolds`, `HoldersCanCollect`, `OnePaymentEach`, `FinalStaysFinal`, `TradesHonest`, `MarketAsTold`, `AnonymousChangesNothing`, `SentOnceAndHeld`, `SimulationAddsUp`, `SiteHonest` |
| `products` | parts `onboarding`, `rails`, `savings`, `exchange`, `coins`, `cards`, `limits`, `wallets`, `inbound`, `swap`, `commands`, `unit`, `mandates`, `payees`, `papers`, `keys`, `builder`, `qr`, `statements`, `pages`, `netting`, `gate`, `prices`, up to time 1 | `BooksExplained`, `CreditedOnce`, `ThresholdHonoured`, `AuditTellsTruth`, `ImplementsCommandStore`, `AccessKept`, `ReadsBack`, `RecordsBorneOut`, `FiguresAddUp` |
| `replay` (violation) | part `commands` | see findings |
| `freeze` (violation) | part `cards` | see findings |
| `qr` (violation) | part `qr` | see findings |

A run with parts checks modules that share no variable but the clock, or the
ledger: a behaviour picks one part at the start and the others stay as they
were initialised, so the state space is the sum of the parts and not their
product. What the parts do share is in the part that needs it: a product over
the ledger always runs with the customers and accounts it needs.

Bounds. Two orders make a route over several orders and routes that compete;
3 units at 4 (or 2) make prices that do not divide, so that rounding each fill
and rounding the total differ; `Budget = 4` lets a job be submitted, doubted,
reconciled and exhausted, while the ten attempts of the code add only
repetitions; two processes are the least that interleave, three routes the least
at which one is released, one submitted and one refused. `Supply` bounds the
tokens of a kind in the vault, `Filers` who files requests, `MaxEpoch` epochs,
`MaxFee` what a token charges. With capacities of 1 and 2, quotes for 2 units
need one to three legs, the second quote finds what the first left, and a limit
of 1 or 2 makes the bank's leg fit or not; `OneTightLimit` lets the operator
tighten one limit at a time. In `stores`, two instruments over one
reserve, one of which needs 150% cover, two receipts and three ticks make
reserve that is locked, lapses and is spent elsewhere; two intents, two
payments and evidence with either's identifiers make every replay; a policy
with a second version, epochs up to 4 and three issued rows make facts that
change and change back around an authorization. In `products` amounts are 1 and
2 over at most 3 units of funds, enough for two commands of one kind to compete
and for a limit to be met exactly. Cards run in two parts: `cards` with disputes
and freezes by two keys, `limits` with policies and two settings of a card's
controls, the tighter of which admits one merchant category and one unit at once
and a day, over months of two days. Quotes run in two: between dollars and euros,
and between dollars and a coin that an account (`coinacc`) is in. The codes have
merchants whose ids are 75 and 76 characters long, the last whose template has a
two-digit length and the first that has not. `MaxCommands`, `MaxTxns`,
`MaxRowsListed`, `MaxTurns` and the like say how often a step may be repeated.

`market` is symmetric in its processes, the coordinator of `routes` in its
quotes, `stores` in receipts and intents; no run with a symmetry checks liveness.
Deadlock is checked in `routes`; elsewhere the system may stop: nothing left to
do, all jobs ended, no calls.

Fairness. `Fairness` (outbox): the pump's timer keeps draining, a request has a
timeout, an answer is finished, leases run out (weak fairness each). `Delivering`
(webhooks): the same of the other pump, and retry delays end. Nothing is assumed
of providers, receivers, the network or crashes; a crash is a step that may
happen at any time, but each one spends an attempt, and attempts are bounded by
the code. `TransferEnds` concludes only about the transfer, whose attempts are
bounded by the code's budget alone; the other jobs are cut off before that by
the bound `Tries`. `LeaverFairness` (in `leaving`): blocks keep coming and an
account files and withdraws whenever it may again and again (strong fairness:
the owner may close and reopen the window).

### Findings

- `evidence`: a custody send is settled from an event that may have been
  trimmed; the job then succeeds, its case is closed and the reservation stays.
- `market_stranded`: withdrawing one order of a route ends the route but not
  its other reservations, and nothing ends those later.
- `leaving`: maturity and expiry of a withdrawal follow the delay in force, so
  a delay that is lowered can take a request from too early to too late; the
  owner can do so for ever, though the contract says withdrawals cannot be
  stopped.
- `quote_stuck`: a quote is stored as SUBMITTED before the private market looks
  at the maker's policy; if that refuses, the quote is never executed and can
  neither fail nor expire, while its other legs stay reserved.
- `replay`: the slot and the fingerprint of an idempotency key leave out the
  path's parameters, so the same key on another card is answered with the first
  card's result and nothing is done.
- `freeze`: a key that may not lift a freeze may freeze the frozen card again,
  and so becomes the one that may.
- `qr`: a merchant id has no maximum; from 76 characters on the template it goes
  into is 100 or longer, a length that is written with three digits and read with
  two, so the code as it was made is refused or misread.

Observed, modelled where a module reaches it, and not stated as properties:

- a webhook secret sealed under a key that was retired makes every command of
  every tenant that emits an event fail, since an event opens all secrets first
  (`provider-payload-crypto.js:139`, `webhook-outbox.js` `enqueueEvent`); hence
  `careful` in `SecretsSurvive`;
- a rebate beyond the base is not paid while the reason says "you are being
  paid" (`pricing.js:97-112`);
- an unreadable payload during reconciliation records `not_sent`
  (`provider-transport.js:241`);
- cancelling a filled order relabels it `CANCELLED` (`market-service.js:388`);
- a crash between the two transactions of `releaseRoute` leaves a route that can
  be submitted with nothing reserved (`market-service.js:226`).

## Proofs

All theorems hold for any constants that satisfy the named assumptions
(`ConstantsAssumption`, `MarketAssumption` and so on, in the module that declares
the constants; TLC evaluates them in the runs). Every module of proofs gives
its inductive invariant as a theorem of its own and derives the rest from it.
40 properties are checked by runs; `PROJECT.json` "theorems" says which of them
are proved, and where.

`ProviderOutboxProofs`. `Inductive` is the invariant: the attempt in hand holds
its job's lease (`WorkerHoldsLease`), its answer is supported by what the
provider did (`AnswerSupported`), nothing that may have reached the provider is
submitted again (`SubmittedOnce`), the amount is where the job's status says
(`MoneyPlaced`, `TransferTold`), doubt has a case. `BooksMatchProvider` alone
is not inductive: an answer in hand could be about something the provider never
did. With `TypeOK` it gives `TypeInvariant`, `InductiveInvariant`, `BooksAgree`,
`InstructedOnce`, `UncertaintyIsOpen`, `TransfersAccountedFor`,
`TransferStatusTold`, and `Refinement`: the outbox implements `MoneyMovement`.
`NothingIsCreated` adds `MoneyIsWhole`: what an account was given is its balance,
what its jobs hold and what they paid out, a sum over all jobs.
`DeliveriesAreHonest` is about the two parts beside it. A delivery agrees with
its job and counts at least what was posted (`DeliveryInv`); a secret is sealed
under a key its deployment could open, as long as every deployment was careful
(`SealInv`).

`FxMarketProofs`. `Inductive` joins the books, the order states, what a recorded
route leaves behind and what the step reached by each call may rely on
(`CallSound`): without the last, a confirmation resumed after another process
acted could not be bounded. It gives `BooksAlwaysBalance`,
`RoutesTellTheOutcome`, `LiquidityIsRestored` and `WithdrawnOrdersStayOut`, for
any number of processes and crashes. `FilledByRecordedRoutes` sums over routes.
Where requests run one at a time, a stronger invariant about the only call holds
(`InFlightIsHeld`) and every step is one of `FirmLiquidity` or a stutter
(`FirmLiquidityRefinement`).

`AtomicSettlementProofs`. `Inv` is types, signed fills and totals together: a
fill's payment is a natural number only because the total paid so far is the
rounded price of the total sold. It rests on lemmas about rounding up
(`CeilDivParts`, `CeilDivMonotone`, `CeilDivWithin`) and about moves between
accounts that may coincide (`MovedParts`). It gives `TypeInvariant`,
`FillsStayWithinSigned` and `RouteTotalsAreReal`; `VaultIsSolvent` adds that
routes touch neither physical balances nor liabilities, `CancellationIsForGood`
that a running route has sold nothing of an order that is withdrawn
(`RouteSparesWithdrawn`), and `LedgerIsTrue` that balances add up to liabilities
before, during and after a route. `SettlementRefinement`: the contracts
implement `AtomicExchange`. A running route maps to the state before it; only
`Finish` moves, and what it moves is the sum of the fills that the loop had
done, which the invariant keeps equal to the totals of the exchange.

`FxQuotesProofs`. `Inductive` says for every quote what its state, its execution
and the call at work on it mean for its legs (`Coherent`). `InFlightBacked`
needs `CallMatchesQuote`: while a trade is being released one of its legs is
already gone, so `validateReserved` stops a submission that comes between. One
lemma per action shows that it keeps its own quote coherent and leaves the
others alone but for orders that leave the market (`Preserves`, `Keeps`,
`KeptIsCoherent`). It gives `TypeInvariant`, `QuotesCoherent`,
`ExecutionIsBacked`, `LegsAgreeWithQuote`, `ExposureIsBounded` and
`CapacityIsRespected`, for any number of quotes and sources, crashes and
database errors. `EveryLegAccountedFor` adds `LegsInv`: what a source has reserved is
the sum of the legs that are live there, the principal's in both directions.

`StoreProofs`. `QuoteSentOnce` rests on what a quote row may lag behind its route by,
and what the call in flight may rely on, per quote (`NodeQuoteInvariant`).
`PaymentUsedOnce` and `LegNeverTakenBack` rest on the attestations an intent
counts and the identifiers they consumed (`FiatInvariant`). `ReserveCovers` is
about sums: settled deposits against supply and locked receipts. Deposits are
spent greedily, and minting, redemption, receipts and lapses each change two of
the three sums by the same amount. `PolicyAlwaysHolds` rests on `NodeInv`: an authorization
is `Deserved` as long as the epoch in the row is its participant's, that is,
everything `authorize` looked at under the policy the row names is unchanged,
and the credentials it needed outlive the row. It is the epoch that makes
`verifyAuthorization`, which looks at neither credentials nor attribution, as
good as asking again; that two policies with one id and version are one policy
is an assumption (`PolicyAssumption`). `EndedStaysEnded` are the action
properties of the policy engine and of fiat intents. `ReportAddsUp` is about the
simulator's own specification (`SimSpec`): sources taken in turn give a covered
request whole (`FillsAreWhole`, from `TakenInOrder`), what the types of source
gave is what the sources gave (`FilledByTypes`), and `SimInv` carries this through
rejections, failures and settlements.
Of `PublicReference`, `PublicInv` says that what a scenario did to desk, policy,
bank or feed stays done until the next one or a restart, since trades only take
from a desk and add to what the bank has settled. `EverybodyIsToldTheTruth` adds
that what is told of a source, and what a trade is offered there, are the same
sums over the trades that hold something (`ToldIsOffered`). `AnonymousIsHarmless`
is the action property of the paths that need no key: reading may block an order
of the market, and only one that was of no use.

`SiteProofs` is about the two halves of `SandboxSite`. `AgentInv`: what was let
through to the model on a day is at most the count of that day, unless the budget
was asked for a day after a later one (`BudgetInv`); and a turn that runs for a
tenant that never asked twice at once is that tenant's only one, later than all
its answers, holds the count that is written and has heard the conversation as
it stands (`TenantSound`). So an answer, which writes count and conversation
from what it read before the model was called, writes what is there with itself
added (`OneMoreAnswer`). `ClientInv` says of every call what its verdict means for
its effect (`EffectOnce`), of every key that it was issued and is accepted,
expired or thrown away, and of the page that what it knows of a project the
server once said; projects only advance. `SiteStaysHonest` puts `SpendStaysBounded`
and `ClientIsHonest` together.

`BankingProofs` is about three specifications that are parts of the `products` run.
`RequestsSpec` joins commands, gate and keys: each step of the run's parts
`commands`, `gate` and `keys` is one of its steps. `AccessIsKept` rests on
`RequestsInv`. What is kept under an idempotency key names the last command that
ran in that slot, and the log has nothing later (`LogKept`): a command that runs
again does so because that one has been forgotten. What a source or a tenant was
counted is as many turns as it took in this window, and what a key may do is
within what its maker may, so by closure under issuers within what any key above
it may; `Above` is stated as the smallest family closed under issuers, which needs
no recursion.
`MoneySpec` joins customers, accounts, simulations, wallets, approvals and inbound
settlements; each step of the parts `onboarding`, `wallets` and `inbound` is one of
its steps. `MoneyInv` says that ids of chains and approvals are taken in
order, so that none is written over, and that an approval carries the steps its
own chain asks for and deciders that chain names; without it a chain that is
rewritten under a pending approval would lower what that approval needs. Every
step either sends from one wallet (`Left`) or pays in from a book of the bank
(`Received`), and which book tells whether a settlement was applied.
`ThresholdAlwaysHonoured` is the action property; `SettlementsCreditedOnce` sums
over all settlements.

`BooksSpec` joins the products and the builder; each step of the parts
`onboarding`, `rails`, `savings`, `exchange`, `coins`, `cards`, `limits` and
`builder` is one of its steps. `BooksExplained` alone is not inductive, and not only because it is silent
on rows: a cancelled transfer goes back in the currency of its rail, so a transfer
must be of an account in that currency; what the exchange holds stays positive
only if every quote that is kept is fair, which is a fact about rounding down
(`RoundedDown`); coins go back to the issuer from the accounts they were issued to,
so what was issued of a coin is what accounts in the currency it is redeemed in
hold of it, and an account holds foreign money only in coins; the seed of a project is explained only if its accounts were empty of it
before. `BooksInv` has one part for each of them (`SandboxInv`, `RailInv`,
`CreditInv`, `VaultsInv`, `CoinsInv`, `ExchangeInv`, `AuthorisationsInv`,
`BuilderInv`) beside the ledger's type and `NobodyOverdrawn`. Each book is the
home of one part (`HomeOf`), each operation shows that its own part accounts for
what it posted, and `OthersKept` spares it the rest: a part none of whose books
nor rows moved is kept. Assumed of the constants: the sets are finite, the
bank's own books are apart from each other and from the customers', a rail and a
coin have a currency, a vault and a line an account, and a quote's spread is at
most the whole amount (`CustomersAssumption`, `ProductAssumption`,
`CardsAssumption`, `ProjectsAssumption`).

`BankingProofs`, of `UnitOfWork`: a command that runs is the only one, and what its snapshots
hold, where they were taken, and the cache elsewhere, is the disk
(`UnitInvariant`). `AuditIsTrue` follows with the bookkeeping of who wrote which
field, and `UnitRefinement`: the unit of work implements `CommandStore`, with the
cache as the private copy and the disk as the store.

Sums. `SumTheorems` says how a sum over a finite set changes when one of its
terms does, or when the set gains or loses an element. The sums of the community
modules are recursive; the lemmas are proved from their definition by first-order
induction over the set of good subsets (`SubsetInduction`, `ElementInduction`),
since the library's induction theorems take an operator as a parameter.

Only model-checked, and why:

- liveness (`TransferEnds`, `DeliveriesEnd`): needs fairness and ENABLED;
- `ReadsBack`: a checksum and a parser that run over a text of any length, which
  is induction over data;
- `TradesHonest`: the bisection and sums over sequences, likewise;
- `RecordsBorneOut`, `FiguresAddUp`: statements, reports and batches are folds over
  the journal, and the pool sums with operators as parameters
  (`SumOf(S, LAMBDA ...)`), about which the library's facts cannot be used;
- the violations.

## Not modelled, and the plan

Not modelled: validation, schemas and parsing (pure functions of a request),
cryptography, the HTTP and command-line wiring, the storage adapters
(`packages/sqlite-compat`), the stateless client (`fx-sdk`), the workers that
run the same API and node in durable objects, the presentation of the site (its
pages, catalogues and demonstrations), scripts, generated documents and
fixtures. Of modelled components the following is left out: methods nothing
calls (`riskBook.expire`, five of `SqliteFxMarket`), how a price is made of
reference rates, the authorization of the customer of a quote, payment links,
receiving details and catalogues of the banking routes.

Planned next: the sums over the journal and the pool restated over
`SumFunctionOnSet`, as those of the products are, so that `RecordsBorneOut` and
`FiguresAddUp` can be proved too.
