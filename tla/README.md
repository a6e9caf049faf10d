# KryonV2: a verification of the perpetual exchange

KryonV2 is a perpetual-futures exchange on Stellar. Orders are signed by
traders and matched off chain; a match becomes a trade when a Soroban contract
accepts it. Collateral, positions, funding, liquidation and bad debt live in a
group of contracts. This directory holds TLA+ models of the parts whose order
of events decides whether money and orders are accounted for, the TLC
configurations that check small instances of them, and proofs for every value
of the constants. `PROJECT.json` maps every definition to the lines it models.

Paths below are relative to `src/`; `contracts/` stands for
`kryon-protocol/contracts/`.

## 1. Inventory

### Contracts (Soroban, Rust). Every call is one atomic transaction

| component | state | operations | what makes it correct |
|---|---|---|---|
| perp-order-gateway | filled amount and cancellation per (owner, nonce), each with an expiry; operator, domain, pause | `settle_fill`, `settle_fill_signed`, `cancel_order`, `reclaim_order_state`, setters, pause | no order is filled beyond its size, after its expiry, or after its cancellation, although the entries that say so may be deleted |
| perp-engine | positions per user, open interest (total, long, short), funding indexes | open, increase, reduce, liquidate_reduce, charge_trade_fee, update_funding | positions are netted; counters equal positions; funding settled before every size change; margin holds after every trade |
| perp-vault | balances (may be negative), recorded assets, copy of positions and funding, totals | deposit, withdraw, apply_pnl, sync_positions, account_health, absorb_bad_debt | value is neither created nor lost; health sees every balance and position |
| perp-insurance | fund and bad debt per asset | deposit, pay_liquidator, cover_deficit, record_bad_debt | deficits are covered or recorded |
| perp-liquidation | configuration | liquidate | only unhealthy accounts, and their health improves |
| perp-oracle-adapter | configuration, source publishers and last price per feed | set_feed, set_quorum_feed, set_source_publisher, write_price, write_quorum_price, get_price | only fresh prices, never replaced by older ones; a quorum outvotes a faulty source |
| perp-governance | proposals with their earliest time, pause | queue, execute, cancel, emergency_pause | executed at most once, after its delay, not while paused |
| perp-risk | none | wrappers around risk-engine | (stateless) |
| protocol-core, risk-engine, order-types | none | fixed-point arithmetic, margin, funding, order hash | rounding toward zero, bounded |

A fill is a transaction of nested calls: gateway -> engine (maker's side) ->
vault, engine (maker's fee), then the same for the taker. `liquidate` calls
vault, engine, insurance and vault again. An error anywhere reverts it all, so
interleaving inside the contracts is not the difficulty. The difficulty is the
order of the nested calls, copies kept in two contracts, and long sequences.

### Services (TypeScript) and the database

| component | state | operations | what makes it correct |
|---|---|---|---|
| matcher service | none between ticks; writes `Order.filledSize`, `Fill`, `TxJob` | tick: load book, match, persist fill (3 statements), settle or queue, roll back (3 statements) | the book offers what the gateway will still fill |
| settlement submission | none | simulate, send, poll | an answer is what happened on the ledger |
| sign route | writes `TxJob` | merge an authorisation entry; with both, claim, rebuild, send, store the hash | one submission per job |
| settlement reconciler | writes all three tables | check submitted jobs, resubmit, expire stale queued jobs | every job is resolved, as what it became |
| order routes | writes `Order` | place, cancel | |
| clear-stale-jobs | writes all three tables | undo and fail old queued jobs, by hand | as for the reconciler |
| oracle keeper | last confirmed publication per feed, last activity | turn: is a price needed, fetch, decide, simulate, send, poll | remembers only what is written; publishes before the old price is too old; idles only when nobody needs a price |
| liquidation keeper | none between ticks | newest accounts: health, positions, propose all, half, a quarter; keepalive of instances | liquidatable accounts are liquidated whatever else fails |
| state-indexer, stats-aggregator | Market row, TraderStat | copy columns, count fills, on timers that do not wait | the copies come to agree with what they copy |
| ws-server | cursor per market | broadcast book and new trades on a timer | each trade once, every subscriber the current book |
| ttl-keeper | none | daily: extend every instance, and on mainnet the code the manifest names, in one transaction | what it looks after is archived only if its runs keep failing |
| monitor | alert state per check | rounds of checks, alert, remind, recover | an outage is reported |
| deployment scripts | checkpoint file, addresses | upload, deploy, initialize, wire, transfer admin rights | a rerun after a crash repeats or skips exactly what it should; the live contracts stay wired |
| Rust node-runtime, indexer-api, matcher, keepers | event store, queue, order book | not deployed | |

### Web front end (Next.js)

| component | state | operations | what makes it correct |
|---|---|---|---|
| wallet calls (`lib/stellar/invoke.ts`) | sequence number of the account | build, simulate, sign, send, poll | a retry does not double what is on its way |
| trading terminal | local order list, open dialogs | place, close, cancel, deposit, reconcile with the ledger | the newest orders listed agree with the ledger; "cancelled" means no fill |
| market data | socket, subscription, store | REST polls, WebSocket with reconnection, market change, hidden tab | the shown book is the market's current one |
| pages, charts, tables | none | display | |

The services share the database without transactions: each statement is atomic
and nothing else is. `render.yaml` and `docker-compose.yml` run one instance of
each service; the code also allows for more ("another instance may have
processed it", `client/scripts/matcher-service.ts:291`; "concurrent reconciler
runs", `client/scripts/settlement-reconciler.ts:147`), and a rolling deploy
overlaps two.

### What is hard here

* Reclaiming storage that still protects an order (gateway).
* Order of fee, margin check and funding settlement in nested calls; flips
  through zero; two copies of positions (engine and vault).
* Who pays what one funding side does not receive, and what an underwater
  account cannot pay.
* Statements of two services, or two instances of one, in any order; a crash
  between any two; a transaction that lands after its sender has given up.
* Timers that do not wait for the work of the previous tick; answers applied
  after the state they were asked for has changed (indexer, aggregator,
  monitor, broadcast, reconciliation of orders, REST polls).
* Scripts that are stopped half-way and run again, on contracts in use.

`PROJECT.json` lists each hazard at its line, with the properties that cover it.

## 2. Modules

    FillLedger   <--(refined by)--  OrderGateway  <--  OrderGatewayProofs
                                         ^ MCOrderGateway
    FixedMath  <--  Exchange  <--  MCExchange, ExchangeProofs (with SumTheorems)
    Settlement  <--  MCSettlement, SettlementProofs
    FixedMath  <--  OracleAdapter  <--  OracleFeed  <--  MCOracleFeed, KeeperProofs
    Governance  <--  Deployment  <--  MCDeployment, DeploymentProofs
    MarketFeed  <--  MCMarketFeed, MarketFeedProofs
    WalletCalls  <--  Terminal  <--  MCTerminal, TerminalProofs
    LiquidationKeeper, TtlKeeper, StateIndexer, StatsAggregator, Monitor
                                   <--  Services  <--  MCServices
    TtlKeeper  <--  KeeperProofs

* **FillLedger** is what the gateway promises a trader who signed an order: no
  nonces, entries or reclamation, just orders that trade up to their size,
  before their expiry, while not withdrawn.
* **OrderGateway** is the gateway contract. `filled` and `cancelled` are the two
  storage maps; `ReclaimOrderState` deletes entries past their horizon. The
  history variables `traded` and `lastCancel` remember what the storage may
  forget. A failed call changes nothing, so it is a stuttering step; whether the
  engine accepts a fill is left open.
* **FixedMath** has the arithmetic of protocol-core with its truncation toward
  zero; `Precision` is a constant.
* **Exchange** is the engine, vault, insurance fund, liquidation contract and the
  gateway's `settle_user_side`. A nested call is an operator from a book to the
  set of books it may leave; the empty set is the error that reverts the
  transaction. So the order of calls in the code is the order of the operators
  in `SettleFill` and `Liquidate`.
* **Settlement** is the pipeline from match to ledger: matcher instances, the
  sign route, reconciler instances, clients and the ledger. Every database
  statement and every ledger call is an action of its own; program counters
  (`matcher`, `route`, `reconciler`) say where each program is. `chain` and
  `txs` are the gateway as the services see it, reduced to filled and cancelled
  orders. Prices and ages are abstracted: any crossing pair may match, any
  timeout may fire. `SkipMatch` is a match outside the oracle band or with an
  order that cannot settle, which the matcher takes out of the book. `FailStatement`
  reaches every statement of `persistFill`, the last one included (UPDATE Market),
  after which a counted fill is neither settled nor rolled back. Two requests
  may bring signatures for one match at once (`SignEntry`): each merges what it
  read, so either request's entries may be the ones kept. A trader
  signs what GET /api/settlements offers (`Offered`, `SignSettlement`). The
  script clear-stale-jobs is a reconciler instance that runs `SelectOld` and the
  `Clear...` steps: it takes jobs that both have signed and fails a job
  whatever its status is by then.

* **OracleAdapter** is one feed of the oracle contract: its two configurations,
  the two ways to write it and the test a reader's call makes. Feeds share
  nothing.
* **OracleFeed** puts the oracle keeper next to it, in real time: `Clock` may not
  overtake what is due (a turn, the end of a poll, a transaction in time). The
  keeper's transactions are on the network as records with sequence numbers, so
  one it has given up can land beside the next. The admin changes the feed,
  sources report to the quorum, a faulty one among them. `activity` is the
  keeper's idea of whether anybody needs a price: asked every `CheckGap`, and
  publishing is suspended (`IdleTurn`) once the last yes is `Grace` old. A
  database or vault that does not answer counts as a yes. `Swing` is the need
  itself beginning and ending. `configs` and `faults` count what the admin did
  and what went wrong.
* **Governance** is the admin role of every contract and its timelocked transfer:
  `nominate_admin`, the proposals of perp-governance (queue, execute, cancel,
  emergency_pause), and `accept_admin` called by an executed proposal. A call
  that fails reverts what it wrote, the mark on the proposal included.
* **Deployment** puts twelve scripts on top of it. A script is a list of steps
  (`MainnetPlan`, `RedeployCorePlan`, ...) and a step mostly one transaction:
  built on the account's next sequence number, sent, confirmed or not, landing
  once or never, possibly after the script has gone. `Reaction` is what a script
  does with an error: retry, tolerate, throw. `file` holds the checkpoints of
  mainnet-deploy, the only script that has them; `config` is what the services
  use, and `Adopt` the operator copying printed addresses into it.
* **MarketFeed** is market data from the database to the screen: broadcast ticks
  of the ws-server, the module-level WebSocket client, the provider component
  with its effect and cleanup, REST polls, the store. Books are version numbers,
  trades timestamps.
* **WalletCalls** is `invokeContract`: a call is built on the account's
  sequence number, signed, sent and polled, and given up after 30 polls or when a
  request throws. Its time bound comes from the browser's clock (`invoke.ts:51`) and
  is judged by the ledger's close time; the model has neither clock, so a call
  given up may have landed, may land at any later time, or never. `given` keeps
  the numbers of earlier ones that were given up. **Terminal** adds
  the page: order entry and closing, the three steps of a cancellation, deposits,
  and `reconcile` runs that overlap, ask about the newest `CheckLimit` pending
  orders (20 in the code) and read before an await what they apply
  after it. Matching and settling are three actions here; Settlement has them in
  detail.
* **LiquidationKeeper, TtlKeeper, StateIndexer, StatsAggregator, Monitor** are a
  service each. **Services** composes them: they share no state, so every
  behaviour follows one of them and the state space is their sum. In
  LiquidationKeeper the contract takes closes of an account up to a limit that
  moves with prices, fund and positions (`accepts`); a limit of 0 is a refusal whatever the
  fraction, as when the insurance fund is short of the reward. In TtlKeeper time is
  counted in days; `manifest` is what `loadWasmHashes` found, which is nothing off
  mainnet or without the file, and `Ceiling` any number, so that a run may refuse
  the fee of all entries together (`Refuses`), today and every day after.

`Settlement` uses of the gateway only what `OrderGateway` guarantees (fill within
size, not after a cancellation); `OrderGateway` uses of the engine only that a
refused fill changes nothing.

Definitions whose names say what they leave out (`...Ignoring...`, `...Only`,
`...Skipped`, and the like, each marked "Mutant" in its comment) are not used by
the models: they are the deliberate errors that `PROJECT.json` lists as mutants
to show that each property can fail.

## 3. Runs

| run | instance | what it shows |
|---|---|---|
| order_gateway | 3 signed orders of 2 users, 2 prices, sizes 0-2, clock 0-4, grace 1; 123 thousand states | `NoOverfill`, `LiveOrdersProtected`, `CancelSticks`, and that the gateway implements FillLedger |
| clearing_fills | 3 users, 1 market, sizes 10 and 15 (one and a half units), collateral quoted at 0.9, 2 fill prices, 2 oracle prices, fees, deposits, withdrawals, at most 4 position ids; 47 thousand states | `OnePositionPerMarket`, `SidesMatch`, `MarginAfterTrade`, `ValueConserved` |
| clearing_liquidation | 2 users, a keeper, a donor of the insurance fund, sizes 10 and 15, collateral at 0.9, price 200.0 or 100.3; 112 thousand states | `BooksAgree`, `FlatDebtRecorded`, `ValueConserved`, `EquityKept` |
| settlement_signed | 2 matcher instances, one maker order of two units and two takers, 2 transactions, one fault; 2.0 million states | `SettledIsCounted`, `QuietBookAgrees` |
| settlement_auth | 1 matcher, 1 instance of the reconciler and of clear-stale-jobs, a pair without settlement signatures, queued up to twice, 2 transactions, one fault; 208 thousand states | `ConfirmedIsSettled`, `QueuedIsUnsent`, `QueuedIsResolved` |
| oracle_feed | 3 sources, one faulty, two market prices, clock 1-7 (1-14 while nothing fails), 2 changes of configuration or of the need for a price, one fault; 2.2 million states | `PublishedIsWritten`, `FreshWhilePublishing`, `QuorumIsFair` |
| deployment | 8 contracts, 2 instances of each at most, 12 scripts, started 2 or 3 times beside mainnet-deploy, one fault | `MarkedIsDone`, `CompletedIsWired`, `CoreStaysWired`, `HandoverTimelocked`, `DeployCompletes` |
| market_feed | 2 markets, 3 sockets, 2 overlapping ticks, a change of the database, a move of the user, a fault; 688 thousand states | `BroadcastOnce`, `MarketKept`, `DisplayConverges` |
| terminal | 2 orders, of which a reconciliation asks about one, their cancellations and the deposit dialog on one account, 2 overlapping reconcile runs, 2 wallet calls, a fault; 772 thousand states | `RetryNeverDoubles`, `CancelMeansNoFill`, `OrdersConverge` |
| services | one small instance of each service, 2 overlapping ticks, passes or rounds; 299 thousand states | `ArchivedOnlyAfterMisses`, `LiquidatedEventually`, `ReadModelsConverge`, `OutageReported` |
| vault_hidden_debt, deploy_not_resumable | the instances of clearing and deployment | a statement of a comment that the code does not keep (section 6) |

### Bounds

* `MaxTime`, `Grace`: the clock passes every expiry, every horizon, and one more
  tick. Orders expire at 1 and 2, owners may cancel with expiries 0 (too early to
  protect) and 2.
* Two orders on one side and one on the other share nothing but the owner, so a
  fill can meet an order already half filled. Size 0 is submitted too: the guard
  is the code's.
* `Precision = 10`, one and one and a half units, prices about 200.0, collateral
  at 0.9: products, average entry prices, realised amounts and valuations are all
  rounded. Two cases of rounding occur in no instance and rest on the theorems:
  a debt that the feed values at nothing, and a withdrawal that uses the unit
  `MarginAfterTrade` allows it.
* Halving the price makes an account at twice its initial margin insolvent in
  one oracle round, so liquidation with and without deficit, partial and full,
  with and without insurance money is reached.
* `MaxId` bounds opened positions: with four, a user can flip twice.
* `MaxTxs`, `MaxQueued`, `MaxFaults`: one fault (crash, failed statement or lost
  answer) at any point is enough for each hazard listed; two transactions are
  enough for a resubmission to race the original.
* OracleFeed's delays are the smallest that differ: latency 1, poll limit 2,
  transaction life 4, heartbeat 2, age 4. `TimingAssumption` is then tight: the
  next smaller age breaks `FreshWhilePublishing`. Seven ticks are two heartbeats
  after a first publication. The faulty source may report 99 or 103 when the
  market is 100 or 102: inside the deviation, outside the market.
* Idling in OracleFeed: a check every tick, a grace of 5 ticks, so that a lull
  shorter than the grace, a suspension and a resumption fit into 14 ticks. The
  need for a price changes only in behaviours in which the admin leaves the feed
  alone, because the two have nothing to do with each other and their product is
  large. The clock runs to 14 as long as nothing has failed and nobody has
  changed the feed, and to 7 otherwise.
* Deployment: `FaultyOps` names the steps at which a fault may happen. The
  passing run has every kind but `init`; deploy_not_resumable adds it. One fault
  is one crash, dropped transaction or missed confirmation; reruns are not
  counted for mainnet-deploy. A fault in every second step would add nothing: each
  step depends on the earlier ones only through what is on the ledger and in the
  checkpoint file.
* MarketFeed: three sockets are the one in use, one closing and one leaked. One
  change is enough for a stale answer; the trade limit of 1 makes a broadcast at
  its limit happen. With one change the cursor cannot move backwards over several
  fills: that `BroadcastOnce` survives that rests on the theorem `OnceEach`.
* Terminal: either nothing is placed yet, runs overlap and one wallet call is
  made, or both orders rest in the book, runs follow each other, two calls are
  made and the fault is spent (`Before`, `Resting`). `CheckLimit` is 1 with two
  orders, so the older order is not asked about while the newer is pending.
* Services: three rows of four accounts are read, the newest unreadable; a
  position of 4 allows a close of all, half and a quarter, and the contract takes
  closes of up to 4, 1 or none. Entries are extended below 3 days to 6; with two
  instances and a code a ceiling of 9 days of rent refuses some sets of entries and
  pays for others, and the manifest names the code or not.
* Symmetry: users in Exchange and matcher instances in Settlement are
  interchangeable in every property of the runs that use it; none of those
  properties is a liveness property.
* `CHECK_DEADLOCK FALSE` where bounds stop the system (spent tokens, spent
  transactions) or where every program may be idle with nothing to do. The
  gateway run checks deadlock.

### Fairness

OracleFeed has deadlines instead; the gateway, Exchange and Governance promise
nothing to anybody who does not act. Settlement (`FairSpec`): the services are endless loops
(`while` in `matcher-service.ts` and `settlement-reconciler.ts`), so a program
that has begun a match or a job goes on to its next statement: weak fairness of
`MatcherStep`, `RouteStep` and `ReconcilerStep`. A transaction is included or its
time bound passes: weak fairness of `LedgerStep`. A reconciler tick selects every
row that qualifies, also rows that stop qualifying in between and qualify again:
strong fairness of the three selections, none of the selection of the script run
by hand. Nothing is assumed of traders: nobody
need sign, cancel or return. Crashes are not fair and bounded by `MaxFaults`.

Deployment (`FairSpec`): a script that runs goes on, the network includes what
was sent, and the operator reruns mainnet-deploy until it reports success.
MarketFeed and Terminal: timers fire (`setInterval` of the page and the server),
requests end with an answer or an error, sockets that try to open do or fail.
Services: the loops and timers of each service, inclusion of the keeper's
transactions, and hours that pass. Lost requests, failed posts and lost
connections are not fair and are bounded.

## 4. Properties in words

* **LiveOrdersProtected, NoOverfill, CancelSticks**: `reclaim_order_state` can
  be called by anybody at any time. The horizon of a fill entry is the order's
  expiry plus a grace period, that of a cancellation is what the owner claims the
  expiry to be. Deleting never re-opens an order: the fill counter is complete
  for as long as the order is valid, and a cancellation that names the true expiry is final.
* **OnePositionPerMarket, SidesMatch**: `settle_user_side` looks for the first
  opposite and the first same-side position; the netting works only because
  there is never more than one. Fills keep long and short open interest equal. In
  consequence funding, whose rate follows the difference, stays zero until a
  liquidation closes one side alone. `docs/docs/trading/pnl-funding.md` describes
  funding as what tethers the price to the index; a reader should know this.
* **MarginAfterTrade**: the fee is charged after the margin check of the trade,
  and checked again. A withdrawal is checked by the value of its amount; what
  stays is valued again and may round to one unit less.
* **ValueConserved, EquityKept**: balances plus unrealised PnL minus tokens held
  changes only by the rounding of the positions a transaction touches and by what
  a one-sided liquidation moves; an account that trades loses no more than the
  fee and the distance to the oracle price. Both are stated before rounding, in
  `1/Precision` of a unit (`ExactPnl`), because a mere change of the price rounds
  the PnL of every position anew without anybody gaining or losing. The
  collateral's quote does not enter: the settlement asset is counted, and other
  assets one by one.
* **BooksAgree, FlatDebtRecorded**: counters, the vault's copies, and the record
  of debts that nobody can collect. The vault judges by truncated values, so
  a debt worth less than one unit is not seen (`Visible`); a debt of an account
  that deposited another asset may not be seen either, which is the finding
  vault_hidden_debt (§6).
* **PublishedIsWritten**: a write that timed out may land late, be refused or be
  dropped; the keeper's memory, which decides whether it publishes again, never
  claims more than the ledger has.
* **FreshWhilePublishing**: `oracle-keeper.ts:44-46` says heartbeats must stay
  under the contract's maximal age. That is not enough. The heartbeat runs from
  the end of a publication, the age from its start, and a turn may come late:
  `Heartbeat + TurnGap + 2 * Latency <= max_age + 1` is what is needed, and the
  run shows that it suffices. With the defaults (60 s, 120 s, a poll of
  15 s at most) a market's turns may be 31 s apart; USDC, with a heartbeat of 90 s
  and turns 8 s apart, needs a latency of at most 11 s. While a turn takes its
  time with other feeds the gap grows. When something begins to need a price
  after a lull longer than the grace, the price is fresh within a check, a turn
  and a transaction; a shorter lull changes nothing. A need that comes and goes within
  that time may pass unnoticed, so it does not divide a lull in two: what counts is
  when the keeper last had the time to see that something needs a price. That the
  keeper asks at least once in a grace (30 s and 900 s by default, `CheckGap <= Grace`)
  is necessary as well. `SingleAge` stands for the smallest age a
  reader asks for: engine and vault bring a guard of their own for a market's price.
* **QuorumIsFair**: with three reports, one of them arbitrary (fewer than half of
  them, in the theorem), the price stored is
  between prices the market had since the oldest report.
* **SettledIsCounted, QuietBookAgrees**: the book never offers again what was
  settled, whatever crashes, unless an answer was lost; and when nothing
  fails and ticks do not overlap, it agrees with the gateway exactly. Section 6
  says what happens after a lost answer.
* **ConfirmedIsSettled, QueuedIsUnsent, QueuedIsResolved**: statuses of jobs mean
  what they say, and no job stays queued for ever, also with clear-stale-jobs
  run at any moment.
* **MarkedIsDone, CompletedIsWired, DeployCompletes**: a checkpoint says that the
  step's effect is on chain; when mainnet-deploy reports success the contracts
  refer to each other and each exists once (addresses come from a salt, so a
  repeated deploy finds the first instance); and rerunning after a fault ends in
  success, unless the fault hit an initialize.
* **CoreStaysWired, HandoverTimelocked**: redeploy-core builds a new core beside
  the old one and only the operator switches; setup-usdc and redeploy-engine-xlm
  rewire the live vault and are excluded. Admin rights move only by a proposal
  that waited for the timelock, unpaused.
* **BroadcastOnce, MarketKept, DisplayConverges**: cursor and overlap on the
  server; cleanup and late answers in the browser; and that the page ends with
  the current book although `onclose` of an old socket forgets the new one.
* **RetryNeverDoubles, CancelMeansNoFill, OrdersConverge**: what a caller gave up
  may land beside its retry or before it, and of all that is on its way when the
  retry is built, the retry included, at most one takes effect, since all have one
  sequence number. It does not say that a retry after "timeout" is safe: a payment
  that landed unseen before the retry was built is made again, and the page
  does not look. The gateway is asked to cancel before the book, so
  "cancelled" is final even with a fill on its way. Overlapping reconciliation
  comes to agree with the ledger about the newest `CheckLimit` pending orders; an
  older one, settled or cancelled, stays listed as open for as long as 20
  newer ones are pending (`useOrderReconciliation.ts:97`).
* **ArchivedOnlyAfterMisses, LiquidatedEventually, ReadModelsConverge,
  OutageReported**: the services' promises, under failing runs, unreadable
  accounts, late transactions, ticks that overtake each other and lost posts.
  ttl-keeper compares one ceiling (20 XLM by default) with the fee of all
  entries together (its header quotes 764 XLM for a blind extension by 180 days): a
  refusal may repeat until entries are archived, and the property only says
  that it takes as many missed days in a row as the threshold has. An
  account is liquidated unless the contract refuses every fraction of it
  (`RefusesAll`), above all because the insurance fund cannot pay the reward.

## 5. Proofs

The proofs hold for every value of the constants: any number of orders, users,
markets, instances of the services, transactions, crashes and faults, any prices
and any bounds. The bounds that keep TLC's instances finite (`MaxTxs`,
`MaxChanges`, `MaxFaults`, ...) are constants like the others. The assumptions are
those of the modules, each a type or a fact the code ensures, named below where it
is more than a type; TLC evaluates them on every run. Every invariant below was
checked by TLC on the runs' instances before it was proved.

| Module | Theorem | States |
|---|---|---|
| OrderGatewayProofs | `TypeCorrect`, `NeverOverfilled`, `Protected`, `CancelIsFinal` | `TypeOK`, `NoOverfill`, `LiveOrdersProtected`, `CancelSticks` |
| | `GatewayImplementsLedger` | `ImplementsLedger`, the refinement of FillLedger |
| ExchangeProofs | `TypeCorrect`, `OnePosition`, `BooksStayEqual` | `TypeOK`, `OnePositionPerMarket`, `BooksAgree` |
| | `SidesStayEqual` | `SidesMatch`, while nobody liquidates |
| | `MarginAfterFill` | the margin of maker and taker after every fill |
| | `MarginHolds`, `FlatDebtOnRecord` | `MarginAfterTrade`, `FlatDebtRecorded` |
| | `NoValueLost`, `NoEquityLost` | `ValueConserved`, `EquityKept` |
| SettlementProofs | `TypeCorrect`, `ConfirmedSettled`, `QueuedUnsent` | `TypeOK`, `ConfirmedIsSettled`, `QueuedIsUnsent` |
| | `BookNeverBehind`, `QuietBookExact` | `SettledIsCounted`, `QuietBookAgrees` |
| TerminalProofs | `RetriesDoNotDouble`, `CancelledNeverFills` | `RetryNeverDoubles`, `CancelMeansNoFill` |
| MarketFeedProofs | `TypeCorrect`, `OnceEach`, `OtherMarketsKept` | `TypeOK`, `BroadcastOnce`, `MarketKept` |
| KeeperProofs | `TypeCorrect`, `KeeperNeverMisled`, `NeededPriceIsFresh`, `QuorumNeverUnfair` | `TypeOK`, `PublishedIsWritten`, `FreshWhilePublishing`, `QuorumIsFair` of OracleFeed |
| | `ArchivalNeedsMisses` | `ArchivedOnlyAfterMisses` of TtlKeeper |
| DeploymentProofs | `HandoverWaits`, `MarkedStaysDone`, `CompletedDeployment` | `HandoverTimelocked`, `MarkedIsDone`, `CompletedIsWired` |
| | `CoreIsAlwaysWired` | `CoreStaysWired` |

**OrderGateway.** `ConstantsAssumption` has the types, `NonceAssumption` that two
signed orders of one owner with one nonce have the same expiry. The order route
keys orders by owner and nonce and ignores a second one
(`client/app/api/orders/route.ts`), so the system itself never has two; the
contract does not check it, and without the assumption a fill of the
shorter-lived order would lower the horizon of the other one's counter.
`NoOverfill` is not inductive: the guard looks at the stored counter, which may
have been deleted. The invariant `IInv` adds two facts per order. `CounterInv`:
either the counter covers everything traded and the entry's horizon is the order's
own expiry, or the clock has passed expiry plus grace. `TombstoneInv`: a
cancellation remembered in `lastCancel` is still stored, or its horizon has
passed. Each operation has a lemma that it keeps `IInv`; a reclaim is the case
where the second alternatives are used, because its guard is that the clock has
passed the horizon. `CancelIsFinal` and the refinement follow from `IInv` step by
step: a fill maps to `Trade`, a cancellation to `Withdraw`, a tick to `Advance`,
everything else to a stuttering step.

**Exchange.** A transaction is a chain of calls on a book, so most lemmas are
about books: what one call makes of a book it accepts (`OpenMoves`,
`IncreaseMoves`, `ReduceMoves`, `Charged`, `FeeKeeps`), then what a whole fill or
liquidation does. The invariant `ClearingInv` says that the book is `Sound`:
positions have known ids and one user and one market each (`Separate`,
`Distinct`), open interest is the sum over positions (`Counted`), the vault's copy
equals the engine's. `OnePositionPerMarket` alone is not inductive, because a call
on a position by its id must find the user's own and no other. `SumTheorems` has
the facts about sums that this needs (one element more, one value changed);
they are proved with an induction of their own over least elements of sets of
numbers, since the library's induction theorems cannot be instantiated here.
`SidesStayEqual` follows the difference between the sides through each call
(`SideMoves`): a fill moves it by the same amount up and down. It has the
hypothesis `Liquidators = {}`, which is the configuration ClearingFills checks; a
liquidation takes from one side only. `MarginAfterFill` says more than the guard
at the end of a fill: the maker is judged before the taker's side is settled, and
what the taker's side then does must leave the maker's account alone.

The other theorems about Exchange need no more than `ExchangeAssumption`, which has
only types: any sizes, quotes, haircuts, fees, collateral assets and liquidators.

`MarginHolds` covers every step (`WhoTakes` reduces it to fills, liquidations and
withdrawals). The vault tests a withdrawal before it pays, with the
amount's value at full worth; the balance that stays is valued again, with its haircut.
`FloorSplits` and `HaircutShrinks` bound the difference between the two by one
unit, which the property allows. The test also
counts the withdrawn asset where the vault later counts the settlement asset;
`Holdings` (an account has balances only in assets it once deposited, the
settlement asset apart) makes the two the same set, since only deposits bring in
other assets and all payments are in the settlement asset (`InSettlement`).

`FlatDebtOnRecord`: `DebtInv` says that what accounts without positions owe together
is at most the bad debt on record. A debt that the feed never quotes at nothing is a
negative equity in the vault's eyes (`DebtHasValue`), and a larger one is seen where a
smaller one is (`VisibleGrows`). A fill adds nothing, because its two accounts end
above their margin and one that is flat then owes nothing visible (`FlatIsSolvent`);
a withdrawal takes no more than there is; a liquidation adds to both sides what
the fund did not cover (`LiquidationOwesOnRecord`).

`NoValueLost` and `NoEquityLost` work with exact values, before any rounding.
`Value` is an account's settlement balance with its positions at the oracle's prices.
What is paid differs from the exact amount by less than one unit (`Truncates`,
`PaidNearly`, `FundingMet`), and the average entry price by the position's size and
two units (`AverageEntry`). So each call changes the value by an `Edge`, size times
the distance of its price from the oracle's, plus a `Rounding` (`OpenTrades`,
`IncreaseTrades`, `ReduceTrades`, `SideTrades`), which is what `Dust` allows to an account
whose positions changed; the edges of
the two sides of a fill cancel (`EdgesCancel`), a fee moves from one account to another,
and `Total` sums over all accounts. Funding shifts the indexes of the two sides
by opposite amounts: what the positions gain is the net of the sides times the
shift, which is what the insurance account pays, rounded once (`ShiftMoves`,
`IndexShifts`, `FundingOwes`).
A new price shifts by the same net, which is zero while the sides are even
(`EvenPrices`, by induction over the markets that moved). For a single
account, an edge is at most the size times the band (`EdgeBounded`), and the fee
at most that at the band's far end (`FeeBounded`).

**Settlement.** `SettlementAssumption` types the constants and says that there are
finitely many instances of the matcher. `TypeInv` is the
inductive form of `TypeOK`: a program that works on a match has one, and a matcher
has never seen more of an order than there is. For `ConfirmedSettled` and
`QueuedUnsent` the invariant `LinkInv` says what each program counter knows. `JobLinked`: what a
job's status says of the transactions sent for it; `MatcherLinked`, `RouteLinked`,
`ReconcilerLinked`: a program between two statements holds a match, a row or a
transaction that is still what it read, or has become something later of the same
kind. The row a reconciler read is old when it is used; the proof shows that
what it writes with it is right nevertheless, because sent transactions are never
forgotten (`Grown`, `SentProperly`) and a job that left QUEUED does not return.

`BookNeverBehind` and `QuietBookExact` are about sums. What the book counts of an order
that the matcher settles itself is on the gateway, or in a transaction that can
still land, or is held by a matcher that counted it and has yet to send it or undo it
(`HasCounted`); `Owed` sums the last two over all instances and transactions, and
`Gap` is the rest. `BookCovers`: the gap is never negative while no answer is lost.
That is what makes GREATEST(0, ...) in the rollback harmless: a matcher that undoes holds
what it takes back. A crash only widens the gap, and so does a taker that no longer
fits, whose maker stays counted. When a pending transaction ends, the ledger, or the
one matcher that waits for it (`PollsApart`), takes over its size. A lost answer is the step
that breaks this: the matcher undoes what can still land. `QuietInv` adds what holds
while nothing failed and ticks did not overlap: one instance is at work, what it
has yet to count fits (`AheadFits`), whoever sent a pending transaction waits for it, and the gap is zero.

**Terminal.** `CallInv` has `Numbered`: every sequence number a caller holds, in its
last call or in one it gave up, is at most the ledger's next one, and once something
of it took effect since it last built, all of them are used. For
`CancelledNeverFills` a second invariant relates what a page was told to what
stands on the ledger, through the three steps of a cancellation.

**MarketFeed.** `Inv` says of an overlapping tick that it knows no more than the
database when it asked, of a broadcast fill that it is behind the cursor, and of a
request in flight that is not cancelled that it is for the market on the screen.

**OracleFeed.** `KeeperNeverMisled` does not use `TimingAssumption`, and of
`FeedAssumption` only the types. `WrittenInv` adds `LandedInv`: a transaction that the ledger
included and the keeper has not looked at yet is no newer than the stored price.
It holds because the adapter refuses a publication that is not newer than the
stored one, on both ways to write; a quorum's price itself does not matter, and a
change of configuration leaves the price alone. `TypeCorrect` needs that the median
exists (`MedianExists`): the contract sorts, the model chooses.

`NeededPriceIsFresh` uses `TimingAssumption`. `QuietInv` describes the states in which nothing has
failed and nothing was configured: the keeper is idle and no transaction is under way,
or it polls for the one that is pending or has just landed, so that nothing times out,
is refused or is dropped (`NothingFails`). `Covered` is the deadline: the keeper's
last turn came before the heartbeat was due, or its transaction was sent a turn later at
most. `CheckedInv` bounds the age of the last question, `LullInv` the time between the
last yes and the beginning of a lull. `KeptInv` says that while a price is needed, or a
lull is still short, the deadline is kept and the grace lasts until the next
question (`Awake`), or else a long lull is just over and the keeper has not asked
yet, or has asked and the transaction of that turn is under way (`Resuming`). Both
cases of `Resuming` end before `Resumption` does.

`QuorumNeverUnfair` uses `MinorityAssumption`: fewer than half of the sources are
faulty. At most half of the reports are below the median and more than half are not
above it, so there is an honest report on either side; the allowed deviation
is not needed. It bounds the distance of the reports from each other, not what the price
can be.

**Deployment.** For the handover `GovInv` says that a queued proposal's time is
at least the timelock after it was queued, and that only a contract with an admin
has a nominee. For the scripts `DeployInv` says, on the mainnet: everything sent
acts on the predicted addresses and points a slot at what the slot names
(`Predicted`; the plans of all mainnet scripts consist of such steps,
`ScriptSteps`), and mainnet-deploy waits for a transaction of the step it is at
and is past a step only when that is in the file (`DeployRuns`). "The effect is on
chain" is not inductive: an initialize stores references again. `Done` adds that a
contract was initialized before its slots are set, and `RefsHold` that a reference
stored by initialize is never changed; `DoneStays` then says that no transaction
undoes a step, the late ones included. `ResumableOps` plays no part: the theorems
hold with faults at any kind of step, so also where mainnet-deploy cannot finish.

`CoreStaysWired` says only what the services use; the invariant `CoreInv` also has to say what they may
use next. `LiveInv`: the contracts of `config` exist and have an admin, so a late
initialize fails on them, and while no relinking script has run they refer to each
other and nothing under way points them elsewhere. `OfferInv`: addresses the
operator may adopt, other than those in use, are those of a script that has
finished: `Ready`, with nothing in flight. Why that is so is in `ScriptInv`: of the
three scripts that put up a new core (`Builders`), `Building` says that the effect
of every past step is there (`EffectOf`), that a pending transaction is the current step's, and that the
network is empty when a step after the first begins, because the chain's account numbers
let a late transaction land only before the next one. The plans are looked at
once (`BuildsInOrder`): each deploys before it wires, wires everything `Ready` asks
for before it ends with its local step, and none of these steps goes on after a failure.
`EffectKept` carries an effect over later steps, late transactions of the
same step included. A script that relinks (setup-usdc,
redeploy-engine-xlm) sets references of the vault in use, which is why the property
excludes what follows it.

**TtlKeeper.** `InTime` counts: every missed run costs an entry a day, whatever
it was missed for, and a run that goes through lifts every entry it looks after back to
the threshold at least. The theorem is about
the keeper alone; in Services it takes its steps while the other services rest.

Every safety property the passing runs check is proved, under the assumptions named
above. Only model-checked, and why:

* Liveness (`QueuedIsResolved`, `DeployCompletes`, `DisplayConverges`,
  `OrdersConverge` and the other properties of Services): fairness and ENABLED are out of
  the proof system's reach.

`SidesMatch` is the one property with a hypothesis that a deployment does not meet
(`Liquidators = {}`): once somebody is liquidated it is false.

## 6. Where code and documentation disagree

Shown by runs:

* **vault_hidden_debt**: negative balances must be part of account value; one in
  an asset that was never deposited is not, once another asset was.
* **deploy_not_resumable**: mainnet-deploy is meant to be resume-safe and to
  tolerate "#3 AlreadyInitialized"; that error is 12, and perp-risk answers 5.
  An initialize that landed without its checkpoint stops every rerun.

Found while modelling, in the models but without a run of their own:

* `docs/docs/trading/execution-engine.md:57-58` says rollback keeps the book from
  ever diverging from the chain. A poll that throws or ends early
  (`client/lib/stellar/settlement.ts:258-271`) is rolled back
  (`matcher-service.ts:550`) while the transaction can still land. Drop
  `faults.lost = 0` from `SettledIsCounted` to see it.
* `settlement-reconciler.ts:147` claims a job "atomically to prevent concurrent
  reconciler runs from double-submitting"; the claim (151-152) also accepts the
  row that a claim leaves behind until its hash is stored. The chain spends each
  authorisation once; the loser writes FAILED over a settled job.
* `settlement-reconciler.ts:122` means to resubmit a job whose transaction fell
  off the network; the claim refuses every submitted job that has a hash, so it
  stays SUBMITTED and its fill stays counted.
* `docs/docs/trading/pnl-funding.md:89-91` routes a liquidation fee to the
  insurance fund; `perp-liquidation` (157-160) pays the liquidator from it and
  charges no fee.
* `contracts/perp-governance/src/lib.rs:134-136` marks a proposal executed before
  the call "so a reverting target cannot make the proposal replayable"; a revert
  undoes the mark with everything else. The proposal stays queued.
* `useOrderReconciliation.ts:24-34` says it fetches the owner's orders, so that
  those of another tab appear. There is no GET handler for `/api/orders`: an order
  placed elsewhere, or whose answer was lost, is never listed. A refused closing
  order stays listed as pending.
* `liquidation-keeper.ts` calls its rows every known trader account; it reads the
  500 with the newest `updatedAt`, which is written only when a row is inserted.
* `oracle-activity.ts` takes an open position as a reason to publish; no program
  writes the `Position` table (vault deposits keep the oracle awake instead).
* `rewire-liquidation.ts:57` calls its steps idempotent setters; one of them is a
  deposit into the insurance fund, which a retry repeats.
* `redeploy-oracle.ts` reports that everything points to the new oracle; engine
  and vault keep the old one. It, setup-usdc and redeploy-engine-xlm end by
  patching a file that does not exist, after the switch on the ledger.
* `mainnet-deploy.ts:219-227` marks the ops accounts as done when its wait for
  them runs out; `MarkedIsDone` leaves that step out.
* Trades with equal timestamps, or more than the limit in one tick, are never
  broadcast (`ws-server.ts:139-165`); polling shows them.
* `ttl-keeper.ts:3-7` says of every instance and code entry that its life "must never
  lapse". A fee above the ceiling is refused for all entries at once, and again the
  next day (177-184); code entries are left out when the network is not mainnet
  or there is no manifest (91-101, 120-125, which says so).
* A recovery notice whose post fails is not repeated (`monitor.ts:231-251`), and
  a trader whose last fill leaves a period keeps the old count in `TraderStat`.

## 7. Not modelled

* Isolated margin: the engine has it, the gateway always passes `Cross`.
* Signatures, hashing, XDR, scaling between database text and i128, and overflow
  of i128 (a trapped call reverts and so is a stuttering step).
* Clocks that disagree as such: that the browser's and the ledger's may differ is in
  WalletCalls as a call given up landing at any time. For the scripts and the
  settlement a time bound passes or does not, nondeterministically.
* `pseudoTxHash` is a 31-bit hash (`matcher-service.ts:214-222`); the models take two
  matches to have two hashes. A collision would make one job stand for both.
* The list of local orders ends after 100; the polls of book and trades are one request
  in MarketFeed; a trade that a leaked socket shows twice is one trade there, because
  what is shown is a set.
* What makes the liquidation contract refuse is a limit in LiquidationKeeper and
  computed in Exchange; the two are not composed.
* Price-time priority of `matchAll`: Settlement lets any crossing pair match.
* The rules of order validation, rate limits, previews of margin and leverage,
  fill notifications, leaderboard snapshots, the polls of ticker and stats.
* `set_guardian` of perp-governance and proposals other than `accept_admin`.
* perp-risk (stateless), the Rust services (not deployed), the remaining pages
  (display), tests and gate scripts: see the notes in `PROJECT.json`.

## 8. Plan

Done, in this order: OrderGateway with FillLedger and its proofs, FixedMath and
Exchange, Settlement, OracleAdapter with OracleFeed; then
clear-stale-jobs, skipped matches and what traders are offered in Settlement,
idling in OracleFeed, Governance with Deployment, MarketFeed, WalletCalls with
Terminal, and the five services; then the proofs about Exchange, Settlement,
Terminal, MarketFeed, Deployment, OracleFeed and TtlKeeper. Next:

1. A refinement from Exchange's refusals to the limit of LiquidationKeeper, to say
   under which fund and prices a liquidatable account is liquidated.
2. An abstract specification of a settlement job (open, settled or given up) that
   the pipeline implements; `matchAll` against a definition of price-time priority.
