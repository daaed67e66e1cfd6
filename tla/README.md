# Formal models of the trading backend

TLA+ modules, TLC configurations and TLAPS proofs about the Go backend of this
repository (`backend/`): the order path, the agent's worker pool and its
decisions, the alerts of the signals service, the outcome scorer, and what
portfolio-api keeps of snapshots, watchlist, settings and Lab switches. The
remaining components are inventoried with the reason they are left out.

All paths are relative to the repository root unless they start with
`trading/`, which is short for `backend/internal/trading/`.

## 1. The system

### Components, their state, and how they talk

| component | code | state | operations |
|---|---|---|---|
| Order service | `trading/service.go`, `state.go`, handlers in `backend/cmd/portfolio-api/trading_handlers.go` | none of its own; each HTTP call is a goroutine that runs SQL statements, each its own transaction | validate, create (idempotent by key), get, list open, cancel |
| Order policy | `trading/policy.go` | configuration | ten pre-trade rules over the request and the list of open orders |
| Order tables | `trading/postgres/` | `orders` (unique `idempotency_key`), `order_events`, `fills`, `reconciliation` (the last three append-only) | one statement per repository method |
| Trading worker | `trading/worker.go`, `backend/cmd/trading-worker` | the list of open orders of the running tick | every 30 s: place, poll or touch each open order |
| Execution brokers | `backend/internal/broker/coinbase/{paper,live}.go` | paper: a map and a counter in memory; live: at the exchange | place, get, cancel |
| Agent worker pool | `backend/internal/agent/worker.go`, `order_bridge.go`, `cost.go` | a bounded channel, one mutex per symbol | enqueue (drops when full), decide, post the decision, submit an order |
| Agent decisions | `backend/cmd/portfolio-api/agent_handlers.go`, `agent_decisions` table | decisions by idempotency key | insert or return the existing one, count, cost of the day |
| Signals service | `backend/cmd/signals` | the latest snapshot | one tick: settings, watchlist, rules, quotes, alerts, enqueue |
| Alert state, dedup | `backend/internal/signal` | two JSON files: price baselines and last alerts; last firing per rule and symbol | evaluate, should-fire |
| Outcome scorer | `backend/cmd/portfolio-api/scorer.go` | `agent_decision_outcomes` | every 60 s: score up to 50 due (decision, horizon) pairs |
| Snapshots, ingest | `backend/internal/ingest`, `internal_handler.go` | `snapshots` by minute | post (one retry), upsert, synchronise the watchlist |
| Watchlist, settings, lab | `followed_handlers.go`, `lab_handlers.go`, `backend/internal/portfolio/postgres` | `followed_symbols`, `signal_settings` with versions, `lab_control_state` | follow, unfollow, save, revert, pause, resume, reset |

The signals service turns price moves and portfolio rules into alerts and
enqueues decision requests; the agent pool asks a model, stores the decision
through portfolio-api and, when trading is enabled, calls
`/mcp/v1/trades/create`, which is `Service.Create`. portfolio-api and the
trading worker are separate processes that share only the order tables. The
worker alone talks to the broker. The scorer and the dashboards read what the
others store.

### What is hard

* *Shared rows without locks.* `Create` looks up, lists, evaluates and inserts
  in separate transactions; `Cancel` and the worker read a status and later
  write one without looking again. The unique constraint is the only guard.
* *Partial failure.* A create call that has committed its row may still be
  answered with an error; the worker logs and ignores failing updates and goes
  on to the next statement.
* *Retries against the exchange.* `PlaceOrder` is repeated after any error,
  with a fresh `client_order_id`.
* *Crash and restart.* The worker may die between placing an order and storing
  its id; the paper broker's book dies with it.
* *Staleness.* Risk decisions, snapshots, caps and cooldowns are computed from
  state that others change before the result is used.
* *Memory and files.* What has fired is remembered in memory and in two files;
  a write may fail and the process may die between the two.
* *Abandoned work.* When the service shuts down, its clients give up calls whose
  handlers in portfolio-api go on; triggers in the channel are lost.
* *Starvation.* A mutex per symbol, a channel of fixed size and a batch of the
  oldest pairs each can keep somebody waiting, and two calls of the agent have
  no timeout.

`PROJECT.json` lists each of these at its line ("hazards"), with the properties
that cover it.

## 2. The modules

| module | what it is |
|---|---|
| `OrderPolicy` | `Policy.Evaluate` and `Validate` as pure operators |
| `TradingOrders` | order service, order tables, worker and brokers, with the properties |
| `IdempotentCreate` | abstract specification: what a create call promises its callers |
| `AgentPool` | channel, workers, mutexes, cost cap, daily timer; the decision handler of portfolio-api; orders |
| `SignalRules` | rule engine, rule cooldowns, price moves, gate and spelling of symbols as pure operators |
| `AlertFlow` | a tick of the signals service with its memory, files, alerts and triggers |
| `Candles` | granularity, chunks and merging of candle requests as pure operators |
| `OutcomeScorer` | batches of (decision, horizon) pairs, prices and outcomes; the lists made of them |
| `PortfolioStore` | snapshots and ingest, watchlist, settings with history, Lab switches |
| `MC...` | instances for TLC: small sets, bodies, policies, rules, fault kinds, symmetry |
| `DataTheorems` | least and greatest numbers, products and quotients, induction over finite sets, sums over them |
| `TradingOrders_proofs` | types, provider ids, idempotency keys and answers; implements `IdempotentCreate` |
| `TradingOrdersSafety_proofs` | only allowed orders are placed; what it takes to exceed the exposure cap |
| `TradingOrdersFills_proofs` | settled orders, fills and executions, repeated placements |
| `AgentPool_proofs` | types, mutual exclusion per symbol, final decisions, orders follow decisions, the bound on the cost cap's overrun |
| `AlertFlow_proofs` | types, cooldowns of moves and rules, no alert is swallowed, the daily limit |
| `OutcomeScorer_proofs` | types, outcomes are final, their prices, requests for candles |
| `PortfolioStore_proofs` | types, followed holdings, benchmark, settings and their history, Lab switches |

The components meet in few places, and each model states what it takes of the
other side. `AgentPool` knows of the order service what `IdempotentCreate`
promises: one order per key, made or not. `AlertFlow` knows of the pool that a
trigger ends as one stored decision or none, and `AgentPool` of the signals
service that alert ids are fresh. `OutcomeScorer` knows of decisions that they
are stored and stay (`DecisionsAreFinal`), and of snapshots that there is one
per minute at most.

An operator named `X_Y` right before an operator `X` is a plausible mistake in
`X`. It takes no part in the specification; replacing the body of `X` by it must
make the property named in `PROJECT.json` ("mutants") fail.

### TradingOrders and the code

*State.* `call[r]` is the goroutine of create call `r`: its program counter
(the next statement), the key and body it came with, the decision it has
computed, and its answer. `cancel[c]` is the same for a cancel call. `orders`,
`events` and `fills` are the tables; the row a call inserts has a fresh uuid,
so rows are named after the call. `events` keeps the set of event types of an
order. `placements` is the broker's book in order of placement, `base` how much
of it belongs to earlier lives of the paper broker. `wpc`, `batch` and `cur`
are the worker: the step of `reconcileOrder` it is at, the snapshots of
this tick not yet visited, and the one it works on. `faults` counts failures.

*Actions.* One per statement that touches shared state.

| action | code |
|---|---|
| `SubmitCreate`, `LookupKey`, `CheckPolicy`, `InsertOrder`, `SaveResponse`, `AppendCreateEvent` | `Service.Create`, `service.go:41-116`, in that order |
| `StartCancel`, `CancelReadFails`, `WriteCanceled`, `AppendCancelEvent` | `Service.Cancel`, `service.go:129-159` |
| `Tick` | `Worker.tick`, `worker.go:52-61` |
| `PlaceOrder`, `SetProviderOrderID`, `UpdateStatus`, `AppendWorkerEvent`, `RecordFill` | the placing branch, `worker.go:74-114` |
| `PollOrder`, then `UpdateStatus` and on | the polling branch, `worker.go:127-169` |
| `TouchOrder`, then `UpdateStatus` | the paper branch, `worker.go:119-126` |
| `WorkerRestart` | the process dies and starts again |
| `BrokerResolves` | the exchange fills, cancels or rejects a live order (external) |
| `CooldownPasses` | time passes an order's symbol cooldown |

*Failures* are kinds of `Fault`, at most `MaxFaults` of them in a behaviour: a
read or a write that fails (a failing INSERT or cancel UPDATE may have been
executed all the same), a refused placement, a placement whose reply is lost, a
failing poll, a crash of the worker. `EventInsertFails` is not a fault but a
property of the deployment: the code never sets `OrderEvent.Payload`, which
pgx sends as NULL into a `NOT NULL` column (`001_init.sql:28`), so with the
schema of the migrations every insert into `order_events` is refused: `TRUE` is
the value of the program as it is shipped, and that of `orders_liveness` and
of the four runs with a finding about orders. `FALSE` stands for a table that
accepts events, as the in-memory repository of the tests does; `orders_safety`
has it because only then do two calls with one key both get a 201 to compare,
and because the one way in which events act on the rest, the answer they
spoil, is then one of its failures. The theorems hold for both.

*Abstractions.* Amounts are small integers (float64 in the code). A body stands
for a request and its hash, so a caller that sends a hash of its own choosing
(`X-Request-Hash`) is outside. Keys are not empty: `Create` refuses an empty
one before it touches anything. A tick visits its orders in any order, the code
by `created_at`. `reason`, `updated_at`, the `reconciliation` table, metrics
and Discord messages are left out: no code reads them back. The paper broker's
`partial` mode and the live statuses are kept as statuses only; fill prices and
sizes are not modelled.

### OrderPolicy

One field of `Breaks` per rule of `Evaluate`, with the code's disabling
conditions (a limit of 0, an empty list, no cash or position sent). A side is
validated in lower case but compared as it was sent, so both spellings are
kept: the cap neither stops nor counts an order to "BUY", which the broker buys.

### AgentPool and the code

*State.* `queue` is the channel, `worker[w]` the goroutine of a worker: the step
of `process` it is at, its trigger, its turns with the model, and the day whose
cost it has checked. `lock[l]` is the mutex of a symbol or of the daily
triggers. `post[t]` is the handler in portfolio-api of the POST for trigger `t`;
it outlives its client. `decisions` is the table by idempotency key, `ordered`
what the order service has made per key. `phase` is the life of the service:
running, canceled (SIGTERM), closed (`Stop` has closed the channel), exited.

| action | code |
|---|---|
| `SignalTrigger` | `tryEnqueueAgent` and `Worker.Enqueue`, which drops when the channel is full |
| `FireDailyTimer` | one round of `runDailyTimer`; the timer may ring early if the clock was set back |
| `Take`, `Return`, `Acquire` | `Worker.run`, and the mutex at the head of `process` |
| `CheckCap` | `CheckAndReserve`; a failing query lets the call through |
| `ToolTurn`, `Decide`, `DecideFails` | `AnthropicProvider.Decide` |
| `LookupDecision`, `InsertDecision` | `handleInternalAgentDecisionCreate`, statement by statement |
| `PostAnswered`, `SubmitOrder`, `OrderAnswered`, `Abort` | the end of `process`, `maybeSubmitOrder` |
| `CancelContext`, `Stop`, `Exit` | SIGTERM, `Worker.Stop`, the end of `main` |
| `TimerPanics` | the timer sends on the channel `Stop` has closed |
| `Crash`, `Start` | the process dies and starts again |

The decision POST (`backend/internal/agent/worker.go:167`) and the order call
(`order_bridge.go:114`) use `http.DefaultClient`, which has no timeout, and
portfolio-api sets none: while the service runs, nothing makes a handler go on
or an order call return. The canceled context ends them at a shutdown (`Abort`,
`ClientGone`).

The clock counts half days, divided by the hour of the daily timer. One turn
with the model costs one unit, `UnitsPerCent` of them a cent. What the model
answers is any verdict of a small set; its tools read only and are a turn.

### SignalRules, AlertFlow and the code

`tick` is the tick in progress: the events of the rules not yet filtered, those
that fired, the followed symbols not yet tested, and the alert being carried
through its steps. `state` and `dedup` are the two memories, `stateFile` and
`dedupFile` their files. `raised` is every alert that came out of a test,
`stored` and `labs` are the tables it ends in, `pending` the triggers in the
pool.

| action | code |
|---|---|
| `BeginTick` | `runOnce` up to the first rule: settings, watchlist, snapshot, `EvaluateAll` |
| `FilterEvent` | `Dedup.ShouldFire` for one event |
| `RaiseRuleAlert` | one symbol's coalesced alert of `processPortfolioRules` |
| `SkipMove`, `EvaluateMove` | a followed symbol without a quote; `AlertState.Evaluate`, file and gate |
| `StoreAlert` | `persistRecentAlert` and its handler |
| `TryEnqueueAgent` | `tryEnqueueAgent` with the count of decisions |
| `StoreDecision`, `DropTrigger` | what the pool makes of a trigger |
| `CancelContext`, `Restart` | SIGTERM, the end or a crash, then `NewAlertState` and `NewDedup` |

Percentages are compared as fractions of integers, so nothing is rounded. A
cooldown in a rule file is a number and a unit. The reads a tick starts from are
one action: nobody else writes what they read in a way the tick could tell.

### Candles, OutcomeScorer and the code

A price is the moment of the trade that set it and a net asset value the moment
of its snapshot, so that "the right price" is a statement about times. A
decision is stored at the moment of its trigger (in the code some seconds
later); the time of a snapshot is cut off to the minute (`TakenAt`). `scorer[s]`
is a process that scores: what is left of its batch, and the pair it works on
with the values read so far.

| action | code |
|---|---|
| `StartTick` | `ListUnscoredDecisionHorizons`: any batch of the oldest pairs |
| `FetchPrices` | `computeOutcome` of a symbol: the candles of BTC and of the symbol |
| `ReadStart`, `ReadEnd` | `computeOutcome` of a daily decision: BTC, then the two queries of `computeNAV` |
| `Insert` | `InsertAgentDecisionOutcome` |
| `Crash` | a scorer ends; several run while a deployment replaces one |
| `StoreDecision`, `PostSnapshot` | the agent and ingest |

`Headline` is what `handleAgentBenchmark` reads from the tables,
`DecisionOutcomes` the answers `handleInternalAgentDecisionOutcomes` may give: it
cuts the rows to its limit by the time they were scored, which is not in the
model, so any of them may be left.

### PortfolioStore and the code

A call is the list of statements it still has to make (`Statements` gives each
handler's), so `Statement(c)` is one SQL statement of one call: `PutSnapshot`,
`UpsertFollowed`, `RemoveFollowed`, `InsertVersion`, `UpdateSettings`,
`GetControl`, `UpdateControl`. `StatementFails` ends the call with an error, but
a failing synchronization of the watchlist is only logged. `PostSnapshot`,
`PostAgain` and `EndPost` are ingest with its one retry, which comes after an
error, a late answer or a lost one: the last two need no failure in
portfolio-api, so that the first call may still be served, or be over, when the
second begins. A handler ingest no longer waits for may stop at any
statement, since its context is canceled (`Abandoned`). `Restart` ends every
call and synchronizes the watchlist with the latest snapshot before serving.
Two fields of a call are there for the properties: `after`, the calls that had
ended before it began, and `cut`, whether it was stopped before its end.
Settings are names; `Kept` is what the columns of `signal_settings` make of
them, where a cooldown Go can read need not be an interval Postgres can.

## 3. What the runs check

| run | instance | shows |
|---|---|---|
| `orders_safety` | 2 create calls, 1 cancel, 2 keys, 3 bodies, live and paper, any 1 failure (1.8 million states) | the safety properties of the order path |
| `orders_liveness` | 2 create calls with one key, 1 cancel, three broker modes, cooldown, any 1 failure, event inserts refused (0.2 million) | `AcceptedOrdersArePlaced`, `OrdersCloseForGood`, and the refinement `KeepsPromise` |
| `agent_pool` | 2 workers, 2 signal triggers of one symbol and daily ones, channel of 1, 2 turns, a restart, any 1 failure (2.3 million) | mutual exclusion, final decisions, orders |
| `agent_cap` | 3 triggers, 2 workers, a cap of one decision, trading on, calls that may hang (0.1 million) | `CapOverrunBounded`, `TriggersSettle`, `ShutdownEnds` |
| `alert_flow` | 2 rules, 1 followed symbol that is held, 2 prices, 2 settings, 3 moments, limit of 1 a day, any 2 disturbances (2.3 million) | cooldowns, nothing swallowed, the daily limit |
| `outcome_scorer` | 2 scorers, 2 decisions of 3 kinds, batches of 1, pages of 2, a lookback of 4 with up to 3 snapshots, minutes of 2, requests of 1 candle, 1 failure (0.16 million) | final outcomes, their prices, progress |
| `portfolio_store` | 3 calls of any kind, 2 symbols, 2 holdings, 3 settings, lost and late answers, 1 failure or crash (1.6 million) | watchlist, settings history, switches |
| `cancel_propagation` | 1 order, live, no failure | finding: a canceled order executes |
| `exposure_cap` | 2 overlapping create calls, no failure | finding: the cap is exceeded |
| `no_shorting` | sells only, no failure | finding: a sell of nothing held is accepted |
| `reject_answer` | event inserts refused, no failure | finding: a stored rejection is answered with an error |
| `headline_daily` | the instance of `outcome_scorer` | finding: daily decisions enter the headline |

The order path (`orders_safety`):

* `UniqueKey`, `SameKeySameAnswer`: idempotency survives the check-then-insert
  race, retries after errors, and rows rewritten by the worker.
* `OnlyAllowedPlaced`: the worker writes statuses without looking at the row,
  yet never brings a policy-rejected order into the set it places.
* `ExtraPlacementsCostFaults`: without failures every order is placed at most
  once, and every further placement costs a failure.
* `ProviderIdIsOwn`: polling observes the right order.
* `FillsBackedByExecutions`, `FilledOrdersHaveTheirFill`: fill rows and
  executions agree, up to the failures that happened.
* `ExposureOverrunNeedsRace`: what the broker is to buy, however the side is
  spelled, exceeds the cap only by calls that did not see one another's orders,
  by one whose listing failed, by one that counted on an order of negative
  amount, or by an order to "BUY", which the policy does not count and which
  needs no race. It says all that the finding `exposure_cap` is an instance
  of. The third case needs a negative limit price, which
  `Validate` accepts, and three orders; `orders_safety` does not have them, the
  theorem `OverrunsTakeARace` does.
* `SettledOrdersStaySettled`: once an order is closed and neither a tick nor a
  cancel call holds an older view of it, nothing touches it again. Before
  that, a stale tick may reopen a canceled order.

The agent pool (`agent_pool`, `agent_cap`):

* `OneDecisionPerSymbol`: the lazily made mutexes exclude, on every path out of
  `process`.
* `DecisionsAreFinal`: overlapping handlers of one key, also of a client that
  has gone and of the next process, never replace a decision.
* `OrdersFollowStoredDecisions`: an order is always the one its stored decision
  asks for, although the pool takes it from its own copy and treats "already
  stored" as success. Fresh alert ids are what makes this true.
* `CapOverrunBounded`: the cap is checked without a reservation; it says by how
  much the cost of calls that did check can pass it.
* `TriggersSettle`: every trigger the channel has taken is dealt with while the
  service runs, unless a call that portfolio-api never answers holds it up for
  ever: its own, one of the same symbol, or one with each worker. So a hung call
  costs its symbol, and all symbols only when there are as many as workers; no
  path of `process` leaves a lock behind.
* `ShutdownEnds`: a shutdown ends whatever is in flight, hung calls included.

The alerts (`alert_flow`):

* `MovesCoolDown`: holds across any crash and any failing write, because
  `Evaluate` returns before it raises when the file could not be written.
* `RulesCoolDown`: the other memory drops its write errors, so here a failing
  write and a restart together break the cooldown, and nothing else does.
* `NothingSwallowed`: a cooldown that runs was started by an alert that can be
  found in the tables: gate and grouping lose nothing.
* `CapNeedsBacklog`: the limit of decisions per symbol and day is exceeded only
  behind a trigger still in the pool or after a failing count.

The scorer (`outcome_scorer`):

* `OutcomesAreFinal`: two scorers with other prices leave one outcome.
* `NavBrackets`, `CandlesBracket`: on which side of the horizon prices lie and
  how far off they can be, pages, chunks, open candles and deferral included.
* `CandlesComplete`: chunks of requests lose and double nothing.
* `ScorableIsScored`: a due pair whose prices are there gets scored, unless a
  whole batch of pairs as old or older that cannot be scored stays before it: of
  a product that is not listed, one without a trade in the span, or the
  portfolio without snapshots on both sides.

The store (`portfolio_store`):

* `HoldingsAreFollowed`: what a synchronization has held that came to its end is
  followed, unless a call to remove it had not ended when it began; in whatever
  order the synchronizations of two snapshots, of one posted twice or of a new
  process interleave, and whichever of them fail.
* `BtcStaysBenchmark`: when nothing is under way, BTC is a mere holding only if a
  synchronization was cut short, by a failure, a crash or ingest's timeout, and
  none that began after it had ended has come to its end.
* `ActiveIsInHistory`: whatever fails between the two statements of a save.
* `HistoryEndsActive`: without overlap and failure the last version that fits is
  active.
* `SwitchesHold`: a switch is taken back only while a call for it is being
  served, unless two of the read-modify-write calls overlap.

*Why these bounds.* Every race of the order path is between two create calls
with one key or one cap, between one create or cancel call and the worker, or
between two statements of one handler and a failure; two calls, one cancel and
one failure exhaust these pairs. Limits are chosen so that one order of 2 passes
the cap of 3 and two exceed it, that one body breaks the limit per order, and
that one is spelled "BUY"; the last is combined with the paper broker only
(`UpperOnPaper`, a constraint), since the policy and the tables do not know
which broker there is and the live one makes for many more states. In the pool,
two workers suffice for every pair, a channel of 1 is full after one trigger,
and a signal and a daily trigger differ in their lock; the cap is exhausted by
one decision so that two workers overrun it. An alert needs two prices that
reach the threshold in one direction only, two rules so that they are coalesced
or not, and two disturbances since `RulesCoolDown` is about a pair of them; the
clock has moments on both sides of a cooldown of 2. Batches and candle requests
are of size 1 so that the second pair or candle is already the one that does not
fit; a page is of 2 snapshots and a lookback of 4 holds up to 3, so that the
page is full of older ones or not. One product trades all the time, one has a
gap as long as a horizon, and the symbol an alert of the whole portfolio is
given is not listed. A decision whose first horizon would pass after the clock
has stopped is left out, since nothing could be scored of it. In the store,
three calls are two that overlap and one after them, or a snapshot, its
repetition and one more. `CHECK_DEADLOCK FALSE` everywhere because calls,
triggers, decisions and time are bounded: when all is dealt with, the system
rests.

*Fairness.* `Worker.Run` ticks for as long as the process lives and works
through every order of a tick before it sleeps, hence weak fairness of `Tick`
and of `Reconcile`; a crashed worker is restarted by its supervisor
(`docker-compose.yml`), which the model does at once. The exchange is assumed to
decide every order in the end (market orders). Nothing is assumed of callers: a
create or cancel call may stop at any statement. `OrdersCloseForGood` excepts
the paper modes `accept` and `partial`, which never close an order, and a paper
order whose status update failed, which the worker can only touch from then on.
In `AgentPool` some goroutine that can run does (the Go scheduler and
`sync.Mutex` give more), the cost query, the model and its tools answer or time
out (their clients have timeouts, `Decide` one of 60 s), and `Stop` and
`wg.Wait` return. The handlers of portfolio-api and the order call owe nothing,
since nothing bounds the decision POST and the order call but the context of the
service; nor do clock, triggers, signal and restart. In `OutcomeScorer` some
scorer that has something to do does it: the ticker never stops, and failures
are bounded. `AlertFlow` and `PortfolioStore` state no liveness: an alert that
failed to be stored is not tried again, and no handler repeats anything.

## 4. What is proved

For every value of the constants (assuming only what the modules ASSUME of
them):

| module | theorem | statement |
|---|---|---|
| `TradingOrders_proofs` | `TypeCorrect` | `Spec => []TypeOK` |
| | `OwnProviderIds` | `Spec => []ProviderIdIsOwn` |
| | `KeysAreUnique` | `Spec => []UniqueKey` |
| | `AnswersAgree` | `Spec => []SameKeySameAnswer` |
| | `CreateKeepsPromise` | `Spec => KeepsPromise` |
| `TradingOrdersSafety_proofs` | `PlacedOrdersWereAllowed` | `Spec => []OnlyAllowedPlaced` |
| | `OverrunsTakeARace` | `Spec => []ExposureOverrunNeedsRace` |
| `TradingOrdersFills_proofs` | `SettledOrdersStay` | `Spec => SettledOrdersStaySettled` |
| | `FillsAreBacked` | `Spec => []FillsBackedByExecutions` |
| | `FilledOnce` | `Spec => []FilledOrdersHaveTheirFill` |
| | `ExtraPlacementsCost` | `Spec => []ExtraPlacementsCostFaults` |
| `AgentPool_proofs` | `TypeCorrect` | `Spec => []TypeOK` |
| | `OneAtATime` | `Spec => []OneDecisionPerSymbol` |
| | `DecisionsStay` | `Spec => DecisionsAreFinal` |
| | `OrdersFollow` | `Spec => []OrdersFollowStoredDecisions` |
| | `OverrunBounded` | `Spec => []CapOverrunBounded` |
| `AlertFlow_proofs` | `TypeCorrect` | `Spec => []TypeOK` |
| | `CooldownsHold` | `Spec => []MovesCoolDown` |
| | `RuleCooldownsHold` | `Spec => []RulesCoolDown` |
| | `AlertsAreKept` | `Spec => []NothingSwallowed` |
| | `CapExceededByBacklog` | `Spec => []CapNeedsBacklog` |
| `OutcomeScorer_proofs` | `TypeCorrect` | `Spec => []TypeOK` |
| | `ScoresStay` | `Spec => OutcomesAreFinal` |
| | `NavBracketed` | `Spec => []NavBrackets` |
| | `CandlesBracketed` | `Spec => []CandlesBracket` |
| | `CandlesAreComplete` | `Spec => []CandlesComplete` |
| `PortfolioStore_proofs` | `TypeCorrect` | `Spec => []TypeOK` |
| | `HistoryKnowsActive` | `Spec => []ActiveIsInHistory` |
| | `HistoryEnds` | `Spec => []HistoryEndsActive` |
| | `BtcStays` | `Spec => []BtcStaysBenchmark` |
| | `HoldingsFollowed` | `Spec => []HoldingsAreFollowed` |
| | `SwitchesStay` | `Spec => SwitchesHold` |

*The order path.* `TypeInv` strengthens `TypeOK` by what typing of the worker's
steps needs: every order the worker or a cancel call holds exists (`HeldExist`),
and the broker ids in rows, in the tick's snapshots and in the worker's hand
name placements of that order in live mode (`IdsOwn`), since the worker stores
an id it was given some statements before. `RowStep` says what a step can do to
the rows: insert one, or leave every row its key, body and decision. On it rest
`KeyInv` (a call past its insert agrees with its row, and every answer agrees
with the row it is about), from which unique keys and equal answers follow, and
`AllowedInv` (a row is in the open set, in the tick or in the worker's hand
only if it was allowed), which is why the worker's blind writes cannot place a
rejected order. The refinement maps the table to the book of
`IdempotentCreate`: `InsertOrder` is `Make`, a replay, a conflict or the final
answer is `Reply`, every failure `GiveUp`, and everything else is invisible to
callers.

*The exposure cap.* `ExposureInv` says that what the check of a call saw leaves
room for its own order (`WithinCap`), and that the orders can be numbered so that
each check saw smaller numbers only (`Numbered`): a row is inserted after the
rows its check has seen. If no two open buy orders raced, the one with the
greatest number saw all the others, so together they fit under the cap, unless
the room it was given included an order of negative amount that has been closed
since. This last case was not in the property before the proof asked for it.
The property adds up what is bought however it is spelled; as long as no open
order is to "BUY", this is what the policy adds up (`ExposureWhenCounted`).
`BuyExposure` is a sum over a set; `DataTheorems` relates it to sums of which one
term can be taken out.

*What the worker writes.* It works on a snapshot of the rows, so the fill
properties need to know what it may still believe: `WorkerHolds` (it holds each
order once, with the broker id its row has) and `Observed` (a fill is due only
for an order that was executed). `FillBound` then counts: beyond the first, each
fill has cost a failure, and one that is still to come (`Refillable`) has cost
it already. `PlaceInv` does the same for placements: the book is no longer than
the orders placed and the failures, and an order that would be placed again,
because its broker id was not stored, has used up one in advance.
`SettledOrdersStay` needs no invariant: a step that touches an order takes it
from the table, from the tick or from a cancel call.

*The agent pool.* The invariant has three parts. `PoolInv`: a trigger is in one
place, the channel or one worker's hand, and a signal's key belongs to one
trigger (`TicketInv`); a worker past its mutex holds it (`LockInv`), from which
mutual exclusion follows, since a mutex has one holder and is released by it.
`StoreInv` relates handlers and rows: a handler that found or inserted a row,
and a row of a signal's key, carry what the trigger's own POST carried, since no
other trigger has that key, although handlers of earlier processes may still
run. `OrderedInv` then says that what was ordered is `OrderOf` the stored row,
and rows never change (`RowsStay`).

*The cost cap.* A check compares what is stored with the cap and reserves
nothing, so what is stored alone is not inductive. `BudgetInv` adds what is in
flight (`InFlight`): a worker that decides after its check, and a handler that
has yet to insert. If anything checked is stored or in flight, then what is
stored for a day and `MaxCents` for each in flight are at most `Room`, the bound
of the property: a check finds the sum below the cap (`DayChecked`), a row takes
the place of its own post in flight (`DayStored`), and whatever is in flight is
with a worker or its client has gone (`PostsHeld`, `FlightBound`), so that there
are never more than workers and abandoned handlers together.

*The alerts.* `Remembered`: the last alert of each symbol is in memory and in
the file, neither older than any alert raised. It is inductive because the file
is written before the alert is raised, the clock of ticks does not go back, and
a restart takes the file. The cooldown is then what `Alerts` tests.

The other properties stand on `Sound`: the parts of a tick have their types, an
alert on its way has been raised, a canceled service has got its signal, and the
second file is what the memory says unless a write of it failed. `RulesInv`: as
long as nothing is `Lost` (a failing write and a restart), the last alert of each
rule and symbol is remembered, and what has fired in this tick had cooled down
when it did; the events of a symbol become one alert, whose symbol no other
spelling shares (`SpellingAssumption`: ingest spells every position as a product
in USD). `NothingLost`: without a disturbance, every remembered time is that of
an alert stored, on its way to the table, or of an event waiting to be grouped;
`GateLetsThrough` shows that the gate never stops a move that `Evaluate` has
reported. `CapInv` counts pending triggers too: a trigger is *orderly* only if
its symbol had none pending, so all orderly ones of the day before it are stored
and were counted.

*The scorer.* `Single`: no pair has two outcomes; the insert itself looks, so it
does not matter what two scorers have read. The types of scorers and tables and
what is read on the way make the invariant of the prices (`Inv`): a pair that was
taken is due (`PairOK`), so the snapshots before its decision do not change any
more, and prices read in one step are still bracketed in the next (`PricedOK`).
`Complete` shows that chunks of a range, which share a bucket where they meet,
together ask for every bucket, by division of the bucket's distance from the
start; maxima and minima of finite sets are shown to exist first.

*The store.* `Planned` says what is left of a call by its kind: a call about to
activate settings has its version in the history, and a call about to write the
switches has read them. `AfterOK`: a call began after calls that had ended, so
that of two that are open together neither is after the other. `Fresh`: what a
call has read of the switches is out of date only if it overlapped with another
that changes them. History only grows, hence `ActiveIsInHistory`. `HistoryOK`
adds that a call about to activate is about to activate the last version, when
calls come in turn. `LeftOK` adds what a synchronization of the watchlist has
left: the rest of its holdings, and BTC as the benchmark last. On it rest two
invariants of what an interleaving can have undone. `BtcCovered`: while BTC is a
mere holding, some synchronization is unsettled, that is, still open, or cut
short with none complete that began after its end; for the one that wrote the
holding has its last statement to come, and one that begins after its end
rewrites the row itself. `HeldCovered`: each holding of a synchronization that
was not cut short is followed, still to be followed by it, or named by a removal
that had not ended when it began; other synchronizations only add rows, whatever
order they come in. Neither counts failures: a call that fails is cut, and `cut`
is all they ask.

*Assumptions* are what the code's types and loaders give: sizes and amounts are
numbers (of either sign),
positions and rules are sequences, `None` is not a value, horizons are finitely
many. Those that are more than that say so where they are made.

*Only model-checked:* all liveness (fairness and ENABLED are out of the prover's
reach). Every invariant and every action property of a passing run is a theorem.
The library's induction theorems
take an operator as a parameter and cannot be used, but its `WFMin` (a set of
numbers has a least element) does for induction over numbers and over finite
sets: the sums of `DataTheorems`, and `Flattened`, about the events of a rule
file, are treated by a least counterexample. `SelectSeq` has no definition
in the prover, which is why `RuleEvents` is written with `FlattenSeq`.

## 5. Findings

Five statements of the documentation do not hold of the code; each has a run
whose counterexample TLC finds, and an entry in `PROJECT.json`: canceled live
orders are not canceled at Coinbase; the exposure cap is a check-then-act race;
a sell of nothing held passes once enough is pending; stored orders are
answered with an error because their event cannot be inserted; daily decisions
enter the benchmark's headline.

Further disagreements are stated as properties of the modules. TLC refutes each
on the instance named, with the property put in place of those of its
configuration:

| property | instance | what is said | what the code does |
|---|---|---|---|
| `TradingOrders!PlacedOnce` | `orders_safety` | "Calls `PlaceOrder` once per accepted order" (`docs/plans/live-execution-broker.md:25`) | an order whose reply was lost is placed again, under a new client id |
| `TradingOrders!AuditTrail` | `orders_liveness` | "Add DB schema/migrations for order lifecycle and audit trail" (`.board/milestones/coinbase/cb-06.md:8`) | no event is ever inserted: its payload is NULL (`001_init.sql:28`) |
| `TradingOrders!ExposureWithinCap` | `orders_safety`, no failures | "`current_exposure + proposed_notional <= global_max_exposure`" (`docs/mcp-crypto-execution-spec.md:159`) | besides the race of `exposure_cap`, an order to "BUY" is not counted and needs no race |
| `AgentPool!HardCap` | `agent_cap` | "The cost cap is **hard**" (`docs/superpowers/plans/2026-05-18-agent-shadow-decisions.md:1301`) | the check reserves nothing; `CapOverrunBounded` bounds the overrun |
| `AlertFlow!MaxDecisionsPerDay` | `alert_flow` | "Max shadow-agent decisions per symbol per 24h" (`.env.example:76`) | triggers under way are not counted; `CapNeedsBacklog` |
| `AlertFlow!WrittenCooldownsHold` | `alert_flow` | `cooldown: "7d"` (`config/signals.yaml:64`) | `time.ParseDuration` knows no "d": the default applies |
| `OutcomeScorer!NearestSnapshots` | `outcome_scorer` | "the two nearest ingest snapshots bracketing `[t, t+H]`" (`.agent/epics/phase_2/agent-shadow-decisions.md:196`) | the start is the latest of the ten oldest of the week before; `NavBrackets` |
| `OutcomeScorer!EveryScorableIsScored` | `outcome_scorer` | "all horizons whose deadline has passed" (`.agent/epics/phase_2/agent-shadow-decisions.md:263`) | pairs that can never be scored fill the batch; `ScorableIsScored` |
| `OutcomeScorer!OutcomesAreOfSymbol` | `outcome_scorer` | "review your own track record on this symbol" (`config/agent-prompt.md:22`) | an empty list of ids is no filter (`agent_handlers.go:193`): a symbol without decisions is shown the outcomes of the others |
| `PortfolioStore!ManualSymbolsStay` | `portfolio_store` | "Manual symbols are left untouched" (`backend/cmd/portfolio-api/internal_handler.go:172`) | the upsert overwrites the source of a held manual symbol |

## 6. The plan

What is left, in order of worth:

1. The refinement of `OutcomeScorer` to "each due pair is scored once".
2. Fill quantities, so that partial executions (`live.go:341`) can be spoken of.
3. An order service in `AgentPool` as an instance of `IdempotentCreate` instead
   of its promise in one operator.

## 7. Not modelled

Sessions are single statements on a row; dashboards, tools of the agent and the
lists of portfolio-api only read; Discord, logging, configuration and metrics
are output and parsing; frontend and deployment present and start the rest.
Of modelled components are left out: the arithmetic of returns, quantities and
prices; the text of alerts, prompts and notes; the wire format and signing of
the broker clients; reconciliation rows, Lab notes and telemetry, which no code
that decides anything reads. `PROJECT.json` gives the reason per component.

## 8. Running

    tlc -config orders_safety.cfg MCTradingOrders
    tlc -config agent_pool.cfg MCAgentPool
    tlapm AgentPool_proofs.tla

A run takes between half a minute and about three minutes with two workers.
