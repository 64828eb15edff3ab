# A TLA+ model of memeV2

memeV2 watches Solana meme tokens, turns chart patterns into trade signals and
executes them on paper or live.  This directory holds TLA+ models of the parts
of its Go backend (`src/backend`) that decide what the account owns and of the
Vue client (`src/frontend`) through which a user watches and steers it, the
configurations with which TLC checks them, and proofs that TLAPS checks.
`PROJECT.json` lists the components, the runs, the mutants that show that each
property can fail, the code lines behind each definition, the findings, the
hazards and the theorems.

Contents: 1 the system, 2 the modules, 3 the runs, 4 bounds, fairness and
assumptions, 5 the proofs, 6 findings, 7 what is not modelled, 8 plan.

## 1. The system

One Go process (`cmd/server/main.go` wires it), one Redis, one PostgreSQL, and a
Vue client of one page.  The first table is the Go process, the second the page.

| Component | State it keeps | Operations | What makes it correct |
|---|---|---|---|
| Trade runtime (`internal/trade/service.go`) | `openPositions`, `inFlight`, `seenSignals`, mode and amount, under `runtimeMu` | ProcessSignal, ClosePosition, RetryOrder, RefreshOpenPositions, UpdateTradeMode, start-up | one position per token, nothing sold twice, nothing lost, memory, Redis and rows agree in the end |
| Persister (`persister.go`) | bounded channel of tasks, retry timers | Enqueue, loop, retry after 2 s | every row is written in the end, in whatever order |
| Redis position store (`position_store.go`) | hash of open positions | Save, Get, List, Delete | agrees with memory between two trades |
| Worker (`worker.go`) | subscription, ticker | one consumer goroutine, one price sync goroutine | signals are handled one at a time |
| Executor (`executor.go`) | none | buys, sells, quotes | external |
| Repository (`repository/trade.go`) | rows of signals, orders, positions, CA state | transactions, unique indexes | rows follow the market, losses are counted in order |
| Candidate monitor (`signal/candidate_monitor.go`) | Redis hash per candidate, active set, emission keys, `candidateMu` | two polling loops, add, trim, delete, symbol, blacklist | a position is watched until it is sold, each signal is sent once, nobody is stuck |
| Project poller (`signal/project_candidate_poller.go`) | which feed is next | adds, trims, names candidates | the pool stays below its limit, and bought candidates stay in it |
| Kline caches and store | forming bar, write-behind queue | merge, enqueue, flush | newer bars win |
| Level, breakout and exit rules (`backtest`, `signal`) | none | pure functions of klines | live and replayed decisions agree |
| Event bus and SSE (`eventbus`, `api/stream.go`) | subscribers, buffers of 32 | Subscribe, cancel, Publish | a client that stays sees the last state |
| GMGN keys (`integration/gmgnkeys`) | limiter slot, cool-downs | AvailableKeys, Wait, MarkRateLimited | requests are spaced, a limited key rests |
| Runtime alerts (`runtimealert`) | counters per rule, bounded queue | ObserveHTTP, notifier | one alert per cool-down, a recovery after its alert |
| Runtime switches (`runtimeconfig`) | four booleans, in memory and in the database | Update | memory is what was stored last |
| HTTP router, data sources, configuration | | | I/O, see 7 |

| Part of the page | State it keeps | Operations | What makes it correct |
|---|---|---|---|
| Store (`stores/backtest.js`) | four lists, last load, last backtest, trade runtime, one flag per kind of load | loads, commands, upserts and removals by a stream | lists sorted and free of duplicates, flags in step with requests |
| Dashboard (`views/BacktestWorkspace.vue`) | tab, filter, streams | switch tab or filter, refresh, act on a row | only the tab's streams are open; what they show is what the backend holds |
| Scenario workspace (same file) | form, loaded range, preview, selected window, level, trade, group | load levels or klines, backtest, open a signal or a position, select | chart, trades and label are of one answer; what is focused is what was traded |
| Trade console and tables (same file, `utils/time.js`, `utils/positions.js`) | controls, question on display, position being closed, clock | change mode, switches and amount, close a position | one command at a time, controls follow the backend, figures can be read back |
| Chart (`components/KlineTradeChart.vue`) | tool, drawings, selection, indicators, objects of the chart library | watch on the properties, toolbar, pointer | nothing is left on the chart from before, indicators and ranges are right |

How they interact.  The poller feeds candidates to the monitor.  The watching
loop sends a buy over a Redis channel when a breakout completes, the bought loop
sends a sell when the exit rule says so; both first take an emission key and
save the candidate.  The worker takes messages from the channel one at a time
and calls the trade runtime, which claims the token under its lock, releases
the lock, calls the executor and Redis, and queues the rows.  The monitor reads
those rows (and the Redis position) to learn what became of a signal: it is the
only acknowledgement.  A loss that the persister writes may blacklist a token,
which calls back into the monitor.  HTTP handlers close positions, retry
orders, delete or blacklist candidates, and flip switches from goroutines of
their own.  Every write of a table is published on the event bus after it was
committed, and from there goes to the streams of the pages.  A page loads five
lists at once, then opens the streams of its tab; each stream sends a snapshot
and then events.  The store is written by streams, loads and answers of commands
alike.  The workspace hands klines, levels, trades and the selection down to the
chart, which hands a selected range back up.

What is hard about it:

* locks are dropped around every call that leaves the process, so the consumer,
  handlers, price sync, persister, polling loops and pool requests meet between
  any two of them;
* four records of one fact (the account, memory, Redis, rows) are written at
  different times, and rows out of order when a write fails and is retried;
* pub/sub loses messages, and an acknowledgement is a row that may be late;
* the candidate's state is read, worked on for seconds and written back whole;
* a restart loses the channel, the queue and the copies, and keeps the rest;
* the page's handlers run one at a time, but every `await` and every confirmation
  lets others in: loads, backtests, snapshots and commands are answered in any
  order, and each writes a part of one picture;
* a list comes from snapshots, events, loads and answers of different moments;
* the chart library is told step by step what to draw, so what is drawn is a
  state of its own that can fall behind the one it shows.

`PROJECT.json` lists these at their lines as `hazards`.

## 2. The modules

### TradeService

The trade runtime with the persister, the Redis store and the rows.

| Variable | Code |
|---|---|
| `openPositions`, `inFlight`, `seenSignals` | the maps of `Service` |
| `redis` | the hash `open_positions:<account>` |
| `queue`, `delayed` | `asyncPersister.ch`, the tasks behind `time.AfterFunc` |
| `dbOrders`, `dbOpen`, `dbClosed` | rows of orders and positions |
| `held`, `nextId` | ghost: what the account owns; the next purchase |
| `pc`, `job`, `pos` | per goroutine: where it is, its signal, its position |
| `syncPc`, `syncTodo`, `syncCur` | the goroutine of RefreshOpenPositions |

One action is one region under `runtimeMu` or one call that leaves the process.
A buy is `ReceiveSignal` or `RetryOrder`, `TryBeginBuy`, `RejectBuy` or
`AcceptBuy`, `BuyFails` or `BuyFills`, `SaveBought` (Redis), `MarkOpenPosition`
(memory), `EnqueueFilledBuy`.  A sell is `TryBeginSell` or, for a manual close,
`BeginManualSell`, then `GetStored` (Redis), `TakePosition` (memory),
`SubmitSell`, `SellFills`, `DeleteStored` or `DeleteStoredFails`, `FinishSell`,
`EnqueueFilledSell`; a failure goes through `SaveRestored` and
`RestoreOpenPosition`.  `RunTask`, `FailTask` and `RequeueTask` are the
persister, the `Sync*` actions the price sync, `Restart` a stop and
`loadRuntimePositions`.  `Applicable` says what the database demands of a row:
a purchase's row needs the token free in the partial unique index, a sale's row
needs the purchase's.

Left out: prices and quantities, payloads, events, and the status columns of
signals and orders; a task that only updates a status is not in the queue.

### PositionLedger

What the runtime promises of one account: a token goes flat, buying, open,
selling, flat; a purchase that fails returns to flat, a sale that fails returns
to open with the same position; ids are never reused.  `TradeService!Ledger`
instantiates it: the phase is read off `inFlight` and `openPositions`, a
position that is being sold is with its seller, and an id is used once its
buyer has put it into memory.

### CandidateMonitor

The life of one candidate against the trade side.

| Variable | Code |
|---|---|
| `stored`, `active`, `emitted` | the candidate's hash, the active set, the emission keys |
| `candidateMu`, `pc`, `copy`, `loadedBar` | the mutex; per loop or request, where it is, its copy, its klines |
| `bar`, `overdue` | the forming bar; signals whose acknowledge timeout has passed |
| `channel`, `consuming`, `tasks`, `rows`, `openRows`, `closedRows`, `runtime` | the trade side as the monitor sees it |
| `blacklisted` | `ca_blacklist.is_blacklisted` |
| `exitPoint` | market data: for each purchase, the first bar at which the exit rule holds |
| `sentBuys`, `sentSells`, `straySells`, `exitBars`, `faults` | history and budget |

`Poll`, `LoadKlines` and one decision (`Watching*`, `Sell*`, `Buy*`,
`SignalAccepted`, `Hold`, `TriggerExit`) are a round of `processCandidate`;
`AcquireEmission`, `SaveEmitting`, `Publish` or `PublishFails` send a signal;
`SaveAndReturn`, `SaveStopped` and `RemoveActive` are the writes to Redis.
`DeleteCandidate`, `TrimCandidate`, `UpdateSymbol`, `BlacklistCandidate` and
`ClosePosition` are requests.  `Consume`, `ExecuteBuy`, `ExecuteSell`,
`SkipSignal` and `WriteRow` are TradeService seen from outside: a sequential
consumer that answers with rows, written later and in any order that the
database accepts.

A sell is named by its exit point, the first bar after the purchase at which a
rule holds (`SellOf`).  The klines hold that bar from the start (`exitPoint`, any
function), so that every later poll names the same sell; the bar that is recorded
as the exit, and that keeps the candidate from being bought again, is the one of
the poll (`TriggerExit`).

Left out: klines are the number of the forming bar and the entry and exit rules
are free choices, so every property holds for whatever rule decides; prices and
the price synchronisation of the entry; the check of `CandidateAt`;
`seenSignals` (an emission key already keeps an id from being sent twice);
adding a candidate again after it has left; the execution switch (a message
dropped by it is a lost one).  Reads of Redis and the database that one
decision makes are one step with it; one that fails ends the poll unchanged.

### TradeStream

The lists of the dashboard, from the tables of the backend to the page.

| Variable | Code |
|---|---|
| `history` | the tables after every write, so that an answer can be of any moment between the call and the answer |
| `pubs` | writes that are committed and not yet published (`eventbus.Publish`) |
| `tab`, `filter`, `lists`, `loading` | `tradeTab`, `tradeFilterMode`, the lists and `tradeLoading` of the store |
| `sources` | `tradeStreamSources` with the subscriber's channel at the other end |
| `requests` | dashboard loads and commands in flight |

`Put`, `Discard` and `Publish` are a writer of the backend; `Subscribe`,
`Snapshot` and `Receive` are `streamTopic` in `api/stream.go` and the listeners
of the page; `Disconnect` and `Refuse` are what a network and an error status do
to an `EventSource`.  `LoadAnswered` is the end of `refreshTradeDashboard`, which
restarts the streams, and `ActAnswered`, `AddAnswered`, `RemoveAnswered` are the
ends of the commands.  `upsertSorted` and `limitSortedItems` are the store's.
The four kinds of row are four topics of the bus; `Publish` gives an event to the
subscriber of its topic and drops it if the channel is full.
`Ordering` says what a sorted and a filtered list are (`Arranged`, `Sublist`): each
element is placed by the number of elements that come before it.  It also has the
first of a set (`Least`) and the sums of a list (`RunningSum`, `SumOf`); the models
of the tables, the scenario and the chart use it as well.

A stream notes for the properties whether its channel lost an event (`missed`) and
whether an answer that is not what it shows replaced its list (`stale`).  There
are two kinds of such answers (`Unfit`): of an earlier moment than the stream has
shown; or, since `retryTradeOrder` and `closeTradePosition` load the dashboard with
the filter of the moment of the click, for a filter that was changed meanwhile.

Left out: the summary, texts of errors, heartbeats; publications of one table
arrive in the order of its writes (that they may not is a hazard of section 7).

### ScenarioView, ScenarioChart

`ScenarioView` holds what the workspace computes from an answer: the order of
levels, which level stands for a band, which window stands for a breakout, which
window, level and trade a key means, the trade nearest to a position, the group
with the best profit.  The page compares levels in two ways: two levels are one
band if type, market cap and both bounds agree to twelve digits (`bandKey`), and one
choice of the user if type, market cap to twelve digits and times agree (`levelKey`),
whatever the bounds are.  A band is a record of three amounts, and the last digit of an
amount stands for all that `toPrecision(12)` drops.  `ScenarioChart` is the state
around it.

| Variable | Code |
|---|---|
| `form`, `touched`, `auto` | token and data source of the form, `tokenAddressTouched`, `hasAutoSelectedCandidateToken` |
| `chart` | `result` and `strategyBacktestResult` of the store, `signalPreviewTrades`, `loadedRange` |
| `pick`, `levelView`, `chartRange` | the selected window, level, trade and group; the view of levels; the range dragged on the chart |
| `busy`, `marks` | flags of the store; the row whose button spins |
| `requests` | requests in flight, one slot each |

Each request is an action that ends at the `await` and one that goes on with the
answer.  `loadPositionCandidateScenario` is a chain of two requests, the second
for the token the form names by then; a sell without a snapshot is a chain as
well, and if a closed position's button started it, the button spins to the end
of the second request (`ViewOps`).  `answers` numbers the answers, so that a
part of the page can be traced to the one it came from (`by`).

Left out: parameters of the form other than the token and the source, whose
values the handlers set; candles (an answer has a number of them); texts.

### TradeTables, TradeConsole

`TradeTables` holds the formats of ages, durations and amounts and the totals of
the positions; a text is the record of the numbers that stand in it, so that one
can ask whether it can be read back.

| Variable of `TradeConsole` | Code |
|---|---|
| `config` | mode, amount and switches of the backend |
| `runtime`, `shown`, `edited`, `updating` | `tradeRuntime` of the store, the four controls, an unsaved amount, `runtimeUpdating` |
| `updates`, `startup` | updates in flight; the two requests of `onMounted` |
| `dialog`, `closing`, `closes` | the confirmation on display, `closingPositionID`, closings in flight |
| `positions`, `now` | the table and `relativeNow` |
| `stale` | history: another client, a lost answer or an overtaken load |

An update is sent, begun (`updateTradeRuntime` sets or reads the mode), finished
(amount and switches) and answered, or it fails before, between or after these.
A confirmation is an action that opens it and one that answers it, with anything
but another confirmation in between.

Left out: columns that print one value, the CA risk table, error texts.

### ChartSeries, KlineChart

`ChartSeries` computes what the component plots: klines in order and without
doubles, levels and markers, moving averages, bands, what lies under the
pointer.  `KlineChart` is the component with what the library draws.

| Variable | Code |
|---|---|
| `props` | klines, levels, selection, window, trades, focused trade |
| `tool`, `drawings`, `pending`, `selection`, `hovered`, `enabled` | the refs of these names (`activeTool`, `pendingTrendPoint`, `hoveredTradeMarker`, `enabledIndicators`) |
| `series` | what the library shows: candles, a bag of price lines, markers, indicators |
| `priceLines`, `hoverPriceLine`, `plotted` | the objects the component keeps in order to remove them |
| `overlay`, `emitted` | the drawings as last placed; the range handed to the workspace |
| `windows` | history: the windows shown since the watch on the properties last ran |

The lines are a bag because the library would show one twice.  An action is a
watch or a listener with every `render` it calls.  The watch lists all properties
but the window (`Watched`): `PropsChange` is a change that makes it run,
`WindowChange` one of the window alone, after which the component draws nothing and
the card of a marker stays.

Left out: zooming and scrolling (the axis shows all bars at equal distance),
resizing, the fullscreen view, colours other than a profit's; a list that is replaced by
an equal one, which makes the watch run all the same (the workspace computes a new
list of levels with every window, so that `WindowChange` is rarer there than here).

## 3. The runs

| Run | States | Question |
|---|---|---|
| `trade_ownership` | 709,742 | Two signals, a handler, two modes, failing rows and Redis reads: at most one position of a token is owned (`OneHeldPerToken`), nobody sells what is gone (`SellsOnlyHeld`), what is owned is in memory or in the hands of its trader (`NothingStranded`), Redis and memory agree between trades (`StoredMatchesMemory`), once all is written the open rows are what is owned (`RowsFollowMarket`), and every step is one of the ledger (`ImplementsLedger`). |
| `trade_restart` | 945,460 | Crashes at any point, failing rows and failing deletions: what the database shows closed does not come back (`ClosedIsGone`), claims are exclusive (`InFlightExclusive`), no row is closed before the sale (`RowsNeverAhead`). |
| `trade_runtime` | 21,227 | With price sync, failing Redis calls and a channel of one place: each claim is released (`InFlightReleased`), each sale reaches the database (`SalesAreRecorded`).  Liveness. |
| `candidate_exit` | 131,783 | Three bars, a sell and its retry, a manual close and any one fault: bought as long as there is a position (`PositionIsMonitored`), no longer (`BoughtResolves`), a pending sell ends (`SellAnswered`), no purchase on a bar on which a sell was sent (`NoReentryOnExitBar`).  Safety and liveness. |
| `candidate_signals` | 1,960,373 | Three bars, sells that are retried and named alike at every poll, a deletion and any one fault, a crash included: no signal id is published twice (`EachSignalSentOnce`). |
| `candidate_writers` | 28,822 | One bar, up to a purchase: trim, symbol and blacklist against slow loops: no copy erases a symbol (`SymbolKept`), a blacklisted candidate leaves (`BlacklistedLeaves`). |
| `trade_stream` | 2,252,567 | Loads, streams, commands, tabs, filters and a network fault: lists are sorted, without doubles and within their limit (`ListsAreOrdered`), the streams open are the tab's (`StreamsFollowTab`), and a stream that delivered everything shows what the backend holds (`StreamShowsServer`). |
| `scenario_chart` | 77,883 | Two overlapping requests of any kind that are answered in any order or fail: trades, klines and label are of one answer (`TradesMatchChart`, `LabelMatchesChart`), flags and the marks of the buttons end with their requests (`BusyMeansInFlight`), a chosen token stays (`ChosenTokenKept`), a focused trade is shown on its band if no level of another band shares the key (`FocusLandsOnBand`), every finding is listed once (`FindingsShownOnce`), and the nearest trade is the nearest (`NearestIsNearest`). |
| `trade_console` | 361,536 | Controls, confirmations, a slow start, failing updates, a second client: one command at a time (`CommandsAreSerial`), in the end the controls show the backend (`ControlsFollowServer`), and the table's figures can be read back (`TablesReadBack`). |
| `kline_chart` | 27,185 | Three sets of properties, two of them apart in the window only, under the toolbar and the pointer: the lines and drawings are those of the moment and the markers of a window shown since the last rendering (`LinesMatchState`), indicators agree with their definitions (`IndicatorsMatchSeries`), a selected range names klines on display (`RangeIsShown`). |

The runs that find a violation are in section 6.  Every property of a passing
run has a mutant: a variant of one definition, kept beside it in the module and
marked "Variant", that makes the bug a programmer might make there and that the
run finds.

Deadlock checking is off everywhere: inputs are bounded (signals, buys, bars,
faults), and a run in which they are used up and all work is done has stopped
as the bounds demand.  That nothing stops half-way is what the liveness
properties say.

To run one: `tlc -config trade_ownership.cfg MCTradeService`, and so for
`trade_restart`, `trade_restart_loss` and `trade_runtime`; the `candidate_*`
configurations are for `CandidateMonitor`, `trade_stream` and
`trade_filter_race` for `TradeStream`, and `scenario_chart`, `trade_console` and
`kline_chart` for `MCScenarioChart`, `MCTradeConsole` and `MCKlineChart`.  The
longest, `trade_stream`, takes two to three minutes.

## 4. Bounds, fairness, assumptions

**Bounds.**  Two purchases (`MaxBuys`) are what it takes to confuse a position
with its successor; two threads, one of them the consumer, are what it takes to
race for a token, since a claim is made against one other owner; one token, as
tokens only meet in the queue (a delayed task of another token is a retry's
delay).  The proofs of section 5 hold for every number of them.  `QueueSize` 1
or 2 fills the channel in the middle of every trade.  An order that exists may
be retried for ever, so two signals give arbitrarily many attempts.  In
CandidateMonitor three bars give a purchase, an exit that is polled later than
its bar and a new breakout after it, one fault gives every single point of
failure, and one retry a sell under a second id; more faults and attempts only
repeat, as each failure returns the loop to a state it was in before.  `Attempts`
leaves room for one more than a sell may be retried.  `candidate_writers` is
about who writes, and has one bar: the candidate is watched and bought, not sold.

TradeStream: two tabs (the one of the candidates, which all others share as a
second stream or not at all, and one with two streams), two rows, a limit of one
row and a channel of one place, so that a list is cut and a subscriber overflows
at the second row; two writes, one operation of the user and one fault give
every pair of a stale and a newer version.  ScenarioChart: two requests in
flight are every pair that can overtake each other, three operations allow a
selection before, between and after; the answers hold windows that share a
breakout, levels that share a band, bands that differ after the twelfth digit, two
bands under one key, equal scores, an empty range and a group without a trade.
TradeConsole: two slots show that the second is never used;
the positions stand at the bounds of the formats (a minute, an hour, a day, a
thousand, a million), on both sides of them.  KlineChart: periods of 2 and 3
bars instead of 7 and 20, and one level per type instead of three, are reached
and passed by four klines and four levels; a width of 40 pixels puts several bars
within reach of one pointer; the pointer is left of the chart or on a bar that both
property sets have, which is where a range or a trend line outlives a change of the
klines; two sets differ in everything the component watches, the third from one of
them in the window.

**Fairness.**  `TradeService!FairSpec`: every thread that can go on goes on
(`SF`): executor, Redis and database clients have timeouts, and senders blocked
on a Go channel are served in order, so a sender is not overtaken for ever;
for the same reason and because its timer fires after 2 s, a failed task is
queued again (`SF`); the persister's loop runs (`WF`).  Nothing is assumed of
requests, signals, faults or price sync.
`CandidateMonitor!FairSpec`: the loops poll on tickers and finish what they
began, the consumer and the persister work off what they hold (`WF`).  The
timeout of a pending signal passes (`SF`): `time.Now` goes on whatever the
loops do.  Faults are bounded by `MaxFaults`, that is, a failure does not last
for ever.
The models of the page assume no fairness: what they state is safety, and of a
state in which nothing is in flight.

**Time.**  Bars and the acknowledge timeouts (10 s for a buy, 5 s for a sell) pass while a
writer waits for its klines, but not between its calls to Redis and the
database, which take milliseconds; the fault `slow` lifts this.  Unless `late`,
a signal that reaches the trade side gets its row before the timeout.

**External.**  The executor fills or fails, and an error means that nothing was
traded.  Redis and the database apply a call or report an error, and a call
that reports one was not applied.  Of the browser the models use that handlers
run one at a time, that an `EventSource` connects again after a break and not
after an error status, and that `Array.prototype.sort` is stable; of the chart
library that a price line stays until it is removed and that bars are evenly
spaced.

## 5. The proofs

`TradeServiceProofs` proves for all constants and without further assumption:

* `TypeCorrect`: `Spec => []TypeOK`;
* `TokensAreExclusive`: `Spec => []InFlightExclusive`.  The property is nearly
  inductive: with `TypeOK` and the fact that a thread that owns a token has a
  job of the right side, every action either leaves the ownership alone, takes a
  free token or gives one up.  It needs nothing of Redis, the database or the
  executor, so it survives every fault, restarts and price sync;
* `RowsFollowSales`: `Spec => []RowsNeverAhead`.  Its invariant `RowsInv` says
  that no position anywhere, in memory, Redis, rows, tasks or threads, has an id
  the market has yet to give out (`AllIssued`), and that a thread past a sale and
  the row it queues name a position the account no longer has (`SoldIsGone`).  A
  purchase is then new to everything, and a closing row can only take what is
  gone.

and from conditions that TLC shows to be needed:

* `ClosedStaysGone`: `WritesReach /\ Spec => []ClosedIsGone`.  `WritesReach` says
  that price sync is off and writes to Redis succeed; rows, reads and deletions
  may fail and the process may die at any point.  (With price sync, or when a
  write fails and later a deletion does, a closed position is in memory again.)
  Closed rows alone are not enough for an induction: the sale may just have been
  filled, or its row be in the queue or in delay.  `GoneInv` follows the position
  from the fill on (`Sold`): what memory lists is not sold, and Redis, from which
  a sale reads its position, has nothing else for that token (`Listed`); a thread on
  its way to a sale, or about to put a position into memory or back, has one that
  is not sold (`AliveInHand`).
* `RowsCatchUp`: `"crash" \notin Faults /\ Spec => []RowsFollowMarket`, under
  every other fault and with price sync.  `RecordInv` says that what the account
  owns is `Recorded` (it has its row, or a task in the queue or in delay will
  write it, or a thread is about to queue that task), and that what is recorded
  is owned until it is `Sold` in the same sense.  When no task is pending and no
  thread at work, only rows remain.  A restart loses the queue, hence the
  condition.

The second half of the module assumes `Undisturbed`: no price sync, and no faults
but failing database writes and Redis reads.  The findings below show why: price
sync, a failed deletion and a restart each break what is proved, and so does a
failed write to Redis (memory then lists a position that a sale cannot find).  Its inductive invariant
`Accounted` says, for each place in the code, where the position of a token is:

* a free token has the same entry in memory and Redis, and exactly that entry is
  owned;
* during a purchase nothing is owned until the executor fills; then the buyer
  has the position, Redis has it after `SaveBought`, memory after
  `MarkOpenPosition`;
* during a sale the seller has the position, Redis lists it until
  `DeleteStored`, memory lists it until `TakePosition` and again from
  `RestoreOpenPosition`, and it is owned until the executor fills;
* nobody else writes: price sync is idle, and no deletion of a Redis entry is
  in the queue or waits for its retry (it gets there only when a deletion
  failed).

None of the four properties is inductive without it: that a seller holds what
is owned, for instance, depends on Redis, from which it read the position, and
Redis depends on the sale before.  From `EverythingAccounted`
(`Undisturbed /\ Spec => []Accounted`) follow `OneHeld`, `NothingSoldTwice`,
`NothingLost` and `StoreAgrees`.

It proves under the same assumption that the runtime implements
`PositionLedger`: `RuntimeImplementsLedger` is
`Undisturbed /\ Spec => ImplementsLedger`, where the mapping of `TradeService`
reads the phase of a token off the in-flight mark and its position off memory
or, while it is being sold, off its seller.  `TokensAreExclusive` makes the
seller unique, `Accounted` says what memory holds when a mark is set or cleared,
and one more invariant, `IdsIssuedOnce`, that two buyers never carry one id, so
that a purchase opens a position the ledger has not used.  A step changes the
ledger at one token at most (`LedgerAt`); the lemmas `BuyerLedger`,
`SellerLedger` and `ClaimantLedger` find the ledger's step for each action.

`CandidateMonitorProofs` proves for all constants and without further assumption:

* `TypeCorrect`: `Spec => []TypeOK`.  A copy in a goroutine's hand is only of its
  type if it fits the place where the goroutine is (a loop that decides on a sell
  has a bought state in hand, one that emits has an id to emit); `Typed` says so
  place by place, and that no state is of a bar that has not begun.
* `SymbolNeverErased`: `Spec => SymbolKept`.  Copies are written back whole and
  may be old, so the proof is about `SaveCandidate`, which keeps the stored
  symbol, and about the steps that write.

`CandidateSignalProofs` builds on it.

* `SignalsSentOnce`: `Prompt /\ Spec => EachSignalSentOnce`, where `Prompt`
  excludes slow writers and the request that changes a symbol.  Both are needed:
  that request, and a slow writer, put back a state from before a signal, and
  TLC shows the signal sent again.  The emission key alone does not make the
  property inductive, since it is given back when a publication fails or a signal
  is given up, and a sell has the same id at every poll: `SentOnceInv`
  says that a signal that was sent and whose key is free again lies behind the stored state and behind every copy in hand
  (its bar is decided, its buy is over or its attempt is past: `BuysPassed`,
  `SellsPassed`), and that if both loops are at work on the candidate, which a
  rollback after a failed publication makes possible, the bought loop works on an
  older buy that was never sent (`LinesApart`).
* `PositionWatched` and `NoReentry`: `Steady` implies `[]PositionIsMonitored` and
  `NoReentryOnExitBar`.  `Steady` lets Redis, the feed and trades fail and
  messages get lost, and positions be closed by hand: the faults and requests of
  the run `candidate_exit`.  With a failing publication, a restart or the symbol's
  request TLC finds positions that nobody watches.  `ExitInv` ties
  the two sides together: of each signal the message, the order, the rows and the
  answer (`Waits`, `ComesOnce`), the open position and the state that owns it
  (`Owned`), and that the bars of the sells are behind what is decided
  (`ExitsPassed`).

`ScenarioChartProofs` proves, for any tokens, answers, positions and any number
of requests in flight: `TradesAlwaysMatch`, `LabelAlwaysMatches` and
`BusyAlwaysInFlight`.  The assumptions are on what arrives: an answer has a number
of klines, a signal and a position name a token, a position its opening signal or
none, and a pool is a list of tokens, some of them empty.  The
first two share an invariant, `ChartInv`: the properties themselves and that the
counter of answers is a number, so that an answer that arrives is newer than all
on the page.  The third needs the shapes of requests and flags (`FlagInv`): a
flag is reset by whichever request of its kind ends first, hence its invariant
is one of sets of requests and not of one.

It goes on to `TypeCorrect` and `ChosenTokenStays`.  `PageInv` adds to `FlagInv`
that a request carries what its answer will need, that answers on the page are
numbered, and that the form holds a token or nothing.  The step that matters for
the second is the watch on the list of candidates, which gives a form that was
filled automatically another token: `SublistIs` says that the options it compares
with are the addresses on the list, the empty ones left out.

`TradeConsoleProofs` assumes of the rows (`IsRow`) that they have an id, were opened
at a time and at a cost, and otherwise hold numbers.  It proves
`CommandsAlwaysSerial`.  The invariant adds the shape of a question: one about a
closing names a position, one about an update was asked while none was in
flight, and the controls it blocks have sent none since.

The module goes on to `ControlsAlwaysFollow` and `ConsoleTypeCorrect`.
`ControlsFollowServer` speaks of moments at which nothing is in flight;
`FollowInv` says field by field what holds in
between: the answer of an update that is done is what the backend holds, and
the store differs from the backend, or a control from the store, only in the
field of the update in flight, of the open question, or in an amount being
typed.  That only one update is in flight (`SerialInv`) is what makes an answer
with all four values safe to take over.

`TablesAlwaysReadBack` is about the texts.  That the positions are a list of rows
and the clock a number (`TableInv`) is all it needs of the state; the rest is
arithmetic, for any seconds and amounts: the parts of a time make it up and what a
text leaves out is less than its last unit (`PartsAre`, `KeptParts`), a rounded
number is half a unit off at most (`Rounded`), and of the open rows the strip sums
what the table sums with 0 for the others (`SublistSum`).

`TradeStreamProofs` proves `StreamsAlwaysFollowTab` for any tabs, tables,
writes, requests and faults; its invariant adds that a stream that is closed is
closed altogether and the tab one of the dashboard.

It goes on to `TypeCorrect`, `ListsAlwaysOrdered` and `CaughtUpStreamsShowServer`,
which share the invariant `ShowInv` (for the first of them: a channel holds events
of its own topic only, and no more than it has room for):

* `History`: a table has one row per id, rows of one time are versions of one
  row, and a trade never goes nor gets an earlier time;
* `Events`: events name rows the tables have had, one event per write;
* `Asked`: a request was made before now, and a candidate whose removal is to be
  answered was gone after that write;
* `Ordered`: a list is sorted by `Comes`, without doubles and within its limit;
* `Stream`: what a stream has ahead of it, in its channel and still to be
  published, is in the order of the writes; of each row the last such event tells
  what the table holds now (`LastTells`), and a row without one is as it was at
  every moment the snapshot may be of (`Covers`), unless the channel overflowed;
* `Right`: if the stream lost no event and its list was not overwritten, then, of
  the rows that no event is ahead of, those on the list are in the table, and those
  the backend would answer are on the list.

`StreamShowsServer` speaks of the moment at which nothing is ahead; `Right` is
what lies in between.  The difficult part is the limit: a row that was cut off
does not come back when a row before it leaves.  `CutKeeps` shows that no such row
is wanted: an update never makes a trade older, so that a row on the newest page
was on every page since its version was written; only candidates are deleted, and
their list has no limit.  The attempt to prove the property
corrected it: with more than one operation of the user a list can also be
replaced by an answer for an older filter, which `trade_stream` is too small to
show; hence the second case of `Unfit`.  (TLC agrees on `trade_stream` with three
operations out of `filter` and `act`, one write and no faults: 361,404 states.)

`ScenarioChartProofs` goes on to what the page derives from an answer.
`FoundAlwaysNearest`: `findNearestTradeByBuyTime` is the least place in an order of
distances and indices, and a finite set has one (`LeastIs`); what the state must
provide is that the groups on the page are those of an answer (`GroupsInv`), whatever
answer, preview or load came last.  `FindingsAlwaysShownOnce` is about the two loops
that leave out duplicates, for windows and levels in any number.  Each loop is a
recursive function with an invariant for its first n elements: of the levels seen each
band has one in the list, and none of them is better (`OnePerBand`); the signatures
remembered are those of the windows seen, and the windows kept are those that brought
one that no earlier window had, each signature at one place (`KeptOnce`, and `ScanInv`
for the loop inside).  `WindowsInv` says that the windows on the page are those of an
answer or of one complete snapshot, which rests on requests naming stored signals
(`RequestsTyped`).

`KlineChartProofs` proves, for any properties, periods, places of the pointer and
operations, from the assumption that the klines of one list are bars of one interval
(they do not overlap) and that trades have numbers for times and prices:

* `TypeCorrect` and `LinesAreThoseOfState`, from one invariant, `KInv`.  Of the markers
  it says what the code grants: they, and the one that is pointed at, are of one of the
  `windows` (`MarkersInv`).  That the lines on the chart are those of the state is not inductive: the component removes only
  the lines it remembers, so `LinesInv` says in addition that what it remembers, with
  the hovered line, is all there is on the chart.  Then removing leaves an empty bag,
  and creating gives what the state says.  An action that changes less than it draws
  (hovering, drawing a trend) is shown to leave the rest as it would be drawn.
* `RangeNamesKlines`, an action property.  Klines on the chart have rising seconds
  (`ItemsOf`), the nearest bar rises with the pointer, and bars that do not overlap are
  counted by their seconds as well as by their times.
* `IndicatorsAreThoseOfKlines`.  `PlotsInv` says that what the library shows is what
  the component remembers and what `Plots` computes of the klines of the moment.  What
  `Plots` computes is then shown to be what the names promise: the running sum of a
  moving average is the sum of its window (`AveragesAreMeans`), the exponential one has
  falling weights (`AveragesAreWeighted`), and the squared deviations of a band are the
  mean of the squares less the square of the mean (`BandsAreVariances`).

`OrderingProofs` has the lemmas on `Arranged`, `Sublist`, `Least` and the sums that the
page's proofs rest on.  What the first two return has each element once and in order,
and there is only one such list (`ArrangedIs`, `SublistIs`, `SameArrangement`): proved
from cardinalities, not by induction over the list.  A sum is a recursive function; that such
a function exists and is unique (`Recursion`), and that two functions with the same
steps agree (`EachNumber`), is proved from the least number at which they would not,
since the induction theorems of the library cannot be instantiated.

Only model-checked:

* liveness and what depends on fairness, out of TLAPS's reach: `InFlightReleased`,
  `SalesAreRecorded`, `BoughtResolves`, `SellAnswered`, `BlacklistedLeaves`;
* what fails under more faults than a theorem's condition admits, on the
  instances that section 6 names;
* `FocusLandsOnBand` of `ScenarioChart`: windows, levels and trades are selected by
  key, so that it rests on what an answer holds: which of its items share a key.
  (Without its last condition, that no other band listed has the key of the one
  traded, TLC finds it violated.)

## 6. Findings

Each of these runs ends in a counterexample to something that the repository
promises; `PROJECT.json` quotes it.

| Run | What happens |
|---|---|
| `trade_restart_loss` | At start open rows overwrite Redis.  If the rows of a sale and a new purchase were still queued, the sold position replaces the new one. |
| `trade_filter_race` | The first load of the page, for all trades, is under way and the filter is changed once, to paper.  Each load sets the lists and restarts the streams with the filter it was started for: if the new load is answered first, the answer of the first one then puts lists and streams back to all, while the control shows paper. |

More of the same kind can be seen by changing a configuration; the properties
named here are defined in the modules:

* price sync (off by default) writes the positions it copied before fetching
  prices back to Redis and memory: a position that was sold meanwhile comes
  back, and after its second sale the token is bought although a newer position
  is owned: `OneHeldPerToken`, on `MCTradeService` with
  `PriceSyncEnabled = TRUE`, three signals and three purchases of one mode, and
  no faults;
* a deletion in Redis that failed is retried by token and removes the position
  bought since, which cannot be sold any more: `OpenIsStored` with the faults
  `db` and `redis_delete`, on `MCTradeService`;
* a crash after a signal's row was inserted as accepted and before its status
  was written makes the monitor wait for ever: `BoughtResolves` in
  `candidate_exit` with the fault `crash` for its own;
* a crash after a sell's emission key was taken and before its state was saved:
  every later poll names the same sell (`SellOf`), finds its key taken and ends
  (`AcquireEmission`), so that the position is not sold by the strategy any more;
* trimming stops a candidate by a copy it listed while it was watching; it has
  been bought since and nobody watches the position (`PositionIsMonitored` with
  the request `trim` and the fault `slow`).  The symbol update does the same;
* after a manual close the open row outlives the position, and each poll sends
  another sell until the row is written: the invariant `NoRepeatedStraySell` in
  `candidate_exit`;
* `candidate_exit` with the fault `late` (a buy given up after ten seconds fills
  all the same) or `publish` (the rollback of a failed publication meets the
  bought loop's save) violates `PositionIsMonitored`;
* `candidate_writers` with the fault `redis` violates `BlacklistedLeaves` (a
  candidate is saved as stopped, stays in the active set, and no loop looks at
  it again).

On the page, smaller ones that the models show and no document rules out: the
compact form of an amount goes wrong next to a million (1,000,020 is printed as
`1mk`, 999,950 as `1000k`); a flag of the store is cleared by whichever load
ends first, so that a button is enabled while another load is under way; an
update brings the whole configuration into the store but sets only the control
that was used, so that another client's change of a second one is not shown
there until the page is loaded again; the load after a retried order or a closed
position uses the filter of the click, so that lists may show the trades of one
filter while control and streams have another; two levels with one market cap, to
twelve digits, and the same times share a key whatever their bounds, and the page
highlights the one it lists first, so that a trade may be shown on another band than
its own (within a window the backend derives the bounds from the market cap, which makes
this rare); the chart's watch leaves out `currentWindowIndex`, so that a change of the
window alone would leave the markers of the former one on the chart and its card
open.

## 7. Not modelled

Configuration, logging, start-up wiring, schema migration, HTTP clients and data
sources, Telegram formatting, the router's parsing and the deployment scripts
keep no state that interacts, or only move and format data; where the modelled
code calls them their failures are choices of the model.  The executor and the
wallet are external.

Of the page: the application shell and its one route, components that only show
their properties (metrics, trade points, address links), the clipboard, the
parameter form, zooming and the fullscreen view of the chart, all styles and
layout, and the built bundle under `.deploy`, which is generated from the rest.

Of the backend, each for its own reason:

* kline caches and the kline store: pure merges and a write-behind queue whose
  overflow starts a goroutine per batch; in the plan;
* level and breakout detection, the strategy and its metrics: functions of long
  kline sequences; in the plan as operators over short ones;
* GMGN and Birdeye keys: spacing and cool-down by the clock; in the plan;
* runtime alerts: counters and a bounded queue; in the plan;
* the pool of several candidates, the CA risk state, the status columns and
  commits whose answer is lost, a subscriber that cancels while a publisher holds
  its channel, two writers of one row that publish in reverse order, and two
  updates of the runtime whose database and memory writes cross: these are listed
  as hazards without a property, and in the plan.

Each component's note in `PROJECT.json` says what of it is missing.

## 8. Plan

Done: `TradeService` with `PositionLedger`, `CandidateMonitor`, `TradeStream`,
`ScenarioView` and `ScenarioChart`, `TradeTables` and `TradeConsole`, `ChartSeries`
and `KlineChart`, with proofs about all of them.  Left, most important first:

1. `CandidatePool`: several candidates, the limit of 40, replacement, trim,
   re-adding, the race of `UpsertCandidate` with `ListActive`, and the Redis
   channel that adds without the lock.
2. `TradePersistence` and `CARisk`: status rows, signal ids known from an
   earlier run, commits whose answer is lost; the counter of losses, cool-down
   and blacklist under reordered rows and against a buy in progress.
3. In `TradeStream`: cancelling against publishing, and publications out of
   order; in `TradeConsole`: the two orders of database and memory.
4. `GMGNKeys`, `RuntimeAlert`, `KlineStore`.
5. The algorithms as operators over short kline sequences: levels, breakout,
   band-follow exits, trailing stop, pairing of trades, each against a reference
   definition; live against replayed decisions.
6. A composition of TradeService and CandidateMonitor: TradeService implements
   the trade side that CandidateMonitor assumes.

Bounds for these: three candidates and a limit of two for the pool; two losses
and one profit for the risk state; two subscribers for the bus; bars with two or
three prices and up to five bars for the algorithms.
