# REKT: TLA+ specification, model checking and proofs

REKT is a self-hosted portfolio tracker for one person: a Rust server (axum, tokio,
SQLite) that keeps a transaction log, trades through a broker (Alpaca, paper accounts),
pushes its state to dashboards and asks an LLM for advice that it never executes. This
directory holds TLA+ modules written from its source, the TLC configurations that check
them on small instances, and proofs checked by TLAPS.

Run in this directory: `tlc -config om_core.cfg MCOrderManager`,
`tlapm OrderManagerProofs.tla`. `PROJECT.json` lists the runs, says which lines each
definition models (`map`), which hazards of the code each property is aimed at
(`hazards`), how the code would have to be wrong for a property to fail (`mutants`), and
where the code and what it says of itself disagree (`findings`).

## 1. Inventory

Paths are below `src/crates/`; `core` is rekt-core, `server` rekt-server/src, and so on.

| Component | Source | State | Operations | What makes it correct |
|---|---|---|---|---|
| Order manager | `server/trading.rs` | `orders`, `fills`, `transactions`; `TradingState` (ready, reconcile lock) | submit, cancel, kill switch, apply_event, reconcile | fills booked once, rows that end truthfully, nothing pending for ever |
| Broker adapter and stream | `rekt-broker` | none; a websocket | submit, cancel, list, executions, `trade_updates` | outcome of a call: done, refused, or unknown |
| Ticket gate | `server/trading.rs`, `core/orders.rs` | the log, today's rows, `paused` and its setting | submit_order up to the row, set_paused, load_persisted | the caps hold, a pause holds |
| Live view | `server/live.rs`, caches in `trading.rs` | revisions, caches, dirty flag, broadcast channel | bump, snapshot, broadcaster, client_ws | no stale cache, every change reaches the screen |
| Split detection | `server/splits.rs`, `core/splits.rs` | one cached result | check, invalidate, record | the result belongs to the current log; once nothing is missing, the log counts the shares really held |
| Portfolio engine | `core/portfolio.rs` | none (a fold over the log) | apply_tx, value | FIFO lots, no oversell, cash and cost balance |
| Tax ledger | `core/taxes.rs` | none (a fold over the log) | tax_disposals, wash-sale matching | loss deferred is conserved, one replacement per share, agrees with the portfolio engine |
| Transaction API, CSV import | `server/api.rs`, `server/import.rs` | `transactions`, the `mutations` lock | create_tx, delete_tx, import_csv | an import drops only what nothing backs, a statement imports as its broker means it |
| Alerts | `server/alerts.rs`, `core/alerts.rs` | `alerts` rows | create, evaluate, dismiss, rearm, delete | fires when it became true, and only then; told at most once |
| Watchlists | `server/api.rs`, `server/repo.rs` | `watchlists`, members | named lists, legacy endpoints | members belong to a list, the stream follows the symbols |
| Analyst | `server/analyst.rs`, `rekt-analyst` | `analyses`, `recommendations`, the running latch | start_run, run_analysis, scheduler | single flight, budget, every token accounted |
| Candles, equity curve, snapshots | `server/history.rs`, `core/history.rs` | `candles`, floors in `settings`, `portfolio_snapshots` | backfill, EOD snapshot, history | no hole, no bar of an unfinished day for good, a cached curve is current |
| Portfolios | `server/portfolios.rs` | `portfolios.json`, database files | create, switch, delete | no file shared or missing, no working order left behind |
| Market data | `rekt-data` | a websocket subscription | quotes, bars, stream | the subscription follows the symbols |
| Screener | `core/screener.rs`, `server/screener.rs` | the level in `settings` | screen, rank | a looser level drops no idea |
| Signals, outcomes of calls, equity metrics, market hours | `core` | none | pure functions | - |
| Demo, repository, boot, UI | `server/demo.rs`, `repo.rs`, `main.rs`, `assets/` | - | reseed, SQL, wiring | - |

How they interact. HTTP handlers, the stream consumer, the reconciliation timer, the
broadcaster, the alert, history and analyst timers are tokio tasks on several threads
over one SQLite pool. Writers of the transaction log serialize on `AppState.mutations`;
reconciliation passes on `TradingState.reconcile_lock`, taken with `try_lock`. Every
mutation is followed by the bump of a revision counter that caches are keyed on, most of
them also set the dirty flag the broadcaster polls. The broker is reached by HTTP calls
whose outcome may stay unknown, and speaks through a stream that loses what it sends
while disconnected and repeats events on reconnection.

What is hard: a submission whose answer is lost; two feeds that name one execution differently; REST answers, stream events and mass
status listings that describe the same order at different times and are applied in any
order; crashes between a commit and what should follow it; gaps of the stream longer
than the backfill's overlap; checks made some awaits before the write they allow; handlers dropped at an await
because their client hung up; caches
filled by slow readers; flags consumed too early; replay engines that must agree; timers that
read a table, talk to the network for a while and then write by id; registries and files
that a crash may catch apart.

## 2. Modules

| Module | Models | Of |
|---|---|---|
| `OrderBook` | what the order manager promises: life cycles and a ledger that books each execution id at most once | abstract |
| `OrderManager` | trading.rs from the persisted intent on: submission, cancellation, kill switch, stream consumer, reconciliation, boot; the broker and the network | refines `OrderBook` |
| `OrderManagerProofs` | theorems about `OrderManager` for any number of orders | |
| `TicketGate` | trading.rs up to the persisted intent: guardrails on a concurrently changing log, day cap, pause switch | |
| `TicketGateProofs` | what a ticket is judged on, the day's cap and the pause for any number of tickets and requests | |
| `LiveView` | live.rs: revision-keyed caches, dirty flag, broadcaster, websocket clients; the split check's cache | |
| `LiveViewProofs` | fresh caches and broadcasts for any number of writers and clients | |
| `Series` | sorting, choosing and summing along a sequence, which the engines and the imports share | operators |
| `Portfolio` | portfolio.rs: the replay of the log into cash, FIFO lots, income, realized profit | operators, over `Series` |
| `TaxLots` | taxes.rs: the second replay, with wash sales; the report by year and term | operators, over `Portfolio` |
| `Splits` | core/splits.rs: which reported splits the log lacks, and the row that records one | operators, over `TaxLots` |
| `Imports` | import.rs: what a line of a Fidelity, Schwab, Robinhood or Interactive Brokers export becomes | operators, over `Series` |
| `Ledger` | api.rs: the live log under hand-entered rows, recorded splits, imports, deletions | over all five |
| `LedgerProofs` | the two engines agree and no loss is lost, for every log | |
| `Candles` | history.rs: the candle cache, its backfill runs and floors, end-of-day snapshots, the cached equity curve | |
| `CandlesProofs` | no hole, no unfinished bar, no stale curve, for any symbols, days, runs and trades | |
| `Portfolios` | portfolios.rs: registry, database files, switch by re-execution, deletion | |
| `PortfoliosProofs` | no order left behind, no file shared or missing, for any names, files and requests | |
| `Screener` | core/screener.rs: signals and a level to a buy, a sell or nothing | operators |
| `Analyst` | analyst.rs over rekt-analyst: budget, latch, scheduler, the loop, what is billed, recorded and recommended | over `Screener` |
| `AnalystProofs` | latch, bills, budget, schedule and ideas for any calendar, callers and answers; the screen for all signals | |
| `Watch` | alerts.rs, the watchlists of api.rs and repo.rs, refresh_symbols, the quote stream | |
| `WatchProofs` | lists, firings and the stream for any symbols, lists, alerts and requests | |
| `MC...` | entry points for TLC: symmetry, rows, files, stories, calendars | |

The pieces meet at their shared steps. `Persist` of `OrderManager` is the whole critical
section that `TicketGate` opens up (`Enter`, `Pass`, `Insert`); `OrderManager` lets any
ticket be persisted, hence all that the gate admits. The commits and bumps of both are
the `Commit` and `Bump` of a `LiveView` writer, which may stop after either; `BumpOrders`
clears `unseenOrders` in `OrderManager`, where `QuietMeansSeen` checks that where no statement
fails a commit is followed by its bump, in every order the handlers run in.

### OrderManager

State is the columns the handlers read (`status`, broker id known or not, `filled_qty`),
the `fills` and the mirrored transactions, where each task is, and the broker. Atomic
steps are SQL statements or transactions, request sends and arrivals, and the broker's
own changes. A submission is `Persist`, `Send`, then `SubmitAccepted`,
`SubmitRejected` or `SubmitUnknown`; meanwhile the request on the `wire` is accepted,
refused or lost. A cancellation takes effect at once or, where the broker `Suspends`, shows as
`pending_cancel` first (`BrokerCanceling`). The stream consumer is `ConsumeConnected`,
`ConsumeKnown` (the row is applied; a fill keeps the mutations lock for `ConsumeFill`) and
`ConsumeUnknown`; each update ends with a read of the symbols and a bump (`ConsumeRefreshed`). A
reconciliation pass is `BeginPass` (the mass status), one row at a time `ReconcileOwn`,
`MaterializeExternal`, `ReconcileFresh`, then `SelectPending`, `AskBroker`,
`ResolvePending`, then `FetchExecutions`, `LockForIngest`, `IngestNext`, `IngestDone`,
`RefreshSymbols`, and `FinishPass`, which unlocks trading. `AbortPass` and `ConsumerFails` are
SQL errors, those of refresh_symbols among them. A disconnection loses any suffix of the unread
events; a reconnection sends `Connected` and may repeat an order's last event. A crash clears
everything but the tables, the broker and the requests under way.

An execution has two names. The stream gives it an `execution_id` (`StreamId`), the account
activities the backfill reads an id of their own (`ActivityId`), and `ingest_execution` compares
the strings as they come (`IsNew`). Whether the broker uses one id in both places is the constant
`OneId`: `BookedOnce` and `OrderBook` are about execution *ids* and hold either way, and only under
`OneId` do they say that an execution is booked once. `om_twice` shows what happens otherwise,
which is what the repository's own test data looks like.

Simplifications, each towards more behaviours or harmless: an order of quantity `MaxQty`
fills in unit executions; `cancel_order`'s SELECT and UPDATE are one step; the read of the
backfill cursor and the fetch are one step (an older cursor only fetches more); hours
pass between passes only (a call times out after 15 s); a handler dropped in the middle
of a SQL commit is left out, elsewhere handlers may stop going on, and `SubmitUnknown` is one
dropped while the broker answers; fees and prices do not appear.

### TicketGate

One symbol, one share per ticket. `Enter` takes the mutations lock and reads the log,
`Pass` is `check_ticket` with the count of today's rows and the pause flag, `Insert`
writes the row and releases the lock, `Abandon` is any refusal, SQL error or dropped
connection. Rules on the shape, price or notional of one ticket decide nothing about
interleavings and are part of `Abandon`. Fills, deletions and orders placed elsewhere
change the log beside the gate; `Midnight` moves the New York day. A pause request
is sent, writes the setting (`SavePause`), sets the flag (`StorePause`); the client may
hang up in between.

### LiveView

One table stands for each of the pairs (orders, transactions, watchlist, alerts) that
follow the same discipline: its value is the set of mutations in it. A writer commits,
bumps, marks dirty, and owes none of it: its client may hang up between any two, and a
submission's intent never marks. A reader loads the revision, looks the cache up, fetches,
stores. A read may fail (`FetchFails`). The orders' cache (`lenient`) then takes an empty list under
the current revision (`Blank`); any other failure ends the snapshot - the broadcaster's, which has
already consumed the flag, sends nothing (`sent` is blank), and a client's first one leaves its
screen blank and subscribes it all the same.

A split check may store a result that a mutation has overtaken (`CacheSplits`); six hours
later it expires (`ExpireSplits`).

### Portfolio, TaxLots, Splits, Imports, Ledger

A log is a sequence of rows of one symbol; a row's index is its id, and rows replay by
`(ts, id)`. `Books` and `TaxBooks` are the books after each row, by `ApplyTx` and `ApplyTax`,
which stop at the first row refused; `ComputeBasis` and `TaxDisposals` are the last ones. Both engines hand out shares first come first served
(`InOrder`), which stands for their loops: FIFO consumption, matching a losing chunk with
the capacities of the purchases in its window, pending adjustments, and the walk of
`adjust_held_lots`. They are recursive functions on the length of a sequence (`Sums`,
`Chosen`), which can be reasoned about. In the tax ledger a sale burns the capacities of what it sold
(`Burn`), then each losing chunk is closed (`CloseChunk`): a match with a purchase that has
replayed adjusts its lots (`AdjustHeld`), any other is owed to it (`pending`). `rep`, the number
of designations of a share, is the model's own. `TaxReport` sums a year's disposals by term.

`MissingSplits` compares the provider's events with the split rows of the log within
`MatchWindow` days and with the shares held into the ex-date; `RecordSplit` is the page's
button, which creates the row of a missing one at 15:00 UTC of its ex-date.

`Imports` is one operator per grain of the parser: `TableLine` for the brokers whose export
is one table (the first rule with a word of the action decides, and only Robinhood's
transfers look at the sign), `TradeLine` and `CashLine` for the sections of an Interactive
Brokers statement, whose columns are those of the last header above. A line becomes a
row, is skipped, is ignored, or fails the file. `Export` in `MCLedger` writes a history of an account
the way each broker does, so that what a file amounts to is not written down by hand but
follows from the history.

`Ledger` has one step per handler, since each holds the mutations lock from its read to its
write: `Create` validates the log with its row last in id, `Import` maps, sorts, reconciles
and appends, `Delete` looks at nothing.

Left out: fees (part of the price), rounding to six decimals, fractional shares, several
symbols, and the search of the header line, dates and cell syntax of a CSV.

### Candles

A cached bar is the day and whether its session was over when it was fetched. A backfill
run (`Started` by the scheduler's `Tick` or by `Announce`) walks its symbols: `TakeSymbol`
takes the lock and computes `BackfillRanges`, `Fetch` or `FetchFails` one range, `Store`
writes it, `Release` records the floor, `Finish` bumps the revision, `Abort` is a SQL error.
The scheduler's run goes on to `Snapshot`. A reader of the curve (`Miss`, `ReadLog`,
`ReadCloses`) keys what it builds with the revisions it read first. `Clock` closes a day and
opens the next: between any two steps of a run, but not a whole window of days during one
(`Running`), since its calls time out after 15 s. `Crash` may fall anywhere.

### Portfolios

A switch loads the registry, takes the lock, counts open orders, saves, closes the pool,
and exits; a deletion saves, then unlinks; a creation is one step. `Exit` is the exec of a
switch or a crash between any two steps, `Boot` opens the active entry's file. `PlaceOrder` is
the critical section of `TicketGate`, under the same lock; `Materialize` is not. A client that hangs
up drops its switch at any await (`SwitchDropped`): while it waits, counts, folds the WAL or drains
the pool. After the save, before the close began, that leaves the process running on a file that
is no longer the active portfolio's, with the lock free and no exec to come. `adrift` remembers
such files until the process ends on another boot or a later switch closes them.

### Analyst

A caller passes `FitsBudget` in one step, takes the latch in a later one (`TakeLatch`) and inserts
its row in a third (`Launch`, which also spawns the job, or `InsertFails`). A user's client may hang
up at any of these awaits (`HangUp`); at the insert's the latch is held, the guard that would
drop it lives in the job, and the job is never spawned: `wedged`. The task screens up front, calls
(`Busy`, `SendFails`, `Reply`), stores its recommendations one by one and finishes. A
market_ideas run stores them with the side its screen gave (`Stored`), skipping names outside
it. `Reply` bills, then looks at the stop reason; `SendFails` may bill too, what no one
reads: a time-out, an unreadable answer, or the CLI's `is_error` envelope, whose usage
`parse_cli_output` drops. `Panic`, `FinishFails` and `Crash` are the ways to end without a
record. `billed`, `unread`, `lost`, `wedged` and a caller's `missed` runs are the model's own. Time
is three slots to a New York day, the last one past UTC midnight. The market and the screen's
level move only while a screen's result is in use, which is the only time it matters. An answered
CLI reply is taken to carry its usage block.

### Watch

Requests run in slots beside the evaluator; each mutation is followed by its bump and a
refresh_symbols of three steps (`RefreshLists`, `RefreshAlerts`, `RefreshSend`), any read of which may
fail (`RefreshFails`). A client that hangs up drops its handler before the commit, before the bump
or in the refresh (`HangUp`), with the lock it may hold. The evaluator loads the active alerts
(`EvLoad`), reads prices (`EvPrices`), and takes one alert at a time: `EvCheck`, `EvTrigger` (an
UPDATE that asks for status active), then the push, which is delivered (`EvNotify`) or refused or
timed out (`EvNotifyFails`); nothing sends it again. Ids of deleted alerts may come again. Quotes
arrive only for the symbols the provider was subscribed to. The stream connects, follows
changes, breaks and reconnects.

History variables say what may be wrong and why. A symbol is `loose` from the commit that touches it
until a refresh that began after it ends, and `missed` if its own refresh was overtaken, failed or
was dropped; a table is `cut` when a change of it lost its bump; `owed` counts firings not
told, `untold` pushes refused, lost or cut off by a crash; `recycled` marks ids given again
while a pass held the old alert.

## 3. Runs

| Run | Checks | Bounds |
|---|---|---|
| `om_core` | `TypeOK`, `BookedOnce`, `PersistedBeforeSent`, `EndsTruthfully`, `TerminalIsFinal`, `PartialNeverFallsBack`, refinement `ImplementsBook` | one order of two executions, broker and SQL faults, one crash, one disconnection, two undelivered events: 1.4 M states |
| `om_mixed` | `QuietMeansSeen`, `BackfillCoversGap` | one of our orders and one placed elsewhere, a gap within the overlap: 2.9 M states |
| `om_live` | `PendingResolves`, `FillsArrive`, `CancelSettles` | one order of two executions, one crash, fair scheduling: 81 k states |
| `gate` | `CapHolds`, `JudgedOnCurrentLog`, `PauseHolds` | two buys and a sell here, a buy elsewhere, cap 2, two days, a deletion, a crash, two pause requests: 3.5 M states |
| `live` | `NothingStale`, `Delivered`, `SplitsCatchUp` | three writers (one quiet), a client, a split check, a channel of one message: 335 k states |
| `ledger` | `EnginesAgree`, `LossDeferred`, `AdjustedFirst`, `SplitsMadeWhole`, `DroppedUnbackable`, `ImportLikeCreates`, `StatementHonoured` | four uses of the log, each with its own rows, files and provider events: 104 k states, each replayed by both engines |
| `candles` | `CacheSound`, `HistoryCurrent` | one symbol, three days, the middle one without session, a trade dated before them, a failing fetch, the scheduler's run beside a spawned one, crashes: 2.8 M states |
| `portfolios` | `NoOrderLeft`, `FilesKept`, `NoNewSharing` | three names of which two have one slug, a fresh and a legacy registry, two requests, two creations, any number of crashes: 1.2 M states |
| `analyst` | `RunsRecorded`, `ScheduledOnce`, `IdeasAreHonest`, `StartsWithinBudget`, `RunsEnd` | a user beside the scheduler, three slots over two days, two runs, two iterations, one fault: 950 k states |
| `watch` | `ListsIntact`, `FiringsAreTrue`, `QuietIsCurrent`, `StreamFollows`, `ConditionFires` | two symbols, two lists, two requests at a time beside the evaluator and the stream, five stories: 639 k states |
| `om_failed` | violates `FailedNeverReached` | a row looked up while its submission is under way |
| `taxes_twice` | violates `OneReplacementPerShare` | a sale of two losing lots beside a purchase of two |

An invariant that bundles a component's types with what its state must satisfy (`CapHolds`,
`NothingStale`, `CacheSound`, `FilesKept`, `RunsRecorded`, `ListsIntact`, `EnginesAgree`) is a
conjunction of definitions that are named and commented beside it.

Why the bounds suffice.

*Orders.* Rows of different orders meet only in the mutations lock, in the pass and in the
cursor: one order with two executions has every race of answers, events and listings about it
(a partial fill needs two), `om_mixed` adds the second row for the cursor and the external
path. One crash reaches every state a second one would start from, since a crash keeps only
what the invariants speak about. Two undelivered events suffice for an event to be overtaken
by another and by a listing. The cap of two with four orders over two days has both an
exhausted and a renewed cap; three writers and a channel of one message have lagging receivers
and readers that two writers overtake.

*Log.* `ledger` starts in one of four uses and keeps to it. `ByHandUse`: rows entered in any
order of time, deletions, and files of two rows in either order, some with rows nothing backs
or that are malformed. `TaxedUse`: all logs of five rows that replay, over four days (sales on three of them), a window
of one day and two years, entered in order of time, which loses no log: the engines see the
sorted log, and every prefix of one that replays replays. Five rows have a losing lot, a
replacement before, at and after the sale, a split between any two of them, and a second
losing sale. `SplitUse`: two splits far apart, trades before and after each and on an ex-date
before and after the instant the page records. `BrokerUse`: an export of each broker, newest
line first, with what the broker's own statement says it amounts to.

*Timers.* In `candles` one symbol has both a benchmark's range and a portfolio's; two runs and
a failing fetch reach a floor recorded too early, and the day boundary may fall between any
two steps. In `portfolios` two requests have a stale load overtaken by every other operation.
In `analyst` one user kind and one scheduled kind race for the latch and the budget, two runs
have the second start on what the first billed, and the calendar passes UTC midnight within
one New York day and the weekly review's day. `watch` has one story per group of hazards,
since their product is out of reach and their state separate: `Themes` (lists), `Arming`
(dismissals and re-arming against the evaluator), `Clearing` (deletion and creation of
alerts), `Reuse` (an id deleted and given again under the evaluator), `Outage` (the stream breaking while symbols change).

`CHECK_DEADLOCK FALSE` appears where the model may really stop (every ticket used, every
mutation made, every run of the bound done, no request left); the order manager's timer and
the registry's boots never stop, and deadlock is checked there.

Fairness. In `OrderManager`: the timer, the pass, the stream consumer and the reconnect loop
are tasks the runtime polls; a handler that has persisted goes on; a request on the wire is
answered; a cancellation that left arrives. Users, fills, crashes and disconnections are under
no fairness. `om_live` assumes a broker that answers, which is what the liveness properties
are conditional on; a pass that finds the broker down ends and another follows. In `LiveView`:
writers, broadcaster and clients are polled; clients need not connect or stay; a split check
in flight ends, a cached result expires. In `Analyst`: a run's task is polled and its calls
end, because the HTTP client gives each 600 s; users, the scheduler's slots, panics and
crashes are free. In `Watch`: handlers, the evaluator's interval and the stream's loop are
polled, and a broken stream reconnects; requests, the market and faults are free.

What the violations show is in `findings`, with the sentence of the code or its documentation
each contradicts: a submission still under way may be marked `failed` and then live at the
broker unrecorded; a second losing lot designates a replacement share that was designated
before.

More disagreements were met while modelling. They are in the models, where the properties are
stated so that they do not depend on them, and have no run of their own:

- the backfill cursor may jump over a gap longer than the overlap (trading.rs:512, against the
  comment at 509-511);
- sells are capped by what is held, not by what is held and not yet offered: two open sells
  may offer one share (orders.rs:309, PLAN.md:107);
- an imported sale dated before a recorded one may leave the latter unbacked (api.rs:212,
  310), and a deletion validates nothing (index.html:1018);
- overlapping pause requests may leave the flag and its setting different (`Overlapping`);
- a split check in flight stores a result older than the invalidation, for six hours;
- bars cached before a split are not fetched again (history.rs:146, core/splits.rs:3);
- a split within the match window of a recorded one is not reported, and the recorded row's
  15:00 UTC falls after trades made earlier on the ex-date;
- a switch saves the registry it loaded before it took the lock (portfolios.rs:312, 378);
- alert ids are reused after the last row is deleted (0004_alerts.sql:6), so that an
  evaluation under way may trigger the new alert (repo.rs:747, alerts.rs:117);
- imports: a reversed dividend of a one-table export becomes a positive one, an outgoing
  Schwab MoneyLink a deposit, a blank price a price of zero, and a file may be imported twice.

## 4. Proofs

Eight modules hold proofs; each is for all values of the constants, from the assumptions named
in the module it extends, and checked by `tlapm`.

`OrderManagerProofs` (any sets of orders, any quantity and bounds):

- `TypeCorrect`: `TypeOK`, with one step per action and one leaf per group of variables
  (tables, memory, pass, broker, network);
- `Invariant`: the inductive invariant `IInv`, the conjunction of `TypeOK`, `BookedOnce`,
  `PersistedBeforeSent` and `RowsExist`. The last says that a row whose broker id was learned
  exists, and that a submit handler at work has its row: without it neither of the two is
  inductive, because nothing would forbid `Send` without a row, or an ingestion for a row that
  is not there;
- `BookedOnceHolds`, `PersistedBeforeSentHolds`;
- `TerminalIsFinalHolds`, `PartialNeverFallsBackHolds`, from the lemma `TableStep`: every step
  of every task either moves rows along the life cycle and books nothing, or books one
  execution and moves no row;
- `Refinement`: the order manager implements `OrderBook`, step by step under the mapping of
  `ledger` to the mirrored transactions, from `IInv` and `TableStep`;
- `EndsTruthfullyHolds`, from `Truth`: every description of an order that is still under way -
  on the stream, in the mass status, in an answer - is the broker's for good once it says that
  the order ended (`Word`), and a submission is sent once (`SentOnce`), so that a refused one
  never comes to live;
- `QuietMeansSeenHolds`, where no SQL statement fails (`DbFaults = FALSE`): each commit not yet
  bumped is owed by a task at work (`Quiet`). A failing statement leaves the handler by `?`
  before its bump, hence the hypothesis.

`TicketGateProofs` (any finite set of tickets, any guardrails, days, requests):

- `CapHoldsAlways`: the day's cap. It is not inductive: a ticket writes its row an await after
  it was counted. `RoomLeft` says that a ticket that passed still fits, which only another
  `Insert` could undo, and the lock excludes that; `Stamped` says that no row has a day to
  come, so that midnight makes room;
- `JudgedOnCurrentLogHolds`, from `JudgeInv`: what the rules decided on the log the ticket read
  they would decide on the log of the moment it inserts, though executions and midnight come in
  between. An execution adds to both sides of the day's loss alike (`ExecutionDecidesNothing`),
  a new day only allows (`NewDayAllows`), because nothing is dated ahead (`NoneAhead`);
- `PauseHoldsAlways`, for requests that do not overlap: `InOrderOfSending` says that all but
  the last request are answered or gone, and that one between its statement and the flag finds
  the setting as it wrote it.

`LiveViewProofs` (any writers, clients, split checks, channel capacity):

- `NothingStaleHolds`, from `Invariant`. A late store keeps the cache fresh because of what
  the reader holds (`FetchedFresh`: fetched under a revision that is still current, it has
  every bumped mutation); the broadcaster consumes nothing unsent because of what it has in
  hand, would find in the cache, or a slower reader would put there first (`BroadcasterSees`).

`CandlesProofs` (any symbols, listings, weekends, window, overlap, number of runs):

- `CacheSoundHolds`, from `CInv`. A range that is fetched joins the bars it is stored into,
  because it was computed under the symbol's lock and reaches into them (`RangesFit`,
  `JoinIsSound`); whatever is cached reaches back to the window of the current day (`Reach`), so
  that a run that found the cache empty leaves no hole below what another stored meanwhile. That
  is where the model needs `Running`: a run older than a window could store bars no later range
  joins;
- `HistoryCurrentHolds`, from `HInv`: while no bump is due the cached curve is the one the tables
  give, and a build that may still be cached read the log as it is.

`PortfoliosProofs` (any names, files and requests; a legacy registry of distinct names whose
files are named after their slug, as the program names them):

- `NoOrderLeftHolds`: between the save of a switch and the close the open pool is on a file
  that is no longer the active one; what makes that harmless is `NothingWorking`, which the
  lock shared with submissions keeps. Lemmas `Appended` and `Removed`: creations and deletions
  leave the active entry's file alone;
- `FilesKeptHolds`, from `FInv`: the saved registry and every copy a switch holds of it agree on
  one existing file for each opened portfolio (`OpenedKept`), so that a stale copy saved late
  brings no name back to a file that went;
- `NoNewSharingHolds`: two entries with one file come from a registry that had both.

`AnalystProofs` (any calendar, callers, backends, prices, answers, bounds), from `IInv`:

- `RunsAreRecorded`: the latch, the rows and the bills agree over every crash, panic and failed
  write; `Spending` says that a job's running total is what was billed so far;
- `StartsWithinBudgetHolds`: what a request read of the day's spend still holds when it launches
  (`AllFitted`), because the recorded spend only grows when a run ends, which marks the request;
  and what is recorded is what was billed, since the latch is free. The spend is a sum over the
  rows: that it is monotone (`TotalGrows`) and that a new row adds nothing (`TotalOfOneMore`) are
  inductions on the number of rows, by its least counterexample (`LeastOf`);
- `SchedulerRunsOnce`: what the scheduler read when its tick asked holds until it launches
  (`Schedule`);
- `IdeasStayHonest`: a job's allow list is what it prompted (`Grounded`); verdicts by
  `VerdictsAreHonest`;
- the screen, for all signals: `LooserKeepsTheIdea`, what one level surfaces every more
  aggressive one surfaces, perhaps on the other side; `RsiAloneNeverFlips`, in an uptrend that is
  not extended a buy stays a buy, because a momentum buy outweighs what an RSI under the cap
  weighs on the sell side.

`WatchProofs` (any symbols, lists, alerts, handlers, stories), from `IInv`:

- `ListsAreIntact`: a list is deleted under the lock while another exists (`DropIsLocked`);
- `FiringsTrue`: what the pass holds of an alert is still so, unless its id was given again
  (`SameAlert`), and it triggers what it has checked;
- `QuietStreamIsCurrent`: what the stream does not follow yet someone is about to refresh, and a
  refresh that read too early is overtaken by one that comes later (`Currency`).

`LedgerProofs` (any rows, files and provider events; any window, year and number of instants to a
day). The engines are functions of the log, so each result is about every sequence of rows,
broken ones included, and `LedgerType` - whatever a form, the button or a line of a file gives
is a row - carries it to the live log:

- `EnginesAlwaysAgree`, `LedgerEnginesAgree`. The lots of the two engines differ: a wash sale
  splits a tax lot and raises its basis, an adjustment made ahead splits a purchase. What they share
  is the line of shares in the order sales take them (`SameLine`: as many shares, and the n-th
  of each from the same purchase). A sale cuts both lines at the same place (`SameRest`), a split
  stretches both (`SameScaled`), a purchase lengthens both (`SameConcat`), and a designation only
  regroups neighbours of one purchase (`AdjustHeldSame`). With equal refusals and balanced totals
  that is `InStep`, which holds after each row (`BooksInStep`); the portfolio's cost is that of its
  lots as long as splits divide (`CostKept`);
- `LedgerAdjustedFirst`, from `Ordered`: within one purchase the lots a wash sale adjusted stand in
  front, and no lot is of a purchase still to be replayed. A designation starts at the first lot
  of the purchase and puts the raised part of the last one it reaches in front; a sale eats from the
  front;
- `LossesNeverLost`, `LedgerLossDeferred`, from `Settled`: what has been reported, less what the tax
  lots cost and purchases are owed (`Carried`), is what the portfolio realized less what its lots
  cost. A closed chunk gives back as disallowed exactly what its replacements take on
  (`CloseChunkCarries`), and they do take it on, because a purchase's capacity never exceeds the
  shares held of it, or those it has not been promised to yet (`Room`). That is why a sale burns
  the capacities of what it sold before it matches any chunk, and why a purchase that arrives has
  room for all it was promised (`AllTaken`). The report then sums the same disposals by year and
  term (`SumsByClass`, `AllReported`).

Only model-checked: `BackfillCoversGap`, which the code does not keep beyond the overlap (see
above) and which is arithmetic within it; `SplitsMadeWhole`, whose two sides replay different logs,
one with the provider's events merged in, by folds of an operator the provers cannot
instantiate; the action properties of the imports (`DroppedUnbackable`, `ImportLikeCreates`,
`StatementHonoured`), which speak of replays of the sublogs reconciliation tries; and all
liveness, which is beyond the prover together with `ENABLED`. No module with a theorem uses a
RECURSIVE operator. Inductions on the length of a log or a sequence are by least counterexample
(`UpTo`), since the library's induction theorems take an operator.

## 5. Plan

Modelled, in this order: `OrderManager` over `OrderBook`; `TicketGate`; `LiveView`;
`Portfolio`, `TaxLots`, `Splits`, `Imports`, `Ledger`; `Candles`; `Portfolios`; `Analyst` over
`Screener`; `Watch`. Every module that has state is proved about.

Worth doing next: `DroppedUnbackable` and `ImportLikeCreates`, by induction on the rounds of the
reconciliation, for which `LedgerProofs` has the books after each row; a second symbol in `Candles`
with a snapshot that reads prices of different days.

Not modelled, and why: signals, TWR, IRR, market hours and pricing are real arithmetic on
floating-point numbers; parsing of dates, numbers and JSON, prompts and rendering have no
state of their own; the repository layer is modelled by what its statements do in each module,
not by its SQL text; demo mode clears and refills its tables under the mutations lock, one
statement at a time, and bumps the same revisions as any other writer; HTTP clients' back-off
and the wiring in `main.rs` are left to the steps that use them.
