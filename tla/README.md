# Verification of the Magpie trading system

Magpie scans markets with strategy plugins, asks an LLM analyst about a signal, sizes the
trade with a deterministic risk manager and then, by the strategy's mode, journals it
(WATCH), leaves it to the user (APPROVE) or orders it (AUTO) on one of three rungs: a
simulator (SIM), a broker's paper account (PAPER) or, refused everywhere today, LIVE. This
directory holds TLA+ specifications of the parts that hold state or decide about money,
TLC configurations that check small instances of them, and TLAPS proofs of what matters
most for instances of any size.

Paths below are relative to the repository's root; `api/` stands for `apps/api/src/` and
`core/` for `packages/core/src/`.

## The system

| part | state | operations | interacts by |
|---|---|---|---|
| trade pipeline (`api/pipeline`) | none of its own but the bracket index in memory | scan, monitor, expiry jobs; approve, reject, dev trigger | reads and writes all stores below, calls the execution port |
| proposals table (`pipeline.repository.ts`) | one row per proposal: status, decider, size | insert; updates guarded on `pending` | single SQL statements |
| risk manager (`core/risk-manager.ts`) | none | evaluate | called by scan and trigger with a snapshot of the book |
| auto governor (`core/auto-governor.ts`) | counters per strategy, in memory | admit, record entry, record result | called by the pipeline |
| simulator (`core/simulator.ts`) | brackets, cash, marks, closed-trade buffer, in memory | place, modify, cancel, bars and quotes, drain | execution port; closed trades drained by the monitor |
| IB port and gateway (`api/execution`) | brackets, order ids, fills in memory; orders at the broker | place, modify, cancel; status and fill callbacks | events of the broker's socket |
| kill switch (`api/killswitch`) | a row in Postgres, a mirror in Redis | check, read, trip, re-arm | asked by scan and trigger; writes strategy modes |
| strategies table, dashboard, promotion gate | mode and rung per strategy | set mode or rung | read at the start of a scan |
| approval surfaces (REST, Telegram poller) | poll offset | approve, reject | call the pipeline |
| market data (`api/market-data`) | connection, pacing queue, pending requests | connect, enqueue, callbacks | events of the broker's socket; candle rows |
| analyst, crowding | the list of crowded names and a log, in tables | analyse; refresh, check | called by the scan, a nightly job and a dev endpoint; the model's service |
| strategy plugins (`packages/strategies`) | views cached between scan and monitor | scan, build, manage | called by the scan and the monitor |
| uptime monitor (`api/uptime`) | the alerts that fire, in memory; a heartbeat in Redis | tick: probe, compare, tell | reads health and queue, sends to Telegram |
| backtest, replay, reports (`api/backtest`, `api/replay`) | a portfolio per run, a virtual clock; saved reports | compare variants, replay a window | the pipeline over stored candles |
| dashboard in the browser (`apps/web`) | what it shows, an open dialog | poll, edit, decide, filter | REST and pushes |

What is hard about it: there are no transactions across stores. Every `await` is a point
where a request, a Telegram tap, the worker's job or a restart can come between a read and
the write that rests on it. Orders are placed before the row that records them is marked.
The kill switch is a cached value. Counters, index and simulator live in memory, rows do
not. `PROJECT.json` lists these hazards at their lines, with the properties that watch them.

What makes each part correct, in one sentence each: the pipeline decides every proposal
at most once and every recorded execution stands for an order; the risk manager keeps the
book inside the caps; the governor stops a losing strategy and caps its day; the simulator
keeps cash and profit equal to the sum of its fills; the IB port agrees with the broker
about what is open and protected; the kill switch blocks what begins after a trip; the feed
settles each request once and comes back after every break; the monitor tells every edge; a
plugin plans orders in order and keeps the times its plans promise (the squeeze does not); a
report counts its own trades; the dashboard ends up showing what the API holds.

## Modules

| module | models | status |
|---|---|---|
| `RiskManager` | `RiskManager.evaluate` as the operator `Verdict` | checked with Pipeline |
| `ProposalLifecycle` | what the proposals table promises, abstractly | refined by Pipeline |
| `Pipeline` | worker, handlers, rows, brackets, index, audit, switch | checked, proved |
| `KillSwitch` | row, mirror, modes; check, read, trip, re-arm await by await | checked, proved |
| `AutoGovernor` | counters, their callers, midnight | checked, proved |
| `BracketLife` | what an execution port promises of each bracket, abstractly | refined by Simulator |
| `Simulator` | brackets, fill model, portfolios, closed-trade buffer of the SIM rung | checked, proved |
| `IbPort` | the PAPER rung: port, gateway and the broker's orders; reconciliation | checked, proved |
| `IbSnapshots` | the gateway's shared snapshot requests | checked, proved |
| `Feed` | market-data connection, pacing queue, requests, candles; the backfill command | checked, proved |
| `Detectors` | the pure rules of the seven plugins, as operators over candles | used by Plugins, Backtest |
| `Plugins` | a plugin under the pipeline: scan, views, drafts, exits | checked, proved |
| `Screening` | the model's verdict on a signal; the crowding list and its refreshes | checked, proved |
| `Backtest` | a comparison of variants: replay, stubbed analyst, reports | checked, proved |
| `Uptime` | the monitor's ticks beside each other, alerts, Telegram | checked, proved |
| `Console` | dashboard and browser: edits behind the promotion gate, polls, pushes | checked, proved |
| `Telegram` | messages with buttons, presses, the poller and its offset | checked, proved |
| `...Proofs` | theorems about `Pipeline`, `Simulator`, `KillSwitch` and `AutoGovernor` (`ControlProofs`), `IbPort` (`BrokerProofs`), `Plugins` and `Screening` (`SignalProofs`), `Backtest` (`BacktestProofs`), and `Feed`, `IbSnapshots`, `Uptime`, `Console` and `Telegram` (`EdgeProofs`) | proved |
| `Sums` | facts about sums over a finite set and about least and greatest elements | proved |
| `MCPipeline`, `MCSimulator`, `MCControls`, `MCBook`, `MCEdges` | instances for TLC | |

### Pipeline

A process (the queue worker, or a REST or Telegram handler) is a record in `procs`: at which
await it waits (`pc`) and what it has read so far. One action is what the code runs from one
await that matters to the next. So `ReadPositions` is the read of the open positions,
`RiskAndModeGate` the read of the switch and everything synchronous behind it (evaluate,
the mode switch, the governor), `PersistProposal` the insert, `PlaceBracket` the port call
with the index entry set right after it, `MarkExecuted` the guarded update, `AuditExecution`
the audit row; `Approve` and `Reject` begin with the read of the row and its test,
`StartSweep`, `ExpireRow`, `AuditExpiry` are the expiry job, `StartMonitor` drains closed
trades, `ReconcileTrade` clears the index entry of each, `ReadOwnPositions` and
`ManagePosition` apply exits. `AwaitThrows` ends a process at any await; `Restart` forgets
what lives in memory. The environment fills entries, closes brackets, lets expiry pass, sets
modes, trips and re-arms.

The proposals table is `rows` (none, pending, executed, rejected, expired; decider; size).
`RiskManager!Verdict` decides on a draft with the code's order of tests: stop, switch, same
leg, caps, size, open risk. Sizes are whole shares, prices small integers.

Left out of Pipeline: formatting, journal, notifications. Choices: the analyst, the crowding
filter and the governor let an entry pass or drop it, plugins advise what they like; each of
these has a module of its own. The switch is read in one step here; its cache has its own
module. Equity is a constant.

### KillSwitch

`row` is the Postgres flag, `cache` the Redis key (`Miss` when absent), `mode` the
strategies' modes. A check (`GetCached`) answers from the cache or goes on to the row
(`ReadRow`, `ReadFails`) and fills the cache (`Fill`), and so does a read of the state. A
trip writes the row, then the cache, selects the strategies that can order, and demotes them
by id. A re-arm writes row and cache. Cache writes may be lost, the database may throw, the
process may die. The operator sets modes at any time and the governor's guarded demotion
interleaves. History: `safe` is set when a trip's cache write finds nothing under way that
would overwrite it with "off", and ends with a re-arm's row write; `since` holds the handlers
whose last check began while it was set; `quiet` the strategies a trip has demoted and the
operator has not set since.

### AutoGovernor

`state` holds the code's four counters per strategy. `StateFor` creates and rolls them,
`AdmitEntry`, `PlaceEntry` and `RecordEntry` are `executeAuto` from its three awaits'
viewpoint, `DrainClosedTrades`, `RecordResult` and `Demote` are `reconcileAutoResults` and
`demoteFromAuto`. A trade closes on a bar of the day it was entered or of a later one, up to
today, and is drained at any time after that. History: `entered`, `uncounted` and `rolled`
count entries per strategy and day, entries whose count was lost, and the times the day's
count was dropped; `cooled` and `bled` tell whether the losing streak was seen and whether an
entry was admitted after it; `admitted` is what `MaxEntries` bounds.

### Simulator

One action per method of `core/simulator.ts`; none of them awaits. `UpdateQuote` and `OnBar`
set the ticker's mark and try every pending entry, a bar then every exit, the stop before the
target and through a gap at the worse open. `PlaceBracket`, `ModifyBracket`, `CancelBracket`,
`DrainClosedTrades` and `ResetPortfolio` are the port's operations. What happens to one
bracket is an effect (`Opened`, `Closed`, `ScaledOut`, `Still`): its new value and the changes
of cash, realized profit and shares it brings. `Book` applies one effect per bracket, sums
them by portfolio and buffers the trades that closed, so a bar that enters one bracket and
stops two others is one step, as in the code.

Money is in cents as in the code, spread, slippage and commissions in hundredths of a cent
before they are rounded as `roundCents` does (a price before rounding is truncated to a
hundredth of a cent, which floating point would carry on). Quantities are whole shares. A
modification that throws on its quantity is the step that wrote stop and target; calls that
throw at once are no steps. What the model shows besides: a scale-out and the close behind it
each book an entry commission of their own (`simulator.ts:527`, `:366`), which the floor and the
cap make differ from the one the cash paid. `DECISIONS.md:326` says that cash and realized
profit of a flat book agree exactly; `Reconciles` says that they do without scale-outs, and by
how much each scale-out may move them apart. `BracketLife` is the promise of the port interface; the broker's
port should keep it as well. Histories: `shares` and `scaled` per bracket, `drained` per
strategy.

### IbPort and IbSnapshots

`book` is the port's map of brackets, `broker` the orders as they are at the broker, `wire`
the reports between the two, delivered in any order. `PlaceBracket` allocates ids and sends
parent, stop and target; `HandleStatus` and `HandleHalf` are the port's callbacks, the latter
joining the two halves of a fill (`execDetails` and `commissionReport`);
`ModifyBracket` and `CancelBracket` do what the code does, whatever shares that leaves. At the
broker a parent fills share by share, an exit at once, orders lapse or are rejected. Faults
repeat or drop a report, restart the process, lose the link. Only reads of net liquidation
reconnect the order side (`NetLiquidationConnects`), as in the code. `PositionMismatches` and
`OrderMismatches` are `reconcile`'s two comparisons, which nothing in the repository calls.
History: `intended` is the size a bracket was last resized to, so what resizing shed is known;
`blind` the brackets a report of which was dropped.

Prices and executions of exits are left out. What the model shows besides the properties:
cancelling a filled bracket leaves shares without a stop; a parent that is cancelled after a
partial fill hides its shares from the port; an `error` event of the gateway
(`ib-order-gateway.ts:350`) has no listener and ends the process (`PortRestarts`); a failed
`start` is not repeated.

`IbSnapshots` is one of the gateway's request kinds: readers share a buffer and a list of
waiters (`Fetch`), and every end marker answers all of them (`EndArrives`). The listeners push
whatever comes, rows of an answer (`RowArrives`) and rows nobody asked for (`RowComesUnasked`):
the broker reports orders as they change, and the subscription to positions is never
cancelled. So a row may be in an answer twice, or once although it was gone when asked for,
which is more than the snapshot of the doc comments (`ib-order-gateway.ts:148`, `:150`); what a cut left in the buffer is seen by the next reader as well. Each row goes through
versions (`RowChanges`), and the link keeps the order the broker sent them in; a row is passed
over (`RowPassedOver`) only if the broker did not have it all the while. Only the order of the
rows of one answer ties a row to another, so one row shows what can become of each; the proof
is for any number. `IbPort` compares with the broker's state as it is: what rows left over hide
or add to a reconciliation is not in `NakedIsReported`.

### Feed

`client` counts the clients `IbConnection` has opened, `sock` says what became of each socket.
`OpenClient`, `Connected`, `GatewayDisconnected`, `ScheduleReconnect`, `ReconnectTimerFires`
and `StopConnection` are its methods and callbacks. `runner` is the backfill at its await: a
slot of the queue, a request, a retry. `pending` is the service's map of requests, `answers`
the streams the broker still sends. `RunTask` asks or fails at once, `HistoricalData`,
`HistoricalEnd`, `RequestError` and `RequestTimesOut` settle; `WriteCandles` stores the rows
or fails. A process is the API, with realtime bars, or the backfill. Delays are abstracted to
their end, and with them the spacing of requests: the code's retry after 2 s does not wait for
a slot, although slots are 10 s apart by default (`pacing-queue.ts:6`, `:106`). A realtime
subscription that the broker refuses is not tried again until the next connection.

### Detectors and Plugins

`Detectors` has one operator per rule (`Reclaims`, `BreaksOut`, `Spikes`, `ClosesHigh`,
`Stall`, `CrossedUp`, exits, the trading calendar). `Plugins` runs one plugin: `BeginScan`,
`ReadCandles` name by name, `FinishScan` with the drafts, `Manage` from the cached view, while
candles arrive and grow, days pass and the rest of the pipeline fills, resizes or drops what
was drafted. `TimeIsUp` is the time promise in the plan each plugin drafts: the flatten lead, the
close, the report, the week's end. What it shows: the squeeze drafts `flatByClose` and the
rule "flat by close, do not carry a spent squeeze", and its `manage` looks at gains only, so a
scalp is carried overnight (`scalp_carried`); a snapback that reclaimed past the prior close
has its target below its entry; the squeeze ladder compares with a constant lot the risk manager does not
size to, so larger positions bank again at every pass and smaller ones never; a flow entry of
a Friday is closed at once by the week-end rule; a failed read of candles leaves the views
cleared until the next scan; snapback signals after its own cutoff.

### Screening

`Ask` sends the request; `Answered`, `TimesOut` and `LateAnswer` race for it;
`PersistAnalysis` logs; then `Vetoed` or `CheckCrowding`, which consults the list, and, after
the awaits for equity, positions and switch, `HandOver` to the risk manager. A refresh is
`StartRefresh`, `ResearchEnds` or `ResearchFails` with `LogDialog`, then the two statements of
its transaction, `DeleteRows` and `StoreRows`. The worker has one job at a time, an analysis or
the nightly refresh; calls of `POST /dev/crowding/refresh` (`DevCalls`) refresh beside it and
beside each other. A delete takes the rows committed when it begins (READ COMMITTED, the
default of Postgres) and so not those a refresh beside it inserts, and a row one deleted is not
there for the other. All of them may die at each await. Names come as the strategies or as the
model spells them. History: `latest` is the last research stored, `clear` whether it left the
signal's ticker unnamed at some moment since the verdict.

What the model shows besides: a list stored between the check and the hand-over is not looked
at; and two refreshes at once that both delete before either inserts leave the names of both,
although `crowding-refresh.service.ts:7` says that a run fully replaces the store and
`dev.controller.ts:89` that repeated calls converge. Without an API key the research is empty and so is the list after it; a list nobody renews
runs out and the filter is open; both are the code's choice.

### Backtest

`StartVariant` builds a portfolio, `FeedTick`, `MonitorTick`, `ScanTick` and `NextTick` are
the engine's loop, `SaveReport` the report, `StoreCandle` what the API process writes
meanwhile. The snapback rule comes from `Detectors`. Bars carry the time they start, so what a
tick may see includes the end of its own bar. Costs, ratios and pacing are left out.

### Uptime, Console, Telegram

`Uptime`: a tick probes three things in any order (`ProbeStep`), compares with what fired
(`Evaluate`), tells the differences one message after the other (`Deliver`) and remembers
(`Remember`). The interval does not wait for the tick before it, although the comment at
`uptime.module.ts:31` says that a slow probe never stacks: `overlapped` records it.

`Console`: an edit is a handler with its awaits (`ReadStrategy`, `Gate`, `WriteStrategy`) and
an answer; the browser has four panels, each with what the API holds, what it shows and the
answers on their way. One panel is open in a behaviour. A load of any panel may fail
(`PollFails`): three of them poll again, the log keeps the page it has beside the error
(`failed`) until the next filter. The gate counts rows of `positions`,
which nothing under `src` writes yet; `TradeCloses` stands for what will.

`Telegram`: the notifier's messages, presses, `GetUpdates` with the offset that makes Telegram
forget what came before it, then each update decided, answered and its message edited
(`ReadOffer`, `Act`, `Answer`). Calls may fail and are never repeated. `DecideByHttp` decides
beside it. The races inside `decideProposal` are Pipeline's.

## Runs

Components that share no state are explored by one run, each on its own: a variable `focus`
chosen at the start names the one that moves, so the run has the sum of their states and not
the product.

| run | asks | bounds |
|---|---|---|
| `approvals` | do two handlers, the scan and the sweep that race over a proposal keep rows, orders and audit consistent, and follow the lifecycle | one proposal, two brackets, one fault or restart |
| `jobs` | do overdue proposals get settled, is a trip followed by at most one order of each process, can exits reach a first entry | two proposals, two brackets, two disturbances of five kinds |
| `book` | does the risk gate keep an AUTO book inside caps and open risk; do plugins plan, exit and bank as they should; is every signal screened; do reports hold | see below |
| `simulator` | do accounts, fills, delivered results and the life of each bracket stay consistent | two brackets of two strategies, a market long and a limit short with scale-out and refused change, five bars (calm, spanning both exits, rally, a gap through either stop), one quote, the default fill model |
| `controls` | does a trip in force block what begins under it and last; does a losing streak end the entries; does the broker's port know what is filled, open and protected | see below |
| `edges` | do snapshots, feed, monitor, dashboard and Telegram stay true, and do they recover | see below |

`book`: for the risk gate three strategies and tickers, caps scaled down so that each of them
binds, two closes. For the plugins one name, two to four kinds of candles each (for every rule
one that meets it and one that does not), windows of two bars, a flow from a Thursday over two
week-ends with no holiday, a Friday or a Monday off, three sizes around the ladder's lot. For
the screening one name in two spellings, three days, a list that lives two, the nightly
refresh and one of the dev endpoint. For the backtest
two gappers, four ticks with a bar before the window, waits `<<1, 2, 1>>` so that a variant
comes back, one candle written in between, 81 histories. Properties: `TypesOK`,
`BookWithinCaps`, `OpenRiskBounded`, `PlanIsOrdered`, `NoInstantExit`, `TimeStopsHold`,
`TrancheOnce`, `PassedIsScreened`, `ReportsHold`.

`controls`: for the switch two handlers, two strategies, two mode changes, failing database
and cache, a crash. For the governor a worker and a dev trigger, a cap of one, a streak of
two, two days, three entries, one disturbance of four kinds. For the port a bracket of two
shares with a target and one of one share, one of them placed, two reports on the wire, one
fault of five kinds. Properties: `TypesOK`, `TripBlocksChecks`, `TripDemotes`,
`CooldownHolds`, `OvershootAccounted`, `FillsBookedOnce`, `BookMatchesBroker`,
`NakedWereShed`, `NakedIsReported`.

`edges`: two readers of one row that appears, changes and goes, two cuts, two unasked reports; two tickers, a backfill of two items with one
retry, three clients; two ticks and two changes; modes WATCH and AUTO, a threshold of one
trade, an edit of this browser and one of another, two proposals, three flips; two messages,
two presses, one restart. Properties: `TypesOK`, `SnapshotWhole`, `NeverStranded`,
`NoForeignRows`, `OperatorInformed`, `PromotionIsEarned`, and the liveness
properties `BackfillEnds`, `FeedRecovers`, `MonitorSettles`, `ConsoleSettles`, `PressesHeard`.

The bounds are the smallest in which each race can happen: two deciders and two brackets to
double an order; two closes of one key for the index; a read, and a trip or re-arm beside it;
three entries so that the cap and the streak are both passed and a gain follows; two brackets
so that one bar moves both and one strategy drains beside the other, at sizes on both sides of
the commission's cap and floor; two shares so that a parent fills in part; a second request
for a late answer to be mistaken for; a second tick for ticks to overlap; an edit that
overtakes another. Larger counts repeat the same interleavings, and for the properties that
are proved the question does not arise.

What the properties except is what the code does not promise: orders after an approval
(`BookWithinCaps` is asked of AUTO), brackets a report of which was dropped
(`BookMatchesBroker`), shares that resizing shed and brackets told to cancel
(`NakedWereShed`), ticks that overlapped and messages that were lost (`OperatorInformed`), an
edit overtaken between its read and its write (`PromotionIsEarned`), loads of the log that
overlap or fail (`ConsoleSettles`), a list stored after a signal was checked
(`PassedIsScreened`), a row sent unasked or cut off (`SnapshotWhole`), the squeeze's close
(`TimeStopsHold`). The comment at each property says so.

Six further runs each refute one statement of the repository; `PROJECT.json` quotes it.

- `double_execution`: two approvals that both read `pending` both order; the guard of the
  update stops only the second mark.
- `switch_bypassed`: a proposal pending at the trip can still be approved and is ordered.
- `exit_lost`: draining a closed trade clears the index entry of its key although a newer
  bracket owns it, and the monitor then skips that bracket's exits.
- `trip_forgotten`: a state read that overlaps a trip writes the older "off" into the mirror
  last, and checks believe the mirror. (A re-arm that overlaps a trip can leave the same; the
  property is about the read.)
- `cap_exceeded`: recording a result dated yesterday sets the day back and with it today's
  count to zero.
- `scalp_carried`: a squeeze scalp, drafted to be flat by the close, is kept by a monitor pass
  at the close.

Fairness, in `jobs` and `edges` only:

- `jobs` (`FairSpec`): BullMQ re-adds the repeatable scan, monitor and expiry jobs for ever and
  one worker takes them in turn, so the sweep is started again and again even if other jobs
  come between (`SF` on `StartSweep`), a scan has finitely many signals (`SF` on `EndScan`) and
  the worker goes on from every await (`WF` on its steps). Nothing is assumed of handlers,
  fills, faults or the operator.
- `FeedFair`: timers that are set fire, callbacks that were promised run, the queue goes on;
  the last client of the bound is accepted, for a gateway that refuses for ever keeps any feed
  down. Nothing makes a broker answer: the code's timers do.
- `UptimeFair`: the interval keeps starting ticks and what a tick awaits answers once Redis is
  up; that Redis stays up in the end is the premise of `MonitorSettles`.
- `ConsoleFair`: polls go on for ever (`WF`) and their answers arrive again and again although
  any of them may fail (`SF`). Nothing is assumed of the log, which is not polled.
- `TelegramFair`: the loop goes on, and a poll that finds the API ready succeeds.

The other runs check safety without fairness.

## Proofs

`PipelineProofs` proves for any sets of strategies, tickers, proposals, brackets and requests,
from the named assumptions of `RiskManager` and `Pipeline`:

- `TypeCorrect`: `TypeOK`. The type alone is not inductive: a process that is about to place
  must carry a draft and a stored row. `TypeInv` adds that (`GoodRow`, `GoodBracket`,
  `GoodProc`), one lemma per group of actions.
- `LifecycleRefined`: the refinement of `ProposalLifecycle`. It rests on the guard in
  `DecideRow`: rows move only from none to pending and from pending to a decision (`RowsMove`).
- `ExecutedBacked`, `SizeBounded`, `AuditSound`: the order invariants. `OrderInv` says of
  every process between placing and marking that the bracket it will record exists with its
  size and decider (`ProcInv`), and of every bracket how its size relates to its proposal's
  (`BracketInv`); both survive because placed brackets never change proposal, decider or
  placed size (`BracketsMove`, `Monotone`).
- `StragglersLimited`: after a trip no process that is not already past its risk check gets
  past it (`NoNewEntry`), so each places at most one order more.

Of a worker nobody orders beside (`Requests = {}`: no handler, no dev trigger) at a port with a
mark for every ticker (`Quoted`: an entry fills when it is placed):

- `CapsHold`: `BookWithinCaps`. `BookInv` counts brackets instead of positions (`Counts`) and
  adds that nothing is pending, that what the worker read before its check holds every
  position there still is, and that past the check there is `Room` for one more. Exits during
  the awaits only shrink the book (`Shrinks`). Both hypotheses are needed: two readers of one
  book both find room, and a pending entry is not among the positions the check counts.
- `FirstEntryManaged`: `FirstEntryIsManaged`, if besides the global cap per ticker is one, as
  at `risk.ts:56` (with more, a second bracket of a key takes over the index while the first
  is open). `IndexInv` says that the index, the closed trades and those still to be
  reconciled name brackets that were opened, the index those of its key; the bracket an entry
  replaces there has closed, because the ticker had room.
- `OpenRiskHeld`: `OpenRiskBounded`, under the same three hypotheses and finitely many slips.
  `RiskInv` adds to the two invariants above that the risk fits the cap, or fits without one
  position and is over it by no more than that position's slippage (`Slipped`); that a draft
  past the gate fits beside what is open now (`RiskRoom`); and that a position the monitor
  read is the one still open in its ticker (`EntriesKnown`), so that a stop it moves to that
  entry is moved to break-even. That needs one position a ticker: `monitorPositions` finds the
  bracket through the index, not through the position. What an exit or a scale-out does only
  takes risk away (`Lessened`, `SlippedWithin`), and percentages round monotonically.

`ControlProofs` proves of `KillSwitch`, for any handlers, strategies and kinds of faults:

- `TypeCorrect`: `TypeOK`.
- `ForceHolds`: `TripBlocksChecks`. The invariant `ForceInv` says what being in force rests on:
  the row is on, the mirror is on or empty, and nobody carries an "off" to write. Reads under
  it return "on", so it keeps itself until a re-arm.
- `DemotionLasts`: `TripDemotes`, inductive with the type.

`SimulatorProofs` proves, for any strategies, tickers, orders, bars, quotes, modifications and
parameters of the fill model:

- `FillsMatchPositions`, `MarketEntriesFilled`: one invariant, `Inv`. It adds
  to the properties that a bracket at work has a ticker of its own and an unused one no
  owner. Every effect is shown `Sound` once (a bracket again, a step of its life, fills that
  account for the shares it holds), effects compose (`ThenSound`), and `BookKept` lifts that
  to all brackets at once.
- `PortfoliosReconcile`: `Reconciles`, if the minimum commission is a cent at least (the
  code's is a dollar). Not inductive: it speaks of flat portfolios only. `Ledger` says of any
  portfolio that its cash less its profit is what its open brackets hold, less by a cent or
  more by a minimum for each scale-out (`Balanced`). Every effect is `Priced` once: it books
  the cash it moves as profit or as held, and a scale-out splits the commission by that much.
- `ResultsDelivered`: `TradesDelivered`, inductive with the owners of brackets (`Delivery`). A
  step appends one result for each bracket it closes (`BookCounts`); a drain splits the buffer
  at the places of the strategy's trades, and what is picked at a set of places occurs as
  often as in that set (`CountPicked`), because the places in ascending order are each member
  once (`AscendingIs`). `TypeCorrect`: `TypeOK`, from the same lemmas. `SelectSeq` is opaque to
  the prover, so `Simulator` filters the buffer by places (`Picked`).
- `LifeRefined`: the refinement of `BracketLife`, from the same lemmas.

`Sums` holds what three sums rest on: the risk of the open positions, the parts of a portfolio
and the averages of a plugin. The library defines a sum by a recursion that picks elements; that it has a solution
and only one is proved from the well-foundedness of the finite subsets, by smallest
counterexample (`TotalExists`, `TotalUnique`), and from there that sums add, compare, leave
an element out, scale and are bounded by their greatest term.

`ControlProofs` also proves, of `AutoGovernor` for any strategies, requests, caps, streaks and days:

- `GovernorTyped`: the types, in `GTyped`, which also says which turn carries a strategy and
  that drained results are results.
- `CooldownLasts`: `CooldownHolds`. Not inductive as it stands: `Streaks` adds that the
  counter is at least the losses that `recent` ends with (`TrailAppend`, `TrailTail`), so that
  a streak that was seen has reached the limit and the strategy is demoted; a demotion ends
  only with the process, which forgets `cooled` as well.
- `OvershootBounded`: `OvershootAccounted`. `OInv` keeps a balance for each strategy and day:
  what the counter holds and what is in flight stay under the cap and one entry per process
  (`PerCount`); what was entered is in the dropped counts, in the counter, still to be counted
  or lost (`Accounted`). `rolled` stops growing at `MaxEntries`; from there on the bound allows
  every entry that can be admitted (`Bounded`).

`EdgeProofs` proves, of `Feed` for any tickers, items, retries and reconnects:

- `ConnectionKept`: `NeverStranded`. `LinkInv` ties the flags of `IbConnection` to its
  sockets: no client opens while one is up, a closed feed has no client and no timer.
- `CandlesAreOfTheirItem`: `NoForeignRows`. One request at most is pending, the runner's own
  (`PendInv`); every stream bears an id that was given out with its item (`AnswInv`), and ids
  grow.
- `SnapshotsAreWhole`, of `IbSnapshots` for any callers, rows, changes and cuts: `SnapshotWhole`.
  `BrokerLinkInv` says that versions only grow, at the broker and over the link. `BufferInv` says
  of every row how often the buffer holds it and how old: once at least, and not older than when
  the running request was made, if that has sent it and the broker has it still; and more than
  once only by the cuts and the unasked reports.
- `SnapTyped`, `FeedTyped`: `SnapTypeOK` and `FeedTypeOK`, the invariants above and what the
  properties leave out (`AskedTyped`: what was asked, answered and stored).

`BrokerProofs` proves, for any brackets, shares, resizes and numbers of faults:

- `PortTypes`: `PortTypeOK`.
- `StopsSurvive` (`NakedWereShed`), `BookIsTrue` (`BookMatchesBroker`), `FillsJoined`
  (`FillsBookedOnce`) and `NakedSharesShow` (`NakedIsReported`): one invariant, `PortInv`, kept
  bracket by bracket. None of the four is inductive, since a report on the wire outlives the
  process that should hear it. `WireOK` says that a report is true of the broker's orders;
  `BookOK` that an exit the broker filled is closed in the book or has its report on the wire;
  `BrokerSide` that no more is sold than was bought and that a stop outlasts its parent;
  `SizesOK` that sizes follow the resizes. `CountOK` weighs the halves of a fill: twice what
  was booked, what was seen and what is on the wire make two, and a repeat adds one. A step
  about one bracket leaves the others `Untouched`, so each action is proved for its own.

`EdgeProofs` proves of `Uptime`, for any number of ticks and changes:

- `UptimeTyped`: `UptimeTypeOK`.
- `OperatorStaysInformed`: `OperatorInformed`. `Alone` says that without overlap at most one
  tick is under way, so what was told cannot change under a tick that compares with it.

Of `Console` it proves `PromotionsAreEarned` (`PromotionIsEarned`) for any edits, modes and
thresholds: nothing that was read is LIVE (`NoLive`), an edit about to be written leaves the
target it read or passed the gate (`Gated`), and the row is as it was read unless another
edit was written since (`AsRead`); counts only grow. `ConsoleTyped` adds the panels
(`PanelsTyped`: what the API holds, what is shown and what is on its way are of one kind), the
widgets and the trades.

Of `Telegram` it proves `PressesAreKept` (`PressesKept`) for any offers, presses and restarts:
a press that no handler came to the end of is still with Telegram, the safety that the liveness
property `PressesHeard` rests on. What is below the offset was
handled or is in hand (`OffsetInv`). That the offset may follow the update in hand rests on
`BatchInv`: what was fetched has no gaps, since a fetch takes all that Telegram holds from the
offset on. A restart forgets the offset, and with it the update in hand. `TelegramTyped` is
`TelegramTypeOK`, from the same invariant.

`EdgesAreComponents` says that what the run explores together is, seen from each of the five,
that component, so that every theorem about one holds of the whole; `EdgesTyped` (`TypesOK`)
follows. `BrokerProofs` (`ControlsAreComponents`, `ControlsTyped`) and `BacktestProofs`
(`BookIsComponents`, `BookTyped`) say the same of the other two runs of several components.

`SignalProofs` proves of `Plugins`, for any names, lookbacks, holidays, sizes and any candles
with low <= close <= high and a close above zero (`MarketAssumption`):

- `PlansAreOrdered`: `PlanIsOrdered`. `MarketInv` types the candles behind a scan, one lemma
  per plugin orders its draft. The highs, lows and stalls of a series are least or greatest
  elements of a set; that such a set has one is proved from well-foundedness (`LeastOf`,
  `GreatestOf` of `Sums`), by smallest counterexample. The exception of the property stays: a snapback
  that reclaimed more than its gap.
- `TranchesBanked`: `TrancheOnce`, for any size that fills.
- `TimeStopsKept`: `TimeStopsHold`, of all plugins but the squeeze. The views of a name are those of the last scan, and a
  name that scan read has one, so `manage` never decides on an older day. `WeekEnds` is the
  calendar's part: the last session of a week is the one the flow plugin closes on, whatever
  the holidays.
- `EntriesAreKept`: `NoInstantExit`. `EntryInv` says that a view keeps (`Keeps`) what was
  drafted beside it, for a position of any size, from the read to the next scan, whatever
  bars and fills come between (`Viewed`). One lemma per plugin compares what the entry asks
  with what the exit asks of the same candles: `AboveAverage` that a breakout over the highs
  of the trailing window closes above the average of the last bars, `RotationHolds` that a
  ratio 5% above its average has not returned to it. Two assumptions carry it. The average
  reaches no further back than the highs (`WindowsAssumption`; the code has 5 and 20 bars,
  `spike-detector.ts`). And no week has a single session (`CalendarAssumption`; true of the
  calendar the application builds, which has no holidays): such a session opens and closes
  its week, so the flow plugin would enter on its high close and leave on its weak open.

- `PluginTyped`: `PluginTypeOK`. Of a name there is one view, draft, order and position at
  most (`Singles`), its candles go forward in time and not past the clock (`SeriesInv`), and
  a tranche leaves a share (`Shares`). A name stalls once because it reports once in the
  look-back of the calendar (`MarketAssumption`): reports are a quarter apart, the look-back
  is a few sessions (`calendar.ts:26`).

These proofs changed the model twice: `Manages` had overlapping arms that left a snapback
without a view undefined, and `RotationDraft` missed the early return on no close.

The module also proves, of `Screening`, `ScreeningTyped` and `SignalsAreScreened`
(`PassedIsScreened`) for any names, refreshes, time to live and clock: a verdict to proceed was
said in time (`Answerable`); the list holds at least the names of the last research, with its
expiry (`ListHasLatest`), because normalising keeps every name (`StoresNames`) and a delete
that began before an insert does not take what it inserted; and past the check a signal was
clear of it once (`HistoryFollows`). That the list holds nothing else is not so (see
Screening).

`BacktestProofs` proves of `Backtest`, for any histories of candles with prices above zero, any
list of variants, any backfill and any draw of the stub:

- `BacktestTyped`: `BacktestTypeOK`. `ReplayTyped` ties a portfolio to its scan (`Folios`): each
  executed signal is a position, each closed position a trade, and `Left` counts the others.
- `ReportsAreSound`: `ReportsHold`. A report adds up because its performance and its tally are
  folds over those trades and kinds (`TallySums`, and the running sum, its peak and its deepest
  fall). That a report repeats needs more than the property says: `Reached` is
  what a run of a parameter can come to on given candles, tick by tick; `OnCourse` says that
  the run under way is there, as long as nothing was written since it began, `Repeated` that
  every saved report was reached on the candles it names; and `ReachedOnce` that there is only
  one such end, so two reports of a parameter over the same candles are equal.

The portfolio's bars, the scan and the performance are folds, which the library defines by a
recursive function that is chosen, not constructed. `FoldExists` shows once that the equations
have a solution, by smallest counterexample; `FoldKeeps` that a fold keeps what each of its
steps keeps; the lemmas on `FedAll`, `FlattenedAll`, `Scanned` and `Performance` apply it.

Every invariant and every action property that a passing run checks is stated by a theorem, some
under the hypotheses named above. Only model-checked:

- liveness (`OverdueIsSettled`, `BackfillEnds`, `FeedRecovers`, `MonitorSettles`,
  `ConsoleSettles`, `PressesHeard`): fairness and ENABLED are beyond the proof system;
- what a fold comes to on given data: a theorem says what every result satisfies, the run
  computes it;
- the six statements that are refuted.

## Not modelled

- Rendering and the wording of pages, messages, prompts and audit rows; the REST layer's
  validation.
- Prices and commissions of the broker's fills (the port only carries them), and the
  executions of exits.
- The spacing and the delays of timers: the pacing queue's slots, the reconnect's back-off,
  the replay's pace.
- Ratios, R-multiples and equity curves of the reports.
- Account equity as a number that moves, and the quotes behind it: a constant and a choice.
- `suggestCrowdingStops`, `checkDailyLoss`, `assertOrdersAllowed`, `clearCooldown`: nothing in
  the application calls them.
- Configuration, infrastructure, seeds, migrations: wiring and static data.

What could come next: the switch's cache and the governor inside Pipeline, so that their
properties meet its interleavings; exits' executions and prices on the PAPER rung.
