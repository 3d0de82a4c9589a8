------------------------------- MODULE Backtest -------------------------------
(***************************************************************************)
(* A comparison of snapback variants over stored candles (apps/api/src     *)
(* replay, backtest; packages/core/src backtest-report, performance).  The *)
(* engine replays a window tick by tick through the live pipeline in AUTO, *)
(* on a virtual portfolio of its own and with a stub for the model; then   *)
(* the trades become a report.  The API process goes on meanwhile, and so  *)
(* does whatever writes candles.  Costs are left to Simulator; one share.  *)
(***************************************************************************)
EXTENDS Detectors, SequencesExt

CONSTANTS
  Gappers,      \* the screened tickers in the order of their symbols
  Waits,        \* the variants: waitMinutes of each
  From, To,     \* the window; the store may hold earlier candles
  Cutoff,       \* the time from which a snapback is flattened
  GapClose,     \* the close the gappers fell from
  SeenBars,     \* lookbackBars
  Histories,    \* what the store may hold at first: ticker -> candles, oldest first
  Backfills,    \* candles that may be written while a comparison runs
  MaxWrites,    \* bound: how often that happens
  Draws,        \* <<ticker, close>> -> the draw of the question about it, in tenths
  PassRate,     \* stubPassRate, in tenths
  MaxPositions  \* the risk manager's limit on open positions

Screened == {Gappers[i] : i \in DOMAIN Gappers}

Candles == [at : Nat, open : Nat \ {0}, high : Nat \ {0}, low : Nat \ {0}, close : Nat \ {0},
            volume : Nat]

ASSUME BacktestAssumption ==
  /\ Waits \in Seq(Nat) /\ {From, To, Cutoff, GapClose, MaxWrites, MaxPositions} \subseteq Nat
  /\ SeenBars \in Nat \ {0} /\ PassRate \in 0..10
  /\ Gappers \in Seq(Screened)
  /\ Backfills \subseteq Candles /\ \A h \in Histories : h \in [Screened -> Seq(Candles)]

VARIABLES
  stored,     \* ticker -> the candles of the database, oldest first
  variant,    \* the variant that runs, or ran last
  engine,     \* what the engine does next
  ticks,      \* the bars of the window, grouped by time, as read at the start
  tickNo,     \* the tick it is at
  folio,      \* the virtual portfolio: marks, brackets, closed trades in that order
  outcomes,   \* of the signals so far
  analyses,   \* StubbingCountingAnalyst: answers counted, all of them stubbed
  signalSeq,  \* NOOP_SIGNAL_STORE: one counter for every run of the process
  reports,    \* what was saved
  writes, since   \* history: writes so far, and before this variant began

tallyVars    == <<outcomes, analyses, signalSeq>>
backtestVars == <<stored, variant, engine, ticks, tickNo, folio, tallyVars, reports, writes,
                  since>>

Now == ticks[tickNo].at

\* A new Simulator; prices in cents, no mark is 0.
Fresh == [marks |-> [t \in Screened |-> 0], brackets |-> <<>>, closed |-> <<>>]

BacktestInit ==
  /\ stored \in Histories
  /\ variant = 0 /\ engine = "idle" /\ ticks = <<>> /\ tickNo = 0
  /\ folio = Fresh /\ outcomes = <<>> /\ analyses = 0 /\ signalSeq = 0
  /\ reports = <<>> /\ writes = 0 /\ since = 0

-----------------------------------------------------------------------------
(* The store                                                               *)

\* How many candles of a ticker are of before at, and how many by then.
Until(c, at)   == Cardinality({i \in DOMAIN c : c[i].at < at})
Through(c, at) == Cardinality({i \in DOMAIN c : c[i].at <= at})

\* candles of the replay: those up to now, the last ones of them, oldest first.
CandlesAt(store, t, now) == LastBars(SubSeq(store[t], 1, Through(store[t], now)), SeenBars)

\* Candles written meanwhile, new or over the old.
StoreCandle(t, bar) ==
  /\ writes < MaxWrites
  /\ stored' = [stored EXCEPT ![t] = SubSeq(@, 1, Until(@, bar.at)) \o <<bar>>
                                       \o SubSeq(@, Through(@, bar.at) + 1, Len(@))]
  /\ writes' = writes + 1
  /\ UNCHANGED <<variant, engine, ticks, tickNo, folio, tallyVars, reports, since>>

BarsIn(store, t) == {b \in ToSet(store[t]) : b.at \in From..To}

\* groupIntoTicks of the window's bars: at each time at most one of a ticker.
Times(store)   == {b.at : b \in UNION {BarsIn(store, t) : t \in Screened}}
Nth(times, i)  == CHOOSE at \in times : Cardinality({u \in times : u < at}) = i - 1
Tick(store, at) ==
  [at |-> at, bars |-> [t \in Screened |-> {b \in BarsIn(store, t) : b.at = at}]]
TicksOf(store) == [i \in 1..Cardinality(Times(store)) |-> Tick(store, Nth(Times(store), i))]

-----------------------------------------------------------------------------
(* The portfolio: what Simulator does, without costs and for longs         *)

\* A market entry fills at the mark, or waits for one.
Placed(sim, t, plan) ==
  [sim EXCEPT !.brackets = Append(@,
     [ticker |-> t, stop |-> plan.stop, target |-> plan.target, entry |-> sim.marks[t],
      status |-> IF sim.marks[t] = 0 THEN "pending" ELSE "open"])]

Closed(sim, i, price, at) ==
  [sim EXCEPT !.brackets[i].status = "closed",
              !.closed = Append(@, [pnl |-> price - sim.brackets[i].entry, closedAt |-> at])]

\* detectExit, the stop first: the price of the exit, in a set.
ExitPrice(b, bar) ==
  IF 100 * bar.low <= b.stop THEN {Min({b.stop, 100 * bar.open})}
  ELSE IF 100 * bar.high >= b.target THEN {b.target} ELSE {}

\* A bracket that waits for a mark enters at it.
Entered(sim, i, t) ==
  IF sim.brackets[i].ticker = t /\ sim.brackets[i].status = "pending"
  THEN [sim EXCEPT !.brackets[i].status = "open", !.brackets[i].entry = sim.marks[t]] ELSE sim

Exited(sim, i, t, bar) ==
  LET b == sim.brackets[i]
  IN IF b.ticker = t /\ b.status = "open" /\ ExitPrice(b, bar) # {}
     THEN Closed(sim, i, Max(ExitPrice(b, bar)), bar.at) ELSE sim

\* onBar: the mark, then each bracket that waits for it enters, and leaves if it must.
Fed(sim, t, bar) ==
  FoldLeftDomain(LAMBDA s, i : Exited(Entered(s, i, t), i, t, bar),
                 [sim EXCEPT !.marks[t] = 100 * bar.close], sim.brackets)

OpenOn(sim, t) ==
  {i \in DOMAIN sim.brackets : sim.brackets[i].ticker = t /\ sim.brackets[i].status = "open"}

-----------------------------------------------------------------------------
(* The engine                                                              *)

\* Mutant: one simulator for all variants.
StartVariantShared ==
  /\ engine = "idle" /\ variant < Len(Waits)
  /\ variant' = variant + 1 /\ ticks' = TicksOf(stored) /\ tickNo' = 1
  /\ engine' = IF TicksOf(stored) = <<>> THEN "report" ELSE "feed"
  /\ outcomes' = <<>> /\ analyses' = 0 /\ since' = writes
  /\ UNCHANGED <<folio, stored, signalSeq, reports, writes>>

\* runVariant: a portfolio, a tally and an analyst of its own; the bars are read once.
StartVariant ==
  /\ engine = "idle" /\ variant < Len(Waits)
  /\ variant' = variant + 1 /\ ticks' = TicksOf(stored) /\ tickNo' = 1
  /\ engine' = IF TicksOf(stored) = <<>> THEN "report" ELSE "feed"
  /\ folio' = Fresh /\ outcomes' = <<>> /\ analyses' = 0 /\ since' = writes
  /\ UNCHANGED <<stored, signalSeq, reports, writes>>

\* The bars of a tick, one ticker after the other.
FedOn(sim, t, bars) == IF bars[t] = {} THEN sim ELSE Fed(sim, t, CHOOSE b \in bars[t] : TRUE)
FedAll(sim, bars)   == FoldLeft(LAMBDA s, t : FedOn(s, t, bars), sim, Gappers)

\* The clock and the bars of a tick, before anything is awaited.
FeedTick ==
  /\ engine = "feed" /\ engine' = "monitor"
  /\ folio' = FedAll(folio, ticks[tickNo].bars)
  /\ UNCHANGED <<stored, variant, ticks, tickNo, tallyVars, reports, writes, since>>

\* manage flattens at the mark; of a ticker the bracket that was recorded last.
Flattened(sim, t, at) ==
  LET last == Max({0} \union {i \in DOMAIN sim.brackets : sim.brackets[i].ticker = t})
  IN IF at >= Cutoff /\ last \in OpenOn(sim, t) THEN Closed(sim, last, sim.marks[t], at) ELSE sim

FlattenedAll(sim, at) == FoldLeft(LAMBDA s, t : Flattened(s, t, at), sim, Gappers)

\* monitorPositions.
MonitorTick ==
  /\ engine = "monitor" /\ engine' = "scan"
  /\ folio' = FlattenedAll(folio, Now)
  /\ UNCHANGED <<stored, variant, ticks, tickNo, tallyVars, reports, writes, since>>

\* analysisContextHash, hashUnitInterval: the question alone, told by ticker and close,
\* decides the draw.
Draw(t, c) == Draws[<<t, Latest(c).close>>]

\* ReplayLlmAnalyst without a recorded answer.
Stub(t, c) == IF Draw(t, c) < PassRate THEN "proceed" ELSE "veto"

\* processSignal in AUTO without a switch, a governor or crowded names.
OutcomeOf(sim, t, c) ==
  IF Stub(t, c) = "veto" THEN "vetoed"
  ELSE IF \/ OpenOn(sim, t) # {}
          \/ Cardinality(UNION {OpenOn(sim, u) : u \in Screened}) >= MaxPositions
       THEN "risk-rejected" ELSE "executed"

\* snapbackWaitVariants, buildVariantStrategy: variants differ in their wait.
WaitMinutes == Waits[variant]

\* The next tick, or the end of the window.
NextTick ==
  \/ /\ tickNo < Len(ticks)
     /\ engine' = "feed" /\ tickNo' = tickNo + 1
  \/ /\ tickNo = Len(ticks)
     /\ engine' = "report" /\ UNCHANGED tickNo

\* A gapper that reclaims signals, and its signal is processed.
Processed(store, run, t, at, wait) ==
  LET c    == CandlesAt(store, t, at)
      kind == OutcomeOf(run.sim, t, c)
  IN IF Reclaims(c, at, wait)
     THEN [sim   |-> IF kind = "executed" THEN Placed(run.sim, t, SnapbackPlan(c, GapClose))
                                          ELSE run.sim,
           kinds |-> Append(run.kinds, kind)]
     ELSE run

\* One ticker after the other.
Scanned(store, run, at, wait) ==
  FoldLeft(LAMBDA r, t : Processed(store, r, t, at, wait), run, Gappers)

\* runScan and its signals; with no proposal stored none expires.
ScanTick ==
  LET scanned == Scanned(stored, [sim |-> folio, kinds |-> outcomes], Now, WaitMinutes)
      signals == Len(scanned.kinds) - Len(outcomes)
  IN /\ engine = "scan"
     /\ folio' = scanned.sim /\ outcomes' = scanned.kinds
     /\ analyses' = analyses + signals /\ signalSeq' = signalSeq + signals
     /\ NextTick
     /\ UNCHANGED <<stored, variant, ticks, reports, writes, since>>

\* A query fails: the comparison ends, with what it saved so far.
RunThrows ==
  /\ engine \in {"monitor", "scan", "report"}
  /\ engine' = "failed"
  /\ UNCHANGED <<stored, variant, ticks, tickNo, folio, tallyVars, reports, writes, since>>

-----------------------------------------------------------------------------
(* The report                                                              *)

NoTrades == [trades |-> 0, wins |-> 0, losses |-> 0, totalPnl |-> 0, peak |-> 0,
             maxDrawdown |-> 0]

\* A trade more of a performance.
Counted(p, t) ==
  LET equity == p.totalPnl + t.pnl
      peak   == Max({p.peak, equity})
  IN [trades |-> p.trades + 1, totalPnl |-> equity, peak |-> peak,
      wins   |-> IF t.pnl > 0 THEN p.wins + 1 ELSE p.wins,
      losses |-> IF t.pnl < 0 THEN p.losses + 1 ELSE p.losses,
      maxDrawdown |-> Max({p.maxDrawdown, peak - equity})]

\* computePerformance: the trades are in the order of their closes.
Performance(trades) == FoldLeft(Counted, NoTrades, trades)

Outcomes == {"executed", "vetoed", "risk-rejected"}

\* tallyOutcomes.
Tally(kinds) == [k \in Outcomes |-> Cardinality({i \in DOMAIN kinds : kinds[i] = k})]

\* buildBacktestReport of the trades that closed; and, as history, what did not close.
Report ==
  [wait |-> WaitMinutes, performance |-> Performance(folio.closed), stats |-> Tally(outcomes),
   signals |-> Len(outcomes), analyses |-> analyses,
   left |-> Cardinality({i \in DOMAIN folio.brackets : folio.brackets[i].status # "closed"}),
   from |-> since, to |-> writes]

\* The report is saved; the next variant follows.
SaveReport ==
  /\ engine = "report" /\ engine' = "idle"
  /\ reports' = Append(reports, Report)
  /\ UNCHANGED <<stored, variant, ticks, tickNo, folio, tallyVars, writes, since>>

BacktestNext ==
  \/ StartVariant \/ FeedTick \/ MonitorTick \/ ScanTick \/ SaveReport \/ RunThrows
  \/ \E t \in Screened, bar \in Backfills : StoreCandle(t, bar)

BacktestSpec == BacktestInit /\ [][BacktestNext]_backtestVars
-----------------------------------------------------------------------------
(* Properties                                                              *)

Positions == [ticker : Screened, stop : Nat, target : Nat, entry : Nat,
              status : {"pending", "open", "closed"}]

BacktestTypeOK ==
  /\ stored \in [Screened -> Seq(Candles)]
  /\ variant \in 0..Len(Waits) /\ Len(reports) <= variant
  /\ engine \in {"idle", "feed", "monitor", "scan", "report", "failed"}
  /\ engine \in {"feed", "monitor", "scan"} => tickNo \in DOMAIN ticks
  /\ \A i \in 2..Len(ticks) : ticks[i - 1].at < ticks[i].at
  /\ folio \in [marks : [Screened -> Nat], brackets : Seq(Positions),
                closed : Seq([pnl : Int, closedAt : Nat])]
  /\ outcomes \in Seq(Outcomes) /\ analyses = Len(outcomes)
  /\ signalSeq \in Nat /\ analyses <= signalSeq
  /\ since \in 0..writes /\ writes \in 0..MaxWrites

\* Two saved runs of one parameter over the same candles have the same report, whatever
\* ran between them: nothing of a run reaches the next, and a stubbed answer depends on
\* the question alone (runVariant, analysisContextHash; T3.1 AC1 of the comments).  And a
\* report adds up: its signals are what its outcomes count, each order it executed is a
\* trade of it or was still in the market when the window closed, and a loss is a
\* drawdown.
ReportsHold ==
  /\ \A i, j \in DOMAIN reports :
       LET a == reports[i]
           b == reports[j]
       IN a.wait = b.wait /\ {a.from, a.to} = {b.from, b.to} /\ a.from = a.to => a = b
  /\ \A i \in DOMAIN reports :
       LET r == reports[i]
       IN /\ r.signals = r.stats.executed + r.stats.vetoed + r.stats["risk-rejected"]
          /\ r.stats.executed = r.performance.trades + r.left
          /\ r.performance.maxDrawdown >= 0 - r.performance.totalPnl
=============================================================================
