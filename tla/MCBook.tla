------------------------------- MODULE MCBook -------------------------------
(* Instances for TLC of what becomes a trade: the plug-ins that signal it, *)
(* the model's verdict and the crowded names, the book the risk gate lets  *)
(* the worker build, and the replay of it all over history.  One run       *)
(* explores each component on its own, the others staying where they start. *)
EXTENDS MCPipeline, Plugins, Screening, Backtest

CONSTANTS n1, n2

VARIABLE focus    \* the component that moves

bookVars == <<focus, vars, pluginVars, screeningVars, backtestVars>>

Candle(open, high, low, close, volume) ==
  [at |-> 0, open |-> open, high |-> high, low |-> low, close |-> close, volume |-> volume]
Pair(ratio) == [at |-> 0, ratio |-> ratio, close |-> 100]

\* For each rule of a plug-in a candle that meets it and one that does not.
TheBars == [p \in PluginIds |->
  CASE p = "snapback"      -> {Candle(99, 100, 97, 98, 10), Candle(99, 103, 99, 102, 20),
                               Candle(99, 106, 99, 106, 20)}
    [] p = "squeeze-scalp" -> {Candle(100, 101, 99, 100, 10), Candle(100, 106, 100, 105, 30),
                               Candle(105, 112, 104, 111, 10), Candle(111, 132, 110, 131, 40)}
    [] p = "hype-momentum" -> {Candle(100, 101, 99, 100, 10), Candle(100, 110, 100, 109, 40),
                               Candle(112, 113, 101, 111, 40), Candle(105, 107, 99, 103, 10)}
    [] p = "friday-monday" -> {Candle(100, 106, 100, 106, 10), Candle(97, 99, 96, 98, 10)}
    [] p = "earnings-fade" -> {Candle(100, 101, 99, 100, 10), Candle(95, 96, 90, 91, 10),
                               Candle(94, 95, 90, 91, 10)}
    [] p = "qual-sphb"     -> {Pair(0), Pair(10), Pair(12)}
    [] OTHER               -> {}]

TheWindows == [w \in {"opening", "wait", "volume", "resistance", "trail", "ma", "week", "stall",
                      "sma"} |-> IF w = "opening" THEN 1 ELSE 2]
TheLookback == [p \in PluginIds |-> IF p = "friday-monday" THEN 2 ELSE 3]

\* The flow goes from a Thursday over two weekends.
TheStart   == [p \in PluginIds |-> IF p = "friday-monday" THEN 3 ELSE 0]
TheHorizon == [p \in PluginIds |-> CASE p = "friday-monday" -> 11
                                     [] p = "snapback"      -> 6
                                     [] p = "squeeze-scalp" -> 3
                                     [] OTHER               -> 4]

\* No holiday, a Friday, a Monday and the Friday after it.
TheHolidays == {{}, {4}, {7, 11}}
TheReports  == {[ticker |-> n1, day |-> 1]}
TheEarnings == [t \in Names |-> 4]

\* What is screened keeps falling and reclaiming, the second name in three bars only.
Timed(bar, t) == [bar EXCEPT !.at = t]
Shapes     == TheBars["snapback"]
Second     == <<Timed(Candle(99, 100, 97, 98, 10), 1), Timed(Candle(99, 103, 99, 102, 20), 3),
                Timed(Candle(102, 106, 99, 106, 20), 4)>>
TheHistories == {[t \in {n1, n2} |-> IF t = n1 THEN [i \in 1..4 |-> Timed(h[i], i - 1)] ELSE Second] :
                   h \in [1..4 -> Shapes]}
TheBackfills == {Timed(Candle(99, 103, 98, 101, 30), 2), Timed(Candle(99, 103, 98, 102, 30), 4)}
TheGappers   == <<n1, n2>>
TheWaits     == <<1, 2, 1>>
TheDraws     == [q \in {n1, n2} \X {98, 101, 102, 106} |-> IF q = <<n2, 102>> THEN 8 ELSE 3]

BookInit ==
  /\ focus \in {"book", "plugins", "screening", "backtest"}
  /\ Init /\ PluginInit /\ ScreeningInit /\ BacktestInit
  /\ focus # "plugins" => plugin = "valuation-gravity"
  /\ focus # "screening" => signal.ticker = n1
  /\ focus # "backtest" => stored[n1][1] = Timed(Candle(99, 100, 97, 98, 10), 0)
                             /\ \A i \in 2..4 : stored[n1][i].close = 98

BookNext ==
  \/ focus = "book"      /\ Next /\ UNCHANGED <<focus, pluginVars, screeningVars, backtestVars>>
  \/ focus = "plugins"   /\ PluginNext /\ UNCHANGED <<focus, vars, screeningVars, backtestVars>>
  \/ focus = "screening" /\ ScreeningNext /\ UNCHANGED <<focus, vars, pluginVars, backtestVars>>
  \/ focus = "backtest"  /\ BacktestNext /\ UNCHANGED <<focus, vars, pluginVars, screeningVars>>

BookSpec == BookInit /\ [][BookNext]_bookVars

\* Every variable of the four keeps its type.
TypesOK == TypeOK /\ PluginTypeOK /\ ScreeningTypeOK /\ BacktestTypeOK
=============================================================================
