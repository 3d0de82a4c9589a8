---------------------------- MODULE MCSimulator ----------------------------
(* Instances of Simulator for TLC.                                         *)
EXTENDS Simulator, TLC

CONSTANTS T1, T2

Candle(open, high, low, close) == [open |-> open, high |-> high, low |-> low, close |-> close]

\* A bar between all levels, one that spans the stop and the target, a rally to the
\* target, gaps through either stop.
TheBars == {Candle(3000, 3000, 3000, 3000), Candle(3000, 3200, 2900, 3000),
            Candle(3000, 3200, 3000, 3000), Candle(2800, 3000, 2800, 3000),
            Candle(3300, 3300, 3000, 3000)}

\* A market long, and a limit short that a quote or a bar has to reach.  At these
\* prices the commission of one to three shares is capped at 1% of the value, that of
\* four is the minimum.
TwoOrders ==
  {[ticker |-> T1, side |-> "long", qty |-> 4, stopPrice |-> 2900, targetPrice |-> 3200,
    entry |-> Market],
   [ticker |-> T1, side |-> "short", qty |-> 2, stopPrice |-> 3200, targetPrice |-> None,
    entry |-> 3000]}

TightQuote == {[bid |-> 3100, ask |-> 3100]}

NoChange == [newStopPrice |-> None, newTargetPrice |-> None, newQty |-> None]

\* A scale-out, and a trailed stop whose quantity is refused.
Changes == {[NoChange EXCEPT !.newQty = 1],
            [NoChange EXCEPT !.newStopPrice = 3000, !.newQty = 4]}

Symmetry == Permutations(Strategies)
============================================================================
