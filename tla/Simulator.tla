----------------------------- MODULE Simulator -----------------------------
(***************************************************************************)
(* The execution port of the SIM rung (packages/core/src/simulator.ts):    *)
(* brackets, the fill model and one virtual portfolio per strategy.  Every *)
(* method runs to its end without awaiting, so each is one action.         *)
(* Money is in cents; quotes and commissions before rounding are in        *)
(* hundredths of a cent.                                                   *)
(***************************************************************************)
EXTENDS Integers, Sequences, FiniteSets, FiniteSetsExt

CONSTANTS
  Strategies, Tickers,
  MaxBrackets,      \* bound on the brackets placed
  Orders,           \* requests: [ticker, side, qty, stopPrice, targetPrice, entry]
  Bars,             \* [open, high, low, close], in cents
  Quotes,           \* [bid, ask], in cents
  Modifications,    \* [newStopPrice, newTargetPrice, newQty], None where absent
  StartingCash,
  SlippageBps, SyntheticSpreadBps,
  PerShare,         \* commission per share, hundredths of a cent
  MinPerOrder,      \* its minimum, cents
  MaxPct,           \* its cap, percent of the trade's value
  Market,           \* the entry of an order without a limit
  None

VARIABLES
  marks,       \* ticker -> the last quote, real or synthesized
  brackets,    \* id -> bracket
  cash,        \* strategy -> its portfolio's cash
  realizedPnl, \* strategy -> what its portfolio has booked
  closed,      \* trades closed and not drained yet, oldest first
  shares,      \* history: id -> shares bought less shares sold, of its fills
  scaled,      \* history: id -> times it was scaled out
  drained      \* history: strategy -> brackets whose result it was handed

vars == <<marks, brackets, cash, realizedPnl, closed, shares, scaled, drained>>

Brackets == 1..MaxBrackets

Sides == {"long", "short"}

Order == [ticker : Tickers, side : Sides, qty : Nat \ {0}, stopPrice : Nat,
          targetPrice : Nat \union {None}, entry : Nat \union {Market}]

ASSUME SimulatorAssumption ==
  /\ MaxBrackets \in Nat
  /\ Orders \subseteq Order
  /\ Bars \subseteq [open : Nat, high : Nat, low : Nat, close : Nat]
  /\ Quotes \subseteq [bid : Nat, ask : Nat]
  /\ Modifications \subseteq [newStopPrice : Nat \union {None}, newTargetPrice : Nat \union {None},
                              newQty : (Nat \ {0}) \union {None}]
  /\ {StartingCash, SlippageBps, SyntheticSpreadBps, PerShare, MinPerOrder, MaxPct} \subseteq Nat
  /\ None \notin Nat \union Strategies \union [bid : Int, ask : Int] /\ Market \notin Nat

NoBracket == [status |-> "none", strategy |-> None, ticker |-> None, side |-> "long", qty |-> 0,
              stopPrice |-> 0, targetPrice |-> None, entry |-> Market, entryPrice |-> 0,
              realizedPnl |-> 0]

Init ==
  /\ marks = [t \in Tickers |-> None]
  /\ brackets = [i \in Brackets |-> NoBracket]
  /\ cash = [s \in Strategies |-> StartingCash]
  /\ realizedPnl = [s \in Strategies |-> 0]
  /\ closed = <<>>
  /\ shares = [i \in Brackets |-> 0]
  /\ scaled = [i \in Brackets |-> 0]
  /\ drained = [s \in Strategies |-> <<>>]

-----------------------------------------------------------------------------
(* The fill model                                                          *)

RoundCents(x) == (x + 50) \div 100

Commission(qty, price) ==
  LET raw   == PerShare * qty
      floor == 100 * MinPerOrder
      cap   == MaxPct * qty * price
      least == IF raw < floor THEN floor ELSE raw
  IN RoundCents(IF least < cap THEN least ELSE cap)

Synthesized(mark) ==
  LET half == (mark * SyntheticSpreadBps) \div 200
  IN [bid |-> 100 * mark - half, ask |-> 100 * mark + half]

OpenAction(side)  == IF side = "long" THEN "buy" ELSE "sell"
CloseAction(side) == IF side = "long" THEN "sell" ELSE "buy"

\* A buy lifts the ask, a sell hits the bid; slippage is adverse to both.
FillPrice(action, quote) ==
  IF action = "buy" THEN RoundCents(quote.ask + (quote.ask * SlippageBps) \div 10000)
                    ELSE RoundCents(quote.bid - (quote.bid * SlippageBps) \div 10000)

CashDelta(action, qty, price) ==
  IF action = "buy" THEN -(qty * price + Commission(qty, price))
                    ELSE qty * price - Commission(qty, price)

Bought(action, qty) == IF action = "buy" THEN qty ELSE -qty

-----------------------------------------------------------------------------
(* What happens to one bracket: its new value, and what its portfolio's    *)
(* cash, its realized profit and the fills change by.                      *)

Still(b) == [now |-> b, cash |-> 0, pnl |-> 0, shares |-> 0]

\* openBracket
Opened(b, quote) ==
  LET action == OpenAction(b.side)
      price  == FillPrice(action, quote)
  IN [now    |-> [b EXCEPT !.status = "open", !.entryPrice = price],
      cash   |-> CashDelta(action, b.qty, price),
      pnl    |-> 0,
      shares |-> Bought(action, b.qty)]

\* Mutant: the entry's commission is forgotten.
RealizedLessExit(b, qty, price) ==
  Bought(OpenAction(b.side), qty) * (price - b.entryPrice) - Commission(qty, price)

\* The profit on qty of its shares, each side's commission taken on that part.
Realized(b, qty, price) ==
  Bought(OpenAction(b.side), qty) * (price - b.entryPrice)
    - Commission(qty, b.entryPrice) - Commission(qty, price)

PartOut(b, qty, price, after) ==
  [now    |-> after,
   cash   |-> CashDelta(CloseAction(b.side), qty, price),
   pnl    |-> Realized(b, qty, price),
   shares |-> Bought(CloseAction(b.side), qty)]

\* closeBracket, and cancelBracket on an open bracket
Closed(b, quote) ==
  LET price == FillPrice(CloseAction(b.side), quote)
  IN PartOut(b, b.qty, price,
             [b EXCEPT !.status = "closed", !.realizedPnl = Realized(b, b.qty, price)])

\* Mutant: the quantity is not reduced.
ScaledOutWhole(b, reduceBy, quote) ==
  LET price == FillPrice(CloseAction(b.side), quote)
  IN PartOut(b, reduceBy, price, [b EXCEPT !.realizedPnl = @ + Realized(b, reduceBy, price)])

ScaledOut(b, reduceBy, quote) ==
  LET price == FillPrice(CloseAction(b.side), quote)
  IN PartOut(b, reduceBy, price,
             [b EXCEPT !.qty = @ - reduceBy, !.realizedPnl = @ + Realized(b, reduceBy, price)])

Then(e, f) ==
  [now |-> f.now, cash |-> e.cash + f.cash, pnl |-> e.pnl + f.pnl, shares |-> e.shares + f.shares]

\* The numbers of a finite set, least first: SetToSortSeq of the community modules by a
\* property instead of an algorithm, and the members of a sequence at such places.
Ascending(N) == [k \in 1..Cardinality(N) |->
                  CHOOSE n \in N : Cardinality({m \in N : m < n}) = k - 1]
Picked(q, N) == LET places == Ascending(N) IN [k \in DOMAIN places |-> q[places[k]]]

\* Books what happened to every bracket; a trade that closed is buffered.
Book(effect) ==
  LET own(s) == {i \in Brackets : effect[i].now.strategy = s}
      cashes  == [i \in Brackets |-> effect[i].cash]
      profits == [i \in Brackets |-> effect[i].pnl]
      justClosed(i) == effect[i].now.status = "closed" /\ brackets[i].status # "closed"
      trade(i) == [strategy |-> effect[i].now.strategy, bracket |-> i,
                   realizedPnl |-> effect[i].now.realizedPnl]
      ids == Ascending({i \in Brackets : justClosed(i)})
  IN /\ brackets' = [i \in Brackets |-> effect[i].now]
     /\ cash' = [s \in Strategies |-> cash[s] + SumFunctionOnSet(cashes, own(s))]
     /\ realizedPnl' =
          [s \in Strategies |-> realizedPnl[s] + SumFunctionOnSet(profits, own(s))]
     /\ shares' = [i \in Brackets |-> shares[i] + effect[i].shares]
     /\ closed' = closed \o [n \in DOMAIN ids |-> trade(ids[n])]

BookOne(i, e) == Book([[j \in Brackets |-> Still(brackets[j])] EXCEPT ![i] = e])

-----------------------------------------------------------------------------
(* Market events                                                           *)

\* Mutant: cancelled entries are tried as well.
EnterCancelled(b, quote, touched) ==
  IF b.status \in {"pending", "cancelled"} /\ (b.entry = Market \/ touched)
    THEN Opened(b, quote) ELSE Still(b)

\* A market order waits only for a quote, a limit order for its price.
Enter(b, quote, touched) ==
  IF b.status = "pending" /\ (b.entry = Market \/ touched) THEN Opened(b, quote) ELSE Still(b)

QuoteTouches(b, quote) ==
  IF b.side = "long" THEN quote.ask <= 100 * b.entry ELSE quote.bid >= 100 * b.entry

UpdateQuote(t, q) ==
  LET quote == [bid |-> 100 * q.bid, ask |-> 100 * q.ask]
  IN /\ marks' = [marks EXCEPT ![t] = quote]
     /\ Book([i \in Brackets |->
          IF brackets[i].ticker = t
            THEN Enter(brackets[i], quote, brackets[i].entry # Market /\ QuoteTouches(brackets[i], quote))
            ELSE Still(brackets[i])])
     /\ UNCHANGED <<scaled, drained>>

BarTouches(bar, price) == bar.low <= price /\ price <= bar.high

\* The price a bar takes an open bracket out at: the stop or, through a gap, the
\* worse open; the target only where the stop was not hit.
Exit(b, bar) ==
  LET stopHit   == IF b.side = "long" THEN bar.low <= b.stopPrice ELSE bar.high >= b.stopPrice
      targetHit == /\ b.targetPrice # None
                   /\ IF b.side = "long" THEN bar.high >= b.targetPrice ELSE bar.low <= b.targetPrice
      worse(p)  == IF (p < bar.open) = (b.side = "long") THEN p ELSE bar.open
  IN CASE stopHit               -> worse(b.stopPrice)
       [] ~stopHit /\ targetHit -> b.targetPrice
       [] OTHER                 -> None

LeaveOn(b, bar) ==
  IF b.status = "open" /\ Exit(b, bar) # None THEN Closed(b, Synthesized(Exit(b, bar))) ELSE Still(b)

\* Every pending entry of the ticker is tried, then every exit, the brackets
\* just entered among them.
OnBar(t, bar) ==
  LET quote    == Synthesized(bar.close)
      touch(b) == b.entry # Market /\ BarTouches(bar, b.entry)
      through(b) == LET e == Enter(b, quote, touch(b)) IN Then(e, LeaveOn(e.now, bar))
  IN /\ marks' = [marks EXCEPT ![t] = quote]
     /\ Book([i \in Brackets |->
          IF brackets[i].ticker = t THEN through(brackets[i]) ELSE Still(brackets[i])])
     /\ UNCHANGED <<scaled, drained>>

-----------------------------------------------------------------------------
(* The port's operations                                                   *)

Accepted(s, order) ==
  [status |-> "pending", strategy |-> s, ticker |-> order.ticker, side |-> order.side,
   qty |-> order.qty, stopPrice |-> order.stopPrice, targetPrice |-> order.targetPrice,
   entry |-> order.entry, entryPrice |-> 0, realizedPnl |-> 0]

Unused(i) == brackets[i].status = "none" /\ \A j \in Brackets : j < i => brackets[j].status # "none"

\* A market order fills at once where the ticker has a quote.
PlaceBracket(s, order) ==
  LET b == Accepted(s, order)
  IN \E i \in Brackets :
       /\ Unused(i)
       /\ BookOne(i, IF order.entry = Market /\ marks[order.ticker] # None
                       THEN Opened(b, marks[order.ticker]) ELSE Still(b))
       /\ UNCHANGED <<marks, scaled, drained>>

Given(x, old) == IF x = None THEN old ELSE x

\* Mutant: the shares to sell are added to those that stay.
ModifySum(i, mod) ==
  LET b == brackets[i]
  IN /\ b.status = "open" /\ mod.newQty # None /\ marks[b.ticker] # None
     /\ BookOne(i, ScaledOut(b, b.qty + mod.newQty, marks[b.ticker]))
     /\ scaled' = [scaled EXCEPT ![i] = @ + 1]
     /\ UNCHANGED <<marks, drained>>

\* Stop and target are written first; a quantity that is no reduction throws then.
ModifyBracket(i, mod) ==
  LET b == [brackets[i] EXCEPT !.stopPrice = Given(mod.newStopPrice, @),
                               !.targetPrice = Given(mod.newTargetPrice, @)]
      reduces == mod.newQty # None /\ mod.newQty < b.qty
      sells   == reduces /\ b.status = "open"
  IN /\ b.status \in {"open", "pending"}
     /\ sells => marks[b.ticker] # None
     /\ BookOne(i, CASE sells             -> ScaledOut(b, b.qty - mod.newQty, marks[b.ticker])
                     [] reduces /\ ~sells -> Still([b EXCEPT !.qty = mod.newQty])
                     [] OTHER             -> Still(b))
     /\ scaled' = IF sells THEN [scaled EXCEPT ![i] = @ + 1] ELSE scaled
     /\ UNCHANGED <<marks, drained>>

\* An open bracket is flattened at the mark, or the call throws for want of one.
CancelBracket(i) ==
  LET b == brackets[i]
  IN /\ \/ b.status = "pending" /\ BookOne(i, Still([b EXCEPT !.status = "cancelled"]))
        \/ /\ b.status = "open" /\ marks[b.ticker] # None
           /\ BookOne(i, Closed(b, marks[b.ticker]))
     /\ UNCHANGED <<marks, scaled, drained>>

\* Mutant: the whole buffer is emptied.
DrainAll(s) ==
  LET out == Picked(closed, {n \in DOMAIN closed : closed[n].strategy = s})
  IN /\ drained' = [drained EXCEPT ![s] = @ \o [n \in DOMAIN out |-> out[n].bracket]]
     /\ closed' = <<>>
     /\ UNCHANGED <<marks, brackets, cash, realizedPnl, shares, scaled>>

DrainClosedTrades(s) ==
  LET mine == {n \in DOMAIN closed : closed[n].strategy = s}
      out  == Picked(closed, mine)
  IN /\ drained' = [drained EXCEPT ![s] = @ \o [n \in DOMAIN out |-> out[n].bracket]]
     /\ closed' = Picked(closed, DOMAIN closed \ mine)
     /\ UNCHANGED <<marks, brackets, cash, realizedPnl, shares, scaled>>

\* The portfolio starts over; its brackets are forgotten, open ones unsold. The
\* trades it closed before stay in the buffer.
ResetPortfolio(s) ==
  /\ brackets' = [i \in Brackets |->
       IF brackets[i].strategy = s
         THEN [NoBracket EXCEPT !.status = "gone", !.strategy = s] ELSE brackets[i]]
  /\ shares' = [i \in Brackets |-> IF brackets[i].strategy = s THEN 0 ELSE shares[i]]
  /\ scaled' = [i \in Brackets |-> IF brackets[i].strategy = s THEN 0 ELSE scaled[i]]
  /\ cash' = [cash EXCEPT ![s] = StartingCash]
  /\ realizedPnl' = [realizedPnl EXCEPT ![s] = 0]
  /\ UNCHANGED <<marks, closed, drained>>

Next ==
  \/ \E t \in Tickers : \/ \E q \in Quotes : UpdateQuote(t, q)
                        \/ \E bar \in Bars : OnBar(t, bar)
  \/ \E s \in Strategies : \/ \E order \in Orders : PlaceBracket(s, order)
                           \/ DrainClosedTrades(s)
                           \/ ResetPortfolio(s)
  \/ \E i \in Brackets : \/ \E mod \in Modifications : ModifyBracket(i, mod)
                         \/ CancelBracket(i)

Spec == Init /\ [][Next]_vars

-----------------------------------------------------------------------------
(* Correctness                                                             *)

Statuses == {"none", "pending", "open", "closed", "cancelled", "gone"}

Bracket == [status : Statuses, strategy : Strategies \union {None}, ticker : Tickers \union {None},
            side : Sides, qty : Nat, stopPrice : Nat, targetPrice : Nat \union {None},
            entry : Nat \union {Market}, entryPrice : Int, realizedPnl : Int]

\* Marks, brackets and the fills' history are well formed.
BookTyped ==
  /\ marks \in [Tickers -> [bid : Int, ask : Int] \union {None}]
  /\ brackets \in [Brackets -> Bracket]
  /\ shares \in [Brackets -> Int] /\ scaled \in [Brackets -> Nat]

\* Every variable keeps its type.
TypeOK ==
  /\ BookTyped
  /\ cash \in [Strategies -> Int] /\ realizedPnl \in [Strategies -> Int]
  /\ closed \in Seq([strategy : Strategies, bracket : Brackets, realizedPnl : Int])
  /\ drained \in [Strategies -> Seq(Brackets)]

Of(s)   == {i \in Brackets : brackets[i].strategy = s}
Flat(s) == \A i \in Of(s) : brackets[i].status # "open"

\* In a flat portfolio without scale-outs the cash moved by the realized profit to
\* the cent.  Each scale-out may understate the profit by a minimum commission, and
\* overstate it by a rounded cent, never more (DECISIONS.md, "Accounting balances to the
\* cent", says that they agree exactly: it forgets the commissions of a scale-out's parts).
Reconciles ==
  \A s \in Strategies : Flat(s) =>
    LET gap   == cash[s] - StartingCash - realizedPnl[s]
        parts == SumFunctionOnSet(scaled, Of(s))
    IN -parts <= gap /\ gap <= parts * MinPerOrder

\* The fills and the positions agree: an open bracket holds exactly the shares
\* bought and not sold since, any other bracket holds none.
SharesConserved ==
  \A i \in Brackets :
    LET b == brackets[i]
    IN shares[i] = IF b.status = "open" THEN Bought(OpenAction(b.side), b.qty) ELSE 0

\* A market entry is pending only while its ticker has no quote, and what is open
\* can always be scaled out or flattened: its ticker has one.
MarketEntriesFill ==
  \A i \in Brackets :
    LET b == brackets[i]
    IN /\ b.status = "pending" /\ b.entry = Market => marks[b.ticker] = None
       /\ b.status = "open" => marks[b.ticker] # None

\* The result of a closed trade reaches its own strategy once: it is in the
\* buffer or was drained, whatever other strategies drain in between.
TradesDelivered ==
  \A i \in Brackets :
    LET inBuffer(s) == {n \in DOMAIN closed : closed[n].bracket = i /\ closed[n].strategy = s}
        handed(s) == {n \in DOMAIN drained[s] : drained[s][n] = i}
        times(s) == Cardinality(inBuffer(s)) + Cardinality(handed(s))
    IN \A s \in Strategies :
         /\ times(s) <= IF brackets[i].strategy = s THEN 1 ELSE 0
         /\ brackets[i].status = "closed" /\ brackets[i].strategy = s => times(s) = 1
         /\ brackets[i].status \in {"pending", "open", "cancelled"} => times(s) = 0

\* The simulator keeps what the port promises of each bracket.
Life == INSTANCE BracketLife WITH
  status <- [i \in Brackets |-> brackets[i].status],
  qty    <- [i \in Brackets |-> brackets[i].qty]
LifeSpec == Life!Spec
============================================================================
