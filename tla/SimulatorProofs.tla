-------------------------- MODULE SimulatorProofs --------------------------
(***************************************************************************)
(* Theorems about Simulator for any strategies, tickers, orders and bars:  *)
(* the fills match the positions, the bracket's life is the abstract one,  *)
(* what the portfolios' cash moved by is what they realized, and every     *)
(* result reaches its strategy once.                                       *)
(***************************************************************************)
EXTENDS Simulator, Sums, TLAPS

Quote == [bid : Int, ask : Int]

\* The shares a bracket holds by its status.
Holds(b) == IF b.status = "open" THEN Bought(OpenAction(b.side), b.qty) ELSE 0

\* The step a bracket may take in BracketLife.
Evolves(b, c) ==
  \/ c.status \in Life!After[b.status] /\ c.qty = b.qty
  \/ b.status = "none" /\ c.status \in {"pending", "open"}
  \/ b.status \in {"pending", "open"} /\ c.status = b.status /\ c.qty < b.qty
  \/ b.status # "none" /\ c.status = "gone" /\ c.qty = 0

\* What a bracket's effect must be: a bracket again, a step of its life, and fills
\* that account for the shares it now holds.
Sound(b, e) ==
  /\ e.now \in Bracket
  /\ e.shares \in Int
  /\ Evolves(b, e.now)
  /\ Holds(b) + e.shares = Holds(e.now)

\* What MarketEntriesFill asks of one bracket; a bracket at work has a ticker, an
\* unused one has no owner.
Ready(b, mk) ==
  /\ b.status = "none" => b.strategy = None
  /\ b.status \in {"pending", "open"} =>
       /\ b.ticker \in Tickers
       /\ b.status = "pending" /\ b.entry = Market => mk[b.ticker] = None
       /\ b.status = "open" => mk[b.ticker] # None

Same(b, c) == c.ticker = b.ticker /\ c.entry = b.entry

Inv ==
  /\ BookTyped
  /\ \A i \in Brackets : shares[i] = Holds(brackets[i]) /\ Ready(brackets[i], marks)

\* What every action makes of the brackets.
Kept == Inv' /\ \A i \in Brackets : Evolves(brackets[i], brackets'[i])

LEMMA NoBracketTyped == NoBracket \in Bracket
BY DEF NoBracket, Bracket, Statuses, Sides

-----------------------------------------------------------------------------
(* The fill model returns numbers.                                         *)

LEMMA DivInt == ASSUME NEW x \in Int, NEW d \in Nat \ {0} PROVE x \div d \in Int
OBVIOUS

LEMMA RoundInt == ASSUME NEW x \in Int PROVE RoundCents(x) \in Int
BY DivInt DEF RoundCents

LEMMA CommissionInt == ASSUME NEW q \in Nat, NEW p \in Int PROVE Commission(q, p) \in Int
<1> DEFINE raw == PerShare * q
           floor == 100 * MinPerOrder
           cap == MaxPct * q * p
           least == IF raw < floor THEN floor ELSE raw
<1>1. PerShare \in Nat /\ MinPerOrder \in Nat /\ MaxPct \in Nat
  BY SimulatorAssumption
<1>2. raw \in Int /\ floor \in Int
  BY <1>1
<1>3. cap \in Int
  BY <1>1
<1>4. least \in Int /\ Commission(q, p) = RoundCents(IF least < cap THEN least ELSE cap)
  BY <1>2 DEF Commission
<1> HIDE DEF cap, least
<1> QED
  BY <1>3, <1>4, RoundInt

LEMMA SynthesizedQuote == ASSUME NEW p \in Int PROVE Synthesized(p) \in Quote
<1>1. (p * SyntheticSpreadBps) \div 200 \in Int
  BY DivInt, SimulatorAssumption
<1> QED
  BY <1>1 DEF Synthesized, Quote

LEMMA FillPriceInt == ASSUME NEW a, NEW q \in Quote PROVE FillPrice(a, q) \in Int
<1>1. q.ask \in Int /\ q.bid \in Int /\ SlippageBps \in Nat
  BY SimulatorAssumption DEF Quote
<1>2. (q.ask * SlippageBps) \div 10000 \in Int /\ (q.bid * SlippageBps) \div 10000 \in Int
  BY <1>1, DivInt
<1> QED
  BY <1>1, <1>2, RoundInt DEF FillPrice

LEMMA RealizedInt ==
  ASSUME NEW b \in Bracket, NEW q \in Nat, NEW p \in Int
  PROVE  Realized(b, q, p) \in Int
<1>1. b.entryPrice \in Int
  BY DEF Bracket
<1>2. Bought(OpenAction(b.side), q) \in Int
  BY DEF Bought
<1>3. Commission(q, b.entryPrice) \in Int /\ Commission(q, p) \in Int
  BY <1>1, CommissionInt
<1> QED
  BY <1>1, <1>2, <1>3 DEF Realized

-----------------------------------------------------------------------------
(* Every effect the actions book is sound.                                 *)

LEMMA StillSound == ASSUME NEW b \in Bracket PROVE Sound(b, Still(b))
BY DEF Still, Sound, Evolves, Holds, Bracket, Statuses, Life!After, Bought, OpenAction

\* What a change of another ticker's mark leaves as it was.
LEMMA StillReady ==
  ASSUME NEW b \in Bracket, NEW mk, Ready(b, mk), NEW after,
         b.ticker \in Tickers => after[b.ticker] = mk[b.ticker]
  PROVE  Sound(b, Still(b)) /\ Ready(Still(b).now, after)
<1>1. Still(b).now = b
  BY DEF Still
<1>2. Ready(b, after)
  BY DEF Ready
<1> QED BY <1>1, <1>2, StillSound

LEMMA OpenedSound ==
  ASSUME NEW b \in Bracket, b.status = "pending", NEW q \in Quote
  PROVE  /\ Sound(b, Opened(b, q))
         /\ Opened(b, q).now.status = "open" /\ Same(b, Opened(b, q).now)
<1> DEFINE price == FillPrice(OpenAction(b.side), q)
<1>1. price \in Int
  BY FillPriceInt
<1> DEFINE c == [b EXCEPT !.status = "open", !.entryPrice = price]
<1>2. /\ c \in Bracket /\ c.status = "open" /\ c.qty = b.qty /\ c.side = b.side
      /\ Same(b, c)
  BY <1>1 DEF Bracket, Statuses, Same
<1>3. Opened(b, q).now = c /\ Opened(b, q).shares = Bought(OpenAction(b.side), b.qty)
  BY DEF Opened
<1> HIDE DEF price, c
<1>4. b.qty \in Nat
  BY DEF Bracket
<1> QED
  BY <1>2, <1>3, <1>4 DEF Sound, Evolves, Holds, Life!After, Bought

LEMMA OppositeFills ==
  ASSUME NEW side \in Sides, NEW n \in Nat
  PROVE  /\ Bought(OpenAction(side), n) + Bought(CloseAction(side), n) = 0
         /\ \A m \in Nat : Bought(OpenAction(side), m) + Bought(CloseAction(side), n)
                             = Bought(OpenAction(side), m - n)
BY DEF Sides, Bought, OpenAction, CloseAction

LEMMA ClosedSound ==
  ASSUME NEW b \in Bracket, b.status = "open", NEW q \in Quote
  PROVE  /\ Sound(b, Closed(b, q))
         /\ Closed(b, q).now.status = "closed" /\ Same(b, Closed(b, q).now)
<1> DEFINE price == FillPrice(CloseAction(b.side), q)
           c == [b EXCEPT !.status = "closed", !.realizedPnl = Realized(b, b.qty, price)]
<1>1. b.qty \in Nat /\ b.side \in Sides
  BY DEF Bracket
<1>2. Realized(b, b.qty, price) \in Int
  BY <1>1, FillPriceInt, RealizedInt
<1>3. c \in Bracket /\ c.status = "closed" /\ c.qty = b.qty /\ Same(b, c)
  BY <1>2 DEF Bracket, Statuses, Same
<1>4. Closed(b, q).now = c /\ Closed(b, q).shares = Bought(CloseAction(b.side), b.qty)
  BY DEF Closed, PartOut
<1> HIDE DEF price, c
<1>5. Bought(CloseAction(b.side), b.qty) \in Int
  BY <1>1 DEF Bought
<1> QED
  BY <1>1, <1>3, <1>4, <1>5, OppositeFills DEF Sound, Evolves, Holds, Life!After

LEMMA ScaledOutSound ==
  ASSUME NEW b \in Bracket, b.status = "open", NEW n \in Nat, 0 < n, n <= b.qty, NEW q \in Quote
  PROVE  /\ Sound(b, ScaledOut(b, n, q))
         /\ ScaledOut(b, n, q).now.status = "open" /\ Same(b, ScaledOut(b, n, q).now)
<1> DEFINE price == FillPrice(CloseAction(b.side), q)
           pnl == b.realizedPnl + Realized(b, n, price)
           c == [b EXCEPT !.qty = b.qty - n, !.realizedPnl = pnl]
<1>1. b.qty \in Nat /\ b.side \in Sides /\ b.realizedPnl \in Int /\ b.qty - n \in Nat
  BY DEF Bracket
<1>2. pnl \in Int
  BY <1>1, FillPriceInt, RealizedInt
<1>3. /\ c \in Bracket /\ c.status = "open" /\ c.qty = b.qty - n /\ c.side = b.side
      /\ Same(b, c)
  BY <1>1, <1>2 DEF Bracket, Statuses, Same
<1>4. ScaledOut(b, n, q).now = c /\ ScaledOut(b, n, q).shares = Bought(CloseAction(b.side), n)
  BY DEF ScaledOut, PartOut
<1> HIDE DEF price, pnl, c
<1>5. Bought(CloseAction(b.side), n) \in Int
  BY DEF Bought
<1> QED
  BY <1>1, <1>3, <1>4, <1>5, OppositeFills DEF Sound, Evolves, Holds
LEMMA ThenSound ==
  ASSUME NEW b \in Bracket, NEW e, NEW f, Sound(b, e), Sound(e.now, f),
         f.now.status \in Life!After[b.status], f.now.qty = b.qty
  PROVE  Sound(b, Then(e, f))
<1>1. e.shares \in Int /\ f.shares \in Int /\ Holds(b) \in Int
  BY DEF Sound, Holds, Bought, Bracket
<1> QED
  BY <1>1 DEF Sound, Then, Evolves

-----------------------------------------------------------------------------
(* The book: if every effect is sound, so is the step.                     *)

LEMMA BookKept ==
  ASSUME Inv, marks' \in [Tickers -> Quote \union {None}], scaled' \in [Brackets -> Nat],
         NEW effect, Book(effect),
         \A i \in Brackets : Sound(brackets[i], effect[i]) /\ Ready(effect[i].now, marks')
  PROVE  Kept
<1>1. /\ brackets' = [i \in Brackets |-> effect[i].now]
      /\ shares' = [i \in Brackets |-> shares[i] + effect[i].shares]
  BY DEF Book
<1>2. ASSUME NEW i \in Brackets
      PROVE  /\ brackets'[i] \in Bracket /\ shares'[i] \in Int
             /\ shares'[i] = Holds(brackets'[i])
             /\ Ready(brackets'[i], marks')
             /\ Evolves(brackets[i], brackets'[i])
  <2>1. brackets'[i] = effect[i].now /\ shares'[i] = shares[i] + effect[i].shares
    BY <1>1
  <2>2. shares[i] \in Int /\ shares[i] = Holds(brackets[i])
    BY DEF Inv, BookTyped
  <2> QED
    BY <2>1, <2>2 DEF Sound
<1> QED
  BY <1>1, <1>2 DEF Kept, Inv, BookTyped, Quote

LEMMA SameBook == ASSUME Inv, UNCHANGED <<marks, brackets, shares, scaled>> PROVE Kept
<1>1. \A i \in Brackets : Evolves(brackets[i], brackets[i])
  BY StillSound DEF Inv, BookTyped, Sound, Still
<1> QED
  BY <1>1 DEF Kept, Inv, BookTyped, Ready, Holds

LEMMA BookOneKept ==
  ASSUME Inv, UNCHANGED marks, scaled' \in [Brackets -> Nat],
         NEW i \in Brackets, NEW e, BookOne(i, e),
         Sound(brackets[i], e), Ready(e.now, marks)
  PROVE  Kept
<1> DEFINE effect == [[j \in Brackets |-> Still(brackets[j])] EXCEPT ![i] = e]
<1>1. \A j \in Brackets : effect[j] = IF j = i THEN e ELSE Still(brackets[j])
  OBVIOUS
<1>2. \A j \in Brackets : Sound(brackets[j], effect[j]) /\ Ready(effect[j].now, marks)
  BY <1>1, StillSound DEF Inv, BookTyped, Still
<1>3. Book(effect)
  BY DEF BookOne
<1> HIDE DEF effect
<1> QED
  BY <1>2, <1>3, BookKept DEF Inv, BookTyped, Quote

LEMMA MarksUpdated ==
  ASSUME Inv, NEW t \in Tickers, NEW q \in Quote, marks' = [marks EXCEPT ![t] = q]
  PROVE  /\ marks' \in [Tickers -> Quote \union {None}]
         /\ \A u \in Tickers : marks'[u] = IF u = t THEN q ELSE marks[u]
         /\ q # None
BY SimulatorAssumption DEF Inv, BookTyped, Quote

-----------------------------------------------------------------------------
(* Market events                                                           *)

\* Entering leaves no market order waiting, and a bracket of the ticker ready for
\* its new quote.
LEMMA EnterSound ==
  ASSUME NEW b \in Bracket, NEW q \in Quote, NEW touched, NEW mk, NEW new,
         Ready(b, mk), b.ticker \in Tickers => new[b.ticker] # None
  PROVE  LET e == Enter(b, q, touched)
         IN /\ Sound(b, e) /\ Ready(e.now, new) /\ Same(b, e.now)
            /\ e.now.qty = b.qty
            /\ e.now.status = b.status \/ (b.status = "pending" /\ e.now.status = "open")
<1>1. CASE b.status = "pending" /\ (b.entry = Market \/ touched)
  <2>1. Enter(b, q, touched) = Opened(b, q)
    BY <1>1 DEF Enter
  <2>2. Opened(b, q).now.qty = b.qty
    BY DEF Opened, Bracket
  <2> QED
    BY <1>1, <2>1, <2>2, OpenedSound DEF Ready, Same
<1>2. CASE ~(b.status = "pending" /\ (b.entry = Market \/ touched))
  <2>1. Enter(b, q, touched) = Still(b)
    BY <1>2 DEF Enter
  <2>2. Still(b).now = b
    BY DEF Still
  <2> QED
    BY <1>2, <2>1, <2>2, StillSound DEF Ready, Same
<1> QED
  BY <1>1, <1>2

LEMMA LeaveSound ==
  ASSUME NEW b \in Bracket, NEW bar \in Bars, NEW mk, Ready(b, mk)
  PROVE  LET f == LeaveOn(b, bar)
         IN /\ Sound(b, f) /\ Ready(f.now, mk)
            /\ f.now.qty = b.qty
            /\ f.now.status = b.status \/ (b.status = "open" /\ f.now.status = "closed")
<1>1. CASE b.status = "open" /\ Exit(b, bar) # None
  <2>1. Exit(b, bar) \in Int
    <3>1. bar.open \in Int /\ b.stopPrice \in Int /\ b.targetPrice \in Nat \union {None}
      BY SimulatorAssumption DEF Bracket
    <3> QED
      BY <1>1, <3>1 DEF Exit
  <2>2. LeaveOn(b, bar) = Closed(b, Synthesized(Exit(b, bar)))
    BY <1>1 DEF LeaveOn
  <2>3. Closed(b, Synthesized(Exit(b, bar))).now.qty = b.qty
    BY DEF Closed, PartOut, Bracket
  <2> QED
    BY <1>1, <2>1, <2>2, <2>3, SynthesizedQuote, ClosedSound DEF Ready
<1>2. CASE ~(b.status = "open" /\ Exit(b, bar) # None)
  <2>1. LeaveOn(b, bar) = Still(b) /\ Still(b).now = b
    BY <1>2 DEF LeaveOn, Still
  <2> QED
    BY <2>1, StillSound
<1> QED
  BY <1>1, <1>2

LEMMA QuoteKept ==
  ASSUME Inv, NEW t \in Tickers, NEW q \in Quotes, UpdateQuote(t, q)
  PROVE  Kept
<1> DEFINE quote == [bid |-> 100 * q.bid, ask |-> 100 * q.ask]
           touch(b) == b.entry # Market /\ QuoteTouches(b, quote)
           effect == [i \in Brackets |->
             IF brackets[i].ticker = t THEN Enter(brackets[i], quote, touch(brackets[i]))
                                       ELSE Still(brackets[i])]
<1>1. quote \in Quote
  BY SimulatorAssumption DEF Quote
<1>2. marks' = [marks EXCEPT ![t] = quote] /\ Book(effect) /\ scaled' = scaled
  BY DEF UpdateQuote
<1> HIDE DEF quote
<1>3. ASSUME NEW i \in Brackets
      PROVE  Sound(brackets[i], effect[i]) /\ Ready(effect[i].now, marks')
  <2>1. brackets[i] \in Bracket /\ Ready(brackets[i], marks)
    BY DEF Inv, BookTyped
  <2>2. CASE brackets[i].ticker = t
    <3>1. effect[i] = Enter(brackets[i], quote, touch(brackets[i]))
      BY <2>2
    <3>2. marks'[brackets[i].ticker] # None
      BY <1>1, <1>2, <2>2, MarksUpdated
    <3> QED
      BY <1>1, <2>1, <3>1, <3>2, EnterSound
  <2>3. CASE brackets[i].ticker # t
    <3>1. effect[i] = Still(brackets[i])
      BY <2>3
    <3>2. brackets[i].ticker \in Tickers => marks'[brackets[i].ticker] = marks[brackets[i].ticker]
      BY <1>1, <1>2, <2>3, MarksUpdated
    <3> HIDE DEF effect
    <3> QED
      BY <2>1, <3>1, <3>2, StillReady
  <2> QED
    BY <2>2, <2>3
<1> HIDE DEF effect
<1> QED
  BY <1>1, <1>2, <1>3, MarksUpdated, BookKept DEF Inv, BookTyped

LEMMA BarKept ==
  ASSUME Inv, NEW t \in Tickers, NEW bar \in Bars, OnBar(t, bar)
  PROVE  Kept
<1> DEFINE quote == Synthesized(bar.close)
           touch(b) == b.entry # Market /\ BarTouches(bar, b.entry)
           through(b) == LET e == Enter(b, quote, touch(b)) IN Then(e, LeaveOn(e.now, bar))
           effect == [i \in Brackets |->
             IF brackets[i].ticker = t THEN through(brackets[i]) ELSE Still(brackets[i])]
<1>1. quote \in Quote
  BY SynthesizedQuote, SimulatorAssumption
<1>2. marks' = [marks EXCEPT ![t] = quote] /\ Book(effect) /\ scaled' = scaled
  BY DEF OnBar
<1> HIDE DEF quote
<1>3. ASSUME NEW i \in Brackets
      PROVE  Sound(brackets[i], effect[i]) /\ Ready(effect[i].now, marks')
  <2> DEFINE b == brackets[i]
             e == Enter(b, quote, touch(b))
             f == LeaveOn(e.now, bar)
  <2>1. b \in Bracket /\ Ready(b, marks)
    BY DEF Inv, BookTyped
  <2>2. CASE b.ticker = t
    <3>1. effect[i] = Then(e, f)
      BY <2>2
    <3>2. marks'[b.ticker] # None
      BY <1>1, <1>2, <2>2, MarksUpdated
    <3> HIDE DEF effect, touch
    <3>3. /\ Sound(b, e) /\ Ready(e.now, marks') /\ e.now.qty = b.qty
          /\ e.now.status = b.status \/ (b.status = "pending" /\ e.now.status = "open")
      BY <1>1, <2>1, <3>2, EnterSound
    <3> HIDE DEF e, b
    <3>4. /\ Sound(e.now, f) /\ Ready(f.now, marks') /\ f.now.qty = e.now.qty
          /\ f.now.status = e.now.status \/ (e.now.status = "open" /\ f.now.status = "closed")
      BY <3>3, LeaveSound DEF Sound
    <3> HIDE DEF f
    <3>5. f.now.status \in Life!After[b.status]
      BY <2>1, <3>3, <3>4 DEF Life!After, Bracket, Statuses
    <3>6. Sound(b, Then(e, f)) /\ Then(e, f).now = f.now
      BY <2>1, <3>3, <3>4, <3>5, ThenSound DEF Then
    <3> QED
      BY <3>1, <3>4, <3>6 DEF b
  <2>3. CASE b.ticker # t
    <3>1. effect[i] = Still(b)
      BY <2>3
    <3>2. b.ticker \in Tickers => marks'[b.ticker] = marks[b.ticker]
      BY <1>1, <1>2, <2>3, MarksUpdated
    <3> HIDE DEF b, effect
    <3> QED
      BY <2>1, <3>1, <3>2, StillReady DEF b
  <2> QED
    BY <2>2, <2>3
<1> HIDE DEF effect
<1> QED
  BY <1>1, <1>2, <1>3, MarksUpdated, BookKept DEF Inv, BookTyped

-----------------------------------------------------------------------------
(* The port's operations                                                   *)

LEMMA PlaceKept ==
  ASSUME Inv, NEW s \in Strategies, NEW order \in Orders, PlaceBracket(s, order)
  PROVE  Kept
<1> DEFINE b == Accepted(s, order)
           quote == marks[order.ticker]
           e == IF order.entry = Market /\ quote # None THEN Opened(b, quote) ELSE Still(b)
<1>1. PICK i \in Brackets : Unused(i) /\ BookOne(i, e)
  BY DEF PlaceBracket
<1>2. UNCHANGED <<marks, scaled>>
  BY DEF PlaceBracket
<1>3. order \in Order
  BY SimulatorAssumption
<1>4. b \in Bracket /\ b.status = "pending" /\ b.ticker = order.ticker /\ b.entry = order.entry
  <2>1. /\ order.ticker \in Tickers /\ order.side \in Sides /\ order.qty \in Nat
        /\ order.stopPrice \in Nat /\ order.targetPrice \in Nat \union {None}
        /\ order.entry \in Nat \union {Market}
    BY <1>3 DEF Order
  <2> QED
    BY <2>1 DEF Accepted, Bracket, Statuses
<1>5. order.ticker \in Tickers /\ quote \in Quote \union {None}
  BY <1>3 DEF Order, Inv, BookTyped, Quote
<1>6. brackets[i].status = "none" /\ Holds(brackets[i]) = 0 /\ Holds(b) = 0
  BY <1>1, <1>4 DEF Unused, Holds
<1> HIDE DEF b, quote
<1>7. CASE order.entry = Market /\ quote # None
  <2>1. e = Opened(b, quote) /\ quote \in Quote
    BY <1>5, <1>7
  <2>2. Sound(b, e) /\ e.now.status = "open" /\ Same(b, e.now)
    BY <1>4, <2>1, OpenedSound
  <2> HIDE DEF e
  <2>3. Sound(brackets[i], e) /\ Ready(e.now, marks)
    BY <1>4, <1>5, <1>6, <1>7, <2>2 DEF Sound, Evolves, Ready, Same, quote
  <2> QED
    BY <1>1, <1>2, <2>3, BookOneKept DEF Inv, BookTyped
<1>8. CASE ~(order.entry = Market /\ quote # None)
  <2>1. e = Still(b)
    BY <1>8
  <2>2. Sound(brackets[i], e)
    BY <1>4, <1>6, <2>1 DEF Sound, Evolves, Still
  <2>3. Ready(e.now, marks)
    BY <1>4, <1>5, <1>8, <2>1 DEF Ready, Still, quote
  <2> HIDE DEF e
  <2> QED
    BY <1>1, <1>2, <2>2, <2>3, BookOneKept DEF Inv, BookTyped
<1> QED
  BY <1>7, <1>8

LEMMA ModifyKept ==
  ASSUME Inv, NEW i \in Brackets, NEW mod \in Modifications, ModifyBracket(i, mod)
  PROVE  Kept
<1> DEFINE old == brackets[i]
           b == [old EXCEPT !.stopPrice = Given(mod.newStopPrice, @),
                            !.targetPrice = Given(mod.newTargetPrice, @)]
           reduces == mod.newQty # None /\ mod.newQty < b.qty
           sells == reduces /\ b.status = "open"
           e == CASE sells             -> ScaledOut(b, b.qty - mod.newQty, marks[b.ticker])
                  [] reduces /\ ~sells -> Still([b EXCEPT !.qty = mod.newQty])
                  [] OTHER             -> Still(b)
<1>1. /\ mod.newStopPrice \in Nat \union {None} /\ mod.newTargetPrice \in Nat \union {None}
      /\ mod.newQty \in (Nat \ {0}) \union {None}
  BY SimulatorAssumption
<1>2. old \in Bracket /\ Ready(old, marks)
  BY DEF Inv, BookTyped
<1>3. /\ b \in Bracket /\ b.status = old.status /\ b.qty = old.qty /\ b.side = old.side
      /\ Same(old, b)
  BY <1>1, <1>2 DEF Bracket, Given, Same
<1>4. /\ b.status \in {"open", "pending"} /\ BookOne(i, e)
      /\ sells => marks[b.ticker] # None
      /\ scaled' = IF sells THEN [scaled EXCEPT ![i] = @ + 1] ELSE scaled
      /\ UNCHANGED marks
  BY DEF ModifyBracket
<1>5. scaled' \in [Brackets -> Nat]
  BY <1>4 DEF Inv, BookTyped
<1>6. b.qty \in Nat
  BY <1>3 DEF Bracket
<1> HIDE DEF b, old
<1>7. ASSUME Sound(b, e), Ready(e.now, marks) PROVE Kept
  <2>1. Sound(old, e)
    BY <1>3, <1>7 DEF Sound, Evolves, Holds
  <2> HIDE DEF e
  <2> QED
    BY <1>4, <1>5, <1>7, <2>1, BookOneKept DEF old
<1>8. CASE sells
  <2> DEFINE n == b.qty - mod.newQty
  <2>1. n \in Nat /\ 0 < n /\ n <= b.qty
    BY <1>1, <1>6, <1>8
  <2>2. e = ScaledOut(b, n, marks[b.ticker])
    BY <1>8
  <2>3. b.ticker \in Tickers
    BY <1>2, <1>3, <1>8 DEF Ready, Same
  <2>4. marks[b.ticker] \in Quote
    BY <1>4, <1>8, <2>3 DEF Inv, BookTyped, Quote
  <2> HIDE DEF n
  <2>5. Sound(b, e) /\ e.now.status = "open" /\ Same(b, e.now)
    BY <1>3, <1>8, <2>1, <2>2, <2>4, ScaledOutSound
  <2>6. Ready(e.now, marks)
    BY <1>4, <1>8, <2>3, <2>5 DEF Ready, Same
  <2> QED
    BY <1>7, <2>5, <2>6
<1>9. CASE reduces /\ ~sells
  <2> DEFINE c == [b EXCEPT !.qty = mod.newQty]
  <2>1. e = Still(c)
    BY <1>9
  <2>2. b.status = "pending"
    BY <1>4, <1>9
  <2>3. c \in Bracket /\ c.status = "pending" /\ c.qty < b.qty /\ Same(b, c)
    BY <1>1, <1>3, <1>9, <2>2 DEF Bracket, Same
  <2> HIDE DEF c
  <2>4. Sound(b, e)
    BY <2>1, <2>2, <2>3 DEF Sound, Still, Evolves, Holds
  <2>5. Ready(e.now, marks)
    BY <1>2, <1>3, <2>1, <2>2, <2>3 DEF Ready, Same, Still
  <2> QED
    BY <1>7, <2>4, <2>5
<1>10. CASE ~reduces
  <2>1. e = Still(b)
    BY <1>10
  <2>2. Sound(b, e) /\ e.now = b
    BY <1>3, <2>1, StillSound DEF Still
  <2>3. Ready(e.now, marks)
    BY <1>2, <1>3, <1>4, <2>2 DEF Ready, Same
  <2> QED
    BY <1>7, <2>2, <2>3
<1> QED
  BY <1>8, <1>9, <1>10

LEMMA CancelKept ==
  ASSUME Inv, NEW i \in Brackets, CancelBracket(i)
  PROVE  Kept
<1> DEFINE b == brackets[i]
<1>1. b \in Bracket /\ Ready(b, marks)
  BY DEF Inv, BookTyped
<1>2. UNCHANGED marks /\ scaled' \in [Brackets -> Nat]
  BY DEF CancelBracket, Inv, BookTyped
<1>3. CASE b.status = "pending" /\ BookOne(i, Still([b EXCEPT !.status = "cancelled"]))
  <2> DEFINE c == [b EXCEPT !.status = "cancelled"]
  <2>1. c \in Bracket /\ c.status = "cancelled" /\ c.qty = b.qty
    BY <1>1 DEF Bracket, Statuses
  <2>2. BookOne(i, Still(c))
    BY <1>3
  <2> HIDE DEF c
  <2>3. Sound(b, Still(c)) /\ Ready(Still(c).now, marks)
    BY <1>3, <2>1 DEF Sound, Still, Evolves, Holds, Life!After, Ready
  <2> QED
    BY <1>2, <2>2, <2>3, BookOneKept
<1>4. CASE b.status = "open" /\ marks[b.ticker] # None /\ BookOne(i, Closed(b, marks[b.ticker]))
  <2>1. marks[b.ticker] \in Quote
    BY <1>1, <1>4 DEF Ready, Inv, BookTyped, Quote
  <2>2. Sound(b, Closed(b, marks[b.ticker])) /\ Closed(b, marks[b.ticker]).now.status = "closed"
    BY <1>1, <1>4, <2>1, ClosedSound
  <2>3. Ready(Closed(b, marks[b.ticker]).now, marks)
    BY <2>2 DEF Ready
  <2> QED
    BY <1>2, <1>4, <2>2, <2>3, BookOneKept
<1> QED
  BY <1>3, <1>4 DEF CancelBracket

LEMMA ResetKept ==
  ASSUME Inv, NEW s \in Strategies, ResetPortfolio(s)
  PROVE  Kept
<1> DEFINE c == [NoBracket EXCEPT !.status = "gone", !.strategy = s]
<1>1. c \in Bracket /\ c.status = "gone" /\ c.qty = 0
  BY NoBracketTyped DEF Bracket, Statuses, NoBracket
<1>2. ASSUME NEW i \in Brackets
      PROVE  /\ brackets'[i] = IF brackets[i].strategy = s THEN c ELSE brackets[i]
             /\ shares'[i] = IF brackets[i].strategy = s THEN 0 ELSE shares[i]
             /\ scaled'[i] = IF brackets[i].strategy = s THEN 0 ELSE scaled[i]
  BY <1>2 DEF ResetPortfolio
<1> HIDE DEF c
<1>3. UNCHANGED marks
  BY DEF ResetPortfolio
<1>4. BookTyped'
  BY <1>1, <1>2, <1>3 DEF Inv, BookTyped, ResetPortfolio
<1>5. ASSUME NEW i \in Brackets
      PROVE  /\ shares'[i] = Holds(brackets'[i]) /\ Ready(brackets'[i], marks)
             /\ Evolves(brackets[i], brackets'[i])
  <2>1. /\ brackets[i] \in Bracket /\ Ready(brackets[i], marks)
        /\ shares[i] = Holds(brackets[i])
    BY DEF Inv, BookTyped
  <2>2. CASE brackets[i].strategy = s
    <3>1. brackets[i].status # "none"
      BY <2>1, <2>2, SimulatorAssumption DEF Ready
    <3> QED
      BY <1>1, <1>2, <2>2, <3>1 DEF Holds, Ready, Evolves
  <2>3. CASE brackets[i].strategy # s
    <3>1. brackets'[i] = brackets[i] /\ shares'[i] = shares[i]
      BY <1>2, <2>3
    <3>2. Evolves(brackets[i], brackets[i])
      BY <2>1, StillSound DEF Sound, Still
    <3> QED
      BY <2>1, <3>1, <3>2
  <2> QED
    BY <2>2, <2>3
<1> QED
  BY <1>3, <1>4, <1>5 DEF Kept, Inv

-----------------------------------------------------------------------------
(* The invariant, and the properties it carries                            *)

LEMMA InvInit == Init => Inv
<1> SUFFICES ASSUME Init PROVE Inv
  OBVIOUS
<1>1. BookTyped
  BY NoBracketTyped DEF Init, BookTyped
<1>2. \A i \in Brackets : brackets[i] = NoBracket /\ shares[i] = 0
  BY DEF Init
<1> QED
  BY <1>1, <1>2 DEF Inv, NoBracket, Holds, Ready

LEMMA InvStep == Inv /\ [Next]_vars => Kept
<1> SUFFICES ASSUME Inv, [Next]_vars PROVE Kept
  OBVIOUS
<1>1. ASSUME NEW t \in Tickers, NEW q \in Quotes, UpdateQuote(t, q) PROVE Kept
  BY <1>1, QuoteKept
<1>2. ASSUME NEW t \in Tickers, NEW bar \in Bars, OnBar(t, bar) PROVE Kept
  BY <1>2, BarKept
<1>3. ASSUME NEW s \in Strategies, NEW order \in Orders, PlaceBracket(s, order) PROVE Kept
  BY <1>3, PlaceKept
<1>4. ASSUME NEW s \in Strategies, DrainClosedTrades(s) PROVE Kept
  BY <1>4, SameBook DEF DrainClosedTrades
<1>5. ASSUME NEW s \in Strategies, ResetPortfolio(s) PROVE Kept
  BY <1>5, ResetKept
<1>6. ASSUME NEW i \in Brackets, NEW mod \in Modifications, ModifyBracket(i, mod) PROVE Kept
  BY <1>6, ModifyKept
<1>7. ASSUME NEW i \in Brackets, CancelBracket(i) PROVE Kept
  BY <1>7, CancelKept
<1>8. CASE UNCHANGED vars
  BY <1>8, SameBook DEF vars
<1> QED
  BY <1>1, <1>2, <1>3, <1>4, <1>5, <1>6, <1>7, <1>8 DEF Next

LEMMA InvAlways == Spec => []Inv
<1>1. Inv /\ [Next]_vars => Inv'
  BY InvStep DEF Kept
<1> QED
  BY <1>1, InvInit, PTL DEF Spec

\* The fills and the positions agree, through scale-outs, bars that enter and leave,
\* cancellations and resets.
THEOREM FillsMatchPositions == Spec => []SharesConserved
<1>1. Inv => SharesConserved
  BY DEF Inv, SharesConserved, Holds
<1> QED
  BY <1>1, InvAlways, PTL

\* No market entry waits beside a quote; what is open can be sold.
THEOREM MarketEntriesFilled == Spec => []MarketEntriesFill
<1>1. Inv => MarketEntriesFill
  BY DEF Inv, MarketEntriesFill, Ready
<1> QED
  BY <1>1, InvAlways, PTL

\* The simulator implements BracketLife.
THEOREM LifeRefined == Spec => LifeSpec
<1>1. Init => Life!Init
  BY DEF Init, Life!Init, NoBracket
<1>2. Inv /\ [Next]_vars => [Life!Next]_(Life!vars)
  <2> SUFFICES ASSUME Inv, [Next]_vars PROVE Life!Next
    OBVIOUS
  <2>1. Kept
    BY InvStep
  <2>2. \A i \in Brackets : Evolves(brackets[i], brackets'[i])
    BY <2>1 DEF Kept
  <2> QED
    BY <2>2 DEF Evolves, Life!Next, Life!Keep, Life!Place, Life!Shrink, Life!Forget
<1> QED
  BY <1>1, <1>2, InvAlways, PTL DEF Spec, LifeSpec, Life!Spec

-----------------------------------------------------------------------------
(* The ledger: what the effects book of cash and of profit                 *)

\* What an open bracket has taken from the cash, or brought it, and its profit does not
\* show yet.
Held(b) == IF b.status = "open" THEN CashDelta(OpenAction(b.side), b.qty, b.entryPrice) ELSE 0

Slack(b, e) == e.cash - e.pnl - (Held(e.now) - Held(b))

\* An effect books the cash it moves as profit or as held, exactly but for a scale-out's
\* split commission; k says whether it is one.
Priced(b, e, k) ==
  /\ e.cash \in Int /\ e.pnl \in Int
  /\ e.now.status = "none" => b.status = "none" /\ k = 0
  /\ b.status # "none" => e.now.strategy = b.strategy
  /\ \/ k = 0 /\ Slack(b, e) = 0
     \/ k = 1 /\ -1 <= Slack(b, e) /\ Slack(b, e) <= MinPerOrder

LEMMA Rounding ==
  ASSUME NEW x \in Int
  PROVE  /\ RoundCents(x) \in Int
         /\ 100 * RoundCents(x) <= x + 50 /\ x + 50 < 100 * RoundCents(x) + 100
BY DEF RoundCents

\* Two parts of an order pay at most one minimum commission more than the whole, and at most
\* a rounded cent less.
LEMMA CommissionSplits ==
  ASSUME MinPerOrder >= 1, NEW n \in Nat, NEW m \in Nat, NEW p \in Int
  PROVE  /\ -1 <= Commission(n, p) + Commission(m, p) - Commission(n + m, p)
         /\ Commission(n, p) + Commission(m, p) - Commission(n + m, p) <= MinPerOrder
<1> DEFINE a == PerShare * n
           b == PerShare * m
           c == MaxPct * n * p
           d == MaxPct * m * p
<1>1. PerShare \in Nat /\ MinPerOrder \in Nat /\ MaxPct \in Nat
  BY SimulatorAssumption
<1>2. a \in Nat /\ b \in Nat /\ c \in Int /\ d \in Int
  BY <1>1
<1> DEFINE k == MaxPct * p
<1>3. k \in Int /\ c = n * k /\ d = m * k /\ MaxPct * (n + m) * p = c + d /\ PerShare * (n + m) = a + b
  BY <1>1
<1>4. (c <= 0 /\ d <= 0) \/ (c >= 0 /\ d >= 0)
  <2> HIDE DEF k, c, d
  <2>1. CASE k >= 0
    <3>1. n * k >= 0 /\ m * k >= 0
      BY <2>1, <1>3
    <3> QED BY <3>1, <1>3
  <2>2. CASE k <= 0
    <3>1. n * k <= 0 /\ m * k <= 0
      BY <2>2, <1>3
    <3> QED BY <3>1, <1>3
  <2> QED BY <2>1, <2>2, <1>3
<1>5. (c <= a /\ d <= b) \/ (c >= a /\ d >= b)
  <2> HIDE DEF k, c, d
  <2>1. CASE k <= PerShare
    <3>1. n * k <= PerShare * n /\ m * k <= PerShare * m
      BY <2>1, <1>1, <1>3
    <3> QED BY <3>1, <1>3
  <2>2. CASE k >= PerShare
    <3>1. n * k >= PerShare * n /\ m * k >= PerShare * m
      BY <2>2, <1>1, <1>3
    <3> QED BY <3>1, <1>3
  <2> QED BY <2>1, <2>2, <1>1, <1>3
<1> DEFINE least(v, w) == IF (IF v < 100 * MinPerOrder THEN 100 * MinPerOrder ELSE v) < w
                            THEN (IF v < 100 * MinPerOrder THEN 100 * MinPerOrder ELSE v) ELSE w
<1>6. /\ Commission(n, p) = RoundCents(least(a, c))
      /\ Commission(m, p) = RoundCents(least(b, d))
      /\ Commission(n + m, p) = RoundCents(least(a + b, c + d))
  BY <1>3 DEF Commission
<1> HIDE DEF a, b, c, d, k
<1>7. least(a, c) \in Int /\ least(b, d) \in Int /\ least(a + b, c + d) \in Int
  BY <1>1, <1>2
<1> DEFINE x == least(a, c)
           y == least(b, d)
           z == least(a + b, c + d)
           m0 == 100 * MinPerOrder
<1>8. /\ x = IF (IF a < m0 THEN m0 ELSE a) < c THEN (IF a < m0 THEN m0 ELSE a) ELSE c
      /\ y = IF (IF b < m0 THEN m0 ELSE b) < d THEN (IF b < m0 THEN m0 ELSE b) ELSE d
      /\ z = IF (IF a + b < m0 THEN m0 ELSE a + b) < c + d
               THEN (IF a + b < m0 THEN m0 ELSE a + b) ELSE c + d
  OBVIOUS
<1>9. x \in Int /\ y \in Int /\ z \in Int
  BY <1>7
<1> HIDE DEF x, y, z
<1> DEFINE X == RoundCents(x)
           Y == RoundCents(y)
           Z == RoundCents(z)
<1>10. /\ X \in Int /\ 100 * X <= x + 50 /\ x + 50 < 100 * X + 100
       /\ Y \in Int /\ 100 * Y <= y + 50 /\ y + 50 < 100 * Y + 100
       /\ Z \in Int /\ 100 * Z <= z + 50 /\ z + 50 < 100 * Z + 100
  BY <1>9, Rounding
<1> HIDE DEF X, Y, Z
<1>11. -1 <= X + Y - Z /\ X + Y - Z <= MinPerOrder
  BY <1>1, <1>2, <1>4, <1>5, <1>8, <1>9, <1>10
<1> QED BY <1>6, <1>11 DEF x, y, z, X, Y, Z

LEMMA DeltaInt ==
  ASSUME NEW a, NEW n \in Nat, NEW p \in Int
  PROVE  CashDelta(a, n, p) \in Int
<1>1. Commission(n, p) \in Int /\ n * p \in Int
  BY CommissionInt
<1> QED BY <1>1 DEF CashDelta

LEMMA HeldInt == ASSUME NEW b \in Bracket PROVE Held(b) \in Int
<1>1. b.qty \in Nat /\ b.entryPrice \in Int
  BY DEF Bracket
<1> QED BY <1>1, DeltaInt DEF Held

LEMMA StillPriced ==
  ASSUME NEW b \in Bracket, NEW c \in Bracket, c.status = "none" => b.status = "none",
         b.status # "none" => c.strategy = b.strategy, Held(c) = Held(b)
  PROVE  Priced(b, Still(c), 0)
<1>1. Held(b) \in Int
  BY HeldInt
<1>2. Still(c).now = c /\ Still(c).cash = 0 /\ Still(c).pnl = 0
  BY DEF Still
<1> QED BY <1>1, <1>2 DEF Priced, Slack

LEMMA OpenedPriced ==
  ASSUME NEW b \in Bracket, b.status = "pending", NEW q \in Quote
  PROVE  Priced(b, Opened(b, q), 0) /\ Held(b) = 0
<1> DEFINE price == FillPrice(OpenAction(b.side), q)
           c == [b EXCEPT !.status = "open", !.entryPrice = price]
<1>1. price \in Int /\ b.qty \in Nat
  BY FillPriceInt DEF Bracket
<1>2. /\ c.status = "open" /\ c.qty = b.qty /\ c.side = b.side /\ c.entryPrice = price
      /\ c.strategy = b.strategy
  BY DEF Bracket
<1>3. /\ Opened(b, q).now = c /\ Opened(b, q).pnl = 0
      /\ Opened(b, q).cash = CashDelta(OpenAction(b.side), b.qty, price)
  BY DEF Opened
<1> HIDE DEF price, c
<1>4. CashDelta(OpenAction(b.side), b.qty, price) \in Int
  BY <1>1, DeltaInt
<1>5. Held(c) = CashDelta(OpenAction(b.side), b.qty, price) /\ Held(b) = 0
  BY <1>2 DEF Held
<1> QED BY <1>2, <1>3, <1>4, <1>5 DEF Priced, Slack

\* What a sale of n of its shares moves against the profit it books.
LEMMA SaleMoves ==
  ASSUME NEW b \in Bracket, NEW n \in Nat, NEW price \in Int
  PROVE  /\ CashDelta(CloseAction(b.side), n, price) \in Int /\ Realized(b, n, price) \in Int
         /\ CashDelta(CloseAction(b.side), n, price) - Realized(b, n, price)
              = Bought(OpenAction(b.side), n) * b.entryPrice + Commission(n, b.entryPrice)
<1>1. b.entryPrice \in Int /\ b.side \in Sides
  BY DEF Bracket
<1>2. Commission(n, b.entryPrice) \in Int /\ Commission(n, price) \in Int
  BY <1>1, CommissionInt
<1>3. CASE b.side = "long"
  <2>1. CashDelta(CloseAction(b.side), n, price) = n * price - Commission(n, price)
    BY <1>3 DEF CashDelta, CloseAction
  <2>2. Bought(OpenAction(b.side), n) = n
    BY <1>3 DEF Bought, OpenAction
  <2>3. n * (price - b.entryPrice) = n * price - n * b.entryPrice
    BY <1>1
  <2>4. n * price \in Int /\ n * b.entryPrice \in Int
    BY <1>1
  <2> QED BY <1>2, <2>1, <2>2, <2>3, <2>4 DEF Realized
<1>4. CASE b.side = "short"
  <2>1. CashDelta(CloseAction(b.side), n, price) = -(n * price + Commission(n, price))
    BY <1>4 DEF CashDelta, CloseAction
  <2>2. Bought(OpenAction(b.side), n) = -n
    BY <1>4 DEF Bought, OpenAction
  <2>3. (-n) * (price - b.entryPrice) = n * b.entryPrice - n * price /\ (-n) * b.entryPrice = -(n * b.entryPrice)
    BY <1>1
  <2>4. n * price \in Int /\ n * b.entryPrice \in Int
    BY <1>1
  <2> QED BY <1>2, <2>1, <2>2, <2>3, <2>4 DEF Realized
<1> QED BY <1>1, <1>3, <1>4 DEF Sides

\* What an open bracket of n shares holds.
LEMMA HeldOpen ==
  ASSUME NEW b \in Bracket, b.status = "open"
  PROVE  Held(b) = -(Bought(OpenAction(b.side), b.qty) * b.entryPrice + Commission(b.qty, b.entryPrice))
<1>1. b.entryPrice \in Int /\ b.side \in Sides /\ b.qty \in Nat
  BY DEF Bracket
<1>2. Commission(b.qty, b.entryPrice) \in Int /\ b.qty * b.entryPrice \in Int
  BY <1>1, CommissionInt
<1>3. CASE b.side = "long"
  BY <1>1, <1>2, <1>3 DEF Held, CashDelta, Bought, OpenAction
<1>4. CASE b.side = "short"
  <2>1. (-b.qty) * b.entryPrice = -(b.qty * b.entryPrice)
    BY <1>1
  <2> QED BY <1>1, <1>2, <1>4, <2>1 DEF Held, CashDelta, Bought, OpenAction
<1> QED BY <1>1, <1>3, <1>4 DEF Sides

LEMMA ClosedPriced ==
  ASSUME NEW b \in Bracket, b.status = "open", NEW q \in Quote
  PROVE  Priced(b, Closed(b, q), 0)
<1> DEFINE price == FillPrice(CloseAction(b.side), q)
           c == [b EXCEPT !.status = "closed", !.realizedPnl = Realized(b, b.qty, price)]
<1>1. price \in Int /\ b.qty \in Nat /\ b.entryPrice \in Int
  BY FillPriceInt DEF Bracket
<1>2. c.status = "closed" /\ c.strategy = b.strategy
  BY DEF Bracket
<1>3. /\ Closed(b, q).now = c /\ Closed(b, q).pnl = Realized(b, b.qty, price)
      /\ Closed(b, q).cash = CashDelta(CloseAction(b.side), b.qty, price)
  BY DEF Closed, PartOut
<1> HIDE DEF price, c
<1>4. Held(c) = 0 /\ Held(b) \in Int
  BY <1>2, HeldInt DEF Held
<1>5. Slack(b, Closed(b, q)) = 0
  <2> DEFINE w == Bought(OpenAction(b.side), b.qty) * b.entryPrice + Commission(b.qty, b.entryPrice)
  <2>1. Held(b) = -w
    BY HeldOpen
  <2>2. /\ CashDelta(CloseAction(b.side), b.qty, price) \in Int /\ Realized(b, b.qty, price) \in Int
        /\ CashDelta(CloseAction(b.side), b.qty, price) - Realized(b, b.qty, price) = w
    BY <1>1, SaleMoves
  <2>3. w \in Int
    BY <2>2
  <2> HIDE DEF w
  <2> QED BY <1>3, <1>4, <2>1, <2>2, <2>3 DEF Slack
<1> QED BY <1>1, <1>2, <1>3, <1>5, SaleMoves DEF Priced

LEMMA ScaledOutPriced ==
  ASSUME MinPerOrder >= 1, NEW b \in Bracket, b.status = "open", NEW n \in Nat, n <= b.qty,
         NEW q \in Quote
  PROVE  Priced(b, ScaledOut(b, n, q), 1)
<1> DEFINE price == FillPrice(CloseAction(b.side), q)
           pnl == b.realizedPnl + Realized(b, n, price)
           c == [b EXCEPT !.qty = b.qty - n, !.realizedPnl = pnl]
<1>1. price \in Int /\ b.qty \in Nat /\ b.entryPrice \in Int /\ b.side \in Sides /\ b.realizedPnl \in Int
      /\ b.qty - n \in Nat
  BY FillPriceInt DEF Bracket
<1>2. Realized(b, n, price) \in Int
  BY <1>1, SaleMoves
<1>3. /\ c \in Bracket /\ c.status = "open" /\ c.strategy = b.strategy /\ c.qty = b.qty - n
      /\ c.side = b.side /\ c.entryPrice = b.entryPrice
  <2>1. pnl \in Int
    BY <1>1, <1>2
  <2> HIDE DEF pnl
  <2> QED BY <1>1, <2>1 DEF Bracket
<1>4. /\ ScaledOut(b, n, q).now = c /\ ScaledOut(b, n, q).pnl = Realized(b, n, price)
      /\ ScaledOut(b, n, q).cash = CashDelta(CloseAction(b.side), n, price)
  BY DEF ScaledOut, PartOut
<1> HIDE DEF price, pnl, c
<1> DEFINE rest == b.qty - n
           p == b.entryPrice
           v(k) == Bought(OpenAction(b.side), k) * p
<1>5. v(n) \in Int /\ v(rest) \in Int /\ v(b.qty) = v(n) + v(rest)
  <2>1. n * p \in Int /\ rest * p \in Int /\ b.qty * p = n * p + rest * p
    BY <1>1
  <2>2. (-n) * p = -(n * p) /\ (-rest) * p = -(rest * p) /\ (-b.qty) * p = -(b.qty * p)
    BY <1>1
  <2>3. CASE b.side = "long"
    <3>1. \A k \in Nat : v(k) = k * p
      BY <2>3 DEF Bought, OpenAction
    <3> QED BY <1>1, <2>1, <3>1
  <2>4. CASE b.side = "short"
    <3>1. \A k \in Nat : v(k) = (-k) * p
      BY <2>4 DEF Bought, OpenAction
    <3> HIDE DEF v
    <3> QED BY <1>1, <2>1, <2>2, <3>1
  <2> QED BY <1>1, <2>3, <2>4 DEF Sides
<1>6. Held(b) = -(v(b.qty) + Commission(b.qty, p))
  BY HeldOpen
<1>7. Held(c) = -(v(rest) + Commission(rest, p))
  BY <1>3, HeldOpen
<1>8. /\ CashDelta(CloseAction(b.side), n, price) \in Int
      /\ CashDelta(CloseAction(b.side), n, price) - Realized(b, n, price) = v(n) + Commission(n, p)
  BY <1>1, SaleMoves
<1>9. /\ Commission(n, p) \in Int /\ Commission(rest, p) \in Int /\ Commission(b.qty, p) \in Int
      /\ -1 <= Commission(n, p) + Commission(rest, p) - Commission(b.qty, p)
      /\ Commission(n, p) + Commission(rest, p) - Commission(b.qty, p) <= MinPerOrder
  <2>1. n + rest = b.qty
    BY <1>1
  <2> HIDE DEF rest
  <2> QED BY <1>1, <2>1, CommissionInt, CommissionSplits DEF rest
<1> HIDE DEF v, rest, p
<1>10. Slack(b, ScaledOut(b, n, q)) = Commission(n, p) + Commission(rest, p) - Commission(b.qty, p)
  BY <1>2, <1>4, <1>5, <1>6, <1>7, <1>8, <1>9 DEF Slack
<1> QED BY <1>2, <1>3, <1>4, <1>8, <1>9, <1>10 DEF Priced

\* One effect after another, neither of them a scale-out.
LEMMA ThenPriced ==
  ASSUME NEW b \in Bracket, NEW e, NEW f, e.now \in Bracket, f.now \in Bracket,
         Priced(b, e, 0), Priced(e.now, f, 0), e.now.status = "none" => b.status = "none"
  PROVE  Priced(b, Then(e, f), 0)
<1>1. Held(b) \in Int /\ Held(e.now) \in Int /\ Held(f.now) \in Int
  BY HeldInt
<1>2. /\ Then(e, f).now = f.now /\ Then(e, f).cash = e.cash + f.cash
      /\ Then(e, f).pnl = e.pnl + f.pnl
  BY DEF Then
<1>3. /\ e.cash \in Int /\ e.pnl \in Int /\ f.cash \in Int /\ f.pnl \in Int
      /\ e.cash - e.pnl = Held(e.now) - Held(b) /\ f.cash - f.pnl = Held(f.now) - Held(e.now)
  BY <1>1 DEF Priced, Slack
<1>4. Slack(b, Then(e, f)) = 0
  BY <1>1, <1>2, <1>3 DEF Slack
<1> QED BY <1>2, <1>3, <1>4 DEF Priced

-----------------------------------------------------------------------------
(* The ledger of a portfolio: its cash less its profit is what its open    *)
(* brackets hold, but for what its scale-outs split                        *)

HeldAt     == [i \in Brackets |-> Held(brackets[i])]
HeldBy(s)  == SumFunctionOnSet(HeldAt, Of(s))
PartsOf(s) == SumFunctionOnSet(scaled, Of(s))
Gap(s)     == cash[s] - StartingCash - realizedPnl[s]

Balanced(s) == /\ -PartsOf(s) <= Gap(s) - HeldBy(s)
               /\ Gap(s) - HeldBy(s) <= PartsOf(s) * MinPerOrder

Ledger ==
  /\ cash \in [Strategies -> Int] /\ realizedPnl \in [Strategies -> Int]
  /\ \A i \in Brackets : brackets[i].status = "none" => scaled[i] = 0
  /\ \A s \in Strategies : Balanced(s)

LEMMA BracketsFinite == \A S \in SUBSET Brackets : IsFiniteSet(S)
<1>1. IsFiniteSet(1..MaxBrackets)
  <2>1. 1 \in Int /\ MaxBrackets \in Int
    BY SimulatorAssumption
  <2> QED BY <2>1, FS_Interval
<1>2. IsFiniteSet(Brackets)
  BY <1>1 DEF Brackets
<1> QED BY <1>2, FS_Subset

LEMMA SumsInt ==
  ASSUME Inv, NEW s
  PROVE  /\ HeldBy(s) \in Int /\ PartsOf(s) \in Int /\ IsFiniteSet(Of(s)) /\ Of(s) \subseteq Brackets
         /\ \A i \in Brackets : HeldAt[i] = Held(brackets[i]) /\ HeldAt[i] \in Int /\ scaled[i] \in Nat
<1>1. Of(s) \subseteq Brackets /\ IsFiniteSet(Of(s))
  BY BracketsFinite DEF Of
<1>2. \A i \in Brackets : HeldAt[i] = Held(brackets[i]) /\ HeldAt[i] \in Int /\ scaled[i] \in Nat
  BY HeldInt DEF Inv, BookTyped, HeldAt
<1>3. HeldBy(s) \in Int
  BY <1>1, <1>2, SumInt DEF HeldBy
<1>4. PartsOf(s) \in Int
  BY <1>1, <1>2, SumInt DEF PartsOf
<1> QED BY <1>1, <1>2, <1>3, <1>4

LEMMA BookBalances ==
  ASSUME Inv, Inv', Ledger, NEW effect, Book(effect),
         \A i \in Brackets : Priced(brackets[i], effect[i], scaled'[i] - scaled[i])
  PROVE  Ledger'
<1> DEFINE cashes  == [i \in Brackets |-> effect[i].cash]
           profits == [i \in Brackets |-> effect[i].pnl]
           own(s)  == {i \in Brackets : effect[i].now.strategy = s}
<1>1. /\ brackets' = [i \in Brackets |-> effect[i].now]
      /\ cash' = [s \in Strategies |-> cash[s] + SumFunctionOnSet(cashes, own(s))]
      /\ realizedPnl' = [s \in Strategies |-> realizedPnl[s] + SumFunctionOnSet(profits, own(s))]
  BY DEF Book
<1>2. \A i \in Brackets : /\ brackets'[i] = effect[i].now /\ brackets[i] \in Bracket
                          /\ cashes[i] = effect[i].cash /\ profits[i] = effect[i].pnl
                          /\ cashes[i] \in Int /\ profits[i] \in Int
  BY <1>1 DEF Priced, Inv, BookTyped
<1>3. \A s : own(s) = Of(s)'
  BY <1>1 DEF Of
<1> HIDE DEF cashes, profits
<1>4. ASSUME NEW s \in Strategies
      PROVE  /\ SumFunctionOnSet(cashes, own(s)) \in Int /\ SumFunctionOnSet(profits, own(s)) \in Int
             /\ Balanced(s)'
  <2> DEFINE T == own(s)
  <2>1. T \subseteq Brackets /\ IsFiniteSet(T) /\ T = Of(s)'
    BY <1>3, BracketsFinite
  <2>2. Of(s) \subseteq T
    <3> SUFFICES ASSUME NEW i \in Of(s) PROVE i \in T
      OBVIOUS
    <3>1. i \in Brackets /\ brackets[i].strategy = s
      BY DEF Of
    <3>2. brackets[i].status # "none"
      BY <3>1, SimulatorAssumption DEF Inv, Ready
    <3> QED BY <3>1, <3>2 DEF Priced
  <2>3. \A i \in T \ Of(s) : brackets[i].status = "none"
    BY <2>1 DEF Of, Priced
  <2> HIDE DEF own, T
  <2>4. \A i \in T : /\ cashes[i] \in Int /\ profits[i] \in Int
                     /\ HeldAt[i] = Held(brackets[i]) /\ HeldAt[i] \in Int /\ scaled[i] \in Nat
                     /\ HeldAt'[i] = Held(effect[i].now) /\ HeldAt'[i] \in Int /\ scaled'[i] \in Nat
    <3>1. \A i \in Brackets : HeldAt'[i] = Held(brackets'[i]) /\ HeldAt'[i] \in Int /\ scaled'[i] \in Nat
      BY HeldInt DEF Inv, BookTyped, HeldAt
    <3> QED BY <1>2, <2>1, <3>1, SumsInt
  <2> DEFINE SumOf(f) == SumFunctionOnSet(f, T)
  <2>5. /\ SumOf(cashes) \in Int /\ SumOf(profits) \in Int /\ SumOf(HeldAt) \in Int
        /\ SumOf(HeldAt') \in Int /\ SumOf(scaled) \in Int /\ SumOf(scaled') \in Int
    BY <2>1, <2>4, SumInt
  <2>6. SumOf(HeldAt) = HeldBy(s) /\ SumOf(scaled) = PartsOf(s)
    <3>1. \A i \in T \ Of(s) : HeldAt[i] = 0 /\ scaled[i] = 0
      BY <2>1, <2>3, <2>4 DEF Held, Ledger
    <3>2. SumFunctionOnSet(HeldAt, Of(s)) = SumFunctionOnSet(HeldAt, T)
      BY <2>1, <2>2, <2>4, <3>1, SumOnly
    <3>3. SumFunctionOnSet(scaled, Of(s)) = SumFunctionOnSet(scaled, T)
      BY <2>1, <2>2, <2>4, <3>1, SumOnly
    <3> QED BY <3>2, <3>3 DEF HeldBy, PartsOf
  <2>7. SumOf(HeldAt') = HeldBy(s)' /\ SumOf(scaled') = PartsOf(s)'
    BY <2>1 DEF HeldBy, PartsOf
  <2> DEFINE moved  == [i \in T |-> cashes[i] + HeldAt[i]]
             booked == [i \in T |-> profits[i] + HeldAt'[i]]
             split  == [i \in T |-> scaled'[i] - scaled[i]]
             most   == [i \in T |-> (scaled'[i] - scaled[i]) * MinPerOrder]
             low    == [i \in T |-> moved[i] + split[i]]
             high   == [i \in T |-> booked[i] + most[i]]
  <2>8. MinPerOrder \in Nat
    BY SimulatorAssumption
  <2>9. \A i \in T : /\ moved[i] = cashes[i] + HeldAt[i] /\ moved[i] \in Int
                     /\ booked[i] = profits[i] + HeldAt'[i] /\ booked[i] \in Int
                     /\ split[i] = scaled'[i] - scaled[i] /\ split[i] \in Int
                     /\ scaled'[i] = scaled[i] + split[i]
                     /\ most[i] = split[i] * MinPerOrder /\ most[i] \in Int
                     /\ low[i] = moved[i] + split[i] /\ low[i] \in Int
                     /\ high[i] = booked[i] + most[i] /\ high[i] \in Int
    BY <2>4, <2>8
  <2>10. \A i \in T : booked[i] <= low[i] /\ moved[i] <= high[i]
    <3> SUFFICES ASSUME NEW i \in T PROVE booked[i] <= low[i] /\ moved[i] <= high[i]
      OBVIOUS
    <3>1. Priced(brackets[i], effect[i], scaled'[i] - scaled[i])
      BY <2>1
    <3>2. Slack(brackets[i], effect[i]) = cashes[i] - profits[i] - (HeldAt'[i] - HeldAt[i])
      BY <1>2, <2>1, <2>4 DEF Slack
    <3>3. CASE split[i] = 0
      <4>1. Slack(brackets[i], effect[i]) = 0 /\ most[i] = 0
        BY <2>8, <2>9, <3>1, <3>3 DEF Priced
      <4> QED BY <2>4, <2>9, <3>2, <3>3, <4>1
    <3>4. CASE split[i] = 1
      <4>1. -1 <= Slack(brackets[i], effect[i]) /\ Slack(brackets[i], effect[i]) <= MinPerOrder
            /\ most[i] = MinPerOrder
        BY <2>8, <2>9, <3>1, <3>4 DEF Priced
      <4> QED BY <2>4, <2>8, <2>9, <3>2, <3>4, <4>1
    <3> QED BY <2>9, <3>1, <3>3, <3>4 DEF Priced
  <2> HIDE DEF moved, booked, split, most, low, high
  <2>11. /\ SumOf(moved) = SumOf(cashes) + SumOf(HeldAt)
         /\ SumOf(booked) = SumOf(profits) + SumOf(HeldAt')
         /\ SumOf(scaled') = SumOf(scaled) + SumOf(split)
         /\ SumOf(low) = SumOf(moved) + SumOf(split)
         /\ SumOf(high) = SumOf(booked) + SumOf(most)
    <3>1. SumOf(moved) = SumOf(cashes) + SumOf(HeldAt)
      BY <2>1, <2>4, <2>9, SumAdds
    <3>2. SumOf(booked) = SumOf(profits) + SumOf(HeldAt')
      BY <2>1, <2>4, <2>9, SumAdds
    <3>3. SumOf(scaled') = SumOf(scaled) + SumOf(split)
      BY <2>1, <2>4, <2>9, SumAdds
    <3>4. SumOf(low) = SumOf(moved) + SumOf(split)
      BY <2>1, <2>9, SumAdds
    <3>5. SumOf(high) = SumOf(booked) + SumOf(most)
      BY <2>1, <2>9, SumAdds
    <3> QED BY <3>1, <3>2, <3>3, <3>4, <3>5
  <2>12. SumOf(most) = SumOf(split) * MinPerOrder
    BY <2>1, <2>8, <2>9, SumScales
  <2>13. SumOf(booked) <= SumOf(low) /\ SumOf(moved) <= SumOf(high)
    <3>1. SumOf(booked) <= SumOf(low)
      BY <2>1, <2>9, <2>10, SumMonotone
    <3>2. SumOf(moved) <= SumOf(high)
      BY <2>1, <2>9, <2>10, SumMonotone
    <3> QED BY <3>1, <3>2
  <2>14. SumOf(split) \in Int
    BY <2>1, <2>9, SumInt
  <2> DEFINE k0 == PartsOf(s)
             k1 == SumOf(split)
             g0 == Gap(s) - HeldBy(s)
             g1 == Gap(s)' - HeldBy(s)'
  <2>15. cash[s] \in Int /\ realizedPnl[s] \in Int /\ StartingCash \in Int
    BY SimulatorAssumption DEF Ledger
  <2>16. cash'[s] = cash[s] + SumOf(cashes) /\ realizedPnl'[s] = realizedPnl[s] + SumOf(profits)
    BY <1>1 DEF T
  <2>17. /\ g1 - g0 = SumOf(cashes) - SumOf(profits) - (SumOf(HeldAt') - SumOf(HeldAt))
         /\ g0 \in Int /\ g1 \in Int
    <3> HIDE DEF SumOf
    <3> QED BY <2>5, <2>6, <2>7, <2>15, <2>16 DEF Gap
  <2>18. -k1 <= g1 - g0 /\ g1 - g0 <= k1 * MinPerOrder
    <3> HIDE DEF SumOf, g0, g1
    <3> QED BY <2>5, <2>8, <2>11, <2>12, <2>13, <2>14, <2>17 DEF k1
  <2>19. k0 \in Int /\ k1 \in Int /\ PartsOf(s)' = k0 + k1
    BY <2>5, <2>6, <2>7, <2>11, <2>14
  <2>20. -k0 <= g0 /\ g0 <= k0 * MinPerOrder
    BY DEF Ledger, Balanced
  <2> HIDE DEF k0, k1, g0, g1
  <2>21. (k0 + k1) * MinPerOrder = k0 * MinPerOrder + k1 * MinPerOrder
         /\ k0 * MinPerOrder \in Int /\ k1 * MinPerOrder \in Int
    BY <2>8, <2>19
  <2>22. -(k0 + k1) <= g1 /\ g1 <= (k0 + k1) * MinPerOrder
    BY <2>17, <2>18, <2>19, <2>20, <2>21
  <2>23. Balanced(s)'
    BY <2>19, <2>22 DEF Balanced, g1
  <2> QED BY <2>5, <2>23 DEF T
<1>5. cash' \in [Strategies -> Int] /\ realizedPnl' \in [Strategies -> Int]
  <2>1. \A s \in Strategies : cash[s] \in Int /\ realizedPnl[s] \in Int
    BY DEF Ledger
  <2> HIDE DEF own
  <2> QED BY <1>1, <1>4, <2>1
<1>6. ASSUME NEW i \in Brackets, brackets'[i].status = "none" PROVE scaled'[i] = 0
  <2>1. brackets[i].status = "none" /\ scaled'[i] - scaled[i] = 0
    BY <1>2, <1>6 DEF Priced
  <2>2. scaled[i] = 0 /\ scaled'[i] \in Nat
    BY <2>1 DEF Ledger, Inv, BookTyped
  <2> QED BY <2>1, <2>2
<1> QED BY <1>4, <1>5, <1>6 DEF Ledger

LEMMA BookOneBalances ==
  ASSUME Inv, Inv', Ledger, NEW i \in Brackets, NEW e, BookOne(i, e),
         Priced(brackets[i], e, scaled'[i] - scaled[i]),
         \A j \in Brackets \ {i} : scaled'[j] = scaled[j]
  PROVE  Ledger'
<1> DEFINE effect == [[j \in Brackets |-> Still(brackets[j])] EXCEPT ![i] = e]
<1>1. \A j \in Brackets : effect[j] = IF j = i THEN e ELSE Still(brackets[j])
  OBVIOUS
<1>2. Book(effect)
  BY DEF BookOne
<1> HIDE DEF effect
<1>3. ASSUME NEW j \in Brackets PROVE Priced(brackets[j], effect[j], scaled'[j] - scaled[j])
  <2>1. CASE j = i
    BY <1>1, <2>1
  <2>2. CASE j # i
    <3>1. effect[j] = Still(brackets[j])
      BY <1>1, <2>2
    <3>2. scaled'[j] - scaled[j] = 0
      BY <2>2 DEF Inv, BookTyped
    <3>3. brackets[j] \in Bracket
      BY DEF Inv, BookTyped
    <3> QED BY <3>1, <3>2, <3>3, StillPriced
  <2> QED BY <2>1, <2>2
<1> QED BY <1>2, <1>3, BookBalances

LEMMA EnterPriced ==
  ASSUME NEW b \in Bracket, NEW q \in Quote, NEW touched
  PROVE  Priced(b, Enter(b, q, touched), 0)
<1>1. CASE b.status = "pending" /\ (b.entry = Market \/ touched)
  <2>1. Enter(b, q, touched) = Opened(b, q)
    BY <1>1 DEF Enter
  <2> QED BY <1>1, <2>1, OpenedPriced
<1>2. CASE ~(b.status = "pending" /\ (b.entry = Market \/ touched))
  <2>1. Enter(b, q, touched) = Still(b)
    BY <1>2 DEF Enter
  <2> QED BY <2>1, StillPriced
<1> QED BY <1>1, <1>2

LEMMA LeavePriced ==
  ASSUME NEW b \in Bracket, NEW bar \in Bars
  PROVE  Priced(b, LeaveOn(b, bar), 0)
<1>1. CASE b.status = "open" /\ Exit(b, bar) # None
  <2>1. Exit(b, bar) \in Int
    <3>1. bar.open \in Int /\ b.stopPrice \in Int /\ b.targetPrice \in Nat \union {None}
      BY SimulatorAssumption DEF Bracket
    <3> QED BY <1>1, <3>1 DEF Exit
  <2>2. LeaveOn(b, bar) = Closed(b, Synthesized(Exit(b, bar)))
    BY <1>1 DEF LeaveOn
  <2> QED BY <1>1, <2>1, <2>2, SynthesizedQuote, ClosedPriced
<1>2. CASE ~(b.status = "open" /\ Exit(b, bar) # None)
  <2>1. LeaveOn(b, bar) = Still(b)
    BY <1>2 DEF LeaveOn
  <2> QED BY <2>1, StillPriced
<1> QED BY <1>1, <1>2

\* An event books every bracket's effect, and an unused bracket stays one.
LEMMA QuoteEffect ==
  ASSUME Inv, NEW t \in Tickers, NEW q \in Quotes, UpdateQuote(t, q)
  PROVE  \E effect : /\ Book(effect)
                     /\ \A i \in Brackets : /\ Priced(brackets[i], effect[i], 0)
                                            /\ brackets[i].status = "none" => effect[i].now = brackets[i]
<1> DEFINE quote == [bid |-> 100 * q.bid, ask |-> 100 * q.ask]
           touch(b) == b.entry # Market /\ QuoteTouches(b, quote)
           effect == [i \in Brackets |->
             IF brackets[i].ticker = t THEN Enter(brackets[i], quote, touch(brackets[i]))
                                       ELSE Still(brackets[i])]
<1>1. quote \in Quote
  BY SimulatorAssumption DEF Quote
<1>2. Book(effect)
  BY DEF UpdateQuote
<1> HIDE DEF quote
<1>3. ASSUME NEW i \in Brackets
      PROVE  /\ Priced(brackets[i], effect[i], 0)
             /\ brackets[i].status = "none" => effect[i].now = brackets[i]
  <2>1. brackets[i] \in Bracket
    BY DEF Inv, BookTyped
  <2>2. CASE brackets[i].ticker = t
    <3>1. effect[i] = Enter(brackets[i], quote, touch(brackets[i]))
      BY <2>2
    <3> HIDE DEF effect, touch
    <3> QED BY <1>1, <2>1, <3>1, EnterPriced DEF Enter, Still
  <2>3. CASE brackets[i].ticker # t
    <3>1. effect[i] = Still(brackets[i])
      BY <2>3
    <3> QED BY <2>1, <3>1, StillPriced DEF Still
  <2> QED BY <2>2, <2>3
<1> HIDE DEF effect
<1> QED BY <1>2, <1>3

LEMMA QuoteBalances ==
  ASSUME Inv, Inv', Ledger, NEW t \in Tickers, NEW q \in Quotes, UpdateQuote(t, q)
  PROVE  Ledger'
<1>1. PICK effect : Book(effect) /\ \A i \in Brackets : Priced(brackets[i], effect[i], 0)
  BY QuoteEffect
<1>2. \A i \in Brackets : scaled'[i] - scaled[i] = 0
  BY DEF UpdateQuote, Inv, BookTyped
<1> QED BY <1>1, <1>2, BookBalances

LEMMA BarEffect ==
  ASSUME Inv, NEW t \in Tickers, NEW bar \in Bars, OnBar(t, bar)
  PROVE  \E effect : /\ Book(effect)
                     /\ \A i \in Brackets : /\ Priced(brackets[i], effect[i], 0)
                                            /\ brackets[i].status = "none" => effect[i].now = brackets[i]
<1> DEFINE quote == Synthesized(bar.close)
           touch(b) == b.entry # Market /\ BarTouches(bar, b.entry)
           through(b) == LET e == Enter(b, quote, touch(b)) IN Then(e, LeaveOn(e.now, bar))
           effect == [i \in Brackets |->
             IF brackets[i].ticker = t THEN through(brackets[i]) ELSE Still(brackets[i])]
<1>1. quote \in Quote
  BY SynthesizedQuote, SimulatorAssumption
<1>2. marks' = [marks EXCEPT ![t] = quote] /\ Book(effect)
  BY DEF OnBar
<1> HIDE DEF quote
<1>3. ASSUME NEW i \in Brackets
      PROVE  /\ Priced(brackets[i], effect[i], 0)
             /\ brackets[i].status = "none" => effect[i].now = brackets[i]
  <2> DEFINE b == brackets[i]
             e == Enter(b, quote, touch(b))
             f == LeaveOn(e.now, bar)
  <2>1. b \in Bracket /\ Ready(b, marks)
    BY DEF Inv, BookTyped
  <2>2. CASE b.ticker = t
    <3>1. effect[i] = Then(e, f)
      BY <2>2
    <3>2. marks'[b.ticker] # None
      BY <1>1, <1>2, <2>2, MarksUpdated
    <3> HIDE DEF effect, touch
    <3>3. /\ Sound(b, e) /\ Ready(e.now, marks') /\ Priced(b, e, 0)
          /\ e.now.status = b.status \/ (b.status = "pending" /\ e.now.status = "open")
      BY <1>1, <2>1, <3>2, EnterSound, EnterPriced
    <3>4. e.now \in Bracket /\ (e.now.status = "none" => b.status = "none")
      BY <3>3 DEF Sound
    <3>5. b.status = "none" => e.now = b /\ f.now = b
      BY DEF Enter, LeaveOn, Still
    <3> HIDE DEF e
    <3>6. Sound(e.now, f) /\ Priced(e.now, f, 0)
      BY <3>3, <3>4, LeaveSound, LeavePriced
    <3>7. f.now \in Bracket
      BY <3>6 DEF Sound
    <3> HIDE DEF f, b
    <3>8. Priced(b, Then(e, f), 0) /\ Then(e, f).now = f.now
      BY <2>1, <3>3, <3>4, <3>6, <3>7, ThenPriced DEF Then
    <3> QED BY <3>1, <3>5, <3>8 DEF b
  <2>3. CASE b.ticker # t
    <3>1. effect[i] = Still(b)
      BY <2>3
    <3> QED BY <2>1, <3>1, StillPriced DEF Still
  <2> QED BY <2>2, <2>3
<1> HIDE DEF effect
<1> QED BY <1>2, <1>3

LEMMA BarBalances ==
  ASSUME Inv, Inv', Ledger, NEW t \in Tickers, NEW bar \in Bars, OnBar(t, bar)
  PROVE  Ledger'
<1>1. PICK effect : Book(effect) /\ \A i \in Brackets : Priced(brackets[i], effect[i], 0)
  BY BarEffect
<1>2. \A i \in Brackets : scaled'[i] - scaled[i] = 0
  BY DEF OnBar, Inv, BookTyped
<1> QED BY <1>1, <1>2, BookBalances

LEMMA PlaceBalances ==
  ASSUME Inv, Inv', Ledger, NEW s \in Strategies, NEW order \in Orders, PlaceBracket(s, order)
  PROVE  Ledger'
<1> DEFINE b == Accepted(s, order)
           quote == marks[order.ticker]
           e == IF order.entry = Market /\ quote # None THEN Opened(b, quote) ELSE Still(b)
<1>1. PICK i \in Brackets : Unused(i) /\ BookOne(i, e)
  BY DEF PlaceBracket
<1>2. scaled' = scaled
  BY DEF PlaceBracket
<1>3. b \in Bracket /\ b.status = "pending"
  <2>1. order \in Order
    BY SimulatorAssumption
  <2>2. /\ order.ticker \in Tickers /\ order.side \in Sides /\ order.qty \in Nat
        /\ order.stopPrice \in Nat /\ order.targetPrice \in Nat \union {None}
        /\ order.entry \in Nat \union {Market}
    BY <2>1 DEF Order
  <2> QED BY <2>2 DEF Accepted, Bracket, Statuses
<1>4. order.ticker \in Tickers /\ quote \in Quote \union {None}
  BY SimulatorAssumption DEF Order, Inv, BookTyped, Quote
<1>5. brackets[i].status = "none" /\ Held(brackets[i]) = 0 /\ scaled'[i] - scaled[i] = 0
  BY <1>1, <1>2 DEF Unused, Held, Inv, BookTyped
<1> HIDE DEF b, quote
<1>6. Priced(b, e, 0) /\ Held(b) = 0 /\ e.now.status # "none"
  <2>1. CASE order.entry = Market /\ quote # None
    <3>1. e = Opened(b, quote) /\ quote \in Quote
      BY <1>4, <2>1
    <3> QED BY <1>3, <3>1, OpenedPriced, OpenedSound
  <2>2. CASE ~(order.entry = Market /\ quote # None)
    <3>1. e = Still(b) /\ Still(b).now = b
      BY <2>2 DEF Still
    <3> QED BY <1>3, <3>1, StillPriced DEF Held
  <2> QED BY <2>1, <2>2
<1> HIDE DEF e
<1>7. Priced(brackets[i], e, 0)
  BY <1>5, <1>6 DEF Priced, Slack
<1> QED BY <1>1, <1>2, <1>5, <1>7, BookOneBalances

LEMMA ModifyBalances ==
  ASSUME MinPerOrder >= 1, Inv, Inv', Ledger, NEW i \in Brackets, NEW mod \in Modifications,
         ModifyBracket(i, mod)
  PROVE  Ledger'
<1> DEFINE old == brackets[i]
           b == [old EXCEPT !.stopPrice = Given(mod.newStopPrice, @),
                            !.targetPrice = Given(mod.newTargetPrice, @)]
           reduces == mod.newQty # None /\ mod.newQty < b.qty
           sells == reduces /\ b.status = "open"
           e == CASE sells             -> ScaledOut(b, b.qty - mod.newQty, marks[b.ticker])
                  [] reduces /\ ~sells -> Still([b EXCEPT !.qty = mod.newQty])
                  [] OTHER             -> Still(b)
<1>1. /\ mod.newStopPrice \in Nat \union {None} /\ mod.newTargetPrice \in Nat \union {None}
      /\ mod.newQty \in (Nat \ {0}) \union {None}
  BY SimulatorAssumption
<1>2. old \in Bracket /\ Ready(old, marks) /\ scaled \in [Brackets -> Nat]
  BY DEF Inv, BookTyped
<1>3. /\ b \in Bracket /\ b.status = old.status /\ b.qty = old.qty /\ b.side = old.side
      /\ b.strategy = old.strategy /\ b.ticker = old.ticker /\ b.entryPrice = old.entryPrice
  BY <1>1, <1>2 DEF Bracket, Given
<1>4. /\ b.status \in {"open", "pending"} /\ BookOne(i, e)
      /\ sells => marks[b.ticker] # None
      /\ scaled' = IF sells THEN [scaled EXCEPT ![i] = @ + 1] ELSE scaled
  BY DEF ModifyBracket
<1>5. b.qty \in Nat
  BY <1>3 DEF Bracket
<1> HIDE DEF b, old
<1>6. Held(b) = Held(old)
  BY <1>3 DEF Held
<1>7. ASSUME NEW k, Priced(b, e, k), scaled'[i] - scaled[i] = k,
             \A j \in Brackets \ {i} : scaled'[j] = scaled[j]
      PROVE  Ledger'
  <2> HIDE DEF e
  <2>1. Priced(old, e, k)
    BY <1>3, <1>6, <1>7 DEF Priced, Slack
  <2> QED BY <1>4, <1>7, <2>1, BookOneBalances DEF old
<1>8. CASE sells
  <2> DEFINE n == b.qty - mod.newQty
  <2>1. n \in Nat /\ n <= b.qty
    BY <1>1, <1>5, <1>8
  <2>2. e = ScaledOut(b, n, marks[b.ticker])
    BY <1>8
  <2>3. marks[b.ticker] \in Quote
    BY <1>2, <1>3, <1>4, <1>8 DEF Ready, Inv, BookTyped, Quote
  <2> HIDE DEF n
  <2>4. Priced(b, e, 1)
    BY <1>3, <1>8, <2>1, <2>2, <2>3, ScaledOutPriced
  <2>5. scaled' = [scaled EXCEPT ![i] = @ + 1]
    BY <1>4, <1>8
  <2>6. scaled'[i] - scaled[i] = 1 /\ \A j \in Brackets \ {i} : scaled'[j] = scaled[j]
    BY <1>2, <2>5
  <2> QED BY <1>7, <2>4, <2>6
<1>9. CASE ~sells
  <2>1. scaled'[i] - scaled[i] = 0 /\ \A j \in Brackets \ {i} : scaled'[j] = scaled[j]
    BY <1>2, <1>4, <1>9
  <2>2. CASE reduces
    <3> DEFINE c == [b EXCEPT !.qty = mod.newQty]
    <3>1. e = Still(c)
      BY <1>9, <2>2
    <3>2. b.status = "pending"
      BY <1>4, <1>9, <2>2
    <3>3. c \in Bracket /\ c.status = "pending" /\ c.strategy = b.strategy
      BY <1>1, <1>3, <2>2, <3>2 DEF Bracket
    <3> HIDE DEF c
    <3>4. Held(c) = Held(b)
      BY <3>2, <3>3 DEF Held
    <3>5. Priced(b, e, 0)
      BY <1>3, <3>1, <3>2, <3>3, <3>4, StillPriced
    <3> QED BY <1>7, <2>1, <3>5
  <2>3. CASE ~reduces
    <3>1. e = Still(b)
      BY <2>3
    <3>2. Priced(b, e, 0)
      BY <1>3, <3>1, StillPriced
    <3> QED BY <1>7, <2>1, <3>2
  <2> QED BY <2>2, <2>3
<1> QED BY <1>8, <1>9

LEMMA CancelBalances ==
  ASSUME Inv, Inv', Ledger, NEW i \in Brackets, CancelBracket(i)
  PROVE  Ledger'
<1> DEFINE b == brackets[i]
<1>1. b \in Bracket /\ Ready(b, marks) /\ scaled \in [Brackets -> Nat]
  BY DEF Inv, BookTyped
<1>2. scaled' = scaled
  BY DEF CancelBracket
<1>3. scaled'[i] - scaled[i] = 0 /\ \A j \in Brackets \ {i} : scaled'[j] = scaled[j]
  BY <1>1, <1>2
<1>4. CASE b.status = "pending" /\ BookOne(i, Still([b EXCEPT !.status = "cancelled"]))
  <2> DEFINE c == [b EXCEPT !.status = "cancelled"]
  <2>1. c \in Bracket /\ c.status = "cancelled" /\ c.strategy = b.strategy
    BY <1>1 DEF Bracket, Statuses
  <2>2. BookOne(i, Still(c))
    BY <1>4
  <2> HIDE DEF c
  <2>3. Held(c) = Held(b)
    BY <1>4, <2>1 DEF Held
  <2>4. Priced(b, Still(c), 0)
    BY <1>1, <2>1, <2>3, StillPriced
  <2> QED BY <1>3, <2>2, <2>4, BookOneBalances
<1>5. CASE b.status = "open" /\ marks[b.ticker] # None /\ BookOne(i, Closed(b, marks[b.ticker]))
  <2>1. marks[b.ticker] \in Quote
    BY <1>1, <1>5 DEF Ready, Inv, BookTyped, Quote
  <2>2. Priced(b, Closed(b, marks[b.ticker]), 0)
    BY <1>1, <1>5, <2>1, ClosedPriced
  <2> QED BY <1>3, <1>5, <2>2, BookOneBalances
<1> QED BY <1>4, <1>5 DEF CancelBracket

LEMMA SameLedger ==
  ASSUME Ledger, UNCHANGED <<brackets, cash, realizedPnl, scaled>>
  PROVE  Ledger'
BY DEF Ledger, Balanced, Gap, HeldBy, HeldAt, PartsOf, Of

\* The portfolio that starts over holds nothing; the others keep their brackets.
LEMMA ResetBalances ==
  ASSUME Inv, Inv', Ledger, NEW s \in Strategies, ResetPortfolio(s)
  PROVE  Ledger'
<1> DEFINE c == [NoBracket EXCEPT !.status = "gone", !.strategy = s]
<1>1. c.status = "gone" /\ c.strategy = s
  BY DEF NoBracket
<1>2. ASSUME NEW i \in Brackets
      PROVE  /\ brackets'[i] = IF brackets[i].strategy = s THEN c ELSE brackets[i]
             /\ scaled'[i] = IF brackets[i].strategy = s THEN 0 ELSE scaled[i]
  BY <1>2 DEF ResetPortfolio
<1> HIDE DEF c
<1>3. cash' = [cash EXCEPT ![s] = StartingCash] /\ realizedPnl' = [realizedPnl EXCEPT ![s] = 0]
  BY DEF ResetPortfolio
<1>4. StartingCash \in Int /\ MinPerOrder \in Nat
  BY SimulatorAssumption
<1>5. cash' \in [Strategies -> Int] /\ realizedPnl' \in [Strategies -> Int]
  BY <1>3, <1>4 DEF Ledger
<1>6. \A i \in Brackets : brackets'[i].status = "none" => scaled'[i] = 0
  BY <1>1, <1>2 DEF Ledger
<1>7. \A u : Of(u)' = Of(u)
  BY <1>1, <1>2 DEF Of
<1>8. ASSUME NEW u \in Strategies PROVE Balanced(u)'
  <2>1. IsFiniteSet(Of(u)) /\ Of(u) \subseteq Brackets /\ Of(u)' = Of(u)
    BY <1>7, SumsInt
  <2>2. \A i \in Of(u) : i \in Brackets /\ brackets[i].strategy = u
    BY DEF Of
  <2>3. /\ HeldBy(u)' = SumFunctionOnSet(HeldAt', Of(u))
        /\ PartsOf(u)' = SumFunctionOnSet(scaled', Of(u))
    BY <2>1 DEF HeldBy, PartsOf
  <2>4. \A i \in Brackets : HeldAt[i] = Held(brackets[i]) /\ HeldAt'[i] = Held(brackets'[i])
    BY DEF HeldAt
  <2>5. CASE u = s
    <3>1. \A i \in Of(u) : HeldAt'[i] = 0 /\ scaled'[i] = 0
      BY <1>1, <1>2, <2>2, <2>4, <2>5 DEF Held
    <3>2. HeldBy(u)' = 0 /\ PartsOf(u)' = 0
      <4>1. /\ {} \in SUBSET Of(u) /\ \A i \in Of(u) : HeldAt'[i] \in Int /\ scaled'[i] \in Int
            /\ \A i \in Of(u) \ {} : HeldAt'[i] = 0 /\ scaled'[i] = 0
        BY <3>1
      <4>2. SumFunctionOnSet(HeldAt', {}) = SumFunctionOnSet(HeldAt', Of(u))
        BY <2>1, <4>1, SumOnly
      <4>3. SumFunctionOnSet(scaled', {}) = SumFunctionOnSet(scaled', Of(u))
        BY <2>1, <4>1, SumOnly
      <4> QED BY <2>3, <4>2, <4>3, SumOfNone
    <3>3. Gap(u)' = 0
      BY <1>3, <1>4, <2>5 DEF Gap, Ledger
    <3> QED BY <1>4, <3>2, <3>3 DEF Balanced
  <2>6. CASE u # s
    <3>1. \A i \in Of(u) : HeldAt'[i] = HeldAt[i] /\ scaled'[i] = scaled[i]
      BY <1>2, <2>2, <2>4, <2>6
    <3>2. SumFunctionOnSet(HeldAt', Of(u)) = SumFunctionOnSet(HeldAt, Of(u))
      BY <2>1, <3>1, SumSame
    <3>3. SumFunctionOnSet(scaled', Of(u)) = SumFunctionOnSet(scaled, Of(u))
      BY <2>1, <3>1, SumSame
    <3>4. HeldBy(u)' = HeldBy(u) /\ PartsOf(u)' = PartsOf(u)
      BY <2>3, <3>2, <3>3 DEF HeldBy, PartsOf
    <3>5. Gap(u)' = Gap(u)
      BY <1>3, <2>6 DEF Gap, Ledger
    <3> QED BY <3>4, <3>5 DEF Balanced, Ledger
  <2> QED BY <2>5, <2>6
<1> QED BY <1>5, <1>6, <1>8 DEF Ledger

LEMMA LedgerInit == Init => Ledger
<1> SUFFICES ASSUME Init PROVE Ledger
  OBVIOUS
<1>1. \A i \in Brackets : brackets[i] = NoBracket /\ scaled[i] = 0
  BY DEF Init
<1>2. StartingCash \in Int /\ MinPerOrder \in Nat
  BY SimulatorAssumption
<1>3. cash = [s \in Strategies |-> StartingCash] /\ realizedPnl = [s \in Strategies |-> 0]
  BY DEF Init
<1>4. ASSUME NEW s \in Strategies PROVE Balanced(s)
  <2>1. Of(s) = {}
    BY <1>1, SimulatorAssumption DEF Of, NoBracket
  <2>2. HeldBy(s) = 0 /\ PartsOf(s) = 0
    BY <2>1, SumOfNone DEF HeldBy, PartsOf
  <2>3. Gap(s) = 0
    BY <1>2, <1>3 DEF Gap
  <2> QED BY <1>2, <2>2, <2>3 DEF Balanced
<1> QED BY <1>1, <1>2, <1>3, <1>4 DEF Ledger

LEMMA LedgerStep ==
  ASSUME MinPerOrder >= 1, Inv, Inv', Ledger, [Next]_vars
  PROVE  Ledger'
<1>1. ASSUME NEW t \in Tickers, NEW q \in Quotes, UpdateQuote(t, q) PROVE Ledger'
  BY <1>1, QuoteBalances
<1>2. ASSUME NEW t \in Tickers, NEW bar \in Bars, OnBar(t, bar) PROVE Ledger'
  BY <1>2, BarBalances
<1>3. ASSUME NEW s \in Strategies, NEW order \in Orders, PlaceBracket(s, order) PROVE Ledger'
  BY <1>3, PlaceBalances
<1>4. ASSUME NEW s \in Strategies, DrainClosedTrades(s) PROVE Ledger'
  BY <1>4, SameLedger DEF DrainClosedTrades
<1>5. ASSUME NEW s \in Strategies, ResetPortfolio(s) PROVE Ledger'
  BY <1>5, ResetBalances
<1>6. ASSUME NEW i \in Brackets, NEW mod \in Modifications, ModifyBracket(i, mod) PROVE Ledger'
  BY <1>6, ModifyBalances
<1>7. ASSUME NEW i \in Brackets, CancelBracket(i) PROVE Ledger'
  BY <1>7, CancelBalances
<1>8. CASE UNCHANGED vars
  BY <1>8, SameLedger DEF vars
<1> QED
  BY <1>1, <1>2, <1>3, <1>4, <1>5, <1>6, <1>7, <1>8 DEF Next

\* A flat portfolio's cash has moved by its realized profit, up to what its scale-outs
\* split: closing, cancelling and entering book to the cent whatever the prices, and each
\* scale-out may be off by a minimum commission one way and a rounded cent the other.  The
\* minimum is at least that cent, as the code's (a dollar) is.
THEOREM PortfoliosReconcile == ASSUME MinPerOrder >= 1 PROVE Spec => []Reconciles
<1>1. Inv /\ Ledger /\ [Next]_vars => (Inv /\ Ledger)'
  BY InvStep, LedgerStep DEF Kept
<1>2. Inv /\ Ledger => Reconciles
  <2> SUFFICES ASSUME Inv, Ledger, NEW s \in Strategies, Flat(s)
               PROVE  LET gap   == cash[s] - StartingCash - realizedPnl[s]
                          parts == SumFunctionOnSet(scaled, Of(s))
                      IN -parts <= gap /\ gap <= parts * MinPerOrder
    BY DEF Reconciles
  <2>1. \A i \in Of(s) : HeldAt[i] = 0
    BY SumsInt DEF Flat, Held
  <2>2. IsFiniteSet(Of(s)) /\ {} \in SUBSET Of(s)
    BY SumsInt
  <2>3. SumFunctionOnSet(HeldAt, {}) = SumFunctionOnSet(HeldAt, Of(s))
    BY <2>1, <2>2, SumOnly
  <2>4. HeldBy(s) = 0
    BY <2>3, SumOfNone DEF HeldBy
  <2>5. Balanced(s) /\ Gap(s) \in Int
    BY SimulatorAssumption DEF Ledger, Gap
  <2> QED BY <2>4, <2>5 DEF Balanced, Gap, PartsOf
<1> QED
  BY <1>1, <1>2, InvInit, LedgerInit, PTL DEF Spec

-----------------------------------------------------------------------------
(* Members in order: what is picked of a sequence is counted there         *)

\* A rank orders the members of a finite set of numbers from 0 on.
LEMMA RankGrows ==
  ASSUME NEW N \in SUBSET Nat, IsFiniteSet(N), NEW a \in N, NEW b \in N, a < b
  PROVE  /\ Cardinality({m \in N : m < a}) \in Nat /\ Cardinality({m \in N : m < b}) \in Nat
         /\ Cardinality({m \in N : m < a}) < Cardinality({m \in N : m < b})
<1> DEFINE A == {m \in N : m < a}
           B == {m \in N : m < b}
<1>1. IsFiniteSet(B) /\ Cardinality(B) \in Nat
  <2>1. B \in SUBSET N
    OBVIOUS
  <2> QED BY <2>1, FS_Subset, FS_CardinalityType
<1>2. A \in SUBSET B /\ a \in B /\ a \notin A
  <2>1. \A m \in N : m < a => m < b
    OBVIOUS
  <2>2. ~(a < a)
    OBVIOUS
  <2> QED BY <2>1, <2>2
<1> HIDE DEF A, B
<1>3. IsFiniteSet(A) /\ Cardinality(A) \in Nat /\ Cardinality(A) <= Cardinality(B)
  BY <1>1, <1>2, FS_Subset, FS_CardinalityType
<1>4. Cardinality(A) # Cardinality(B)
  BY <1>1, <1>2, FS_Subset
<1>5. Cardinality(A) < Cardinality(B)
  BY <1>1, <1>3, <1>4
<1> QED BY <1>1, <1>3, <1>5 DEF A, B

\* The places are the members, each once.
LEMMA AscendingIs ==
  ASSUME NEW N \in SUBSET Nat, IsFiniteSet(N)
  PROVE  /\ Cardinality(N) \in Nat
         /\ Ascending(N) \in Bijection(1..Cardinality(N), N)
<1> DEFINE k == Cardinality(N)
           below(n) == {m \in N : m < n}
           rank == [n \in N |-> Cardinality(below(n)) + 1]
<1>1. k \in Nat
  BY FS_CardinalityType
<1>2. ASSUME NEW n \in N PROVE rank[n] \in 1..k
  <2>1. below(n) \in SUBSET N /\ n \notin below(n)
    OBVIOUS
  <2> HIDE DEF below
  <2>2. /\ Cardinality(below(n)) \in Nat /\ Cardinality(below(n)) <= k
        /\ Cardinality(below(n)) # k
    BY <2>1, FS_Subset, FS_CardinalityType
  <2>3. rank[n] = Cardinality(below(n)) + 1
    OBVIOUS
  <2> QED BY <1>1, <2>2, <2>3
<1>3. ASSUME NEW a \in N, NEW b \in N, rank[a] = rank[b] PROVE a = b
  <2> SUFFICES ASSUME a # b PROVE FALSE
    OBVIOUS
  <2>1. a < b \/ b < a
    OBVIOUS
  <2>2. CASE a < b
    <3>1. /\ Cardinality(below(a)) \in Nat /\ Cardinality(below(b)) \in Nat
          /\ Cardinality(below(a)) < Cardinality(below(b))
      BY <2>2, RankGrows
    <3>2. Cardinality(below(a)) + 1 = Cardinality(below(b)) + 1
      BY <1>3
    <3> QED BY <3>1, <3>2
  <2>3. CASE b < a
    <3>1. /\ Cardinality(below(a)) \in Nat /\ Cardinality(below(b)) \in Nat
          /\ Cardinality(below(b)) < Cardinality(below(a))
      BY <2>3, RankGrows
    <3>2. Cardinality(below(a)) + 1 = Cardinality(below(b)) + 1
      BY <1>3
    <3> QED BY <3>1, <3>2
  <2> QED BY <2>1, <2>2, <2>3
<1>4. rank \in Injection(N, 1..k)
  <2>1. rank \in [N -> 1..k]
    BY <1>2
  <2> HIDE DEF rank
  <2> QED BY <1>3, <2>1 DEF Injection, IsInjective
<1>5. IsFiniteSet(1..k) /\ Cardinality(1..k) = k
  BY <1>1, FS_Interval
<1>6. rank \in Surjection(N, 1..k)
  BY <1>4, <1>5, FS_Injection DEF k
<1>7. ASSUME NEW j \in 1..k
      PROVE  Ascending(N)[j] \in N /\ rank[Ascending(N)[j]] = j
  <2>1. PICK n \in N : rank[n] = j
    <3> HIDE DEF rank
    <3> QED BY <1>6 DEF Surjection
  <2>2. j \in Nat /\ Cardinality(below(n)) \in Nat
    <3>1. below(n) \in SUBSET N
      OBVIOUS
    <3> HIDE DEF below
    <3> QED BY <1>1, <3>1, FS_Subset, FS_CardinalityType
  <2>3. Cardinality(below(n)) + 1 = j
    BY <2>1
  <2>4. Cardinality(below(n)) = j - 1
    <3> HIDE DEF below
    <3> QED BY <2>2, <2>3
  <2>5. Ascending(N)[j] = CHOOSE m \in N : Cardinality({l \in N : l < m}) = j - 1
    BY DEF Ascending
  <2>6. Ascending(N)[j] \in N /\ Cardinality(below(Ascending(N)[j])) = j - 1
    BY <2>4, <2>5
  <2>7. rank[Ascending(N)[j]] = (j - 1) + 1
    BY <2>6
  <2> HIDE DEF rank, below
  <2> QED BY <2>2, <2>6, <2>7
<1>8. Ascending(N) \in [1..k -> N]
  BY <1>7 DEF Ascending
<1>9. \A i, j \in 1..k : Ascending(N)[i] = Ascending(N)[j] => i = j
  <2> HIDE DEF rank, k
  <2> QED BY <1>7
<1>10. ASSUME NEW n \in N PROVE \E j \in 1..k : Ascending(N)[j] = n
  <2> HIDE DEF k
  <2>1. rank[n] \in 1..k
    BY <1>2
  <2> HIDE DEF rank
  <2>2. Ascending(N)[rank[n]] \in N /\ rank[Ascending(N)[rank[n]]] = rank[n]
    BY <1>7, <2>1
  <2>3. Ascending(N)[rank[n]] = n
    BY <1>3, <2>2
  <2> QED BY <2>1, <2>3
<1> HIDE DEF k, rank
<1> QED BY <1>1, <1>8, <1>9, <1>10
        DEF k, Bijection, Injection, Surjection, IsInjective

\* Along the places as many lie in a set as it has of the members.
Along(f, n, M) == {j \in 1..n : f[j] \in M}

LEMMA CountAlong ==
  ASSUME NEW N, IsFiniteSet(N), NEW n \in Nat, NEW f \in Bijection(1..n, N), NEW M \in SUBSET N
  PROVE  IsFiniteSet(Along(f, n, M)) /\ Cardinality(Along(f, n, M)) = Cardinality(M)
<1> DEFINE J == Along(f, n, M)
           g == [j \in J |-> f[j]]
<1>1. IsFiniteSet(J)
  <2>1. J \in SUBSET (1..n) /\ 1 \in Int /\ n \in Int
    BY DEF Along
  <2> HIDE DEF J
  <2> QED BY <2>1, FS_Interval, FS_Subset
<1>2. /\ f \in [1..n -> N] /\ \A a, b \in 1..n : f[a] = f[b] => a = b
      /\ \A x \in N : \E j \in 1..n : f[j] = x
  BY DEF Bijection, Injection, Surjection, IsInjective
<1>3. g \in [J -> M] /\ (\A a, b \in J : g[a] = g[b] => a = b) /\ \A x \in M : \E j \in J : g[j] = x
  BY <1>2 DEF Along
<1> HIDE DEF J, g
<1>4. g \in Bijection(J, M)
  BY <1>3 DEF Bijection, Injection, Surjection, IsInjective
<1>5. ExistsBijection(J, M)
  BY <1>4 DEF ExistsBijection
<1>6. Cardinality(J) = Cardinality(M)
  BY <1>1, <1>5, FS_Bijection
<1> QED BY <1>1, <1>6 DEF J

\* Where in a sequence a member of T stands, and how often.
Hits(q, T)  == {n \in DOMAIN q : q[n] \in T}
Count(q, T) == Cardinality(Hits(q, T))

LEMMA CountIs ==
  ASSUME NEW S, NEW q \in Seq(S), NEW T
  PROVE  IsFiniteSet(Hits(q, T)) /\ Count(q, T) \in Nat
         /\ IsFiniteSet(DOMAIN q) /\ DOMAIN q \subseteq Nat
<1>1. DOMAIN q = 1..Len(q) /\ Len(q) \in Nat
  OBVIOUS
<1>2. IsFiniteSet(DOMAIN q) /\ DOMAIN q \subseteq Nat
  BY <1>1, FS_Interval
<1>3. Hits(q, T) \in SUBSET DOMAIN q
  BY DEF Hits
<1> QED BY <1>2, <1>3, FS_Subset, FS_CardinalityType DEF Count

LEMMA CountJoin ==
  ASSUME NEW S, NEW p \in Seq(S), NEW q \in Seq(S), NEW T
  PROVE  p \o q \in Seq(S) /\ Count(p \o q, T) = Count(p, T) + Count(q, T)
<1> DEFINE m == Len(p)
           P == Hits(p, T)
           Q == Hits(q, T)
           R == {n \in DOMAIN (p \o q) : n > m /\ (p \o q)[n] \in T}
           g == [n \in Q |-> n + m]
<1>1. /\ p \o q \in Seq(S) /\ Len(p \o q) = Len(p) + Len(q) /\ m \in Nat /\ Len(q) \in Nat
      /\ DOMAIN (p \o q) = 1..(Len(p) + Len(q)) /\ DOMAIN p = 1..Len(p) /\ DOMAIN q = 1..Len(q)
      /\ \A n \in 1..(Len(p) + Len(q)) :
           (p \o q)[n] = IF n <= Len(p) THEN p[n] ELSE q[n - Len(p)]
  OBVIOUS
<1>2. IsFiniteSet(P) /\ IsFiniteSet(Q) /\ Cardinality(P) \in Nat /\ Cardinality(Q) \in Nat
  BY CountIs DEF Count
<1>3. Hits(p \o q, T) = P \cup R /\ P \cap R = {}
  BY <1>1 DEF Hits
<1>4. g \in [Q -> R] /\ (\A a, b \in Q : g[a] = g[b] => a = b) /\ \A x \in R : \E n \in Q : g[n] = x
  <2>1. ASSUME NEW n \in Q PROVE n \in Nat /\ n + m \in R
    <3>1. n \in 1..Len(q) /\ q[n] \in T
      BY <1>1 DEF Hits
    <3>2. n + m \in 1..(Len(p) + Len(q)) /\ n + m > m /\ (n + m) - Len(p) = n
      BY <1>1, <3>1
    <3> QED BY <1>1, <3>1, <3>2
  <2>2. ASSUME NEW x \in R PROVE x - m \in Q /\ (x - m) + m = x
    <3>1. x \in 1..(Len(p) + Len(q)) /\ x > m /\ (p \o q)[x] \in T
      BY <1>1
    <3>2. x - m \in 1..Len(q) /\ q[x - m] \in T /\ (x - m) + m = x
      BY <1>1, <3>1
    <3> QED BY <1>1, <3>2 DEF Hits
  <2>3. \A x \in R : g[x - m] = x
    BY <2>2
  <2>4. \A a, b \in Q : g[a] = g[b] => a = b
    BY <1>1, <2>1
  <2> QED BY <2>1, <2>2, <2>3, <2>4
<1> HIDE DEF P, Q, R, g
<1>5. g \in Bijection(Q, R)
  BY <1>4 DEF Bijection, Injection, Surjection, IsInjective
<1>6. ExistsBijection(Q, R)
  BY <1>5 DEF ExistsBijection
<1>7. IsFiniteSet(R) /\ Cardinality(R) = Cardinality(Q)
  BY <1>2, <1>6, FS_Bijection
<1>8. Cardinality(P \cup R) = Cardinality(P) + Cardinality(R) - Cardinality({})
  BY <1>2, <1>3, <1>7, FS_Union
<1>9. Cardinality(P \cup R) = Cardinality(P) + Cardinality(Q)
  BY <1>2, <1>7, <1>8, FS_EmptySet
<1> QED BY <1>1, <1>3, <1>9 DEF Count, P, Q

LEMMA CountPicked ==
  ASSUME NEW S, NEW q \in Seq(S), NEW N \in SUBSET DOMAIN q, NEW T
  PROVE  Picked(q, N) \in Seq(S) /\ Count(Picked(q, N), T) = Cardinality(Hits(q, T) \cap N)
<1> DEFINE n == Cardinality(N)
           f == Ascending(N)
           M == Hits(q, T) \cap N
<1>1. IsFiniteSet(N) /\ N \in SUBSET Nat
  BY CountIs, FS_Subset
<1>2. n \in Nat /\ f \in Bijection(1..n, N)
  BY <1>1, AscendingIs
<1>3. f \in [1..n -> N]
  BY <1>2 DEF Bijection, Injection
<1>4. Picked(q, N) = [j \in 1..n |-> q[f[j]]]
  <2> HIDE DEF f, n
  <2>1. DOMAIN f = 1..n
    BY <1>3
  <2> QED BY <2>1 DEF Picked, f
<1> HIDE DEF f, n
<1>5. \A j \in 1..n : f[j] \in DOMAIN q /\ f[j] \in N /\ q[f[j]] \in S
  BY <1>3
<1>6. Picked(q, N) \in Seq(S) /\ DOMAIN Picked(q, N) = 1..n
  <2>1. [j \in 1..n |-> q[f[j]]] \in [1..n -> S]
    BY <1>5
  <2> QED BY <1>2, <1>4, <2>1
<1>7. Hits(Picked(q, N), T) = Along(f, n, M)
  <2>1. \A j \in 1..n : Picked(q, N)[j] = q[f[j]]
    BY <1>4
  <2> QED BY <1>5, <1>6, <2>1 DEF Hits, Along
<1>8. M \in SUBSET N
  OBVIOUS
<1> HIDE DEF M
<1>9. Cardinality(Along(f, n, M)) = Cardinality(M)
  BY <1>1, <1>2, <1>8, CountAlong
<1> QED BY <1>6, <1>7, <1>9 DEF Count, M

-----------------------------------------------------------------------------
(* Every result reaches its own strategy once                              *)

Trades == [strategy : Strategies, bracket : Brackets, realizedPnl : Int]

ResultOf(i, s) == {trade \in Trades : trade.bracket = i /\ trade.strategy = s}

Times(i, s) == Count(closed, ResultOf(i, s)) + Count(drained[s], {i})

\* The buffer is typed, a used bracket has an owner, and results are delivered.
BufferTyped == closed \in Seq(Trades) /\ drained \in [Strategies -> Seq(Brackets)]
Owned       == \A i \in Brackets : brackets[i].status # "none" => brackets[i].strategy \in Strategies
Delivery    == BufferTyped /\ Owned /\ TradesDelivered

LEMMA TimesAre ==
  ASSUME BufferTyped, NEW i \in Brackets, NEW s \in Strategies
  PROVE  /\ Times(i, s) \in Nat /\ Count(closed, ResultOf(i, s)) \in Nat
         /\ Count(drained[s], {i}) \in Nat
         /\ Times(i, s) =
              Cardinality({n \in DOMAIN closed : closed[n].bracket = i /\ closed[n].strategy = s})
                + Cardinality({n \in DOMAIN drained[s] : drained[s][n] = i})
<1>1. closed \in Seq(Trades) /\ drained[s] \in Seq(Brackets)
  BY DEF BufferTyped
<1>2. Count(closed, ResultOf(i, s)) \in Nat /\ Count(drained[s], {i}) \in Nat
  BY <1>1, CountIs
<1>3. Hits(closed, ResultOf(i, s)) =
        {n \in DOMAIN closed : closed[n].bracket = i /\ closed[n].strategy = s}
  <2>1. \A n \in DOMAIN closed : closed[n] \in Trades
    BY <1>1
  <2> QED BY <2>1 DEF Hits, ResultOf
<1>4. Hits(drained[s], {i}) = {n \in DOMAIN drained[s] : drained[s][n] = i}
  BY DEF Hits
<1>5. Times(i, s) = Cardinality(Hits(closed, ResultOf(i, s))) + Cardinality(Hits(drained[s], {i}))
  BY DEF Times, Count
<1>6. Times(i, s) \in Nat
  BY <1>2 DEF Times
<1> QED BY <1>2, <1>3, <1>4, <1>5, <1>6

\* Once is delivered, of brackets and their counts.
Once(b, s, times) ==
  /\ times <= IF b.strategy = s THEN 1 ELSE 0
  /\ b.status = "closed" /\ b.strategy = s => times = 1
  /\ b.status \in {"pending", "open", "cancelled"} => times = 0

AllOnce == \A i \in Brackets, s \in Strategies : Once(brackets[i], s, Times(i, s))

LEMMA DeliveredIs == BufferTyped => (TradesDelivered <=> AllOnce)
BY TimesAre DEF TradesDelivered, Once, AllOnce

\* The brackets a step closes, and what it adds to the counts.
NowClosed == {i \in Brackets : brackets'[i].status = "closed" /\ brackets[i].status # "closed"}

LEMMA BookCounts ==
  ASSUME Inv, Inv', BufferTyped, Owned', NEW effect, Book(effect), UNCHANGED drained
  PROVE  /\ BufferTyped'
         /\ \A i \in Brackets, s \in Strategies :
              Times(i, s)' = Times(i, s) + IF i \in NowClosed /\ brackets'[i].strategy = s THEN 1 ELSE 0
<1> DEFINE J == NowClosed
           k == Cardinality(J)
           ids == Ascending(J)
           trade(i) == [strategy |-> brackets'[i].strategy, bracket |-> i,
                        realizedPnl |-> brackets'[i].realizedPnl]
           out == [n \in 1..k |-> trade(ids[n])]
<1>1. brackets' = [i \in Brackets |-> effect[i].now]
  BY DEF Book
<1>2. J \in SUBSET Brackets /\ IsFiniteSet(J) /\ J \in SUBSET Nat
  BY BracketsFinite DEF NowClosed, Brackets
<1>3. /\ k \in Nat /\ ids \in Bijection(1..k, J) /\ ids \in [1..k -> J]
  BY <1>2, AscendingIs DEF Bijection, Injection
<1>4. \A i \in J : trade(i) \in Trades
  <2>1. \A i \in J : brackets'[i] \in Bracket /\ brackets'[i].strategy \in Strategies
    BY <1>2 DEF Inv, BookTyped, Owned, NowClosed
  <2> QED BY <1>2, <2>1 DEF Trades, Bracket
<1>5. closed' = closed \o out
  <2> DEFINE just(i) == effect[i].now.status = "closed" /\ brackets[i].status # "closed"
             made(i) == [strategy |-> effect[i].now.strategy, bracket |-> i,
                         realizedPnl |-> effect[i].now.realizedPnl]
             places == Ascending({i \in Brackets : just(i)})
  <2>1. closed' = closed \o [n \in DOMAIN places |-> made(places[n])]
    BY DEF Book
  <2>2. {i \in Brackets : just(i)} = J
    BY <1>1 DEF NowClosed
  <2>3. places = ids /\ DOMAIN places = 1..k
    BY <1>3, <2>2
  <2>4. \A i \in J : made(i) = trade(i)
    BY <1>1, <1>2
  <2> HIDE DEF places, made, J, k, ids, trade
  <2>5. [n \in DOMAIN places |-> made(places[n])] = [n \in 1..k |-> trade(ids[n])]
    BY <1>3, <2>3, <2>4
  <2> QED BY <2>1, <2>5
<1> HIDE DEF J, k, ids
<1>6. \A n \in 1..k : ids[n] \in J /\ out[n] = trade(ids[n]) /\ out[n] \in Trades
  BY <1>3, <1>4
<1>7. out \in Seq(Trades) /\ DOMAIN out = 1..k
  <2>1. out \in [1..k -> Trades]
    BY <1>6
  <2> QED BY <1>3, <2>1
<1>8. closed \in Seq(Trades)
  BY DEF BufferTyped
<1>9. BufferTyped'
  <2> HIDE DEF out
  <2>1. closed \o out \in Seq(Trades)
    BY <1>7, <1>8
  <2> QED BY <1>5, <2>1 DEF BufferTyped
<1>10. ASSUME NEW i \in Brackets, NEW s \in Strategies
       PROVE  Times(i, s)' =
                Times(i, s) + IF i \in J /\ brackets'[i].strategy = s THEN 1 ELSE 0
  <2> DEFINE M == IF i \in J /\ brackets'[i].strategy = s THEN {i} ELSE {}
  <2>1. Hits(out, ResultOf(i, s)) = Along(ids, k, M)
    <3>1. \A n \in 1..k : trade(ids[n]) \in ResultOf(i, s) <=> ids[n] \in M
      <4> SUFFICES ASSUME NEW n \in 1..k PROVE trade(ids[n]) \in ResultOf(i, s) <=> ids[n] \in M
        OBVIOUS
      <4>1. trade(ids[n]) \in Trades /\ ids[n] \in J
        BY <1>4, <1>6
      <4>2. trade(ids[n]).bracket = ids[n] /\ trade(ids[n]).strategy = brackets'[ids[n]].strategy
        OBVIOUS
      <4> HIDE DEF trade
      <4> QED BY <4>1, <4>2 DEF ResultOf
    <3> HIDE DEF M, trade
    <3> QED BY <1>6, <1>7, <3>1 DEF Hits, Along
  <2>2. M \in SUBSET J
    OBVIOUS
  <2>3. Cardinality(M) = IF i \in J /\ brackets'[i].strategy = s THEN 1 ELSE 0
    BY FS_EmptySet, FS_Singleton
  <2> HIDE DEF M
  <2>4. Cardinality(Along(ids, k, M)) = Cardinality(M)
    <3>1. IsFiniteSet(J)
      BY <1>2
    <3>2. k \in Nat
      BY <1>3
    <3>3. ids \in Bijection(1..k, J)
      BY <1>3
    <3> QED BY <2>2, <3>1, <3>2, <3>3, CountAlong
  <2> HIDE DEF out
  <2>5. Count(closed \o out, ResultOf(i, s)) = Count(closed, ResultOf(i, s)) + Cardinality(M)
    <3>1. Count(closed \o out, ResultOf(i, s)) =
            Count(closed, ResultOf(i, s)) + Count(out, ResultOf(i, s))
      BY <1>7, <1>8, CountJoin
    <3> QED BY <2>1, <2>4, <3>1 DEF Count
  <2>6. Times(i, s)' = Count(closed \o out, ResultOf(i, s)) + Count(drained[s], {i})
    <3>1. ResultOf(i, s)' = ResultOf(i, s)
      BY DEF ResultOf, Trades
    <3>2. Times(i, s)' = Count(closed', ResultOf(i, s)) + Count(drained'[s], {i})
      BY DEF Times, Count, Hits, ResultOf, Trades
    <3> QED BY <1>5, <3>2
  <2>7. Count(closed, ResultOf(i, s)) \in Nat /\ Count(drained[s], {i}) \in Nat
    BY TimesAre
  <2>8. Cardinality(M) \in Nat
    BY <2>3
  <2> QED BY <2>3, <2>5, <2>6, <2>7, <2>8 DEF Times
<1> QED BY <1>9, <1>10 DEF J

CashTyped == cash \in [Strategies -> Int] /\ realizedPnl \in [Strategies -> Int]

\* What an effect keeps: the books are numbers, a bracket in use keeps its owner and one
\* that comes into use gets one.
Regular(b, e) ==
  /\ e.cash \in Int /\ e.pnl \in Int
  /\ b.status # "none" => e.now.strategy = b.strategy
  /\ b.status = "none" /\ e.now.status # "none" => e.now.strategy \in Strategies

Booked == \E effect : Book(effect) /\ \A i \in Brackets : Regular(brackets[i], effect[i])

LEMMA EffectBooked ==
  ASSUME NEW effect, Book(effect),
         \A i \in Brackets : /\ Priced(brackets[i], effect[i], 0)
                             /\ brackets[i].status = "none" => effect[i].now = brackets[i]
  PROVE  Booked
<1>1. \A i \in Brackets : Regular(brackets[i], effect[i])
  BY DEF Priced, Regular
<1> QED BY <1>1 DEF Booked

LEMMA OneBooked ==
  ASSUME Inv, NEW i \in Brackets, NEW e, BookOne(i, e), Regular(brackets[i], e)
  PROVE  Booked
<1> DEFINE effect == [[j \in Brackets |-> Still(brackets[j])] EXCEPT ![i] = e]
<1>1. \A j \in Brackets : effect[j] = IF j = i THEN e ELSE Still(brackets[j])
  OBVIOUS
<1>2. Book(effect)
  BY DEF BookOne
<1> HIDE DEF effect
<1>3. \A j \in Brackets : Regular(brackets[j], Still(brackets[j]))
  BY DEF Regular, Still
<1>4. \A j \in Brackets : Regular(brackets[j], effect[j])
  BY <1>1, <1>3
<1> QED BY <1>2, <1>4 DEF Booked

LEMMA PlaceBooked ==
  ASSUME Inv, NEW s \in Strategies, NEW order \in Orders, PlaceBracket(s, order)
  PROVE  Booked
<1> DEFINE b == Accepted(s, order)
           quote == marks[order.ticker]
           e == IF order.entry = Market /\ quote # None THEN Opened(b, quote) ELSE Still(b)
<1>1. PICK i \in Brackets : Unused(i) /\ BookOne(i, e)
  BY DEF PlaceBracket
<1>2. b \in Bracket /\ b.status = "pending" /\ b.strategy = s
  <2>1. order \in Order
    BY SimulatorAssumption
  <2>2. /\ order.ticker \in Tickers /\ order.side \in Sides /\ order.qty \in Nat
        /\ order.stopPrice \in Nat /\ order.targetPrice \in Nat \union {None}
        /\ order.entry \in Nat \union {Market}
    BY <2>1 DEF Order
  <2> QED BY <2>2 DEF Accepted, Bracket, Statuses
<1>3. quote \in Quote \union {None}
  BY SimulatorAssumption DEF Order, Inv, BookTyped, Quote
<1>4. brackets[i].status = "none"
  BY <1>1 DEF Unused
<1> HIDE DEF b, quote
<1>5. Priced(b, e, 0)
  <2>1. CASE order.entry = Market /\ quote # None
    <3>1. e = Opened(b, quote) /\ quote \in Quote
      BY <1>3, <2>1
    <3> QED BY <1>2, <3>1, OpenedPriced
  <2>2. CASE ~(order.entry = Market /\ quote # None)
    <3>1. e = Still(b)
      BY <2>2
    <3> QED BY <1>2, <3>1, StillPriced
  <2> QED BY <2>1, <2>2
<1> HIDE DEF e
<1>6. Regular(brackets[i], e)
  BY <1>2, <1>4, <1>5 DEF Priced, Regular
<1> QED BY <1>1, <1>6, OneBooked

LEMMA ModifyBooked ==
  ASSUME Inv, NEW i \in Brackets, NEW mod \in Modifications, ModifyBracket(i, mod)
  PROVE  Booked
<1> DEFINE old == brackets[i]
           b == [old EXCEPT !.stopPrice = Given(mod.newStopPrice, @),
                            !.targetPrice = Given(mod.newTargetPrice, @)]
           reduces == mod.newQty # None /\ mod.newQty < b.qty
           sells == reduces /\ b.status = "open"
           e == CASE sells             -> ScaledOut(b, b.qty - mod.newQty, marks[b.ticker])
                  [] reduces /\ ~sells -> Still([b EXCEPT !.qty = mod.newQty])
                  [] OTHER             -> Still(b)
<1>1. /\ mod.newStopPrice \in Nat \union {None} /\ mod.newTargetPrice \in Nat \union {None}
      /\ mod.newQty \in (Nat \ {0}) \union {None}
  BY SimulatorAssumption
<1>2. old \in Bracket /\ Ready(old, marks)
  BY DEF Inv, BookTyped
<1>3. /\ b \in Bracket /\ b.status = old.status /\ b.strategy = old.strategy /\ b.ticker = old.ticker
  BY <1>1, <1>2 DEF Bracket, Given
<1>4. /\ b.status \in {"open", "pending"} /\ BookOne(i, e)
      /\ sells => marks[b.ticker] # None
  BY DEF ModifyBracket
<1>5. b.qty \in Nat
  BY <1>3 DEF Bracket
<1> HIDE DEF b, old
<1>6. e.cash \in Int /\ e.pnl \in Int /\ e.now.strategy = b.strategy
  <2>1. CASE sells
    <3> DEFINE n == b.qty - mod.newQty
               price == FillPrice(CloseAction(b.side), marks[b.ticker])
    <3>1. n \in Nat
      BY <1>1, <1>5, <2>1
    <3>2. e = ScaledOut(b, n, marks[b.ticker])
      BY <2>1
    <3>3. marks[b.ticker] \in Quote
      BY <1>2, <1>3, <1>4, <2>1 DEF Ready, Inv, BookTyped, Quote
    <3>4. price \in Int
      BY <3>3, FillPriceInt
    <3> HIDE DEF n
    <3>5. /\ ScaledOut(b, n, marks[b.ticker]).pnl = Realized(b, n, price)
          /\ ScaledOut(b, n, marks[b.ticker]).cash = CashDelta(CloseAction(b.side), n, price)
          /\ ScaledOut(b, n, marks[b.ticker]).now.strategy = b.strategy
      BY <1>3 DEF ScaledOut, PartOut, Bracket
    <3> HIDE DEF price, e
    <3> QED BY <1>3, <3>1, <3>2, <3>4, <3>5, SaleMoves
  <2>2. CASE reduces /\ ~sells
    <3>1. e = Still([b EXCEPT !.qty = mod.newQty])
      BY <2>2
    <3> QED BY <1>3, <3>1 DEF Still, Bracket
  <2>3. CASE ~reduces
    <3>1. e = Still(b)
      BY <2>3
    <3> QED BY <3>1 DEF Still
  <2> QED BY <2>1, <2>2, <2>3
<1> HIDE DEF e
<1>7. Regular(old, e)
  BY <1>3, <1>4, <1>6 DEF Regular
<1> QED BY <1>4, <1>7, OneBooked DEF old

LEMMA CancelBooked ==
  ASSUME Inv, NEW i \in Brackets, CancelBracket(i)
  PROVE  Booked
<1> DEFINE b == brackets[i]
<1>1. b \in Bracket /\ Ready(b, marks)
  BY DEF Inv, BookTyped
<1>2. CASE b.status = "pending" /\ BookOne(i, Still([b EXCEPT !.status = "cancelled"]))
  <2>1. Regular(b, Still([b EXCEPT !.status = "cancelled"]))
    BY <1>1, <1>2 DEF Regular, Still, Bracket
  <2> QED BY <1>2, <2>1, OneBooked
<1>3. CASE b.status = "open" /\ marks[b.ticker] # None /\ BookOne(i, Closed(b, marks[b.ticker]))
  <2>1. marks[b.ticker] \in Quote
    BY <1>1, <1>3 DEF Ready, Inv, BookTyped, Quote
  <2>2. Regular(b, Closed(b, marks[b.ticker]))
    BY <1>1, <1>3, <2>1, ClosedPriced DEF Priced, Regular
  <2> QED BY <1>3, <2>2, OneBooked
<1> QED BY <1>2, <1>3 DEF CancelBracket

LEMMA BookedDelivers ==
  ASSUME Inv, Kept, Delivery, CashTyped, Booked, UNCHANGED drained
  PROVE  Delivery' /\ CashTyped'
<1>1. PICK effect : Book(effect) /\ \A i \in Brackets : Regular(brackets[i], effect[i])
  BY DEF Booked
<1>2. Inv' /\ \A i \in Brackets : Evolves(brackets[i], brackets'[i])
  BY DEF Kept
<1>3. \A i \in Brackets : brackets'[i] = effect[i].now
  BY <1>1 DEF Book
<1>4. Owned'
  <2>1. \A i \in Brackets : brackets'[i].status # "none" => brackets'[i].strategy \in Strategies
    BY <1>1, <1>3 DEF Regular, Delivery, Owned
  <2> QED BY <2>1 DEF Owned
<1>5. /\ BufferTyped'
      /\ \A i \in Brackets, s \in Strategies :
           Times(i, s)' = Times(i, s) + IF i \in NowClosed /\ brackets'[i].strategy = s THEN 1 ELSE 0
  BY <1>1, <1>2, <1>4, BookCounts DEF Delivery
<1>6. ASSUME NEW i \in Brackets, NEW s \in Strategies
      PROVE  Once(brackets'[i], s, Times(i, s)')
  <2> DEFINE b == brackets[i]
             c == brackets'[i]
             n == Times(i, s)
             more == IF i \in NowClosed /\ c.strategy = s THEN 1 ELSE 0
  <2>1. Once(b, s, n) /\ n \in Nat /\ Times(i, s)' = n + more
    BY <1>5, DeliveredIs, TimesAre DEF Delivery, AllOnce
  <2>2. Evolves(b, c) /\ b.status \in Statuses
    BY <1>2 DEF Inv, BookTyped, Bracket
  <2>3. b.status # "none" => c.strategy = b.strategy
    BY <1>1, <1>3 DEF Regular
  <2>4. b.status = "none" => b.strategy = None /\ None # s
    BY SimulatorAssumption DEF Inv, Ready
  <2>5. i \in NowClosed <=> c.status = "closed" /\ b.status # "closed"
    BY DEF NowClosed
  <2> HIDE DEF b, c, n
  <2>6. CASE b.status = "none"
    <3>1. c.status \in {"none", "pending", "open"}
      BY <2>2, <2>6 DEF Evolves, Life!After
    <3>2. more = 0 /\ n = 0
      BY <2>1, <2>4, <2>5, <2>6, <3>1 DEF Once
    <3> QED BY <2>1, <3>1, <3>2 DEF Once, c
  <2>7. CASE b.status \in {"pending", "open", "cancelled"}
    <3>1. n = 0 /\ c.strategy = b.strategy
      BY <2>1, <2>3, <2>7 DEF Once
    <3>2. CASE c.status = "closed"
      BY <2>1, <2>5, <2>7, <3>1, <3>2 DEF Once, c
    <3>3. CASE c.status # "closed"
      BY <2>1, <2>5, <3>1, <3>3 DEF Once, c
    <3> QED BY <3>2, <3>3
  <2>8. CASE b.status \in {"closed", "gone"}
    <3>1. c.status \in {"closed", "gone"} /\ (c.status = "closed" => b.status = "closed")
      BY <2>2, <2>8 DEF Evolves, Life!After
    <3>2. more = 0 /\ c.strategy = b.strategy
      BY <2>3, <2>5, <2>8, <3>1
    <3> QED BY <2>1, <2>8, <3>1, <3>2 DEF Once, c
  <2> QED BY <2>2, <2>6, <2>7, <2>8 DEF Statuses
<1>7. TradesDelivered'
  <2>1. BufferTyped' /\ AllOnce'
    BY <1>5, <1>6 DEF AllOnce
  <2> QED BY <2>1, DeliveredIs, PTL
<1>8. CashTyped'
  <2> DEFINE cashes  == [i \in Brackets |-> effect[i].cash]
             profits == [i \in Brackets |-> effect[i].pnl]
             own(s)  == {i \in Brackets : effect[i].now.strategy = s}
  <2>1. /\ cash' = [s \in Strategies |-> cash[s] + SumFunctionOnSet(cashes, own(s))]
        /\ realizedPnl' = [s \in Strategies |-> realizedPnl[s] + SumFunctionOnSet(profits, own(s))]
    BY <1>1 DEF Book
  <2>2. \A i \in Brackets : cashes[i] \in Int /\ profits[i] \in Int
    BY <1>1 DEF Regular
  <2>3. ASSUME NEW s \in Strategies
        PROVE  SumFunctionOnSet(cashes, own(s)) \in Int /\ SumFunctionOnSet(profits, own(s)) \in Int
    <3>1. IsFiniteSet(own(s)) /\ \A i \in own(s) : i \in Brackets
      BY BracketsFinite
    <3> HIDE DEF own, cashes, profits
    <3> QED BY <2>2, <3>1, SumInt
  <2>4. \A s \in Strategies : cash[s] \in Int /\ realizedPnl[s] \in Int
    BY DEF CashTyped
  <2> HIDE DEF own, cashes, profits
  <2> QED BY <2>1, <2>3, <2>4 DEF CashTyped
<1> QED BY <1>4, <1>5, <1>7, <1>8 DEF Delivery

\* What is handed over moves from the buffer to the strategy; the others' results stay.
LEMMA DrainDelivers ==
  ASSUME Delivery, NEW s \in Strategies, DrainClosedTrades(s)
  PROVE  Delivery'
<1> DEFINE mine == {n \in DOMAIN closed : closed[n].strategy = s}
           left == DOMAIN closed \ mine
           out  == Picked(closed, mine)
           handed == [n \in DOMAIN out |-> out[n].bracket]
<1>1. /\ drained' = [drained EXCEPT ![s] = @ \o handed]
      /\ closed' = Picked(closed, left)
      /\ brackets' = brackets
  BY DEF DrainClosedTrades
<1>2. closed \in Seq(Trades) /\ drained \in [Strategies -> Seq(Brackets)]
  BY DEF Delivery, BufferTyped
<1>3. mine \in SUBSET DOMAIN closed /\ left \in SUBSET DOMAIN closed
  OBVIOUS
<1>4. \A n \in DOMAIN closed : closed[n] \in Trades /\ (n \in mine <=> closed[n].strategy = s)
                               /\ (n \in left <=> closed[n].strategy # s)
  BY <1>2
<1> HIDE DEF mine, left
<1>5. out \in Seq(Trades) /\ \A T : Count(out, T) = Cardinality(Hits(closed, T) \cap mine)
  BY <1>2, <1>3, CountPicked
<1>6. closed' \in Seq(Trades) /\ \A T : Count(closed', T) = Cardinality(Hits(closed, T) \cap left)
  <2> DEFINE rest == Picked(closed, left)
  <2>1. rest \in Seq(Trades) /\ \A T : Count(rest, T) = Cardinality(Hits(closed, T) \cap left)
    BY <1>2, <1>3, CountPicked
  <2> QED BY <1>1, <2>1
<1> HIDE DEF out
<1>7. /\ handed \in Seq(Brackets) /\ DOMAIN handed = DOMAIN out
      /\ \A n \in DOMAIN out : handed[n] = out[n].bracket
  <2>1. DOMAIN out = 1..Len(out) /\ Len(out) \in Nat /\ \A n \in DOMAIN out : out[n] \in Trades
    BY <1>5
  <2>2. handed \in [1..Len(out) -> Brackets]
    BY <2>1 DEF Trades
  <2> QED BY <2>1, <2>2
<1> HIDE DEF handed
<1>8. BufferTyped'
  BY <1>1, <1>2, <1>6, <1>7, CountJoin DEF BufferTyped
<1>9. ASSUME NEW i \in Brackets, NEW u \in Strategies
      PROVE  Times(i, u)' = Times(i, u)
  <2>1. Times(i, u)' = Count(closed', ResultOf(i, u)) + Count(drained'[u], {i})
    BY DEF Times, Count, Hits, ResultOf, Trades
  <2>2. Count(closed, ResultOf(i, u)) \in Nat /\ Count(drained[u], {i}) \in Nat
    BY TimesAre DEF Delivery
  <2>3. CASE u # s
    <3>1. Hits(closed, ResultOf(i, u)) \cap left = Hits(closed, ResultOf(i, u))
      BY <1>4, <2>3 DEF Hits, ResultOf
    <3>2. Count(closed', ResultOf(i, u)) = Count(closed, ResultOf(i, u))
      BY <1>6, <3>1 DEF Count
    <3>3. drained'[u] = drained[u]
      BY <1>1, <1>2, <2>3
    <3> QED BY <2>1, <3>2, <3>3 DEF Times
  <2>4. CASE u = s
    <3>1. Hits(closed, ResultOf(i, s)) \cap left = {}
      BY <1>4 DEF Hits, ResultOf
    <3>2. Count(closed', ResultOf(i, s)) = 0
      BY <1>6, <3>1, FS_EmptySet
    <3>3. Hits(closed, ResultOf(i, s)) \cap mine = Hits(closed, ResultOf(i, s))
      BY <1>4 DEF Hits, ResultOf
    <3>4. Count(out, ResultOf(i, s)) = Count(closed, ResultOf(i, s))
      BY <1>5, <3>3 DEF Count
    <3>5. Hits(handed, {i}) = Hits(out, ResultOf(i, s))
      <4>1. \A n \in DOMAIN out : out[n] \in Trades /\ out[n].strategy = s
        <5>1. Count(out, {trade \in Trades : trade.strategy # s}) = 0
          <6> DEFINE T == {trade \in Trades : trade.strategy # s}
          <6>1. Hits(closed, T) \cap mine = {}
            BY <1>4 DEF Hits
          <6> HIDE DEF T
          <6>2. Count(out, T) = 0
            BY <1>5, <6>1, FS_EmptySet
          <6> QED BY <6>2 DEF T
        <5>2. IsFiniteSet(Hits(out, {trade \in Trades : trade.strategy # s}))
          BY <1>5, CountIs
        <5>3. Hits(out, {trade \in Trades : trade.strategy # s}) = {}
          BY <5>1, <5>2, FS_EmptySet DEF Count
        <5> QED BY <1>5, <5>3 DEF Hits
      <4> QED BY <1>7, <4>1 DEF Hits, ResultOf
    <3>6. drained'[s] = drained[s] \o handed /\ drained[s] \in Seq(Brackets)
      BY <1>1, <1>2
    <3>7. Count(drained'[s], {i}) = Count(drained[s], {i}) + Count(handed, {i})
      BY <1>7, <3>6, CountJoin
    <3>8. Count(handed, {i}) = Count(closed, ResultOf(i, s))
      BY <3>4, <3>5 DEF Count
    <3> QED BY <2>1, <2>2, <2>4, <3>2, <3>7, <3>8 DEF Times
  <2> QED BY <2>3, <2>4
<1>10. \A i \in Brackets, u \in Strategies : Once(brackets'[i], u, Times(i, u)')
  BY <1>1, <1>9, DeliveredIs DEF Delivery, AllOnce
<1>11. TradesDelivered'
  <2>1. BufferTyped' /\ AllOnce'
    BY <1>8, <1>10 DEF AllOnce
  <2> QED BY <2>1, DeliveredIs, PTL
<1> QED BY <1>1, <1>8, <1>11 DEF Delivery, Owned

LEMMA ResetDelivers ==
  ASSUME Inv, Delivery, CashTyped, NEW s \in Strategies, ResetPortfolio(s)
  PROVE  Delivery' /\ CashTyped'
<1> DEFINE c == [NoBracket EXCEPT !.status = "gone", !.strategy = s]
<1>1. c.status = "gone" /\ c.strategy = s
  BY DEF NoBracket
<1>2. \A i \in Brackets : brackets'[i] = IF brackets[i].strategy = s THEN c ELSE brackets[i]
  BY DEF ResetPortfolio
<1> HIDE DEF c
<1>3. UNCHANGED <<closed, drained>>
  BY DEF ResetPortfolio
<1>4. BufferTyped' /\ Owned'
  BY <1>1, <1>2, <1>3 DEF Delivery, BufferTyped, Owned
<1>5. ASSUME NEW i \in Brackets, NEW u \in Strategies PROVE Once(brackets'[i], u, Times(i, u)')
  <2>1. Times(i, u)' = Times(i, u)
    BY <1>3 DEF Times, Count, Hits, ResultOf, Trades
  <2>2. Once(brackets[i], u, Times(i, u))
    BY DeliveredIs DEF Delivery, AllOnce
  <2> QED BY <1>1, <1>2, <2>1, <2>2 DEF Once
<1>6. TradesDelivered'
  <2>1. BufferTyped' /\ AllOnce'
    BY <1>4, <1>5 DEF AllOnce
  <2> QED BY <2>1, DeliveredIs, PTL
<1>7. CashTyped'
  BY SimulatorAssumption DEF ResetPortfolio, CashTyped
<1> QED BY <1>4, <1>6, <1>7 DEF Delivery

LEMMA SameDelivery ==
  ASSUME Delivery, UNCHANGED <<brackets, closed, drained>>
  PROVE  Delivery'
BY DEF Delivery, BufferTyped, Owned, TradesDelivered

LEMMA DeliveryInit == Init => Delivery /\ CashTyped
<1> SUFFICES ASSUME Init PROVE Delivery /\ CashTyped
  OBVIOUS
<1>1. \A i \in Brackets : brackets[i] = NoBracket
  BY DEF Init
<1>2. closed = <<>> /\ drained = [s \in Strategies |-> <<>>]
  BY DEF Init
<1>3. BufferTyped
  BY <1>2 DEF BufferTyped
<1>4. Owned
  BY <1>1 DEF Owned, NoBracket
<1>5. ASSUME NEW i \in Brackets, NEW s \in Strategies PROVE Once(brackets[i], s, Times(i, s))
  <2>1. Hits(closed, ResultOf(i, s)) = {} /\ Hits(drained[s], {i}) = {}
    BY <1>2 DEF Hits
  <2>2. Times(i, s) = 0
    BY <2>1, FS_EmptySet DEF Times, Count
  <2> QED BY <1>1, <2>2 DEF Once, NoBracket
<1>6. TradesDelivered
  BY <1>3, <1>5, DeliveredIs DEF AllOnce
<1>7. CashTyped
  BY SimulatorAssumption DEF Init, CashTyped
<1> QED BY <1>3, <1>4, <1>6, <1>7 DEF Delivery

LEMMA DeliveryStep ==
  ASSUME Inv, Delivery, CashTyped, [Next]_vars
  PROVE  Delivery' /\ CashTyped'
<1>1. Kept
  BY InvStep
<1>2. ASSUME Booked, UNCHANGED drained PROVE Delivery' /\ CashTyped'
  BY <1>1, <1>2, BookedDelivers
<1>3. ASSUME NEW t \in Tickers, NEW q \in Quotes, UpdateQuote(t, q) PROVE Delivery' /\ CashTyped'
  <2>1. Booked
    BY <1>3, QuoteEffect, EffectBooked
  <2> QED BY <1>2, <1>3, <2>1 DEF UpdateQuote
<1>4. ASSUME NEW t \in Tickers, NEW bar \in Bars, OnBar(t, bar) PROVE Delivery' /\ CashTyped'
  <2>1. Booked
    BY <1>4, BarEffect, EffectBooked
  <2> QED BY <1>2, <1>4, <2>1 DEF OnBar
<1>5. ASSUME NEW s \in Strategies, NEW order \in Orders, PlaceBracket(s, order)
      PROVE  Delivery' /\ CashTyped'
  <2>1. Booked
    BY <1>5, PlaceBooked
  <2> QED BY <1>2, <1>5, <2>1 DEF PlaceBracket
<1>6. ASSUME NEW s \in Strategies, DrainClosedTrades(s) PROVE Delivery' /\ CashTyped'
  BY <1>6, DrainDelivers DEF DrainClosedTrades, CashTyped
<1>7. ASSUME NEW s \in Strategies, ResetPortfolio(s) PROVE Delivery' /\ CashTyped'
  BY <1>7, ResetDelivers
<1>8. ASSUME NEW i \in Brackets, NEW mod \in Modifications, ModifyBracket(i, mod)
      PROVE  Delivery' /\ CashTyped'
  <2>1. Booked
    BY <1>8, ModifyBooked
  <2> QED BY <1>2, <1>8, <2>1 DEF ModifyBracket
<1>9. ASSUME NEW i \in Brackets, CancelBracket(i) PROVE Delivery' /\ CashTyped'
  <2>1. Booked
    BY <1>9, CancelBooked
  <2> QED BY <1>2, <1>9, <2>1 DEF CancelBracket
<1>10. CASE UNCHANGED vars
  BY <1>10, SameDelivery DEF vars, CashTyped
<1> QED
  BY <1>3, <1>4, <1>5, <1>6, <1>7, <1>8, <1>9, <1>10 DEF Next

LEMMA DeliveryAlways == Spec => [](Inv /\ Delivery /\ CashTyped)
<1>1. Inv /\ Delivery /\ CashTyped /\ [Next]_vars => (Inv /\ Delivery /\ CashTyped)'
  BY InvStep, DeliveryStep DEF Kept
<1> QED
  BY <1>1, InvInit, DeliveryInit, PTL DEF Spec

\* The result of a closed trade reaches its own strategy once, whoever drains in between:
\* picking a strategy's trades of the buffer and leaving the others loses and repeats none.
THEOREM ResultsDelivered == Spec => []TradesDelivered
<1>1. Delivery => TradesDelivered
  BY DEF Delivery
<1> QED
  BY <1>1, DeliveryAlways, PTL

\* Every variable keeps its type.
THEOREM TypeCorrect == Spec => []TypeOK
<1>1. Inv /\ Delivery /\ CashTyped => TypeOK
  BY DEF Inv, Delivery, CashTyped, BufferTyped, Trades, TypeOK
<1> QED
  BY <1>1, DeliveryAlways, PTL
=============================================================================
