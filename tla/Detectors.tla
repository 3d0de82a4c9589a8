------------------------------ MODULE Detectors ------------------------------
(***************************************************************************)
(* The pure rules of the strategy plug-ins (packages/strategies/src): what *)
(* a series of candles, oldest first, says about an entry, what a cached   *)
(* view says about an exit, and how the trading week is cut.  Prices are   *)
(* whole; a percentage is compared by cross-multiplication.                *)
(***************************************************************************)
EXTENDS Integers, Sequences, FiniteSets, FiniteSetsExt

CONSTANT Windows   \* the detectors' look-backs, in bars

\* The average a hype position is held to reaches no further back than the highs its entry
\* broke (5 and 20 bars).
ASSUME WindowsAssumption ==
  /\ Windows \in [{"opening", "wait", "volume", "resistance", "trail", "ma", "week", "stall",
                   "sma"} -> Nat \ {0}]
  /\ Windows.ma <= Windows.trail + 1

Latest(c) == c[Len(c)]

\* The n bars before the latest, and the n bars that end with it; fewer if there are.
Before(c, n)   == SubSeq(c, Max({1, Len(c) - n}), Len(c) - 1)
LastBars(c, n) == SubSeq(c, Max({1, Len(c) - n + 1}), Len(c))

Lows(c)     == {c[i].low  : i \in DOMAIN c}
Highs(c)    == {c[i].high : i \in DOMAIN c}
VolumeOf(c) == SumFunctionOnSet([i \in DOMAIN c |-> c[i].volume], DOMAIN c)
ClosesOf(c) == SumFunctionOnSet([i \in DOMAIN c |-> c[i].close], DOMAIN c)

\* price is at least pct percent above base.
UpBy(price, base, pct) == 100 * (price - base) >= pct * base

-----------------------------------------------------------------------------
(* Snapback and squeeze scalp: candles of five minutes                     *)

\* detectSnapbackReclaim.  Nothing in it asks where the session began.
Reclaims(c, now, wait) ==
  /\ c # <<>> /\ now - c[1].at >= wait
  /\ LET opening == SelectSeq(c, LAMBDA b : b.at < c[1].at + Windows.opening)
         dayLow  == Min(Lows(c))
         lowAt   == Min({i \in DOMAIN c : c[i].low = dayLow})
         after   == SubSeq(c, lowAt + 1, Len(c))
         prior   == Before(c, Windows.volume)
     IN /\ after # <<>> /\ Min(Lows(after)) > dayLow
        /\ Latest(c).close > Min(Lows(opening))
        /\ VolumeOf(prior) > 0 /\ Latest(c).volume * Len(prior) > VolumeOf(prior)

\* The plan of a snapback, in cents: the target fills half of the gap.
SnapbackPlan(c, priorClose) ==
  LET entry == 100 * Latest(c).close
  IN [entry |-> entry, stop |-> 99 * Min(Lows(c)),
      target |-> (entry + 100 * priorClose + 1) \div 2]

\* detectSqueezeBreakout: not a name that is up 30% from the first bar's open.
BreaksOut(c) ==
  /\ Len(c) >= 2
  /\ ~UpBy(Latest(c).close, c[1].open, 30)
  /\ LET prior == Before(c, Windows.resistance)
     IN /\ Latest(c).close > Max(Highs(prior))
        /\ VolumeOf(prior) > 0
        /\ 2 * Latest(c).volume * Len(prior) >= 3 * VolumeOf(prior)

\* Mutant: the first rung does not look at what is left.
LadderAnySize(entry, entryQty, remaining, price) ==
  IF UpBy(100 * price, entry, 10) THEN "close"
  ELSE IF UpBy(100 * price, entry, 5) /\ entryQty \div 2 \in 1..(remaining - 1)
  THEN "scale-out" ELSE "hold"

\* planScaleOut, of an entry in cents: half of entryQty at 5%, the rest at 10%.
Ladder(entry, entryQty, remaining, price) ==
  IF UpBy(100 * price, entry, 10) THEN "close"
  ELSE IF /\ UpBy(100 * price, entry, 5) /\ remaining >= entryQty
          /\ entryQty \div 2 \in 1..(remaining - 1)
  THEN "scale-out" ELSE "hold"

-----------------------------------------------------------------------------
(* Hype momentum: candles of a day                                         *)

\* Mutant: a red day breaks out too.
SpikesAnyDay(c) ==
  LET prior == Before(c, Windows.trail)
  IN /\ Len(c) > Windows.trail
     /\ VolumeOf(prior) > 0
     /\ Latest(c).close > Max(Highs(prior))
     /\ 2 * Latest(c).volume * Windows.trail >= 5 * VolumeOf(prior)

\* detectHypeSpike.
Spikes(c) ==
  LET prior == Before(c, Windows.trail)
  IN /\ Len(c) > Windows.trail
     /\ VolumeOf(prior) > 0
     /\ Latest(c).close > Latest(c).open
     /\ Latest(c).close > Max(Highs(prior))
     /\ 2 * Latest(c).volume * Windows.trail >= 5 * VolumeOf(prior)

\* hypeExitDecision, by priority.  The averages in the view are sums of their windows.
HypeExit(view) ==
  LET red == view.last.close < view.last.open
  IN IF view.nextEarnings \in view.asOf..view.asOf + 3 THEN "earnings"
     ELSE IF red /\ 2 * view.last.volume * Windows.trail >= 3 * view.volumes THEN "stall"
     ELSE IF red /\ view.last.high < view.priorHigh THEN "lower high"
     ELSE IF view.last.close * Windows.ma < view.closes THEN "below average"
     ELSE "hold"

-----------------------------------------------------------------------------
(* Friday-Monday flow: the trading week; day 0 is a Monday                 *)

Weekday(d) == d % 7
WeekKey(d) == d \div 7

IsTradingDay(d, holidays) == Weekday(d) < 5 /\ d \notin holidays

\* Each looks at most eleven days away.
NextTradingDay(d, holidays) ==
  Min({d + 11} \union {e \in d + 1..d + 10 : IsTradingDay(e, holidays)})
PrevTradingDay(d, holidays) ==
  Max({d - 11} \union {e \in d - 10..d - 1 : IsTradingDay(e, holidays)})

\* Mutant: the week closes on Friday.
ClosesOnFriday(d, holidays) == IsTradingDay(d, holidays) /\ Weekday(d) = 4

IsWeekCloseSession(d, holidays) ==
  IsTradingDay(d, holidays) /\ WeekKey(NextTradingDay(d, holidays)) # WeekKey(d)
IsWeekOpenSession(d, holidays) ==
  IsTradingDay(d, holidays) /\ WeekKey(PrevTradingDay(d, holidays)) # WeekKey(d)

\* priorWeekClose: the close of the latest week-close session before the last bar, else 0.
PriorWeekClose(c, holidays) ==
  LET closes == {i \in 1..Len(c) - 1 : IsWeekCloseSession(c[i].at, holidays)}
  IN IF closes = {} THEN 0 ELSE c[Max(closes)].close

\* detectWeeklyHighClose: an up day that closes within 2% of the week's high.
ClosesHigh(c) ==
  LET weekHigh == Max(Highs(LastBars(c, Windows.week)))
  IN /\ Len(c) >= Windows.week
     /\ 100 * (weekHigh - Latest(c).close) <= 2 * weekHigh
     /\ Latest(c).close > Latest(c).open

\* flowExitDecision, by priority.
FlowExit(view) ==
  IF /\ view.isWeekOpen = "yes" /\ view.priorWeekClose # 0
     /\ 100 * view.last.open < 99 * view.priorWeekClose THEN "weak open"
  ELSE IF /\ view.priorWeekClose # 0
          /\ UpBy(view.last.high, view.priorWeekClose, 6) THEN "target"
  ELSE IF view.isWeekClose = "yes" THEN "week end"
  ELSE "hold"

-----------------------------------------------------------------------------
(* Earnings fade, QUAL/SPHB rotation, valuation gravity                    *)

\* The sessions after a reaction whose bounce fails under its high.
FailedBounces(c, r) ==
  {i \in r + 1..Min({r + Windows.stall, Len(c)}) :
     /\ c[i].high > c[i - 1].close /\ c[i].high > c[r].close
     /\ c[i].high < c[r].high /\ c[i].close < c[i].open}

\* detectPostEarningsStall: the first failed bounce after a reaction of -5%, in a set that
\* is empty when there is none.
Stall(c, report) ==
  LET since == {i \in DOMAIN c : c[i].at >= report}
  IN {[postEarningsHigh |-> c[r].high, stallClose |-> c[Min(FailedBounces(c, r))].close] :
        r \in {r \in since : /\ r = Min(since) /\ r > 1 /\ FailedBounces(c, r) # {}
                            /\ 100 * (c[r - 1].close - c[r].close) >= 5 * c[r - 1].close}}

\* ratioView: bars of the two names at one time have a ratio, others none.  The average
\* is the sum of its window; no view before it is full.
RatioView(c) ==
  LET paired    == {i \in DOMAIN c : c[i].ratio # 0}
      earlier   == paired \ {Max(paired)}
      window(P) == {i \in P : Cardinality({j \in P : j > i}) < Windows.sma}
      ratios    == [i \in DOMAIN c |-> c[i].ratio]
      full(P)   == Cardinality(P) >= Windows.sma
  IN IF ~full(paired) THEN {}
     ELSE {[ratio |-> ratios[Max(paired)], sum |-> SumFunctionOnSet(ratios, window(paired)),
            prevRatio |-> IF full(earlier) THEN ratios[Max(earlier)] ELSE 0,
            prevSum   |-> IF full(earlier) THEN SumFunctionOnSet(ratios, window(earlier)) ELSE 0]}

\* A fresh cross of the band 5% above the average, and the return to the average.
CrossedUp(v) ==
  /\ 100 * v.ratio * Windows.sma >= 105 * v.sum
  /\ v.prevSum # 0 /\ 100 * v.prevRatio * Windows.sma < 105 * v.prevSum
Reverted(v) == v.ratio * Windows.sma <= v.sum

\* buildJournalEntries: the names that reported in the last fourteen days.
JournalOwed(day, reports) == {e.ticker : e \in {x \in reports : day - x.day \in 0..14}}
=============================================================================
