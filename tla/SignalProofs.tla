---------------------------- MODULE SignalProofs ----------------------------
(***************************************************************************)
(* Proofs about what becomes a trade. Plugins: for any candles, calendar   *)
(* and sizes every order is planned in order, the ladder banks whole lots  *)
(* only, and no position outstays its time, but a squeeze's. Screening: a  *)
(* signal passes only on a verdict to proceed said in time, and a long one *)
(* only if at some moment since it the last research stored did not name   *)
(* its ticker.                                                             *)
(***************************************************************************)
EXTENDS Plugins, Screening, Sums, SequenceTheorems

-----------------------------------------------------------------------------
(* Least and greatest of what a series holds                               *)

\* A series of candles has a highest one.
LEMMA Bounded ==
  ASSUME NEW n \in Nat, NEW h \in [1..n -> Nat]
  PROVE  \E m \in Nat : \A i \in 1..n : h[i] <= m
<1> DEFINE Unbounded == {k \in Nat : k <= n /\ ~\E m \in Nat : \A i \in 1..k : h[i] <= m}
<1> SUFFICES ASSUME Unbounded # {} PROVE FALSE
  <2>1. n \notin Unbounded => \E m \in Nat : \A i \in 1..n : h[i] <= m
    OBVIOUS
  <2> HIDE DEF Unbounded
  <2> QED BY <2>1
<1>1. PICK k \in Unbounded : \A j \in Unbounded : k <= j
  <2>1. Unbounded \subseteq Nat
    OBVIOUS
  <2> HIDE DEF Unbounded
  <2> QED BY <2>1, LeastOf
<1>2. k \in Nat /\ k <= n /\ ~\E m \in Nat : \A i \in 1..k : h[i] <= m
  OBVIOUS
<1>5. \A j \in Nat : j <= n /\ j < k => \E m \in Nat : \A i \in 1..j : h[i] <= m
  <2> SUFFICES ASSUME NEW j \in Nat, j <= n, j < k, j \in Unbounded PROVE FALSE
    OBVIOUS
  <2> HIDE DEF Unbounded
  <2> QED BY <1>1, <1>2
<1> HIDE DEF Unbounded
<1>3. CASE k = 0
  BY <1>2, <1>3
<1>4. CASE k # 0
  <2>1. k \in Nat /\ k - 1 \in Nat /\ k - 1 <= n /\ k - 1 < k /\ k \in 1..n
    BY <1>2, <1>4
  <2>2. PICK m \in Nat : \A i \in 1..(k - 1) : h[i] <= m
    BY <1>5, <2>1
  <2>3. h[k] \in Nat
    BY <2>1
  <2>4. \A i \in 1..k : h[i] <= m + h[k]
    <3> SUFFICES ASSUME NEW i \in 1..k PROVE h[i] <= m + h[k]
      OBVIOUS
    <3>1. CASE i = k
      BY <2>3, <3>1
    <3>2. CASE i # k
      <4>1. i \in 1..(k - 1) /\ h[i] \in Nat
        BY <2>1, <3>2
      <4> QED BY <2>2, <2>3, <4>1
    <3> QED BY <3>1, <3>2
  <2>5. m + h[k] \in Nat
    BY <2>3
  <2> QED BY <1>2, <2>4, <2>5
<1> QED BY <1>3, <1>4

-----------------------------------------------------------------------------
(* The series of candles                                                   *)

BarsOf(p) == IF p = "qual-sphb" THEN RatioBars ELSE OhlcBars

MarketInv ==
  /\ plugin \in PluginIds /\ clock \in Nat /\ scanAt \in Nat
  /\ series \in [Names -> Seq(BarsOf(plugin))]

LEMMA LastBarsTyped ==
  ASSUME NEW B, NEW c \in Seq(B), NEW n \in Nat \ {0}
  PROVE  /\ LastBars(c, n) \in Seq(B)
         /\ c # <<>> => /\ LastBars(c, n) # <<>>
                        /\ LastBars(c, n)[Len(LastBars(c, n))] = c[Len(c)]
<1>1. PICK f \in {1, Len(c) - n + 1} : f = Max({1, Len(c) - n + 1}) /\ f >= 1
  <2>1. \E x \in {1, Len(c) - n + 1} : \A y \in {1, Len(c) - n + 1} : x >= y
    OBVIOUS
  <2>2. /\ Max({1, Len(c) - n + 1}) \in {1, Len(c) - n + 1}
        /\ \A y \in {1, Len(c) - n + 1} : Max({1, Len(c) - n + 1}) >= y
    BY <2>1 DEF Max
  <2> QED BY <2>2
<1>2. f \in Nat /\ f >= 1 /\ LastBars(c, n) = SubSeq(c, f, Len(c)) /\ (c # <<>> => f <= Len(c))
  BY <1>1 DEF LastBars
<1>3. SubSeq(c, f, Len(c)) \in Seq(B)
  BY <1>2
<1>4. ASSUME c # <<>>
      PROVE  /\ SubSeq(c, f, Len(c)) # <<>> /\ Len(SubSeq(c, f, Len(c))) = Len(c) - f + 1
             /\ SubSeq(c, f, Len(c))[Len(c) - f + 1] = c[Len(c)]
  <2>1. f \in 1..Len(c) + 1 /\ Len(c) \in 0..Len(c) /\ f <= Len(c) /\ Len(c) \in Nat
    BY <1>2, <1>4
  <2>2. /\ Len(SubSeq(c, f, Len(c))) = Len(c) - f + 1
        /\ \A i \in 1..(Len(c) - f + 1) : SubSeq(c, f, Len(c))[i] = c[f + i - 1]
    BY <2>1, SubSeqProperties
  <2>3. Len(c) - f + 1 \in 1..(Len(c) - f + 1) /\ f + (Len(c) - f + 1) - 1 = Len(c)
    BY <1>2, <2>1
  <2>4. SubSeq(c, f, Len(c))[Len(c) - f + 1] = c[f + (Len(c) - f + 1) - 1]
    BY <2>2, <2>3
  <2> QED BY <2>1, <2>2, <2>3, <2>4
<1> QED BY <1>2, <1>3, <1>4

LEMMA LatestIs ==
  ASSUME NEW B, NEW c \in Seq(B), c # <<>>
  PROVE  Latest(c) \in B /\ Len(c) \in DOMAIN c
  BY DEF Latest

-----------------------------------------------------------------------------
(* What is drafted                                                         *)

DraftShape == [side : {"long", "short", "none"}, entry : Int, stop : Int, target : Int, view : {"entry's", "older"}]

\* What PlanIsOrdered asks of one draft.
Ordered(o) ==
  \/ /\ o.side = "long" /\ o.stop < o.entry
     /\ o.target = 0 \/ o.target > o.entry \/ (plugin = "snapback" /\ o.entry >= 100 * PriorClose)
  \/ o.side = "short" /\ o.stop > o.entry /\ o.target < o.entry

LEMMA DraftedShape ==
  ASSUME NEW side \in {"long", "short", "none"}, NEW entry \in Int, NEW stop \in Int, NEW target \in Int,
         NEW d \in Drafted(side, entry, stop, target)
  PROVE  d \in DraftShape /\ d.side = side /\ d.entry = entry /\ d.stop = stop /\ d.target = target
<1>1. d = [side |-> side, entry |-> entry, stop |-> stop, target |-> target, view |-> "entry's"]
  BY DEF Drafted
<1> QED BY <1>1 DEF DraftShape

LEMMA OhlcOf ==
  ASSUME NEW b \in OhlcBars
  PROVE  /\ b.low \in Nat /\ b.close \in Nat /\ b.high \in Nat /\ b.close >= 1
         /\ b.low <= b.close /\ b.close <= b.high
  BY DEF OhlcBars

LEMMA LowestOf ==
  ASSUME NEW c \in Seq(OhlcBars), c # <<>>
  PROVE  Min(Lows(c)) \in Nat /\ Min(Lows(c)) <= Latest(c).close
<1>1. Latest(c) \in OhlcBars /\ Len(c) \in DOMAIN c
  BY LatestIs
<1>2. Lows(c) \subseteq Nat /\ Latest(c).low \in Lows(c)
  <2>1. ASSUME NEW i \in DOMAIN c PROVE c[i].low \in Nat
    BY OhlcOf
  <2> QED BY <1>1, <2>1 DEF Lows, Latest
<1>3. Min(Lows(c)) \in Nat /\ Min(Lows(c)) <= Latest(c).low
  BY <1>2, LeastOf
<1> QED BY <1>1, <1>3, OhlcOf

LEMMA HighestOf ==
  ASSUME NEW c \in Seq(OhlcBars), c # <<>>
  PROVE  /\ Max(Highs(c)) \in Nat /\ Max(Highs(c)) >= Latest(c).high
         /\ \A i \in DOMAIN c : c[i].high <= Max(Highs(c))
<1>1. Latest(c) \in OhlcBars /\ Len(c) \in DOMAIN c /\ DOMAIN c = 1..Len(c) /\ Len(c) \in Nat
  BY LatestIs
<1>2. \A i \in 1..Len(c) : c[i].high \in Nat
  BY OhlcOf
<1>3. PICK h \in [1..Len(c) -> Nat] : \A i \in 1..Len(c) : h[i] = c[i].high
  <2>1. [i \in 1..Len(c) |-> c[i].high] \in [1..Len(c) -> Nat]
    BY <1>2
  <2> QED BY <2>1
<1>4. PICK m \in Nat : \A i \in 1..Len(c) : h[i] <= m
  BY <1>1, Bounded
<1>5. Highs(c) \subseteq Nat /\ Latest(c).high \in Highs(c) /\ \A x \in Highs(c) : x <= m
  BY <1>1, <1>2, <1>3, <1>4 DEF Highs, Latest
<1>6. Max(Highs(c)) \in Highs(c) /\ \A y \in Highs(c) : y <= Max(Highs(c))
  BY <1>5, GreatestOf
<1>7. \A i \in DOMAIN c : c[i].high \in Highs(c)
  BY DEF Highs
<1> QED BY <1>5, <1>6, <1>7

LEMMA SnapbackOrdered ==
  ASSUME NEW c \in Seq(OhlcBars), NEW d \in SnapbackDraft(c), plugin = "snapback"
  PROVE  d \in DraftShape /\ Ordered(d)
<1>1. c # <<>> /\ d \in Drafted("long", SnapbackPlan(c, PriorClose).entry, SnapbackPlan(c, PriorClose).stop,
                                SnapbackPlan(c, PriorClose).target)
  BY DEF SnapbackDraft, Reclaims
<1>2. PICK close \in Nat, low \in Nat : close = Latest(c).close /\ low = Min(Lows(c)) /\ low <= close /\ close >= 1
  <2>1. Latest(c) \in OhlcBars
    BY <1>1, LatestIs
  <2> QED BY <1>1, <2>1, LowestOf, OhlcOf
<1>3. /\ SnapbackPlan(c, PriorClose).entry = 100 * close /\ SnapbackPlan(c, PriorClose).stop = 99 * low
      /\ SnapbackPlan(c, PriorClose).target = (100 * close + 100 * PriorClose + 1) \div 2
  BY <1>2 DEF SnapbackPlan
<1>4. PriorClose \in Nat
  BY MarketAssumption
<1>8. PICK target \in Int : target = (100 * close + 100 * PriorClose + 1) \div 2
  BY <1>4
<1>9. d \in Drafted("long", 100 * close, 99 * low, target) /\ 100 * close \in Int /\ 99 * low \in Int
  BY <1>1, <1>3, <1>8
<1>5. d \in DraftShape /\ d.side = "long" /\ d.entry = 100 * close /\ d.stop = 99 * low /\ d.target = target
  BY <1>9, DraftedShape
<1>6. 99 * low < 100 * close
  BY <1>2
<1>7. target > 100 * close \/ 100 * close >= 100 * PriorClose
  BY <1>4, <1>8
<1> QED BY <1>5, <1>6, <1>7 DEF Ordered

LEMMA LongOrdered ==
  ASSUME NEW close \in Nat, close >= 1, NEW d,
         \/ d \in Drafted("long", 100 * close, 97 * close, 110 * close)
         \/ d \in Drafted("long", 100 * close, 92 * close, 115 * close)
         \/ d \in Drafted("long", 100 * close, 92 * close, 0)
  PROVE  d \in DraftShape /\ Ordered(d)
<1>1. /\ 100 * close \in Int /\ 97 * close \in Int /\ 110 * close \in Int /\ 92 * close \in Int /\ 115 * close \in Int
      /\ 97 * close < 100 * close /\ 92 * close < 100 * close
      /\ 110 * close > 100 * close /\ 115 * close > 100 * close
  OBVIOUS
<1>2. CASE d \in Drafted("long", 100 * close, 97 * close, 110 * close)
  BY <1>1, <1>2, DraftedShape DEF Ordered
<1>3. CASE d \in Drafted("long", 100 * close, 92 * close, 115 * close)
  BY <1>1, <1>3, DraftedShape DEF Ordered
<1>4. CASE d \in Drafted("long", 100 * close, 92 * close, 0)
  BY <1>1, <1>4, DraftedShape DEF Ordered
<1> QED BY <1>2, <1>3, <1>4

LEMMA FlowOrdered ==
  ASSUME NEW c \in Seq(OhlcBars), NEW d \in FlowDraft(c)
  PROVE  d \in DraftShape /\ Ordered(d)
<1>1. c # <<>> /\ ClosesHigh(c)
      /\ d \in Drafted("long", (1001 * Latest(c).high + 5) \div 10, 96 * Latest(c).close, 106 * Latest(c).close)
  BY DEF FlowDraft
<1>2. PICK close \in Nat, high \in Nat : close = Latest(c).close /\ high = Latest(c).high /\ close <= high /\ close >= 1
  <2>1. Latest(c) \in OhlcBars
    BY <1>1, LatestIs
  <2> QED BY <2>1, OhlcOf
<1>3. PICK top \in Nat : top >= high /\ 100 * (top - close) <= 2 * top
  <2>1. Windows.week \in Nat \ {0}
    BY WindowsAssumption
  <2>2. LastBars(c, Windows.week) \in Seq(OhlcBars) /\ LastBars(c, Windows.week) # <<>>
        /\ Latest(LastBars(c, Windows.week)) = Latest(c)
    BY <1>1, <2>1, LastBarsTyped DEF Latest
  <2>3. Max(Highs(LastBars(c, Windows.week))) \in Nat /\ Max(Highs(LastBars(c, Windows.week))) >= high
    BY <1>2, <2>2, HighestOf
  <2>4. 100 * (Max(Highs(LastBars(c, Windows.week))) - close) <= 2 * Max(Highs(LastBars(c, Windows.week)))
    BY <1>1, <1>2 DEF ClosesHigh
  <2> QED BY <2>3, <2>4
<1>4. PICK entry \in Int : entry = (1001 * high + 5) \div 10
  BY <1>2
<1>5. 96 * close < entry /\ entry < 106 * close /\ 96 * close \in Int /\ 106 * close \in Int
  <2>1. 10 * entry <= 1001 * high + 5 /\ 1001 * high + 5 < 10 * entry + 10
    BY <1>4
  <2>2. 100 * close >= 98 * top
    BY <1>3
  <2>3. 100 * close >= 98 * high /\ close <= high /\ close >= 1
    BY <1>2, <1>3, <2>2
  <2>4. 1060 * close > 1001 * high + 5
    BY <2>3
  <2>5. 960 * close < 1001 * high - 5
    BY <2>3
  <2>6. 10 * (106 * close) > 10 * entry /\ 10 * (96 * close) < 10 * entry
    BY <2>1, <2>4, <2>5
  <2> QED BY <2>6
<1>6. d \in Drafted("long", entry, 96 * close, 106 * close)
  BY <1>1, <1>2, <1>4
<1> QED BY <1>4, <1>5, <1>6, DraftedShape DEF Ordered

LEMMA FadeOrdered ==
  ASSUME NEW c \in Seq(OhlcBars), NEW t, NEW d \in FadeDraft(t, c)
  PROVE  d \in DraftShape /\ Ordered(d)
<1>1. PICK x \in Stalls(t, c) :
        d \in Drafted("short", 100 * x.stallClose, 101 * x.postEarningsHigh, 92 * x.stallClose)
  BY DEF FadeDraft
<1>2. PICK e \in Reports : x \in Stall(c, e.day)
  BY DEF Stalls
<1>3. PICK r \in DOMAIN c : /\ FailedBounces(c, r) # {}
                            /\ x.postEarningsHigh = c[r].high /\ x.stallClose = c[Min(FailedBounces(c, r))].close
  <2>1. \E r \in {i \in DOMAIN c : c[i].at >= e.day} :
           /\ FailedBounces(c, r) # {}
           /\ x = [postEarningsHigh |-> c[r].high, stallClose |-> c[Min(FailedBounces(c, r))].close]
    BY <1>2 DEF Stall
  <2> QED BY <2>1
<1>4. r \in Nat /\ r >= 1 /\ Len(c) \in Nat /\ Windows.stall \in Nat
  BY WindowsAssumption
<1>5. PICK last \in Nat : last = Min({r + Windows.stall, Len(c)}) /\ last <= Len(c)
  <2>1. {r + Windows.stall, Len(c)} \subseteq Nat /\ {r + Windows.stall, Len(c)} # {}
    BY <1>4
  <2>2. Min({r + Windows.stall, Len(c)}) \in Nat /\ Min({r + Windows.stall, Len(c)}) <= Len(c)
    BY <2>1, LeastOf
  <2> QED BY <2>2
<1>6. FailedBounces(c, r) \subseteq Nat
  BY <1>4, <1>5 DEF FailedBounces
<1>7. PICK i \in FailedBounces(c, r) : i = Min(FailedBounces(c, r))
  BY <1>3, <1>6, LeastOf
<1>8. i \in DOMAIN c /\ c[i].high < c[r].high
  <2>1. i \in r + 1..last /\ c[i].high < c[r].high
    BY <1>5, <1>7 DEF FailedBounces
  <2> QED BY <1>4, <1>5, <2>1
<1>9. PICK close \in Nat, high \in Nat : /\ x.stallClose = close /\ x.postEarningsHigh = high
                                         /\ close < high /\ close >= 1
  <2>1. c[i] \in OhlcBars /\ c[r] \in OhlcBars
    BY <1>8
  <2>2. /\ c[i].close \in Nat /\ c[i].close >= 1 /\ c[i].close <= c[i].high
        /\ c[i].high \in Nat /\ c[r].high \in Nat
    BY <2>1, OhlcOf
  <2>3. x.stallClose = c[i].close
    BY <1>3, <1>7
  <2> QED BY <1>3, <1>8, <2>2, <2>3
<1>10. d \in Drafted("short", 100 * close, 101 * high, 92 * close)
  BY <1>1, <1>9
<1>11. 100 * close \in Int /\ 101 * high \in Int /\ 92 * close \in Int
       /\ 101 * high > 100 * close /\ 92 * close < 100 * close
  BY <1>9
<1> QED BY <1>10, <1>11, DraftedShape DEF Ordered

\* Whatever candles a rule fires on, its draft is ordered, but for the journal entries.
LEMMA DraftsOrdered ==
  ASSUME MarketInv, NEW t, NEW c \in Seq(BarsOf(plugin)), NEW d \in DraftOf(t, c)
  PROVE  d \in DraftShape /\ IF plugin = "valuation-gravity" THEN d.side = "none" ELSE Ordered(d)
<1>1. plugin \in PluginIds
  BY DEF MarketInv
<1>2. plugin # "qual-sphb" => c \in Seq(OhlcBars)
  BY DEF BarsOf
<1>3. CASE plugin = "snapback"
  BY <1>2, <1>3, SnapbackOrdered DEF DraftOf
<1>4. CASE plugin = "squeeze-scalp"
  <2>1. d \in SqueezeDraft(c)
    BY <1>4 DEF DraftOf
  <2>2. c # <<>> /\ d \in Drafted("long", 100 * Latest(c).close, 97 * Latest(c).close, 110 * Latest(c).close)
    BY <2>1, <1>2, <1>4 DEF SqueezeDraft, BreaksOut
  <2>3. Latest(c).close \in Nat /\ Latest(c).close >= 1
    BY <1>2, <1>4, <2>2, LatestIs, OhlcOf
  <2> QED BY <1>4, <2>2, <2>3, LongOrdered
<1>5. CASE plugin = "hype-momentum"
  <2>1. d \in HypeDraft(c)
    BY <1>5 DEF DraftOf
  <2>2. c # <<>> /\ d \in Drafted("long", 100 * Latest(c).close, 92 * Latest(c).close, 115 * Latest(c).close)
    <3>1. Len(c) > Windows.trail /\ Windows.trail \in Nat
      BY <2>1, WindowsAssumption DEF HypeDraft, Spikes
    <3> QED BY <1>2, <1>5, <2>1, <3>1 DEF HypeDraft
  <2>3. Latest(c).close \in Nat /\ Latest(c).close >= 1
    BY <1>2, <1>5, <2>2, LatestIs, OhlcOf
  <2> QED BY <1>5, <2>2, <2>3, LongOrdered
<1>6. CASE plugin = "friday-monday"
  BY <1>2, <1>6, FlowOrdered DEF DraftOf
<1>7. CASE plugin = "earnings-fade"
  BY <1>2, <1>7, FadeOrdered DEF DraftOf
<1>8. CASE plugin = "qual-sphb"
  <2>1. d \in RotationDraft(c) /\ c \in Seq(RatioBars)
    BY <1>8 DEF DraftOf, BarsOf
  <2>2. c # <<>> /\ d \in Drafted("long", 100 * Latest(c).close, 92 * Latest(c).close, 0)
    BY <2>1 DEF RotationDraft
  <2>3. Latest(c).close \in Nat /\ Latest(c).close >= 1
    <3>1. Latest(c) \in RatioBars
      BY <2>1, <2>2, LatestIs
    <3> QED BY <3>1 DEF RatioBars
  <2> QED BY <1>8, <2>2, <2>3, LongOrdered
<1>9. CASE plugin = "valuation-gravity"
  <2>1. d \in Drafted("none", 0, 0, 0)
    BY <1>9 DEF DraftOf, GravityDraft
  <2> QED BY <1>9, <2>1, DraftedShape
<1> QED BY <1>1, <1>3, <1>4, <1>5, <1>6, <1>7, <1>8, <1>9 DEF PluginIds

-----------------------------------------------------------------------------
(* The market under any step                                               *)

LEMMA MarketBegins == PluginInit => MarketInv
<1> SUFFICES ASSUME PluginInit PROVE MarketInv
  OBVIOUS
<1>1. plugin \in PluginIds /\ clock \in Nat /\ scanAt \in Nat
  BY PluginAssumption DEF PluginInit
<1>2. series \in [Names -> Seq(BarsOf(plugin))]
  BY DEF PluginInit
<1> QED BY <1>1, <1>2 DEF MarketInv

LEMMA BarTyped ==
  ASSUME MarketInv, NEW t \in Names, NEW bar \in PluginBars[plugin], BarArrives(t, bar)
  PROVE  series' \in [Names -> Seq(BarsOf(plugin))]
<1> DEFINE B     == BarsOf(plugin)
           c     == series[t]
           older == IF c # <<>> /\ Latest(c).at = clock THEN SubSeq(c, 1, Len(c) - 1) ELSE c
           now   == [bar EXCEPT !.at = clock]
<1>1. now \in B
  <2>1. bar \in B /\ clock \in Nat
    BY MarketAssumption DEF MarketInv, BarsOf
  <2> QED BY <2>1 DEF BarsOf, OhlcBars, RatioBars
<1>2. c \in Seq(B) /\ Lookback[plugin] \in Nat \ {0}
  BY PluginAssumption DEF MarketInv
<1>3. older \in Seq(B)
  <2> HIDE DEF B, c
  <2> QED BY <1>2
<1>4. Append(older, now) \in Seq(B)
  <2> HIDE DEF older, now, B
  <2> QED BY <1>1, <1>3
<1>5. LastBars(Append(older, now), Lookback[plugin]) \in Seq(B)
  <2> HIDE DEF older, now, B
  <2> QED BY <1>2, <1>4, LastBarsTyped
<1>6. series' = [series EXCEPT ![t] = LastBars(Append(older, now), Lookback[plugin])]
  BY DEF BarArrives
<1> HIDE DEF older, now
<1> QED BY <1>5, <1>6 DEF MarketInv

LEMMA MarketStep == MarketInv /\ [PluginNext]_pluginVars => MarketInv' /\ plugin' = plugin
<1> SUFFICES ASSUME MarketInv, [PluginNext]_pluginVars PROVE MarketInv' /\ plugin' = plugin
  OBVIOUS
<1>1. ASSUME NEW t \in Names, NEW bar \in PluginBars[plugin], BarArrives(t, bar)
      PROVE  MarketInv' /\ plugin' = plugin
  BY <1>1, BarTyped DEF BarArrives, scanVars, MarketInv
<1>2. CASE Passes
  BY <1>2 DEF Passes, scanVars, MarketInv
<1>3. CASE BeginScan \/ ReadFails \/ FinishScan
  BY <1>3 DEF BeginScan, ReadFails, FinishScan, MarketInv
<1>4. ASSUME NEW t \in Names, ReadCandles(t) \/ Manage(t) PROVE MarketInv' /\ plugin' = plugin
  BY <1>4 DEF ReadCandles, Manage, scanVars, MarketInv
<1>5. ASSUME NEW t \in Names, NEW size, Fills(t, size) PROVE MarketInv' /\ plugin' = plugin
  BY <1>5 DEF Fills, scanVars, MarketInv
<1>6. CASE UNCHANGED pluginVars
  BY <1>6 DEF pluginVars, scanVars, MarketInv
<1> QED BY <1>1, <1>2, <1>3, <1>4, <1>5, <1>6 DEF PluginNext

-----------------------------------------------------------------------------
(* Drafts, orders and positions                                            *)

PositionShape == [entry : Int, size : Nat, qty : Nat, view : {"entry's", "older"}]

Tranches(p) ==
  p.qty < p.size => /\ p.qty + EntryQty \div 2 >= EntryQty
                    /\ p.size < EntryQty + EntryQty \div 2 => p.size - p.qty = EntryQty \div 2

Planned(d) == d \in DraftShape /\ Ordered(d)
Journal(d) == d \in DraftShape /\ d.side = "none"
Banked(p)  == p \in PositionShape /\ p.qty <= p.size /\ Tranches(p)

TradesInv ==
  /\ DOMAIN found = Names /\ DOMAIN orders = Names /\ DOMAIN held = Names
  /\ \A t \in Names : /\ \A d \in found[t] : IF plugin = "valuation-gravity" THEN Journal(d) ELSE Planned(d)
                      /\ \A o \in orders[t] : Planned(o)
                      /\ \A p \in held[t] : Banked(p)

LEMMA PlannedMeans ==
  ASSUME NEW o PROVE Planned(o) => LET pastTheGap == plugin = "snapback" /\ o.entry >= 100 * PriorClose
    IN \/ o.side = "long" /\ o.stop < o.entry /\ (o.target = 0 \/ o.target > o.entry \/ pastTheGap)
       \/ o.side = "short" /\ o.stop > o.entry /\ o.target < o.entry
  BY DEF Planned, Ordered

LEMMA TradesBegin == PluginInit => TradesInv
  BY DEF PluginInit, TradesInv

\* What is older is planned and banked as it was.
LEMMA AgedKeeps ==
  /\ \A xs : (\A o \in xs : Planned(o)) => \A o \in Aged(xs) : Planned(o)
  /\ \A xs : (\A p \in xs : Banked(p)) => \A p \in Aged(xs) : Banked(p)
<1>1. ASSUME NEW o, Planned(o) PROVE Planned([o EXCEPT !.view = "older"])
  <2>1. /\ [o EXCEPT !.view = "older"] \in DraftShape /\ [o EXCEPT !.view = "older"].side = o.side
        /\ [o EXCEPT !.view = "older"].entry = o.entry /\ [o EXCEPT !.view = "older"].stop = o.stop
        /\ [o EXCEPT !.view = "older"].target = o.target
    BY <1>1 DEF Planned, DraftShape
  <2> QED BY <1>1, <2>1 DEF Planned, Ordered
<1>2. ASSUME NEW p, Banked(p) PROVE Banked([p EXCEPT !.view = "older"])
  <2>1. /\ [p EXCEPT !.view = "older"] \in PositionShape
        /\ [p EXCEPT !.view = "older"].size = p.size /\ [p EXCEPT !.view = "older"].qty = p.qty
    BY <1>2 DEF Banked, PositionShape
  <2> QED BY <1>2, <2>1 DEF Banked, Tranches
<1>3. ASSUME NEW xs, NEW y \in Aged(xs) PROVE \E x \in xs : y = [x EXCEPT !.view = "older"]
  BY DEF Aged
<1>4. ASSUME NEW xs, \A o \in xs : Planned(o), NEW y \in Aged(xs) PROVE Planned(y)
  BY <1>1, <1>3, <1>4
<1>5. ASSUME NEW xs, \A o \in xs : Banked(o), NEW y \in Aged(xs) PROVE Banked(y)
  BY <1>2, <1>3, <1>5
<1> QED BY <1>4, <1>5

LEMMA BeginScanTrades == ASSUME TradesInv, BeginScan PROVE TradesInv'
<1>1. /\ \A o : Planned(o)' <=> Planned(o)
      /\ \A p : Banked(p)' <=> Banked(p)
  BY DEF BeginScan, Planned, Ordered, Banked, Tranches
<1>2. /\ found' = [t \in Names |-> {}] /\ orders' = [t \in Names |-> Aged(orders[t])]
      /\ held' = [t \in Names |-> Aged(held[t])]
  BY DEF BeginScan
<1>3. ASSUME NEW t \in Names
      PROVE  /\ found'[t] = {} /\ (\A o \in orders'[t] : Planned(o)) /\ (\A p \in held'[t] : Banked(p))
  <2>1. (\A o \in orders[t] : Planned(o)) /\ (\A p \in held[t] : Banked(p))
    BY DEF TradesInv
  <2>2. orders'[t] = Aged(orders[t]) /\ held'[t] = Aged(held[t]) /\ found'[t] = {}
    BY <1>2
  <2> QED BY <2>1, <2>2, AgedKeeps
<1> QED BY <1>1, <1>2, <1>3 DEF TradesInv

LEMMA ReadTrades == ASSUME MarketInv, TradesInv, NEW t \in Names, ReadCandles(t) PROVE TradesInv'
<1>1. /\ \A o : Planned(o)' <=> Planned(o)
      /\ \A p : Banked(p)' <=> Banked(p)
      /\ plugin' = plugin /\ orders' = orders /\ held' = held
      /\ found' = [found EXCEPT ![t] = DraftOf(t, series[t])]
  BY DEF ReadCandles, tradeVars, Planned, Ordered, Banked, Tranches
<1>2. ASSUME NEW d \in DraftOf(t, series[t])
      PROVE  IF plugin = "valuation-gravity" THEN Journal(d) ELSE Planned(d)
  <2>1. series[t] \in Seq(BarsOf(plugin))
    BY DEF MarketInv
  <2> QED BY <1>2, <2>1, DraftsOrdered DEF Journal, Planned
<1> QED BY <1>1, <1>2 DEF TradesInv, Journal

LEMMA FinishTrades == ASSUME TradesInv, FinishScan PROVE TradesInv'
<1>1. /\ \A o : Planned(o)' <=> Planned(o)
      /\ \A p : Banked(p)' <=> Banked(p)
      /\ plugin' = plugin /\ held' = held
      /\ found' = [t \in Names |-> {}]
  BY DEF FinishScan, Planned, Ordered, Banked, Tranches
<1>2. PICK passed \in SUBSET {t \in Names : \E d \in found[t] : d.side # "none"} :
        orders' = [t \in Names |-> IF t \in passed /\ held[t] = {} THEN found[t] ELSE orders[t]]
  BY DEF FinishScan
<1>3. ASSUME NEW t \in Names, NEW o \in orders'[t] PROVE Planned(o)
  <2>1. CASE o \in orders[t]
    BY <2>1 DEF TradesInv
  <2>2. CASE o \notin orders[t]
    <3>1. t \in passed /\ o \in found[t]
      BY <1>2, <1>3, <2>2
    <3>2. PICK d \in found[t] : d.side # "none"
      BY <3>1
    <3>3. plugin # "valuation-gravity"
      BY <3>2 DEF TradesInv, Journal
    <3> QED BY <3>1, <3>3 DEF TradesInv
  <2> QED BY <2>1, <2>2
<1> QED BY <1>1, <1>2, <1>3 DEF TradesInv

LEMMA FillTrades ==
  ASSUME TradesInv, NEW t \in Names, NEW size \in Nat, Fills(t, size) PROVE TradesInv'
<1>1. /\ \A o : Planned(o)' <=> Planned(o)
      /\ \A p : Banked(p)' <=> Banked(p)
      /\ plugin' = plugin /\ found' = found
      /\ orders' = [orders EXCEPT ![t] = {}]
  BY DEF Fills, scanVars, Planned, Ordered, Banked, Tranches
<1>2. PICK o \in orders[t] :
        held' = [held EXCEPT ![t] = {[entry |-> o.entry, size |-> size, qty |-> size, view |-> o.view]}]
  BY DEF Fills
<1> DEFINE p == [entry |-> o.entry, size |-> size, qty |-> size, view |-> o.view]
<1>3. Banked(p)
  <2>1. o \in DraftShape
    BY DEF TradesInv, Planned
  <2>2. p \in PositionShape /\ p.qty = p.size /\ p.size \in Nat
    BY <2>1 DEF DraftShape, PositionShape
  <2> HIDE DEF p
  <2> QED BY <2>2 DEF Banked, Tranches
<1> HIDE DEF p
<1>4. ASSUME NEW u \in Names PROVE \A q \in held'[u] : Banked(q)
  <2>1. CASE u = t
    BY <1>2, <1>3, <2>1 DEF TradesInv, p
  <2>2. CASE u # t
    BY <1>2, <2>2 DEF TradesInv
  <2> QED BY <2>1, <2>2
<1>5. DOMAIN held' = Names /\ DOMAIN orders' = Names /\ \A u \in Names : \A q \in orders'[u] : Planned(q)
  BY <1>1, <1>2 DEF TradesInv
<1>6. \A d : Journal(d)' <=> Journal(d)
  BY DEF Journal
<1> QED BY <1>1, <1>4, <1>5, <1>6 DEF TradesInv

\* Only the ladder scales out, and only of a whole lot.
LEMMA LadderGuards ==
  ASSUME MarketInv, NEW t, NEW p, Manages(t, p) = "scale-out"
  PROVE  p.qty >= EntryQty /\ EntryQty \div 2 \in 1..(p.qty - 1)
<1>1. plugin \in PluginIds
  BY DEF MarketInv
<1>2. CASE plugin = "squeeze-scalp"
  BY <1>2 DEF Manages, Ladder
<1>3. CASE plugin = "hype-momentum"
  BY <1>3 DEF Manages, HypeExit
<1>4. CASE plugin = "friday-monday"
  BY <1>4 DEF Manages, FlowExit
<1>5. CASE plugin = "qual-sphb"
  BY <1>5 DEF Manages
<1>6. CASE plugin \in {"snapback", "earnings-fade", "valuation-gravity"}
  BY <1>6 DEF Manages
<1> QED BY <1>1, <1>2, <1>3, <1>4, <1>5, <1>6 DEF PluginIds

LEMMA ManageTrades ==
  ASSUME MarketInv, TradesInv, NEW t \in Names, Manage(t) PROVE TradesInv'
<1>1. /\ \A o : Planned(o)' <=> Planned(o)
      /\ \A p : Banked(p)' <=> Banked(p)
      /\ \A d : Journal(d)' <=> Journal(d)
      /\ plugin' = plugin /\ found' = found /\ orders' = orders
  BY DEF Manage, scanVars, Planned, Ordered, Banked, Tranches, Journal
<1>2. PICK p \in held[t] :
        \/ held' = held
        \/ Manages(t, p) = "scale-out" /\ held' = [held EXCEPT ![t] = {[p EXCEPT !.qty = @ - EntryQty \div 2]}]
        \/ held' = [held EXCEPT ![t] = {}]
  BY DEF Manage
<1>3. Banked(p)
  BY DEF TradesInv
<1>4. ASSUME Manages(t, p) = "scale-out" PROVE Banked([p EXCEPT !.qty = @ - EntryQty \div 2])
  <2>1. PICK half \in Nat : half = EntryQty \div 2
    BY PluginAssumption
  <2>2. p.qty >= EntryQty /\ half \in 1..(p.qty - 1)
    BY <1>4, <2>1, LadderGuards
  <2>3. p.qty \in Nat /\ p.size \in Nat /\ p.qty <= p.size /\ EntryQty \in Nat
    BY <1>3, PluginAssumption DEF Banked, PositionShape
  <2>4. /\ [p EXCEPT !.qty = @ - half] \in PositionShape
        /\ [p EXCEPT !.qty = @ - half].size = p.size /\ [p EXCEPT !.qty = @ - half].qty = p.qty - half
    BY <1>3, <2>2, <2>3 DEF Banked, PositionShape
  <2>5. p.qty < p.size /\ p.size < EntryQty + half => p.size - p.qty = half
    BY <1>3, <2>1 DEF Banked, Tranches
  <2>6. /\ p.qty - half <= p.size /\ (p.qty - half) + half >= EntryQty
        /\ p.size < EntryQty + half => p.size - (p.qty - half) = half
    BY <2>2, <2>3, <2>5
  <2>7. Tranches([p EXCEPT !.qty = @ - half])
    BY <2>1, <2>4, <2>6 DEF Tranches
  <2> QED BY <2>1, <2>4, <2>6, <2>7 DEF Banked
<1>5. DOMAIN held' = Names /\ \A u \in Names : \A q \in held'[u] : Banked(q)
  BY <1>2, <1>4 DEF TradesInv
<1> QED BY <1>1, <1>5 DEF TradesInv

LEMMA TradesStep == MarketInv /\ TradesInv /\ [PluginNext]_pluginVars => TradesInv'
<1> SUFFICES ASSUME MarketInv, TradesInv, [PluginNext]_pluginVars PROVE TradesInv'
  OBVIOUS
<1>1. plugin' = plugin
  BY MarketStep
<1>2. ASSUME found' = found \/ found' = [t \in Names |-> {}], orders' = orders, held' = held PROVE TradesInv'
  <2>1. /\ \A o : Planned(o)' <=> Planned(o)
        /\ \A p : Banked(p)' <=> Banked(p)
        /\ \A d : Journal(d)' <=> Journal(d)
    BY <1>1 DEF Planned, Ordered, Banked, Tranches, Journal
  <2> QED BY <1>1, <1>2, <2>1 DEF TradesInv
<1>3. CASE BeginScan
  BY <1>3, BeginScanTrades
<1>4. CASE FinishScan
  BY <1>4, FinishTrades
<1>5. ASSUME NEW t \in Names, ReadCandles(t) PROVE TradesInv'
  BY <1>5, ReadTrades
<1>6. ASSUME NEW t \in Names, Manage(t) PROVE TradesInv'
  BY <1>6, ManageTrades
<1>7. ASSUME NEW t \in Names, NEW size \in IF plugin = "squeeze-scalp" THEN Sizes ELSE {EntryQty}, Fills(t, size)
      PROVE  TradesInv'
  <2>1. size \in Nat
    BY <1>7, PluginAssumption
  <2> QED BY <1>7, <2>1, FillTrades
<1>8. ASSUME NEW t \in Names, NEW bar \in PluginBars[plugin], BarArrives(t, bar) PROVE TradesInv'
  BY <1>2, <1>8 DEF BarArrives, scanVars, tradeVars
<1>9. CASE Passes \/ ReadFails
  BY <1>2, <1>9 DEF Passes, ReadFails, scanVars, tradeVars
<1>10. CASE UNCHANGED pluginVars
  BY <1>2, <1>10 DEF pluginVars, scanVars, tradeVars
<1> QED BY <1>3, <1>4, <1>5, <1>6, <1>7, <1>8, <1>9, <1>10 DEF PluginNext

\* Every order has its stop on the losing and its target on the winning side of the entry,
\* for any candles; but for a snapback that reclaimed more than its gap.
THEOREM PlansAreOrdered == PluginSpec => []PlanIsOrdered
<1>1. TradesInv => PlanIsOrdered
  BY DEF TradesInv, Planned, Ordered, PlanIsOrdered
<1> QED BY <1>1, MarketBegins, MarketStep, TradesBegin, TradesStep, PTL DEF PluginSpec

\* The ladder banks a tranche of a whole lot only, and once of a lot it was sized for.
THEOREM TranchesBanked == PluginSpec => []TrancheOnce
<1>1. TradesInv => TrancheOnce
  BY DEF TradesInv, Banked, Tranches, TrancheOnce
<1> QED BY <1>1, MarketBegins, MarketStep, TradesBegin, TradesStep, PTL DEF PluginSpec

-----------------------------------------------------------------------------
(* Types                                                                   *)

One(xs) == \A x, y \in xs : x = y

LEMMA OneCounts == ASSUME NEW xs, One(xs) PROVE Cardinality(xs) <= 1
<1>1. CASE xs = {}
  BY <1>1, FS_EmptySet
<1>2. CASE xs # {}
  <2>1. PICK x : x \in xs
    BY <1>2
  <2>2. xs = {x}
    BY <2>1 DEF One
  <2> QED BY <2>2, FS_Singleton
<1> QED BY <1>1, <1>2

\* A name that reported once stalls once at most.
LEMMA StallsOne == ASSUME NEW t, NEW c PROVE One(Stalls(t, c))
<1> SUFFICES ASSUME NEW x \in Stalls(t, c), NEW y \in Stalls(t, c) PROVE x = y
  BY DEF One
<1>1. PICK e \in Reports : e.ticker = t /\ x \in Stall(c, e.day)
  BY DEF Stalls
<1>2. PICK f \in Reports : f.ticker = t /\ y \in Stall(c, f.day)
  BY DEF Stalls
<1>3. e = f
  BY <1>1, <1>2, MarketAssumption
<1>4. y \in Stall(c, e.day)
  BY <1>2, <1>3
<1> QED BY <1>1, <1>4 DEF Stall

LEMMA RatioOne == ASSUME NEW c PROVE One(RatioView(c))
  BY DEF RatioView, One

\* A scan makes one view and one draft of a name at most.
LEMMA ViewsOne == ASSUME NEW t, NEW c PROVE One(ViewOf(t, c))
<1>1. One(SnapbackView(c)) /\ One(SqueezeView(c)) /\ One(HypeView(t, c)) /\ One(FlowView(c)) /\ One({})
  BY DEF SnapbackView, SqueezeView, HypeView, FlowView, One
<1>2. One(FadeView(t, c))
  BY StallsOne DEF FadeView, One
<1> QED BY <1>1, <1>2, RatioOne DEF ViewOf

LEMMA DraftsOne == ASSUME NEW t, NEW c PROVE One(DraftOf(t, c))
<1>1. \A side, entry, stop, target : One(Drafted(side, entry, stop, target))
  BY DEF Drafted, One
<1>2. One({})
  BY DEF One
<1>3. One(SnapbackDraft(c))
  BY <1>1, <1>2 DEF SnapbackDraft
<1>4. One(SqueezeDraft(c))
  BY <1>1, <1>2 DEF SqueezeDraft
<1>6. One(HypeDraft(c))
  BY <1>1, <1>2 DEF HypeDraft
<1>7. One(FlowDraft(c))
  BY <1>1, <1>2 DEF FlowDraft
<1>8. One(RotationDraft(c))
  BY <1>1, <1>2 DEF RotationDraft
<1>9. One(GravityDraft(t))
  BY <1>1, <1>2 DEF GravityDraft
<1>10. One(FadeDraft(t, c))
  <2> SUFFICES ASSUME NEW d \in FadeDraft(t, c), NEW f \in FadeDraft(t, c) PROVE d = f
    BY DEF One
  <2>1. PICK x \in Stalls(t, c) :
          d \in Drafted("short", 100 * x.stallClose, 101 * x.postEarningsHigh, 92 * x.stallClose)
    BY DEF FadeDraft
  <2>2. PICK y \in Stalls(t, c) :
          f \in Drafted("short", 100 * y.stallClose, 101 * y.postEarningsHigh, 92 * y.stallClose)
    BY DEF FadeDraft
  <2>3. x = y
    BY StallsOne DEF One
  <2> QED BY <2>1, <2>2, <2>3, <1>1 DEF One
<1> QED BY <1>3, <1>4, <1>6, <1>7, <1>8, <1>9, <1>10 DEF DraftOf

Singles ==
  /\ DOMAIN views = Names /\ DOMAIN found = Names /\ DOMAIN orders = Names /\ DOMAIN held = Names
  /\ \A t \in Names : One(views[t]) /\ One(found[t]) /\ One(orders[t]) /\ One(held[t])

LEMMA NoneIsOne == One({}) /\ \A x : One({x})
  BY DEF One

LEMMA AgedOne == ASSUME NEW xs, One(xs) PROVE One(Aged(xs))
  BY DEF One, Aged

LEMMA SinglesBegin == PluginInit => Singles
  BY NoneIsOne DEF PluginInit, Singles

LEMMA SinglesStep == Singles /\ [PluginNext]_pluginVars => Singles'
<1> SUFFICES ASSUME Singles, [PluginNext]_pluginVars PROVE Singles'
  OBVIOUS
<1>1. ASSUME UNCHANGED <<views, found, orders, held>> PROVE Singles'
  BY <1>1 DEF Singles
<1>2. CASE Passes
  BY <1>1, <1>2 DEF Passes, scanVars, tradeVars
<1>3. CASE BeginScan
  <2>1. /\ found' = [t \in Names |-> {}] /\ views' \in {views, [t \in Names |-> {}]}
        /\ orders' = [t \in Names |-> Aged(orders[t])] /\ held' = [t \in Names |-> Aged(held[t])]
    BY <1>3 DEF BeginScan
  <2>2. \A t \in Names : One(Aged(orders[t])) /\ One(Aged(held[t]))
    BY AgedOne DEF Singles
  <2> QED BY <2>1, <2>2, NoneIsOne DEF Singles
<1>4. CASE ReadFails
  BY <1>4, NoneIsOne DEF ReadFails, tradeVars, Singles
<1>5. CASE FinishScan
  <2>1. PICK passed \in SUBSET Names :
          orders' = [t \in Names |-> IF t \in passed /\ held[t] = {} THEN found[t] ELSE orders[t]]
    BY <1>5 DEF FinishScan
  <2>2. UNCHANGED <<views, held>> /\ found' = [t \in Names |-> {}]
    BY <1>5 DEF FinishScan
  <2> QED BY <2>1, <2>2, NoneIsOne DEF Singles
<1>6. ASSUME NEW t \in Names, ReadCandles(t) PROVE Singles'
  <2>1. /\ UNCHANGED <<orders, held>> /\ views' = [views EXCEPT ![t] = ViewOf(t, series[t])]
        /\ found' = [found EXCEPT ![t] = DraftOf(t, series[t])]
    BY <1>6 DEF ReadCandles, tradeVars
  <2> QED BY <2>1, ViewsOne, DraftsOne DEF Singles
<1>7. ASSUME NEW t \in Names, Manage(t) PROVE Singles'
  <2>1. UNCHANGED <<views, found, orders>>
    BY <1>7 DEF Manage, scanVars
  <2>2. held' = held \/ \E xs : One(xs) /\ held' = [held EXCEPT ![t] = xs]
    BY <1>7, NoneIsOne DEF Manage
  <2> QED BY <2>1, <2>2 DEF Singles
<1>8. ASSUME NEW t \in Names, NEW size, Fills(t, size) PROVE Singles'
  <2>1. UNCHANGED <<views, found>> /\ orders' = [orders EXCEPT ![t] = {}]
    BY <1>8 DEF Fills, scanVars
  <2>2. \E xs : One(xs) /\ held' = [held EXCEPT ![t] = xs]
    BY <1>8, NoneIsOne DEF Fills
  <2> QED BY <2>1, <2>2, NoneIsOne DEF Singles
<1>9. ASSUME NEW t \in Names, NEW bar, BarArrives(t, bar) PROVE Singles'
  BY <1>1, <1>9 DEF BarArrives, scanVars, tradeVars
<1>10. CASE UNCHANGED pluginVars
  BY <1>1, <1>10 DEF pluginVars, scanVars, tradeVars
<1> QED BY <1>2, <1>3, <1>4, <1>5, <1>6, <1>7, <1>8, <1>9, <1>10 DEF PluginNext

\* A series goes forward in time, and no further than the clock.
Forward(c) == \A i, j \in 1..Len(c) : i < j => c[i].at < c[j].at
UpTo(c, now) == \A i \in 1..Len(c) : c[i].at \in Nat /\ c[i].at <= now

LEMMA ForwardSlice ==
  ASSUME NEW B, NEW c \in Seq(B), NEW now \in Nat, Forward(c), UpTo(c, now),
         NEW m \in Nat \ {0}, NEW n \in 0..Len(c), m <= n + 1
  PROVE  /\ Forward(SubSeq(c, m, n)) /\ UpTo(SubSeq(c, m, n), now)
         /\ Len(SubSeq(c, m, n)) = n - m + 1
         /\ \A i \in 1..(n - m + 1) : SubSeq(c, m, n)[i] = c[m + i - 1]
<1>1. m \in 1..Len(c) + 1 /\ n \in m - 1..Len(c)
  OBVIOUS
<1>2. /\ Len(SubSeq(c, m, n)) = n - m + 1
      /\ \A i \in 1..(n - m + 1) : SubSeq(c, m, n)[i] = c[m + i - 1] /\ m + i - 1 \in 1..Len(c)
  <2>1. /\ Len(SubSeq(c, m, n)) = n - m + 1
        /\ \A i \in 1..(n - m + 1) : SubSeq(c, m, n)[i] = c[m + i - 1]
    BY <1>1, SubSeqProperties
  <2>2. \A i \in 1..(n - m + 1) : m + i - 1 \in 1..Len(c)
    OBVIOUS
  <2> QED BY <2>1, <2>2
<1>3. \A i, j \in 1..(n - m + 1) : i < j => m + i - 1 < m + j - 1
  OBVIOUS
<1>4. Forward(SubSeq(c, m, n))
  BY <1>2, <1>3 DEF Forward
<1>5. UpTo(SubSeq(c, m, n), now)
  BY <1>2 DEF UpTo
<1> QED BY <1>2, <1>4, <1>5

LEMMA ForwardLast ==
  ASSUME NEW B, NEW c \in Seq(B), NEW now \in Nat, NEW n \in Nat \ {0}, Forward(c), UpTo(c, now)
  PROVE  Forward(LastBars(c, n)) /\ UpTo(LastBars(c, n), now) /\ Len(LastBars(c, n)) <= n
<1> DEFINE f == Max({1, Len(c) - n + 1})
<1>1. f \in {1, Len(c) - n + 1} /\ f >= 1 /\ f >= Len(c) - n + 1
  <2>1. \E x \in {1, Len(c) - n + 1} : \A y \in {1, Len(c) - n + 1} : x >= y
    OBVIOUS
  <2> QED BY <2>1 DEF Max
<1>2. LastBars(c, n) = SubSeq(c, f, Len(c))
  BY DEF LastBars
<1> HIDE DEF f
<1>3. f \in Nat \ {0} /\ f <= Len(c) + 1 /\ Len(c) \in 0..Len(c)
  BY <1>1
<1>4. /\ Forward(SubSeq(c, f, Len(c))) /\ UpTo(SubSeq(c, f, Len(c)), now)
      /\ Len(SubSeq(c, f, Len(c))) = Len(c) - f + 1
  BY <1>3, ForwardSlice
<1>5. Len(c) - f + 1 <= n
  BY <1>1, <1>3
<1> QED BY <1>2, <1>4, <1>5

LEMMA ForwardAppend ==
  ASSUME NEW B, NEW c \in Seq(B), NEW b \in B, b.at \in Nat, Forward(c), UpTo(c, b.at),
         \A i \in 1..Len(c) : c[i].at < b.at
  PROVE  Forward(Append(c, b)) /\ UpTo(Append(c, b), b.at)
<1>1. /\ Len(Append(c, b)) = Len(c) + 1 /\ Append(c, b)[Len(c) + 1] = b
      /\ \A i \in 1..Len(c) : Append(c, b)[i] = c[i]
  OBVIOUS
<1>2. \A i \in 1..(Len(c) + 1) : i \in 1..Len(c) \/ i = Len(c) + 1
  OBVIOUS
<1>3. \A i, j \in 1..(Len(c) + 1) : i < j => i \in 1..Len(c)
  OBVIOUS
<1>4. Forward(Append(c, b))
  BY <1>1, <1>2, <1>3 DEF Forward
<1>5. UpTo(Append(c, b), b.at)
  BY <1>1, <1>2 DEF UpTo
<1> QED BY <1>4, <1>5

SeriesInv == \A t \in Names : /\ Forward(series[t]) /\ UpTo(series[t], clock)
                              /\ Len(series[t]) <= Lookback[plugin]

LEMMA BarForward ==
  ASSUME MarketInv, SeriesInv, NEW t \in Names, NEW bar \in PluginBars[plugin], BarArrives(t, bar)
  PROVE  SeriesInv'
<1> DEFINE B     == BarsOf(plugin)
           c     == series[t]
           older == IF c # <<>> /\ Latest(c).at = clock THEN SubSeq(c, 1, Len(c) - 1) ELSE c
           now   == [bar EXCEPT !.at = clock]
<1>1. now \in B /\ now.at = clock /\ clock \in Nat
  <2>1. bar \in B /\ clock \in Nat
    BY MarketAssumption DEF MarketInv, BarsOf
  <2> QED BY <2>1 DEF BarsOf, OhlcBars, RatioBars
<1>2. c \in Seq(B) /\ Lookback[plugin] \in Nat \ {0} /\ Forward(c) /\ UpTo(c, clock)
  BY PluginAssumption DEF MarketInv, SeriesInv
<1>3. /\ older \in Seq(B) /\ Forward(older) /\ UpTo(older, clock)
      /\ \A i \in 1..Len(older) : older[i].at < clock
  <2> HIDE DEF B, c, now
  <2>1. CASE c # <<>> /\ Latest(c).at = clock
    <3>1. Len(c) \in Nat /\ Len(c) >= 1 /\ Len(c) - 1 \in 0..Len(c) /\ 1 <= (Len(c) - 1) + 1
      BY <1>2, <2>1
    <3>2. /\ SubSeq(c, 1, Len(c) - 1) \in Seq(B) /\ Len(SubSeq(c, 1, Len(c) - 1)) = Len(c) - 1
          /\ \A i \in 1..(Len(c) - 1) : SubSeq(c, 1, Len(c) - 1)[i] = c[i]
      <4> DEFINE n == Len(c) - 1
      <4>1. n \in Nat /\ n = Len(c) - 1 /\ n \in 0..Len(c) /\ 1 <= n + 1
        BY <3>1
      <4> HIDE DEF n
      <4>2. SubSeq(c, 1, n) \in Seq(B)
        BY <1>2, <4>1
      <4>3. /\ Len(SubSeq(c, 1, n)) = n - 1 + 1
            /\ \A i \in 1..(n - 1 + 1) : SubSeq(c, 1, n)[i] = c[1 + i - 1]
        BY <1>1, <1>2, <4>1, ForwardSlice
      <4>4. n - 1 + 1 = n /\ \A i \in 1..n : 1 + i - 1 = i
        BY <4>1
      <4>5. Len(SubSeq(c, 1, n)) = n /\ \A i \in 1..n : SubSeq(c, 1, n)[i] = c[i]
        BY <4>3, <4>4
      <4> QED BY <4>1, <4>2, <4>5
    <3>3. Forward(SubSeq(c, 1, Len(c) - 1)) /\ UpTo(SubSeq(c, 1, Len(c) - 1), clock)
      BY <1>1, <1>2, <3>1, ForwardSlice
    <3>4. \A i \in 1..(Len(c) - 1) : i \in 1..Len(c) /\ Len(c) \in 1..Len(c) /\ i < Len(c)
      BY <3>1
    <3>5. \A i \in 1..(Len(c) - 1) : c[i].at < clock
      BY <1>2, <2>1, <3>4 DEF Forward, Latest
    <3> QED BY <2>1, <3>2, <3>3, <3>5
  <2>2. CASE c = <<>>
    BY <1>2, <2>2
  <2>3. CASE c # <<>> /\ Latest(c).at # clock
    <3>1. Len(c) \in 1..Len(c)
      BY <1>2, <2>3
    <3>2. c[Len(c)].at \in Nat /\ c[Len(c)].at < clock
      BY <1>1, <1>2, <2>3, <3>1 DEF UpTo, Latest
    <3>3. \A i \in 1..Len(c) : c[i].at < clock
      <4> TAKE i \in 1..Len(c)
      <4>1. CASE i = Len(c)
        BY <3>2, <4>1
      <4>2. CASE i < Len(c)
        <5>1. c[i].at < c[Len(c)].at /\ c[i].at \in Nat
          BY <1>2, <3>1, <4>2 DEF Forward, UpTo
        <5> QED BY <1>1, <3>2, <5>1
      <4> QED BY <3>1, <4>1, <4>2
    <3> QED BY <1>2, <2>3, <3>3
  <2> QED BY <2>1, <2>2, <2>3
<1> HIDE DEF older, now, B, c
<1>4. Append(older, now) \in Seq(B) /\ Forward(Append(older, now)) /\ UpTo(Append(older, now), clock)
  BY <1>1, <1>3, ForwardAppend
<1> DEFINE new == LastBars(Append(older, now), Lookback[plugin])
<1>5. Forward(new) /\ UpTo(new, clock) /\ Len(new) <= Lookback[plugin]
  BY <1>1, <1>2, <1>4, ForwardLast
<1>6. series' = [series EXCEPT ![t] = new] /\ UNCHANGED <<plugin, clock>>
  BY DEF BarArrives, older, now, c
<1> HIDE DEF new
<1>7. \A u \in Names : series'[u] = IF u = t THEN new ELSE series[u]
  BY <1>6 DEF MarketInv
<1> QED BY <1>5, <1>6, <1>7 DEF SeriesInv

ScanInv ==
  /\ clock \in Start[plugin]..Horizon[plugin] /\ scanAt \in 0..clock
  /\ unread \subseteq Names /\ read \subseteq Names
  /\ phase \in {"idle", "reading"} /\ (unread # {} => phase = "reading")

Shares == \A t \in Names : \A p \in held[t] : p.qty >= 1

PluginTypeInv == MarketInv /\ TradesInv /\ Singles /\ SeriesInv /\ ScanInv /\ Shares

LEMMA PluginTypesBegin == PluginInit => PluginTypeInv
<1> SUFFICES ASSUME PluginInit PROVE PluginTypeInv
  OBVIOUS
<1>1. plugin \in PluginIds /\ Start[plugin] \in Nat /\ Horizon[plugin] \in Nat /\ Start[plugin] <= Horizon[plugin]
      /\ Lookback[plugin] \in Nat
  BY PluginAssumption DEF PluginInit
<1>2. ScanInv
  BY <1>1 DEF PluginInit, ScanInv
<1>3. \A t \in Names : series[t] = <<>> /\ held[t] = {}
  BY DEF PluginInit
<1>4. SeriesInv
  BY <1>1, <1>3 DEF SeriesInv, Forward, UpTo
<1> QED BY <1>2, <1>3, <1>4, MarketBegins, TradesBegin, SinglesBegin DEF PluginTypeInv, Shares

LEMMA SeriesStep == MarketInv /\ SeriesInv /\ [PluginNext]_pluginVars => SeriesInv'
<1> SUFFICES ASSUME MarketInv, SeriesInv, [PluginNext]_pluginVars PROVE SeriesInv'
  OBVIOUS
<1>1. ASSUME UNCHANGED <<plugin, clock, series>> PROVE SeriesInv'
  BY <1>1 DEF SeriesInv
<1>2. CASE Passes
  <2>1. clock' = clock + 1 /\ UNCHANGED <<plugin, series>> /\ clock \in Nat
    BY <1>2 DEF Passes, MarketInv
  <2> QED BY <2>1 DEF SeriesInv, UpTo, Forward
<1>3. CASE BeginScan \/ ReadFails \/ FinishScan
  BY <1>1, <1>3 DEF BeginScan, ReadFails, FinishScan
<1>4. ASSUME NEW t \in Names, ReadCandles(t) \/ Manage(t) PROVE SeriesInv'
  BY <1>1, <1>4 DEF ReadCandles, Manage
<1>5. ASSUME NEW t \in Names, NEW size, Fills(t, size) PROVE SeriesInv'
  BY <1>1, <1>5 DEF Fills
<1>6. CASE UNCHANGED pluginVars
  BY <1>1, <1>6 DEF pluginVars
<1> QED BY <1>2, <1>3, <1>4, <1>5, <1>6, BarForward DEF PluginNext

LEMMA ScanTypes == MarketInv /\ ScanInv /\ [PluginNext]_pluginVars => ScanInv'
<1> SUFFICES ASSUME MarketInv, ScanInv, [PluginNext]_pluginVars PROVE ScanInv'
  OBVIOUS
<1>1. ASSUME UNCHANGED <<plugin, clock, scanAt, unread, read, phase>> PROVE ScanInv'
  BY <1>1 DEF ScanInv
<1>2. Start[plugin] \in Nat /\ Horizon[plugin] \in Nat
  BY PluginAssumption DEF MarketInv
<1>3. CASE Passes
  <2>1. /\ clock < Horizon[plugin] /\ clock' = clock + 1
        /\ UNCHANGED <<plugin, scanAt, unread, read, phase>>
    BY <1>3 DEF Passes, scanVars
  <2> QED BY <1>2, <2>1 DEF ScanInv
<1>4. CASE BeginScan
  <2>1. /\ unread' \subseteq Names /\ phase' = "reading" /\ scanAt' = clock /\ read' = {}
        /\ UNCHANGED <<plugin, clock>>
    BY <1>4 DEF BeginScan
  <2> QED BY <1>2, <2>1 DEF ScanInv
<1>5. CASE ReadFails \/ FinishScan
  BY <1>5 DEF ReadFails, FinishScan, ScanInv
<1>6. ASSUME NEW t \in Names, ReadCandles(t) PROVE ScanInv'
  BY <1>6 DEF ReadCandles, ScanInv
<1>7. ASSUME NEW t \in Names, Manage(t) PROVE ScanInv'
  BY <1>1, <1>7 DEF Manage, scanVars
<1>8. ASSUME NEW t \in Names, NEW size, Fills(t, size) PROVE ScanInv'
  BY <1>1, <1>8 DEF Fills, scanVars
<1>9. ASSUME NEW t \in Names, NEW bar, BarArrives(t, bar) PROVE ScanInv'
  BY <1>1, <1>9 DEF BarArrives, scanVars
<1>10. CASE UNCHANGED pluginVars
  BY <1>1, <1>10 DEF pluginVars, scanVars
<1> QED BY <1>3, <1>4, <1>5, <1>6, <1>7, <1>8, <1>9, <1>10 DEF PluginNext

\* A tranche leaves a share at least.
LEMMA SharesStep == MarketInv /\ TradesInv /\ Shares /\ [PluginNext]_pluginVars => Shares'
<1> SUFFICES ASSUME MarketInv, TradesInv, Shares, [PluginNext]_pluginVars PROVE Shares'
  OBVIOUS
<1>1. ASSUME UNCHANGED held PROVE Shares'
  BY <1>1 DEF Shares
<1>2. CASE Passes \/ ReadFails \/ FinishScan
  BY <1>1, <1>2 DEF Passes, ReadFails, FinishScan, tradeVars
<1>3. CASE BeginScan
  <2>1. held' = [t \in Names |-> Aged(held[t])]
    BY <1>3 DEF BeginScan
  <2> SUFFICES ASSUME NEW t \in Names, NEW p \in Aged(held[t]) PROVE p.qty >= 1
    BY <2>1 DEF Shares
  <2>2. PICK q \in held[t] : p = [q EXCEPT !.view = "older"]
    BY DEF Aged
  <2>3. q \in PositionShape /\ q.qty >= 1
    BY DEF TradesInv, Banked, Shares
  <2> QED BY <2>2, <2>3 DEF PositionShape
<1>4. ASSUME NEW t \in Names, ReadCandles(t) PROVE Shares'
  BY <1>1, <1>4 DEF ReadCandles, tradeVars
<1>5. ASSUME NEW t \in Names, Manage(t) PROVE Shares'
  <2>1. PICK p \in held[t] :
          \/ held' = held
          \/ Manages(t, p) = "scale-out" /\ held' = [held EXCEPT ![t] = {[p EXCEPT !.qty = p.qty - EntryQty \div 2]}]
          \/ held' = [held EXCEPT ![t] = {}]
    BY <1>5 DEF Manage
  <2>2. CASE held' = held
    BY <1>1, <2>2
  <2>3. CASE held' = [held EXCEPT ![t] = {}]
    BY <2>3 DEF Shares, TradesInv
  <2>4. CASE Manages(t, p) = "scale-out" /\ held' = [held EXCEPT ![t] = {[p EXCEPT !.qty = p.qty - EntryQty \div 2]}]
    <3> DEFINE new == [p EXCEPT !.qty = p.qty - EntryQty \div 2]
    <3>1. p \in PositionShape
      BY DEF TradesInv, Banked
    <3>2. new.qty = p.qty - EntryQty \div 2
      BY <3>1 DEF PositionShape
    <3>3. PICK half \in Nat : half = EntryQty \div 2
      BY PluginAssumption
    <3>4. half \in 1..(p.qty - 1) /\ p.qty \in Nat
      BY <2>4, <3>1, <3>3, LadderGuards DEF PositionShape
    <3>5. new.qty >= 1
      BY <3>2, <3>3, <3>4
    <3>6. held' = [held EXCEPT ![t] = {new}]
      BY <2>4
    <3> HIDE DEF new
    <3> QED BY <3>5, <3>6 DEF Shares, TradesInv
  <2> QED BY <2>1, <2>2, <2>3, <2>4
<1>6. ASSUME NEW t \in Names, NEW size \in IF plugin = "squeeze-scalp" THEN Sizes ELSE {EntryQty}, Fills(t, size)
      PROVE  Shares'
  <2>1. size \in Nat \ {0}
    BY <1>6, PluginAssumption
  <2>2. PICK o \in orders[t] :
          held' = [held EXCEPT ![t] = {[entry |-> o.entry, size |-> size, qty |-> size, view |-> o.view]}]
    BY <1>6 DEF Fills
  <2>3. size >= 1
    BY <2>1
  <2> QED BY <2>2, <2>3 DEF Shares, TradesInv
<1>7. ASSUME NEW t \in Names, NEW bar, BarArrives(t, bar) PROVE Shares'
  BY <1>1, <1>7 DEF BarArrives, tradeVars
<1>8. CASE UNCHANGED pluginVars
  BY <1>1, <1>8 DEF pluginVars, tradeVars
<1> QED BY <1>2, <1>3, <1>4, <1>5, <1>6, <1>7, <1>8 DEF PluginNext

LEMMA PluginTypesImplied == PluginTypeInv => PluginTypeOK
<1> SUFFICES ASSUME PluginTypeInv PROVE PluginTypeOK
  OBVIOUS
<1>1. /\ plugin \in PluginIds /\ clock \in Start[plugin]..Horizon[plugin] /\ scanAt \in 0..clock
      /\ unread \subseteq Names /\ read \subseteq Names
      /\ phase \in {"idle", "reading"} /\ (unread # {} => phase = "reading")
  BY DEF PluginTypeInv, MarketInv, ScanInv
<1>2. ASSUME NEW t \in Names
      PROVE  /\ Len(series[t]) <= Lookback[plugin]
             /\ \A i \in 2..Len(series[t]) : series[t][i - 1].at < series[t][i].at
             /\ \A xs \in {views[t], found[t], orders[t], held[t]} : Cardinality(xs) <= 1
             /\ \A p \in held[t] : p.qty \in 1..p.size
  <2>1. Len(series[t]) \in Nat /\ Forward(series[t]) /\ Len(series[t]) <= Lookback[plugin]
    BY DEF PluginTypeInv, MarketInv, SeriesInv
  <2>2. \A i \in 2..Len(series[t]) : i - 1 \in 1..Len(series[t]) /\ i \in 1..Len(series[t]) /\ i - 1 < i
    BY <2>1
  <2>3. \A i \in 2..Len(series[t]) : series[t][i - 1].at < series[t][i].at
    BY <2>1, <2>2 DEF Forward
  <2>4. \A xs \in {views[t], found[t], orders[t], held[t]} : Cardinality(xs) <= 1
    BY OneCounts DEF PluginTypeInv, Singles
  <2>5. \A p \in held[t] : p.qty \in 1..p.size
    <3> TAKE p \in held[t]
    <3>1. p \in PositionShape /\ p.qty <= p.size /\ p.qty >= 1
      BY DEF PluginTypeInv, TradesInv, Banked, Shares
    <3> QED BY <3>1 DEF PositionShape
  <2> QED BY <2>1, <2>3, <2>4, <2>5
<1> QED BY <1>1, <1>2 DEF PluginTypeOK

\* The variables of the plug-ins keep their types: of a name there is one view, draft,
\* order and position at most, and its candles go forward in time.
THEOREM PluginTyped == PluginSpec => []PluginTypeOK
<1>1. PluginTypeInv /\ [PluginNext]_pluginVars => PluginTypeInv'
  BY MarketStep, TradesStep, SinglesStep, SeriesStep, ScanTypes, SharesStep DEF PluginTypeInv
<1> QED BY <1>1, PluginTypesBegin, PluginTypesImplied, PTL DEF PluginSpec

-----------------------------------------------------------------------------
(* The clock                                                               *)

LEMMA Weeks ==
  ASSUME NEW d \in Nat, NEW e \in Nat, e > d + 6 - Weekday(d)
  PROVE  WeekKey(e) # WeekKey(d)
<1>1. PICK k \in Nat, r \in 0..6 : k = WeekKey(d) /\ r = Weekday(d) /\ d = 7 * k + r
  BY DEF WeekKey, Weekday
<1>2. PICK j \in Nat, q \in 0..6 : j = WeekKey(e) /\ e = 7 * j + q
  BY DEF WeekKey
<1> QED BY <1>1, <1>2

\* The calendar's week ends with its last session, whatever days the holidays take.
LEMMA WeekEnds == ASSUME clock \in Nat, LastSession(clock) PROVE IsWeekCloseSession(clock, holidays)
<1> DEFINE Next11 == {clock + 11} \union {e \in clock + 1..clock + 10 : IsTradingDay(e, holidays)}
<1>1. PICK e \in Nat : e = NextTradingDay(clock, holidays) /\ e \in Next11
  <2>1. Next11 \subseteq Nat /\ Next11 # {}
    OBVIOUS
  <2> HIDE DEF Next11
  <2>2. Min(Next11) \in Next11 /\ Min(Next11) \in Nat
    BY <2>1, LeastOf
  <2> QED BY <2>2 DEF NextTradingDay, Next11
<1>2. Weekday(clock) \in 0..6
  BY DEF Weekday
<1>3. e > clock + 6 - Weekday(clock)
  <2>1. CASE e = clock + 11
    BY <1>2, <2>1
  <2>2. CASE e \in clock + 1..clock + 10 /\ IsTradingDay(e, holidays)
    <3>1. e \notin clock + 1..clock + 6 - Weekday(clock)
      BY <2>2 DEF LastSession
    <3> QED BY <1>2, <2>2, <3>1
  <2> QED BY <1>1, <2>1, <2>2
<1>4. WeekKey(e) # WeekKey(clock)
  BY <1>3, Weeks
<1> QED BY <1>1, <1>4 DEF IsWeekCloseSession, LastSession

\* A view is of the last scan, and a name that was read has one.
ViewsOfScan ==
  /\ plugin = "hype-momentum" =>
       \A t \in Names : \A v \in views[t] : v.asOf = scanAt /\ v.nextEarnings = EarningsDay[t]
  /\ plugin = "friday-monday" =>
       \A t \in Names : \A v \in views[t] : v.isWeekClose = Flag(IsWeekCloseSession(scanAt, holidays))
  /\ plugin \in {"hype-momentum", "friday-monday"} => \A t \in read : views[t] # {}

TimeInv ==
  /\ DOMAIN views = Names /\ read \subseteq Names /\ read \intersect unread = {}
  /\ ViewsOfScan /\ TimeStopsHold

LEMMA TimeBegins == PluginInit => TimeInv
  BY DEF PluginInit, TimeInv, ViewsOfScan, TimeStopsHold

LEMMA ReadTime == ASSUME MarketInv, TimeInv, NEW t \in Names, ReadCandles(t) PROVE TimeInv'
<1> DEFINE c == series[t]
           enough == IF plugin = "hype-momentum" THEN HypeEnough(c) ELSE c # <<>>
<1>1. /\ views' = [views EXCEPT ![t] = ViewOf(t, c)]
      /\ plugin' = plugin /\ scanAt' = scanAt /\ holidays' = holidays /\ overstayed' = overstayed
      /\ t \in unread /\ unread' = unread \ {t}
      /\ read' = IF enough THEN read \union {t} ELSE read
  BY DEF ReadCandles, tradeVars
<1>2. /\ DOMAIN views' = Names /\ views'[t] = ViewOf(t, c) /\ \A u \in Names : u # t => views'[u] = views[u]
      /\ read' \subseteq Names /\ read' \intersect unread' = {} /\ t \notin read
  BY <1>1 DEF TimeInv
<1>3. ASSUME plugin = "hype-momentum"
      PROVE  /\ \A v \in views'[t] : v.asOf = scanAt /\ v.nextEarnings = EarningsDay[t]
             /\ enough => views'[t] # {}
  <2>1. views'[t] = HypeView(t, c)
    BY <1>2, <1>3 DEF ViewOf
  <2>2. ASSUME NEW v \in HypeView(t, c) PROVE v.asOf = scanAt /\ v.nextEarnings = EarningsDay[t]
    BY <2>2 DEF HypeView
  <2>3. HypeEnough(c) => HypeView(t, c) # {}
    BY DEF HypeView
  <2> QED BY <1>3, <2>1, <2>2, <2>3
<1>4. ASSUME plugin = "friday-monday"
      PROVE  /\ \A v \in views'[t] : v.isWeekClose = Flag(IsWeekCloseSession(scanAt, holidays))
             /\ enough => views'[t] # {}
  <2>1. views'[t] = FlowView(c)
    BY <1>2, <1>4 DEF ViewOf
  <2>2. ASSUME NEW v \in FlowView(c) PROVE v.isWeekClose = Flag(IsWeekCloseSession(scanAt, holidays))
    BY <2>2 DEF FlowView
  <2>3. c # <<>> => FlowView(c) # {}
    BY DEF FlowView
  <2> QED BY <1>4, <2>1, <2>2, <2>3
<1>5. \A u \in read' : (u = t /\ enough) \/ (u # t /\ u \in read)
  <2> HIDE DEF enough
  <2>1. CASE enough
    BY <1>1, <1>2, <2>1
  <2>2. CASE ~enough
    BY <1>1, <1>2, <2>2
  <2> QED BY <2>1, <2>2
<1> HIDE DEF enough
<1>6. ViewsOfScan'
  BY <1>1, <1>2, <1>3, <1>4, <1>5 DEF TimeInv, ViewsOfScan
<1> QED BY <1>1, <1>2, <1>6 DEF TimeInv, TimeStopsHold

\* A rule that looks at the clock has its view when it matters.
LEMMA NotKept ==
  ASSUME MarketInv, TimeInv, plugin # "squeeze-scalp",
         NEW t \in Names, NEW p, TimeIsUp(t), Manages(t, p) = "hold"
  PROVE  FALSE
<1>1. plugin \in PluginIds /\ clock \in Nat
  BY DEF MarketInv
<1>2. CASE plugin = "snapback"
  <2>1. clock % DayTicks >= CloseTick - FlattenTicks
    BY <1>2 DEF TimeIsUp
  <2>2. Manages(t, p) = IF clock % DayTicks >= CloseTick - FlattenTicks THEN "flatten" ELSE "hold"
    BY <1>2 DEF Manages, MustFlatten
  <2> QED BY <2>1, <2>2
<1>3. CASE plugin = "hype-momentum"
  <2>1. /\ EarningsDay[t] - clock \in 0..3 /\ scanAt = clock /\ t \in read
    BY <1>3 DEF TimeIsUp
  <2>2. views[t] # {} /\ \A v \in views[t] : v.asOf = clock /\ v.nextEarnings = EarningsDay[t]
    BY <1>3, <2>1 DEF TimeInv, ViewsOfScan
  <2>3. PICK v \in views[t] : v = CHOOSE w \in views[t] : TRUE
    BY <2>2
  <2>4. HypeExit(v) = "hold"
    BY <1>3, <2>2, <2>3 DEF Manages
  <2>5. v.nextEarnings \in v.asOf..v.asOf + 3
    <3>1. EarningsDay[t] \in Nat
      BY MarketAssumption
    <3> QED BY <1>1, <2>1, <2>2, <3>1
  <2> QED BY <2>4, <2>5 DEF HypeExit
<1>4. CASE plugin = "friday-monday"
  <2>1. LastSession(clock) /\ scanAt = clock /\ t \in read
    BY <1>4 DEF TimeIsUp
  <2>2. IsWeekCloseSession(clock, holidays)
    BY <1>1, <2>1, WeekEnds
  <2>3. views[t] # {} /\ \A v \in views[t] : v.isWeekClose = "yes"
    BY <1>4, <2>1, <2>2 DEF TimeInv, ViewsOfScan, Flag
  <2>4. PICK v \in views[t] : v = CHOOSE w \in views[t] : TRUE
    BY <2>3
  <2>5. FlowExit(v) = "hold"
    BY <1>4, <2>3, <2>4 DEF Manages
  <2> QED BY <2>3, <2>5 DEF FlowExit
<1> QED BY <1>1, <1>2, <1>3, <1>4 DEF TimeIsUp, PluginIds

LEMMA TimeStep == MarketInv /\ TimeInv /\ [PluginNext]_pluginVars => TimeInv'
<1> SUFFICES ASSUME MarketInv, TimeInv, [PluginNext]_pluginVars PROVE TimeInv'
  OBVIOUS
<1>1. ASSUME UNCHANGED <<plugin, holidays, scanAt, views, read>>, unread' = unread \/ unread' = {},
             plugin = "squeeze-scalp" \/ overstayed' = overstayed
      PROVE  TimeInv'
  BY <1>1 DEF TimeInv, ViewsOfScan, TimeStopsHold
<1>2. CASE BeginScan
  <2>1. /\ plugin' = plugin /\ holidays' = holidays /\ read' = {} /\ overstayed' = overstayed
        /\ views' = IF plugin = "qual-sphb" THEN views ELSE [t \in Names |-> {}]
    BY <1>2 DEF BeginScan
  <2> QED BY <2>1 DEF TimeInv, ViewsOfScan, TimeStopsHold
<1>3. ASSUME NEW t \in Names, ReadCandles(t) PROVE TimeInv'
  BY <1>3, ReadTime
<1>4. ASSUME NEW t \in Names, Manage(t) PROVE TimeInv'
  <2>1. plugin = "squeeze-scalp" \/ overstayed' = overstayed
    BY <1>4, NotKept DEF Manage
  <2> QED BY <1>1, <1>4, <2>1 DEF Manage, scanVars
<1>5. CASE Passes \/ ReadFails \/ FinishScan
  BY <1>1, <1>5 DEF Passes, ReadFails, FinishScan, scanVars, tradeVars
<1>6. ASSUME NEW t \in Names, NEW bar, BarArrives(t, bar) PROVE TimeInv'
  BY <1>1, <1>6 DEF BarArrives, scanVars, tradeVars
<1>7. ASSUME NEW t \in Names, NEW size, Fills(t, size) PROVE TimeInv'
  BY <1>1, <1>7 DEF Fills, scanVars
<1>8. CASE UNCHANGED pluginVars
  BY <1>1, <1>8 DEF pluginVars, scanVars, tradeVars
<1> QED BY <1>2, <1>3, <1>4, <1>5, <1>6, <1>7, <1>8 DEF PluginNext

\* No monitor pass of a plug-in but the squeeze scalp keeps a position whose time is up,
\* for any holidays, reports and bell.
THEOREM TimeStopsKept == PluginSpec => []TimeStopsHold
<1>1. TimeInv => TimeStopsHold
  BY DEF TimeInv
<1> QED BY <1>1, MarketBegins, MarketStep, TimeBegins, TimeStep, PTL DEF PluginSpec

-----------------------------------------------------------------------------
(* What an entry's own view says of it                                     *)

LEMMA SqueezeHolds ==
  ASSUME NEW c \in Seq(OhlcBars), NEW d \in SqueezeDraft(c), NEW v \in SqueezeView(c), NEW qty
  PROVE  Ladder(d.entry, EntryQty, qty, v.lastPrice) = "hold"
<1>1. BreaksOut(c)
  BY DEF SqueezeDraft
<1>2. c # <<>>
  BY <1>1 DEF BreaksOut
<1>3. PICK close \in Nat : close = Latest(c).close /\ close >= 1
  BY <1>2, LatestIs, OhlcOf
<1>4. d.entry = 100 * close /\ v.lastPrice = close
  <2>1. d \in Drafted("long", 100 * close, 97 * close, 110 * close)
    BY <1>1, <1>3 DEF SqueezeDraft
  <2> QED BY <1>2, <1>3, <2>1 DEF Drafted, SqueezeView
<1>5. ~UpBy(100 * close, 100 * close, 10) /\ ~UpBy(100 * close, 100 * close, 5)
  BY <1>3 DEF UpBy
<1> QED BY <1>4, <1>5 DEF Ladder

\* A breakout closes above its average: every bar of the average closed at or below it.
LEMMA AboveAverage ==
  ASSUME NEW c \in Seq(OhlcBars), HypeEnough(c), Spikes(c)
  PROVE  /\ ClosesOf(LastBars(c, Windows.ma)) \in Int
         /\ ClosesOf(LastBars(c, Windows.ma)) <= Windows.ma * Latest(c).close
<1>1. PICK n \in Nat, ma \in Nat, trail \in Nat :
        /\ n = Len(c) /\ ma = Windows.ma /\ trail = Windows.trail
        /\ ma >= 1 /\ trail >= 1 /\ ma <= trail + 1
  BY WindowsAssumption
<1>2. n > trail /\ n >= ma
  <2>1. n > trail
    BY <1>1 DEF Spikes
  <2> QED BY <1>1, <2>1
<1>3. Max({1, n - ma + 1}) = n - ma + 1 /\ Max({1, n - trail}) = n - trail
  <2>1. /\ {1, n - ma + 1} \subseteq Nat /\ {1, n - trail} \subseteq Nat
        /\ \A x \in {1, n - ma + 1} : x <= n - ma + 1
        /\ \A x \in {1, n - trail} : x <= n - trail
    BY <1>1, <1>2
  <2>2. n - ma + 1 \in Nat /\ n - trail \in Nat
    BY <1>1, <1>2
  <2>3. /\ Max({1, n - ma + 1}) \in {1, n - ma + 1} /\ \A y \in {1, n - ma + 1} : y <= Max({1, n - ma + 1})
        /\ Max({1, n - trail}) \in {1, n - trail} /\ \A y \in {1, n - trail} : y <= Max({1, n - trail})
    BY <2>1, <2>2, GreatestOf
  <2> QED BY <2>1, <2>2, <2>3
<1> DEFINE w     == LastBars(c, ma)
           prior == Before(c, trail)
<1>4. Len(w) = ma /\ \A i \in 1..ma : w[i] = c[n - ma + i]
  <2>1. PICK a \in Nat : a = n - ma + 1 /\ a >= 1 /\ a <= n
    BY <1>1, <1>2
  <2>2. w = SubSeq(c, a, n)
    <3>1. w = SubSeq(c, Max({1, Len(c) - ma + 1}), Len(c)) /\ Len(c) - ma + 1 = n - ma + 1
      BY <1>1 DEF LastBars
    <3> HIDE DEF w
    <3> QED BY <1>1, <1>3, <2>1, <3>1
  <2>3. Len(SubSeq(c, a, n)) = n - a + 1 /\ \A i \in 1..(n - a + 1) : SubSeq(c, a, n)[i] = c[a + i - 1]
    <3>1. \A i \in a..n : c[i] \in OhlcBars
      BY <1>1, <2>1
    <3> QED BY <2>1, <3>1, SubSeqProperties
  <2>4. n - a + 1 = ma /\ \A i \in 1..ma : a + i - 1 = n - ma + i
    BY <2>1
  <2> HIDE DEF w
  <2> QED BY <2>2, <2>3, <2>4
<1>5. prior \in Seq(OhlcBars) /\ Len(prior) = trail /\ \A i \in 1..trail : prior[i] = c[n - trail + i - 1]
  <2>1. PICK a \in Nat, z \in Nat : a = n - trail /\ z = n - 1 /\ a >= 1 /\ a <= z /\ z <= n
    BY <1>1, <1>2
  <2>2. prior = SubSeq(c, a, z)
    <3>1. prior = SubSeq(c, Max({1, Len(c) - trail}), Len(c) - 1) /\ Len(c) - trail = n - trail
      BY <1>1 DEF Before
    <3> HIDE DEF prior
    <3> QED BY <1>1, <1>3, <2>1, <3>1
  <2>3. \A i \in a..z : c[i] \in OhlcBars
    BY <1>1, <2>1
  <2>4. /\ SubSeq(c, a, z) \in Seq(OhlcBars) /\ Len(SubSeq(c, a, z)) = z - a + 1
        /\ \A i \in 1..(z - a + 1) : SubSeq(c, a, z)[i] = c[a + i - 1]
    BY <2>1, <2>3, SubSeqProperties
  <2>5. z - a + 1 = trail /\ \A i \in 1..trail : a + i - 1 = n - trail + i - 1
    BY <2>1
  <2> HIDE DEF prior
  <2> QED BY <2>2, <2>4, <2>5
<1>6. PICK close \in Nat : close = Latest(c).close /\ close = c[n].close
  <2>1. c # <<>>
    BY <1>1, <1>2
  <2>2. Latest(c) \in OhlcBars
    BY <2>1, LatestIs
  <2> QED BY <1>1, <2>2, OhlcOf DEF Latest
<1>7. Max(Highs(prior)) \in Nat /\ close > Max(Highs(prior)) /\ \A j \in 1..trail : prior[j].high <= Max(Highs(prior))
  <2>1. prior # <<>> /\ DOMAIN prior = 1..trail
    BY <1>1, <1>5
  <2>2. close > Max(Highs(prior))
    BY <1>1, <1>6 DEF Spikes
  <2> HIDE DEF prior
  <2> QED BY <1>5, <2>1, <2>2, HighestOf
<1>8. ASSUME NEW i \in 1..ma PROVE w[i].close \in Int /\ w[i].close <= close
  <2>1. CASE i = ma
    <3> HIDE DEF w
    <3>1. w[i] = c[n - ma + i]
      BY <1>4
    <3>2. n - ma + i = n
      BY <2>1
    <3>3. w[i].close = close
      BY <1>6, <3>1, <3>2
    <3> QED BY <3>3
  <2>2. CASE i # ma
    <3>1. PICK j \in 1..trail : n - trail + j - 1 = n - ma + i
      <4>1. i \in Nat /\ i >= 1 /\ i <= ma /\ i # ma
        BY <1>1, <2>2
      <4>2. ma <= trail + 1 /\ trail >= 1
        BY <1>1
      <4>3. trail + 1 - ma + i \in 1..trail /\ n - trail + (trail + 1 - ma + i) - 1 = n - ma + i
        BY <4>1, <4>2
      <4> QED BY <4>3
    <3>2. w[i] = prior[j] /\ prior[j] \in OhlcBars
      <4> HIDE DEF w, prior
      <4>1. w[i] = c[n - ma + i]
        BY <1>4
      <4>2. prior[j] = c[n - trail + j - 1]
        BY <1>5
      <4>3. prior[j] \in OhlcBars
        BY <1>5
      <4> QED BY <3>1, <4>1, <4>2, <4>3
    <3>3. prior[j].close \in Nat /\ prior[j].high \in Nat /\ prior[j].close <= prior[j].high
      BY <3>2, OhlcOf
    <3> HIDE DEF w, prior
    <3> QED BY <1>7, <3>2, <3>3
  <2> QED BY <2>1, <2>2
<1> DEFINE f == [i \in DOMAIN w |-> w[i].close]
<1>9. DOMAIN w = 1..ma
  <2> HIDE DEF w
  <2>1. w \in Seq(OhlcBars)
    BY <1>1, LastBarsTyped DEF w
  <2> QED BY <1>4, <2>1
<1>10. IsFiniteSet(1..ma) /\ Cardinality(1..ma) = ma
  <2>1. IsFiniteSet(1..ma) /\ Cardinality(1..ma) = IF 1 > ma THEN 0 ELSE ma - 1 + 1
    BY FS_Interval
  <2> QED BY <1>1, <2>1
<1>11. \A i \in 1..ma : f[i] \in Int /\ f[i] <= close
  <2> HIDE DEF w
  <2> QED BY <1>8, <1>9
<1>12. ClosesOf(w) = SumFunctionOnSet(f, 1..ma)
  <2> HIDE DEF w
  <2> QED BY <1>9 DEF ClosesOf
<1> HIDE DEF f
<1>13. SumFunctionOnSet(f, 1..ma) \in Int /\ SumFunctionOnSet(f, 1..ma) <= ma * close
  <2> HIDE DEF w, prior
  <2>1. SumFunctionOnSet(f, 1..ma) \in Int
    BY <1>10, <1>11, SumInt
  <2>2. close \in Int
    BY <1>6
  <2>3. SumFunctionOnSet(f, 1..ma) <= Cardinality(1..ma) * close
    BY <1>10, <1>11, <2>2, SumAtMost
  <2> QED BY <1>10, <2>1, <2>3
<1> QED BY <1>1, <1>6, <1>12, <1>13

LEMMA HypeHolds ==
  ASSUME NEW c \in Seq(OhlcBars), NEW t, NEW d \in HypeDraft(c), NEW v \in HypeView(t, c)
  PROVE  HypeExit(v) \in {"earnings", "hold"}
<1>1. HypeEnough(c) /\ Spikes(c)
  BY DEF HypeDraft
<1>2. v.last = Latest(c) /\ v.closes = ClosesOf(LastBars(c, Windows.ma))
  BY <1>1 DEF HypeView
<1>3. Latest(c) \in OhlcBars
  <2>1. c # <<>>
    <3>1. Windows.trail \in Nat /\ Len(c) > Windows.trail
      BY <1>1, WindowsAssumption DEF Spikes
    <3> QED BY <3>1
  <2> QED BY <2>1, LatestIs
<1>4. ~(v.last.close < v.last.open)
  <2>1. Latest(c).close \in Nat /\ Latest(c).open \in Nat /\ Latest(c).close > Latest(c).open
    BY <1>1, <1>3 DEF Spikes, OhlcBars
  <2> QED BY <1>2, <2>1
<1>5. ~(v.last.close * Windows.ma < v.closes)
  <2>1. v.closes <= Windows.ma * v.last.close /\ v.closes \in Int
    BY <1>1, <1>2, AboveAverage
  <2>3. v.last.close \in Nat /\ Windows.ma \in Nat
    BY <1>2, <1>3, OhlcOf, WindowsAssumption
  <2>4. PICK a \in Int : a = Windows.ma * v.last.close /\ a = v.last.close * Windows.ma
    BY <2>3
  <2> QED BY <2>1, <2>4
<1> QED BY <1>4, <1>5 DEF HypeExit

LEMMA FlowHolds ==
  ASSUME holidays \in HolidayChoices, scanAt \in 0..Horizon["friday-monday"],
         NEW c, NEW d \in FlowDraft(c), NEW v \in FlowView(c)
  PROVE  FlowExit(v) \in {"target", "week end", "hold"}
<1>1. IsWeekCloseSession(scanAt, holidays)
  BY DEF FlowDraft
<1>2. ~IsWeekOpenSession(scanAt, holidays)
  BY <1>1, CalendarAssumption
<1>3. v.isWeekOpen = "no"
  BY <1>2 DEF FlowView, Flag
<1> QED BY <1>3 DEF FlowExit

\* A ratio 5% above the average of ratios like it is above it.
LEMMA RotationHolds ==
  ASSUME NEW c \in Seq(RatioBars), NEW d \in RotationDraft(c), NEW v \in RatioView(c)
  PROVE  ~Reverted(v)
<1> DEFINE paired    == {i \in DOMAIN c : c[i].ratio # 0}
           window(P) == {i \in P : Cardinality({j \in P : j > i}) < Windows.sma}
           ratios    == [i \in DOMAIN c |-> c[i].ratio]
<1>1. PICK u \in RatioView(c) : CrossedUp(u)
  BY DEF RotationDraft
<1>2. u = v
  BY <1>1 DEF RatioView
<1>3. PICK n \in Nat : n = Len(c) /\ DOMAIN c = 1..n /\ \A i \in 1..n : c[i] \in RatioBars
  OBVIOUS
<1>4. paired \subseteq 1..n /\ window(paired) \subseteq 1..n
  BY <1>3
<1>5. Cardinality(paired) >= Windows.sma /\ v.ratio = ratios[Max(paired)] /\ v.sum = SumFunctionOnSet(ratios, window(paired))
  BY DEF RatioView
<1>6. Windows.sma \in Nat /\ Windows.sma >= 1
  BY WindowsAssumption
<1>7. v.ratio \in Nat /\ v.ratio >= 1
  <2>1. paired # {}
    <3>1. Cardinality({}) = 0
      BY FS_EmptySet
    <3>2. Cardinality(paired) >= Windows.sma
      BY <1>5
    <3> HIDE DEF paired
    <3>3. paired = {} => FALSE
      BY <1>6, <3>1, <3>2
    <3> QED BY <3>3
  <2>2. Max(paired) \in paired
    <3>1. paired \subseteq Nat /\ \A i \in paired : i <= n
      BY <1>4
    <3> HIDE DEF paired
    <3> QED BY <2>1, <3>1, GreatestOf
  <2>3. PICK i \in 1..n : i = Max(paired) /\ c[i].ratio # 0
    BY <1>4, <2>2
  <2>4. c[i].ratio \in Nat
    BY <1>3, <2>3 DEF RatioBars
  <2>5. v.ratio = c[i].ratio
    BY <1>3, <1>5, <2>3
  <2> QED BY <2>3, <2>4, <2>5
<1>8. v.sum \in Int
  <2>1. \A i \in 1..n : ratios[i] \in Int
    BY <1>3 DEF RatioBars
  <2>2. IsFiniteSet(window(paired))
    <3>1. IsFiniteSet(1..n)
      BY FS_Interval
    <3> HIDE DEF window
    <3> QED BY <1>4, <3>1, FS_Subset
  <2> HIDE DEF ratios, window
  <2> QED BY <1>4, <1>5, <2>1, <2>2, SumInt
<1>9. 100 * v.ratio * Windows.sma >= 105 * v.sum
  BY <1>1, <1>2 DEF CrossedUp
<1>10. PICK a \in Nat : a = v.ratio * Windows.sma /\ 100 * v.ratio * Windows.sma = 100 * a /\ a >= 1
  <2>1. v.ratio * Windows.sma \in Nat /\ v.ratio * Windows.sma >= 1
    BY <1>6, <1>7
  <2>2. 100 * v.ratio * Windows.sma = 100 * (v.ratio * Windows.sma)
    BY <1>6, <1>7
  <2> QED BY <2>1, <2>2
<1> HIDE DEF paired, window, ratios
<1>11. ~(a <= v.sum)
  BY <1>8, <1>9, <1>10
<1> QED BY <1>10, <1>11 DEF Reverted

-----------------------------------------------------------------------------
(* From the entry to the exit                                              *)

\* The rules an entry does not look at.
Unseen == {"flatten", "earnings", "week end", "target"}

\* The view of a name as it is now keeps what was entered there, whatever its size.
Keeps(t, entry) == \A p : p.entry = entry => Manages(t, p) \in Unseen \union {"hold"}
Viewed(t, x)     == x.view = "entry's" => phase = "idle" /\ Keeps(t, x.entry)

EntryInv ==
  /\ phase \in {"idle", "reading"} /\ scanAt <= clock /\ clock <= Horizon[plugin]
  /\ plugin = "friday-monday" => holidays \in HolidayChoices
  /\ DOMAIN views = Names /\ DOMAIN found = Names /\ DOMAIN orders = Names /\ DOMAIN held = Names
  /\ \A t \in Names : /\ \A d \in found[t] : Keeps(t, d.entry)
                      /\ \A o \in orders[t] : Viewed(t, o)
                      /\ \A p \in held[t] : Viewed(t, p)
  /\ NoInstantExit

LEMMA EntryBegins == PluginInit => EntryInv
<1> SUFFICES ASSUME PluginInit PROVE EntryInv
  OBVIOUS
<1>1. plugin \in PluginIds /\ clock = Start[plugin] /\ scanAt = 0
  BY DEF PluginInit
<1>2. scanAt <= clock /\ clock <= Horizon[plugin]
  BY <1>1, PluginAssumption
<1> QED BY <1>2 DEF PluginInit, EntryInv, NoInstantExit

\* Whatever a scan signals on, the view it caches beside keeps.
LEMMA ReadKeeps ==
  ASSUME MarketInv, EntryInv, NEW t \in Names, ReadCandles(t), NEW d \in DraftOf(t, series[t])
  PROVE  Keeps(t, d.entry)'
<1> DEFINE c == series[t]
<1>1. /\ plugin' = plugin /\ plugin \in PluginIds /\ views'[t] = ViewOf(t, c) /\ c \in Seq(BarsOf(plugin))
  BY DEF ReadCandles, EntryInv, MarketInv
<1> SUFFICES ASSUME NEW p, p.entry = d.entry PROVE Manages(t, p)' \in Unseen \union {"hold"}
  BY DEF Keeps
<1>2. CASE plugin \in {"snapback", "earnings-fade", "valuation-gravity"}
  BY <1>1, <1>2 DEF Manages, Unseen
<1>3. CASE plugin # "snapback" /\ views'[t] = {}
  BY <1>1, <1>3 DEF Manages
<1>4. CASE plugin \in {"squeeze-scalp", "hype-momentum", "friday-monday", "qual-sphb"} /\ views'[t] # {}
  <2>1. PICK v \in ViewOf(t, c) : v = CHOOSE w \in views'[t] : TRUE
    BY <1>1, <1>4
  <2>2. CASE plugin = "squeeze-scalp"
    <3>1. c \in Seq(OhlcBars) /\ d \in SqueezeDraft(c) /\ v \in SqueezeView(c)
      BY <1>1, <2>2 DEF DraftOf, ViewOf, BarsOf
    <3>2. Manages(t, p)' = Ladder(p.entry, EntryQty, p.qty, v.lastPrice)
      BY <1>1, <1>4, <2>1, <2>2 DEF Manages
    <3> QED BY <3>1, <3>2, SqueezeHolds
  <2>3. CASE plugin = "hype-momentum"
    <3>1. c \in Seq(OhlcBars) /\ d \in HypeDraft(c) /\ v \in HypeView(t, c)
      BY <1>1, <2>3 DEF DraftOf, ViewOf, BarsOf
    <3>2. Manages(t, p)' = HypeExit(v)
      BY <1>1, <1>4, <2>1, <2>3 DEF Manages
    <3> QED BY <3>1, <3>2, HypeHolds DEF Unseen
  <2>4. CASE plugin = "friday-monday"
    <3>1. d \in FlowDraft(c) /\ v \in FlowView(c)
      BY <1>1, <2>4 DEF DraftOf, ViewOf
    <3>2. Manages(t, p)' = FlowExit(v)
      BY <1>1, <1>4, <2>1, <2>4 DEF Manages
    <3>3. scanAt \in 0..Horizon["friday-monday"] /\ holidays \in HolidayChoices
      BY <2>4, PluginAssumption DEF EntryInv, MarketInv
    <3> QED BY <3>1, <3>2, <3>3, FlowHolds DEF Unseen
  <2>5. CASE plugin = "qual-sphb"
    <3>1. c \in Seq(RatioBars) /\ d \in RotationDraft(c) /\ v \in RatioView(c)
      BY <1>1, <2>5 DEF DraftOf, ViewOf, BarsOf
    <3>2. Manages(t, p)' = IF Reverted(v) THEN "reverted" ELSE "hold"
      BY <1>1, <1>4, <2>1, <2>5 DEF Manages
    <3> QED BY <3>1, <3>2, RotationHolds
  <2> QED BY <1>4, <2>2, <2>3, <2>4, <2>5
<1> QED BY <1>1, <1>2, <1>3, <1>4 DEF PluginIds

\* What keeps goes on keeping while its view stays: the bell alone looks at the clock.
LEMMA KeptOn ==
  ASSUME MarketInv, plugin' = plugin, NEW t, views'[t] = views[t], NEW entry, Keeps(t, entry)
  PROVE  Keeps(t, entry)'
<1> SUFFICES ASSUME NEW p, p.entry = entry PROVE Manages(t, p)' \in Unseen \union {"hold"}
  BY DEF Keeps
<1>1. Manages(t, p) \in Unseen \union {"hold"}
  BY DEF Keeps
<1>2. CASE plugin = "snapback"
  BY <1>2 DEF Manages, Unseen
<1>3. CASE plugin # "snapback"
  BY <1>1, <1>3 DEF Manages
<1> QED BY <1>2, <1>3

\* The same of all names and of what is drafted, ordered and held.
LEMMA ViewedOn ==
  ASSUME MarketInv, plugin' = plugin, NEW t, views'[t] = views[t], NEW x, Viewed(t, x), phase' = phase \/ phase' = "idle"
  PROVE  Viewed(t, x)'
BY KeptOn DEF Viewed

LEMMA ManageEntry == ASSUME MarketInv, EntryInv, NEW t \in Names, Manage(t) PROVE EntryInv'
<1>1. /\ plugin' = plugin /\ holidays' = holidays /\ clock' = clock /\ phase' = phase /\ scanAt' = scanAt
      /\ views' = views /\ found' = found /\ orders' = orders
  BY DEF Manage, scanVars
<1>2. PICK p \in held[t] :
        \/ held' = held /\ lastExit' = lastExit
        \/ held' = [held EXCEPT ![t] = {[p EXCEPT !.qty = @ - EntryQty \div 2]}] /\ lastExit' = lastExit
           /\ Manages(t, p) = "scale-out"
        \/ /\ held' = [held EXCEPT ![t] = {}] /\ lastExit' = [rule |-> Manages(t, p), view |-> p.view]
           /\ Manages(t, p) # "hold"
  BY DEF Manage
<1>3. Viewed(t, p)
  BY DEF EntryInv
<1>4. NoInstantExit'
  <2>1. CASE lastExit' = lastExit
    BY <2>1 DEF EntryInv, NoInstantExit
  <2>2. CASE lastExit' = [rule |-> Manages(t, p), view |-> p.view] /\ Manages(t, p) # "hold"
    <3>1. p.view = "entry's" => Manages(t, p) \in Unseen \union {"hold"}
      BY <1>3 DEF Viewed, Keeps
    <3> QED BY <2>2, <3>1 DEF NoInstantExit, Unseen
  <2> QED BY <1>2, <2>1, <2>2
<1>5. ASSUME NEW u \in Names, NEW q \in held'[u] PROVE Viewed(u, q)
  <2>1. CASE q \in held[u]
    BY <2>1 DEF EntryInv
  <2>2. CASE q \notin held[u]
    <3>1. u = t /\ q = [p EXCEPT !.qty = @ - EntryQty \div 2] /\ Manages(t, p) = "scale-out"
      BY <1>2, <1>5, <2>2 DEF EntryInv
    <3>2. ~(p.view = "entry's")
      BY <1>3, <3>1 DEF Viewed, Keeps, Unseen
    <3>3. q.view = p.view
      BY <3>1
    <3> QED BY <3>2, <3>3 DEF Viewed
  <2> QED BY <2>1, <2>2
<1>6. \A u \in Names : \A d \in found'[u] : Keeps(u, d.entry)'
  BY <1>1, KeptOn DEF EntryInv
<1>8. \A u \in Names : \A o \in orders'[u] : Viewed(u, o)'
  BY <1>1, ViewedOn DEF EntryInv
<1>9. \A u \in Names : \A q \in held'[u] : Viewed(u, q)'
  BY <1>1, <1>5, ViewedOn
<1>7. DOMAIN held' = Names
  BY <1>2 DEF EntryInv
<1> QED BY <1>1, <1>4, <1>6, <1>7, <1>8, <1>9 DEF EntryInv, NoInstantExit

LEMMA FillsEntered == ASSUME MarketInv, EntryInv, NEW t \in Names, NEW size, Fills(t, size) PROVE EntryInv'
<1>1. /\ plugin' = plugin /\ holidays' = holidays /\ clock' = clock /\ phase' = phase /\ scanAt' = scanAt
      /\ views' = views /\ found' = found /\ orders' = [orders EXCEPT ![t] = {}] /\ lastExit' = lastExit
  BY DEF Fills, scanVars
<1>2. PICK o \in orders[t] :
        held' = [held EXCEPT ![t] = {[entry |-> o.entry, size |-> size, qty |-> size, view |-> o.view]}]
  BY DEF Fills
<1>3. Viewed(t, o)
  BY DEF EntryInv
<1>4. ASSUME NEW u \in Names, NEW q \in held'[u] PROVE Viewed(u, q)
  <2>1. CASE q \in held[u]
    BY <2>1 DEF EntryInv
  <2>2. CASE q \notin held[u]
    <3>1. u = t /\ q = [entry |-> o.entry, size |-> size, qty |-> size, view |-> o.view]
      BY <1>2, <1>4, <2>2 DEF EntryInv
    <3>2. q.view = o.view /\ q.entry = o.entry
      BY <3>1
    <3> QED BY <1>3, <3>1, <3>2 DEF Viewed
  <2> QED BY <2>1, <2>2
<1>5. \A u \in Names : orders'[u] \subseteq orders[u]
  BY <1>1 DEF EntryInv
<1>6. \A u \in Names : \A d \in found'[u] : Keeps(u, d.entry)'
  BY <1>1, KeptOn DEF EntryInv
<1>8. \A u \in Names : \A x \in orders'[u] : Viewed(u, x)'
  BY <1>1, <1>5, ViewedOn DEF EntryInv
<1>9. \A u \in Names : \A q \in held'[u] : Viewed(u, q)'
  BY <1>1, <1>4, ViewedOn
<1>7. DOMAIN held' = Names /\ DOMAIN orders' = Names /\ NoInstantExit'
  BY <1>1, <1>2 DEF EntryInv, NoInstantExit
<1> QED BY <1>1, <1>6, <1>7, <1>8, <1>9 DEF EntryInv, NoInstantExit

LEMMA FinishEntry == ASSUME MarketInv, EntryInv, FinishScan PROVE EntryInv'
<1>1. /\ plugin' = plugin /\ holidays' = holidays /\ clock' = clock /\ phase' = "idle" /\ scanAt' = scanAt
      /\ views' = views /\ held' = held /\ lastExit' = lastExit /\ found' = [t \in Names |-> {}]
  BY DEF FinishScan
<1>2. PICK passed \in SUBSET {t \in Names : \E d \in found[t] : d.side # "none"} :
        orders' = [t \in Names |-> IF t \in passed /\ held[t] = {} THEN found[t] ELSE orders[t]]
  BY DEF FinishScan
<1>3. ASSUME NEW u \in Names, NEW o \in orders'[u] PROVE Viewed(u, o)'
  <2>1. CASE o \in orders[u]
    BY <1>1, <2>1, ViewedOn DEF EntryInv
  <2>2. CASE o \notin orders[u]
    <3>1. o \in found[u]
      BY <1>2, <1>3, <2>2
    <3>2. Keeps(u, o.entry)'
      BY <1>1, <3>1, KeptOn DEF EntryInv
    <3> QED BY <1>1, <3>2 DEF Viewed
  <2> QED BY <2>1, <2>2
<1>4. \A u \in Names : \A q \in held[u] : Viewed(u, q)'
  BY <1>1, ViewedOn DEF EntryInv
<1> QED BY <1>1, <1>2, <1>3, <1>4 DEF EntryInv, NoInstantExit

LEMMA BeginEntry == ASSUME MarketInv, EntryInv, BeginScan PROVE EntryInv'
<1>1. /\ plugin' = plugin /\ holidays' = holidays /\ clock' = clock /\ phase' = "reading" /\ scanAt' = clock
      /\ found' = [t \in Names |-> {}] /\ orders' = [t \in Names |-> Aged(orders[t])]
      /\ held' = [t \in Names |-> Aged(held[t])] /\ lastExit' = [rule |-> "none", view |-> "none"]
      /\ views' = IF plugin = "qual-sphb" THEN views ELSE [t \in Names |-> {}]
  BY DEF BeginScan
<1>2. ASSUME NEW xs, NEW x \in Aged(xs) PROVE x.view # "entry's"
  <2>1. PICK y \in xs : x = [y EXCEPT !.view = "older"]
    BY <1>2 DEF Aged
  <2> QED BY <2>1
<1>3. \A u \in Names : (\A o \in orders'[u] : Viewed(u, o)') /\ \A q \in held'[u] : Viewed(u, q)'
  BY <1>1, <1>2 DEF Viewed
<1>4. scanAt' <= clock' /\ clock' <= Horizon[plugin']
  BY <1>1 DEF EntryInv, MarketInv
<1> QED BY <1>1, <1>3, <1>4 DEF EntryInv, NoInstantExit

LEMMA ReadEntry == ASSUME MarketInv, EntryInv, NEW t \in Names, ReadCandles(t) PROVE EntryInv'
<1>1. /\ plugin' = plugin /\ holidays' = holidays /\ clock' = clock /\ scanAt' = scanAt
      /\ phase = "reading" /\ phase' = phase /\ orders' = orders /\ held' = held /\ lastExit' = lastExit
      /\ views' = [views EXCEPT ![t] = ViewOf(t, series[t])]
      /\ found' = [found EXCEPT ![t] = DraftOf(t, series[t])]
  BY DEF ReadCandles, tradeVars
<1>2. ASSUME NEW u \in Names, NEW d \in found'[u] PROVE Keeps(u, d.entry)'
  <2>1. CASE u = t
    BY <1>1, <1>2, <2>1, ReadKeeps DEF EntryInv
  <2>2. CASE u # t
    <3>1. views'[u] = views[u] /\ d \in found[u]
      BY <1>1, <1>2, <2>2 DEF EntryInv
    <3> QED BY <1>1, <3>1, KeptOn DEF EntryInv
  <2> QED BY <2>1, <2>2
<1>3. \A u \in Names : (\A o \in orders[u] : Viewed(u, o)') /\ \A q \in held[u] : Viewed(u, q)'
  BY <1>1 DEF EntryInv, Viewed
<1> QED BY <1>1, <1>2, <1>3 DEF EntryInv, NoInstantExit

LEMMA EntryStep == MarketInv /\ EntryInv /\ [PluginNext]_pluginVars => EntryInv'
<1> SUFFICES ASSUME MarketInv, EntryInv, [PluginNext]_pluginVars PROVE EntryInv'
  OBVIOUS
<1>1. ASSUME UNCHANGED <<plugin, holidays, scanAt, views, orders, held, lastExit>>,
             clock' = clock \/ (clock' = clock + 1 /\ clock < Horizon[plugin]),
             phase' = phase \/ phase' = "idle", found' = found \/ found' = [t \in Names |-> {}]
      PROVE  EntryInv'
  <2>1. \A t \in Names : \A d \in found'[t] : Keeps(t, d.entry)'
    BY <1>1, KeptOn DEF EntryInv
  <2>3. \A t \in Names : (\A o \in orders'[t] : Viewed(t, o)') /\ \A p \in held'[t] : Viewed(t, p)'
    BY <1>1, ViewedOn DEF EntryInv
  <2>2. scanAt' <= clock' /\ clock' <= Horizon[plugin]
    <3>1. clock \in Nat /\ scanAt \in Nat /\ Horizon[plugin] \in Nat
      BY PluginAssumption DEF MarketInv
    <3> QED BY <1>1, <3>1 DEF EntryInv
  <2> QED BY <1>1, <2>1, <2>2, <2>3 DEF EntryInv, NoInstantExit
<1>2. CASE Passes \/ ReadFails
  BY <1>1, <1>2 DEF Passes, ReadFails, scanVars, tradeVars
<1>3. CASE BeginScan
  BY <1>3, BeginEntry
<1>4. CASE FinishScan
  BY <1>4, FinishEntry
<1>5. ASSUME NEW t \in Names, ReadCandles(t) PROVE EntryInv'
  BY <1>5, ReadEntry
<1>6. ASSUME NEW t \in Names, Manage(t) PROVE EntryInv'
  BY <1>6, ManageEntry
<1>7. ASSUME NEW t \in Names, NEW bar, BarArrives(t, bar) PROVE EntryInv'
  BY <1>1, <1>7 DEF BarArrives, scanVars, tradeVars
<1>8. ASSUME NEW t \in Names, NEW size, Fills(t, size) PROVE EntryInv'
  BY <1>8, FillsEntered
<1>9. CASE UNCHANGED pluginVars
  BY <1>1, <1>9 DEF pluginVars, scanVars, tradeVars
<1> QED BY <1>2, <1>3, <1>4, <1>5, <1>6, <1>7, <1>8, <1>9 DEF PluginNext

\* The view an entry was signalled on never closes it, for any candles, but by the bell, the
\* report, the week's end or the target.
THEOREM EntriesAreKept == PluginSpec => []NoInstantExit
<1>1. EntryInv => NoInstantExit
  BY DEF EntryInv
<1> QED BY <1>1, MarketBegins, MarketStep, EntryBegins, EntryStep, PTL DEF PluginSpec

-----------------------------------------------------------------------------
(* Screening: the verdict and the list                                     *)

\* What the gate relies on: a verdict to proceed was said in time, and the list has every
\* name of the research that was stored last.
Answerable == verdict.verdict = "proceed" => said = "proceed"

RowsFrom(names, day) == {[ticker |-> t, expiresAt |-> day + TtlDays] : t \in names}

ListHasLatest == RowsFrom(latest.names, latest.on) \subseteq crowded

\* What a research gave is stored under the names it gave, whatever their spelling.
StoresNames == \A r \in Refreshes : research[r].names = research[r].named

\* The history is yes while the stored research does not name the signal's ticker, and a
\* long signal passes the check only where it does not.
HistoryFollows ==
  /\ job \in {"gating", "weighing"} /\ ~NamedBy(latest, today, signal.ticker) => clear = "yes"
  /\ job = "weighing" => verdict.verdict = "proceed"
  /\ job = "weighing" /\ signal.side = "long" => clear = "yes"

SInv == ScreeningTypeOK /\ Answerable /\ ListHasLatest /\ StoresNames /\ HistoryFollows

\* The parts of the type invariant that single steps need.
LEMMA DayTyped ==
  ASSUME ScreeningTypeOK
  PROVE  today \in Nat /\ today \in 0..today /\ 0 \in 0..today /\ today <= LastDay
<1>1. today \in 0..LastDay
  BY DEF ScreeningTypeOK
<1> QED BY <1>1, ScreeningAssumption

LEMMA SignalTyped ==
  ASSUME ScreeningTypeOK
  PROVE  /\ signal \in [ticker : Listed, side : {"long", "short"}]
         /\ verdict \in [verdict : {"proceed", "veto"}, failure : {"none", "failed"}]
  BY DEF ScreeningTypeOK

LEMMA ListTyped ==
  ASSUME ScreeningTypeOK
  PROVE  crowded \subseteq [ticker : Listed, expiresAt : 0..LastDay + TtlDays]
  BY DEF ScreeningTypeOK

LEMMA InitHolds == ScreeningInit => SInv
<1> SUFFICES ASSUME ScreeningInit PROVE SInv
  OBVIOUS
<1>1. /\ research \in [Refreshes -> [names : SUBSET Listed, named : SUBSET Listed, stamp : 0..today]]
      /\ latest \in [names : SUBSET Listed, on : 0..today]
      /\ doomed \in [Refreshes -> SUBSET [ticker : Listed, expiresAt : 0..LastDay + TtlDays]]
  BY ScreeningAssumption DEF ScreeningInit, NoResearch
<1>2. ScreeningTypeOK
  BY <1>1, ScreeningAssumption DEF ScreeningInit, ScreeningTypeOK, Veto
<1>3. ListHasLatest /\ StoresNames
  BY DEF ScreeningInit, ListHasLatest, RowsFrom, StoresNames, NoResearch
<1> QED BY <1>2, <1>3 DEF ScreeningInit, SInv, Answerable, HistoryFollows, Veto

\* What a signal's own steps do, all but the check.
Analysis ==
  \/ \E t \in Listed, side \in {"long", "short"} : Ask(t, side)
  \/ \E candidate \in {"proceed", "veto", "malformed", "throws"} : Answered(candidate)
  \/ TimesOut \/ LateAnswer \/ PersistAnalysis \/ Vetoed \/ CheckCrowding \/ HandOver \/ JobDies

\* A name of the last research is crowded until its time to live is over.
LEMMA CrowdedUntil ==
  ASSUME SInv, NEW t \in Listed, NamedBy(latest, today, t)
  PROVE  IsCrowded(t)
<1> DEFINE row == [ticker |-> t, expiresAt |-> latest.on + TtlDays]
<1>1. row \in crowded
  BY DEF SInv, ListHasLatest, RowsFrom, NamedBy
<1>2. latest.on + TtlDays > today
  <2>1. today < latest.on + TtlDays /\ latest.on \in 0..today /\ today \in 0..LastDay
    BY DEF NamedBy, SInv, ScreeningTypeOK
  <2> QED BY <2>1, ScreeningAssumption
<1>3. row.ticker = t /\ row.expiresAt = latest.on + TtlDays
  OBVIOUS
<1> HIDE DEF row
<1> QED BY <1>1, <1>2, <1>3 DEF IsCrowded

LEMMA AnalysisTyped == SInv /\ Analysis => ScreeningTypeOK'
<1> SUFFICES ASSUME SInv, Analysis PROVE ScreeningTypeOK'
  OBVIOUS
<1> USE DEF Concluded, Forgets
<1>1. UNCHANGED <<today, crowdingVars>>
  BY DEF Analysis, Ask, Answered, TimesOut, LateAnswer, PersistAnalysis, Vetoed, CheckCrowding,
         HandOver, JobDies
<1>2. signal' \in [ticker : Listed, side : {"long", "short"}]
  <2>1. signal' = signal \/ \E t \in Listed, side \in {"long", "short"} : signal' = [ticker |-> t, side |-> side]
    BY DEF Analysis, analysisVars, Ask, Answered, TimesOut, LateAnswer, PersistAnalysis, Vetoed,
           CheckCrowding, HandOver, JobDies
  <2> QED BY <2>1, SignalTyped DEF SInv
<1>3. verdict' \in [verdict : {"proceed", "veto"}, failure : {"none", "failed"}]
  <2>1. \/ verdict' = verdict
        \/ verdict' = Veto("none") \/ verdict' = Veto("failed")
        \/ verdict' = [verdict |-> "proceed", failure |-> "none"]
    BY DEF Analysis, analysisVars, Ask, Answered, Parsed, TimesOut, LateAnswer, PersistAnalysis, Vetoed,
           CheckCrowding, HandOver, JobDies
  <2> QED BY <2>1, SignalTyped DEF SInv, Veto
<1>4. /\ job' \in {"none", "analysing", "logging", "gating", "weighing", "refreshing"}
      /\ calls' \subseteq {"this", "given up"}
      /\ outcome' \in {"none", "vetoed", "crowded", "passed"}
      /\ said' \in {"nothing", "proceed", "veto", "malformed", "throws"}
      /\ clear' \in {"yes", "no"}
  BY DEF SInv, ScreeningTypeOK, Analysis, analysisVars, Ask, Answered, TimesOut, LateAnswer,
         PersistAnalysis, Vetoed, CheckCrowding, HandOver, JobDies
<1> QED BY <1>1, <1>2, <1>3, <1>4 DEF SInv, ScreeningTypeOK, crowdingVars, refreshVars

\* The check lets a long signal on only where the list, and so the last research, does not
\* name it.
LEMMA AnalysisHolds == SInv /\ Analysis => SInv'
<1> SUFFICES ASSUME SInv, Analysis PROVE SInv'
  OBVIOUS
<1> USE DEF Concluded, Forgets
<1>1. UNCHANGED <<today, crowdingVars>>
  BY DEF Analysis, Ask, Answered, TimesOut, LateAnswer, PersistAnalysis, Vetoed, CheckCrowding,
         HandOver, JobDies
<1>2. Answerable'
  <2>1. \/ UNCHANGED <<verdict, said>>
        \/ verdict' = Veto("none") \/ verdict' = Veto("failed")
        \/ verdict' = [verdict |-> "proceed", failure |-> "none"] /\ said' = "proceed"
    BY DEF Analysis, analysisVars, Ask, Answered, Parsed, TimesOut, LateAnswer, PersistAnalysis, Vetoed,
           CheckCrowding, HandOver, JobDies
  <2> QED BY <2>1 DEF SInv, Answerable, Veto
<1>3. ListHasLatest' /\ StoresNames'
  BY <1>1 DEF SInv, ListHasLatest, StoresNames, RowsFrom, crowdingVars, refreshVars
<1>4. HistoryFollows'
  <2>1. CASE PersistAnalysis
    BY <1>1, <2>1 DEF PersistAnalysis, analysisVars, crowdingVars, HistoryFollows, NamedBy
  <2>2. CASE CheckCrowding
    <3>1. CASE signal.side = "long" /\ IsCrowded(signal.ticker)
      BY <2>2, <3>1 DEF CheckCrowding, HistoryFollows
    <3>2. CASE ~(signal.side = "long" /\ IsCrowded(signal.ticker))
      <4>1. /\ job = "gating" /\ job' = "weighing" /\ verdict.verdict = "proceed"
            /\ UNCHANGED <<clear, verdict, signal, today, latest>>
        BY <1>1, <2>2, <3>2 DEF CheckCrowding, analysisVars, crowdingVars
      <4>2. signal.ticker \in Listed
        BY DEF SInv, ScreeningTypeOK
      <4>3. signal.side = "long" => clear = "yes"
        BY <3>2, <4>1, <4>2, CrowdedUntil DEF SInv, HistoryFollows
      <4> QED BY <4>1, <4>3 DEF SInv, HistoryFollows, NamedBy
    <3> QED BY <3>1, <3>2
  <2>3. CASE LateAnswer
    BY <1>1, <2>3 DEF LateAnswer, crowdingVars, SInv, HistoryFollows, NamedBy
  <2>4. CASE ~PersistAnalysis /\ ~CheckCrowding /\ ~LateAnswer
    <3>1. job' \in {"none", "analysing", "logging"}
      BY <2>4 DEF Analysis, Ask, Answered, TimesOut, Vetoed, HandOver, JobDies
    <3> QED BY <3>1 DEF HistoryFollows
  <2> QED BY <2>1, <2>2, <2>3, <2>4
<1> QED BY <1>2, <1>3, <1>4, AnalysisTyped DEF SInv

\* A refresh on its way, or given up, leaves the list and the signal alone.
LEMMA ResearchHolds ==
  ASSUME SInv, NEW r \in Refreshes,
         \/ StartRefresh(r) \/ ResearchFails(r) \/ DeleteRows(r) \/ RefreshDies(r)
         \/ \E entries \in SUBSET Spellings : ResearchEnds(r, entries)
  PROVE  SInv'
<1> USE DEF Abandons, WorkerTurns
<1>1. UNCHANGED <<today, clear, analysisVars, crowded, latest>>
  BY DEF StartRefresh, ResearchFails, DeleteRows, RefreshDies, ResearchEnds
<1>2. job' \in {job, "none", "refreshing"}
  BY DEF StartRefresh, ResearchFails, DeleteRows, RefreshDies, ResearchEnds
<1>3. /\ research' \in [Refreshes -> [names : SUBSET Listed, named : SUBSET Listed, stamp : 0..today]]
      /\ StoresNames'
  <2> DEFINE Given == {g \in [names : SUBSET Listed, named : SUBSET Listed, stamp : 0..today] :
                         g.names = g.named}
  <2>1. \A s \in Refreshes : research[s] \in Given
    BY DEF SInv, ScreeningTypeOK, StoresNames
  <2>2. NoResearch \in Given
    BY DayTyped DEF SInv, NoResearch
  <2>3. ASSUME NEW entries \in SUBSET Spellings
        PROVE  [names |-> DedupeByTicker(entries), named |-> {e[1] : e \in entries}, stamp |-> today]
                 \in Given
    <3>1. {e[1] : e \in entries} \subseteq Listed
      BY DEF Spellings
    <3>2. today \in 0..today
      BY DayTyped DEF SInv
    <3> QED BY <3>1, <3>2 DEF DedupeByTicker
  <2> HIDE DEF Given
  <2>4. research' = research \/ \E g \in Given : research' = [research EXCEPT ![r] = g]
    BY <2>2, <2>3 DEF StartRefresh, ResearchFails, DeleteRows, RefreshDies, ResearchEnds
  <2>5. research \in [Refreshes -> Given]
    BY <2>1 DEF SInv, ScreeningTypeOK
  <2>6. research' \in [Refreshes -> Given]
    BY <2>4, <2>5
  <2> QED BY <2>6 DEF Given, StoresNames
<1>4. doomed' \in [Refreshes -> SUBSET [ticker : Listed, expiresAt : 0..LastDay + TtlDays]]
  <2> DEFINE R == SUBSET [ticker : Listed, expiresAt : 0..LastDay + TtlDays]
  <2>1. doomed \in [Refreshes -> R] /\ crowded \in R /\ {} \in R
    BY DEF SInv, ScreeningTypeOK
  <2> HIDE DEF R
  <2>2. doomed' = doomed \/ \E d \in R : doomed' = [doomed EXCEPT ![r] = d]
    BY <2>1 DEF StartRefresh, ResearchFails, DeleteRows, RefreshDies, ResearchEnds
  <2>3. doomed' \in [Refreshes -> R]
    BY <2>1, <2>2
  <2> QED BY <2>3 DEF R
<1>5. refresh' \in [Refreshes -> {"idle", "researching", "replacing", "inserting"}]
  BY DEF SInv, ScreeningTypeOK, StartRefresh, ResearchFails, DeleteRows, RefreshDies, ResearchEnds
<1>6. ScreeningTypeOK'
  <2>1. /\ job' \in {"none", "analysing", "logging", "gating", "weighing", "refreshing"}
        /\ signal' \in [ticker : Listed, side : {"long", "short"}]
        /\ calls' \subseteq {"this", "given up"}
        /\ verdict' \in [verdict : {"proceed", "veto"}, failure : {"none", "failed"}]
        /\ outcome' \in {"none", "vetoed", "crowded", "passed"}
        /\ said' \in {"nothing", "proceed", "veto", "malformed", "throws"}
        /\ clear' \in {"yes", "no"}
    BY <1>1, <1>2 DEF SInv, ScreeningTypeOK, analysisVars
  <2>2. today' = today /\ latest' = latest /\ crowded' = crowded
    BY <1>1
  <2>3. /\ today \in 0..LastDay /\ latest \in [names : SUBSET Listed, on : 0..today]
        /\ crowded \subseteq [ticker : Listed, expiresAt : 0..LastDay + TtlDays]
    BY DEF SInv, ScreeningTypeOK
  <2> QED BY <1>3, <1>4, <1>5, <2>1, <2>2, <2>3 DEF ScreeningTypeOK
<1>7. Answerable' /\ ListHasLatest'
  BY <1>1 DEF SInv, Answerable, ListHasLatest, RowsFrom, analysisVars
<1>8. HistoryFollows'
  BY <1>1, <1>2 DEF SInv, HistoryFollows, NamedBy, analysisVars
<1> QED BY <1>3, <1>6, <1>7, <1>8 DEF SInv

\* Whatever rows it deletes, a refresh stores its own, and is the last then.
LEMMA StoreHolds == ASSUME SInv, NEW r \in Refreshes, StoreRows(r) PROVE SInv'
<1> DEFINE given == research[r]
<1>1. given \in [names : SUBSET Listed, named : SUBSET Listed, stamp : 0..today] /\ given.names = given.named
  BY DEF SInv, ScreeningTypeOK, StoresNames
<1>2. /\ latest' = [names |-> given.named, on |-> given.stamp]
      /\ crowded' = (crowded \ doomed[r]) \union RowsFrom(given.names, given.stamp)
      /\ UNCHANGED <<today, analysisVars>> /\ clear' = Cleared(latest', today)
      /\ research' = [research EXCEPT ![r] = NoResearch]
      /\ refresh' = [refresh EXCEPT ![r] = "idle"]
      /\ doomed' = [q \in Refreshes |-> IF q = r THEN {} ELSE doomed[q] \ RowsOf(r)]
      /\ job' \in {job, "none"}
  BY DEF StoreRows, RowsOf, RowsFrom, WorkerTurns
<1> HIDE DEF given
<1>3. latest' \in [names : SUBSET Listed, on : 0..today]
  BY <1>1, <1>2
<1>4. crowded' \subseteq [ticker : Listed, expiresAt : 0..LastDay + TtlDays]
  <2> SUFFICES ASSUME NEW t \in given.names
               PROVE  [ticker |-> t, expiresAt |-> given.stamp + TtlDays]
                        \in [ticker : Listed, expiresAt : 0..LastDay + TtlDays]
    BY <1>2, ListTyped DEF SInv, RowsFrom
  <2>1. t \in Listed /\ given.stamp \in 0..today /\ today \in 0..LastDay
    BY <1>1, DayTyped DEF SInv
  <2>2. given.stamp + TtlDays \in 0..LastDay + TtlDays
    BY <2>1, ScreeningAssumption
  <2> QED BY <2>1, <2>2
<1>5. /\ research' \in [Refreshes -> [names : SUBSET Listed, named : SUBSET Listed, stamp : 0..today]]
      /\ StoresNames'
  <2>1. NoResearch \in [names : SUBSET Listed, named : SUBSET Listed, stamp : 0..today]
    BY DayTyped DEF SInv, NoResearch
  <2> QED BY <1>2, <2>1 DEF SInv, ScreeningTypeOK, StoresNames, NoResearch
<1>6. doomed' \in [Refreshes -> SUBSET [ticker : Listed, expiresAt : 0..LastDay + TtlDays]]
  <2>1. \A q \in Refreshes : doomed[q] \subseteq [ticker : Listed, expiresAt : 0..LastDay + TtlDays]
    BY DEF SInv, ScreeningTypeOK
  <2> QED BY <1>2, <2>1
<1>7. clear' \in {"yes", "no"}
  BY <1>2 DEF Cleared, SInv, ScreeningTypeOK
<1>8. ScreeningTypeOK'
  BY <1>2, <1>3, <1>4, <1>5, <1>6, <1>7 DEF SInv, ScreeningTypeOK, analysisVars
<1>9. ListHasLatest'
  BY <1>1, <1>2 DEF ListHasLatest
<1>10. HistoryFollows'
  BY <1>2 DEF SInv, HistoryFollows, Cleared, analysisVars
<1> QED BY <1>2, <1>5, <1>8, <1>9, <1>10 DEF SInv, Answerable, analysisVars

LEMMA DayHolds == SInv /\ DayPasses => SInv'
<1> SUFFICES ASSUME SInv, DayPasses PROVE SInv'
  OBVIOUS
<1>1. /\ today' \in 0..LastDay /\ today \in 0..today' /\ today \in Nat /\ today' \in Nat
      /\ UNCHANGED <<job, dialog, analysisVars, crowdingVars>> /\ clear' = Cleared(latest, today')
  <2>1. today \in Nat /\ today < LastDay /\ today' = today + 1 /\ LastDay \in Nat
    BY DayTyped, ScreeningAssumption DEF SInv, DayPasses
  <2>2. today' \in 0..LastDay /\ today \in 0..today' /\ today' \in Nat
    BY <2>1
  <2> QED BY <2>1, <2>2 DEF DayPasses
<1>2. \A d \in 0..today : d \in 0..today'
  BY <1>1
<1>3. research \in [Refreshes -> [names : SUBSET Listed, named : SUBSET Listed, stamp : 0..today']]
  BY <1>2 DEF SInv, ScreeningTypeOK
<1>4. latest \in [names : SUBSET Listed, on : 0..today']
  BY <1>2 DEF SInv, ScreeningTypeOK
<1>5. clear' \in {"yes", "no"}
  BY <1>1 DEF Cleared, SInv, ScreeningTypeOK
<1>6. ScreeningTypeOK'
  BY <1>1, <1>3, <1>4, <1>5 DEF SInv, ScreeningTypeOK, analysisVars, crowdingVars, refreshVars
<1>7. HistoryFollows'
  BY <1>1 DEF SInv, HistoryFollows, Cleared, analysisVars, crowdingVars
<1> QED BY <1>1, <1>6, <1>7 DEF SInv, Answerable, ListHasLatest, RowsFrom, StoresNames, analysisVars,
           crowdingVars, refreshVars

LEMMA StepHolds == SInv /\ [ScreeningNext]_screeningVars => SInv'
<1> SUFFICES ASSUME SInv, [ScreeningNext]_screeningVars PROVE SInv'
  OBVIOUS
<1>1. CASE UNCHANGED screeningVars
  <2>1. UNCHANGED <<today, job, clear, signal, calls, verdict, outcome, said, refresh, research,
                    doomed, crowded, latest>>
    BY <1>1 DEF screeningVars, analysisVars, crowdingVars, refreshVars
  <2>2. ScreeningTypeOK'
    BY <2>1 DEF SInv, ScreeningTypeOK
  <2>3. Answerable' /\ ListHasLatest' /\ StoresNames'
    BY <2>1 DEF SInv, Answerable, ListHasLatest, RowsFrom, StoresNames
  <2>4. HistoryFollows'
    BY <2>1 DEF SInv, HistoryFollows, NamedBy
  <2> QED BY <2>2, <2>3, <2>4 DEF SInv
<1>2. CASE Analysis
  BY <1>2, AnalysisHolds
<1>3. ASSUME NEW r \in Refreshes, StoreRows(r) PROVE SInv'
  BY <1>3, StoreHolds
<1> QED BY <1>1, <1>2, <1>3, ResearchHolds, DayHolds DEF ScreeningNext, Analysis

LEMMA Invariant == ScreeningSpec => []SInv
  BY InitHolds, StepHolds, PTL DEF ScreeningSpec

\* Every variable keeps its type.
THEOREM ScreeningTyped == ScreeningSpec => []ScreeningTypeOK
<1>1. SInv => ScreeningTypeOK
  BY DEF SInv
<1> QED BY <1>1, Invariant, PTL

\* A signal reaches the risk manager only on a verdict given in time and, to go long, where
\* the last research stored did not name it once since the verdict: whatever failed, came
\* late or died, and whoever replaced the list beside it.
THEOREM SignalsAreScreened == ScreeningSpec => PassedIsScreened
<1>1. SInv /\ [ScreeningNext]_screeningVars =>
        (outcome' = "passed" /\ outcome # "passed" =>
           said = "proceed" /\ (signal.side = "long" => clear = "yes"))
  <2> SUFFICES ASSUME SInv, [ScreeningNext]_screeningVars, outcome' = "passed", outcome # "passed"
               PROVE  said = "proceed" /\ (signal.side = "long" => clear = "yes")
    OBVIOUS
  <2>1. HandOver
    BY DEF ScreeningNext, screeningVars, analysisVars, Ask, Answered, TimesOut, LateAnswer,
           PersistAnalysis, Vetoed, CheckCrowding, Concluded, StartRefresh, ResearchEnds, ResearchFails,
           DeleteRows, StoreRows, RefreshDies, Abandons, JobDies, DayPasses
  <2> QED BY <2>1 DEF HandOver, SInv, HistoryFollows, Answerable
<1> QED BY <1>1, Invariant, PTL DEF ScreeningSpec, PassedIsScreened
=============================================================================
