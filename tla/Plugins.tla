------------------------------- MODULE Plugins -------------------------------
(***************************************************************************)
(* A strategy plug-in under the pipeline (packages/strategies/src): scan   *)
(* reads the roster and, name by name, the candles; it caches what manage  *)
(* will need and returns signals; a signal becomes an order or not, an     *)
(* order a position; the monitor hands each position to manage, which      *)
(* decides from the cache alone.  Meanwhile bars arrive and grow and days  *)
(* pass.  One of the seven plug-ins moves.                                 *)
(***************************************************************************)
EXTENDS Detectors

CONSTANTS
  Names,
  PluginBars,     \* plug-in -> the candles that may arrive, without their time
  Lookback,       \* plug-in -> lookbackBars
  Start, Horizon, \* plug-in -> bounds on the clock
  DayTicks, CloseTick, FlattenTicks,   \* an intraday day, its close, the lead of the flatten
  PriorClose,     \* snapback: the close the names gapped down from
  HolidayChoices, \* sets of days, one of which is the calendar's
  EarningsDay,    \* hype: ticker -> the next report
  Reports,        \* earnings fade, valuation gravity: what was reported when
  EntryQty,       \* ENTRY_QTY
  Sizes           \* the quantities the risk manager may size an order to

VARIABLES
  plugin,     \* the plug-in that moves
  holidays,   \* its TradingCalendar
  clock,      \* a day, or a tick of a day for the intraday plug-ins
  series,     \* ticker -> the stored candles, oldest first
  phase,      \* of scan: it reads candles, or none runs
  unread,     \* the names it has still to read
  found,      \* ticker -> its signal and what buildProposal drafts on it, in a set
  scanAt,     \* ctx.now of the last scan
  views,      \* ticker -> the cached view, in a set; {} when there is none
  orders,     \* ticker -> what was drafted on a signal and is not filled, in a set
  held,       \* ticker -> the open position, in a set
  lastExit,   \* history: the rule of the last close, and whether the view was the entry's
  read,       \* history: names the last scan read enough candles of
  overstayed  \* history: names a monitor pass kept when their time was up

scanVars   == <<phase, unread, found, scanAt, views, read>>
tradeVars  == <<orders, held, lastExit, overstayed>>
pluginVars == <<plugin, holidays, clock, series, scanVars, tradeVars>>

\* STRATEGY_FACTORIES.
PluginIds == {"snapback", "squeeze-scalp", "hype-momentum", "friday-monday",
              "earnings-fade", "qual-sphb", "valuation-gravity"}
Intraday  == {"snapback", "squeeze-scalp"}

ASSUME PluginAssumption ==
  /\ Lookback \in [PluginIds -> Nat \ {0}] /\ {Start, Horizon} \subseteq [PluginIds -> Nat]
  /\ \A p \in PluginIds : Start[p] <= Horizon[p]
  /\ EntryQty \in Nat \ {0} /\ Sizes \subseteq Nat \ {0}
  /\ FlattenTicks \in 1..CloseTick /\ CloseTick < DayTicks

\* What the feed sends are candles; the rotation's carry the ratio of its two names.
OhlcBars  == {b \in [at : Nat, open : Nat, high : Nat, low : Nat, close : Nat \ {0}, volume : Nat] :
                b.low <= b.close /\ b.close <= b.high}
RatioBars == [at : Nat, ratio : Nat, close : Nat \ {0}]

ASSUME MarketAssumption ==
  /\ \A p \in PluginIds : PluginBars[p] \subseteq IF p = "qual-sphb" THEN RatioBars ELSE OhlcBars
  /\ PriorClose \in Nat /\ EarningsDay \in [Names -> Nat]
  /\ Reports \subseteq [ticker : Names, day : Nat]
  /\ \A e, f \in Reports : e.ticker = f.ticker => e = f   \* a quarter is longer than the look-back

\* No week has one session only.
ASSUME CalendarAssumption ==
  \A H \in HolidayChoices : \A d \in 0..Horizon["friday-monday"] :
    ~(IsWeekOpenSession(d, H) /\ IsWeekCloseSession(d, H))

PluginInit ==
  /\ plugin \in PluginIds
  /\ holidays \in IF plugin = "friday-monday" THEN HolidayChoices ELSE {{}}
  /\ clock = Start[plugin]
  /\ phase = "idle" /\ unread = {} /\ scanAt = 0 /\ read = {}
  /\ found = [t \in Names |-> {}]
  /\ series = [t \in Names |-> <<>>]
  /\ views = [t \in Names |-> {}] /\ orders = [t \in Names |-> {}]
  /\ held = [t \in Names |-> {}]
  /\ lastExit = [rule |-> "none", view |-> "none"] /\ overstayed = {}

-----------------------------------------------------------------------------
(* The market                                                              *)

MarketOpen ==
  IF plugin \in Intraday THEN clock % DayTicks < CloseTick ELSE IsTradingDay(clock, holidays)

Passes ==
  /\ clock < Horizon[plugin]
  /\ clock' = clock + 1
  /\ UNCHANGED <<plugin, holidays, series, scanVars, tradeVars>>

\* Mutant: the bar as it grows is stored beside what it was.
BarAppended(t, bar) ==
  /\ MarketOpen
  /\ series' = [series EXCEPT ![t] = LastBars(Append(series[t], [bar EXCEPT !.at = clock]),
                                              Lookback[plugin])]
  /\ UNCHANGED <<plugin, holidays, clock, scanVars, tradeVars>>

\* A new bar, or the bar of this time again as it grows; candles() returns the last ones.
BarArrives(t, bar) ==
  LET c     == series[t]
      older == IF c # <<>> /\ Latest(c).at = clock THEN SubSeq(c, 1, Len(c) - 1) ELSE c
  IN /\ MarketOpen
     /\ series' = [series EXCEPT ![t] = LastBars(Append(older, [bar EXCEPT !.at = clock]),
                                                Lookback[plugin])]
     /\ UNCHANGED <<plugin, holidays, clock, scanVars, tradeVars>>

-----------------------------------------------------------------------------
(* What scan caches of a name's candles, in a set that is empty if nothing *)

SnapbackView(c) == IF Reclaims(c, scanAt, Windows.wait) THEN {[dayLow |-> Min(Lows(c))]} ELSE {}

SqueezeView(c) == IF c # <<>> THEN {[lastPrice |-> Latest(c).close]} ELSE {}

HypeEnough(c) == Len(c) >= Max({2, Windows.trail, Windows.ma})
HypeView(t, c) ==
  IF HypeEnough(c)
  THEN {[asOf |-> scanAt, last |-> Latest(c), priorHigh |-> c[Len(c) - 1].high,
         volumes |-> VolumeOf(LastBars(c, Windows.trail)),
         closes  |-> ClosesOf(LastBars(c, Windows.ma)), nextEarnings |-> EarningsDay[t]]}
  ELSE {}

Flag(b) == IF b THEN "yes" ELSE "no"

FlowView(c) ==
  IF c # <<>>
  THEN {[last |-> Latest(c), isWeekOpen |-> Flag(IsWeekOpenSession(scanAt, holidays)),
         isWeekClose |-> Flag(IsWeekCloseSession(scanAt, holidays)),
         priorWeekClose |-> PriorWeekClose(c, holidays)]}
  ELSE {}

Stalls(t, c) == UNION {Stall(c, e.day) : e \in {e \in Reports : e.ticker = t}}
FadeView(t, c) == {[postEarningsHigh |-> x.postEarningsHigh] : x \in Stalls(t, c)}

ViewOf(t, c) ==
  CASE plugin = "snapback"      -> SnapbackView(c)
    [] plugin = "squeeze-scalp" -> SqueezeView(c)
    [] plugin = "hype-momentum" -> HypeView(t, c)
    [] plugin = "friday-monday" -> FlowView(c)
    [] plugin = "earnings-fade" -> FadeView(t, c)
    [] plugin = "qual-sphb"     -> RatioView(c)
    [] OTHER                    -> {}

-----------------------------------------------------------------------------
(* What it signals, with the draft of buildProposal; prices in cents       *)

Drafted(side, entry, stop, target) ==
  {[side |-> side, entry |-> entry, stop |-> stop, target |-> target, view |-> "entry's"]}

SnapbackDraft(c) ==
  LET plan == SnapbackPlan(c, PriorClose)
  IN IF Reclaims(c, scanAt, Windows.wait) THEN Drafted("long", plan.entry, plan.stop, plan.target)
                                          ELSE {}

SqueezeDraft(c) ==
  LET close == Latest(c).close
  IN IF BreaksOut(c) THEN Drafted("long", 100 * close, 97 * close, 110 * close) ELSE {}

HypeDraft(c) ==
  LET close == Latest(c).close
  IN IF HypeEnough(c) /\ Spikes(c) THEN Drafted("long", 100 * close, 92 * close, 115 * close)
                                   ELSE {}

\* Only on the week's last session; a buy-stop above the high of the last bar.
FlowDraft(c) ==
  IF IsWeekCloseSession(scanAt, holidays) /\ c # <<>> /\ ClosesHigh(c)
  THEN Drafted("long", (1001 * Latest(c).high + 5) \div 10, 96 * Latest(c).close,
             106 * Latest(c).close)
  ELSE {}

\* Mutant: the stop of the short is put below the reaction's high.
FadeDraftBelow(t, c) ==
  UNION {Drafted("short", 100 * x.stallClose, 91 * x.postEarningsHigh, 92 * x.stallClose) :
           x \in Stalls(t, c)}

FadeDraft(t, c) ==
  UNION {Drafted("short", 100 * x.stallClose, 101 * x.postEarningsHigh, 92 * x.stallClose) :
           x \in Stalls(t, c)}

RotationDraft(c) ==
  IF c # <<>> /\ \E v \in RatioView(c) : CrossedUp(v)
  THEN Drafted("long", 100 * Latest(c).close, 92 * Latest(c).close, 0)
  ELSE {}

\* A journal entry: buildProposal throws on it.
GravityDraft(t) ==
  IF t \in JournalOwed(scanAt, Reports) THEN Drafted("none", 0, 0, 0) ELSE {}

DraftOf(t, c) ==
  CASE plugin = "snapback"      -> SnapbackDraft(c)
    [] plugin = "squeeze-scalp" -> SqueezeDraft(c)
    [] plugin = "hype-momentum" -> HypeDraft(c)
    [] plugin = "friday-monday" -> FlowDraft(c)
    [] plugin = "earnings-fade" -> FadeDraft(t, c)
    [] plugin = "qual-sphb"     -> RotationDraft(c)
    [] OTHER                    -> GravityDraft(t)

-----------------------------------------------------------------------------
(* scan                                                                    *)

Aged(xs) == {[x EXCEPT !.view = "older"] : x \in xs}

\* The plug-ins await the roster, from one scan to the next another, and clear their
\* views; the rotation has its two names and keeps its view until both series are there.
BeginScan ==
  /\ phase = "idle"
  /\ phase' = "reading" /\ scanAt' = clock /\ read' = {}
  /\ unread' \in IF plugin \in {"qual-sphb", "valuation-gravity"} THEN {Names}
                                                                 ELSE SUBSET Names
  /\ found' = [t \in Names |-> {}]
  /\ views' = IF plugin = "qual-sphb" THEN views ELSE [t \in Names |-> {}]
  /\ orders' = [t \in Names |-> Aged(orders[t])]
  /\ held' = [t \in Names |-> Aged(held[t])]
  /\ lastExit' = [rule |-> "none", view |-> "none"]
  /\ UNCHANGED <<plugin, holidays, clock, series, overstayed>>

ReadCandles(t) ==
  LET c == series[t]
  IN /\ phase = "reading" /\ t \in unread
     /\ unread' = unread \ {t}
     /\ views' = [views EXCEPT ![t] = ViewOf(t, c)]
     /\ found' = [found EXCEPT ![t] = DraftOf(t, c)]
     /\ read' = IF IF plugin = "hype-momentum" THEN HypeEnough(c) ELSE c # <<>>
                THEN read \union {t} ELSE read
     /\ UNCHANGED <<plugin, holidays, clock, series, phase, scanAt, tradeVars>>

\* A query fails: the scan of this strategy ends there, its signals are lost.
ReadFails ==
  /\ phase = "reading" /\ unread # {}
  /\ phase' = "idle" /\ unread' = {} /\ found' = [t \in Names |-> {}]
  /\ UNCHANGED <<plugin, holidays, clock, series, scanAt, views, read, tradeVars>>

\* The pipeline places orders on the signals the analyst, the risk manager and the
\* operator let pass; a name with a position is refused, and a draft that throws ends the
\* job.  Of two orders on a name the later one is followed.
FinishScan ==
  /\ phase = "reading" /\ unread = {}
  /\ phase' = "idle"
  /\ \E passed \in SUBSET {t \in Names : \E d \in found[t] : d.side # "none"} :
       orders' = [t \in Names |-> IF t \in passed /\ held[t] = {} THEN found[t] ELSE orders[t]]
  /\ found' = [t \in Names |-> {}]
  /\ UNCHANGED <<plugin, holidays, clock, series, unread, scanAt, views, read, held,
                 lastExit, overstayed>>

-----------------------------------------------------------------------------
(* Positions                                                               *)

\* An order fills at its entry, in the size the risk manager gave it.
Fills(t, size) ==
  /\ held[t] = {}
  /\ \E o \in orders[t] :
       held' = [held EXCEPT ![t] = {[entry |-> o.entry, size |-> size, qty |-> size,
                                     view |-> o.view]}]
  /\ orders' = [orders EXCEPT ![t] = {}]
  /\ UNCHANGED <<plugin, holidays, clock, series, scanVars, lastExit, overstayed>>

\* shouldForceFlatten: until midnight.
MustFlatten == clock % DayTicks >= CloseTick - FlattenTicks

\* manage: what the cached view says of the position.
Manages(t, p) ==
  CASE plugin = "snapback" -> IF MustFlatten THEN "flatten" ELSE "hold"
    [] plugin \in {"earnings-fade", "valuation-gravity"} -> "hold"
    [] OTHER ->
       LET view == CHOOSE v \in views[t] : TRUE
       IN CASE views[t] = {} -> "hold"
            [] views[t] # {} /\ plugin = "squeeze-scalp" ->
                 Ladder(p.entry, EntryQty, p.qty, view.lastPrice)
            [] views[t] # {} /\ plugin = "hype-momentum" -> HypeExit(view)
            [] views[t] # {} /\ plugin = "friday-monday" -> FlowExit(view)
            [] OTHER -> IF Reverted(view) THEN "reverted" ELSE "hold"

\* What the plug-ins promise about time in the exit plan they draft: flat by the close,
\* before the report, by the week's end.
LastSession(d) ==
  IsTradingDay(d, holidays) /\ \A e \in d + 1..d + 6 - Weekday(d) : ~IsTradingDay(e, holidays)
TimeIsUp(t) ==
  CASE plugin = "snapback"      -> clock % DayTicks >= CloseTick - FlattenTicks
    [] plugin = "squeeze-scalp" -> clock % DayTicks >= CloseTick
    [] plugin = "hype-momentum" -> EarningsDay[t] - clock \in 0..3 /\ scanAt = clock /\ t \in read
    [] plugin = "friday-monday" -> LastSession(clock) /\ scanAt = clock /\ t \in read
    [] OTHER                    -> FALSE

\* A pass of the monitor, which the worker never runs beside a scan: close, shed shares or
\* keep.
Manage(t) ==
  \E p \in held[t] :
    LET rule == Manages(t, p)
    IN /\ phase = "idle"
       /\ \/ /\ rule = "hold"
             /\ overstayed' = IF TimeIsUp(t) THEN overstayed \union {t} ELSE overstayed
             /\ UNCHANGED <<held, lastExit>>
          \/ /\ rule = "scale-out"
             /\ held' = [held EXCEPT ![t] = {[p EXCEPT !.qty = @ - EntryQty \div 2]}]
             /\ UNCHANGED <<lastExit, overstayed>>
          \/ /\ rule \notin {"hold", "scale-out"}
             /\ held' = [held EXCEPT ![t] = {}]
             /\ lastExit' = [rule |-> rule, view |-> p.view]
             /\ UNCHANGED overstayed
       /\ UNCHANGED <<plugin, holidays, clock, series, scanVars, orders>>

PluginNext ==
  \/ Passes \/ BeginScan \/ ReadFails \/ FinishScan
  \/ \E t \in Names :
       \/ ReadCandles(t) \/ Manage(t)
       \/ \E bar \in PluginBars[plugin] : BarArrives(t, bar)
       \/ \E size \in IF plugin = "squeeze-scalp" THEN Sizes ELSE {EntryQty} : Fills(t, size)

PluginSpec == PluginInit /\ [][PluginNext]_pluginVars
-----------------------------------------------------------------------------
(* Properties                                                              *)

PluginTypeOK ==
  /\ plugin \in PluginIds /\ clock \in Start[plugin]..Horizon[plugin] /\ scanAt \in 0..clock
  /\ unread \subseteq Names /\ read \subseteq Names
  /\ phase \in {"idle", "reading"} /\ (unread # {} => phase = "reading")
  /\ \A t \in Names :
       /\ Len(series[t]) <= Lookback[plugin]
       /\ \A i \in 2..Len(series[t]) : series[t][i - 1].at < series[t][i].at
       /\ \A xs \in {views[t], found[t], orders[t], held[t]} : Cardinality(xs) <= 1
       /\ \A p \in held[t] : p.qty \in 1..p.size

\* Every order is drafted with its stop on the losing and its target on the winning side
\* of the entry, whatever series of candles the rule fired on (buildProposal of the
\* plug-ins).  A snapback that reclaimed more than its whole gap is drafted with a
\* target below its entry.
PlanIsOrdered ==
  \A t \in Names : \A o \in orders[t] :
    LET pastTheGap == plugin = "snapback" /\ o.entry >= 100 * PriorClose
    IN \/ o.side = "long" /\ o.stop < o.entry /\ (o.target = 0 \/ o.target > o.entry \/ pastTheGap)
       \/ o.side = "short" /\ o.stop > o.entry /\ o.target < o.entry

\* The view an entry was signalled on never closes it at once, except by a rule the
\* entry does not look at: the bell, the report, the week's end, the target of the week.
NoInstantExit ==
  lastExit.view = "entry's" => lastExit.rule \in {"flatten", "earnings", "week end", "target"}

\* No monitor pass keeps a position whose time is up: a snapback from the flatten lead
\* on, and, after a scan of that day that read the name, a hype position days before the
\* report and a flow position in the week's last session, whatever day the holidays make
\* that (shouldForceFlatten, hypeExitDecision, isWeekCloseSession).  The squeeze scalp is
\* excepted: its plan makes the same promise, and manage does not keep it.
TimeStopsHold == plugin # "squeeze-scalp" => overstayed = {}

\* A squeeze scalp is flat by the close: buildProposal drafts it with flatByClose and the
\* rule "flat by close, do not carry a spent squeeze", and manage never looks at the time.
ScalpsAreFlat == plugin = "squeeze-scalp" => overstayed = {}

\* The squeeze ladder banks one tranche, and only of a position of a whole lot
\* (planScaleOut): of a larger one it banks again at every pass, as it compares with
\* the lot the risk manager did not size to.
TrancheOnce ==
  \A t \in Names : \A p \in held[t] :
    p.qty < p.size =>
      /\ p.qty + EntryQty \div 2 >= EntryQty
      /\ p.size < EntryQty + EntryQty \div 2 => p.size - p.qty = EntryQty \div 2
=============================================================================
