---------------------------- MODULE RiskManager ----------------------------
(***************************************************************************)
(* The deterministic risk gate (packages/core/src/risk-manager.ts): the    *)
(* hard rules a strategy's draft passes, in the order the code tries them, *)
(* and the size an approved draft gets.  Money is in whole units; a        *)
(* percentage is compared at the four decimals the code rounds it to.      *)
(***************************************************************************)
EXTENDS Integers, FiniteSets, FiniteSetsExt

CONSTANTS
  GlobalLimits,   \* GLOBAL_RISK_LIMITS: the ceilings no configuration exceeds
  Params          \* strategy -> its RiskParams row (defaults plus overrides)

LimitFields == {"perTradePct", "total", "perStrategy", "perTicker", "openRiskPct"}

ASSUME LimitsAssumption ==
  /\ GlobalLimits \in [LimitFields -> Nat]
  /\ \A s \in DOMAIN Params : Params[s] \in [LimitFields -> Nat]

\* Mutant: a strategy's own row is taken as it is.
LimitsUnclamped(s) == [f \in LimitFields |-> Params[s][f]]

\* The constructor's clamp: configuration can tighten a ceiling, never exceed it.
Limits(s) ==
  [f \in LimitFields |->
     IF Params[s][f] < GlobalLimits[f] THEN Params[s][f] ELSE GlobalLimits[f]]

\* requireStop, then the stop on its side of the entry.  A short may carry a
\* stop equal to its entry: the code negates "below", it does not ask "above".
StopValid(draft) ==
  IF draft.side = "long" THEN draft.stop < draft.entry ELSE draft.stop >= draft.entry

StopDistance(x) == IF x.entry >= x.stop THEN x.entry - x.stop ELSE x.stop - x.entry

PositionRisk(pos) == pos.qty * StopDistance(pos)

OpenRisk(positions) ==
  SumFunctionOnSet([pos \in positions |-> PositionRisk(pos)], positions)

SameLeg(draft, positions) ==
  {pos \in positions : /\ pos.strategy = draft.strategy
                       /\ pos.ticker = draft.ticker
                       /\ pos.side = draft.side}

OfStrategy(s, positions) == {pos \in positions : pos.strategy = s}
OfTicker(t, positions)   == {pos \in positions : pos.ticker = t}

\* Whole shares inside the per-trade budget.
SizeFor(draft, equity) ==
  (equity * Limits(draft.strategy).perTradePct) \div (100 * StopDistance(draft))

\* roundPct: a percentage in ten-thousandths, rounded half up.
RoundPct(part, whole) == (2000000 * part + whole) \div (2 * whole)

\* Mutant: the draft's own risk is left out.
TooMuchRiskAlready(draft, qty, equity, positions) ==
  RoundPct(OpenRisk(positions), equity) > 10000 * Limits(draft.strategy).openRiskPct

TooMuchRisk(draft, qty, equity, positions) ==
  RoundPct(OpenRisk(positions) + qty * StopDistance(draft), equity)
    > 10000 * Limits(draft.strategy).openRiskPct

\* The code's evaluate: the first rule that rejects, or "approved".  A zero
\* stop distance sizes to Infinity and the proposal schema throws.
Verdict(draft, equity, positions, killed) ==
  LET lim == Limits(draft.strategy)
      qty == SizeFor(draft, equity)
  IN IF killed THEN "kill_switch_active"
     ELSE IF ~StopValid(draft) THEN "invalid_stop"
     ELSE IF SameLeg(draft, positions) # {} THEN "no_averaging_down"
     ELSE IF Cardinality(positions) >= lim.total THEN "max_positions_total"
     ELSE IF Cardinality(OfStrategy(draft.strategy, positions)) >= lim.perStrategy
       THEN "max_positions_per_strategy"
     ELSE IF Cardinality(OfTicker(draft.ticker, positions)) >= lim.perTicker
       THEN "max_positions_per_ticker"
     ELSE IF StopDistance(draft) = 0 THEN "throws"
     ELSE IF qty < 1 THEN "per_trade_risk"
     ELSE IF TooMuchRisk(draft, qty, equity, positions) THEN "total_open_risk"
     ELSE "approved"
============================================================================
