\* Two brackets of either strategy on two tickers; the fill model's defaults.
SPECIFICATION Spec
CONSTANTS
  T1 = T1  T2 = T2
  Strategies = {s1, s2}
  Tickers = {T1}
  MaxBrackets = 2
  Orders <- TwoOrders
  Bars <- TheBars
  Quotes <- TightQuote
  Modifications <- Changes
  StartingCash = 100000
  SlippageBps = 5
  SyntheticSpreadBps = 10
  PerShare = 50
  MinPerOrder = 100
  MaxPct = 1
  Market = Market
  None = None
SYMMETRY Symmetry
INVARIANTS TypeOK Reconciles SharesConserved TradesDelivered
PROPERTIES LifeSpec
