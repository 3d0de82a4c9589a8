\* The plug-ins of MCBook.cfg: what becomes of a squeeze scalp at the close.
SPECIFICATION BookSpec
CONSTANTS
  S1 = S1  S2 = S2  S3 = S3  T1 = T1  T2 = T2  T3 = T3
  Strategies = {S1, S2, S3}
  Tickers = {T1, T2, T3}
  Drafts <- BookDrafts
  GlobalLimits <- SmallGlobal
  Params <- LooseParams
  Proposals = {1, 2, 3}
  Brackets = {1, 2, 3}
  Worker = w
  Requests = {}
  Jobs = {"scan"}
  Modes = {"AUTO"}
  Quoted = TRUE
  Slips = {0, 1}
  Equity = 100
  Disturbances = {"exit"}
  MaxDisturbances = 2
  None = None
  n1 = n1
  Names = {n1}
  PluginBars <- TheBars
  Lookback <- TheLookback
  Start <- TheStart
  Horizon <- TheHorizon
  DayTicks = 4
  CloseTick = 3
  FlattenTicks = 1
  PriorClose = 105
  HolidayChoices <- TheHolidays
  EarningsDay <- TheEarnings
  Reports <- TheReports
  EntryQty = 4
  Sizes = {3, 4, 6}
  Windows <- TheWindows
  n2 = n2
  Listed = {n1}
  DevCalls = {"post"}
  TtlDays = 2
  LastDay = 2
  Gappers <- TheGappers
  Waits <- TheWaits
  From = 1
  To = 4
  Cutoff = 4
  GapClose = 105
  SeenBars = 4
  Histories <- TheHistories
  Backfills <- TheBackfills
  MaxWrites = 1
  Draws <- TheDraws
  PassRate = 7
  MaxPositions = 2
INVARIANT ScalpsAreFlat
CHECK_DEADLOCK FALSE
