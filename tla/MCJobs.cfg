\* Every job of the worker: the sweep is fair, trades close, the switch trips.
CONSTANTS
  S1 = S1  S2 = S2  S3 = S3  T1 = T1  T2 = T2  T3 = T3
  Strategies = {S1}
  Tickers = {T1}
  Drafts <- OneDraft
  GlobalLimits <- SmallGlobal
  Params <- LooseParams
  Proposals = {1, 2}
  Brackets = {1, 2}
  Worker = w
  Requests = {}
  Jobs = {"scan", "monitor", "expiry"}
  Modes = {"APPROVE", "AUTO"}
  Quoted = TRUE
  Slips = {0}
  Equity = 100
  Disturbances = {"trip", "rearm", "mode", "exit", "fault"}
  MaxDisturbances = 2
  None = None
SPECIFICATION FairSpec
INVARIANTS FirstEntryIsManaged StragglersBounded
PROPERTIES OverdueIsSettled
