\* A trade closes and its key is entered again before the monitor drains it.
CONSTANTS
  S1 = S1  S2 = S2  S3 = S3  T1 = T1  T2 = T2  T3 = T3
  Strategies = {S1}
  Tickers = {T1}
  Drafts <- OneDraft
  GlobalLimits <- SmallGlobal
  Params <- LooseParams
  Proposals = {1, 2}
  Brackets = {1, 2}
  Worker = w
  Requests = {}
  Jobs = {"scan", "monitor"}
  Modes = {"AUTO"}
  Quoted = TRUE
  Slips = {0}
  Equity = 100
  Disturbances = {"exit"}
  MaxDisturbances = 1
  None = None
SPECIFICATION Spec
INVARIANTS ExitsProtectOpenPositions
