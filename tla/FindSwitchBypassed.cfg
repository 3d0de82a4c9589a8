\* A pending proposal is approved after the trip.
CONSTANTS
  S1 = S1  S2 = S2  S3 = S3  T1 = T1  T2 = T2  T3 = T3
  Strategies = {S1}
  Tickers = {T1}
  Drafts <- OneDraft
  GlobalLimits <- SmallGlobal
  Params <- LooseParams
  Proposals = {1}
  Brackets = {1, 2}
  Worker = w
  Requests = {r1}
  Jobs = {"scan"}
  Modes = {"APPROVE"}
  Quoted = TRUE
  Slips = {0}
  Equity = 100
  Disturbances = {"trip"}
  MaxDisturbances = 1
  None = None
SPECIFICATION Spec
PROPERTIES KillSwitchBlocksAll
