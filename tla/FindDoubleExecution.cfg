\* Two approvals of one proposal, both past the read of its status.
CONSTANTS
  S1 = S1  S2 = S2  S3 = S3  T1 = T1  T2 = T2  T3 = T3
  Strategies = {S1}
  Tickers = {T1}
  Drafts <- OneDraft
  GlobalLimits <- SmallGlobal
  Params <- LooseParams
  Proposals = {1}
  Brackets = {1, 2}
  Worker = w
  Requests = {r1, r2}
  Jobs = {"scan"}
  Modes = {"APPROVE"}
  Quoted = TRUE
  Slips = {0}
  Equity = 100
  Disturbances = {}
  MaxDisturbances = 0
  None = None
SPECIFICATION Spec
SYMMETRY RequestSymmetry
INVARIANTS NoDoubleExecution
