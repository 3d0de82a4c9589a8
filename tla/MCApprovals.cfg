\* Handlers, the scan and the sweep race over the proposals.
CONSTANTS
  S1 = S1  S2 = S2  S3 = S3  T1 = T1  T2 = T2  T3 = T3
  Strategies = {S1}
  Tickers = {T1}
  Drafts <- OneDraft
  GlobalLimits <- SmallGlobal
  Params <- LooseParams
  Proposals = {1}
  Brackets = {1, 2}
  Worker = w
  Requests = {r1, r2}
  Jobs = {"scan", "expiry", "trigger"}
  Modes = {"APPROVE", "AUTO"}
  Quoted = FALSE
  Slips = {0}
  Equity = 100
  Disturbances = {"fault", "restart"}
  MaxDisturbances = 1
  None = None
SPECIFICATION Spec
SYMMETRY RequestSymmetry
INVARIANTS ExecutedIsBacked AuditedIsDecided
PROPERTIES LifecycleSpec
