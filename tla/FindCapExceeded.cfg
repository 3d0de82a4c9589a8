\* One worker, nothing fails, the operator changes nothing.
SPECIFICATION GovernorSpec
CONSTANTS
  AutoStrategies = {s1}
  Worker = w
  Requests = {}
  MaxTradesPerDay = 2
  MaxConsecutiveLosses = 3
  LastDay = 1
  MaxEntries = 5
  Disturbances = {}
  MaxDisturbances = 0
  None = None
INVARIANT DailyCapHolds
