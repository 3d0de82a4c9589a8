\* Two handlers of the switch interleave every operation while stores fail and the
\* process dies; the governor's worker and a dev trigger enter three trades over two days;
\* a bracket of two shares and one of one share live through a fault at the broker.
SPECIFICATION ControlsSpec
CONSTANTS
  Strategies = {s1, s2}
  Handlers = {h1, h2}
  Miss = Miss
  Faults = {"db", "cache", "crash"}
  MaxModeChanges = 2
  AutoStrategies = {a1}
  Worker = w
  Requests = {r1}
  MaxTradesPerDay = 1
  MaxConsecutiveLosses = 2
  LastDay = 1
  MaxEntries = 3
  Disturbances = {"approval", "mode", "throw", "restart"}
  MaxDisturbances = 1
  None = None
  o1 = o1
  o2 = o2
  Orders = {o1, o2}
  Shares <- TheShares
  Targeted = {o1}
  MaxPlaced = 1
  MaxWire = 2
  PortFaults = {"repeat", "drop", "restart", "reject", "expire"}
  MaxPortFaults = 1
INVARIANTS
  TypesOK TripBlocksChecks TripDemotes CooldownHolds OvershootAccounted
  FillsBookedOnce BookMatchesBroker NakedWereShed NakedIsReported
CHECK_DEADLOCK FALSE
