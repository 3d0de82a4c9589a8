\* Two readers of snapshots of one row, a backfill of two items with a retry each, two ticks of the
\* monitor beside each other, an edit of this browser and one of another, two
\* presses of the buttons of two messages.
SPECIFICATION Spec
CONSTANTS
  Readers = {r1, r2}
  Rows = 1
  Gone = 3
  MaxCuts = 2
  MaxUnasked = 2
  Tickers = {t1, t2}
  LastItem = 2
  MaxRetries = 1
  LastClient = 3
  Ticks = {k1, k2}
  MaxChanges = 2
  Modes = {"WATCH", "AUTO"}
  MinTrades = 1
  OwnEdits = {e1}
  OtherEdits = {e2}
  Proposals = {p1, p2}
  MaxFlips = 3
  MaxInflight = 2
  Offers = {f1, f2}
  MaxPresses = 2
  MaxRestarts = 1
INVARIANTS TypesOK SnapshotWhole NeverStranded NoForeignRows OperatorInformed PromotionIsEarned
PROPERTIES BackfillEnds FeedRecovers MonitorSettles ConsoleSettles PressesHeard
CHECK_DEADLOCK FALSE
