CONSTANTS
  Dir = {d1, d2}
  Delay = 2
  MaxChanges = 3
  MayFail = TRUE
  Broken <- MCBroken
  NoChart = NoChart
  NoDir = NoDir
SPECIFICATION FairSpec
INVARIANTS TypeOK IInv NoFlood
PROPERTIES PendingSignalCovers RunEndsOrWatcherDies
CHECK_DEADLOCK FALSE
