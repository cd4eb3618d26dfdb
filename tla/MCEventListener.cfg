SPECIFICATION FairSpec
CONSTANTS
  Logs <- TwoBlocks
  MaxBlock = 2
  START_BLOCK = 0
  BATCH_SIZE = 2
  Startup = startup
  CronRuns = {c1, c2}
  MaxFaults = 1
  MaxCrashes = 1
INVARIANTS EventsOnce NoSilentGap RecordsHaveEvents ClosedByRepayments
PROPERTIES CatchesUp KeepsIndex
CHECK_DEADLOCK FALSE
