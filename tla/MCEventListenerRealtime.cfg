SPECIFICATION FairSpec
CONSTANTS
  Logs <- TwoBlocks
  MaxBlock = 2
  START_BLOCK = 0
  BATCH_SIZE = 1
  Startup = startup
  CronRuns = {c1}
  MaxFaults = 1
  MaxCrashes = 0
PROPERTY AlwaysCatchesUp
CHECK_DEADLOCK FALSE
