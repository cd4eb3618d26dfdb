SPECIFICATION Spec
CONSTANTS
  Feeds = {f1, f2}
  Answers = {0, 20, 21, 30}
  MaxFeeds = 3
  StartTime = 2
  MaxTime = 5
  BasisPoints = 100
  MAX_PRICE_DEVIATION = 5
  MAX_PRICE_AGE = 2
  MIN_ORACLES = 2
  TWAP_PERIOD = 2
  MAX_HISTORY_SIZE = 2
SYMMETRY Symmetry
INVARIANTS TypeOK RingInOrder MedianInMiddle LockoutEnds
PROPERTY NoJumps
