SPECIFICATION FairSpec
CONSTANTS
  UsageKey = {k1, k2}
  MaxUse = 2
  MaxErrors = 1
PROPERTIES UsageReachesLedger
CHECK_DEADLOCK FALSE
