SPECIFICATION FairSpec
CONSTANTS
  Hold = {a, b}
  Client = {c1, c2}
  Worker = {t1, t2}
  Capacities = {1}
  TTL = 1
  MaxNow = 3
  MaxSets = 1
  MaxCrashes = 1
  MaxUnsynced = 1
INVARIANTS
  UsedIsExact
  BookedIsTaken
  OneLine
  ConfirmedIsDurable
PROPERTIES
  HoldsResolve
\* The service may fail to start.
CHECK_DEADLOCK FALSE
