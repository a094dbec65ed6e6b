SPECIFICATION MCSpec
CONSTANTS
  Sub = {"s1", "s2"}
  Handler = {h1}
  Cron = cron
  Reader = {q1}
  Snapshots <- Changes
  MaxAt = 2
  MaxFaults = 1
  None = None
  UsageKey = {k1, k2}
  MaxUse = 2
  MaxErrors = 2
INVARIANTS AppliedOnce CacheFollowsStore NeverDoubleBills ReconcileRepairs
\* The flusher's Run returns after its last flush or a failed append.
CHECK_DEADLOCK FALSE
