SPECIFICATION MCSpec
CONSTANTS
  Sub = {"s1"}
  Handler = {h1, h2}
  Cron = cron
  Reader = {q1}
  Snapshots <- Changes
  MaxAt = 2
  MaxFaults = 0
  None = None
  UsageKey = {k1}
  MaxUse = 0
  MaxErrors = 0
PROPERTIES WatermarkAdvances
CHECK_DEADLOCK FALSE
