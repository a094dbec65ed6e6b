SPECIFICATION FairSpec
CONSTANTS
  w1 = w1
  w2 = w2
  k1 = k1
  k2 = k2
  h1 = h1
  Worker = {w1, w2}
  Key = {k1}
  Hash = {h1}
  MaxOrders = 1
  MaxEvents = 3
  MaxAttempts = 2
  Delay <- UnitDelay
  LeaseFor = 1
  BatchLimit = 1
  MaxNow = 12
  MaxStops = 1
  MaxOverruns = 2
INVARIANTS
  CompensationIsSafe
  AcceptedIsBacked
  LocalFollowsRemote
PROPERTIES
  SettledIsFinal
  ImplementsSaga
  OrdersSettle
CHECK_DEADLOCK FALSE
