SPECIFICATION Spec
CONSTANTS
  w1 = w1
  w2 = w2
  k1 = k1
  k2 = k2
  h1 = h1
  Worker = {w1, w2}
  Key = {k1, k2}
  Hash = {h1}
  MaxOrders = 2
  MaxEvents = 6
  MaxAttempts = 2
  Delay <- UnitDelay
  LeaseFor = 1
  BatchLimit = 2
  MaxNow = 1
  MaxStops = 1
  MaxOverruns = 1
INVARIANTS
  IndInv
  OneOrderPerKey
  SagaIsLinear
  LeaseIsExclusive
CHECK_DEADLOCK FALSE
