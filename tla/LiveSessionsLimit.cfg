SPECIFICATION Spec
CONSTANTS
  d1 = d1
  d2 = d2
  d3 = d3
  h1 = h1
  h2 = h2
  Device = {d1, d2}
  Handler = {h1}
  Limit = 1
  TTL = 2
  MaxSessions = 3
  MaxBeats = 0
  MaxNow = 4
INVARIANTS
  DeviceLimit
