SPECIFICATION FairSpec
CONSTANTS
  d1 = d1
  d2 = d2
  d3 = d3
  h1 = h1
  h2 = h2
  Device = {d1, d2, d3}
  Handler = {h1, h2}
  Limit = 2
  TTL = 1
  MaxSessions = 3
  MaxBeats = 1
  MaxNow = 1
INVARIANTS
  SlotsWithinLimit
  SlotOwnsSession
PROPERTIES
  SlotKeepsSession
  SlotsReclaimed
