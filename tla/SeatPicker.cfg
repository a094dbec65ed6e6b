SPECIFICATION FairSpec
CONSTANTS
 Seat = {s1}
 Buyer = {b1, b2}
 MaxEvents = 1
 MaxSends = 2
 MaxReads = 2
 None = None
INVARIANTS BookingsAreOwn MapFollowsWrites
PROPERTY PollingGoesOn
