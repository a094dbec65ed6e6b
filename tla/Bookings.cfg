SPECIFICATION MCSpec
CONSTANTS
  Account = {1, 2}
  Opening <- Twos
  Amount = {1, 2}
  Key = {"k1", "k2"}
  Payment <- Requests
  Goroutine = {g1, g2}
  MaxLost = 2
  None = None
  Seat = {"s1", "s2"}
  Buyer = {"A", "B"}
  HoldKey = {"k"}
  NoKey = "none"
  Request = {r1, r2}
  MaxBookings = 3
  Id = {1, 2, 3}
  Worker = {w1, w2}
  BatchSize = 2
  MaxTroubles = 2
  Caller = {c1, c2}
  Owned = {"a"}
  Foreign = {"f"}
  Capacity = 1
  MaxCalls = 2
  Txns = 3
INVARIANTS OnceEach MoneyConserved DebitedOnce
PROPERTIES RefundsComplete CallsReturn
\* The pool and the shard stop when their work is done.
CHECK_DEADLOCK FALSE
