--------------------------- MODULE MCOrderOutbox ---------------------------
(* Instances of OrderOutbox for TLC.                                       *)
EXTENDS OrderOutbox

CONSTANTS w1, w2, k1, k2, h1

\* One time unit of backoff whatever the attempt.
UnitDelay == [a \in 1..MaxAttempts |-> 1]
============================================================================
