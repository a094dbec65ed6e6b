---------------------------- MODULE CacheBreaker ----------------------------
(* railcache/internal/cache/breaker.go: the circuit breaker around Redis.    *)
(* allow and record are each one critical section; the call between them is  *)
(* not, so outcomes arrive in any order and long after the circuit moved.    *)
EXTENDS Integers

CONSTANTS Caller, Threshold

VARIABLES
  failures, open, cooled,   \* openUntil is set; openUntil is past
  halfOpen,
  call           \* [Caller -> "idle", "call" or "probe"]

cbVars == <<failures, open, cooled, halfOpen, call>>

Init ==
  /\ failures = 0 /\ open = FALSE /\ cooled = FALSE /\ halfOpen = FALSE
  /\ call = [c \in Caller |-> "idle"]

\* Closed lets every call through, open none, half-open one.
allow(c) ==
  /\ call[c] = "idle"
  /\ open => cooled /\ ~halfOpen
  /\ call' = [call EXCEPT ![c] = IF open THEN "probe" ELSE "call"]
  /\ halfOpen' = (halfOpen \/ open)
  /\ UNCHANGED <<failures, open, cooled>>

\* record of nil or ErrMiss, from any call.
RecordSuccess(c) ==
  /\ call[c] # "idle" /\ call' = [call EXCEPT ![c] = "idle"]
  /\ failures' = 0 /\ open' = FALSE /\ cooled' = FALSE /\ halfOpen' = FALSE

\* Mutant: a failed probe leaves the half-open mark behind.
ProbeFailed_Marked(c) ==
  /\ call[c] = "probe" /\ call' = [call EXCEPT ![c] = "idle"]
  /\ open' = TRUE /\ cooled' = FALSE
  /\ UNCHANGED <<failures, halfOpen>>

\* A transport error of the probe: another cooldown, even if the circuit has
\* closed meanwhile.
ProbeFailed(c) ==
  /\ call[c] = "probe" /\ call' = [call EXCEPT ![c] = "idle"]
  /\ open' = TRUE /\ cooled' = FALSE /\ halfOpen' = FALSE
  /\ UNCHANGED failures

\* A transport error of an ordinary call. The count saturates at Threshold:
\* nothing tells apart larger values.
CallFailed(c) ==
  LET n == IF failures < Threshold THEN failures + 1 ELSE failures
      trips == n >= Threshold /\ ~open
  IN
  /\ call[c] = "call" /\ call' = [call EXCEPT ![c] = "idle"]
  /\ failures' = n
  /\ open' = (open \/ trips) /\ cooled' = (cooled /\ ~trips)
  /\ UNCHANGED halfOpen

Cooldown == open /\ ~cooled /\ cooled' = TRUE /\ UNCHANGED <<failures, open, halfOpen, call>>

---------------------------------------------------------------------------
Return(c) == RecordSuccess(c) \/ ProbeFailed(c) \/ CallFailed(c)
Next == Cooldown \/ \E c \in Caller : allow(c) \/ Return(c)

Spec == Init /\ [][Next]_cbVars

---------------------------------------------------------------------------
\* Every variable has its type.
TypeOK ==
  /\ failures \in 0..Threshold /\ open \in BOOLEAN /\ cooled \in BOOLEAN /\ halfOpen \in BOOLEAN
  /\ call \in [Caller -> {"idle", "call", "probe"}]

\* The half-open mark always has a probe behind it that will take it away:
\* otherwise allow would refuse every call for ever (breaker.go: allow, record).
HalfOpenHasProbe == halfOpen => open /\ \E c \in Caller : call[c] = "probe"
=============================================================================
