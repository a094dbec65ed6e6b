-------------------------- MODULE GatewayBreaker --------------------------
(* fintech-gateway-go/internal/breaker: the circuit breaker of a backend,    *)
(* atomic by atomic, and the requests of gateway.fetch that pass it.         *)
EXTENDS Integers

CONSTANTS
  Caller,
  FailureThreshold, HalfOpenSuccessThreshold, ConfiguredHalfOpen,
  MaxRequests    \* bound on the requests of a caller

VARIABLES
  state, consecutiveFail, consecutiveOK, halfOpenIssued,
  elapsed,       \* openedAt + OpenDuration is past
  mu,            \* who holds the lock
  at,            \* where a caller is
  requests,
  unreported     \* history: a request that was let through ended without an outcome

breakerVars == <<state, consecutiveFail, consecutiveOK, halfOpenIssued, elapsed, mu, at, requests,
                 unreported>>
counters == <<consecutiveFail, consecutiveOK, halfOpenIssued>>

Free == "free"

\* Mutant: the configured bound is taken as it is.
MaxHalfOpenRequests_Configured == ConfiguredHalfOpen

\* newWithClock raises a bound that is too small to close the breaker again.
MaxHalfOpenRequests ==
  IF ConfiguredHalfOpen < HalfOpenSuccessThreshold THEN HalfOpenSuccessThreshold
  ELSE ConfiguredHalfOpen

\* openedAt is 0: its OpenDuration is long past.
Init ==
  /\ state = "closed" /\ consecutiveFail = 0 /\ consecutiveOK = 0 /\ halfOpenIssued = 0
  /\ elapsed = TRUE /\ mu = Free
  /\ at = [c \in Caller |-> "idle"] /\ requests = [c \in Caller |-> 0]
  /\ unreported = FALSE

Goto(c, l) == at' = [at EXCEPT ![c] = l]

Begin(c) ==
  /\ at[c] = "idle" /\ requests[c] < MaxRequests
  /\ requests' = [requests EXCEPT ![c] = @ + 1]
  /\ Goto(c, "allow")
  /\ UNCHANGED <<state, counters, elapsed, mu, unreported>>

---------------------------------------------------------------------------
\* The load of Allow, and the comparison with openedAt.
Allow(c) ==
  /\ at[c] = "allow"
  /\ Goto(c, CASE state = "closed" -> "sent"
               [] state = "halfOpen" -> "trial"
               [] state = "open" -> IF elapsed THEN "transition" ELSE "idle")
  /\ UNCHANGED <<state, counters, elapsed, mu, requests, unreported>>

AllowTrial(c) ==
  /\ at[c] = "trial"
  /\ halfOpenIssued' = IF halfOpenIssued > MaxHalfOpenRequests THEN halfOpenIssued
                       ELSE halfOpenIssued + 1
  /\ Goto(c, IF halfOpenIssued < MaxHalfOpenRequests THEN "sent" ELSE "idle")
  /\ UNCHANGED <<state, consecutiveFail, consecutiveOK, elapsed, mu, requests, unreported>>

tryTransitionToHalfOpen(c) ==
  /\ at[c] = "transition" /\ mu = Free
  /\ IF state = "open"
       THEN /\ consecutiveOK' = 0 /\ halfOpenIssued' = 1 /\ state' = "halfOpen"
            /\ Goto(c, "sent")
       ELSE Goto(c, "idle") /\ UNCHANGED <<state, consecutiveOK, halfOpenIssued>>
  /\ UNCHANGED <<consecutiveFail, elapsed, mu, requests, unreported>>

\* The backend answers, below 500 or not.
Answer(c) ==
  /\ at[c] = "sent"
  /\ \E outcome \in {"success", "failure"} : Goto(c, outcome)
  /\ UNCHANGED <<state, counters, elapsed, mu, requests, unreported>>

\* The body of the answer breaks off: ReverseProxy panics with ErrAbortHandler,
\* and fetch, which does not recover, reports nothing.
Panic(c) ==
  /\ at[c] = "sent"
  /\ Goto(c, "idle") /\ unreported' = TRUE
  /\ UNCHANGED <<state, counters, elapsed, mu, requests>>

Success(c) ==
  /\ at[c] = "success"
  /\ consecutiveFail' = IF state = "closed" THEN 0 ELSE consecutiveFail
  /\ Goto(c, IF state = "halfOpen" THEN "counted" ELSE "idle")
  /\ UNCHANGED <<state, consecutiveOK, halfOpenIssued, elapsed, mu, requests, unreported>>

SuccessTrial(c) ==
  /\ at[c] = "counted"
  /\ consecutiveOK' = consecutiveOK + 1
  /\ Goto(c, IF consecutiveOK + 1 >= HalfOpenSuccessThreshold THEN "close" ELSE "idle")
  /\ UNCHANGED <<state, consecutiveFail, halfOpenIssued, elapsed, mu, requests, unreported>>

CloseBreaker(c) ==
  /\ at[c] = "close" /\ mu = Free
  /\ IF state = "halfOpen" THEN state' = "closed" /\ consecutiveFail' = 0
     ELSE UNCHANGED <<state, consecutiveFail>>
  /\ Goto(c, "idle")
  /\ UNCHANGED <<consecutiveOK, halfOpenIssued, elapsed, mu, requests, unreported>>

Failure(c) ==
  /\ at[c] = "failure"
  /\ Goto(c, CASE state = "closed" -> "failed" [] state = "halfOpen" -> "trip" [] OTHER -> "idle")
  /\ UNCHANGED <<state, counters, elapsed, mu, requests, unreported>>

FailureCounts(c) ==
  /\ at[c] = "failed"
  /\ consecutiveFail' = consecutiveFail + 1
  /\ Goto(c, IF consecutiveFail + 1 >= FailureThreshold THEN "trip" ELSE "idle")
  /\ UNCHANGED <<state, consecutiveOK, halfOpenIssued, elapsed, mu, requests, unreported>>

\* trip takes the lock and stores the state before openedAt.
Trip(c) ==
  /\ at[c] = "trip" /\ mu = Free
  /\ mu' = c /\ state' = "open"
  /\ Goto(c, "stamp")
  /\ UNCHANGED <<counters, elapsed, requests, unreported>>

Stamp(c) ==
  /\ at[c] = "stamp"
  /\ elapsed' = FALSE /\ consecutiveFail' = 0 /\ mu' = Free
  /\ Goto(c, "idle")
  /\ UNCHANGED <<state, consecutiveOK, halfOpenIssued, requests, unreported>>

OpenDurationPasses ==
  /\ ~elapsed /\ elapsed' = TRUE
  /\ UNCHANGED <<state, counters, mu, at, requests, unreported>>

---------------------------------------------------------------------------
Step(c) ==
  \/ Allow(c) \/ AllowTrial(c) \/ tryTransitionToHalfOpen(c) \/ Answer(c) \/ Panic(c)
  \/ Success(c) \/ SuccessTrial(c) \/ CloseBreaker(c)
  \/ Failure(c) \/ FailureCounts(c) \/ Trip(c) \/ Stamp(c)

Next == OpenDurationPasses \/ \E c \in Caller : Begin(c) \/ Step(c)

Spec == Init /\ [][Next]_breakerVars

---------------------------------------------------------------------------
\* Every variable has its type.
TypeOK ==
  /\ state \in {"closed", "open", "halfOpen"} /\ elapsed \in BOOLEAN
  /\ mu \in Caller \cup {Free}
  /\ consecutiveFail \in Nat /\ consecutiveOK \in Nat /\ halfOpenIssued \in 0..MaxHalfOpenRequests + 1

Quiet == \A c \in Caller : at[c] = "idle"

\* A half-open breaker with no request in flight has the trial requests left
\* that it needs to close again.
CanDecide ==
  Quiet /\ state = "halfOpen" =>
    halfOpenIssued + HalfOpenSuccessThreshold - consecutiveOK <= MaxHalfOpenRequests

\* As long as every request that was let through has reported its outcome, a
\* half-open breaker can decide: without this it would neither serve nor fail
\* fast for ever (breaker.newWithClock, under the contract of Breaker.Allow).
HalfOpenDecides == unreported \/ CanDecide

\* The contract of Breaker.Allow is kept by the gateway: "Callers that get true
\* must report the outcome via Success or Failure" (breaker.go:84-85).
OutcomesReported == CanDecide
===========================================================================
