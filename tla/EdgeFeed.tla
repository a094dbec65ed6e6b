------------------------------ MODULE EdgeFeed ------------------------------
(* instascale edge-api: a feed is composed from two downstream calls made at  *)
(* once, each through a client with bounded retries and a circuit breaker     *)
(* that all the requests share.                                               *)
EXTENDS Naturals

CONSTANTS
  Request,
  MaxRetries, FailThreshold,   \* the fields of ClientConfig
  MaxCloses                    \* bound: how often an open breaker closes again

VARIABLES
  reply,     \* of a request: "new", "open" while it is served, or its status
  call,      \* of a request and a downstream: where its Get is
  failures, opened,   \* of a client: the fields failures and openedUntil
  closes

edgeVars == <<reply, call, failures, opened, closes>>

Downstream == {"feed", "counts"}

\* tries counts the attempts, late those begun while the breaker was open.
Idle == [at |-> "idle", tries |-> 0, late |-> 0]

Init ==
  /\ reply = [r \in Request |-> "new"]
  /\ call = [r \in Request |-> [d \in Downstream |-> Idle]]
  /\ failures = [d \in Downstream |-> 0]
  /\ opened = [d \in Downstream |-> FALSE]
  /\ closes = 0

breakerOpen(d) == opened[d]

\* do begins an attempt.
Attempting(d, c) ==
  [at |-> "do", tries |-> c.tries + 1, late |-> IF breakerOpen(d) THEN c.late + 1 ELSE c.late]

\* Get: nothing is sent through an open breaker.
Get(d) == IF breakerOpen(d) THEN [Idle EXCEPT !.at = "err"] ELSE Attempting(d, Idle)

\* GetFeed: an injected failure or a bad user id is refused, the rest fans out.
GetFeed(r) ==
  /\ reply[r] = "new"
  /\ \/ \E status \in {"500", "400"} : reply' = [reply EXCEPT ![r] = status] /\ UNCHANGED call
     \/ /\ reply' = [reply EXCEPT ![r] = "open"]
        /\ call' = [call EXCEPT ![r] = [d \in Downstream |-> Get(d)]]
  /\ UNCHANGED <<failures, opened, closes>>

recordSuccess(d) == failures' = [failures EXCEPT ![d] = 0] /\ UNCHANGED opened

recordFailure(d) ==
  LET trips == failures[d] + 1 >= FailThreshold IN
  /\ failures' = [failures EXCEPT ![d] = IF trips THEN 0 ELSE @ + 1]
  /\ opened' = [opened EXCEPT ![d] = @ \/ trips]

Succeed(r, d) ==
  /\ call[r][d].at = "do"
  /\ recordSuccess(d) /\ call' = [call EXCEPT ![r][d].at = "ok"]
  /\ UNCHANGED <<reply, closes>>

\* Mutant: the breaker is not looked at between attempts.
Fail_Unchecked(r, d) ==
  /\ call[r][d].at = "do"
  /\ recordFailure(d)
  /\ call' = [call EXCEPT ![r][d].at = IF call[r][d].tries <= MaxRetries THEN "backoff" ELSE "err"]
  /\ UNCHANGED <<reply, closes>>

\* A failed attempt is counted; the last one, or one that finds the breaker
\* open, ends the call.
Fail(r, d) ==
  /\ call[r][d].at = "do"
  /\ recordFailure(d)
  /\ call' = [call EXCEPT ![r][d].at =
                IF call[r][d].tries <= MaxRetries /\ ~opened'[d] THEN "backoff" ELSE "err"]
  /\ UNCHANGED <<reply, closes>>

\* The backoff ends in another attempt, without a look at the breaker, or the
\* client has gone.
Retry(r, d) ==
  /\ call[r][d].at = "backoff"
  /\ \/ call' = [call EXCEPT ![r][d] = Attempting(d, @)]
     \/ call' = [call EXCEPT ![r][d].at = "err"]
  /\ UNCHANGED <<reply, failures, opened, closes>>

\* Both results are in: what failed is left out, and only both failing is a 503.
Compose(r) ==
  /\ reply[r] = "open" /\ \A d \in Downstream : call[r][d].at \in {"ok", "err"}
  /\ reply' = [reply EXCEPT ![r] = IF \E d \in Downstream : call[r][d].at = "ok"
                                   THEN "200" ELSE "503"]
  /\ UNCHANGED <<call, failures, opened, closes>>

\* openedUntil passes.
Elapse(d) ==
  /\ opened[d] /\ closes < MaxCloses /\ closes' = closes + 1
  /\ opened' = [opened EXCEPT ![d] = FALSE]
  /\ call' = [r \in Request |-> [call[r] EXCEPT ![d].late = 0]]
  /\ UNCHANGED <<reply, failures>>

Next ==
  \/ \E r \in Request : GetFeed(r) \/ Compose(r)
  \/ \E r \in Request, d \in Downstream : Succeed(r, d) \/ Fail(r, d) \/ Retry(r, d)
  \/ \E d \in Downstream : Elapse(d)

Spec == Init /\ [][Next]_edgeVars

\* Attempts and backoffs have a deadline, and GetFeed only waits for them.
EdgeFair ==
  \A r \in Request :
    /\ WF_edgeVars(Compose(r))
    /\ \A d \in Downstream : WF_edgeVars(Succeed(r, d) \/ Fail(r, d) \/ Retry(r, d))
FairSpec == Spec /\ EdgeFair

\* Every variable has its type.
TypeOK ==
  /\ reply \in [Request -> {"new", "open", "200", "400", "500", "503"}]
  /\ failures \in [Downstream -> 0..(FailThreshold - 1)]
  /\ opened \in [Downstream -> BOOLEAN]

\* While a breaker stays open each call that was under way makes at most one
\* more attempt, so a storm ends with one round of stragglers: Get looks at the
\* breaker after every failure, and never before an attempt.
StormIsCapped ==
  \A r \in Request, d \in Downstream : call[r][d].late <= 1

\* What becomes true again and again: no feed is still being composed, whatever
\* the two services do (GetFeed).
FeedsAnswered == \A r \in Request : reply[r] # "open"
=============================================================================
