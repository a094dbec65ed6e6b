--------------------------- MODULE GatewayFetch ---------------------------
(* fintech-gateway-go: gateway.fetch over internal/loadbalancer. A request   *)
(* picks a backend, asks its breaker and proxies, at most maxProxyAttempts   *)
(* times, while the health checker flips the backends. What a breaker        *)
(* answers is free here: GatewayBreaker is its specification.                *)
EXTENDS Integers, FiniteSets, FiniteSetsExt

CONSTANTS
  Request,
  N,             \* the backends are 0 .. N-1, in the order of the pool
  Strategy,      \* a subset of the four strategies
  Pinned,        \* where the ring of a consistent hash puts the request's key
  MaxProbes      \* bound on the rounds of the health checker

Backend == 0..N-1
NoBackend == N
maxProxyAttempts == 3

VARIABLES
  strategy, healthy, activeConns, rrCounter,
  at,            \* [Request -> the step of fetch it is at]
  attempt,       \* [Request -> attempts begun]
  backend,       \* [Request -> the backend of the attempt]
  reply,         \* [Request -> what serveHTTP wrote]
  leaked,        \* history: [Backend -> the connections no Release will follow]
  probes

fetchVars == <<strategy, healthy, activeConns, rrCounter, at, attempt, backend, reply, leaked, probes>>
poolVars == <<strategy, healthy, activeConns, rrCounter, leaked, probes>>

Init ==
  /\ strategy \in Strategy
  /\ healthy = [b \in Backend |-> TRUE]
  /\ activeConns = [b \in Backend |-> 0]
  /\ rrCounter = 0
  /\ at = [r \in Request |-> "new"]
  /\ attempt = [r \in Request |-> 0]
  /\ backend = [r \in Request |-> NoBackend]
  /\ reply = [r \in Request |-> "none"]
  /\ leaked = [b \in Backend |-> 0]
  /\ probes = 0

Goto(r, l) == at' = [at EXCEPT ![r] = l]
UpFrom(start) == {i \in 0..N-1 : healthy[(start + i) % N]}
FirstUp(start) == (start + Min(UpFrom(start))) % N

---------------------------------------------------------------------------
(* The strategies, over a pool with a healthy backend: what each may return. *)

pickRoundRobin == {FirstUp((rrCounter + 1) % N)}
pickLeastConnections ==
  {Min({b \in Backend : healthy[b]
          /\ \A o \in Backend : healthy[o] => activeConns[b] <= activeConns[o]})}
pickWeightedRandom == {b \in Backend : healthy[b]}
get == {FirstUp(Pinned)}

Candidates ==
  IF UpFrom(0) = {} THEN {NoBackend}
  ELSE CASE strategy = "RoundRobin" -> pickRoundRobin
         [] strategy = "LeastConnections" -> pickLeastConnections
         [] strategy = "WeightedRandom" -> pickWeightedRandom
         [] strategy = "ConsistentHash" -> get

\* Pool.Pick up to the choice; fetch gives up when there is none. The strategy
\* reads the health flags before Pick counts the connection.
Pick(r) ==
  /\ at[r] \in {"new", "retry"} /\ attempt[r] < maxProxyAttempts
  /\ attempt' = [attempt EXCEPT ![r] = @ + 1]
  /\ rrCounter' = IF strategy = "RoundRobin" THEN (rrCounter + 1) % N ELSE rrCounter
  /\ \E b \in Candidates :
       /\ backend' = [backend EXCEPT ![r] = b]
       /\ IF b = NoBackend
            THEN Goto(r, "done") /\ reply' = [reply EXCEPT ![r] = "502"]
            ELSE Goto(r, "picked") /\ UNCHANGED reply
  /\ UNCHANGED <<strategy, healthy, activeConns, leaked, probes>>

Connect(r) ==
  /\ at[r] = "picked" /\ Goto(r, "allow")
  /\ activeConns' = [activeConns EXCEPT ![backend[r]] = @ + 1]
  /\ UNCHANGED <<strategy, healthy, rrCounter, attempt, backend, reply, leaked, probes>>

Release(r) == activeConns' = [activeConns EXCEPT ![backend[r]] = @ - 1]

\* Mutant: an open breaker keeps the connection it never used.
Refused_Kept(r) ==
  /\ at[r] = "allow" /\ Goto(r, "retry")
  /\ UNCHANGED <<poolVars, attempt, backend, reply>>

\* The breaker is open: release, and take the next attempt.
Refused(r) ==
  /\ at[r] = "allow" /\ Goto(r, "retry")
  /\ Release(r)
  /\ UNCHANGED <<strategy, healthy, rrCounter, leaked, probes, attempt, backend, reply>>

Proxy(r) ==
  /\ at[r] = "allow" /\ Goto(r, "proxied")
  /\ UNCHANGED <<poolVars, attempt, backend, reply>>

\* ReverseProxy.ServeHTTP returns; a backend it cannot reach is a 502.
Answered(r) ==
  /\ at[r] = "proxied"
  /\ Release(r)
  /\ \/ Goto(r, "done") /\ reply' = [reply EXCEPT ![r] = "ok"]
     \/ /\ attempt[r] < maxProxyAttempts
        /\ Goto(r, "retry") /\ UNCHANGED reply
     \/ /\ attempt[r] = maxProxyAttempts
        /\ Goto(r, "done") /\ reply' = [reply EXCEPT ![r] = "5xx"]
  /\ UNCHANGED <<strategy, healthy, rrCounter, leaked, probes, attempt, backend>>

\* The body of the answer breaks off: ServeHTTP panics with ErrAbortHandler. The
\* Release after it is not deferred, and the server closes the client's
\* connection.
Panic(r) ==
  /\ at[r] = "proxied" /\ Goto(r, "done")
  /\ reply' = [reply EXCEPT ![r] = "aborted"]
  /\ leaked' = [leaked EXCEPT ![backend[r]] = @ + 1]
  /\ UNCHANGED <<strategy, healthy, activeConns, rrCounter, probes, attempt, backend>>

\* The last attempt met an open breaker: no recorder, so 502.
Exhausted(r) ==
  /\ at[r] = "retry" /\ attempt[r] = maxProxyAttempts
  /\ Goto(r, "done") /\ reply' = [reply EXCEPT ![r] = "502"]
  /\ UNCHANGED <<poolVars, attempt, backend>>

\* A tick of the health checker: SetHealthy of each probe.
run ==
  /\ probes < MaxProbes /\ probes' = probes + 1
  /\ healthy' \in [Backend -> BOOLEAN]
  /\ UNCHANGED <<strategy, activeConns, rrCounter, at, attempt, backend, reply, leaked>>

---------------------------------------------------------------------------
Fetch(r) == Pick(r) \/ Connect(r) \/ Refused(r) \/ Proxy(r) \/ Answered(r) \/ Panic(r) \/ Exhausted(r)

Next == run \/ \E r \in Request : Fetch(r)

Spec == Init /\ [][Next]_fetchVars
FairSpec == Spec /\ \A r \in Request : WF_fetchVars(Fetch(r))

---------------------------------------------------------------------------
\* Every variable has its type.
TypeOK ==
  /\ strategy \in Strategy /\ healthy \in [Backend -> BOOLEAN]
  /\ activeConns \in [Backend -> Int] /\ rrCounter \in 0..N-1
  /\ attempt \in [Request -> 0..maxProxyAttempts] /\ backend \in [Request -> 0..N]

Using(b) == Cardinality({r \in Request : backend[r] = b /\ at[r] \in {"allow", "proxied"}})

\* Every connection the pool counts belongs to one request that is still using
\* the backend, or to one that was cut off by a panic: no other way an attempt
\* ends forgets its Release or makes it twice (pool.go: Release; gateway.go:
\* fetch).
ConnsMatchRequests == \A b \in Backend : activeConns[b] = Using(b) + leaked[b]

\* "Release must be called exactly once for every successful Pick, when the
\* request against that backend has completed" (pool.go:69-70).
ConnsReleased == \A b \in Backend : activeConns[b] = Using(b)

\* What becomes true: every request is answered or, after a panic, cut off,
\* whatever the breakers and the health checker do meanwhile (gateway.go: fetch).
RequestsAnswered == \A r \in Request : reply[r] # "none"
===========================================================================
