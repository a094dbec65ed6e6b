----------------------------- MODULE RateLimits -----------------------------
(* The per-client token buckets of fintech-gateway-go/internal/ratelimit     *)
(* ("gateway": one lock guards the map and the tokens), and those of         *)
(* railcache/internal/httpapi and of the stadium's httpapi ("middleware": a  *)
(* lock guards the map, and the bucket is a rate.Limiter with a lock and a   *)
(* clock reading of its own; railcache asks a shared one after it). Buckets  *)
(* are created lazily, refilled by elapsed time, and evicted by a sweeper    *)
(* when idle.                                                                *)
EXTENDS Integers, Sequences

CONSTANTS
  Client, Worker,
  Rate, Burst, GlobalBurst,
  IdleTTL,       \* 4 * Burst / Rate in the gateway: Burst / Rate and a margin
  MaxStall,      \* how long a request is held between two of its steps in all
  MaxClock, MaxRequests, None

VARIABLES
  kind,          \* "gateway" or "middleware"
  clock,
  buckets,       \* [Client -> [tokens, last, seen], or None]
  global,        \* the shared bucket, [tokens, last]
  work,          \* [Worker -> the request it handles: at, since, and the clock it read]
  log,           \* [Client -> the times it got past its own bucket]
  back,          \* [Client -> how far a rate.Limiter of its moved its clock back, in all]
  requests

limitVars == <<kind, clock, buckets, global, work, log, back, requests>>

Least(a, b) == IF a < b THEN a ELSE b

Init ==
  /\ kind \in {"gateway", "middleware"}
  /\ clock = 0 /\ requests = 0
  /\ buckets = [c \in Client |-> None]
  /\ global = [tokens |-> GlobalBurst, last |-> 0]
  /\ work = [w \in Worker |-> None]
  /\ log = [c \in Client |-> <<>>] /\ back = [c \in Client |-> 0]

Tick ==
  /\ clock < MaxClock /\ clock' = clock + 1
  /\ \A w \in Worker : work[w] # None => clock - work[w].since < MaxStall
  /\ UNCHANGED <<kind, buckets, global, work, log, back, requests>>

\* A request reads the clock before it waits for the lock of the map.
Arrive(w) ==
  /\ work[w] = None /\ requests < MaxRequests /\ requests' = requests + 1
  /\ \E c \in Client : work' = [work EXCEPT ![w] =
       [client |-> c, since |-> clock, now |-> clock,
        at |-> IF kind = "gateway" THEN "allow" ELSE "find"]]
  /\ UNCHANGED <<kind, clock, buckets, global, log, back>>

\* Under the lock of the map: the client's limiter, a new and full one if there
\* is none. The limiter then reads the clock before it waits for its own lock.
limiterFor(w) ==
  LET c == work[w].client IN
  /\ work[w] # None /\ work[w].at = "find"
  /\ buckets' = [buckets EXCEPT ![c] =
       IF @ = None THEN [tokens |-> Burst, last |-> 0, seen |-> work[w].now]
       ELSE [@ EXCEPT !.seen = work[w].now]]
  /\ work' = [work EXCEPT ![w].at = "allow", ![w].now = clock]
  /\ UNCHANGED <<kind, clock, global, log, back, requests>>

\* Mutant: an idle client saves more than a burst.
Refilled_Uncapped(b, now) == b.tokens + (now - b.last) * Rate

\* The gateway takes back what it granted for time that a request which read the
\* clock earlier did not see pass.
Refilled(b, now) == Least(b.tokens + (now - b.last) * Rate, Burst)

\* rate.Limiter counts no time when the clock was read before the last request's.
advance(b, now, burst) ==
  Least(b.tokens + (IF now < b.last THEN 0 ELSE now - b.last) * Rate, burst)

\* Allow of the gateway, under the shard's lock.
Allow(w) ==
  LET c == work[w].client
      now == work[w].now
      tokens == IF buckets[c] = None THEN Burst ELSE Refilled(buckets[c], now)
      ok == tokens >= 1
  IN
  /\ kind = "gateway" /\ work[w] # None
  /\ buckets' = [buckets EXCEPT ![c] =
       [tokens |-> tokens - (IF ok THEN 1 ELSE 0), last |-> now, seen |-> now]]
  /\ log' = IF ok THEN [log EXCEPT ![c] = Append(@, now)] ELSE log
  /\ work' = [work EXCEPT ![w] = None]
  /\ UNCHANGED <<kind, clock, global, back, requests>>

\* Mutant: the shared bucket is asked whatever the client's own one answered.
Charge_Always(ok) == TRUE

\* The shared bucket is asked only for a request its own bucket let past.
Charge(ok) == ok

\* Allow of the client's rate.Limiter, under its lock; a refusal leaves it as it
\* was. The shared limiter then reads the clock in its turn.
LimiterAllow(w) ==
  LET c == work[w].client
      now == work[w].now
      tokens == advance(buckets[c], now, Burst)
      ok == tokens >= 1
  IN
  /\ kind = "middleware" /\ work[w] # None /\ work[w].at = "allow"
  /\ buckets' = IF ok THEN [buckets EXCEPT ![c].tokens = tokens - 1, ![c].last = now]
                ELSE buckets
  /\ back' = IF ok /\ now < buckets[c].last
               THEN [back EXCEPT ![c] = @ + buckets[c].last - now] ELSE back
  /\ log' = IF Charge(ok) THEN [log EXCEPT ![c] = Append(@, now)] ELSE log
  /\ work' = [work EXCEPT ![w] =
       IF Charge(ok) /\ GlobalBurst > 0 THEN [@ EXCEPT !.at = "global", !.now = clock] ELSE None]
  /\ UNCHANGED <<kind, clock, global, requests>>

\* Allow of the shared rate.Limiter.
GlobalAllow(w) ==
  LET tokens == advance(global, work[w].now, GlobalBurst) IN
  /\ work[w] # None /\ work[w].at = "global"
  /\ global' = IF tokens >= 1 THEN [tokens |-> tokens - 1, last |-> work[w].now] ELSE global
  /\ work' = [work EXCEPT ![w] = None]
  /\ UNCHANGED <<kind, clock, buckets, log, back, requests>>

Idle(c) == buckets[c] # None /\ buckets[c].seen < clock - IdleTTL

\* The sweeper evicts one idle bucket; a sweep is several of these.
sweep ==
  /\ \E c \in Client : Idle(c) /\ buckets' = [buckets EXCEPT ![c] = None]
  /\ UNCHANGED <<kind, clock, global, work, log, back, requests>>

---------------------------------------------------------------------------
Next ==
  \/ Tick \/ sweep
  \/ \E w \in Worker : Arrive(w) \/ limiterFor(w) \/ Allow(w) \/ LimiterAllow(w) \/ GlobalAllow(w)
Spec == Init /\ [][Next]_limitVars

---------------------------------------------------------------------------
\* Every variable has its type; a client's limiter is still in the map when a
\* request that found it asks it.
TypeOK ==
  /\ clock \in 0..MaxClock /\ global.tokens \in 0..GlobalBurst /\ requests \in 0..MaxRequests
  /\ \A c \in Client : buckets[c] # None => buckets[c].tokens <= Burst
  /\ \A w \in Worker : work[w] # None /\ kind = "middleware" /\ work[w].at = "allow" =>
       buckets[work[w].client] # None

\* In any window of time a client gets at most Burst + Rate * window requests
\* past its own bucket, and so takes at most that much of the shared bucket, not
\* even by waiting out an eviction. The gateway's bucket keeps to this when
\* requests read the clock in one order and take the lock in another; a
\* rate.Limiter then grants the time between the two readings twice, and no more
\* than that (limiter.go: Allow, sweep; middleware.go: Middleware, janitor;
\* ratelimit.go: allow, cleanupLoop).
WithinRate ==
  \A c \in Client : \A t1, t2 \in 0..MaxClock : t1 <= t2 =>
    Len(SelectSeq(log[c], LAMBDA t : t1 <= t /\ t <= t2)) <=
      Burst + Rate * (t2 - t1 + back[c])
=============================================================================
