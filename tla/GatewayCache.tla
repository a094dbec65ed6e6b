--------------------------- MODULE GatewayCache ---------------------------
(* fintech-gateway-go/internal/cache and gateway.serveCacheable: one shard   *)
(* of the response cache. GetOrLoad loads while it holds the shard's lock.   *)
EXTENDS Integers, Sequences, SequencesExt

CONSTANTS Client, Key, Capacity, TTL, MaxClock, MaxRequests

NoKey == "no key"
Free == "free"

VARIABLES
  clock,
  order,         \* the entries, most recently used first
  mu,            \* who holds the shard's lock
  call,          \* [Client -> its GetOrLoad]
  requests

cacheVars == <<clock, order, mu, call, requests>>

\* "behind": another caller loaded the key while this one waited with its miss.
Idle == [at |-> "idle", key |-> NoKey, now |-> 0, behind |-> FALSE]
Keys(s) == {s[i].key : i \in DOMAIN s}
Has(k) == k \in Keys(order)
Entry(k) == CHOOSE e \in ToSet(order) : e.key = k
Without(k) == SelectSeq(order, LAMBDA e : e.key # k)
MoveToFront(e) == <<e>> \o Without(e.key)
Bounded(s) == IF Capacity > 0 /\ Len(s) > Capacity THEN SubSeq(s, 1, Len(s) - 1) ELSE s

Init ==
  /\ clock = 0 /\ order = <<>> /\ mu = Free /\ requests = 0
  /\ call = [c \in Client |-> Idle]

Become(c, r) == call' = [call EXCEPT ![c] = r]

Tick ==
  /\ clock < MaxClock /\ clock' = clock + 1
  /\ UNCHANGED <<order, mu, call, requests>>

\* A cacheable GET: Get reads the clock before it waits for the lock.
serveCacheable(c) ==
  /\ call[c] = Idle /\ requests < MaxRequests /\ requests' = requests + 1
  /\ \E k \in Key : Become(c, [Idle EXCEPT !.at = "get", !.key = k, !.now = clock])
  /\ UNCHANGED <<clock, order, mu>>

Get(c) ==
  LET k == call[c].key IN
  /\ call[c].at = "get" /\ mu = Free
  /\ IF Has(k) /\ call[c].now <= Entry(k).expiresAt
       THEN order' = MoveToFront(Entry(k)) /\ Become(c, Idle)
       ELSE order' = Without(k) /\ Become(c, [call[c] EXCEPT !.at = "miss"])
  /\ UNCHANGED <<clock, mu, requests>>

\* Another caller loaded the key while this one waited.
Recheck(k) == Has(k) /\ clock < Entry(k).expiresAt

\* GetOrLoad takes the lock and looks again before it loads.
Lock(c) ==
  LET k == call[c].key IN
  /\ call[c].at = "miss" /\ mu = Free
  /\ IF Recheck(k)
       THEN order' = MoveToFront(Entry(k)) /\ Become(c, Idle) /\ UNCHANGED mu
       ELSE /\ mu' = c /\ Become(c, [call[c] EXCEPT !.at = "load", !.now = clock])
            /\ UNCHANGED order
  /\ UNCHANGED <<clock, requests>>

\* The load answered below 500: store, evict, unlock.
Loaded(c) ==
  /\ call[c].at = "load"
  /\ order' = Bounded(MoveToFront([key |-> call[c].key, expiresAt |-> call[c].now + TTL]))
  /\ mu' = Free
  /\ call' = [d \in Client |->
               IF d = c THEN Idle
               ELSE IF call[d].at = "miss" /\ call[d].key = call[c].key
               THEN [call[d] EXCEPT !.behind = TRUE] ELSE call[d]]
  /\ UNCHANGED <<clock, requests>>

\* fetch failed, panicked or answered 5xx: nothing is stored.
LoadFailed(c) ==
  /\ call[c].at = "load"
  /\ mu' = Free /\ Become(c, Idle)
  /\ UNCHANGED <<clock, order, requests>>

---------------------------------------------------------------------------
Finish(c) == Loaded(c) \/ LoadFailed(c)
GetOrLoad(c) == Get(c) \/ Lock(c) \/ Finish(c)

Next == Tick \/ \E c \in Client : serveCacheable(c) \/ GetOrLoad(c)

Spec == Init /\ [][Next]_cacheVars

\* A load ends, and sync.Mutex hands the lock to every waiter in the end.
FairSpec ==
  Spec /\ \A c \in Client : WF_cacheVars(Finish(c)) /\ SF_cacheVars(Get(c)) /\ SF_cacheVars(Lock(c))

---------------------------------------------------------------------------
\* Every variable has its type.
TypeOK ==
  /\ clock \in 0..MaxClock /\ mu \in Client \cup {Free} /\ requests \in 0..MaxRequests
  /\ \A i, j \in DOMAIN order : order[i].key = order[j].key => i = j

\* A caller whose key was loaded while it waited does not load it again: "a
\* concurrent miss for the *same key* never triggers a duplicate load"
\* (cache.go:117-120).
NoDuplicateLoad == \A c \in Client : call[c].at = "load" => ~call[c].behind

\* What becomes true again and again: no request is still waiting for the shard,
\* a failed load blocks nobody (cache.go: GetOrLoad).
ShardReleased == \A c \in Client : call[c].at = "idle"
===========================================================================
