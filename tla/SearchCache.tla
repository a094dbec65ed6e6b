---------------------------- MODULE SearchCache ----------------------------
(* railcache/internal/search over internal/cache: the cache-aside read path  *)
(* of one key. Clients of several instances, one background refresher per    *)
(* instance, the Redis entry and the Redis fill lock, outages of Redis, and  *)
(* a database whose rows change under a write-path Invalidate.               *)
EXTENDS Integers, FiniteSets

CONSTANTS
  Client, Refresher,
  Instance,      \* [Client -> the refresher of its process]
  WaitTries,
  MaxWrites,     \* bound on the versions of the rows
  MaxFailures, None

Worker == Client \cup Refresher

VARIABLES
  db,            \* the version of the rows
  entry,         \* the cached envelope: [ver, fresh], or None
  lock,          \* who holds the fill lock, or None
  redisUp,
  at,            \* [Worker -> the step it is at]
  read,          \* [Worker -> the version it read last]
  tries,         \* [Client -> reads left while it waits for the filler]
  failures       \* queries the database refused, and outages of Redis

searchVars == <<db, entry, lock, redisUp, at, read, tries, failures>>
world == <<db, redisUp, failures>>

Init ==
  /\ db = 0 /\ entry = None /\ lock = None /\ redisUp = TRUE
  /\ at = [w \in Worker |-> "idle"] /\ read = [w \in Worker |-> 0]
  /\ tries = [c \in Client |-> 0] /\ failures = 0

Goto(w, l) == at' = [at EXCEPT ![w] = l]

\* Search: the first read. A stale envelope is served, and triggerRefresh
\* starts the instance's refresher unless it is already running.
Search(c) ==
  /\ at[c] = "idle"
  /\ IF ~redisUp THEN Goto(c, "fallback")
     ELSE IF entry = None THEN Goto(c, "acquire")
     ELSE IF ~entry.fresh /\ at[Instance[c]] = "idle" THEN Goto(Instance[c], "acquire")
     ELSE UNCHANGED at
  /\ UNCHANGED <<world, entry, lock, read, tries>>

\* fill takes the lock, or waits for the one that holds it.
fill(c) ==
  /\ c \in Client /\ at[c] = "acquire"
  /\ IF ~redisUp THEN Goto(c, "fallback") /\ UNCHANGED <<lock, tries>>
     ELSE IF lock = None THEN lock' = c /\ Goto(c, "query") /\ UNCHANGED tries
     ELSE tries' = [tries EXCEPT ![c] = WaitTries] /\ Goto(c, "wait") /\ UNCHANGED lock
  /\ UNCHANGED <<world, entry, read>>

\* A loser's read after WaitEvery; Redis may die while it waits.
Wait(c) ==
  /\ at[c] = "wait" /\ tries[c] > 0
  /\ tries' = [tries EXCEPT ![c] = IF redisUp /\ entry = None THEN @ - 1 ELSE 0]
  /\ IF ~redisUp THEN Goto(c, "fallback")
     ELSE IF entry # None THEN Goto(c, "idle") ELSE UNCHANGED at
  /\ UNCHANGED <<world, entry, lock, read>>

\* The request's context ends: between two reads of a loser, in the query of a
\* fallback (Redis may be down and the database well), or in Acquire, which then
\* fails over to such a query although Redis may have set the lock.
Cancelled(c) ==
  /\ \/ at[c] = "wait" /\ tries[c] > 0 /\ UNCHANGED lock
     \/ at[c] \in {"fallback", "acquire"} /\ UNCHANGED lock
     \/ at[c] = "acquire" /\ redisUp /\ lock = None /\ lock' = c
  /\ Goto(c, "idle") /\ tries' = [tries EXCEPT ![c] = 0]
  /\ UNCHANGED <<world, entry, read>>

\* The budget is spent: singleflight lets one loser of the instance query and
\* gives the others its result.
Flying(c) == \E d \in Client : Instance[d] = Instance[c] /\ at[d] \in {"flyQuery", "flyStore"}

GiveUp(c) ==
  /\ at[c] = "wait" /\ tries[c] = 0
  /\ Goto(c, IF Flying(c) THEN "share" ELSE "flyQuery")
  /\ UNCHANGED <<world, entry, lock, read, tries>>

\* The flight lands for its leader c and for whoever shares it.
Land(c) ==
  LET riders == {d \in Client : Instance[d] = Instance[c] /\ at[d] = "share"} \cup {c} IN
  at' = [w \in Worker |-> IF w \in riders THEN "idle" ELSE at[w]]

\* queryDB of a lock holder, of a flight and of a fallback.
Query(w) ==
  /\ at[w] \in {"query", "flyQuery"}
  /\ read' = [read EXCEPT ![w] = db]
  /\ Goto(w, IF at[w] = "query" THEN "store" ELSE "flyStore")
  /\ UNCHANGED <<world, entry, lock, tries>>

\* The database fails: the holder releases, the stale envelope is kept.
QueryFails(w) ==
  /\ failures < MaxFailures /\ failures' = failures + 1
  /\ at[w] \in {"query", "flyQuery", "fallback"}
  /\ CASE at[w] = "query" -> Goto(w, "release")
       [] at[w] = "flyQuery" -> Land(w)
       [] at[w] = "fallback" -> Goto(w, "idle")
  /\ UNCHANGED <<db, redisUp, entry, lock, read, tries>>

fallback(c) ==
  /\ c \in Client /\ at[c] = "fallback" /\ Goto(c, "idle")
  /\ UNCHANGED <<world, entry, lock, read, tries>>

\* store: best effort; a write Redis refuses is only logged.
store(w) ==
  /\ at[w] \in {"store", "flyStore"}
  /\ entry' = IF redisUp THEN [ver |-> read[w], fresh |-> TRUE] ELSE entry
  /\ IF at[w] = "flyStore" THEN Land(w)
     ELSE Goto(w, "release")
  /\ read' = [read EXCEPT ![w] = 0]
  /\ UNCHANGED <<world, lock, tries>>

\* Mutant: DEL without comparing the token.
Release_Unchecked(w) == lock' = IF redisUp THEN None ELSE lock

\* The script deletes the lock only when the token is still the holder's.
Release(w) == lock' = IF redisUp /\ lock = w THEN None ELSE lock

releaseLock(w) ==
  /\ at[w] = "release" /\ Release(w) /\ Goto(w, "idle")
  /\ UNCHANGED <<world, entry, read, tries>>

\* Another instance owns the lock: the refresher ends, its key is deleted.
Refused(r) == Goto(r, "idle")

doRefresh(r) ==
  /\ r \in Refresher /\ at[r] = "acquire"
  /\ IF redisUp /\ lock = None THEN lock' = r /\ Goto(r, "query")
     ELSE Refused(r) /\ UNCHANGED lock
  /\ UNCHANGED <<world, entry, read, tries>>

---------------------------------------------------------------------------
\* A booking changes the rows; Invalidate follows it in a step of its own, and
\* is lost when Redis is down.
Write == db < MaxWrites /\ db' = db + 1 /\ UNCHANGED <<entry, lock, redisUp, at, read, tries, failures>>
Invalidate == redisUp /\ db > 0 /\ entry' = None /\ UNCHANGED <<world, lock, at, read, tries>>

LogicalExpiry ==
  /\ entry # None /\ entry.fresh /\ entry' = [entry EXCEPT !.fresh = FALSE]
  /\ UNCHANGED <<world, lock, at, read, tries>>
\* The physical TTL is a multiple of the logical one.
PhysicalExpiry ==
  /\ entry # None /\ ~entry.fresh /\ entry' = None
  /\ UNCHANGED <<world, lock, at, read, tries>>
LockTTL == lock # None /\ lock' = None /\ UNCHANGED <<world, entry, at, read, tries>>

Outage ==
  /\ redisUp' = ~redisUp
  /\ IF redisUp THEN failures < MaxFailures /\ failures' = failures + 1 ELSE UNCHANGED failures
  /\ UNCHANGED <<db, entry, lock, at, read, tries>>

Serve(w) ==
  \/ w \in Client /\ (fill(w) \/ Wait(w) \/ GiveUp(w) \/ fallback(w))
  \/ w \in Refresher /\ doRefresh(w)
  \/ Query(w) \/ store(w) \/ releaseLock(w)

Environment == Write \/ Invalidate \/ LogicalExpiry \/ PhysicalExpiry \/ LockTTL \/ Outage

Next ==
  \/ Environment
  \/ \E c \in Client : Search(c) \/ Cancelled(c)
  \/ \E w \in Worker : Serve(w) \/ QueryFails(w)

Spec == Init /\ [][Next]_searchVars

\* Requests keep coming, each goroutine runs, and both TTLs run out.
FairSpec ==
  /\ Spec /\ WF_searchVars(LogicalExpiry) /\ WF_searchVars(LockTTL)
  /\ \A c \in Client : WF_searchVars(Search(c))
  /\ \A w \in Worker : WF_searchVars(Serve(w))

---------------------------------------------------------------------------
\* Every variable has its type.
TypeOK ==
  /\ db \in 0..MaxWrites /\ lock \in Worker \cup {None} /\ redisUp \in BOOLEAN
  /\ entry # None => entry.ver \in 0..db /\ entry.fresh \in BOOLEAN

\* The fill lock is taken from its holder only by its TTL: no step of another
\* worker frees it (lock.go: Release compares the token).
LockIsOwned ==
  [][\A w \in Worker : lock = w /\ lock' # w => lock' = None /\ (at[w] = "release" \/ at' = at)]_searchVars

\* What becomes true again and again: no entry is older than the rows, unless
\* Redis is down, although a slow fill may store one after the Invalidate that
\* should have removed it (service.go: triggerRefresh, doRefresh, store).
StaleIsReplaced == entry = None \/ entry.ver = db \/ ~redisUp
===========================================================================
