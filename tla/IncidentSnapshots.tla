-------------------------- MODULE IncidentSnapshots --------------------------
(* golangdebugging diagnostics: the ring of recent error records, the         *)
(* snapshot endpoint that reads it, and the per-client windows that limit the *)
(* endpoint.                                                                  *)
EXTENDS Integers, Sequences, FiniteSets

CONSTANTS
  Client,
  Capacity,      \* of the ring
  MaxEvents,     \* Options.MaxEvents: what a snapshot shows
  Limit, Minute, MaxTracked,   \* of the rate limiter
  MaxClock, MaxRecords,        \* bounds: the clock, the records logged
  None

VARIABLES
  events, next, count,   \* EventBuffer
  logged,                \* history: records captured so far, numbered 1, 2, ...
  now, seen, overflow,   \* rateLimiter
  stackMu,               \* the request that takes a goroutine dump, or None
  request,               \* of a client: where its request is and what it shows
  grants                 \* history: times a client was let through by its own window

snapVars == <<events, next, count, logged, now, seen, overflow, stackMu, request, grants>>

Fresh == [started |-> -1, count |-> 0]
Waiting == [at |-> "idle", time |-> 0, shows |-> <<>>]

Init ==
  /\ events = [i \in 0..(Capacity - 1) |-> 0] /\ next = 0 /\ count = 0 /\ logged = 0
  /\ now = 0 /\ seen = [c \in {} |-> Fresh] /\ overflow = Fresh /\ stackMu = None
  /\ request = [c \in Client |-> Waiting]
  /\ grants = [c \in Client |-> <<>>]

Add(event) ==
  /\ events' = [events EXCEPT ![next] = event]
  /\ next' = (next + 1) % Capacity
  /\ count' = IF count < Capacity THEN count + 1 ELSE count

\* A record below the minimum level only goes on to the wrapped handler.
Handle ==
  /\ logged < MaxRecords /\ logged' = logged + 1 /\ Add(logged')
  /\ UNCHANGED <<now, seen, overflow, stackMu, request, grants>>

\* Mutant: the oldest records are shown.
Recent_FromStart(limit) ==
  [i \in 1..(IF limit > count THEN count ELSE limit) |-> events[(next + i - 1) % Capacity]]

Recent(limit) ==
  LET n == IF limit > count THEN count ELSE limit
      start == (next - n + Capacity) % Capacity
  IN [i \in 1..n |-> events[(start + i - 1) % Capacity]]

\* allowWindow: whether the window has room, and what becomes of it.
Over(w, t) == w.started = -1 \/ t - w.started >= Minute
Room(w, t) == Over(w, t) \/ w.count < Limit
Used(w, t) == IF Over(w, t) THEN [started |-> t, count |-> 1] ELSE [w EXCEPT !.count = @ + 1]

\* Mutant: a full table is emptied, whatever the age of its windows.
Kept_None(t) == [c \in {} |-> Fresh]
Kept(t) == [c \in {d \in DOMAIN seen : t - seen[d].started < Minute} |-> seen[c]]

Track(c, t, table) ==
  LET w == IF c \in DOMAIN table THEN table[c] ELSE Fresh IN
  [ok |-> Room(w, t), over |-> overflow,
   seen |-> IF Room(w, t)
            THEN [d \in DOMAIN table \union {c} |-> IF d = c THEN Used(w, t) ELSE table[d]]
            ELSE table]

\* allow: a table that is full drops its old windows first; a client it still
\* has no room for shares the overflow window.
allow(c, t) ==
  IF c \in DOMAIN seen \/ Cardinality(DOMAIN seen) < MaxTracked THEN Track(c, t, seen)
  ELSE IF Cardinality(DOMAIN Kept(t)) < MaxTracked THEN Track(c, t, Kept(t))
  ELSE [ok |-> Room(overflow, t), seen |-> Kept(t),
        over |-> IF Room(overflow, t) THEN Used(overflow, t) ELSE overflow]

Go(c, at, shows) == request' = [request EXCEPT ![c].at = at, ![c].shows = shows]

\* ServeHTTP up to the limiter, which reads the clock before it takes its lock.
ServeHTTP(c) ==
  /\ request[c].at = "idle"
  /\ request' = [request EXCEPT ![c].at = "allow", ![c].time = now]
  /\ UNCHANGED <<events, next, count, logged, now, seen, overflow, stackMu, grants>>

\* The limiter, under its lock; a refused request ends.
Limited(c) ==
  LET t == request[c].time
      a == allow(c, t)
  IN
  /\ request[c].at = "allow"
  /\ seen' = a.seen /\ overflow' = a.over
  /\ IF a.ok THEN Go(c, "capture", <<>>) ELSE Go(c, "idle", <<>>)
  /\ grants' = IF a.ok /\ c \in DOMAIN a.seen
               THEN [grants EXCEPT ![c] = Append(@, t)] ELSE grants
  /\ UNCHANGED <<events, next, count, logged, now, stackMu>>

\* The client is gone before the capture: 503.
Cancelled(c) ==
  /\ request[c].at = "capture" /\ Go(c, "busy", <<>>)
  /\ UNCHANGED <<events, next, count, logged, now, seen, overflow, stackMu, grants>>

\* Capture: the records are read, then a goroutine dump may be wanted.
Capture(c, goroutines) ==
  /\ request[c].at = "capture"
  /\ CASE ~goroutines -> Go(c, "done", Recent(MaxEvents)) /\ UNCHANGED stackMu
       [] goroutines /\ stackMu # None -> Go(c, "busy", <<>>) /\ UNCHANGED stackMu
       [] goroutines /\ stackMu = None -> Go(c, "stacks", Recent(MaxEvents)) /\ stackMu' = c
  /\ UNCHANGED <<events, next, count, logged, now, seen, overflow, grants>>

collectGoroutines(c) ==
  /\ request[c].at = "stacks" /\ Go(c, "done", request[c].shows) /\ stackMu' = None
  /\ UNCHANGED <<events, next, count, logged, now, seen, overflow, grants>>

Answered(c) ==
  /\ request[c].at \in {"done", "busy"} /\ Go(c, "idle", <<>>)
  /\ UNCHANGED <<events, next, count, logged, now, seen, overflow, stackMu, grants>>

Tick ==
  /\ now < MaxClock /\ now' = now + 1
  /\ UNCHANGED <<events, next, count, logged, seen, overflow, stackMu, request, grants>>

Next ==
  \/ Handle \/ Tick
  \/ \E c \in Client : ServeHTTP(c) \/ Limited(c) \/ Cancelled(c) \/ collectGoroutines(c) \/ Answered(c)
  \/ \E c \in Client, g \in BOOLEAN : Capture(c, g)

Spec == Init /\ [][Next]_snapVars

\* Every variable has its type.
TypeOK ==
  /\ next \in 0..(Capacity - 1) /\ count \in 0..Capacity /\ now \in 0..MaxClock
  /\ DOMAIN seen \subseteq Client /\ Cardinality(DOMAIN seen) <= MaxTracked
  /\ stackMu \in Client \union {None}

\* A snapshot shows a run of consecutive records, oldest first, and one taken now
\* would end with the newest: the ring's arithmetic holds before, at and after
\* the wrap, and while records are added as snapshots are taken.
ShowsNewest ==
  /\ Recent(MaxEvents) = [i \in 1..Len(Recent(MaxEvents)) |-> logged - Len(Recent(MaxEvents)) + i]
  /\ \A c \in Client : LET s == request[c].shows IN
        \A i \in 1..(Len(s) - 1) : s[i + 1] = s[i] + 1

\* No client is let through by its own window more than twice the limit in less
\* than a minute: filling the table with other clients wins nobody a new window.
WindowsHold ==
  \A c \in Client : \A i \in 1..(Len(grants[c]) - 2 * Limit) :
      grants[c][i + 2 * Limit] - grants[c][i] >= Minute
=============================================================================
