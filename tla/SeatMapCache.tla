---------------------------- MODULE SeatMapCache ----------------------------
(***************************************************************************)
(* The stadium's seat map cache (booking/seatcache.go) with its readers, and *)
(* the writes that drop it (placeHold, ConfirmHold, CancelBooking run under  *)
(* withRetry in booking/service.go).  One match: its seat map is the number  *)
(* of writes it reflects.                                                    *)
(***************************************************************************)
EXTENDS FiniteSets, Naturals, Sequences

CONSTANTS
    Reader, Writer,
    TTL,            \* seatCacheTTL
    Timeout,        \* requestTimeout: how long a request or a flight may take
    MaxRetries,     \* maxRetries of the service
    MaxTime,        \* bound: the clock
    None

VARIABLES
    now, commits,   \* the clock; the time of each committed write, in order
    item,           \* items[matchID]: the map and its expiry, or None
    flight,         \* the singleflight call: its phase, what it read, its start
    read,           \* per reader: where it is, what it was given, since when
    write           \* per writer: where it is, its attempt, its start

seatVars == <<now, commits, item, flight, read, write>>

Latest == Len(commits)
-----------------------------------------------------------------------------
\* get: an entry counts until its expiry has passed.
get_Forever == item # None
get == item # None /\ now <= item.expiresAt

put(v) == item' = [seats |-> v, expiresAt |-> now + TTL]
invalidate == item' = None

Init ==
    /\ now = 0 /\ commits = <<>> /\ item = None /\ flight = None
    /\ read = [r \in Reader |-> [at |-> "idle", seats |-> 0, since |-> 0]]
    /\ write = [w \in Writer |-> [at |-> "idle", attempt |-> 0, since |-> 0]]

Overdue(x) == now >= x.since + Timeout
RGo(r, at, v) == read' = [read EXCEPT ![r].at = at, ![r].seats = v]

\* load: a hit returns; a miss starts the flight or joins it.
Load(r) ==
    /\ read[r].at = "idle"
    /\ IF get
       THEN /\ read' = [read EXCEPT ![r] = [at |-> "done", seats |-> item.seats, since |-> now]]
            /\ UNCHANGED flight
       ELSE /\ read' = [read EXCEPT ![r] = [at |-> "wait", seats |-> 0, since |-> now]]
            /\ flight' = IF flight = None THEN [at |-> "check", seats |-> 0, since |-> now]
                         ELSE flight
    /\ UNCHANGED <<now, commits, item, write>>

\* The flight ends and every caller still waiting on it has its result.
Deliver(v, result) ==
    /\ flight' = None
    /\ read' = [r \in Reader |-> IF read[r].at = "wait"
                                 THEN [at |-> result, seats |-> v, since |-> now]
                                 ELSE read[r]]

\* The flight looks again: an earlier one may have filled the cache.
Recheck ==
    /\ flight # None /\ flight.at = "check"
    /\ IF get THEN Deliver(item.seats, "done")
       ELSE flight' = [flight EXCEPT !.at = "query", !.since = now] /\ UNCHANGED read
    /\ UNCHANGED <<now, commits, item, write>>

\* ListSeats, on a context of the flight's own: the rows as they are now.
ListSeats ==
    /\ flight # None /\ flight.at = "query"
    /\ flight' = [flight EXCEPT !.at = "rows", !.seats = Latest]
    /\ UNCHANGED <<now, commits, item, read, write>>

Loaded ==
    /\ flight # None /\ flight.at = "rows"
    /\ put(flight.seats) /\ Deliver(flight.seats, "done")
    /\ UNCHANGED <<now, commits, write>>

LoadFailed ==
    /\ flight # None /\ flight.at \in {"query", "rows"}
    /\ Deliver(0, "failed")
    /\ UNCHANGED <<now, commits, item, write>>

\* A reader whose deadline has come stops waiting; the flight goes on.
Cancelled(r) ==
    /\ read[r].at = "wait" /\ Overdue(read[r]) /\ RGo(r, "failed", 0)
    /\ UNCHANGED <<now, commits, item, flight, write>>

ReadAgain(r) ==
    /\ read[r].at \in {"done", "failed"} /\ RGo(r, "idle", 0)
    /\ UNCHANGED <<now, commits, item, flight, write>>

-----------------------------------------------------------------------------
(* withRetry around a write. *)

WGo(w, at) == write' = [write EXCEPT ![w].at = at]

Request(w) ==
    /\ write[w].at = "idle"
    /\ write' = [write EXCEPT ![w] = [at |-> "try", attempt |-> 0, since |-> now]]
    /\ UNCHANGED <<now, commits, item, flight, read>>

\* fn: it commits, or fails for good, or in a way worth another attempt, which
\* waits unless it was the last one.  A spent deadline lets no attempt start,
\* and a commit whose answer is lost is an error that drops nothing.
withRetry(w) ==
    /\ write[w].at = "try"
    /\ \/ /\ ~Overdue(write[w]) /\ commits' = Append(commits, now)
          /\ WGo(w, "drop") \/ WGo(w, "error")
       \/ WGo(w, "error") /\ UNCHANGED commits
       \/ /\ ~Overdue(write[w]) /\ write[w].attempt < MaxRetries
          /\ WGo(w, "backoff") /\ UNCHANGED commits
    /\ UNCHANGED <<now, item, flight, read>>

\* backoffFor's timer, of any length, against the deadline.
Backoff(w) ==
    /\ write[w].at = "backoff"
    /\ IF Overdue(write[w]) THEN WGo(w, "error")
       ELSE write' = [write EXCEPT ![w].at = "try", ![w].attempt = @ + 1]
    /\ UNCHANGED <<now, commits, item, flight, read>>

placeHold(w) ==
    /\ write[w].at = "drop" /\ invalidate /\ WGo(w, "ok")
    /\ UNCHANGED <<now, commits, flight, read>>

\* Time passes, never beyond what a deadline allows: a query ends with its
\* context, and a committed write drops the entry within the same request.
Tick ==
    /\ now < MaxTime /\ now' = now + 1
    /\ flight # None => now < flight.since + Timeout
    /\ \A w \in Writer : write[w].at \in {"try", "backoff", "drop"} =>
           now < write[w].since + Timeout
    /\ \A r \in Reader : read[r].at = "wait" => now < read[r].since + Timeout
    /\ UNCHANGED <<commits, item, flight, read, write>>

Next == \/ Recheck \/ ListSeats \/ Loaded \/ LoadFailed \/ Tick
        \/ \E r \in Reader : Load(r) \/ Cancelled(r) \/ ReadAgain(r)
        \/ \E w \in Writer : Request(w) \/ withRetry(w) \/ Backoff(w) \/ placeHold(w)

Spec == Init /\ [][Next]_seatVars

-----------------------------------------------------------------------------
\* Every variable has its type.
TypeOK ==
    /\ now \in 0..MaxTime /\ Latest <= Cardinality(Writer)
    /\ \A r \in Reader : read[r].at \in {"idle", "wait", "done", "failed"}
    /\ \A w \in Writer : /\ write[w].at \in {"idle", "try", "backoff", "drop", "ok", "error"}
                         /\ write[w].attempt <= MaxRetries

\* No reader is given a seat map later than d after the write that outdated it.
StaleWithin(d) ==
    \A r \in Reader :
        read[r].at = "done" /\ read[r].seats < Latest =>
            read[r].since <= commits[read[r].seats + 1] + d

\* A seat map is given for at most a TTL and a request timeout after the write
\* that outdated it: a load that was reading when the write dropped the entry
\* may put the old map back, but a load ends with its own context and what it
\* puts expires (seatcache.go: load, put, get; hold.go: placeHold).
StaleIsBounded == StaleWithin(TTL + Timeout)

\* What is said of it: "a load already in flight can still repopulate the cache
\* with pre-commit state, bounded by one seatCacheTTL window" (hold.go:35-37),
\* and "seatCacheTTL bounds how stale a seat map may be" (seatcache.go:11).
StaleWithinTTL == StaleWithin(TTL)
=============================================================================
