------------------------------ MODULE TtdQueue ------------------------------
(***************************************************************************)
(* The virtual queue of ttd/internal/queue for one slot: holds are taken,  *)
(* confirmed and expired by Lua scripts in Redis (each one atomic step),   *)
(* and a confirmation is written to an append-only booking file between    *)
(* two of them.  Visitors' requests, timer workers and crashes of the      *)
(* service interleave; the file is written, synced and remembered in       *)
(* memory (`seen'), in that order.                                         *)
(***************************************************************************)
EXTENDS Integers, FiniteSets

CONSTANTS
  Hold,         \* hold ids
  Client,       \* requests that confirm holds
  Worker,       \* timer workers
  Capacities,   \* capacities an operator sets
  TTL,          \* hold duration
  MaxNow,       \* bound: clock readings; holds are taken that end by then
  MaxSets,      \* bound: SetCapacity calls
  MaxCrashes,   \* bound: crashes of the service and failed requests
  MaxUnsynced   \* bound: writes that are not followed by a successful Sync

VARIABLES
  capacity,   \* Redis: capacity key, -1 when not configured
  used,       \* Redis: used key
  status,     \* Redis: status field of each hold, "none" without a hash
  deadline,   \* Redis: the sorted set of deadlines, -1 for no entry
  pending,    \* Redis: the set of pending confirmations
  durable,    \* booking file: synced lines of each hold
  unsynced,   \* booking file: lines written and not synced
  torn,       \* booking file: it has part of a line
  seen,       \* FileBookingStore.seen
  up,         \* the service runs
  call,       \* confirmations in progress
  worker,     \* what each timer worker is doing
  now,        \* the clock
  peak,       \* the largest capacity set so far
  sets, crashes, lapses   \* how often each bounded event happened

redis == <<capacity, used, status, deadline, pending, peak, sets>>
file  == <<durable, unsynced, torn, seen, up, lapses>>
vars  == <<capacity, used, status, deadline, pending, durable, unsynced, torn,
           seen, up, call, worker, now, peak, sets, crashes, lapses>>

Status == {"none", "held", "confirming", "confirmed", "expired"}
NoHold == "none"
Resting == [op |-> "idle", hold |-> NoHold, todo |-> {}]
Idle   == [op |-> "idle", hold |-> NoHold, read |-> "none"]

TypeOK ==
  /\ capacity \in Capacities \cup {-1}
  /\ used \in 0..Cardinality(Hold)
  /\ status \in [Hold -> Status]
  /\ deadline \in [Hold -> -1..(MaxNow + TTL)]
  /\ pending \subseteq Hold
  /\ durable \in [Hold -> Nat] /\ unsynced \in [Hold -> Nat]
  /\ seen \subseteq Hold /\ torn \in BOOLEAN /\ up \in BOOLEAN
  /\ call \in [Client -> [op: {"idle", "mark", "recheck", "record", "finalize"},
                          hold: Hold \cup {NoHold}, read: Status]]
  /\ worker \in [Worker -> [op: {"idle", "next", "record", "finalize",
                                 "release"},
                            hold: Hold \cup {NoHold}, todo: SUBSET Hold]]
  /\ now \in 0..MaxNow

Init ==
  /\ capacity = -1 /\ used = 0 /\ peak = 0
  /\ status = [h \in Hold |-> "none"]
  /\ deadline = [h \in Hold |-> -1]
  /\ pending = {}
  /\ durable = [h \in Hold |-> 0] /\ unsynced = [h \in Hold |-> 0]
  /\ seen = {} /\ torn = FALSE /\ up = TRUE
  /\ call = [c \in Client |-> Idle]
  /\ worker = [w \in Worker |-> Resting]
  /\ now = 0 /\ sets = 0 /\ crashes = 0 /\ lapses = 0

----------------------------------------------------------------------------
(* Capacity and holds.                                                     *)

SetCapacity(n) ==
  /\ sets < MaxSets
  /\ sets' = sets + 1
  /\ capacity' = n
  /\ peak' = IF n > peak THEN n ELSE peak
  /\ UNCHANGED <<used, status, deadline, pending, file, call, worker, now,
                 crashes>>

\* Mutant: the script forgets to compare.
CreateHold_NoCheck(h) ==
  /\ status[h] = "none" /\ now + TTL <= MaxNow
  /\ capacity >= 0
  /\ status' = [status EXCEPT ![h] = "held"]
  /\ used' = used + 1
  /\ deadline' = [deadline EXCEPT ![h] = now + TTL]
  /\ UNCHANGED <<capacity, pending, peak, sets, file, call, worker, now,
                 crashes>>

\* The script of CreateHold, under a fresh id.
CreateHold(h) ==
  /\ status[h] = "none" /\ now + TTL <= MaxNow
  /\ capacity >= 0 /\ used < capacity
  /\ status' = [status EXCEPT ![h] = "held"]
  /\ used' = used + 1
  /\ deadline' = [deadline EXCEPT ![h] = now + TTL]
  /\ UNCHANGED <<capacity, pending, peak, sets, file, call, worker, now,
                 crashes>>

----------------------------------------------------------------------------
(* ConfirmHold.                                                            *)

At(c, op) == call[c].op = op
Goto(c, op, h, read) ==
  call' = [call EXCEPT ![c] = [op |-> op, hold |-> h, read |-> read]]

\* GetHold, and the decision taken on what it read.
ConfirmHold(c, h) ==
  /\ At(c, "idle")
  /\ \/ status[h] \in {"confirming", "confirmed"}
        /\ Goto(c, "record", h, status[h])
     \/ status[h] = "held" /\ deadline[h] > now
        /\ Goto(c, "mark", h, "held")
  /\ UNCHANGED <<redis, file, worker, now, crashes>>

\* Mutant: the script trusts the status that was read before it.
Mark_Unchecked(c) ==
  /\ At(c, "mark")
  /\ LET h == call[c].hold IN
     /\ status' = [status EXCEPT ![h] = "confirming"]
     /\ deadline' = [deadline EXCEPT ![h] = -1]
     /\ pending' = pending \cup {h}
     /\ Goto(c, "record", h, "confirming")
  /\ UNCHANGED <<capacity, used, peak, sets, file, worker, now, crashes>>

\* Mutant: the result of the script is ignored.
Mark_ResultIgnored(c) ==
  /\ At(c, "mark")
  /\ LET h == call[c].hold IN
     /\ IF status[h] = "held" /\ deadline[h] > now
        THEN /\ status' = [status EXCEPT ![h] = "confirming"]
             /\ deadline' = [deadline EXCEPT ![h] = -1]
             /\ pending' = pending \cup {h}
        ELSE UNCHANGED <<status, deadline, pending>>
     /\ Goto(c, "record", h, "confirming")
  /\ UNCHANGED <<capacity, used, peak, sets, file, worker, now, crashes>>

\* The script that moves a held hold, still in time, to confirming.
Mark(c) ==
  /\ At(c, "mark")
  /\ LET h == call[c].hold IN
     \/ /\ status[h] = "held" /\ deadline[h] > now
        /\ status' = [status EXCEPT ![h] = "confirming"]
        /\ deadline' = [deadline EXCEPT ![h] = -1]
        /\ pending' = pending \cup {h}
        /\ Goto(c, "record", h, "confirming")
     \/ /\ ~(status[h] = "held" /\ deadline[h] > now)
        /\ Goto(c, "recheck", h, "held")
        /\ UNCHANGED <<status, deadline, pending>>
  /\ UNCHANGED <<capacity, used, peak, sets, file, worker, now, crashes>>

\* GetHold again after the script declined.
Recheck(c) ==
  /\ At(c, "recheck")
  /\ LET h == call[c].hold IN
     IF status[h] \in {"confirming", "confirmed"}
     THEN Goto(c, "record", h, status[h])
     ELSE call' = [call EXCEPT ![c] = Idle]
  /\ UNCHANGED <<redis, file, worker, now, crashes>>

----------------------------------------------------------------------------
(* FileBookingStore.Record, under its mutex.                               *)

\* ErrAlreadyRecorded, or the line written, synced (with all lines before it)
\* and remembered.
Recorded(h) ==
  \/ h \in seen /\ UNCHANGED file
  \/ /\ h \notin seen
     /\ durable' = [g \in Hold |-> durable[g] + unsynced[g]
                                   + IF g = h THEN 1 ELSE 0]
     /\ unsynced' = [g \in Hold |-> 0]
     /\ seen' = seen \cup {h}
     /\ UNCHANGED <<torn, up, lapses>>

\* Sync fails, or the service stops before it: the line is in the file, its
\* fate open.  Or Write puts only part of the line there.
Unsynced(h) ==
  /\ h \notin seen
  /\ lapses < MaxUnsynced
  /\ lapses' = lapses + 1
  /\ \/ unsynced' = [unsynced EXCEPT ![h] = @ + 1] /\ UNCHANGED torn
     \/ torn' = TRUE /\ UNCHANGED unsynced
  /\ UNCHANGED <<durable, seen, up>>

\* Mutant: the hold is confirmed before its line is synced.
Record_Unsynced(c) ==
  /\ At(c, "record")
  /\ call' = [call EXCEPT ![c].op = "finalize"]
  /\ UNCHANGED <<redis, file, worker, now, crashes>>

\* The client goes on to finalize unless it read a confirmed hold.
Record(c) ==
  /\ At(c, "record")
  /\ Recorded(call[c].hold)
  /\ call' = IF call[c].read = "confirmed"
             THEN [call EXCEPT ![c] = Idle]
             ELSE [call EXCEPT ![c].op = "finalize"]
  /\ UNCHANGED <<redis, worker, now, crashes>>

RecordFails(c) ==
  /\ At(c, "record")
  /\ Unsynced(call[c].hold)
  /\ call' = [call EXCEPT ![c] = Idle]
  /\ UNCHANGED <<redis, worker, now, crashes>>

\* The script that moves a confirming hold to confirmed.
Finalized(h) ==
  /\ IF status[h] = "confirming"
     THEN /\ status' = [status EXCEPT ![h] = "confirmed"]
          /\ pending' = pending \ {h}
     ELSE UNCHANGED <<status, pending>>
  /\ UNCHANGED <<capacity, used, deadline, peak, sets>>

Finalize(c) ==
  /\ At(c, "finalize")
  /\ Finalized(call[c].hold)
  /\ call' = [call EXCEPT ![c] = Idle]
  /\ UNCHANGED <<file, worker, now, crashes>>

\* A Redis error or a failed write ends the request where it is.
Abort(c) ==
  /\ ~At(c, "idle")
  /\ crashes < MaxCrashes
  /\ crashes' = crashes + 1
  /\ call' = [call EXCEPT ![c] = Idle]
  /\ UNCHANGED <<redis, file, worker, now>>

----------------------------------------------------------------------------
(* StartExpiryWorker: RecoverPendingConfirmations, then                    *)
(* ReleaseExpiredHolds.                                                    *)

Work(w, op, h, todo) ==
  worker' = [worker EXCEPT ![w] = [op |-> op, hold |-> h, todo |-> todo]]

\* Mutant: the worker only releases expired holds.
Poll_NoRecovery(w) ==
  /\ worker[w].op = "idle"
  /\ Work(w, "next", NoHold, {})
  /\ UNCHANGED <<redis, file, call, now, crashes>>

\* ZRANGE of the pending confirmations.
Poll(w) ==
  /\ worker[w].op = "idle"
  /\ Work(w, "next", NoHold, pending)
  /\ UNCHANGED <<redis, file, call, now, crashes>>

\* GetHold of the next one; it is skipped unless confirming.
Recover(w, h) ==
  /\ worker[w].op = "next" /\ h \in worker[w].todo
  /\ IF status[h] = "confirming"
     THEN Work(w, "record", h, worker[w].todo \ {h})
     ELSE Work(w, "next", NoHold, worker[w].todo \ {h})
  /\ UNCHANGED <<redis, file, call, now, crashes>>

WorkerRecord(w) ==
  /\ worker[w].op = "record"
  /\ \/ /\ Recorded(worker[w].hold)
        /\ Work(w, "finalize", worker[w].hold, worker[w].todo)
     \/ /\ Unsynced(worker[w].hold)
        /\ Work(w, "next", NoHold, worker[w].todo)
  /\ UNCHANGED <<redis, call, now, crashes>>

WorkerFinalize(w) ==
  /\ worker[w].op = "finalize"
  /\ Finalized(worker[w].hold)
  /\ Work(w, "next", NoHold, worker[w].todo)
  /\ UNCHANGED <<file, call, now, crashes>>

\* ZRANGEBYSCORE of the deadlines that have passed.
ListExpired(w) ==
  /\ worker[w].op = "next" /\ worker[w].todo = {}
  /\ Work(w, "release", NoHold, {h \in Hold : deadline[h] \in 0..now})
  /\ UNCHANGED <<redis, file, call, now, crashes>>

\* Mutant: the status is not looked at again.
ReleaseExpired_Unchecked(w, h) ==
  /\ worker[w].op = "release" /\ h \in worker[w].todo
  /\ status' = [status EXCEPT ![h] = "expired"]
  /\ used' = used - 1
  /\ deadline' = [deadline EXCEPT ![h] = -1]
  /\ Work(w, "release", NoHold, worker[w].todo \ {h})
  /\ UNCHANGED <<capacity, pending, peak, sets, file, call, now, crashes>>

\* The script that expires a hold that is still held.
ReleaseExpired(w, h) ==
  /\ worker[w].op = "release" /\ h \in worker[w].todo
  /\ IF status[h] = "held"
     THEN status' = [status EXCEPT ![h] = "expired"] /\ used' = used - 1
     ELSE UNCHANGED <<status, used>>
  /\ deadline' = [deadline EXCEPT ![h] = -1]
  /\ Work(w, "release", NoHold, worker[w].todo \ {h})
  /\ UNCHANGED <<capacity, pending, peak, sets, file, call, now, crashes>>

WorkerDone(w) ==
  /\ worker[w].op = "release" /\ worker[w].todo = {}
  /\ Work(w, "idle", NoHold, {})
  /\ UNCHANGED <<redis, file, call, now, crashes>>

----------------------------------------------------------------------------
(* Crashes and time.                                                       *)

\* Mutant: NewFileBookingStore starts empty.
Crash_ForgetsFile ==
  /\ crashes < MaxCrashes
  /\ crashes' = crashes + 1
  /\ unsynced' = [h \in Hold |-> 0]
  /\ seen' = {}
  /\ call' = [c \in Client |-> Idle]
  /\ worker' = [w \in Worker |-> Resting]
  /\ UNCHANGED <<redis, durable, torn, up, lapses, now>>

\* The service stops and NewFileBookingStore reads the file again.  If only
\* the process died the unsynced lines are still there, and still unsynced;
\* if the machine did they may be gone, or the last of them in part.  With
\* part of a line in the file the service does not start.
Crash ==
  /\ crashes < MaxCrashes
  /\ crashes' = crashes + 1
  /\ \/ UNCHANGED <<unsynced, torn>>
     \/ unsynced' = [h \in Hold |-> 0] /\ UNCHANGED torn
     \/ /\ \E h \in Hold : unsynced[h] > 0
        /\ unsynced' = [h \in Hold |-> 0] /\ torn' = TRUE
  /\ up' = ~torn'
  /\ seen' = {h \in Hold : durable[h] + unsynced'[h] > 0}
  /\ call' = [c \in Client |-> Idle]
  /\ worker' = [w \in Worker |-> Resting]
  /\ UNCHANGED <<redis, durable, lapses, now>>

Tick ==
  /\ now < MaxNow
  /\ now' = now + 1
  /\ UNCHANGED <<redis, file, call, worker, crashes>>

Working(w) ==
  /\ up
  /\ \/ Poll(w) \/ ListExpired(w)
     \/ WorkerRecord(w) \/ WorkerFinalize(w) \/ WorkerDone(w)
     \/ \E h \in Hold : Recover(w, h) \/ ReleaseExpired(w, h)

Requests ==
  \/ \E n \in Capacities : SetCapacity(n)
  \/ \E h \in Hold : CreateHold(h)
  \/ \E c \in Client :
       \/ \E h \in Hold : ConfirmHold(c, h)
       \/ Mark(c) \/ Recheck(c) \/ Record(c) \/ RecordFails(c) \/ Finalize(c)
       \/ Abort(c)

Next ==
  \/ up /\ Requests
  \/ \E w \in Worker : Working(w)
  \/ up /\ Crash
  \/ Tick

Spec == Init /\ [][Next]_vars

\* The workers' tickers fire while the service runs and time passes; visitors need
\* not come back.
FairSpec == Spec /\ WF_vars(Tick) /\ \A w \in Worker : WF_vars(Working(w))

----------------------------------------------------------------------------
(* Properties.                                                             *)

Taken == {h \in Hold : status[h] \in {"held", "confirming", "confirmed"}}
Lines(h) == durable[h] + unsynced[h]

\* The counter is exactly the places taken, whichever of confirmation, expiry
\* and recovery came first, and never more than some capacity that was set (the
\* scripts of CreateHold and ReleaseExpiredHolds); every variable has its type.
UsedIsExact == TypeOK /\ used = Cardinality(Taken) /\ used <= peak

\* A booking in the file has its place: its hold was never given away, before
\* or after the line was written (ConfirmHold against ReleaseExpiredHolds).
BookedIsTaken ==
  \A h \in Hold : Lines(h) > 0 => status[h] \in {"confirming", "confirmed"}

\* However often a confirmation is retried, by visitors, by the workers or
\* after a crash, a hold has one line, provided no write was left without a
\* successful Sync (Record).
OneLine == lapses = 0 => \A h \in Hold : Lines(h) <= 1

\* Under the same proviso a hold is confirmed only when its line is synced, so
\* that no crash can lose a confirmed booking (persistAndFinalize).
ConfirmedIsDurable ==
  lapses = 0 => \A h \in Hold : status[h] = "confirmed" => durable[h] > 0

\* What is said of Record: it "is idempotent so a confirmation retry cannot create
\* two bookings" (booking_store.go:14).
RecordIsIdempotent == \A h \in Hold : Lines(h) <= 1

\* What is said of the log: "Confirmed bookings are appended and `fsync`ed" to it
\* "before their Redis state is marked confirmed" (README.md:10-11).
AlwaysDurable ==
  \A h \in Hold : status[h] = "confirmed" => durable[h] > 0

\* Every hold ends confirmed or expired: abandoned ones release their place,
\* interrupted confirmations are completed by the worker, unless the service
\* could not start again on a file with part of a line.
HoldsResolve ==
  \A h \in Hold : status[h] \in {"held", "confirming"}
                    ~> status[h] \in {"confirmed", "expired"} \/ ~up
=============================================================================
