---------------------------- MODULE UsageFlush ----------------------------
(* subscription-core: the usage Meter, its in-memory counter and the       *)
(* Flusher that writes the accrued usage to the durable ledger.            *)
EXTENDS Integers

CONSTANTS
  UsageKey,    \* subject, feature and period
  MaxUse,      \* bound on what is recorded of a key
  MaxErrors    \* bound on failed appends and on restarts

VARIABLES
  used,     \* what has been recorded of a key since the service was first run
  counter,  \* MemoryCounter.data
  flushed,  \* Flusher.flushed: the total of a key already persisted
  snap,     \* the Snapshot FlushOnce works on
  todo,     \* the keys FlushOnce has yet to visit
  mode,     \* where Flusher.Run is
  done,     \* the context is canceled: the service shuts down
  ledger,   \* the durable amount of a key
  errors

usageVars == <<used, counter, flushed, snap, todo, mode, done, ledger, errors>>

zero == [k \in UsageKey |-> 0]

Init ==
  /\ used = zero /\ counter = zero /\ flushed = zero /\ snap = zero
  /\ todo = {} /\ mode = "waiting" /\ done = FALSE /\ ledger = zero /\ errors = 0

\* Meter.Record.
Record(k) ==
  /\ used[k] < MaxUse
  /\ used' = [used EXCEPT ![k] = @ + 1]
  /\ counter' = [counter EXCEPT ![k] = @ + 1]
  /\ UNCHANGED <<flushed, snap, todo, mode, done, ledger, errors>>

\* The signal that cancels the context.
Shutdown ==
  /\ ~done /\ done' = TRUE
  /\ UNCHANGED <<used, counter, flushed, snap, todo, mode, ledger, errors>>

\* Run leaves its select on a tick, or, once the context is done, for the last
\* flush; FlushOnce takes its snapshot.
FlushOnce(next) ==
  /\ mode = "waiting"
  /\ next = "last" => done
  /\ mode' = next
  /\ snap' = counter
  /\ todo' = UsageKey
  /\ UNCHANGED <<used, counter, flushed, done, ledger, errors>>

Append(k) == ledger' = [ledger EXCEPT ![k] = @ + (snap[k] - flushed[k])]

\* Mutant: the flushed total is not advanced.
Visit_NotAdvanced(k) ==
  /\ k \in todo
  /\ todo' = todo \ {k}
  /\ IF snap[k] = flushed[k] THEN UNCHANGED ledger ELSE Append(k)
  /\ UNCHANGED <<used, counter, flushed, snap, mode, done, errors>>

\* The loop over the snapshot, in the map's order.
Visit(k) ==
  /\ k \in todo
  /\ todo' = todo \ {k}
  /\ \/ snap[k] = flushed[k] /\ UNCHANGED <<ledger, flushed>>
     \/ /\ snap[k] # flushed[k]
        /\ Append(k)
        /\ flushed' = [flushed EXCEPT ![k] = snap[k]]
  /\ UNCHANGED <<used, counter, snap, mode, done, errors>>

\* The sink's error, with or without its effect, ends FlushOnce and Run.
AppendFails(k) ==
  /\ k \in todo /\ snap[k] # flushed[k]
  /\ errors < MaxErrors
  /\ errors' = errors + 1
  /\ Append(k) \/ UNCHANGED ledger
  /\ todo' = {}
  /\ mode' = "returned"
  /\ UNCHANGED <<used, counter, flushed, snap, done>>

\* FlushOnce returns: Run waits for the next tick, or returns after the last.
Flushed ==
  /\ mode \in {"flushing", "last"} /\ todo = {}
  /\ mode' = IF mode = "last" THEN "returned" ELSE "waiting"
  /\ UNCHANGED <<used, counter, flushed, snap, todo, done, ledger, errors>>

\* The process ends, at any point, and is started again: the counter and the
\* flusher's totals were in memory.
Restart ==
  /\ errors < MaxErrors
  /\ errors' = errors + 1
  /\ counter' = zero /\ flushed' = zero /\ snap' = zero
  /\ todo' = {} /\ mode' = "waiting" /\ done' = FALSE
  /\ UNCHANGED <<used, ledger>>

Next ==
  \/ \E k \in UsageKey : Record(k) \/ Visit(k) \/ AppendFails(k)
  \/ FlushOnce("flushing") \/ FlushOnce("last")
  \/ Flushed \/ Shutdown \/ Restart

Spec == Init /\ [][Next]_usageVars

\* The ticker keeps ticking and a flush runs to its end.
FairSpec ==
  /\ Spec
  /\ WF_usageVars(FlushOnce("flushing"))
  /\ WF_usageVars(Flushed)
  /\ WF_usageVars(\E k \in UsageKey : Visit(k))

---------------------------------------------------------------------------
TypeOK ==
  /\ used \in [UsageKey -> 0..MaxUse] /\ counter \in [UsageKey -> 0..MaxUse]
  /\ flushed \in [UsageKey -> 0..MaxUse] /\ snap \in [UsageKey -> 0..MaxUse]
  /\ todo \subseteq UsageKey
  /\ mode \in {"waiting", "flushing", "last", "returned"}
  /\ done \in BOOLEAN /\ ledger \in [UsageKey -> Nat]
  /\ errors \in 0..MaxErrors

\* Usage is billed at most once: the ledger never holds more than was recorded,
\* across flushes, ambiguous appends and restarts.
NeverDoubleBills == \A k \in UsageKey : ledger[k] <= used[k]

\* Usage recorded before a shutdown is flushed: what a failed append leaves is
\* tried again at the next tick.
UsageReachesLedger ==
  \A k \in UsageKey : counter[k] > flushed[k] ~> counter[k] = flushed[k] \/ done
===========================================================================
