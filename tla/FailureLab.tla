----------------------------- MODULE FailureLab -----------------------------
(* golangdebugging failurelab: experiments that block goroutines, keep memory *)
(* and take database connections, and the reset that undoes them.  Requests   *)
(* run side by side; only the lab's own fields are under its mutex.           *)
EXTENDS Naturals, FiniteSets, FiniteSetsExt

CONSTANTS
  Call,                  \* the requests
  MaxLeakedGoroutines, MaxMemoryMiB, MaxDBHolders,   \* fields of Config
  Fallback,              \* what a request without a number asks for, in each
  Conns,                 \* the size of the database pool
  MaxResets              \* bound: resets, each of which makes a new gate

VARIABLES
  gate, leaked, memory,  \* leakGate, numbered; leaked; the MiB of allocations
  blocked,               \* of a gate: the goroutines that wait on it
  waiting, holding,      \* goroutines that wait for, or hold, a connection
  call                   \* of a request: where it is and what it carries

labVars == <<gate, leaked, memory, blocked, waiting, holding, call>>

Gates == 0..MaxResets
At(at, gt, n) == [at |-> at, gate |-> gt, n |-> n]

Init ==
  /\ gate = 0 /\ leaked = 0 /\ memory = 0
  /\ blocked = [g \in Gates |-> 0]
  /\ waiting = 0 /\ holding = 0
  /\ call = [c \in Call |-> At("new", 0, 0)]

Go(c, to) == call' = [call EXCEPT ![c] = to]
Least(a, b) == IF a < b THEN a ELSE b

\* boundedInt: a number asked for ends up between one and the ceiling; without
\* one the fallback is taken as it is.
boundedInt(fallback, maximum) == {fallback} \cup 1..maximum

\* The count is capped by what the ceiling leaves, and taken with the gate.
leakGoroutines(c) ==
  /\ call[c].at = "new"
  /\ \E asked \in boundedInt(Fallback.count, MaxLeakedGoroutines) :
       LET n == Least(asked, MaxLeakedGoroutines - leaked) IN
       /\ leaked' = leaked + n /\ Go(c, At("spawn", gate, n))
  /\ UNCHANGED <<gate, memory, blocked, waiting, holding>>

\* Mutant: the goroutine waits on the gate of the moment.
SpawnGate_Current(c) == gate
SpawnGate(c) == call[c].gate

\* Outside the mutex the goroutines start one by one; the gate of a reset that
\* came in between is closed, and they end at once.
spawn(c) ==
  /\ call[c].at = "spawn"
  /\ IF call[c].n = 0 THEN Go(c, At("done", 0, 0)) /\ UNCHANGED blocked
     ELSE /\ Go(c, [call[c] EXCEPT !.n = @ - 1])
          /\ blocked' = IF SpawnGate(c) = gate
                        THEN [blocked EXCEPT ![gate] = @ + 1] ELSE blocked
  /\ UNCHANGED <<gate, leaked, memory, waiting, holding>>

allocateMemory(c) ==
  /\ call[c].at = "new"
  /\ \E asked \in boundedInt(Fallback.mib, MaxMemoryMiB) :
       memory' = memory + Least(asked, MaxMemoryMiB - memory)
  /\ Go(c, At("done", 0, 0))
  /\ UNCHANGED <<gate, leaked, blocked, waiting, holding>>

\* Each holder waits for a connection, in no request's context.
exhaustDatabase(c) ==
  /\ call[c].at = "new"
  /\ \E n \in boundedInt(Fallback.connections, MaxDBHolders) : waiting' = waiting + n
  /\ Go(c, At("done", 0, 0))
  /\ UNCHANGED <<gate, leaked, memory, blocked, holding>>

Acquire ==
  /\ waiting > 0 /\ waiting' = waiting - 1
  /\ holding < Conns /\ holding' = holding + 1
  /\ UNCHANGED <<gate, leaked, memory, blocked, call>>

\* The wait for a connection times out.
GiveUp ==
  /\ waiting > 0 /\ waiting' = waiting - 1
  /\ UNCHANGED <<gate, leaked, memory, blocked, holding, call>>

\* Mutant: the connection is not given back.
Release_Kept == holding' = holding
Release == holding' = holding - 1

\* The timer, or the context, ends the hold.
HoldEnds ==
  /\ holding > 0 /\ Release
  /\ UNCHANGED <<gate, leaked, memory, blocked, waiting, call>>

\* Closing the gate lets every goroutine behind it go.
reset(c) ==
  /\ call[c].at = "new" /\ gate < MaxResets
  /\ blocked' = [blocked EXCEPT ![gate] = 0]
  /\ gate' = gate + 1 /\ leaked' = 0 /\ memory' = 0
  /\ Go(c, At("done", 0, 0))
  /\ UNCHANGED <<waiting, holding>>

Next ==
  \/ \E c \in Call : \/ leakGoroutines(c) \/ spawn(c) \/ allocateMemory(c)
                     \/ exhaustDatabase(c) \/ reset(c)
  \/ Acquire \/ GiveUp \/ HoldEnds

Spec == Init /\ [][Next]_labVars

\* The holders' timers fire.
LabFair == WF_labVars(Acquire \/ GiveUp) /\ WF_labVars(HoldEnds)
FairSpec == Spec /\ LabFair

\* Every variable has its type.
TypeOK ==
  /\ gate \in Gates /\ memory \in 0..MaxMemoryMiB
  /\ holding \in 0..Conns
  /\ waiting \in 0..(Cardinality(Call) * Max({MaxDBHolders, Fallback.connections}))

\* The goroutines that requests have yet to start on the open gate.
Unstarted ==
  MapThenSumSet(LAMBDA c : call[c].n, {c \in Call : call[c].at = "spawn" /\ call[c].gate = gate})

\* The goroutines the lab keeps blocked, with those it is about to start on the
\* open gate, are exactly the ones it counts, and never more than its ceiling:
\* a reset between the count and the start leaves nothing behind.
LeakIsCounted ==
  /\ leaked <= MaxLeakedGoroutines
  /\ \A g \in Gates : g # gate => blocked[g] = 0
  /\ blocked[gate] + Unstarted = leaked

\* What becomes true again and again: the connections an experiment took are
\* back, without a reset (exhaustDatabase).
ConnsComeBack == holding = 0
=============================================================================
