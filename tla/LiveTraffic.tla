---------------------------- MODULE LiveTraffic -----------------------------
(* The admission guard of livescale-control-plane/internal/httpx and the     *)
(* lock-free estimator behind its handlers (internal/concurrency/hll.go).    *)
(* An account hashes to a register and a rank; the floating-point estimate   *)
(* of a scan is left out, the registers it read are kept.                    *)
EXTENDS Naturals, FiniteSets, Sequences

CONSTANTS
  Worker, Account,
  Registers,         \* registers 1..Registers; 2^14 in the code
  Hash,              \* [Account -> [idx, rank]]
  SoftMax, HardMax,
  None

VARIABLES
  inflight,
  work,              \* [Worker -> the request it serves, or None]
  regs,
  counted            \* the accounts whose Add has returned

trafficVars == <<inflight, work, regs, counted>>

Init ==
  /\ inflight = 0 /\ counted = {}
  /\ work = [w \in Worker |-> None]
  /\ regs = [i \in 1..Registers |-> 0]

\* stats is the low route; authorize, heartbeat and stop are high.
Limit(p) == IF p = "low" THEN SoftMax ELSE HardMax

\* Mutant: the guard looks at the count before it adds to it.
Sheds_Before(p, n) == n - 1 > Limit(p)

Sheds(p, n) == n > Limit(p)

\* The request counts itself and compares the count it got.
Enter(w) ==
  /\ work[w] = None
  /\ inflight' = inflight + 1
  /\ \E p \in {"low", "high"} :
       work' = [work EXCEPT ![w] =
                  [priority |-> p, at |-> IF Sheds(p, inflight + 1) THEN "shed" ELSE "handler"]]
  /\ UNCHANGED <<regs, counted>>

\* The deferred decrement: also of a request that was shed, and of a handler
\* that refused the token, had nothing to add, or panicked.
Leave(w) ==
  /\ work[w] # None /\ work[w].at \in {"shed", "handler", "added", "scanned"}
  /\ inflight' = inflight - 1
  /\ work' = [work EXCEPT ![w] = None]
  /\ UNCHANGED <<regs, counted>>

\* Admit adds the account under that account's lock; the first Load.
Add(w) ==
  /\ work[w] # None /\ work[w].at = "handler" /\ work[w].priority = "high"
  /\ \E a \in Account :
       /\ \A v \in Worker : work[v] # None /\ work[v].at = "add" => work[v].account # a
       /\ work' = [work EXCEPT ![w] = [priority |-> "high", at |-> "add", account |-> a,
                                       cur |-> regs[Hash[a].idx]]]
  /\ UNCHANGED <<inflight, regs, counted>>

\* Mutant: the rank is stored whatever the register holds by now.
Swaps_Blind(cell, cur) == TRUE

Swaps(cell, cur) == cell = cur

\* The rank is not above what was loaded, or replaces it; when the register has
\* changed in between, it is loaded again.
Fold(w) ==
  /\ work[w] # None /\ work[w].at = "add"
  /\ LET a == work[w].account  h == Hash[a]  cell == regs[h.idx]  cur == work[w].cur
         Done == /\ work' = [work EXCEPT ![w] = [priority |-> "high", at |-> "added"]]
                 /\ counted' = counted \union {a}
     IN \/ h.rank <= cur /\ Done /\ UNCHANGED regs
        \/ h.rank > cur /\ Swaps(cell, cur) /\ Done /\ regs' = [regs EXCEPT ![h.idx] = h.rank]
        \/ /\ h.rank > cur /\ ~Swaps(cell, cur)
           /\ work' = [work EXCEPT ![w].cur = cell]
           /\ UNCHANGED <<regs, counted>>
  /\ UNCHANGED inflight

\* Estimate loads the registers one after the other.
Estimate(w) ==
  /\ work[w] # None /\ work[w].at = "handler" /\ work[w].priority = "low"
  /\ work' = [work EXCEPT ![w] = [priority |-> "low", at |-> "scan", begun |-> regs,
                                  had |-> counted, seen |-> <<>>]]
  /\ UNCHANGED <<inflight, regs, counted>>

Scan(w) ==
  /\ work[w] # None /\ work[w].at = "scan"
  /\ LET i == Len(work[w].seen) + 1
     IN work' = [work EXCEPT ![w] =
                   [priority |-> "low", at |-> IF i = Registers THEN "scanned" ELSE "scan",
                    begun |-> @.begun, had |-> @.had, seen |-> Append(@.seen, regs[i])]]
  /\ UNCHANGED <<inflight, regs, counted>>

Next == \E w \in Worker :
  Enter(w) \/ Leave(w) \/ Add(w) \/ Fold(w) \/ Estimate(w) \/ Scan(w)

Spec == Init /\ [][Next]_trafficVars

-----------------------------------------------------------------------------
\* The types of the count, the registers and the requests of the workers.
TypeOK ==
  /\ inflight \in 0..Cardinality(Worker) /\ counted \subseteq Account
  /\ \A i \in 1..Registers : regs[i] \in {0} \union {Hash[a].rank : a \in Account}
  /\ \A w \in Worker : work[w] = None \/ work[w].at \in {"shed", "handler", "add", "added", "scan", "scanned"}

Inside == {w \in Worker : work[w] # None}
Handling(P) == {w \in Inside : work[w].at # "shed" /\ work[w].priority \in P}

\* The count of the guard is the number of requests inside, whatever way they
\* leave; at most HardMax handlers run at once, and at most SoftMax of stats.
AdmissionHolds ==
  /\ inflight = Cardinality(Inside)
  /\ Cardinality(Handling({"low", "high"})) <= HardMax
  /\ Cardinality(Handling({"low"})) <= SoftMax

\* A scan among concurrent Adds reads, of every register, a value between the
\* one when it began and the present one, and so misses no account that had
\* been added when it began.
EstimateMissesNobody ==
  /\ \A a \in counted : regs[Hash[a].idx] >= Hash[a].rank
  /\ \A w \in Inside : work[w].at = "scanned" =>
       /\ \A i \in 1..Registers : work[w].begun[i] <= work[w].seen[i] /\ work[w].seen[i] <= regs[i]
       /\ \A a \in work[w].had : work[w].seen[Hash[a].idx] >= Hash[a].rank
=============================================================================
