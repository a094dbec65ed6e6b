------------------------- MODULE LiveTrafficProofs --------------------------
(* Proofs about LiveTraffic, for any workers, accounts, registers, hashes    *)
(* and limits.                                                               *)
EXTENDS LiveTraffic, FiniteSetTheorems, TLAPS

Rank == [1..Registers -> Nat]
Entered == [priority: {"low", "high"}, at: {"shed", "handler", "added"}]
Adding == [priority: {"high"}, at: {"add"}, account: Account, cur: Nat]
Scanning == [priority: {"low"}, at: {"scan", "scanned"}, begun: Rank,
             had: SUBSET Account, seen: Seq(Nat)]
Request == Entered \union Adding \union Scanning

\* What NewAdmission, NewEstimator and the hash give.
Configured ==
  /\ Registers \in Nat \ {0}
  /\ Hash \in [Account -> [idx: 1..Registers, rank: Nat]]
  /\ IsFiniteSet(Worker)
  /\ SoftMax \in Nat /\ HardMax \in Nat /\ SoftMax <= HardMax
  /\ None \notin Request

-----------------------------------------------------------------------------
(* The estimator *)

\* A register never falls below what a finished Add, a pending
\* compare-and-swap or a scan has seen in it.
FoldInv(w) ==
  /\ work[w] \in Adding => work[w].cur <= regs[Hash[work[w].account].idx]
  /\ work[w] \in Scanning =>
       /\ \A i \in 1..Registers : work[w].begun[i] <= regs[i]
       /\ \A i \in 1..Len(work[w].seen) :
            i <= Registers /\ work[w].begun[i] <= work[w].seen[i] /\ work[w].seen[i] <= regs[i]
       /\ \A a \in work[w].had : work[w].begun[Hash[a].idx] >= Hash[a].rank
       /\ work[w].at = "scan" => Len(work[w].seen) < Registers
       /\ work[w].at = "scanned" => Len(work[w].seen) = Registers

RegisterInv ==
  /\ regs \in Rank /\ counted \in SUBSET Account
  /\ work \in [Worker -> Request \union {None}]
  /\ \A a \in counted : regs[Hash[a].idx] >= Hash[a].rank
  /\ \A w \in Worker : FoldInv(w)

\* No register is set and nobody is inside.
LEMMA RegisterInit == ASSUME Configured, Init PROVE RegisterInv
  BY DEF Configured, Init, RegisterInv, FoldInv, Rank, Request

\* A worker that serves no request is at no step, and a step has its record.
LEMMA StepRecords ==
  ASSUME Configured, RegisterInv, NEW w \in Worker, work[w] # None
  PROVE  /\ work[w] \in Request
         /\ work[w].at \in {"shed", "handler", "added"} => work[w] \in Entered
         /\ work[w].at = "add" => work[w] \in Adding
         /\ work[w].at \in {"scan", "scanned"} => work[w] \in Scanning
  BY DEF Configured, RegisterInv, Request, Entered, Adding, Scanning

\* When registers only grow, what held of a request that did not move still does.
LEMMA FoldInvKept ==
  ASSUME Configured, RegisterInv, regs' \in Rank, NEW w \in Worker, work'[w] = work[w],
         \A i \in 1..Registers : regs[i] <= regs'[i]
  PROVE  FoldInv(w)'
<1>1. CASE work[w] \in Adding
  BY <1>1 DEF Configured, RegisterInv, FoldInv, Rank, Adding, Scanning
<1>2. CASE work[w] \in Scanning
  <2>1. /\ work[w].begun \in Rank /\ work[w].seen \in Seq(Nat) /\ work[w].had \in SUBSET Account
        /\ work[w] \notin Adding
    BY <1>2 DEF Scanning, Adding
  <2>2. \A i \in 1..Registers : work[w].begun[i] <= regs'[i]
    BY <1>2, <2>1 DEF Configured, RegisterInv, FoldInv, Rank
  <2>3. \A i \in 1..Len(work[w].seen) :
          i <= Registers /\ work[w].begun[i] <= work[w].seen[i] /\ work[w].seen[i] <= regs'[i]
    <3> SUFFICES ASSUME NEW i \in 1..Len(work[w].seen)
                 PROVE  i <= Registers /\ work[w].begun[i] <= work[w].seen[i]
                        /\ work[w].seen[i] <= regs'[i]
      OBVIOUS
    <3>1. /\ i <= Registers /\ work[w].begun[i] <= work[w].seen[i] /\ work[w].seen[i] <= regs[i]
          /\ work[w].seen[i] \in Nat
      BY <1>2, <2>1 DEF RegisterInv, FoldInv
    <3>2. i \in 1..Registers
      BY <3>1, <2>1 DEF Configured
    <3> QED
      BY <3>1, <3>2 DEF RegisterInv, Rank
  <2> QED
    BY <1>2, <2>1, <2>2, <2>3 DEF RegisterInv, FoldInv
<1>3. CASE work[w] \notin Adding /\ work[w] \notin Scanning
  BY <1>3 DEF FoldInv
<1> QED
  BY <1>1, <1>2, <1>3

\* A step that moves one worker and lets registers only grow keeps the
\* invariant when it holds of that worker and of the accounts.
LEMMA OneMoves ==
  ASSUME Configured, RegisterInv, NEW w \in Worker, NEW q \in Request \union {None},
         work' = [work EXCEPT ![w] = q], FoldInv(w)',
         regs' \in Rank, \A i \in 1..Registers : regs[i] <= regs'[i],
         counted' \in SUBSET Account, \A a \in counted' : regs'[Hash[a].idx] >= Hash[a].rank
  PROVE  RegisterInv'
<1>1. work' \in [Worker -> Request \union {None}]
  BY DEF RegisterInv
<1>2. \A v \in Worker : FoldInv(v)'
  <2> SUFFICES ASSUME NEW v \in Worker, v # w PROVE FoldInv(v)'
    OBVIOUS
  <2>1. work'[v] = work[v]
    BY DEF RegisterInv
  <2> QED
    BY <2>1, FoldInvKept
<1> QED
  BY <1>1, <1>2 DEF RegisterInv

\* A request that has just entered or left promises nothing.
LEMMA EnteredFolds ==
  ASSUME RegisterInv, NEW w \in Worker, NEW q \in Entered \union {None}, Configured,
         work' = [work EXCEPT ![w] = q]
  PROVE  FoldInv(w)' /\ q \in Request \union {None}
<1>1. work'[w] = q
  BY DEF RegisterInv
<1>2. q \notin Adding /\ q \notin Scanning
  BY DEF Configured, Request, Entered, Adding, Scanning
<1> QED
  BY <1>1, <1>2 DEF FoldInv, Request

\* Entering, leaving and starting touch no register.
LEMMA RegisterEnter ==
  ASSUME Configured, RegisterInv, NEW w \in Worker, Enter(w) \/ Leave(w)
  PROVE  RegisterInv'
<1>1. PICK q \in Entered \union {None} : work' = [work EXCEPT ![w] = q]
  <2>1. CASE Enter(w)
    <3>1. PICK p \in {"low", "high"} :
            work' = [work EXCEPT ![w] =
              [priority |-> p, at |-> IF Sheds(p, inflight + 1) THEN "shed" ELSE "handler"]]
      BY <2>1, Zenon DEF Enter
    <3>2. [priority |-> p, at |-> IF Sheds(p, inflight + 1) THEN "shed" ELSE "handler"]
            \in Entered
      BY DEF Entered
    <3> QED
      BY <3>1, <3>2, Zenon
  <2>2. CASE Leave(w)
    BY <2>2, Zenon DEF Leave
  <2> QED
    BY <2>1, <2>2
<1>2. regs' = regs /\ counted' = counted
  BY DEF Enter, Leave
<1>3. FoldInv(w)' /\ q \in Request \union {None}
  BY <1>1, EnteredFolds, Zenon
<1>4. \A i \in 1..Registers : regs[i] <= regs'[i]
  BY <1>2 DEF RegisterInv, Rank
<1> QED
  BY <1>1, <1>2, <1>3, <1>4, OneMoves, Zenon DEF RegisterInv

\* The first Load of Add.
LEMMA RegisterAdd ==
  ASSUME Configured, RegisterInv, NEW w \in Worker, Add(w)
  PROVE  RegisterInv'
<1>1. PICK a \in Account :
        work' = [work EXCEPT ![w] = [priority |-> "high", at |-> "add", account |-> a,
                                     cur |-> regs[Hash[a].idx]]]
  BY Zenon DEF Add
<1> DEFINE q == [priority |-> "high", at |-> "add", account |-> a, cur |-> regs[Hash[a].idx]]
<1>2. regs[Hash[a].idx] \in Nat
  BY DEF Configured, RegisterInv, Rank
<1>3. q \in Adding /\ q \notin Scanning /\ work'[w] = q
  BY <1>1, <1>2 DEF Adding, Scanning, RegisterInv
<1>4. regs' = regs /\ counted' = counted
  BY DEF Add
<1>5. FoldInv(w)'
  BY <1>2, <1>3, <1>4 DEF FoldInv
<1>6. \A i \in 1..Registers : regs[i] <= regs'[i]
  BY <1>4 DEF RegisterInv, Rank
<1> HIDE DEF q
<1>7. q \in Request \union {None}
  BY <1>3 DEF Request
<1>8. work' = [work EXCEPT ![w] = q]
  BY <1>1 DEF q
<1> QED
  BY <1>4, <1>5, <1>6, <1>7, <1>8, OneMoves, Zenon DEF RegisterInv

\* The compare-and-swap only ever raises a register, and Add returns when the
\* register has reached its rank.
LEMMA RegisterFold ==
  ASSUME Configured, RegisterInv, NEW w \in Worker, Fold(w)
  PROVE  RegisterInv'
<1> DEFINE a == work[w].account
           h == Hash[a]
           done == [priority |-> "high", at |-> "added"]
<1>1. work[w] \in Adding
  BY StepRecords DEF Fold
<1>2. /\ a \in Account /\ h.idx \in 1..Registers /\ h.rank \in Nat
      /\ work[w].cur \in Nat /\ work[w].cur <= regs[h.idx] /\ regs[h.idx] \in Nat
  BY <1>1 DEF Configured, RegisterInv, FoldInv, Adding, Rank
<1>3. done \in Entered
  BY DEF Entered
<1>4. CASE h.rank <= work[w].cur /\ work' = [work EXCEPT ![w] = done]
           /\ counted' = counted \union {a} /\ regs' = regs
  <2>1. FoldInv(w)' /\ done \in Request \union {None}
    BY <1>3, <1>4, EnteredFolds, Zenon
  <2>2. regs' \in Rank /\ \A i \in 1..Registers : regs[i] <= regs'[i]
    BY <1>4 DEF RegisterInv, Rank
  <2>3. counted' \in SUBSET Account /\ \A b \in counted' : regs'[Hash[b].idx] >= Hash[b].rank
    BY <1>2, <1>4 DEF RegisterInv
  <2> HIDE DEF done
  <2> QED
    BY <1>4, <2>1, <2>2, <2>3, OneMoves, Zenon
<1>5. CASE h.rank > work[w].cur /\ regs[h.idx] = work[w].cur
           /\ work' = [work EXCEPT ![w] = done] /\ counted' = counted \union {a}
           /\ regs' = [regs EXCEPT ![h.idx] = h.rank]
  <2>1. FoldInv(w)' /\ done \in Request \union {None}
    BY <1>3, <1>5, EnteredFolds, Zenon
  <2>2. regs' \in Rank /\ \A i \in 1..Registers : regs[i] <= regs'[i]
    BY <1>2, <1>5 DEF RegisterInv, Rank
  <2>3. counted' \in SUBSET Account
    BY <1>2, <1>5 DEF RegisterInv
  <2>4. \A b \in counted' : regs'[Hash[b].idx] >= Hash[b].rank
    <3> SUFFICES ASSUME NEW b \in counted' PROVE regs'[Hash[b].idx] >= Hash[b].rank
      OBVIOUS
    <3>1. Hash[b].idx \in 1..Registers /\ Hash[b].rank \in Nat
      BY <2>3 DEF Configured
    <3>2. CASE b = a
      BY <1>2, <1>5, <3>2 DEF RegisterInv, Rank
    <3>3. CASE b \in counted
      BY <2>2, <3>1, <3>3 DEF RegisterInv, Rank
    <3> QED
      BY <1>5, <3>2, <3>3
  <2> HIDE DEF done
  <2> QED
    BY <1>5, <2>1, <2>2, <2>3, <2>4, OneMoves, Zenon
<1>6. CASE work' = [work EXCEPT ![w].cur = regs[h.idx]] /\ regs' = regs /\ counted' = counted
  <2> DEFINE q == [work[w] EXCEPT !.cur = regs[h.idx]]
  <2>1. q \in Adding /\ q \notin Scanning /\ q.account = a /\ q.cur = regs[h.idx]
    BY <1>1, <1>2 DEF Adding, Scanning
  <2>2. work' = [work EXCEPT ![w] = q] /\ work'[w] = q
    BY <1>6 DEF RegisterInv
  <2> HIDE DEF q
  <2>3. FoldInv(w)'
    BY <1>2, <1>6, <2>1, <2>2 DEF FoldInv
  <2>4. \A i \in 1..Registers : regs[i] <= regs'[i]
    BY <1>6 DEF RegisterInv, Rank
  <2>5. q \in Request \union {None}
    BY <2>1 DEF Request
  <2> QED
    BY <1>6, <2>2, <2>3, <2>4, <2>5, OneMoves, Zenon DEF RegisterInv
<1> QED
  BY <1>4, <1>5, <1>6 DEF Fold, Swaps

\* A scan begins with what the registers hold.
LEMMA RegisterEstimate ==
  ASSUME Configured, RegisterInv, NEW w \in Worker, Estimate(w)
  PROVE  RegisterInv'
<1> DEFINE q == [priority |-> "low", at |-> "scan", begun |-> regs, had |-> counted,
                 seen |-> <<>>]
<1>1. work' = [work EXCEPT ![w] = q] /\ regs' = regs /\ counted' = counted
  BY DEF Estimate
<1>2. q \in Scanning /\ q \notin Adding /\ work'[w] = q
  BY <1>1 DEF Adding, Scanning, RegisterInv
<1>3. q.begun = regs /\ q.had = counted /\ Len(q.seen) = 0 /\ q.at = "scan"
  OBVIOUS
<1> HIDE DEF q
<1>4. \A i \in 1..Registers : regs[i] <= regs'[i]
  BY <1>1 DEF RegisterInv, Rank
<1>5. FoldInv(w)'
  BY <1>1, <1>2, <1>3, <1>4 DEF FoldInv, RegisterInv, Configured
<1>6. q \in Request \union {None}
  BY <1>2 DEF Request
<1> QED
  BY <1>1, <1>4, <1>5, <1>6, OneMoves, Zenon DEF RegisterInv

\* The next register is at least what it was when the scan began.
LEMMA RegisterScan ==
  ASSUME Configured, RegisterInv, NEW w \in Worker, Scan(w)
  PROVE  RegisterInv'
<1> DEFINE i == Len(work[w].seen) + 1
           at == IF i = Registers THEN "scanned" ELSE "scan"
           next == Append(work[w].seen, regs[i])
           q == [priority |-> "low", at |-> at, begun |-> work[w].begun,
                 had |-> work[w].had, seen |-> next]
<1>1. work[w] \in Scanning /\ work[w].at = "scan"
  BY StepRecords DEF Scan
<1>2. /\ work[w].seen \in Seq(Nat) /\ work[w].begun \in Rank /\ Len(work[w].seen) \in Nat
      /\ Len(work[w].seen) < Registers /\ i \in 1..Registers /\ regs[i] \in Nat
  <2>1. work[w].seen \in Seq(Nat) /\ work[w].begun \in Rank
    BY <1>1 DEF Scanning
  <2>2. Len(work[w].seen) < Registers
    BY <1>1 DEF RegisterInv, FoldInv
  <2>3. Len(work[w].seen) \in Nat /\ i \in 1..Registers
    BY <2>1, <2>2 DEF Configured
  <2> QED
    BY <2>1, <2>2, <2>3 DEF RegisterInv, Rank
<1>3. work' = [work EXCEPT ![w] = q] /\ regs' = regs /\ counted' = counted
  BY DEF Scan, RegisterInv
<1>4. /\ q \in Scanning /\ q \notin Adding /\ q.begun = work[w].begun /\ q.had = work[w].had
      /\ q.seen = next /\ q.at = at
  <2>1. next \in Seq(Nat) /\ at \in {"scan", "scanned"} /\ work[w].had \in SUBSET Account
    BY <1>1, <1>2 DEF Scanning
  <2> HIDE DEF at, next
  <2> QED
    BY <1>2, <2>1 DEF Scanning, Adding
<1>5. work'[w] = q
  BY <1>3 DEF RegisterInv
<1> HIDE DEF q
<1>6. Len(q.seen) = i
  BY <1>2, <1>4
<1>7. \A j \in 1..Len(q.seen) :
        j <= Registers /\ q.begun[j] <= q.seen[j] /\ q.seen[j] <= regs[j]
  <2> SUFFICES ASSUME NEW j \in 1..i
               PROVE  j <= Registers /\ q.begun[j] <= q.seen[j] /\ q.seen[j] <= regs[j]
    BY <1>6
  <2>1. CASE j = i
    BY <1>1, <1>2, <1>4, <2>1 DEF RegisterInv, FoldInv, Rank
  <2>2. CASE j \in 1..Len(work[w].seen)
    BY <1>1, <1>2, <1>4, <2>2 DEF RegisterInv, FoldInv
  <2> QED
    BY <1>2, <2>1, <2>2
<1>8. FoldInv(w)'
  <2>1. \A j \in 1..Registers : q.begun[j] <= regs[j]
    BY <1>1, <1>4 DEF FoldInv, RegisterInv
  <2>2. \A a \in q.had : q.begun[Hash[a].idx] >= Hash[a].rank
    BY <1>1, <1>4 DEF FoldInv, RegisterInv
  <2>3. (q.at = "scan" => Len(q.seen) < Registers) /\ (q.at = "scanned" => Len(q.seen) = Registers)
    BY <1>2, <1>4, <1>6 DEF Configured
  <2> HIDE DEF i, at, next
  <2> QED
    BY <1>3, <1>4, <1>5, <1>7, <2>1, <2>2, <2>3 DEF FoldInv
<1>9. \A j \in 1..Registers : regs[j] <= regs'[j]
  BY <1>3 DEF RegisterInv, Rank
<1>10. q \in Request \union {None}
  BY <1>4 DEF Request
<1> QED
  BY <1>3, <1>8, <1>9, <1>10, OneMoves, Zenon DEF RegisterInv

\* Every step keeps the registers' invariant.
LEMMA RegisterStep ==
  ASSUME Configured, RegisterInv, [Next]_trafficVars
  PROVE  RegisterInv'
<1>1. CASE Next
  BY <1>1, RegisterEnter, RegisterAdd, RegisterFold, RegisterEstimate, RegisterScan DEF Next
<1>2. CASE UNCHANGED trafficVars
  BY <1>2 DEF trafficVars, RegisterInv, FoldInv
<1> QED
  BY <1>1, <1>2

\* However Adds and scans interleave, without a lock, the registers of a
\* finished scan cover every account that had been added when it began
\* (hll.go: Add, Estimate).
THEOREM EstimateMissesNobodyHolds ==
  ASSUME Configured
  PROVE  Spec => []EstimateMissesNobody
<1>1. RegisterInv => EstimateMissesNobody
  <2> SUFFICES ASSUME RegisterInv PROVE EstimateMissesNobody
    OBVIOUS
  <2>1. ASSUME NEW w \in Inside, work[w].at = "scanned"
        PROVE  /\ \A i \in 1..Registers :
                    work[w].begun[i] <= work[w].seen[i] /\ work[w].seen[i] <= regs[i]
               /\ \A a \in work[w].had : work[w].seen[Hash[a].idx] >= Hash[a].rank
    <3>1. w \in Worker /\ work[w] \in Scanning
      BY <2>1, StepRecords DEF Inside
    <3>2. \A i \in 1..Registers :
            work[w].begun[i] <= work[w].seen[i] /\ work[w].seen[i] <= regs[i]
      BY <2>1, <3>1 DEF RegisterInv, FoldInv
    <3>3. ASSUME NEW a \in work[w].had
          PROVE  work[w].seen[Hash[a].idx] >= Hash[a].rank
      <4>1. a \in Account /\ work[w].begun \in Rank /\ work[w].seen \in Seq(Nat)
        BY <3>1 DEF Scanning
      <4>2. Hash[a].idx \in 1..Registers /\ Hash[a].rank \in Nat
        BY <4>1 DEF Configured
      <4>3. work[w].begun[Hash[a].idx] >= Hash[a].rank /\ Len(work[w].seen) = Registers
        BY <2>1, <3>1 DEF RegisterInv, FoldInv
      <4> DEFINE i == Hash[a].idx
                 x == work[w].seen[i]
                 y == work[w].begun[i]
      <4>4. x \in Nat
        BY <4>1, <4>2, <4>3
      <4>5. y \in Nat
        BY <4>1, <4>2, Zenon DEF Rank
      <4>6. y <= x /\ y >= Hash[a].rank
        BY <3>2, <4>2, <4>3
      <4> HIDE DEF x, y
      <4>7. x >= Hash[a].rank
        BY <4>2, <4>4, <4>5, <4>6
      <4> QED
        BY <4>7 DEF x
    <3> QED
      BY <3>2, <3>3
  <2> QED
    BY <2>1 DEF EstimateMissesNobody, RegisterInv
<1> QED
  BY <1>1, RegisterInit, RegisterStep, PTL DEF Spec

-----------------------------------------------------------------------------
(* The guard *)

AdmissionInv == RegisterInv /\ inflight \in Nat /\ AdmissionHolds

All == Handling({"low", "high"})
Low == Handling({"low"})

\* Handlers are inside, and so not more than the requests.
LEMMA HandlingIsInside ==
  ASSUME Configured
  PROVE  /\ IsFiniteSet(Inside) /\ Cardinality(Inside) \in Nat
         /\ Cardinality(All) \in Nat /\ Cardinality(All) <= Cardinality(Inside)
         /\ Cardinality(Low) \in Nat /\ Cardinality(Low) <= Cardinality(Inside)
<1>1. Inside \subseteq Worker
  BY DEF Inside
<1>2. IsFiniteSet(Inside) /\ Cardinality(Inside) \in Nat
  BY <1>1, FS_Subset, FS_CardinalityType DEF Configured
<1>3. All \subseteq Inside /\ Low \subseteq Inside
  BY DEF All, Low, Handling
<1> QED
  BY <1>2, <1>3, FS_Subset, FS_CardinalityType

\* The same before and after a step.
LEMMA HandlingIsInsideNext ==
  ASSUME Configured
  PROVE  /\ IsFiniteSet(Inside') /\ Cardinality(Inside') \in Nat
         /\ Cardinality(All') \in Nat /\ Cardinality(All') <= Cardinality(Inside')
         /\ Cardinality(Low') \in Nat /\ Cardinality(Low') <= Cardinality(Inside')
<1>1. Inside' \subseteq Worker
  BY DEF Inside
<1>2. IsFiniteSet(Inside') /\ Cardinality(Inside') \in Nat
  BY <1>1, FS_Subset, FS_CardinalityType DEF Configured
<1>3. All' \subseteq Inside' /\ Low' \subseteq Inside'
  BY DEF All, Low, Handling
<1> QED
  BY <1>2, <1>3, FS_Subset, FS_CardinalityType

\* Nobody is inside.
LEMMA AdmissionInit == ASSUME Configured, Init PROVE AdmissionInv
<1>1. Inside = {} /\ All = {} /\ Low = {}
  BY DEF Init, Inside, All, Low, Handling
<1>2. Cardinality({}) = 0
  BY FS_EmptySet
<1>3. Cardinality(Inside) = 0 /\ Cardinality(All) = 0 /\ Cardinality(Low) = 0
  BY <1>1, <1>2
<1>4. 0 <= HardMax /\ 0 <= SoftMax
  BY DEF Configured
<1>5. AdmissionHolds /\ inflight \in Nat
  BY <1>3, <1>4 DEF AdmissionHolds, Init, All, Low
<1> QED
  BY <1>5, RegisterInit DEF AdmissionInv

\* The request takes the place of its own count: when it is let in, as many
\* are inside as its limit allows.
LEMMA AdmissionEnter ==
  ASSUME Configured, AdmissionInv, NEW w \in Worker, Enter(w)
  PROVE  AdmissionHolds' /\ inflight' \in Nat
<1>1. PICK p \in {"low", "high"} :
        work' = [work EXCEPT ![w] =
          [priority |-> p, at |-> IF Sheds(p, inflight + 1) THEN "shed" ELSE "handler"]]
  BY Zenon DEF Enter
<1> DEFINE q == [priority |-> p, at |-> IF Sheds(p, inflight + 1) THEN "shed" ELSE "handler"]
<1>2. work'[w] = q /\ (\A v \in Worker \ {w} : work'[v] = work[v])
  BY <1>1 DEF AdmissionInv, RegisterInv
<1>3. q # None
  <2>1. q \in Entered
    BY DEF Entered
  <2> QED
    BY <2>1 DEF Configured, Request
<1>4. w \notin Inside /\ Inside' = Inside \union {w}
  BY <1>2, <1>3 DEF Enter, Inside
<1>5. inflight' = inflight + 1 /\ inflight = Cardinality(Inside) /\ inflight \in Nat
  BY DEF Enter, AdmissionInv, AdmissionHolds
<1>6. Cardinality(Inside') = inflight'
  BY <1>4, <1>5, HandlingIsInside, FS_AddElement
<1>7. CASE Sheds(p, inflight + 1)
  <2>1. q.at = "shed"
    BY <1>7
  <2>2. All' = All /\ Low' = Low
    BY <1>2, <1>4, <2>1 DEF All, Low, Handling, Inside
  <2> QED
    BY <1>5, <1>6, <2>2 DEF AdmissionInv, AdmissionHolds, All, Low
<1>8. CASE ~Sheds(p, inflight + 1) /\ p = "low"
  <2>1. inflight' <= SoftMax /\ inflight' <= HardMax /\ inflight' \in Nat
    BY <1>5, <1>8 DEF Sheds, Limit, Configured
  <2>2. Cardinality(All') <= HardMax /\ Cardinality(Low') <= SoftMax
    BY <1>6, <2>1, HandlingIsInsideNext DEF Configured
  <2> QED
    BY <1>6, <2>1, <2>2 DEF AdmissionHolds, All, Low
<1>9. CASE ~Sheds(p, inflight + 1) /\ p = "high"
  <2>1. inflight' <= HardMax /\ inflight' \in Nat
    BY <1>5, <1>9 DEF Sheds, Limit, Configured
  <2>2. Cardinality(All') <= HardMax
    BY <1>6, <2>1, HandlingIsInsideNext DEF Configured
  <2>3. Low' = Low
    BY <1>2, <1>4, <1>9 DEF Low, Handling, Inside
  <2> QED
    BY <1>6, <2>1, <2>2, <2>3 DEF AdmissionInv, AdmissionHolds, All, Low
<1> QED
  BY <1>7, <1>8, <1>9

\* A request that leaves, from wherever, takes its count with it.
LEMMA AdmissionLeave ==
  ASSUME Configured, AdmissionInv, NEW w \in Worker, Leave(w)
  PROVE  AdmissionHolds' /\ inflight' \in Nat
<1>1. work'[w] = None /\ (\A v \in Worker \ {w} : work'[v] = work[v])
  BY DEF Leave, AdmissionInv, RegisterInv
<1>2. w \in Inside /\ Inside' = Inside \ {w} /\ All' = All \ {w} /\ Low' = Low \ {w}
  BY <1>1 DEF Leave, Inside, All, Low, Handling
<1>3. Cardinality(Inside') = Cardinality(Inside) - 1
  BY <1>2, HandlingIsInside, FS_RemoveElement
<1>4. inflight' = inflight - 1 /\ inflight = Cardinality(Inside) /\ inflight \in Nat
  BY DEF Leave, AdmissionInv, AdmissionHolds
<1>5. IsFiniteSet(All) /\ IsFiniteSet(Low)
  <2>1. All \subseteq Inside /\ Low \subseteq Inside
    BY DEF All, Low, Handling
  <2> QED
    BY <2>1, HandlingIsInside, FS_Subset
<1>6. Cardinality(All') <= Cardinality(All) /\ Cardinality(Low') <= Cardinality(Low)
  <2>1. All' \subseteq All /\ Low' \subseteq Low
    BY <1>2
  <2> QED
    BY <1>5, <2>1, FS_Subset
<1>7. Cardinality(All') <= HardMax /\ Cardinality(Low') <= SoftMax
  BY <1>6, HandlingIsInside, HandlingIsInsideNext DEF AdmissionInv, AdmissionHolds, Configured, All, Low
<1> QED
  BY <1>3, <1>4, <1>7, HandlingIsInsideNext DEF AdmissionHolds, All, Low

\* The steps inside a handler move nobody in or out.
LEMMA AdmissionInside ==
  ASSUME Configured, AdmissionInv, NEW w \in Worker,
         Add(w) \/ Fold(w) \/ Estimate(w) \/ Scan(w)
  PROVE  AdmissionHolds' /\ inflight' \in Nat
<1>1. inflight' = inflight /\ work[w] # None /\ work[w].at # "shed"
  BY DEF Add, Fold, Estimate, Scan
<1>2. RegisterInv /\ RegisterInv'
  BY RegisterAdd, RegisterFold, RegisterEstimate, RegisterScan DEF AdmissionInv
<1>3. /\ work'[w] # None /\ work'[w].at # "shed" /\ work'[w].priority = work[w].priority
      /\ \A v \in Worker \ {w} : work'[v] = work[v]
  <2>1. work \in [Worker -> Request \union {None}]
    BY <1>2 DEF RegisterInv
  <2>2. CASE Add(w) \/ Estimate(w)
    <3>1. PICK q : work' = [work EXCEPT ![w] = q] /\ q.at \in {"add", "scan"}
                   /\ q.priority = work[w].priority /\ q \in Request
      <4>1. CASE Add(w)
        <5>1. PICK a \in Account :
                work' = [work EXCEPT ![w] = [priority |-> "high", at |-> "add", account |-> a,
                                             cur |-> regs[Hash[a].idx]]]
          BY <4>1, Zenon DEF Add
        <5>2. regs[Hash[a].idx] \in Nat
          BY <1>2 DEF RegisterInv, Configured, Rank
        <5>3. [priority |-> "high", at |-> "add", account |-> a, cur |-> regs[Hash[a].idx]]
                \in Request
          BY <5>2 DEF Request, Adding
        <5> QED
          BY <4>1, <5>1, <5>3, Zenon DEF Add
      <4>2. CASE Estimate(w)
        <5>1. [priority |-> "low", at |-> "scan", begun |-> regs, had |-> counted,
               seen |-> <<>>] \in Request
          BY <1>2 DEF Request, Scanning, RegisterInv
        <5> QED
          BY <4>2, <5>1, Zenon DEF Estimate
      <4> QED
        BY <2>2, <4>1, <4>2
    <3> QED
      BY <2>1, <3>1 DEF Configured
  <2>3. CASE Fold(w)
    <3>1. work[w] \in Adding /\ work[w].priority = "high" /\ work[w].cur \in Nat
      BY <1>2, <2>3, StepRecords DEF Fold, Adding
    <3>2. CASE work' = [work EXCEPT ![w] = [priority |-> "high", at |-> "added"]]
      <4>1. [priority |-> "high", at |-> "added"] \in Request
        BY DEF Request, Entered
      <4> QED
        BY <2>1, <3>1, <3>2, <4>1 DEF Configured
    <3>3. CASE work' = [work EXCEPT ![w].cur = regs[Hash[work[w].account].idx]]
      <4>1. work'[w] = [work[w] EXCEPT !.cur = regs[Hash[work[w].account].idx]]
        BY <2>1, <3>3
      <4>2. work'[w].at = "add" /\ work'[w].priority = "high"
        BY <3>1, <4>1 DEF Adding
      <4>3. work'[w] \in Adding
        BY <1>2, <3>1, <4>1, Zenon DEF Adding, RegisterInv, Configured, Rank
      <4> QED
        BY <2>1, <3>1, <3>3, <4>2, <4>3 DEF Configured, Request
    <3> QED
      BY <2>3, <3>2, <3>3 DEF Fold
  <2>4. CASE Scan(w)
    <3>1. work[w] \in Scanning /\ work[w].priority = "low"
      BY <1>2, <2>4, StepRecords DEF Scan, Scanning
    <3>2. work'[w].priority = "low" /\ work'[w].at \in {"scan", "scanned"}
          /\ \A v \in Worker \ {w} : work'[v] = work[v]
      BY <2>1, <2>4 DEF Scan
    <3>3. work'[w] # None
      <4>1. work[w].at = "scan" /\ work[w].begun \in Rank /\ work[w].had \in SUBSET Account
            /\ work[w].seen \in Seq(Nat) /\ Len(work[w].seen) < Registers
        BY <1>2, <2>4, <3>1 DEF Scan, Scanning, RegisterInv, FoldInv
      <4>2. Len(work[w].seen) + 1 \in 1..Registers
        BY <4>1 DEF Configured
      <4>3. Append(work[w].seen, regs[Len(work[w].seen) + 1]) \in Seq(Nat)
        BY <1>2, <4>1, <4>2 DEF RegisterInv, Rank
      <4>4. work'[w] \in Scanning
        BY <2>1, <2>4, <4>1, <4>3 DEF Scan, Scanning
      <4> QED
        BY <4>4 DEF Configured, Request
    <3> QED
      BY <3>1, <3>2, <3>3
  <2> QED
    BY <2>2, <2>3, <2>4
<1>4. Inside' = Inside
  BY <1>1, <1>3 DEF Inside
<1>5. All' = All /\ Low' = Low
  BY <1>1, <1>3, <1>4 DEF All, Low, Handling, Inside
<1> QED
  BY <1>1, <1>4, <1>5 DEF AdmissionInv, AdmissionHolds, All, Low

\* However requests of both priorities come, are shed, panic and leave, the
\* count is exact and no more handlers run than the limits allow, when the soft
\* limit is not above the hard one (middleware.go: guard).
THEOREM AdmissionHoldsAlways ==
  ASSUME Configured
  PROVE  Spec => []AdmissionHolds
<1>1. Init => AdmissionInv
  BY AdmissionInit
<1>2. AdmissionInv /\ [Next]_trafficVars => AdmissionInv'
  <2> SUFFICES ASSUME AdmissionInv, [Next]_trafficVars PROVE AdmissionInv'
    OBVIOUS
  <2>1. RegisterInv'
    BY RegisterStep DEF AdmissionInv
  <2>2. CASE UNCHANGED trafficVars
    <3>1. inflight' = inflight /\ Inside' = Inside /\ All' = All /\ Low' = Low
      BY <2>2 DEF trafficVars, Inside, All, Low, Handling
    <3> QED
      BY <2>1, <3>1 DEF AdmissionInv, AdmissionHolds, All, Low
  <2>3. CASE Next
    <3>1. AdmissionHolds' /\ inflight' \in Nat
      BY <2>3, AdmissionEnter, AdmissionLeave, AdmissionInside DEF Next
    <3> QED
      BY <2>1, <3>1 DEF AdmissionInv
  <2> QED
    BY <2>2, <2>3
<1>3. AdmissionInv => AdmissionHolds
  BY DEF AdmissionInv
<1> QED
  BY <1>1, <1>2, <1>3, PTL DEF Spec
=============================================================================
