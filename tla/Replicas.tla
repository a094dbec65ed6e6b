------------------------------ MODULE Replicas ------------------------------
(* distributed-primitives-go/replication: two or more leaders that accept    *)
(* writes on their own and exchange their state, as a last-writer-wins       *)
(* register and as a grow-only counter. States are lost, repeated and        *)
(* reordered on the way.                                                     *)
EXTENDS Integers, FiniteSets, FiniteSetsExt

CONSTANTS
  Leader,        \* a set of numbers: the node ids, in their order
  Time,          \* the timestamps of the skewed wall clocks
  MaxWrites

VARIABLES
  counts,        \* [Leader -> [Leader -> slot]]: GCounter
  reg,           \* [Leader -> [Value, TS, Node]]: LWWRegister
  sent,          \* the states on their way
  writes         \* [Leader -> writes it accepted]

replicaVars == <<counts, reg, sent, writes>>

Init ==
  /\ counts = [l \in Leader |-> [m \in Leader |-> 0]]
  /\ reg = [l \in Leader |-> [Value |-> 0, TS |-> -1, Node |-> 0]]
  /\ sent = {} /\ writes = [l \in Leader |-> 0]

Total == MapThenSumSet(LAMBDA l : writes[l], Leader)
Value(g) == MapThenSumSet(LAMBDA l : g[l], Leader)

\* Inc and Set of a write accepted locally, at whatever the wall clock says: the
\* same time twice, or an earlier one.
Accept(l) ==
  /\ Total < MaxWrites
  /\ writes' = [writes EXCEPT ![l] = @ + 1]
  /\ counts' = [counts EXCEPT ![l][l] = @ + 1]
  /\ \E t \in Time : reg' = [reg EXCEPT ![l] = [Value |-> Total + 1, TS |-> t, Node |-> l]]
  /\ UNCHANGED sent

Send(l) ==
  /\ sent' = sent \cup {[counts |-> counts[l], reg |-> reg[l]]}
  /\ UNCHANGED <<counts, reg, writes>>

\* Mutant: slots are added instead of compared.
MergeCounts_Added(g, h) == [l \in Leader |-> g[l] + h[l]]
MergeCounts(g, h) == [l \in Leader |-> IF h[l] > g[l] THEN h[l] ELSE g[l]]

MergeReg(r, o) == IF o.TS > r.TS \/ (o.TS = r.TS /\ o.Node > r.Node) THEN o ELSE r

Merge(l, s) ==
  /\ counts' = [counts EXCEPT ![l] = MergeCounts(@, s.counts)]
  /\ reg' = [reg EXCEPT ![l] = MergeReg(@, s.reg)]
  /\ UNCHANGED <<sent, writes>>

Next == \E l \in Leader : Accept(l) \/ Send(l) \/ \E s \in sent : Merge(l, s)
Spec == Init /\ [][Next]_replicaVars

---------------------------------------------------------------------------
\* Every variable has its type.
TypeOK ==
  /\ counts \in [Leader -> [Leader -> Nat]] /\ writes \in [Leader -> 0..MaxWrites]
  /\ \A l \in Leader : reg[l].TS \in Time \cup {-1}

\* No increment is lost or counted twice, however states are lost, repeated or
\* reordered: merging every replica gives the number of accepted writes, and no
\* replica is ahead of it (gcounter.go: Merge; multileader.go: CRDTOutcome).
CountsEveryWrite ==
  /\ \A l \in Leader : Value(counts[l]) <= Total
  /\ MapThenFoldSet(MergeCounts, [l \in Leader |-> 0], LAMBDA l : counts[l],
                    LAMBDA S : CHOOSE l \in S : TRUE, Leader) = writes

\* What is said of Merge: "Highest TS wins; ties break on node id so both
\* replicas converge to the same value regardless of merge order" (lww.go:26-28).
RegistersAgree == \A l, m \in Leader : MergeReg(reg[l], reg[m]) = MergeReg(reg[m], reg[l])
=============================================================================
