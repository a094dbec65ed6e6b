------------------------------ MODULE Election ------------------------------
(* distributed-primitives-go/raft: leader election by a majority of the      *)
(* whole cluster, network groups, and writes fenced by the term. Every       *)
(* operation runs under Cluster.mu.                                          *)
EXTENDS Integers, FiniteSets

CONSTANTS
  Node,
  MaxTerm,       \* bound on the elections explored
  MaxGroup       \* bound on the partitions explored

VARIABLES
  State, Term, group,
  nextGroup,
  committedTrm,  \* the fence line
  writer         \* the term of the last write that was applied

raftVars == <<State, Term, group, nextGroup, committedTrm, writer>>

Init ==
  /\ State = [n \in Node |-> "Follower"] /\ Term = [n \in Node |-> 0]
  /\ group = [n \in Node |-> 0] /\ nextGroup = 1
  /\ committedTrm = 0 /\ writer = 0

\* A strict majority of the whole cluster.
majority == (Cardinality(Node) \div 2) + 1
reachable(n) == {m \in Node : group[m] = group[n]}

Partition(ids) ==
  /\ nextGroup <= MaxGroup /\ nextGroup' = nextGroup + 1
  /\ group' = [n \in Node |-> IF n \in ids THEN nextGroup ELSE group[n]]
  /\ UNCHANGED <<State, Term, committedTrm, writer>>

Heal ==
  /\ group' = [n \in Node |-> 0]
  /\ UNCHANGED <<State, Term, nextGroup, committedTrm, writer>>

\* One past the highest term in the cluster.
NewTerm(t) ==
  /\ \A m \in Node : Term[m] < t
  /\ \A u \in 1..t-1 : \E m \in Node : Term[m] >= u

\* Mutant: the old leaders of the group keep their role.
ElectWon_NoDemotion(n, t) ==
  /\ Term' = [m \in Node |-> IF m \in reachable(n) THEN t ELSE Term[m]]
  /\ State' = [State EXCEPT ![n] = "Leader"]
  /\ committedTrm' = t
  /\ UNCHANGED <<group, nextGroup, writer>>

\* Elect with a quorum: the group follows the candidate in the new term.
ElectWon(n, t) ==
  /\ Term' = [m \in Node |-> IF m \in reachable(n) THEN t ELSE Term[m]]
  /\ State' = [m \in Node |-> IF m = n THEN "Leader"
                              ELSE IF m \in reachable(n) THEN "Follower" ELSE State[m]]
  /\ committedTrm' = t
  /\ UNCHANGED <<group, nextGroup, writer>>

\* Elect without: the candidate steps back, and keeps the term it tried.
ElectLost(n, t) ==
  /\ Term' = [Term EXCEPT ![n] = t]
  /\ State' = [State EXCEPT ![n] = "Follower"]
  /\ UNCHANGED <<group, nextGroup, committedTrm, writer>>

Elect(n, t) ==
  /\ t <= MaxTerm /\ NewTerm(t)
  /\ IF Cardinality(reachable(n)) >= majority THEN ElectWon(n, t) ELSE ElectLost(n, t)

CanWrite(n) == State[n] = "Leader" /\ Term[n] >= committedTrm

\* Mutant: any node that believes it leads may write.
Fenced_Never(n) == State[n] # "Leader"

Fenced(n) == ~CanWrite(n)

Write(n) ==
  /\ ~Fenced(n)
  /\ writer' = Term[n]
  /\ UNCHANGED <<State, Term, group, nextGroup, committedTrm>>

---------------------------------------------------------------------------
Next ==
  \/ Heal
  \/ \E ids \in SUBSET Node : Partition(ids)
  \/ \E n \in Node : Write(n) \/ \E t \in 1..MaxTerm : Elect(n, t)

Spec == Init /\ [][Next]_raftVars

---------------------------------------------------------------------------
\* Every variable has its type.
TypeOK ==
  /\ State \in [Node -> {"Follower", "Leader"}] /\ Term \in [Node -> Nat]
  /\ group \in [Node -> Nat] /\ nextGroup \in Nat /\ committedTrm \in Nat /\ writer \in Nat

\* At most one node may write, however many believe they lead after a
\* partition (cluster.go: Elect; fencing.go: Write).
OneWriter == \A m, n \in Node : CanWrite(m) /\ CanWrite(n) => m = n

\* A write is never applied for an older term than the last one: a leader that
\* a partition hid comes back fenced (fencing.go: Write).
WritesAdvance == [][writer' >= writer]_raftVars
=============================================================================
