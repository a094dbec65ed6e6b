--------------------------- MODULE ElectionProofs ---------------------------
(* Proofs about Election, for any set of nodes, partitions and elections.    *)
EXTENDS Election, TLAPS

\* Leaders are of different terms, none above the fence line, and the fence
\* line is a term some node has reached, so that an election goes past it.
FenceInv ==
  /\ TypeOK
  /\ \A n \in Node : State[n] = "Leader" => Term[n] <= committedTrm
  /\ \A m, n \in Node :
       State[m] = "Leader" /\ State[n] = "Leader" /\ Term[m] = Term[n] => m = n
  /\ committedTrm = 0 \/ \E n \in Node : Term[n] >= committedTrm
  /\ writer <= committedTrm

\* A new cluster has no leader.
LEMMA FenceInit == Init => FenceInv
  BY DEF Init, FenceInv, TypeOK

\* The term of an election is past the fence line.
LEMMA NewTermIsNew ==
  ASSUME FenceInv, NEW t \in Nat, t > 0, NewTerm(t)
  PROVE  t > committedTrm
  BY DEF FenceInv, TypeOK, NewTerm

\* An election keeps the invariant, won or lost.
LEMMA FenceElect ==
  ASSUME FenceInv, NEW n \in Node, NEW t \in Nat, t > 0, Elect(n, t)
  PROVE  FenceInv'
<1> USE DEF FenceInv, TypeOK
<1>0. NewTerm(t) /\ t > committedTrm
  BY NewTermIsNew DEF Elect
<1>1. CASE ElectWon(n, t)
  <2>1. TypeOK' /\ writer' <= committedTrm'
    BY <1>0, <1>1 DEF ElectWon
  <2>2. n \in reachable(n)
    BY DEF reachable
  <2>3. Term'[n] = t /\ committedTrm' = t
    BY <1>1, <2>2 DEF ElectWon
  <2>4. \A m \in Node : m # n /\ State'[m] = "Leader" =>
          State[m] = "Leader" /\ Term'[m] = Term[m] /\ Term[m] < t
    BY <1>0, <1>1 DEF ElectWon, NewTerm
  <2> QED
    BY <2>1, <2>3, <2>4
<1>2. CASE ElectLost(n, t)
  BY <1>0, <1>2 DEF ElectLost, NewTerm
<1> QED
  BY <1>1, <1>2 DEF Elect

\* Every step keeps the invariant.
LEMMA FenceStep ==
  ASSUME MaxTerm \in Nat, FenceInv, [Next]_raftVars
  PROVE  FenceInv'
<1>1. CASE Heal
  BY <1>1 DEF FenceInv, TypeOK, Heal
<1>2. ASSUME NEW ids \in SUBSET Node, Partition(ids)
      PROVE  FenceInv'
  BY <1>2 DEF FenceInv, TypeOK, Partition
<1>3. ASSUME NEW n \in Node, Write(n)
      PROVE  FenceInv'
  BY <1>3 DEF FenceInv, TypeOK, Write, Fenced, CanWrite
<1>4. ASSUME NEW n \in Node, NEW t \in 1..MaxTerm, Elect(n, t)
      PROVE  FenceInv'
  <2>1. t \in Nat /\ t > 0
    OBVIOUS
  <2> QED
    BY <1>4, <2>1, FenceElect
<1>5. CASE UNCHANGED raftVars
  BY <1>5 DEF FenceInv, TypeOK, raftVars
<1> QED
  BY <1>1, <1>2, <1>3, <1>4, <1>5 DEF Next

\* However partitions and elections interleave, at most one node can have a
\* write applied: the leader of the last election that had a quorum
\* (cluster.go: Elect, fencing.go: Write).
THEOREM OneWriterHolds ==
  ASSUME MaxTerm \in Nat
  PROVE  Spec => []OneWriter
<1>1. FenceInv => OneWriter
  BY DEF FenceInv, TypeOK, OneWriter, CanWrite
<1> QED
  BY <1>1, FenceInit, FenceStep, PTL DEF Spec

\* The terms of the applied writes never go back, whoever else still believes
\* to lead (fencing.go: Write).
THEOREM WritesAdvanceHolds ==
  ASSUME MaxTerm \in Nat
  PROVE  Spec => WritesAdvance
<1>1. FenceInv /\ [Next]_raftVars => [writer' >= writer]_raftVars
  <2> SUFFICES ASSUME FenceInv, [Next]_raftVars
               PROVE  writer' >= writer
    OBVIOUS
  <2>1. ASSUME NEW n \in Node, Write(n)
        PROVE  writer' >= writer
    BY <2>1 DEF FenceInv, TypeOK, Write, Fenced, CanWrite
  <2>2. CASE UNCHANGED writer
    BY <2>2 DEF FenceInv, TypeOK
  <2> QED
    BY <2>1, <2>2 DEF Next, Heal, Partition, Elect, ElectWon, ElectLost, raftVars
<1> QED
  BY <1>1, FenceInit, FenceStep, PTL DEF Spec, WritesAdvance
=============================================================================
