--------------------------- MODULE LogicalClocks ---------------------------
(* distributed-primitives-go/clocks: the Lamport, vector and hybrid clocks,  *)
(* on processes that stamp local events, send and receive. Messages are      *)
(* reordered and duplicated; wall clocks stall, jump and run backwards.      *)
EXTENDS Integers, Sequences

CONSTANTS Process, Wall, MaxEvents

VARIABLES
  lamport,       \* [Process -> t]
  vec,           \* [Process -> [Process -> count]]
  hlc,           \* [Process -> <<physical, logical>>]
  events,        \* the stamped events, in the order they happened
  seen           \* the largest wall clock read so far

clockVars == <<lamport, vec, hlc, events, seen>>

Most(a, b) == IF a > b THEN a ELSE b

Init ==
  /\ lamport = [p \in Process |-> 0]
  /\ vec = [p \in Process |-> [q \in Process |-> 0]]
  /\ hlc = [p \in Process |-> <<0, 0>>]
  /\ events = <<>> /\ seen = 0

\* Mutant: the receive event does not tick.
LamportUpdate_NoTick(t, recv) == Most(t, recv)
LamportUpdate(t, recv) == Most(t, recv) + 1

\* Mutant: the received component replaces the own one.
Merged_Replaced(v, w, p) == [w EXCEPT ![p] = v[p] + 1]
Merged(v, w, p) == [q \in Process |-> IF q = p THEN Most(v[q], w[q]) + 1 ELSE Most(v[q], w[q])]

\* HLC.Now: the logical counter moves when the wall clock does not.
HlcNow(h, wall) == IF wall > h[1] THEN <<wall, 0>> ELSE <<h[1], h[2] + 1>>

\* Mutant: a tie with the received stamp forgets its logical counter.
HlcUpdate_Forgets(h, r, wall) == HlcNow(<<Most(h[1], r[1]), h[2]>>, wall)

HlcUpdate(h, r, wall) ==
  LET max == Most(Most(h[1], r[1]), wall) IN
  CASE max = h[1] /\ max = r[1] -> <<max, Most(h[2], r[2]) + 1>>
    [] max = h[1] /\ max # r[1] -> <<max, h[2] + 1>>
    [] max # h[1] /\ max = r[1] -> <<max, r[2] + 1>>
    [] OTHER -> <<max, 0>>

\* Compare over the union of the keys; an absent node counts as zero.
Compare(a, b) ==
  LET aGreater == \E q \in Process : a[q] > b[q]
      bGreater == \E q \in Process : a[q] < b[q]
  IN CASE aGreater /\ bGreater -> "Concurrent"
       [] aGreater /\ ~bGreater -> "After"
       [] ~aGreater /\ bGreater -> "Before"
       [] OTHER -> "Equal"

\* The events before the next one of p: what p itself did, and their past.
Own(p) == {i \in DOMAIN events : events[i].at = p}
PastOf(S) == S \cup UNION {events[i].past : i \in S}

Stamp(p, l, v, h, wall, past) ==
  /\ lamport' = [lamport EXCEPT ![p] = l]
  /\ vec' = [vec EXCEPT ![p] = v]
  /\ hlc' = [hlc EXCEPT ![p] = h]
  /\ seen' = Most(seen, wall)
  /\ events' = Append(events, [at |-> p, lamport |-> l, vec |-> v, hlc |-> h, past |-> past])

\* A local event, the sending of a message included.
Tick(p) ==
  /\ Len(events) < MaxEvents
  /\ \E wall \in Wall :
       Stamp(p, lamport[p] + 1, [vec[p] EXCEPT ![p] = @ + 1], HlcNow(hlc[p], wall), wall,
             PastOf(Own(p)))

\* The stamps of event i arrive at p.
Receive(p, i) ==
  /\ Len(events) < MaxEvents /\ events[i].at # p
  /\ \E wall \in Wall :
       Stamp(p, LamportUpdate(lamport[p], events[i].lamport), Merged(vec[p], events[i].vec, p),
             HlcUpdate(hlc[p], events[i].hlc, wall), wall, PastOf(Own(p) \cup {i}))

Next == \E p \in Process : Tick(p) \/ \E i \in DOMAIN events : Receive(p, i)
Spec == Init /\ [][Next]_clockVars

---------------------------------------------------------------------------
\* Every variable has its type.
TypeOK ==
  /\ lamport \in [Process -> Nat] /\ vec \in [Process -> [Process -> Nat]]
  /\ \A p \in Process : hlc[p][1] \in Wall \cup {0} /\ hlc[p][2] \in Nat

Less(h, k) == h[1] < k[1] \/ (h[1] = k[1] /\ h[2] < k[2])

\* Lamport and hybrid stamps respect happens-before, and vector stamps are
\* exactly happens-before, whatever the wall clocks do and in whatever order
\* messages arrive; and no hybrid clock is ahead of every wall clock that was
\* read (lamport.go, hlc.go: Update; vector.go: Merge, Compare).
ClocksRespectCausality ==
  /\ \A p \in Process : hlc[p][1] <= seen
  /\ \A i, j \in DOMAIN events :
       /\ i \in events[j].past => events[i].lamport < events[j].lamport /\ Less(events[i].hlc, events[j].hlc)
       /\ i \in events[j].past <=> Compare(events[i].vec, events[j].vec) = "Before"
=============================================================================
