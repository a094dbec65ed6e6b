------------------------ MODULE SubscriptionProofs ------------------------
(* Proofs about SubscriptionSync, for any subscriptions, provider changes, *)
(* handlers, readers and bounds.                                           *)
EXTENDS SubscriptionSync, TLAPS

\* The parts of the state the arguments below need the types of.
TypesInv ==
  /\ clock \in 0..MaxAt
  /\ truth \in [Sub -> Subscription \cup {None}]
  /\ sent \subseteq [sub: Sub, snap: Subscription]
  /\ processed \subseteq Instant
  /\ subs \in [Sub -> Subscription \cup {None}]
  /\ task \in [Worker -> Call \cup {None}]
  /\ due \subseteq {s \in Sub : truth[s] # None}
  /\ derived \in [Reader -> Entitlement \cup {None}]
  /\ applied \in [Instant -> Nat]

Unwritten(w) == task[w] # None /\ task[w].pc \in {"get", "put"}

\* An event is marked before it is handled, by one handler, which writes it at
\* most once.
MarkedInv ==
  /\ task[Cron] # None => task[Cron].from = "fetch"
  /\ \A w \in Handler : task[w] # None =>
       task[w].from = "event" /\ task[w].snap.at \in processed
  /\ \A v, w \in Handler :
       task[v] # None /\ task[w] # None /\ task[v].snap.at = task[w].snap.at
       => v = w
  /\ \A i \in Instant : i \notin processed => applied[i] = 0
  /\ \A w \in Handler : Unwritten(w) => applied[task[w].snap.at] = 0
  /\ AppliedOnce

Busting  == \E w \in Worker : At(w, "bust")
Fresh(e) == \E s \in Latest : e = DeriveEntitlement(s)

\* What is cached and what readers are about to cache follows the store, unless
\* a bust is still to come.
FreshInv ==
  \/ raced \/ Busting
  \/ /\ cache # None => Fresh(cache)
     /\ \A q \in Reader : derived[q] # None => Fresh(derived[q])

SyncInv == TypesInv /\ MarkedInv /\ FreshInv

---------------------------------------------------------------------------
(* Initial states and types *)

\* The invariant holds before the first event: the tables are empty.
LEMMA SyncInit == Init => SyncInv
<1> SUFFICES ASSUME Init PROVE SyncInv
  OBVIOUS
<1>1. TypesInv
  BY SyncAssumption DEF Init, TypesInv
<1>2. Cron \in Worker /\ \A w \in Handler : w \in Worker
  BY DEF Worker
<1>3. MarkedInv
  BY <1>2 DEF Init, MarkedInv, AppliedOnce, Unwritten
<1>4. FreshInv
  BY DEF Init, FreshInv
<1> QED
  BY <1>1, <1>3, <1>4 DEF SyncInv

\* The status an event implies is a status.
LEMMA TargetIsStatus == \A x \in Snapshots : TargetStatus(x) \in Status
  BY SnapshotsAssumption DEF TargetStatus, Status

\* A call that has started is a call.
LEMMA StartsType ==
  ASSUME TypesInv, NEW w \in Worker, NEW from \in {"event", "fetch"},
         NEW s \in Sub, NEW new \in Subscription, Starts(w, from, s, new)
  PROVE  /\ task' \in [Worker -> Call \cup {None}]
         /\ task'[w] \in Call
         /\ task'[w].from = from /\ task'[w].snap = new
         /\ task'[w].pc = "get"
         /\ \A v \in Worker \ {w} : task'[v] = task[v]
  BY DEF TypesInv, Starts, Call

\* A call at a step is a call.
LEMMA AtCall ==
  ASSUME TypesInv, NEW w \in Worker, NEW pc, At(w, pc)
  PROVE  task[w] \in Call /\ task[w] # None /\ task[w].pc = pc
  BY DEF TypesInv, At

\* The entitlement of a stored row.
LEMMA DerivedType ==
  ASSUME TypesInv, NEW s \in Latest
  PROVE  DeriveEntitlement(s) \in Entitlement
  BY DEF TypesInv, Latest, DeriveEntitlement, Entitlement, Subscription,
     StatusGrantsAccess

\* Every step of the processor, the reconciler, the readers and the provider
\* keeps the types.
LEMMA SyncTypes == SyncInv /\ [Next]_vars => TypesInv'
<1> SUFFICES ASSUME SyncInv, [Next]_vars PROVE TypesInv'
  OBVIOUS
<1> USE DEF SyncInv
<1>1. ASSUME NEW s \in Sub, Change(s) PROVE TypesInv'
  <2>1. PICK x \in Snapshots :
          /\ truth' = [truth EXCEPT ![s] =
               [status |-> TargetStatus(x), plan |-> x.plan, at |-> clock']]
          /\ sent' = sent \cup {[sub |-> s, snap |->
               [status |-> TargetStatus(x), plan |-> x.plan, at |-> clock']]}
    BY <1>1, Zenon DEF Change
  <2>2. clock' \in 1..MaxAt /\ clock' \in 0..MaxAt
    BY <1>1, SyncAssumption DEF Change, TypesInv
  <2>3. [status |-> TargetStatus(x), plan |-> x.plan, at |-> clock']
          \in Subscription
    BY <2>2, TargetIsStatus DEF Subscription, Plan, Instant
  <2>4. UNCHANGED <<processed, subs, task, due, derived, applied, raced>>
    BY <1>1 DEF Change, reads
  <2>5. due' \subseteq {r \in Sub : truth'[r] # None}
    BY <2>1, <2>3, <2>4, NoneAssumption DEF TypesInv
  <2> QED
    BY <2>1, <2>2, <2>3, <2>4, <2>5 DEF TypesInv
<1>2. ASSUME NEW w \in Handler, NEW e \in sent, Deliver(w, e) PROVE TypesInv'
  <2>1. e.sub \in Sub /\ e.snap \in Subscription /\ w \in Worker
    BY DEF TypesInv, Worker
  <2>2. task' \in [Worker -> Call \cup {None}]
    BY <1>2, <2>1, StartsType DEF Deliver
  <2> QED
    BY <1>2, <2>1, <2>2 DEF Deliver, TypesInv, Subscription, provider, reads
<1>3. ASSUME Tick PROVE TypesInv'
  BY <1>3 DEF Tick, TypesInv, provider, reads
<1>4. ASSUME Fetch PROVE TypesInv'
  <2>1. PICK s \in due : Starts(Cron, "fetch", s, truth[s])
    BY <1>4 DEF Fetch
  <2>2. s \in Sub /\ truth[s] \in Subscription /\ Cron \in Worker
    BY DEF TypesInv, Worker
  <2>3. task' \in [Worker -> Call \cup {None}]
    BY <2>1, <2>2, StartsType
  <2> QED
    BY <1>4, <2>3 DEF Fetch, TypesInv, provider, reads
<1>5. ASSUME NEW w \in Worker, GetByProviderID(w) PROVE TypesInv'
  <2>1. task[w] \in Call
    BY <1>5, AtCall DEF GetByProviderID
  <2>2. task' \in [Worker -> Call \cup {None}]
    BY <1>5, <2>1, Zenon DEF GetByProviderID, TypesInv, Call
  <2> QED
    BY <1>5, <2>2 DEF GetByProviderID, TypesInv, provider, reads
<1>6. ASSUME NEW w \in Worker, Ignore(w) PROVE TypesInv'
  BY <1>6 DEF Ignore, Returns, TypesInv, provider, reads
<1>7. ASSUME NEW w \in Worker, At(w, "put"), Writes(task[w])
      PROVE  /\ subs' \in [Sub -> Subscription \cup {None}]
             /\ applied' \in [Instant -> Nat]
  <2>1. task[w].snap \in Subscription /\ task[w].snap.at \in Instant
    BY <1>7, AtCall DEF Call, Subscription
  <2>2. subs' \in [Sub -> Subscription \cup {None}]
    BY <1>7, <2>1, Zenon DEF Writes, TypesInv
  <2>3. applied' \in [Instant -> Nat]
    BY <1>7, <2>1 DEF Writes, TypesInv
  <2> QED
    BY <2>2, <2>3
<1>8. ASSUME NEW w \in Worker, Upsert(w) PROVE TypesInv'
  <2>1. task[w] \in Call
    BY <1>8, AtCall DEF Upsert
  <2>2. task' \in [Worker -> Call \cup {None}]
    BY <1>8, <2>1 DEF Upsert, TypesInv, Call
  <2> QED
    BY <1>7, <1>8, <2>2 DEF Upsert, TypesInv, provider, reads
<1>9. ASSUME NEW w \in Worker, Bust(w) PROVE TypesInv'
  BY <1>9 DEF Bust, Returns, Pending, TypesInv, provider, reads
<1>10. ASSUME NEW w \in Worker, StoreFails(w) PROVE TypesInv'
  BY <1>10 DEF StoreFails, Aborts, TypesInv, provider, reads
<1>11. ASSUME NEW w \in Worker, UpsertLost(w) PROVE TypesInv'
  BY <1>7, <1>11 DEF UpsertLost, Aborts, TypesInv, provider, reads
<1>12. ASSUME NEW e \in sent, MarkLost(e) PROVE TypesInv'
  BY <1>12 DEF MarkLost, TypesInv, Subscription, provider, reads
<1>13. ASSUME FetchFails \/ Crash PROVE TypesInv'
  BY <1>13 DEF FetchFails, Crash, TypesInv, provider, reads
<1>14. ASSUME NEW q \in Reader, Get(q) \/ DeriveFails(q) \/ Derive(q)
       PROVE  TypesInv'
  BY <1>14, DerivedType DEF Get, DeriveFails, Derive, TypesInv, provider
<1>15. ASSUME NEW q \in Reader, Set(q) PROVE TypesInv'
  BY <1>15 DEF Set, TypesInv, provider
<1>16. ASSUME SetDown \/ UNCHANGED vars PROVE TypesInv'
  BY <1>16 DEF SetDown, vars, TypesInv, provider, reads
<1> QED
  BY <1>1, <1>2, <1>3, <1>4, <1>5, <1>6, <1>8, <1>9, <1>10, <1>11, <1>12,
     <1>13, <1>14, <1>15, <1>16 DEF Next, Work

---------------------------------------------------------------------------
(* An event is written at most once *)

\* A step that starts no call and writes nothing keeps MarkedInv.
LEMMA MarkedFrame ==
  ASSUME TypesInv, MarkedInv, applied' = applied, processed \subseteq processed',
         processed' \subseteq Instant,
         \A w \in Worker :
           \/ task'[w] = None
           \/ /\ task[w] # None
              /\ task'[w].from = task[w].from /\ task'[w].snap = task[w].snap
              /\ task'[w].pc \in {"get", "put"} => task[w].pc \in {"get", "put"}
  PROVE  MarkedInv'
<1>1. Cron \in Worker /\ \A w \in Handler : w \in Worker
  BY DEF Worker
<1>2. /\ task'[Cron] # None => task'[Cron].from = "fetch"
      /\ \A w \in Handler : task'[w] # None =>
           task'[w].from = "event" /\ task'[w].snap.at \in processed'
  BY <1>1 DEF MarkedInv
<1>3. ASSUME NEW v \in Handler, NEW w \in Handler, task'[v] # None,
             task'[w] # None, task'[v].snap.at = task'[w].snap.at
      PROVE  v = w
  BY <1>1, <1>3 DEF MarkedInv
<1>4. ASSUME NEW w \in Handler, Unwritten(w)'
      PROVE  applied'[task'[w].snap.at] = 0
  BY <1>1, <1>4 DEF MarkedInv, Unwritten
<1> QED
  BY <1>2, <1>3, <1>4 DEF MarkedInv, AppliedOnce

\* MarkProcessed and the upsert: the write of an event is its handler's only one.
LEMMA WritesMarked ==
  ASSUME TypesInv, MarkedInv, NEW w \in Worker, At(w, "put"), Writes(task[w]),
         processed' = processed,
         \/ task'[w] = None
         \/ /\ task'[w].from = task[w].from /\ task'[w].snap = task[w].snap
            /\ task'[w].pc = "bust",
         \A v \in Worker \ {w} : task'[v] = task[v]
  PROVE  MarkedInv'
<1>1. Cron \in Worker /\ \A v \in Handler : v \in Worker
  BY DEF Worker
<1>2. /\ task[w] # None /\ task[w].pc = "put" /\ task[w].snap.at \in Instant
      /\ w \in Handler \/ w = Cron
  BY AtCall DEF Call, Subscription, Worker
<1>3. CASE w = Cron
  <2>1. applied' = applied
    BY <1>2, <1>3 DEF MarkedInv, Writes
  <2> QED
    BY <1>2, <1>3, <2>1, MarkedFrame DEF TypesInv
<1>4. CASE w \in Handler
  <2> DEFINE i == task[w].snap.at
  <2>1. /\ task[w].from = "event" /\ i \in processed /\ applied[i] = 0
    BY <1>2, <1>4 DEF MarkedInv, Unwritten
  <2>2. /\ applied' = [applied EXCEPT ![i] = applied[i] + 1]
        /\ applied'[i] = 1
        /\ \A j \in Instant \ {i} : applied'[j] = applied[j]
    BY <1>2, <2>1 DEF Writes, TypesInv
  <2>3. \A v \in Worker :
          \/ task'[v] = None
          \/ /\ task[v] # None
             /\ task'[v].from = task[v].from /\ task'[v].snap = task[v].snap
    BY <1>2
  <2>4. /\ task'[Cron] # None => task'[Cron].from = "fetch"
        /\ \A v \in Handler : task'[v] # None =>
             task'[v].from = "event" /\ task'[v].snap.at \in processed'
    BY <1>1, <2>3 DEF MarkedInv
  <2>5. ASSUME NEW u \in Handler, NEW v \in Handler, task'[u] # None,
               task'[v] # None, task'[u].snap.at = task'[v].snap.at
        PROVE  u = v
    BY <1>1, <2>3, <2>5 DEF MarkedInv
  <2>6. ASSUME NEW v \in Handler, Unwritten(v)'
        PROVE  applied'[task'[v].snap.at] = 0
    <3>1. v # w /\ task'[v] = task[v] /\ Unwritten(v)
      BY <1>1, <2>6 DEF Unwritten
    <3>2. task[v].snap.at # i /\ applied[task[v].snap.at] = 0
      BY <1>2, <1>4, <3>1 DEF MarkedInv, Unwritten
    <3>3. task[v].snap.at \in Instant
      BY <1>1, <3>1 DEF TypesInv, MarkedInv, Unwritten
    <3> QED
      BY <3>1, <3>2, <3>3, <2>2
  <2>7. \A j \in Instant : applied'[j] <= 1 /\ (j \notin processed' => applied'[j] = 0)
    <3>1. ASSUME NEW j \in Instant
          PROVE  applied'[j] <= 1 /\ (j \notin processed' => applied'[j] = 0)
      <4>1. CASE j = i
        BY <4>1, <2>1, <2>2
      <4>2. CASE j # i
        BY <4>2, <2>2 DEF MarkedInv, AppliedOnce
      <4> QED
        BY <4>1, <4>2
    <3> QED
      BY <3>1
  <2> QED
    BY <2>4, <2>5, <2>6, <2>7 DEF MarkedInv, AppliedOnce
<1> QED
  BY <1>2, <1>3, <1>4

\* MarkedInv holds after every step.
LEMMA SyncMarked == SyncInv /\ [Next]_vars => MarkedInv'
<1> SUFFICES ASSUME SyncInv, [Next]_vars PROVE MarkedInv'
  OBVIOUS
<1> USE DEF SyncInv
<1>1. TypesInv'
  BY SyncTypes
<1>2. processed' \subseteq Instant /\ Cron \in Worker
  BY <1>1 DEF TypesInv, Worker
<1>3. ASSUME applied' = applied, processed \subseteq processed',
             task' = task \/ \A w \in Worker : task'[w] = None
      PROVE  MarkedInv'
  <2>1. CASE task' = task
    BY <1>2, <1>3, <2>1, MarkedFrame
  <2>2. CASE \A w \in Worker : task'[w] = None
    BY <1>2, <1>3, <2>2, MarkedFrame
  <2> QED
    BY <1>3, <2>1, <2>2
<1>4. ASSUME NEW w \in Worker, applied' = applied, processed' = processed,
             task' = [task EXCEPT ![w] = None]
      PROVE  MarkedInv'
  <2>1. task'[w] = None /\ \A v \in Worker \ {w} : task'[v] = task[v]
    BY <1>4 DEF TypesInv
  <2> QED
    BY <1>2, <1>4, <2>1, MarkedFrame
<1>5. ASSUME NEW w \in Handler, NEW e \in sent, Deliver(w, e) PROVE MarkedInv'
  <2> DEFINE i == e.snap.at
  <2>1. /\ e.sub \in Sub /\ e.snap \in Subscription /\ i \in Instant
        /\ w \in Worker /\ w # Cron
    BY SyncAssumption DEF TypesInv, Worker, Subscription
  <2>2. /\ task'[w] \in Call /\ task'[w].from = "event" /\ task'[w].snap = e.snap
        /\ \A v \in Worker \ {w} : task'[v] = task[v]
    BY <1>5, <2>1, StartsType DEF Deliver
  <2>3. /\ task[w] = None /\ i \notin processed /\ applied' = applied
        /\ processed' = processed \cup {i}
    BY <1>5 DEF Deliver
  <2>4. \A v \in Handler : v \in Worker
    BY DEF Worker
  <2>5. applied[i] = 0
    BY <2>1, <2>3 DEF MarkedInv
  <2>6. task'[Cron] # None => task'[Cron].from = "fetch"
    BY <1>2, <2>1, <2>2 DEF MarkedInv
  <2>7. \A v \in Handler : task'[v] # None =>
          task'[v].from = "event" /\ task'[v].snap.at \in processed'
    BY <2>2, <2>3, <2>4 DEF MarkedInv
  <2>8. ASSUME NEW u \in Handler, NEW v \in Handler, task'[u] # None,
               task'[v] # None, task'[u].snap.at = task'[v].snap.at
        PROVE  u = v
    BY <2>2, <2>3, <2>4, <2>8 DEF MarkedInv
  <2>9. ASSUME NEW v \in Handler, Unwritten(v)'
        PROVE  applied'[task'[v].snap.at] = 0
    BY <2>2, <2>3, <2>4, <2>5, <2>9 DEF MarkedInv, Unwritten
  <2> QED
    BY <2>3, <2>6, <2>7, <2>8, <2>9 DEF MarkedInv, AppliedOnce
<1>6. ASSUME Fetch PROVE MarkedInv'
  <2>1. PICK s \in due : Starts(Cron, "fetch", s, truth[s])
    BY <1>6 DEF Fetch
  <2>2. s \in Sub /\ truth[s] \in Subscription
    BY DEF TypesInv
  <2>3. /\ task'[Cron].from = "fetch"
        /\ \A v \in Worker \ {Cron} : task'[v] = task[v]
    BY <1>2, <2>1, <2>2, StartsType
  <2>4. \A v \in Handler : task'[v] = task[v]
    BY <2>3, SyncAssumption DEF Worker
  <2>5. applied' = applied /\ processed' = processed
    BY <1>6 DEF Fetch
  <2> QED
    BY <2>3, <2>4, <2>5 DEF MarkedInv, Unwritten, AppliedOnce
<1>7. ASSUME NEW w \in Worker, GetByProviderID(w) PROVE MarkedInv'
  <2>1. task[w] \in Call /\ task[w] # None /\ task[w].pc = "get"
    BY <1>7, AtCall DEF GetByProviderID
  <2>2. /\ task'[w].from = task[w].from /\ task'[w].snap = task[w].snap
        /\ \A v \in Worker \ {w} : task'[v] = task[v]
    BY <1>7, <2>1 DEF GetByProviderID, TypesInv, Call
  <2>3. applied' = applied /\ processed' = processed
    BY <1>7 DEF GetByProviderID
  <2> QED
    BY <1>2, <2>1, <2>2, <2>3, MarkedFrame
<1>8. ASSUME NEW w \in Worker, Upsert(w) PROVE MarkedInv'
  <2>1. At(w, "put") /\ task[w] \in Call
    BY <1>8, AtCall DEF Upsert
  <2>2. /\ task'[w].from = task[w].from /\ task'[w].snap = task[w].snap
        /\ task'[w].pc = "bust"
        /\ \A v \in Worker \ {w} : task'[v] = task[v]
    BY <1>8, <2>1 DEF Upsert, TypesInv, Call
  <2>3. processed' = processed /\ Writes(task[w])
    BY <1>8 DEF Upsert
  <2> QED
    BY <2>1, <2>2, <2>3, WritesMarked
<1>9. ASSUME NEW w \in Worker, UpsertLost(w) PROVE MarkedInv'
  <2>1. At(w, "put") /\ Writes(task[w]) /\ processed' = processed
    BY <1>9 DEF UpsertLost
  <2>2. task'[w] = None /\ \A v \in Worker \ {w} : task'[v] = task[v]
    BY <1>9 DEF UpsertLost, Aborts, TypesInv
  <2> QED
    BY <2>1, <2>2, WritesMarked
<1>10. ASSUME NEW w \in Worker, Ignore(w) \/ Bust(w) \/ StoreFails(w)
       PROVE  MarkedInv'
  BY <1>4, <1>10 DEF Ignore, Bust, StoreFails, Returns, Aborts
<1>11. ASSUME NEW s \in Sub, Change(s) PROVE MarkedInv'
  BY <1>3, <1>11 DEF Change
<1>12. ASSUME Tick \/ FetchFails \/ Crash PROVE MarkedInv'
  BY <1>3, <1>12 DEF Tick, FetchFails, Crash
<1>13. ASSUME NEW e \in sent, MarkLost(e) PROVE MarkedInv'
  BY <1>3, <1>13 DEF MarkLost
<1>14. ASSUME NEW q \in Reader, Get(q) \/ DeriveFails(q) \/ Derive(q) \/ Set(q)
       PROVE  MarkedInv'
  BY <1>3, <1>14 DEF Get, DeriveFails, Derive, Set
<1>15. ASSUME SetDown \/ UNCHANGED vars PROVE MarkedInv'
  BY <1>3, <1>15 DEF SetDown, vars
<1> QED
  BY <1>5, <1>6, <1>7, <1>8, <1>9, <1>10, <1>11, <1>12, <1>13, <1>14, <1>15
     DEF Next, Work

---------------------------------------------------------------------------
(* The cache follows the store *)

\* A step that changes neither the rows nor the reads, and busts nothing, keeps
\* FreshInv.
LEMMA FreshFrame ==
  ASSUME FreshInv, UNCHANGED <<subs, cache, derived, raced>>,
         Busting => Busting'
  PROVE  FreshInv'
  BY DEF FreshInv, Fresh, Latest, DeriveEntitlement

\* FreshInv holds after every step.
LEMMA SyncFresh == SyncInv /\ [Next]_vars => FreshInv'
<1> SUFFICES ASSUME SyncInv, [Next]_vars PROVE FreshInv'
  OBVIOUS
<1> USE DEF SyncInv
<1>1. Cron \in Worker /\ \A w \in Handler : w \in Worker
  BY DEF Worker
<1>2. ASSUME task' = task, UNCHANGED <<subs, cache, derived, raced>>
      PROVE  FreshInv'
  <2>1. Busting => Busting'
    BY <1>2 DEF Busting, At
  <2> QED
    BY <1>2, <2>1, FreshFrame
<1>3. ASSUME NEW w \in Worker, ~At(w, "bust"),
             UNCHANGED <<subs, cache, derived, raced>>,
             \A v \in Worker \ {w} : task'[v] = task[v]
      PROVE  FreshInv'
  <2>1. Busting => Busting'
    BY <1>3 DEF Busting, At
  <2> QED
    BY <1>3, <2>1, FreshFrame
<1>4. ASSUME NEW w \in Handler, NEW e \in sent, Deliver(w, e) PROVE FreshInv'
  <2>1. e.sub \in Sub /\ e.snap \in Subscription
    BY DEF TypesInv
  <2>2. \A v \in Worker \ {w} : task'[v] = task[v]
    BY <1>1, <1>4, <2>1, StartsType DEF Deliver
  <2> QED
    BY <1>1, <1>3, <1>4, <2>2 DEF Deliver, At, reads
<1>5. ASSUME Fetch PROVE FreshInv'
  <2>1. PICK s \in due : Starts(Cron, "fetch", s, truth[s])
    BY <1>5 DEF Fetch
  <2>2. s \in Sub /\ truth[s] \in Subscription
    BY DEF TypesInv
  <2>3. \A v \in Worker \ {Cron} : task'[v] = task[v]
    BY <1>1, <2>1, <2>2, StartsType
  <2> QED
    BY <1>1, <1>3, <1>5, <2>3 DEF Fetch, At, reads
<1>6. ASSUME NEW w \in Worker, GetByProviderID(w) \/ Ignore(w) \/ StoreFails(w)
      PROVE  FreshInv'
  <2>1. \A v \in Worker \ {w} : task'[v] = task[v]
    BY <1>6 DEF GetByProviderID, Ignore, StoreFails, Returns, Aborts, TypesInv
  <2>2. ~At(w, "bust")
    BY <1>6 DEF GetByProviderID, Ignore, StoreFails, At
  <2>3. UNCHANGED <<subs, cache, derived, raced>>
    BY <1>6 DEF GetByProviderID, Ignore, StoreFails, reads
  <2> QED
    BY <1>3, <2>1, <2>2, <2>3
<1>7. ASSUME NEW w \in Worker, Upsert(w) PROVE FreshInv'
  <2>1. task[w] \in Call
    BY <1>7, AtCall DEF Upsert
  <2>2. task'[w] \in Call /\ task'[w].pc = "bust"
    BY <1>7, <2>1 DEF Upsert, TypesInv, Call
  <2>3. Busting'
    BY <2>2, NoneAssumption DEF Busting, At
  <2> QED
    BY <2>3 DEF FreshInv
<1>8. ASSUME NEW w \in Worker, Bust(w) PROVE FreshInv'
  <2>1. cache' = None /\ raced' = Pending /\ derived' = derived
    BY <1>8 DEF Bust, reads
  <2> QED
    BY <2>1 DEF FreshInv, Pending
<1>9. ASSUME NEW w \in Worker, UpsertLost(w) PROVE FreshInv'
  BY <1>9 DEF UpsertLost, FreshInv
<1>10. ASSUME Crash PROVE FreshInv'
  BY <1>10 DEF Crash, FreshInv
<1>11. ASSUME NEW q \in Reader, Derive(q) PROVE FreshInv'
  <2>1. PICK s \in Latest : derived' = [derived EXCEPT ![q] = DeriveEntitlement(s)]
    BY <1>11, Zenon DEF Derive
  <2>2. UNCHANGED <<subs, cache, task, raced>>
    BY <1>11 DEF Derive
  <2>3. \A e : Fresh(e) => Fresh(e)'
    BY <2>2 DEF Fresh, Latest, DeriveEntitlement
  <2>4. Fresh(DeriveEntitlement(s))'
    BY <2>2 DEF Fresh, Latest, DeriveEntitlement
  <2>5. CASE raced \/ Busting
    BY <2>2, <2>5 DEF FreshInv, Busting, At
  <2>6. CASE ~(raced \/ Busting)
    <3>1. cache' # None => Fresh(cache)'
      BY <2>2, <2>6 DEF FreshInv, Fresh, Latest, DeriveEntitlement
    <3>2. ASSUME NEW r \in Reader, derived'[r] # None PROVE Fresh(derived[r])'
      <4>1. CASE r = q
        BY <4>1, <2>1, <2>2 DEF TypesInv, Fresh, Latest, DeriveEntitlement
      <4>2. CASE r # q
        <5>1. derived'[r] = derived[r]
          BY <4>2, <2>1 DEF TypesInv
        <5> QED
          BY <5>1, <3>2, <2>2, <2>6 DEF FreshInv, Fresh, Latest, DeriveEntitlement
      <4> QED
        BY <4>1, <4>2
    <3> QED
      BY <3>1, <3>2 DEF FreshInv
  <2> QED
    BY <2>5, <2>6
<1>12. ASSUME NEW q \in Reader, Set(q) PROVE FreshInv'
  <2>1. UNCHANGED <<subs, task, raced>>
    BY <1>12 DEF Set
  <2>2. CASE raced \/ Busting
    BY <2>1, <2>2 DEF FreshInv, Busting, At
  <2>3. CASE ~(raced \/ Busting)
    <3>1. cache' = cache \/ (cache' = derived[q] /\ derived[q] # None)
      BY <1>12 DEF Set
    <3>2. \A r \in Reader : derived'[r] = None \/ derived'[r] = derived[r]
      BY <1>12 DEF Set, TypesInv
    <3>3. cache' # None => Fresh(cache)'
      BY <3>1, <2>1, <2>3, Zenon DEF FreshInv, Fresh, Latest, DeriveEntitlement
    <3>4. \A r \in Reader : derived'[r] # None => Fresh(derived[r])'
      BY <3>2, <2>1, <2>3 DEF FreshInv, Fresh, Latest, DeriveEntitlement
    <3> QED
      BY <3>3, <3>4 DEF FreshInv
  <2> QED
    BY <2>2, <2>3
<1>13. ASSUME NEW s \in Sub, Change(s) PROVE FreshInv'
  BY <1>2, <1>13 DEF Change, reads
<1>14. ASSUME Tick \/ FetchFails \/ SetDown \/ UNCHANGED vars PROVE FreshInv'
  BY <1>2, <1>14 DEF Tick, FetchFails, SetDown, vars, reads
<1>15. ASSUME NEW e \in sent, MarkLost(e) PROVE FreshInv'
  BY <1>2, <1>15 DEF MarkLost, reads
<1>16. ASSUME NEW q \in Reader, Get(q) \/ DeriveFails(q) PROVE FreshInv'
  BY <1>2, <1>16 DEF Get, DeriveFails
<1> QED
  BY <1>16, <1>4, <1>5, <1>6, <1>7, <1>8, <1>9, <1>10, <1>11, <1>12, <1>13, <1>14, <1>15
     DEF Next, Work

---------------------------------------------------------------------------
(* Theorems *)

\* The invariant holds in every reachable state.
THEOREM SyncInvHolds == Spec => []SyncInv
<1>1. SyncInv /\ [Next]_vars => SyncInv'
  BY SyncTypes, SyncMarked, SyncFresh DEF SyncInv
<1> QED
  BY SyncInit, <1>1, PTL DEF Spec

\* Handle writes an event at most once, for any number of concurrent
\* deliveries, failures and restarts.
THEOREM AppliedOnceHolds == Spec => []AppliedOnce
<1>1. SyncInv => AppliedOnce
  BY DEF SyncInv, MarkedInv
<1> QED
  BY SyncInvHolds, <1>1, PTL

\* A cached entitlement is the one the store implies, save for a bust to come
\* or one that raced a reader, for any number of calls and readers.
THEOREM CacheHolds == Spec => []CacheFollowsStore
<1>1. SyncInv => CacheFollowsStore
  BY DEF SyncInv, FreshInv, Busting, Fresh, CacheFollowsStore
<1> QED
  BY SyncInvHolds, <1>1, PTL

===========================================================================
