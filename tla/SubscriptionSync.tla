------------------------- MODULE SubscriptionSync -------------------------
(* subscription-core: the webhook Processor, the Reconciler, the store and *)
(* the entitlement cache of one customer.                                  *)
(*                                                                         *)
(* A subscription record keeps the fields access depends on: the status,   *)
(* the plan (with the seats and the cancel flag that travel with it) and   *)
(* ProviderUpdatedAt, the watermark. An event is identified by its         *)
(* instant: the provider's clock advances with every change.               *)
EXTENDS Integers

CONSTANTS
  Sub,         \* provider subscription ids of the customer
  Handler,     \* concurrent webhook requests
  Cron,        \* the caller of ReconcileAll
  Reader,      \* concurrent Entitlement calls
  Snapshots,   \* the changes the provider makes: [type, status, plan]
  MaxAt,       \* bound on the provider's clock
  MaxFaults,   \* bound on failed store calls and crashes
  None

ASSUME SyncAssumption ==
  /\ Cron \notin Handler
  /\ MaxAt \in Nat /\ MaxFaults \in Nat

Status  == {"trialing", "active", "past_due", "canceled", "paused"}
Plan    == {x.plan : x \in Snapshots}
Instant == 1..MaxAt

Subscription == [status: Status, plan: Plan, at: Instant]
Entitlement  == [sub: Sub, plan: Plan, active: BOOLEAN]
Worker       == Handler \cup {Cron}

\* A call of Handle or ReconcileOne: where it is, the snapshot it was given or
\* has fetched, and the row it has read.
Call == [from: {"event", "fetch"}, sub: Sub, snap: Subscription,
         existing: Subscription \cup {None}, pc: {"get", "put", "bust"}]

ASSUME SnapshotsAssumption ==
  \A x \in Snapshots :
    /\ x.type \in {"created", "updated", "canceled", "payment_failed",
                   "payment_succeeded"}
    /\ x.status \in Status \cup {None}
ASSUME NoneAssumption ==
  /\ None \notin Status \cup Subscription \cup Entitlement
  /\ None \notin Call

VARIABLES
  clock,      \* the provider's clock
  truth,      \* what FetchSubscription returns
  sent,       \* the events the provider has sent, delivered any number of times
  processed,  \* the webhook_events table
  subs,       \* the subscriptions table
  cache,      \* the customer's cached entitlement
  down,       \* the cache is unavailable
  task,       \* the call a worker is in
  due,        \* the ids left of the ReconcileAll in progress
  missed,     \* the readers that found no cached entry and read the store next
  derived,    \* the entitlement a reader derived and has yet to cache
  applied,    \* how often each event has been written to the store
  raced,      \* a bust may have been lost on a concurrent reader
  calm,       \* nothing has failed and nobody else has written since the last
              \* call of ReconcileAll
  faults

provider == <<clock, truth, sent>>
reads    == <<down, missed, derived>>
vars == <<provider, processed, subs, cache, reads, task, due, applied, raced,
          calm, faults>>

---------------------------------------------------------------------------
(* domain *)

\* Mutant: a snapshot without a status is taken as it is.
TargetStatus_NoDefault(x) ==
  CASE x.type = "canceled"          -> "canceled"
    [] x.type = "payment_failed"    -> "past_due"
    [] x.type = "payment_succeeded" -> "active"
    [] OTHER -> x.status

\* The status an event implies.
TargetStatus(x) ==
  CASE x.type = "canceled"          -> "canceled"
    [] x.type = "payment_failed"    -> "past_due"
    [] x.type = "payment_succeeded" -> "active"
    [] OTHER -> IF x.status = None THEN "active" ELSE x.status

transitions ==
  [trialing |-> {"active", "past_due", "canceled", "paused"},
   active   |-> {"past_due", "canceled", "paused"},
   past_due |-> {"active", "canceled"},
   paused   |-> {"active", "canceled"},
   canceled |-> {}]

CanTransition(from, to) == from = to \/ to \in transitions[from]

StatusGrantsAccess(status) == status \in {"active", "trialing", "past_due"}

\* The customer's most recently updated subscriptions.
Latest == {s \in Sub : subs[s] # None
             /\ \A r \in Sub : subs[r] # None => subs[r].at <= subs[s].at}

DeriveEntitlement(s) ==
  [sub |-> s, plan |-> subs[s].plan,
   active |-> StatusGrantsAccess(subs[s].status)]

\* The billing-relevant fields differ: the watermark is not compared.
drifted(local, fetched) ==
  local.status # fetched.status \/ local.plan # fetched.plan

---------------------------------------------------------------------------
(* The provider *)

Init ==
  /\ clock = 0 /\ truth = [s \in Sub |-> None] /\ sent = {}
  /\ processed = {} /\ subs = [s \in Sub |-> None]
  /\ cache = None
  /\ down = FALSE /\ missed = {} /\ derived = [q \in Reader |-> None]
  /\ task = [w \in Worker |-> None] /\ due = {}
  /\ applied = [i \in Instant |-> 0] /\ raced = FALSE /\ calm = FALSE
  /\ faults = 0

Change(s) ==
  /\ clock < MaxAt
  /\ clock' = clock + 1
  /\ \E x \in Snapshots :
       LET new == [status |-> TargetStatus(x), plan |-> x.plan, at |-> clock']
       IN  /\ truth' = [truth EXCEPT ![s] = new]
           /\ sent' = sent \cup {[sub |-> s, snap |-> new]}
  /\ calm' = FALSE
  /\ UNCHANGED <<processed, subs, cache, reads, task, due, applied, raced,
                 faults>>

---------------------------------------------------------------------------
(* Processor.Handle and Reconciler.ReconcileOne: each is a call that gets  *)
(* the local row, puts the snapshot it was given or fetched, and busts the *)
(* cache, with other calls between any two of its steps.                   *)

Starts(w, from, s, snap) ==
  task' = [task EXCEPT ![w] = [from |-> from, sub |-> s, snap |-> snap,
                               existing |-> None, pc |-> "get"]]

At(w, pc) == task[w] # None /\ task[w].pc = pc

\* Mutant: the answer of MarkProcessed is ignored.
Deliver_Again(w, e) ==
  /\ task[w] = None
  /\ processed' = processed \cup {e.snap.at}
  /\ Starts(w, "event", e.sub, e.snap)
  /\ UNCHANGED <<provider, subs, cache, reads, due, applied, raced, calm, faults>>

\* Handle up to MarkProcessed; a redelivery returns ResultDuplicate.
Deliver(w, e) ==
  /\ task[w] = None
  /\ e.snap.at \notin processed
  /\ processed' = processed \cup {e.snap.at}
  /\ Starts(w, "event", e.sub, e.snap)
  /\ UNCHANGED <<provider, subs, cache, reads, due, applied, raced, calm, faults>>

\* ReconcileAll is called with the ids the provider knows, in some order. The
\* daemon's loop does not call it yet (main.go:160-164): whoever does may.
Tick ==
  /\ task[Cron] = None /\ due = {}
  /\ due' = {s \in Sub : truth[s] # None}
  /\ due' # {}
  /\ calm' = TRUE
  /\ UNCHANGED <<provider, processed, subs, cache, reads, task, applied,
                 raced, faults>>

\* ReconcileOne: FetchSubscription.
Fetch ==
  /\ task[Cron] = None
  /\ \E s \in due : Starts(Cron, "fetch", s, truth[s])
  /\ UNCHANGED <<provider, processed, subs, cache, reads, due, applied,
                 raced, calm, faults>>

GetByProviderID(w) ==
  /\ At(w, "get")
  /\ task' = [task EXCEPT ![w].existing = subs[task[w].sub], ![w].pc = "put"]
  /\ UNCHANGED <<provider, processed, subs, cache, reads, due, applied,
                 raced, calm, faults>>

\* Mutant: the reconciler goes through the state machine too.
Accepts_Legal(t) ==
  t.existing # None =>
    /\ ~(t.snap.at < t.existing.at)
    /\ CanTransition(t.existing.status, t.snap.status)
    /\ t.from = "fetch" => drifted(t.existing, t.snap)

\* The watermark guard, then the state machine of Handle or the comparison of
\* ReconcileOne, on the row the call has read.
Accepts(t) ==
  t.existing # None =>
    /\ ~(t.snap.at < t.existing.at)
    /\ IF t.from = "event"
       THEN CanTransition(t.existing.status, t.snap.status)
       ELSE drifted(t.existing, t.snap)

\* The call returns: the next id of ReconcileAll is due.
Returns(w) ==
  /\ task' = [task EXCEPT ![w] = None]
  /\ due' = IF w = Cron THEN due \ {task[w].sub} ELSE due

\* ResultStale, ResultIllegal, OutcomeStale or OutcomeInSync.
Ignore(w) ==
  /\ At(w, "put") /\ ~Accepts(task[w])
  /\ Returns(w)
  /\ UNCHANGED <<provider, processed, subs, cache, reads, applied, raced,
                 calm, faults>>

\* The upsert keyed on provider_subscription_id.
Writes(t) ==
  /\ subs' = [subs EXCEPT ![t.sub] = t.snap]
  /\ applied' = IF t.from = "event"
                THEN [applied EXCEPT ![t.snap.at] = @ + 1] ELSE applied

\* Mutant: a repair does not bust the cache.
Upsert_NoBust(w) ==
  /\ At(w, "put") /\ Accepts(task[w])
  /\ Writes(task[w])
  /\ IF w = Cron
     THEN Returns(w)
     ELSE task' = [task EXCEPT ![w].pc = "bust"] /\ due' = due
  /\ calm' = (calm /\ w = Cron)
  /\ UNCHANGED <<provider, processed, cache, reads, raced, faults>>

Upsert(w) ==
  /\ At(w, "put") /\ Accepts(task[w])
  /\ Writes(task[w])
  /\ task' = [task EXCEPT ![w].pc = "bust"]
  /\ calm' = (calm /\ w = Cron)
  /\ UNCHANGED <<provider, processed, cache, reads, due, raced, faults>>

Pending == \E q \in Reader : derived[q] # None

Bust(w) ==
  /\ At(w, "bust")
  /\ cache' = None
  /\ raced' = Pending
  /\ Returns(w)
  /\ UNCHANGED <<provider, processed, subs, reads, applied, calm, faults>>

---------------------------------------------------------------------------
(* Failures *)

Fault == faults < MaxFaults /\ faults' = faults + 1

\* The call returns an error, which ends the ReconcileAll it belongs to.
Aborts(w) ==
  /\ task' = [task EXCEPT ![w] = None]
  /\ due' = IF w = Cron THEN {} ELSE due

\* The row is in webhook_events, the answer was lost: Handle returns an error.
MarkLost(e) ==
  /\ Fault
  /\ processed' = processed \cup {e.snap.at}
  /\ UNCHANGED <<provider, subs, cache, reads, task, due, applied, raced, calm>>

\* FetchSubscription fails.
FetchFails ==
  /\ Fault
  /\ task[Cron] = None /\ due # {}
  /\ due' = {}
  /\ calm' = FALSE
  /\ UNCHANGED <<provider, processed, subs, cache, reads, task, applied, raced>>

\* A read fails, or an upsert fails without effect.
StoreFails(w) ==
  /\ Fault
  /\ \/ At(w, "get")
     \/ At(w, "put") /\ Accepts(task[w])
  /\ Aborts(w)
  /\ calm' = (calm /\ w # Cron)
  /\ UNCHANGED <<provider, processed, subs, cache, reads, applied, raced>>

\* The upsert took effect and its answer was lost: the cache is not busted.
UpsertLost(w) ==
  /\ Fault
  /\ At(w, "put") /\ Accepts(task[w])
  /\ Writes(task[w])
  /\ Aborts(w)
  /\ raced' = TRUE
  /\ calm' = FALSE
  /\ UNCHANGED <<provider, processed, cache, reads>>

\* The process restarts: the tables survive, the calls and the cache do not.
Crash ==
  /\ Fault
  /\ task' = [w \in Worker |-> None] /\ due' = {}
  /\ cache' = None /\ down' = FALSE
  /\ missed' = {} /\ derived' = [q \in Reader |-> None]
  /\ raced' = FALSE
  /\ calm' = FALSE
  /\ UNCHANGED <<provider, processed, subs, applied>>

---------------------------------------------------------------------------
(* Service.Entitlement on a miss, and the cache *)

\* The cache has no entry or is down.
Get(q) ==
  /\ q \notin missed /\ derived[q] = None
  /\ down \/ cache = None
  /\ missed' = missed \cup {q}
  /\ UNCHANGED <<provider, processed, subs, cache, down, derived, task, due,
                 applied, raced, calm, faults>>

\* GetBySubject finds no row, or a read fails: the call returns the error.
DeriveFails(q) ==
  /\ q \in missed
  /\ missed' = missed \ {q}
  /\ UNCHANGED <<provider, processed, subs, cache, down, derived, task, due,
                 applied, raced, calm, faults>>

Derive(q) ==
  /\ q \in missed
  /\ missed' = missed \ {q}
  /\ \E s \in Latest : derived' = [derived EXCEPT ![q] = DeriveEntitlement(s)]
  /\ UNCHANGED <<provider, processed, subs, cache, down, task, due, applied,
                 raced, calm, faults>>

Set(q) ==
  /\ derived[q] # None
  /\ cache' = IF down THEN cache ELSE derived[q]
  /\ derived' = [derived EXCEPT ![q] = None]
  /\ UNCHANGED <<provider, processed, subs, down, missed, task, due, applied,
                 raced, calm, faults>>

SetDown ==
  /\ down' = ~down
  /\ UNCHANGED <<provider, processed, subs, cache, missed, derived, task, due,
                 applied, raced, calm, faults>>

---------------------------------------------------------------------------
Work(w) == GetByProviderID(w) \/ Ignore(w) \/ Upsert(w) \/ Bust(w)

Next ==
  \/ \E s \in Sub : Change(s)
  \/ \E w \in Handler, e \in sent : Deliver(w, e)
  \/ Tick \/ Fetch \/ FetchFails
  \/ \E w \in Worker : Work(w) \/ StoreFails(w) \/ UpsertLost(w)
  \/ \E e \in sent : MarkLost(e)
  \/ Crash
  \/ \E q \in Reader : Get(q) \/ DeriveFails(q) \/ Derive(q) \/ Set(q)
  \/ SetDown

Spec == Init /\ [][Next]_vars

---------------------------------------------------------------------------
TypeOK ==
  /\ clock \in 0..MaxAt
  /\ truth \in [Sub -> Subscription \cup {None}]
  /\ sent \subseteq [sub: Sub, snap: Subscription]
  /\ processed \subseteq Instant
  /\ subs \in [Sub -> Subscription \cup {None}]
  /\ cache \in Entitlement \cup {None}
  /\ down \in BOOLEAN /\ missed \subseteq Reader
  /\ task \in [Worker -> Call \cup {None}]
  /\ due \subseteq Sub
  /\ derived \in [Reader -> Entitlement \cup {None}]
  /\ applied \in [Instant -> Nat]
  /\ raced \in BOOLEAN /\ calm \in BOOLEAN /\ faults \in 0..MaxFaults

\* Handle writes an event at most once, however often it is delivered, retried
\* or handled concurrently, and across restarts: MarkProcessed comes first.
AppliedOnce == \A i \in Instant : applied[i] <= 1

\* A cached entitlement is the one the store implies, except between an upsert
\* and its bust: a value derived before the upsert survives only when the bust
\* finds its reader between GetBySubject and Set, or never comes.
CacheFollowsStore ==
  \/ raced \/ cache = None
  \/ \E w \in Worker : At(w, "bust")
  \/ \E s \in Latest : cache = DeriveEntitlement(s)

\* The store's row never goes back to an older provider state.
WatermarkAdvances ==
  [][\A s \in Sub : subs[s] # None => subs'[s].at >= subs[s].at]_vars

\* A call of ReconcileAll that returns has made every row agree with the provider,
\* whatever events were lost, refused, misordered or marked and not applied
\* before it, unless something failed or somebody else wrote meanwhile or since
\* (ReconcileOne takes the provider's state without the state machine).
ReconcileRepairs ==
  calm /\ due = {} =>
    \A s \in Sub :
      truth[s] # None => subs[s] # None /\ ~drifted(subs[s], truth[s])
===========================================================================
