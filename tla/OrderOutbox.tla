---------------------------- MODULE OrderOutbox ----------------------------
(***************************************************************************)
(* The order placement saga of microservice/order: OrderService.Place      *)
(* writes an order and its first outbox event in one transaction, and any  *)
(* number of Dispatcher workers claim due events under a lease, call the   *)
(* margin or the exchange gateway outside the store's lock, and settle the *)
(* event in a transaction conditional on the lease token.                  *)
(*                                                                         *)
(* Every MemoryStore method runs under one mutex on a cloned state, so it  *)
(* is one atomic step here; between two steps of a worker anything may     *)
(* happen, its own lease running out included.                             *)
(***************************************************************************)
EXTENDS Integers, Sequences, FiniteSets

CONSTANTS
  Worker,       \* processes that run DispatchOnce
  Key,          \* (account, idempotency key) pairs
  Hash,         \* request fingerprints
  MaxOrders,    \* bound: orders placed
  MaxEvents,    \* bound: outbox events created
  MaxAttempts,  \* RetryPolicy.MaxAttempts
  Delay,        \* RetryPolicy.delay, attempt -> duration
  LeaseFor,     \* Dispatcher.leaseFor
  BatchLimit,   \* the limit given to DispatchOnce
  MaxNow,       \* bound: clock readings
  MaxStops,     \* bound: workers that crash or abort a batch
  MaxOverruns   \* bound: leases that run out under a live worker

ASSUME BoundsAssumption ==
  /\ MaxOrders \in Nat /\ MaxEvents \in Nat /\ MaxNow \in Nat
  /\ MaxStops \in Nat /\ MaxOverruns \in Nat
ASSUME PolicyAssumption ==
  /\ MaxAttempts \in Nat \ {0}
  /\ Delay \in [1..MaxAttempts -> Nat]
  /\ LeaseFor \in Nat
  /\ BatchLimit \in Nat \ {0}

VARIABLES
  orders,         \* memoryState.orders; an order's id is its index
  byIdempotency,  \* memoryState.byIdempotency, 0 where there is no entry
  events,         \* memoryState.events; an event's id is its index
  hold,           \* margin service: what it did for each operation id
  exchange,       \* exchange: what it answered for each operation id
  batch,          \* each worker's claimed events not yet settled
  reply,          \* each worker's answer from the gateway for Head(batch)
  now,            \* the clock
  stops,          \* crashes so far
  overruns        \* leases that ran out under a live worker so far

store   == <<orders, byIdempotency, events>>
remote  == <<hold, exchange>>
faults  == <<stops, overruns>>
vars    == <<orders, byIdempotency, events, hold, exchange, batch, reply,
             now, stops, overruns>>

----------------------------------------------------------------------------
(* Data.                                                                   *)

OrderID == 1..MaxOrders
EventID == 1..MaxEvents

OrderStatus == {"PENDING_MARGIN", "PENDING_ROUTE", "ACCEPTED", "REJECTED",
                "RECONCILIATION_REQUIRED"}
MarginState == {"NONE", "RESERVED", "RELEASE_PENDING", "RELEASED"}
EventKind   == {"ReserveMargin", "RouteExchange", "ReleaseMargin"}
EventState  == {"PENDING", "RETRY", "PROCESSING", "DELIVERED", "DEAD"}

\* reservation is the operation id the margin service reserved under, 0 for
\* the empty ReservationID.
Order == [key: Key, hash: Hash, status: OrderStatus, margin: MarginState,
          reservation: EventID \cup {0}]

\* token counts the claims of the event: each claim's token is fresh, as
\* newID makes it.  The code clears it on settling, which the state leaving
\* PROCESSING says already.
OutboxEvent == [order: OrderID, kind: EventKind, state: EventState,
                attempts: 0..MaxAttempts, availableAt: Nat,
                token: Nat, leaseUntil: Nat]

\* What a worker keeps of an event it claimed.
Claim == [event: EventID, token: Nat, attempts: 0..MaxAttempts,
          leaseUntil: Nat]

HoldState     == {"none", "held", "declined", "released"}
ExchangeState == {"none", "accepted", "rejected"}
Reply         == {"none", "yes", "no", "transient", "permanent"}

TypeOK ==
  /\ orders \in Seq(Order) /\ Len(orders) <= MaxOrders
  /\ byIdempotency \in [Key -> OrderID \cup {0}]
  /\ events \in Seq(OutboxEvent) /\ Len(events) <= MaxEvents
  /\ hold \in [EventID -> HoldState]
  /\ exchange \in [EventID -> ExchangeState]
  /\ batch \in [Worker -> Seq(Claim)]
  /\ reply \in [Worker -> Reply]
  /\ now \in 0..MaxNow
  /\ stops \in 0..MaxStops
  /\ overruns \in 0..MaxOverruns

Init ==
  /\ orders = <<>>
  /\ byIdempotency = [k \in Key |-> 0]
  /\ events = <<>>
  /\ hold = [e \in EventID |-> "none"]
  /\ exchange = [e \in EventID |-> "none"]
  /\ batch = [w \in Worker |-> <<>>]
  /\ reply = [w \in Worker |-> "none"]
  /\ now = 0 /\ stops = 0 /\ overruns = 0

----------------------------------------------------------------------------
(* OrderService.                                                           *)

\* Tx.Enqueue: a PENDING event of order o, due at once.
NewEvent(o, kind) ==
  [order |-> o, kind |-> kind, state |-> "PENDING", attempts |-> 0,
   availableAt |-> now, token |-> 0, leaseUntil |-> 0]

NewOrder(k, h) ==
  [key |-> k, hash |-> h, status |-> "PENDING_MARGIN", margin |-> "NONE",
   reservation |-> 0]

\* Mutant: PutOrder forgets the idempotency index.
Place_NoIndex(k, h) ==
  /\ byIdempotency[k] = 0
  /\ Len(orders) < MaxOrders /\ Len(events) < MaxEvents
  /\ orders' = Append(orders, NewOrder(k, h))
  /\ events' = Append(events, NewEvent(Len(orders) + 1, "ReserveMargin"))
  /\ UNCHANGED <<byIdempotency, remote, batch, reply, now, faults>>

\* A request that finds no order under its key.  A replay (same hash) and a
\* conflict (another hash) leave the store as it is.
Place(k, h) ==
  /\ byIdempotency[k] = 0
  /\ Len(orders) < MaxOrders /\ Len(events) < MaxEvents
  /\ orders' = Append(orders, NewOrder(k, h))
  /\ byIdempotency' = [byIdempotency EXCEPT ![k] = Len(orders) + 1]
  /\ events' = Append(events, NewEvent(Len(orders) + 1, "ReserveMargin"))
  /\ UNCHANGED <<remote, batch, reply, now, faults>>

----------------------------------------------------------------------------
(* Dispatcher: claiming.                                                   *)

\* Mutant: a PROCESSING event is due whatever its lease.
Due_IgnoresLease ==
  {e \in DOMAIN events : /\ events[e].state \notin {"DELIVERED", "DEAD"}
                         /\ events[e].availableAt <= now}

\* Mutant: an expired lease is never taken over.
Due_NoTakeover ==
  {e \in DOMAIN events : /\ events[e].state \in {"PENDING", "RETRY"}
                         /\ events[e].availableAt <= now}

Due ==
  {e \in DOMAIN events :
     \/ /\ events[e].state \in {"PENDING", "RETRY"}
        /\ events[e].availableAt <= now
     \/ /\ events[e].state = "PROCESSING"
        /\ events[e].leaseUntil <= now}

\* The first BatchLimit due events by AvailableAt.  Ties are broken by the
\* random event id, hence in any way.
Batches ==
  LET n == IF Cardinality(Due) < BatchLimit THEN Cardinality(Due)
                                            ELSE BatchLimit
      at(e) == events[e].availableAt
  IN  {s \in [1..n -> Due] :
         /\ \A i, j \in 1..n : i < j => s[i] # s[j] /\ at(s[i]) <= at(s[j])
         /\ \A e \in Due \ {s[i] : i \in 1..n} :
              \A i \in 1..n : at(s[i]) <= at(e)}

Leased(event) ==
  [event EXCEPT !.state = "PROCESSING", !.token = event.token + 1,
                !.leaseUntil = now + LeaseFor]

\* DispatchOnce with no events left of its previous batch: MemoryStore.ClaimDue.
ClaimDue(w) ==
  /\ batch[w] = <<>>
  /\ Due # {}
  /\ \E s \in Batches :
       /\ events' = [e \in DOMAIN events |->
                       IF \E i \in DOMAIN s : s[i] = e THEN Leased(events[e])
                                                       ELSE events[e]]
       /\ batch' = [batch EXCEPT ![w] =
                      [i \in DOMAIN s |->
                         [event |-> s[i], token |-> events[s[i]].token + 1,
                          attempts |-> events[s[i]].attempts,
                          leaseUntil |-> now + LeaseFor]]]
  /\ UNCHANGED <<orders, byIdempotency, remote, reply, now, faults>>

----------------------------------------------------------------------------
(* Dispatcher: the gateway calls.  The services remember the outcome of an *)
(* operation id and repeat it; an error says nothing about whether the     *)
(* operation was carried out.                                              *)

Delivering(w) == batch[w] # <<>>
Current(w)    == Head(batch[w])
EventOf(w)    == events[Current(w).event]
OrderOf(w)    == orders[EventOf(w).order]

Calling(w, kind) ==
  Delivering(w) /\ reply[w] = "none" /\ EventOf(w).kind = kind

Errors == {"transient", "permanent"}

\* MarginGateway.Reserve(order, event.ID).
CallReserve(w) ==
  /\ Calling(w, "ReserveMargin")
  /\ LET e == Current(w).event IN
     \E d \in IF hold[e] = "none" THEN {"none", "held", "declined"}
                                  ELSE {hold[e]} :
       /\ hold' = [hold EXCEPT ![e] = d]
       /\ \E r \in Errors \cup (CASE d = "none"     -> {}
                                  [] d = "declined" -> {"no"}
                                  [] OTHER          -> {"yes"}) :
            reply' = [reply EXCEPT ![w] = r]
  /\ UNCHANGED <<store, exchange, batch, now, faults>>

\* ExchangeGateway.Route(order, event.ID).
CallRoute(w) ==
  /\ Calling(w, "RouteExchange")
  /\ LET e == Current(w).event IN
     \E d \in IF exchange[e] = "none" THEN ExchangeState
                                      ELSE {exchange[e]} :
       /\ exchange' = [exchange EXCEPT ![e] = d]
       /\ \E r \in Errors \cup (CASE d = "none"     -> {}
                                  [] d = "rejected" -> {"no"}
                                  [] d = "accepted" -> {"yes"}) :
            reply' = [reply EXCEPT ![w] = r]
  /\ UNCHANGED <<store, hold, batch, now, faults>>

\* MarginGateway.Release(order.ReservationID, event.ID).
CallRelease(w) ==
  /\ Calling(w, "ReleaseMargin")
  /\ LET r == OrderOf(w).reservation IN
     \E done \in {TRUE, FALSE} :
       /\ hold' = IF done THEN [hold EXCEPT ![r] = "released"] ELSE hold
       /\ \E a \in Errors \cup (IF done THEN {"yes"} ELSE {}) :
            reply' = [reply EXCEPT ![w] = a]
  /\ UNCHANGED <<store, exchange, batch, now, faults>>

----------------------------------------------------------------------------
(* Dispatcher: settling the event under its lease.                         *)

\* Mutant: the lease token is not compared.
HoldsLease_Unchecked(w) == Delivering(w)

HoldsLease(w) ==
  EventOf(w).state = "PROCESSING" /\ EventOf(w).token = Current(w).token

Answered(w, kind, r) ==
  Delivering(w) /\ EventOf(w).kind = kind /\ reply[w] = r

\* deliver returns and DispatchOnce goes on to the next event of the batch.
NextInBatch(w) ==
  /\ batch' = [batch EXCEPT ![w] = Tail(@)]
  /\ reply' = [reply EXCEPT ![w] = "none"]

\* ErrLeaseLost from Finalize, Retry or Abandon: nothing is written.
LeaseLost(w) ==
  /\ Delivering(w) /\ reply[w] # "none"
  /\ ~HoldsLease(w)
  /\ NextInBatch(w)
  /\ UNCHANGED <<store, remote, now, faults>>

\* What Finalize, Retry and Abandon make of the event.
Delivered(event) ==
  [event EXCEPT !.state = "DELIVERED", !.leaseUntil = 0]

Retried(event, at) ==
  [event EXCEPT !.state = "RETRY", !.leaseUntil = 0,
                !.attempts = event.attempts + 1, !.availableAt = at]

Dead(event) ==
  [event EXCEPT !.state = "DEAD", !.leaseUntil = 0,
                !.attempts = event.attempts + 1]

\* Store.Finalize: the order as `current' makes it, its successor events and
\* the DELIVERED event in one transaction.
Finalize(w, current, successors) ==
  /\ HoldsLease(w)
  /\ Len(events) + Len(successors) <= MaxEvents
  /\ orders' = [orders EXCEPT ![EventOf(w).order] = current]
  /\ events' = [events EXCEPT ![Current(w).event] =
                  Delivered(EventOf(w))]
               \o successors
  /\ NextInBatch(w)
  /\ UNCHANGED <<byIdempotency, remote, now, faults>>

\* Mutant: a declined reservation is routed as well.
ReserveApproved_Always(w) ==
  /\ Delivering(w) /\ EventOf(w).kind = "ReserveMargin"
  /\ reply[w] \in {"yes", "no"}
  /\ Finalize(w,
       [OrderOf(w) EXCEPT !.status = "PENDING_ROUTE", !.margin = "RESERVED",
                          !.reservation = Current(w).event],
       <<NewEvent(EventOf(w).order, "RouteExchange")>>)

ReserveApproved(w) ==
  /\ Answered(w, "ReserveMargin", "yes")
  /\ Finalize(w,
       [OrderOf(w) EXCEPT !.status = "PENDING_ROUTE", !.margin = "RESERVED",
                          !.reservation = Current(w).event],
       <<NewEvent(EventOf(w).order, "RouteExchange")>>)

\* Mutant: an error counts as a refusal.
ReserveDeclined_OnError(w) ==
  /\ Delivering(w) /\ EventOf(w).kind = "ReserveMargin"
  /\ reply[w] \in {"no", "permanent"}
  /\ Finalize(w, [OrderOf(w) EXCEPT !.status = "REJECTED"], <<>>)

ReserveDeclined(w) ==
  /\ Answered(w, "ReserveMargin", "no")
  /\ Finalize(w, [OrderOf(w) EXCEPT !.status = "REJECTED"], <<>>)

RouteAccepted(w) ==
  /\ Answered(w, "RouteExchange", "yes")
  /\ Finalize(w, [OrderOf(w) EXCEPT !.status = "ACCEPTED"], <<>>)

\* Mutant: an error counts as a rejection, and is compensated.
RouteRejected_OnError(w) ==
  /\ Delivering(w) /\ EventOf(w).kind = "RouteExchange"
  /\ reply[w] \in {"no", "permanent"}
  /\ Finalize(w,
       [OrderOf(w) EXCEPT !.status = "REJECTED", !.margin = "RELEASE_PENDING"],
       <<NewEvent(EventOf(w).order, "ReleaseMargin")>>)

RouteRejected(w) ==
  /\ Answered(w, "RouteExchange", "no")
  /\ Finalize(w,
       [OrderOf(w) EXCEPT !.status = "REJECTED", !.margin = "RELEASE_PENDING"],
       <<NewEvent(EventOf(w).order, "ReleaseMargin")>>)

ReleaseDone(w) ==
  /\ Answered(w, "ReleaseMargin", "yes")
  /\ Finalize(w, [OrderOf(w) EXCEPT !.margin = "RELEASED"], <<>>)

\* handleRemoteError: a permanent error, or a transient one that uses up the
\* attempts, abandons the event; any other transient error schedules a retry.
GivesUp(w) ==
  \/ reply[w] = "permanent"
  \/ reply[w] = "transient" /\ Current(w).attempts + 1 >= MaxAttempts

\* Store.Retry, after RetryPolicy.delay(event.Attempts+1).
Retry(w) ==
  /\ Delivering(w) /\ reply[w] = "transient" /\ ~GivesUp(w)
  /\ HoldsLease(w)
  /\ events' = [events EXCEPT ![Current(w).event] =
                  Retried(EventOf(w), now + Delay[Current(w).attempts + 1])]
  /\ NextInBatch(w)
  /\ UNCHANGED <<orders, byIdempotency, remote, now, faults>>

\* Mutant: giving up starts the compensation.
Abandon_Compensates(w) ==
  /\ Delivering(w) /\ GivesUp(w)
  /\ HoldsLease(w)
  /\ orders' = [orders EXCEPT ![EventOf(w).order] =
                  [OrderOf(w) EXCEPT
                     !.status = "RECONCILIATION_REQUIRED",
                     !.margin = IF @ = "RESERVED" THEN "RELEASE_PENDING"
                                                  ELSE @]]
  /\ events' = [events EXCEPT ![Current(w).event] =
                  Dead(EventOf(w))]
  /\ NextInBatch(w)
  /\ UNCHANGED <<byIdempotency, remote, now, faults>>

\* Dispatcher.abandon: the outcome is unknown, so nothing is compensated.
Abandon(w) ==
  /\ Delivering(w) /\ GivesUp(w)
  /\ HoldsLease(w)
  /\ orders' = [orders EXCEPT ![EventOf(w).order] =
                  [OrderOf(w) EXCEPT !.status = "RECONCILIATION_REQUIRED"]]
  /\ events' = [events EXCEPT ![Current(w).event] =
                  Dead(EventOf(w))]
  /\ NextInBatch(w)
  /\ UNCHANGED <<byIdempotency, remote, now, faults>>

\* The process dies, its context is cancelled or a store call fails: the rest
\* of the batch is dropped and stays PROCESSING until its lease runs out.
Stop(w) ==
  /\ Delivering(w)
  /\ stops < MaxStops
  /\ stops' = stops + 1
  /\ batch' = [batch EXCEPT ![w] = <<>>]
  /\ reply' = [reply EXCEPT ![w] = "none"]
  /\ UNCHANGED <<store, remote, now, overruns>>

----------------------------------------------------------------------------
(* Time.                                                                   *)

\* Readings of the clock matter only while some event waits for one.
Waiting(e) ==
  \/ events[e].state \in {"PENDING", "RETRY"} /\ events[e].availableAt > now
  \/ events[e].state = "PROCESSING" /\ events[e].leaseUntil > now

\* The claims that lapse when the clock moves on while their worker lives.
Overrunning ==
  \E w \in Worker : \E i \in DOMAIN batch[w] :
    batch[w][i].leaseUntil = now + 1

Tick ==
  /\ now < MaxNow
  /\ \E e \in DOMAIN events : Waiting(e)
  /\ now' = now + 1
  /\ IF Overrunning THEN overruns < MaxOverruns /\ overruns' = overruns + 1
                    ELSE overruns' = overruns
  /\ UNCHANGED <<store, remote, batch, reply, stops>>

----------------------------------------------------------------------------
Call(w) == CallReserve(w) \/ CallRoute(w) \/ CallRelease(w)

Settle(w) ==
  \/ ReserveApproved(w) \/ ReserveDeclined(w)
  \/ RouteAccepted(w) \/ RouteRejected(w)
  \/ ReleaseDone(w)
  \/ Retry(w) \/ Abandon(w) \/ LeaseLost(w)

Next ==
  \/ \E k \in Key, h \in Hash : Place(k, h)
  \/ \E w \in Worker : ClaimDue(w) \/ Call(w) \/ Settle(w) \/ Stop(w)
  \/ Tick

Spec == Init /\ [][Next]_vars

\* Each worker polls DispatchOnce in a loop, its gateway calls return (they
\* carry a context), and time passes.
Fairness ==
  /\ \A w \in Worker : WF_vars(ClaimDue(w)) /\ WF_vars(Call(w))
                       /\ WF_vars(Settle(w))
  /\ WF_vars(Tick)

FairSpec == Spec /\ Fairness
----------------------------------------------------------------------------
(* Properties.                                                             *)

OpsOf(o, kind) ==
  {e \in DOMAIN events : events[e].order = o /\ events[e].kind = kind}

\* An idempotency key has at most one order, and the index leads a replay to
\* it (Place under the unique (account, key) index).
OneOrderPerKey ==
  /\ \A i, j \in DOMAIN orders : orders[i].key = orders[j].key => i = j
  /\ \A k \in Key : byIdempotency[k] # 0 =>
       /\ byIdempotency[k] \in DOMAIN orders
       /\ orders[byIdempotency[k]].key = k

\* However often an event is claimed, an order's saga stays linear: one event
\* of each kind at most, and at most one of them still open (Finalize commits
\* the successor and the DELIVERED mark together, under the lease token).
SagaIsLinear ==
  \A e, f \in DOMAIN events : events[e].order = events[f].order /\ e # f =>
    /\ events[e].kind # events[f].kind
    /\ events[e].state \in {"DELIVERED", "DEAD"}
       \/ events[f].state \in {"DELIVERED", "DEAD"}

\* Two workers never both hold an unexpired lease of one event: the claim of
\* a PROCESSING event waits for LeaseUntil (ClaimDue).
LeaseIsExclusive ==
  \A v, w \in Worker : \A i \in DOMAIN batch[v], j \in DOMAIN batch[w] :
    /\ batch[v][i].event = batch[w][j].event
    /\ batch[v][i].leaseUntil > now
    /\ batch[w][j].leaseUntil > now
    => v = w /\ i = j

\* Margin is released only for an order the exchange has definitively
\* rejected, never for one it has accepted or may still accept: retries, late
\* answers and abandoned calls do not compensate (abandon, route).
CompensationIsSafe ==
  \A r \in DOMAIN events : hold[r] = "released" =>
    LET routes == OpsOf(events[r].order, "RouteExchange")
    IN  routes # {} /\ \A x \in routes : exchange[x] = "rejected"

\* An order that is live at the exchange is backed by exactly one margin
\* reservation, still held.
AcceptedIsBacked ==
  \A x \in DOMAIN events : exchange[x] = "accepted" =>
    \E r \in OpsOf(events[x].order, "ReserveMargin") :
      /\ hold[r] = "held"
      /\ \A q \in OpsOf(events[x].order, "ReserveMargin") :
           hold[q] = "held" => q = r

\* What the order record says was really decided by the services: an order is
\* ACCEPTED, REJECTED or RELEASED only on the answer of the service itself.
LocalFollowsRemote ==
  \A o \in DOMAIN orders :
    /\ orders[o].status = "ACCEPTED" =>
         \E x \in OpsOf(o, "RouteExchange") : exchange[x] = "accepted"
    /\ orders[o].status = "REJECTED" /\ orders[o].margin = "NONE" =>
         \E r \in OpsOf(o, "ReserveMargin") : hold[r] = "declined"
    /\ orders[o].margin = "RESERVED" => hold[orders[o].reservation] = "held"
    /\ orders[o].margin = "RELEASED" =>
         hold[orders[o].reservation] = "released"

\* The outcome of an order that needs no further event.
Settled(o) ==
  \/ orders[o].status \in {"ACCEPTED", "RECONCILIATION_REQUIRED"}
  \/ orders[o].status = "REJECTED" /\ orders[o].margin \in {"NONE", "RELEASED"}

\* A settled order is never changed again, not even by a worker that wakes up
\* long after its lease was lost.
SettledIsFinal ==
  [][\A o \in DOMAIN orders : Settled(o) => orders'[o] = orders[o]]_vars

\* Every order placed is settled in the end, whatever calls fail and whichever
\* workers crash or overrun their leases, once they stop doing so.
OrdersSettle ==
  \A o \in OrderID : o \in DOMAIN orders ~> o \in DOMAIN orders /\ Settled(o)

----------------------------------------------------------------------------
(* The inductive invariant behind the safety properties.                   *)

\* The index holds every order under its key.
KeysInv ==
  /\ \A o \in DOMAIN orders : byIdempotency[orders[o].key] = o
  /\ \A k \in Key : byIdempotency[k] # 0 =>
       /\ byIdempotency[k] \in DOMAIN orders
       /\ orders[byIdempotency[k]].key = k

\* A claim that carries the event's current token agrees with the event; an
\* unexpired claim carries it.
ClaimFits(c) ==
  /\ c.event \in DOMAIN events
  /\ c.token <= events[c.event].token
  /\ c.leaseUntil > now => c.token = events[c.event].token
  /\ c.token = events[c.event].token =>
       /\ events[c.event].state = "PROCESSING"
       /\ c.leaseUntil = events[c.event].leaseUntil
       /\ c.attempts = events[c.event].attempts

SameClaim(c, d) == c.event = d.event /\ c.token = d.token

AttemptsInv ==
  \A e \in DOMAIN events :
    events[e].state # "DEAD" => events[e].attempts < MaxAttempts

ClaimsInv ==
  /\ \A w \in Worker : \A i \in DOMAIN batch[w] : ClaimFits(batch[w][i])
  /\ \A v, w \in Worker : \A i \in DOMAIN batch[v], j \in DOMAIN batch[w] :
       SameClaim(batch[v][i], batch[w][j]) => v = w /\ i = j

Open(e) == events[e].state \in {"PENDING", "RETRY", "PROCESSING"}

OrderIs(e, status, margin) ==
  /\ orders[events[e].order].status = status
  /\ orders[events[e].order].margin = margin

\* How far an order is, event by event: an open event is the next step of its
\* order, a DEAD one has it under reconciliation, a DELIVERED one has left its
\* result in the order and in the services.
ReserveFits(e) ==
  /\ Open(e) => OrderIs(e, "PENDING_MARGIN", "NONE")
  /\ events[e].state = "DEAD" => OrderIs(e, "RECONCILIATION_REQUIRED", "NONE")
  /\ events[e].state = "DELIVERED" =>
       \/ OrderIs(e, "REJECTED", "NONE") /\ hold[e] = "declined"
       \/ /\ orders[events[e].order].margin # "NONE"
          /\ orders[events[e].order].reservation = e

RouteFits(e) ==
  /\ Open(e) => OrderIs(e, "PENDING_ROUTE", "RESERVED")
  /\ events[e].state = "DEAD" =>
       OrderIs(e, "RECONCILIATION_REQUIRED", "RESERVED")
  /\ events[e].state = "DELIVERED" =>
       \/ OrderIs(e, "ACCEPTED", "RESERVED") /\ exchange[e] = "accepted"
       \/ /\ orders[events[e].order].margin \in {"RELEASE_PENDING", "RELEASED"}
          /\ exchange[e] = "rejected"

ReleaseFits(e) ==
  /\ Open(e) => OrderIs(e, "REJECTED", "RELEASE_PENDING")
  /\ events[e].state = "DEAD" =>
       OrderIs(e, "RECONCILIATION_REQUIRED", "RELEASE_PENDING")
  /\ events[e].state = "DELIVERED" =>
       /\ OrderIs(e, "REJECTED", "RELEASED")
       /\ hold[orders[events[e].order].reservation] = "released"

EventFits(e) ==
  /\ events[e].order \in DOMAIN orders
  /\ events[e].kind = "ReserveMargin" => ReserveFits(e)
  /\ events[e].kind = "RouteExchange" => RouteFits(e)
  /\ events[e].kind = "ReleaseMargin" => ReleaseFits(e)

EventsInv ==
  /\ \A e, f \in DOMAIN events :
       events[e].order = events[f].order /\ events[e].kind = events[f].kind
       => e = f
  /\ \A e \in DOMAIN events : EventFits(e)

\* What an order has reached was reached by events of its own.
OrderFits(o) ==
  /\ \E e \in DOMAIN events :
       events[e].order = o /\ events[e].kind = "ReserveMargin"
  /\ orders[o].margin # "NONE" =>
       LET r == orders[o].reservation IN
       /\ r \in DOMAIN events
       /\ events[r].order = o /\ events[r].kind = "ReserveMargin"
       /\ events[r].state = "DELIVERED"
       /\ hold[r] \in {"held", "released"}
       /\ hold[r] = "released" =>
            orders[o].margin \in {"RELEASE_PENDING", "RELEASED"}
       /\ \E x \in DOMAIN events :
            events[x].order = o /\ events[x].kind = "RouteExchange"
  /\ orders[o].margin \in {"RELEASE_PENDING", "RELEASED"} =>
       \E x \in DOMAIN events :
         /\ events[x].order = o /\ events[x].kind = "RouteExchange"
         /\ exchange[x] = "rejected"
  /\ orders[o].status = "ACCEPTED" => orders[o].margin = "RESERVED"
  /\ orders[o].margin = "RELEASED" =>
       hold[orders[o].reservation] = "released"

OrdersInv == \A o \in DOMAIN orders : OrderFits(o)

\* The services decide for operations of the right kind only.
ServicesInv ==
  \A e \in EventID :
    /\ hold[e] # "none" =>
         e \in DOMAIN events /\ events[e].kind = "ReserveMargin"
    /\ exchange[e] # "none" =>
         e \in DOMAIN events /\ events[e].kind = "RouteExchange"
    /\ hold[e] = "released" => orders[events[e].order].margin # "NONE"

\* A definite answer in a worker's hands is what the service decided.
ReplyFits(e, r) ==
  /\ events[e].kind = "ReserveMargin" =>
       /\ r = "yes" => hold[e] \in {"held", "released"}
       /\ r = "no" => hold[e] = "declined"
  /\ events[e].kind = "RouteExchange" =>
       /\ r = "yes" => exchange[e] = "accepted"
       /\ r = "no" => exchange[e] = "rejected"
  /\ events[e].kind = "ReleaseMargin" /\ r = "yes" =>
       hold[orders[events[e].order].reservation] = "released"

RepliesInv ==
  \A w \in Worker : reply[w] # "none" =>
    batch[w] # <<>> /\ ReplyFits(batch[w][1].event, reply[w])

\* Orders, outbox, claims and services agree in every state the dispatcher
\* and the services can reach.
IndInv ==
  /\ TypeOK /\ KeysInv /\ AttemptsInv /\ ClaimsInv /\ EventsInv /\ OrdersInv
  /\ ServicesInv /\ RepliesInv

----------------------------------------------------------------------------
(* The saga this outbox implements.                                        *)

\* The outcome of the operations of one kind for order o, under whichever
\* operation id the service decided.
Outcome(o, kind, decided) ==
  IF \E e \in OpsOf(o, kind) : decided[e] # "none"
  THEN decided[CHOOSE e \in OpsOf(o, kind) : decided[e] # "none"]
  ELSE "none"

SagaOrder ==
  [o \in OrderID |->
     IF o \in DOMAIN orders
     THEN [status |-> orders[o].status, margin |-> orders[o].margin]
     ELSE [status |-> "ABSENT", margin |-> "NONE"]]

SagaHold     == [o \in OrderID |-> Outcome(o, "ReserveMargin", hold)]
SagaExchange == [o \in OrderID |-> Outcome(o, "RouteExchange", exchange)]

Saga == INSTANCE OrderSaga WITH
  order <- SagaOrder, hold <- SagaHold, exchange <- SagaExchange

\* The outbox with its leases, retries, late workers and crashes carries out
\* the saga of OrderSaga, and nothing else.
ImplementsSaga == Saga!Spec
============================================================================
