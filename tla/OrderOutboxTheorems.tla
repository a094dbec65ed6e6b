------------------------ MODULE OrderOutboxTheorems ------------------------
(* What the invariant of OrderOutboxProofs gives: the safety properties of *)
(* OrderOutbox, for any workers, keys, bounds and retry policy.            *)
EXTENDS OrderOutboxProofs

\* The type invariant.
THEOREM TypeCorrect == Spec => []TypeOK
<1>1. IndInv => TypeOK
  BY DEF IndInv
<1> QED
  BY <1>1, Agreement, PTL

\* One order per idempotency key, and the index leads to it (Place).
THEOREM OneOrderPerKeyHolds == Spec => []OneOrderPerKey
<1>1. IndInv => OneOrderPerKey
  BY DEF IndInv, KeysInv, OneOrderPerKey
<1> QED
  BY <1>1, Agreement, PTL

\* However often an event is claimed and delivered, an order has one event of
\* each kind and one open event at most (Finalize under the lease token).
THEOREM SagaIsLinearHolds == Spec => []SagaIsLinear
<1>1. IndInv => SagaIsLinear
  <2> SUFFICES ASSUME IndInv, NEW e \in DOMAIN events, NEW f \in DOMAIN events,
                      events[e].order = events[f].order, e # f
               PROVE  /\ events[e].kind # events[f].kind
                      /\ events[e].state \in {"DELIVERED", "DEAD"}
                         \/ events[f].state \in {"DELIVERED", "DEAD"}
    BY DEF SagaIsLinear
  <2>1. events[e].kind # events[f].kind
    BY DEF IndInv, EventsInv
  <2>2. /\ EventFits(e) /\ EventFits(f)
        /\ events[e] \in OutboxEvent /\ events[f] \in OutboxEvent
    BY Elements DEF IndInv, EventsInv
  <2>3. ~(Open(e) /\ Open(f))
    BY <2>1, <2>2 DEF EventFits, ReserveFits, RouteFits, ReleaseFits, OrderIs,
       OutboxEvent, EventKind
  <2> QED
    BY <2>1, <2>2, <2>3 DEF Open, OutboxEvent, EventState
<1> QED
  BY <1>1, Agreement, PTL

\* No event is under two unexpired leases (ClaimDue).
THEOREM LeaseIsExclusiveHolds == Spec => []LeaseIsExclusive
<1>1. IndInv => LeaseIsExclusive
  <2> SUFFICES ASSUME IndInv, NEW v \in Worker, NEW w \in Worker,
                      NEW i \in DOMAIN batch[v], NEW j \in DOMAIN batch[w],
                      batch[v][i].event = batch[w][j].event,
                      batch[v][i].leaseUntil > now,
                      batch[w][j].leaseUntil > now
               PROVE  v = w /\ i = j
    BY DEF LeaseIsExclusive
  <2>1. ClaimFits(batch[v][i]) /\ ClaimFits(batch[w][j])
    BY DEF IndInv, ClaimsInv
  <2>2. SameClaim(batch[v][i], batch[w][j])
    BY <2>1 DEF ClaimFits, SameClaim
  <2> QED
    BY <2>2 DEF IndInv, ClaimsInv
<1> QED
  BY <1>1, Agreement, PTL

\* The reservation of an order that reached the exchange.
LEMMA Reserved ==
  ASSUME IndInv, NEW x \in DOMAIN events, events[x].kind = "RouteExchange"
  PROVE  LET o == events[x].order
             r == orders[o].reservation
         IN  /\ o \in DOMAIN orders /\ r \in OpsOf(o, "ReserveMargin")
             /\ hold[r] \in {"held", "released"}
             /\ hold[r] = "released" =>
                  orders[o].margin \in {"RELEASE_PENDING", "RELEASED"}
             /\ \A q \in OpsOf(o, "ReserveMargin") : q = r
<1> DEFINE o == events[x].order
           r == orders[o].reservation
<1>1. EventFits(x) /\ events[x] \in OutboxEvent
  BY Elements DEF IndInv, EventsInv
<1>2. o \in DOMAIN orders /\ orders[o].margin # "NONE"
  BY <1>1 DEF EventFits, RouteFits, Open, OrderIs, OutboxEvent, EventState
<1>3. OrderFits(o)
  BY <1>2 DEF IndInv, OrdersInv
<1>4. /\ r \in DOMAIN events /\ events[r].order = o
      /\ events[r].kind = "ReserveMargin" /\ hold[r] \in {"held", "released"}
      /\ hold[r] = "released" =>
           orders[o].margin \in {"RELEASE_PENDING", "RELEASED"}
  BY <1>2, <1>3 DEF OrderFits
<1>5. \A q \in OpsOf(o, "ReserveMargin") : q = r
  BY <1>4 DEF OpsOf, IndInv, EventsInv
<1> QED
  BY <1>2, <1>4, <1>5 DEF OpsOf

\* Margin is released only after the exchange definitively rejected the order
\* (route; abandon compensates nothing).
THEOREM CompensationIsSafeHolds == Spec => []CompensationIsSafe
<1>1. IndInv => CompensationIsSafe
  <2> SUFFICES ASSUME IndInv, NEW r \in DOMAIN events, hold[r] = "released"
               PROVE  /\ OpsOf(events[r].order, "RouteExchange") # {}
                      /\ \A x \in OpsOf(events[r].order, "RouteExchange") :
                           exchange[x] = "rejected"
    BY DEF CompensationIsSafe
  <2> DEFINE o == events[r].order
  <2>1. /\ r \in EventID /\ EventFits(r) /\ events[r].kind = "ReserveMargin"
        /\ orders[o].margin # "NONE" /\ events[r] \in OutboxEvent
    BY Elements DEF IndInv, EventsInv, ServicesInv
  <2>2. o \in DOMAIN orders /\ orders[o].reservation = r
    BY <2>1 DEF EventFits, ReserveFits, Open, OrderIs, OutboxEvent, EventState
  <2>3. orders[o].margin \in {"RELEASE_PENDING", "RELEASED"} /\ OrderFits(o)
    BY <2>1, <2>2 DEF IndInv, OrdersInv, OrderFits
  <2>4. PICK x \in DOMAIN events :
          /\ events[x].order = o /\ events[x].kind = "RouteExchange"
          /\ exchange[x] = "rejected"
    BY <2>3 DEF OrderFits
  <2> QED
    BY <2>4 DEF OpsOf, IndInv, EventsInv
<1> QED
  BY <1>1, Agreement, PTL

\* An order live at the exchange is backed by one reservation, still held.
THEOREM AcceptedIsBackedHolds == Spec => []AcceptedIsBacked
<1>1. IndInv => AcceptedIsBacked
  <2> SUFFICES ASSUME IndInv, NEW x \in DOMAIN events, exchange[x] = "accepted"
               PROVE  \E r \in OpsOf(events[x].order, "ReserveMargin") :
                        /\ hold[r] = "held"
                        /\ \A q \in OpsOf(events[x].order, "ReserveMargin") :
                             hold[q] = "held" => q = r
    BY DEF AcceptedIsBacked
  <2> DEFINE o == events[x].order
  <2>1. /\ EventFits(x) /\ events[x].kind = "RouteExchange"
        /\ events[x] \in OutboxEvent
    BY Elements DEF IndInv, EventsInv, ServicesInv
  <2>2. orders[o].margin = "RESERVED"
    BY <2>1 DEF EventFits, RouteFits, Open, OrderIs, OutboxEvent, EventState
  <2> QED
    BY <2>1, <2>2, Reserved
<1> QED
  BY <1>1, Agreement, PTL

\* The order record only says what the services decided.
THEOREM LocalFollowsRemoteHolds == Spec => []LocalFollowsRemote
<1>1. IndInv => LocalFollowsRemote
  <2> SUFFICES ASSUME IndInv, NEW o \in DOMAIN orders
               PROVE  /\ orders[o].status = "ACCEPTED" =>
                           \E x \in OpsOf(o, "RouteExchange") :
                             exchange[x] = "accepted"
                      /\ orders[o].status = "REJECTED"
                         /\ orders[o].margin = "NONE" =>
                           \E r \in OpsOf(o, "ReserveMargin") :
                             hold[r] = "declined"
                      /\ orders[o].margin = "RESERVED" =>
                           hold[orders[o].reservation] = "held"
                      /\ orders[o].margin = "RELEASED" =>
                           hold[orders[o].reservation] = "released"
    BY DEF LocalFollowsRemote
  <2>1. OrderFits(o)
    BY DEF IndInv, OrdersInv
  <2>2. ASSUME orders[o].status = "ACCEPTED"
        PROVE  \E x \in OpsOf(o, "RouteExchange") : exchange[x] = "accepted"
    <3>1. orders[o].margin = "RESERVED"
      BY <2>1, <2>2 DEF OrderFits
    <3>2. PICK x \in DOMAIN events :
            events[x].order = o /\ events[x].kind = "RouteExchange"
      BY <2>1, <3>1 DEF OrderFits
    <3>3. EventFits(x) /\ events[x] \in OutboxEvent
      BY Elements DEF IndInv, EventsInv
    <3>4. exchange[x] = "accepted"
      BY <2>2, <3>1, <3>2, <3>3 DEF EventFits, RouteFits, Open, OrderIs,
         OutboxEvent, EventState
    <3> QED
      BY <3>2, <3>4 DEF OpsOf
  <2>3. ASSUME orders[o].status = "REJECTED", orders[o].margin = "NONE"
        PROVE  \E r \in OpsOf(o, "ReserveMargin") : hold[r] = "declined"
    <3>1. PICK r \in DOMAIN events :
            events[r].order = o /\ events[r].kind = "ReserveMargin"
      BY <2>1 DEF OrderFits
    <3>2. EventFits(r) /\ events[r] \in OutboxEvent
      BY Elements DEF IndInv, EventsInv
    <3>3. hold[r] = "declined"
      BY <2>3, <3>1, <3>2 DEF EventFits, ReserveFits, Open, OrderIs,
         OutboxEvent, EventState
    <3> QED
      BY <3>1, <3>3 DEF OpsOf
  <2> QED
    BY <2>1, <2>2, <2>3 DEF OrderFits
<1> QED
  BY <1>1, Agreement, PTL

----------------------------------------------------------------------------
(* Steps of the store.                                                     *)

\* The worker that writes an order holds the lease of its open event, and
\* writes no other order.
Writes(w, o) ==
  /\ Delivering(w) /\ HoldsLease(w) /\ EventOf(w).order = o
  /\ DOMAIN orders' = DOMAIN orders
  /\ \A p \in DOMAIN orders : p # o => orders'[p] = orders[p]

LEMMA SettleWrites ==
  ASSUME IndInv, NEW w \in Worker, Settle(w)
  PROVE  UNCHANGED orders \/ \E o \in DOMAIN orders : Writes(w, o)
<1>1. orders \in Seq(Order)
  BY DEF IndInv, TypeOK
<1>2. CASE LeaseLost(w) \/ Retry(w)
  BY <1>2 DEF LeaseLost, Retry, store
<1>3. ASSUME Delivering(w), HoldsLease(w), NEW new,
             orders' = [orders EXCEPT ![EventOf(w).order] = new]
      PROVE  \E o \in DOMAIN orders : Writes(w, o)
  <2>1. EventOf(w).order \in DOMAIN orders
    BY <1>3, Held
  <2> QED
    BY <1>1, <1>3, <2>1 DEF Writes
<1>4. CASE Abandon(w)
  BY <1>3, <1>4, Zenon DEF Abandon
<1>5. ASSUME NEW new, NEW succ, Delivering(w), Finalize(w, new, succ)
      PROVE  \E o \in DOMAIN orders : Writes(w, o)
  BY <1>3, <1>5, Zenon DEF Finalize
<1>6. CASE ReserveApproved(w) \/ ReserveDeclined(w)
  BY <1>5, <1>6 DEF ReserveApproved, ReserveDeclined, Answered
<1>7. CASE RouteAccepted(w) \/ RouteRejected(w) \/ ReleaseDone(w)
  BY <1>5, <1>7 DEF RouteAccepted, RouteRejected, ReleaseDone, Answered
<1> QED
  BY <1>2, <1>4, <1>6, <1>7 DEF Settle

\* No step changes a settled order: whoever writes one holds the lease of an
\* open event, and a settled order has none.
THEOREM SettledIsFinalHolds == Spec => SettledIsFinal
<1> DEFINE Kept == \A o \in DOMAIN orders : Settled(o) => orders'[o] = orders[o]
<1>1. ASSUME IndInv, [Next]_vars PROVE [Kept]_vars
  <2> SUFFICES ASSUME NEW o \in DOMAIN orders, Settled(o), Next
               PROVE  orders'[o] = orders[o]
    BY <1>1
  <2>1. CASE Tick
    BY <2>1 DEF Tick, store
  <2>2. ASSUME NEW k \in Key, NEW h \in Hash, Place(k, h)
        PROVE  orders'[o] = orders[o]
    <3>1. orders \in Seq(Order)
      BY <1>1 DEF IndInv, TypeOK
    <3> QED
      BY <2>2, <3>1 DEF Place
  <2>3. ASSUME NEW w \in Worker, ClaimDue(w) \/ Call(w) \/ Stop(w)
        PROVE  orders'[o] = orders[o]
    BY <2>3 DEF ClaimDue, Call, CallReserve, CallRoute, CallRelease, Stop, store
  <2>4. ASSUME NEW w \in Worker, Settle(w)
        PROVE  orders'[o] = orders[o]
    <3>1. CASE UNCHANGED orders
      BY <3>1
    <3>2. ASSUME NEW p \in DOMAIN orders, Writes(w, p)
          PROVE  p # o
      <4>1. /\ Delivering(w) /\ HoldsLease(w) /\ EventOf(w).order = p
        BY <3>2 DEF Writes
      <4>2. /\ EventFits(Current(w).event) /\ Open(Current(w).event)
            /\ EventOf(w) \in OutboxEvent
        BY <1>1, <4>1, Held
      <4>3. ~Settled(p)
        BY <4>1, <4>2 DEF Settled, EventFits, ReserveFits, RouteFits,
           ReleaseFits, OrderIs, EventOf, OutboxEvent, EventKind
      <4> QED
        BY <4>3
    <3> QED
      BY <1>1, <2>4, <3>1, <3>2, SettleWrites DEF Writes
  <2> QED
    BY <2>1, <2>2, <2>3, <2>4 DEF Next
<1> QED
  BY <1>1, Agreement, PTL DEF Spec, SettledIsFinal

----------------------------------------------------------------------------
(* The refinement.                                                         *)

\* What the mapping makes of a state: the services' decision for an order is
\* the one under its only operation of the kind.
Mapped ==
  /\ \A o \in DOMAIN orders :
       SagaOrder[o] = [status |-> orders[o].status,
                       margin |-> orders[o].margin]
  /\ \A o \in OrderID \ DOMAIN orders :
       SagaOrder[o] = [status |-> "ABSENT", margin |-> "NONE"]
  /\ \A e \in DOMAIN events : events[e].kind = "ReserveMargin" =>
       SagaHold[events[e].order] = hold[e]
  /\ \A e \in DOMAIN events : events[e].kind = "RouteExchange" =>
       SagaExchange[events[e].order] = exchange[e]
  /\ \A o \in OrderID : OpsOf(o, "ReserveMargin") = {} =>
       SagaHold[o] = "none"
  /\ \A o \in OrderID : OpsOf(o, "RouteExchange") = {} =>
       SagaExchange[o] = "none"

LEMMA Mapping == IndInv => Mapped
<1> SUFFICES ASSUME IndInv PROVE Mapped
  OBVIOUS
<1>1. \A o \in DOMAIN orders : o \in OrderID
  BY Elements DEF IndInv
<1>2. ASSUME NEW e \in DOMAIN events
      PROVE  /\ events[e].order \in OrderID
             /\ OpsOf(events[e].order, events[e].kind) = {e}
  BY <1>1 DEF IndInv, EventsInv, EventFits, OpsOf
<1>3. ASSUME NEW e \in DOMAIN events, NEW d
      PROVE  Outcome(events[e].order, events[e].kind, d) = d[e]
  <2> DEFINE ops == OpsOf(events[e].order, events[e].kind)
  <2>1. ops = {e}
    BY <1>2, Zenon
  <2>2. CASE d[e] = "none"
    BY <2>1, <2>2 DEF Outcome
  <2>3. CASE d[e] # "none"
    <3>1. (CHOOSE f \in ops : d[f] # "none") = e
      <4>1. \E f : f \in ops /\ d[f] # "none"
        BY <2>1, <2>3
      <4> HIDE DEF ops
      <4>2. (CHOOSE f \in ops : d[f] # "none") \in ops
        BY <4>1
      <4> QED
        BY <2>1, <4>2
    <3>2. \E f \in ops : d[f] # "none"
      BY <2>1, <2>3
    <3> QED
      BY <3>1, <3>2, Zenon DEF Outcome
  <2> QED
    BY <2>2, <2>3
<1>4. ASSUME NEW o, NEW kind, NEW d, OpsOf(o, kind) = {}
      PROVE  Outcome(o, kind, d) = "none"
  BY <1>4 DEF Outcome
<1> QED
  BY <1>1, <1>2, <1>3, <1>4 DEF Mapped, SagaOrder, SagaHold, SagaExchange

\* The mapped variables are functions on the order ids.
LEMMA MappingTypes ==
  /\ SagaOrder = [o \in OrderID |-> SagaOrder[o]]
  /\ SagaHold = [o \in OrderID |-> SagaHold[o]]
  /\ SagaExchange = [o \in OrderID |-> SagaExchange[o]]
  BY DEF SagaOrder, SagaHold, SagaExchange

\* Events keep their order and kind.
EventsStay ==
  /\ DOMAIN events \subseteq DOMAIN events'
  /\ \A e \in DOMAIN events :
       /\ events'[e].order = events[e].order
       /\ events'[e].kind = events[e].kind

\* The services' decisions, seen through the mapping, change only where the
\* services change them.
LEMMA MappedHold ==
  ASSUME IndInv, IndInv', EventsStay, NEW o \in OrderID,
         \A e \in OpsOf(o, "ReserveMargin") : hold'[e] = hold[e],
         \A e \in EventID \ DOMAIN events : hold'[e] = hold[e]
  PROVE  SagaHold'[o] = SagaHold[o]
<1>1. Mapped /\ Mapped'
  BY Mapping, PTL
<1>2. CASE OpsOf(o, "ReserveMargin") # {}
  <2>1. PICK e \in DOMAIN events :
          events[e].order = o /\ events[e].kind = "ReserveMargin"
    BY <1>2 DEF OpsOf
  <2>2. SagaHold[o] = hold[e] /\ hold'[e] = hold[e]
    BY <1>1, <2>1 DEF Mapped, OpsOf
  <2>3. /\ e \in DOMAIN events' /\ events'[e].order = o
        /\ events'[e].kind = "ReserveMargin"
    BY <2>1 DEF EventsStay
  <2> QED
    BY <1>1, <2>2, <2>3 DEF Mapped
<1>3. CASE OpsOf(o, "ReserveMargin") = {}
  <2>1. SagaHold[o] = "none"
    BY <1>1, <1>3 DEF Mapped
  <2>2. CASE OpsOf(o, "ReserveMargin")' = {}
    BY <1>1, <2>1, <2>2 DEF Mapped
  <2>3. CASE OpsOf(o, "ReserveMargin")' # {}
    <3>1. PICK e \in DOMAIN events' :
            events'[e].order = o /\ events'[e].kind = "ReserveMargin"
      BY <2>3 DEF OpsOf
    <3>2. e \notin DOMAIN events
      BY <1>3, <3>1 DEF EventsStay, OpsOf
    <3>3. e \in EventID
      BY <3>1, BoundsAssumption DEF IndInv, TypeOK, EventID
    <3>4. hold[e] = "none"
      BY <3>2, <3>3 DEF IndInv, ServicesInv
    <3> QED
      BY <1>1, <2>1, <3>1, <3>2, <3>3, <3>4 DEF Mapped
  <2> QED
    BY <2>2, <2>3
<1> QED
  BY <1>2, <1>3

LEMMA MappedExchange ==
  ASSUME IndInv, IndInv', EventsStay, NEW o \in OrderID,
         \A e \in OpsOf(o, "RouteExchange") : exchange'[e] = exchange[e],
         \A e \in EventID \ DOMAIN events : exchange'[e] = exchange[e]
  PROVE  SagaExchange'[o] = SagaExchange[o]
<1>1. Mapped /\ Mapped'
  BY Mapping, PTL
<1>2. CASE OpsOf(o, "RouteExchange") # {}
  <2>1. PICK e \in DOMAIN events :
          events[e].order = o /\ events[e].kind = "RouteExchange"
    BY <1>2 DEF OpsOf
  <2>2. SagaExchange[o] = exchange[e] /\ exchange'[e] = exchange[e]
    BY <1>1, <2>1 DEF Mapped, OpsOf
  <2>3. /\ e \in DOMAIN events' /\ events'[e].order = o
        /\ events'[e].kind = "RouteExchange"
    BY <2>1 DEF EventsStay
  <2> QED
    BY <1>1, <2>2, <2>3 DEF Mapped
<1>3. CASE OpsOf(o, "RouteExchange") = {}
  <2>1. SagaExchange[o] = "none"
    BY <1>1, <1>3 DEF Mapped
  <2>2. CASE OpsOf(o, "RouteExchange")' = {}
    BY <1>1, <2>1, <2>2 DEF Mapped
  <2>3. CASE OpsOf(o, "RouteExchange")' # {}
    <3>1. PICK e \in DOMAIN events' :
            events'[e].order = o /\ events'[e].kind = "RouteExchange"
      BY <2>3 DEF OpsOf
    <3>2. e \notin DOMAIN events
      BY <1>3, <3>1 DEF EventsStay, OpsOf
    <3>3. e \in EventID
      BY <3>1, BoundsAssumption DEF IndInv, TypeOK, EventID
    <3>4. exchange[e] = "none"
      BY <3>2, <3>3 DEF IndInv, ServicesInv
    <3> QED
      BY <1>1, <2>1, <3>1, <3>2, <3>3, <3>4 DEF Mapped
  <2> QED
    BY <2>2, <2>3
<1> QED
  BY <1>2, <1>3

\* A step that leaves orders and services alone is a stutter of the saga.
LEMMA MappedFrame ==
  ASSUME IndInv, IndInv', EventsStay, UNCHANGED <<hold, exchange>>
  PROVE  SagaHold' = SagaHold /\ SagaExchange' = SagaExchange
<1>1. \A o \in OrderID : SagaHold'[o] = SagaHold[o]
  BY MappedHold
<1>2. \A o \in OrderID : SagaExchange'[o] = SagaExchange[o]
  BY MappedExchange
<1>3. /\ SagaHold' = [o \in OrderID |-> SagaHold'[o]]
      /\ SagaExchange' = [o \in OrderID |-> SagaExchange'[o]]
  BY DEF SagaHold, SagaExchange
<1> QED
  BY <1>1, <1>2, <1>3, MappingTypes

\* A settlement writes its order, and nothing else of the saga.
LEMMA MappedSettles ==
  ASSUME IndInv, IndInv', NEW w \in Worker, NEW e, NEW o, NEW new,
         Settles(w, e, o, new)
  PROVE  /\ o \in OrderID
         /\ SagaOrder[o] = [status |-> orders[o].status,
                            margin |-> orders[o].margin]
         /\ SagaOrder' = [SagaOrder EXCEPT ![o] =
              [status |-> new.status, margin |-> new.margin]]
         /\ SagaHold' = SagaHold /\ SagaExchange' = SagaExchange
<1>1. /\ o \in DOMAIN orders /\ DOMAIN orders' = DOMAIN orders
      /\ orders'[o] = new
      /\ \A p \in DOMAIN orders : p # o => orders'[p] = orders[p]
  BY SettlesFacts, SettlesOrders
<1>2. o \in OrderID
  BY <1>1, Elements DEF IndInv
<1>3. EventsStay /\ UNCHANGED <<hold, exchange>>
  BY DEF Settles, EventsGrow, EventsStay
<1>4. SagaHold' = SagaHold /\ SagaExchange' = SagaExchange
  BY <1>3, MappedFrame
<1>5. SagaOrder' = [SagaOrder EXCEPT ![o] =
              [status |-> new.status, margin |-> new.margin]]
  BY <1>1, <1>2, Zenon DEF SagaOrder
<1>6. SagaOrder[o] = [status |-> orders[o].status, margin |-> orders[o].margin]
  BY <1>1, <1>2 DEF SagaOrder
<1> QED
  BY <1>2, <1>4, <1>5, <1>6

\* Placing an order.
LEMMA PlaceMaps ==
  ASSUME IndInv, IndInv', NEW k \in Key, NEW h \in Hash, Place(k, h)
  PROVE  \E o \in OrderID : Saga!Place(o)
<1>n. PICK n : n = Len(orders) + 1
  OBVIOUS
<1>1. orders \in Seq(Order) /\ events \in Seq(OutboxEvent)
  BY DEF IndInv, TypeOK
<1>2. /\ orders' = Append(orders, NewOrder(k, h))
      /\ events' = Append(events, NewEvent(n, "ReserveMargin"))
      /\ UNCHANGED <<hold, exchange>> /\ Len(orders) < MaxOrders
  BY <1>n DEF Place, remote
<1>3. /\ n \in OrderID /\ n \notin DOMAIN orders
      /\ DOMAIN orders' = DOMAIN orders \cup {n}
      /\ orders'[n] = NewOrder(k, h)
      /\ \A p \in DOMAIN orders : orders'[p] = orders[p]
  BY <1>n, <1>1, <1>2, BoundsAssumption DEF OrderID
<1>4. EventsStay
  BY <1>1, <1>2 DEF EventsStay
<1>5. SagaHold' = SagaHold /\ SagaExchange' = SagaExchange
  BY <1>2, <1>4, MappedFrame
<1>6. SagaOrder[n] = [status |-> "ABSENT", margin |-> "NONE"]
  BY <1>3 DEF SagaOrder
<1>7. orders'[n].status = "PENDING_MARGIN" /\ orders'[n].margin = "NONE"
  BY <1>3 DEF NewOrder
<1>8. SagaOrder' = [SagaOrder EXCEPT ![n] =
        [status |-> "PENDING_MARGIN", margin |-> "NONE"]]
  BY <1>3, <1>7, Zenon DEF SagaOrder
<1> QED
  BY <1>3, <1>5, <1>6, <1>8, Zenon DEF Saga!Place, Saga!Is, Saga!Become

\* Steps of the workers that the saga does not see.
LEMMA Unseen ==
  ASSUME IndInv, IndInv', NEW w \in Worker,
         ClaimDue(w) \/ Stop(w) \/ Retry(w) \/ LeaseLost(w)
  PROVE  UNCHANGED Saga!sagaVars
<1>1. UNCHANGED <<orders, hold, exchange>>
  BY DEF ClaimDue, Stop, Retry, LeaseLost, store, remote
<1>2. EventsStay
  <2>1. CASE Stop(w) \/ LeaseLost(w)
    BY <2>1 DEF Stop, LeaseLost, store, EventsStay
  <2>2. CASE ClaimDue(w)
    <3>1. PICK s \in Batches :
            events' = [e \in DOMAIN events |->
                         IF \E i \in DOMAIN s : s[i] = e
                         THEN Leased(events[e]) ELSE events[e]]
      BY <2>2 DEF ClaimDue
    <3>2. \A e \in DOMAIN events : /\ Leased(events[e]).order = events[e].order
                                   /\ Leased(events[e]).kind = events[e].kind
      BY Elements DEF IndInv, Leased, OutboxEvent
    <3> QED
      BY <3>1, <3>2 DEF EventsStay
  <2>3. CASE Retry(w)
    <3>1. PICK at : events' = [events EXCEPT ![Current(w).event] =
                                 Retried(EventOf(w), at)]
      BY <2>3, Zenon DEF Retry
    <3>2. /\ Current(w).event \in DOMAIN events
          /\ EventOf(w) = events[Current(w).event] /\ EventOf(w) \in OutboxEvent
      BY <2>3, Held DEF Retry, EventOf
    <3>3. /\ Retried(EventOf(w), at).order = EventOf(w).order
          /\ Retried(EventOf(w), at).kind = EventOf(w).kind
      BY <3>2 DEF Retried, OutboxEvent
    <3> QED
      BY <3>1, <3>2, <3>3 DEF EventsStay
  <2> QED
    BY <2>1, <2>2, <2>3
<1>3. SagaHold' = SagaHold /\ SagaExchange' = SagaExchange
  BY <1>1, <1>2, MappedFrame
<1>4. SagaOrder' = SagaOrder
  BY <1>1 DEF SagaOrder
<1> QED
  BY <1>3, <1>4 DEF Saga!sagaVars

\* The answers of the services reach the order.
LEMMA SettleMaps ==
  ASSUME IndInv, IndInv', NEW w \in Worker, Settle(w)
  PROVE  (\E o \in OrderID : Saga!Approved(o) \/ Saga!Declined(o)
            \/ Saga!Accepted(o) \/ Saga!Rejected(o) \/ Saga!Released(o)
            \/ Saga!GiveUp(o))
         \/ UNCHANGED Saga!sagaVars
<1>m. Mapped
  BY Mapping
<1>1. CASE Retry(w) \/ LeaseLost(w)
  BY <1>1, Unseen
<1>c. PICK e : e = Current(w).event
  OBVIOUS
<1>o. PICK o : o = EventOf(w).order
  OBVIOUS
<1>h. ASSUME Delivering(w), HoldsLease(w)
      PROVE  /\ OrderOf(w) \in Order /\ OrderOf(w) = orders[o]
             /\ EventOf(w) = events[e] /\ events[e].order = o
             /\ e \in DOMAIN events /\ e \in EventID
             /\ EventFits(e) /\ Open(e) /\ OrderFits(o) /\ o \in DOMAIN orders
  BY <1>h, <1>c, <1>o, Held, Elements DEF IndInv, EventOf, OrderOf
<1>r. ASSUME Delivering(w), reply[w] # "none" PROVE ReplyFits(e, reply[w])
  BY <1>c, <1>r, Heads DEF IndInv, RepliesInv, Delivering
<1>2. CASE ReserveApproved(w)
  <2>x. PICK new : new = [OrderOf(w) EXCEPT !.status = "PENDING_ROUTE",
                                            !.margin = "RESERVED",
                                            !.reservation = Current(w).event]
    OBVIOUS
  <2>0. /\ Delivering(w) /\ HoldsLease(w) /\ reply[w] = "yes"
        /\ EventOf(w).kind = "ReserveMargin"
        /\ Finalize(w, new, <<NewEvent(EventOf(w).order, "RouteExchange")>>)
    BY <1>2, <2>x DEF ReserveApproved, Answered, Finalize
  <2>1. /\ new \in Order /\ new.key = OrderOf(w).key
        /\ new.status = "PENDING_ROUTE" /\ new.margin = "RESERVED"
    BY <1>c, <1>h, <2>0, <2>x, Zenon DEF Order, OrderStatus, MarginState
  <2>2. "RouteExchange" \in EventKind
    BY DEF EventKind
  <2>3. Settles(w, e, o, new)
    BY <1>c, <1>o, <2>0, <2>1, <2>2, FinalizeNext
  <2>4. OrderIs(e, "PENDING_MARGIN", "NONE") /\ SagaHold[o] = hold[e]
    BY <1>m, <1>h, <2>0 DEF Mapped, EventFits, ReserveFits
  <2>5. hold[e] = "held"
    <3>1. hold[e] \in {"held", "released"}
      BY <1>h, <1>r, <2>0 DEF ReplyFits
    <3> QED
      BY <3>1, <2>4, <1>h, <2>0 DEF IndInv, ServicesInv, OrderIs
  <2>6. Saga!Approved(o)
    BY <1>h, <2>0, <2>1, <2>3, <2>4, <2>5, MappedSettles
       DEF Saga!Approved, Saga!Is, Saga!Become, OrderIs
  <2> QED
    BY <2>3, <2>6, MappedSettles, Zenon
<1>3. CASE ReserveDeclined(w)
  <2>x. PICK new : new = [OrderOf(w) EXCEPT !.status = "REJECTED"]
    BY Zenon
  <2>0. /\ Delivering(w) /\ HoldsLease(w) /\ reply[w] = "no"
        /\ EventOf(w).kind = "ReserveMargin" /\ Finalize(w, new, <<>>)
    BY <1>3, <2>x DEF ReserveDeclined, Answered, Finalize
  <2>1. /\ new \in Order /\ new.key = OrderOf(w).key
        /\ new.status = "REJECTED" /\ new.margin = OrderOf(w).margin
    BY <1>h, <2>0, <2>x DEF Order, OrderStatus
  <2>3. Settles(w, e, o, new)
    BY <1>c, <1>o, <2>0, <2>1, FinalizeLast
  <2>4. OrderIs(e, "PENDING_MARGIN", "NONE") /\ SagaHold[o] = hold[e]
    BY <1>m, <1>h, <2>0 DEF Mapped, EventFits, ReserveFits
  <2>5. hold[e] = "declined"
    BY <1>h, <1>r, <2>0 DEF ReplyFits
  <2>s. /\ orders[o].status = "PENDING_MARGIN" /\ orders[o].margin = "NONE"
        /\ new.status = "REJECTED" /\ new.margin = "NONE"
    BY <1>h, <2>0, <2>1, <2>4 DEF OrderIs
  <2>6. Saga!Declined(o)
    BY <2>s, <2>3, <2>4, <2>5, MappedSettles
       DEF Saga!Declined, Saga!Is, Saga!Become
  <2> QED
    BY <2>3, <2>6, MappedSettles, Zenon
<1>4. CASE RouteAccepted(w)
  <2>x. PICK new : new = [OrderOf(w) EXCEPT !.status = "ACCEPTED"]
    BY Zenon
  <2>0. /\ Delivering(w) /\ HoldsLease(w) /\ reply[w] = "yes"
        /\ EventOf(w).kind = "RouteExchange" /\ Finalize(w, new, <<>>)
    BY <1>4, <2>x DEF RouteAccepted, Answered, Finalize
  <2>1. /\ new \in Order /\ new.key = OrderOf(w).key
        /\ new.status = "ACCEPTED" /\ new.margin = OrderOf(w).margin
    BY <1>h, <2>0, <2>x DEF Order, OrderStatus
  <2>3. Settles(w, e, o, new)
    BY <1>c, <1>o, <2>0, <2>1, FinalizeLast
  <2>4. OrderIs(e, "PENDING_ROUTE", "RESERVED") /\ SagaExchange[o] = exchange[e]
    BY <1>m, <1>h, <2>0 DEF Mapped, EventFits, RouteFits
  <2>5. exchange[e] = "accepted"
    BY <1>h, <1>r, <2>0 DEF ReplyFits
  <2>s. /\ orders[o].status = "PENDING_ROUTE" /\ orders[o].margin = "RESERVED"
        /\ new.status = "ACCEPTED" /\ new.margin = "RESERVED"
    BY <1>h, <2>0, <2>1, <2>4 DEF OrderIs
  <2>6. Saga!Accepted(o)
    BY <2>s, <2>3, <2>4, <2>5, MappedSettles
       DEF Saga!Accepted, Saga!Is, Saga!Become
  <2> QED
    BY <2>3, <2>6, MappedSettles, Zenon
<1>5. CASE RouteRejected(w)
  <2>x. PICK new : new = [OrderOf(w) EXCEPT !.status = "REJECTED",
                                            !.margin = "RELEASE_PENDING"]
    OBVIOUS
  <2>0. /\ Delivering(w) /\ HoldsLease(w) /\ reply[w] = "no"
        /\ EventOf(w).kind = "RouteExchange"
        /\ Finalize(w, new, <<NewEvent(EventOf(w).order, "ReleaseMargin")>>)
    BY <1>5, <2>x DEF RouteRejected, Answered, Finalize
  <2>1. /\ new \in Order /\ new.key = OrderOf(w).key
        /\ new.status = "REJECTED" /\ new.margin = "RELEASE_PENDING"
    BY <1>h, <2>0, <2>x, Zenon DEF Order, OrderStatus, MarginState
  <2>2. "ReleaseMargin" \in EventKind
    BY DEF EventKind
  <2>3. Settles(w, e, o, new)
    BY <1>c, <1>o, <2>0, <2>1, <2>2, FinalizeNext
  <2>4. OrderIs(e, "PENDING_ROUTE", "RESERVED") /\ SagaExchange[o] = exchange[e]
    BY <1>m, <1>h, <2>0 DEF Mapped, EventFits, RouteFits
  <2>5. exchange[e] = "rejected"
    BY <1>h, <1>r, <2>0 DEF ReplyFits
  <2>6. Saga!Rejected(o)
    BY <1>h, <2>0, <2>1, <2>3, <2>4, <2>5, MappedSettles
       DEF Saga!Rejected, Saga!Is, Saga!Become, OrderIs
  <2> QED
    BY <2>3, <2>6, MappedSettles, Zenon
<1>6. CASE ReleaseDone(w)
  <2>x. PICK new : new = [OrderOf(w) EXCEPT !.margin = "RELEASED"]
    BY Zenon
  <2>0. /\ Delivering(w) /\ HoldsLease(w) /\ reply[w] = "yes"
        /\ EventOf(w).kind = "ReleaseMargin" /\ Finalize(w, new, <<>>)
    BY <1>6, <2>x DEF ReleaseDone, Answered, Finalize
  <2>1. /\ new \in Order /\ new.key = OrderOf(w).key
        /\ new.status = OrderOf(w).status /\ new.margin = "RELEASED"
    BY <1>h, <2>0, <2>x DEF Order, MarginState
  <2>3. Settles(w, e, o, new)
    BY <1>c, <1>o, <2>0, <2>1, FinalizeLast
  <2>4. OrderIs(e, "REJECTED", "RELEASE_PENDING")
    BY <1>h, <2>0 DEF EventFits, ReleaseFits
  <2>5. SagaHold[o] = "released"
    <3>1. /\ orders[o].reservation \in DOMAIN events
          /\ events[orders[o].reservation].order = o
          /\ events[orders[o].reservation].kind = "ReserveMargin"
      BY <1>h, <2>0, <2>4 DEF OrderFits, OrderIs
    <3>2. hold[orders[o].reservation] = "released"
      BY <1>h, <1>r, <2>0 DEF ReplyFits
    <3> QED
      BY <3>1, <3>2, <1>m DEF Mapped
  <2>s. /\ orders[o].status = "REJECTED" /\ orders[o].margin = "RELEASE_PENDING"
        /\ new.status = "REJECTED" /\ new.margin = "RELEASED"
    BY <1>h, <2>0, <2>1, <2>4 DEF OrderIs
  <2>6. Saga!Released(o)
    BY <2>s, <2>3, <2>4, <2>5, MappedSettles
       DEF Saga!Released, Saga!Is, Saga!Become
  <2> QED
    BY <2>3, <2>6, MappedSettles, Zenon
<1>7. CASE Abandon(w)
  <2>1. PICK x, p, new : /\ Settles(w, x, p, new)
                         /\ new.status = "RECONCILIATION_REQUIRED"
                         /\ new.margin = orders[p].margin
    BY <1>7, AbandonSettles
  <2>2. /\ x \in DOMAIN events /\ events[x].order = p /\ Open(x)
        /\ EventFits(x) /\ events[x] \in OutboxEvent
    BY <2>1, SettlesFacts, Elements DEF IndInv
  <2>3. \/ OrderIs(x, "PENDING_MARGIN", "NONE")
        \/ OrderIs(x, "PENDING_ROUTE", "RESERVED")
        \/ OrderIs(x, "REJECTED", "RELEASE_PENDING")
    BY <2>2 DEF EventFits, ReserveFits, RouteFits, ReleaseFits, OutboxEvent,
       EventKind
  <2>4. Saga!GiveUp(p)
    BY <2>1, <2>2, <2>3, MappedSettles
       DEF Saga!GiveUp, Saga!Is, Saga!Become, OrderIs
  <2> QED
    BY <2>1, <2>4, MappedSettles, Zenon
<1> QED
  BY <1>1, <1>2, <1>3, <1>4, <1>5, <1>6, <1>7 DEF Settle

\* The margin service decides, or repeats what it decided.
LEMMA CallReserveMaps ==
  ASSUME IndInv, IndInv', NEW w \in Worker, CallReserve(w)
  PROVE  (\E o \in OrderID : Saga!MarginDecides(o)) \/ UNCHANGED Saga!sagaVars
<1>c. PICK e : e = Current(w).event
  OBVIOUS
<1>0. /\ Calling(w, "ReserveMargin")
      /\ UNCHANGED <<orders, events, exchange>>
  BY DEF CallReserve, store
<1>1. /\ e \in DOMAIN events /\ e \in EventID
      /\ events[e].kind = "ReserveMargin"
  BY <1>c, <1>0, CallingFacts
<1>o. PICK o : o = events[e].order
  OBVIOUS
<1>2. /\ o \in DOMAIN orders /\ o \in OrderID
      /\ events[e] \in OutboxEvent /\ orders[o] \in Order
      /\ EventFits(e) /\ OrderFits(o)
  BY <1>o, <1>1, Elements DEF IndInv, EventsInv, EventFits, OrdersInv
<1>3. PICK d \in IF hold[e] = "none" THEN {"none", "held", "declined"}
                                     ELSE {hold[e]} :
        hold' = [hold EXCEPT ![e] = d]
  BY <1>c, Zenon DEF CallReserve
<1>4. EventsStay /\ SagaOrder' = SagaOrder
  BY <1>0 DEF EventsStay, SagaOrder
<1>5. hold \in [EventID -> HoldState]
  BY DEF IndInv, TypeOK
<1>6. SagaExchange' = SagaExchange
  <2>1. \A p \in OrderID : SagaExchange'[p] = SagaExchange[p]
    BY <1>0, <1>4, MappedExchange
  <2> QED
    BY <2>1, MappingTypes DEF SagaExchange
<1>7. CASE d = hold[e]
  <2>1. hold' = hold
    BY <1>3, <1>5, <1>7
  <2> QED
    BY <2>1, <1>0, <1>4, MappedFrame DEF Saga!sagaVars
<1>8. CASE d # hold[e]
  <2>1. hold[e] = "none" /\ d \in {"held", "declined"} /\ hold'[e] = d
    BY <1>1, <1>3, <1>5, <1>8
  <2>2. Mapped /\ Mapped'
    BY Mapping, PTL
  <2>3. SagaHold[o] = "none" /\ SagaHold'[o] = d
    BY <1>0, <1>1, <1>o, <2>1, <2>2 DEF Mapped
  <2>4. ASSUME NEW p \in OrderID, p # o PROVE SagaHold'[p] = SagaHold[p]
    BY <1>1, <1>3, <1>4, <1>5, <1>o, <2>4, MappedHold DEF OpsOf
  <2>5. SagaHold' = [SagaHold EXCEPT ![o] = d]
    BY <1>2, <2>3, <2>4, MappingTypes, Zenon DEF SagaHold
  <2>6. orders[o].margin = "NONE"
    <3>1. orders[o].margin # "NONE" =>
            /\ orders[o].reservation \in DOMAIN events
            /\ events[orders[o].reservation].order = o
            /\ events[orders[o].reservation].kind = "ReserveMargin"
            /\ hold[orders[o].reservation] \in {"held", "released"}
      BY <1>2 DEF OrderFits
    <3> QED
      BY <3>1, <1>1, <1>o, <2>1 DEF IndInv, EventsInv
  <2>7. SagaOrder[o] = [status |-> orders[o].status,
                        margin |-> orders[o].margin]
        /\ orders[o].status # "ABSENT"
    BY <1>2, <2>2 DEF Mapped, Order, OrderStatus
  <2>9. \E x \in {"held", "declined"} : SagaHold' = [SagaHold EXCEPT ![o] = x]
    BY <2>1, <2>5, Zenon
  <2>10. SagaOrder[o].status # "ABSENT" /\ SagaOrder[o].margin = "NONE"
    BY <2>6, <2>7
  <2>8. Saga!MarginDecides(o)
    BY <1>4, <1>6, <2>3, <2>9, <2>10, Zenon DEF Saga!MarginDecides
  <2> QED
    BY <1>2, <2>8
<1> QED
  BY <1>7, <1>8

\* The exchange decides, or repeats what it decided.
LEMMA CallRouteMaps ==
  ASSUME IndInv, IndInv', NEW w \in Worker, CallRoute(w)
  PROVE  (\E o \in OrderID : Saga!ExchangeDecides(o))
         \/ UNCHANGED Saga!sagaVars
<1>c. PICK e : e = Current(w).event
  OBVIOUS
<1>0. /\ Calling(w, "RouteExchange")
      /\ UNCHANGED <<orders, events, hold>>
  BY DEF CallRoute, store
<1>1. /\ e \in DOMAIN events /\ e \in EventID
      /\ events[e].kind = "RouteExchange"
  BY <1>c, <1>0, CallingFacts
<1>o. PICK o : o = events[e].order
  OBVIOUS
<1>2. /\ o \in DOMAIN orders /\ o \in OrderID
      /\ events[e] \in OutboxEvent /\ orders[o] \in Order
      /\ EventFits(e) /\ OrderFits(o)
  BY <1>o, <1>1, Elements DEF IndInv, EventsInv, EventFits, OrdersInv
<1>3. PICK d \in IF exchange[e] = "none" THEN ExchangeState
                                         ELSE {exchange[e]} :
        exchange' = [exchange EXCEPT ![e] = d]
  BY <1>c, Zenon DEF CallRoute
<1>4. EventsStay /\ SagaOrder' = SagaOrder
  BY <1>0 DEF EventsStay, SagaOrder
<1>5. exchange \in [EventID -> ExchangeState]
  BY DEF IndInv, TypeOK
<1>6. SagaHold' = SagaHold
  <2>1. \A p \in OrderID : SagaHold'[p] = SagaHold[p]
    BY <1>0, <1>4, MappedHold
  <2> QED
    BY <2>1, MappingTypes DEF SagaHold
<1>7. CASE d = exchange[e]
  <2>1. exchange' = exchange
    BY <1>3, <1>5, <1>7
  <2> QED
    BY <2>1, <1>0, <1>4, MappedFrame DEF Saga!sagaVars
<1>8. CASE d # exchange[e]
  <2>1. /\ exchange[e] = "none" /\ d \in {"accepted", "rejected"}
        /\ exchange'[e] = d
    BY <1>1, <1>3, <1>5, <1>8 DEF ExchangeState
  <2>2. Mapped /\ Mapped'
    BY Mapping, PTL
  <2>3. SagaExchange[o] = "none" /\ SagaExchange'[o] = d
    BY <1>0, <1>1, <1>o, <2>1, <2>2 DEF Mapped
  <2>4. ASSUME NEW p \in OrderID, p # o PROVE SagaExchange'[p] = SagaExchange[p]
    BY <1>1, <1>3, <1>4, <1>5, <1>o, <2>4, MappedExchange DEF OpsOf
  <2>5. SagaExchange' = [SagaExchange EXCEPT ![o] = d]
    BY <1>2, <2>3, <2>4, MappingTypes, Zenon DEF SagaExchange
  <2>6. orders[o].margin = "RESERVED"
    BY <1>1, <1>2, <1>o, <2>1 DEF EventFits, RouteFits, Open, OrderIs,
       OutboxEvent, EventState
  <2>7. /\ orders[o].reservation \in DOMAIN events
        /\ events[orders[o].reservation].order = o
        /\ events[orders[o].reservation].kind = "ReserveMargin"
        /\ hold[orders[o].reservation] = "held"
    BY <1>2, <2>6 DEF OrderFits
  <2>8. SagaHold[o] = "held"
    BY <2>2, <2>7, Zenon DEF Mapped
  <2>9. SagaOrder[o] = [status |-> orders[o].status,
                        margin |-> orders[o].margin]
    BY <1>2, <2>2, Zenon DEF Mapped
  <2>11. \E x \in {"accepted", "rejected"} :
           SagaExchange' = [SagaExchange EXCEPT ![o] = x]
    BY <2>1, <2>5, Zenon
  <2>12. SagaOrder[o].margin = "RESERVED"
    BY <2>6, <2>9
  <2>10. Saga!ExchangeDecides(o)
    BY <1>4, <1>6, <2>3, <2>8, <2>11, <2>12, Zenon DEF Saga!ExchangeDecides
  <2> QED
    BY <1>2, <2>10
<1> QED
  BY <1>7, <1>8

\* The margin service releases what it held, or repeats that it did.
LEMMA CallReleaseMaps ==
  ASSUME IndInv, IndInv', NEW w \in Worker, CallRelease(w)
  PROVE  (\E o \in OrderID : Saga!MarginReleases(o))
         \/ UNCHANGED Saga!sagaVars
<1>c. PICK e : e = Current(w).event
  OBVIOUS
<1>0. /\ Calling(w, "ReleaseMargin")
      /\ UNCHANGED <<orders, events, exchange>>
  BY DEF CallRelease, store
<1>1. /\ e \in DOMAIN events /\ events[e].kind = "ReleaseMargin"
  BY <1>c, <1>0, CallingFacts
<1>o. PICK o : o = events[e].order
  OBVIOUS
<1>q. PICK q : q = orders[o].reservation
  OBVIOUS
<1>2. /\ o \in DOMAIN orders /\ o \in OrderID
      /\ events[e] \in OutboxEvent /\ orders[o] \in Order
      /\ EventFits(e) /\ OrderFits(o)
  BY <1>o, <1>1, Elements DEF IndInv, EventsInv, EventFits, OrdersInv
<1>3. orders[o].margin \in {"RELEASE_PENDING", "RELEASED"}
  BY <1>1, <1>2, <1>o DEF EventFits, ReleaseFits, Open, OrderIs,
     OutboxEvent, EventState
<1>4. /\ q \in DOMAIN events /\ q \in EventID /\ events[q].order = o
      /\ events[q].kind = "ReserveMargin" /\ hold[q] \in {"held", "released"}
      /\ orders[o].margin = "RELEASED" => hold[q] = "released"
  BY <1>2, <1>3, <1>q, Elements DEF IndInv, OrderFits
<1>5. EventsStay /\ SagaOrder' = SagaOrder
  BY <1>0 DEF EventsStay, SagaOrder
<1>6. hold \in [EventID -> HoldState]
  BY DEF IndInv, TypeOK
<1>7. SagaExchange' = SagaExchange
  <2>1. \A p \in OrderID : SagaExchange'[p] = SagaExchange[p]
    BY <1>0, <1>5, MappedExchange
  <2> QED
    BY <2>1, MappingTypes DEF SagaExchange
<1>8. hold' = hold \/ hold' = [hold EXCEPT ![q] = "released"]
  BY <1>c, <1>o, <1>q DEF CallRelease, OrderOf, EventOf
<1>9. CASE hold' = hold
  BY <1>9, <1>0, <1>5, MappedFrame DEF Saga!sagaVars
<1>10. CASE hold' # hold
  <2>1. hold' = [hold EXCEPT ![q] = "released"]
    BY <1>8, <1>10
  <2>2. hold[q] = "held" /\ hold'[q] = "released"
    BY <2>1, <1>4, <1>6, <1>10
  <2>3. Mapped /\ Mapped'
    BY Mapping, PTL
  <2>4. SagaHold[o] = "held" /\ SagaHold'[o] = "released"
    BY <1>0, <1>4, <2>2, <2>3 DEF Mapped
  <2>5. ASSUME NEW p \in OrderID, p # o PROVE SagaHold'[p] = SagaHold[p]
    BY <1>4, <1>5, <1>6, <2>1, <2>5, MappedHold DEF OpsOf
  <2>6. SagaHold' = [SagaHold EXCEPT ![o] = "released"]
    BY <1>2, <2>4, <2>5, MappingTypes, Zenon DEF SagaHold
  <2>7. SagaExchange[o] = "rejected"
    <3>1. PICK x \in DOMAIN events :
            /\ events[x].order = o /\ events[x].kind = "RouteExchange"
            /\ exchange[x] = "rejected"
      BY <1>2, <1>3 DEF OrderFits
    <3> QED
      BY <3>1, <2>3 DEF Mapped
  <2>8. SagaOrder[o].margin = "RELEASE_PENDING"
    <3>1. orders[o].margin = "RELEASE_PENDING"
      BY <1>3, <1>4, <2>2
    <3>2. SagaOrder[o] = [status |-> orders[o].status,
                          margin |-> orders[o].margin]
      BY <1>2, <2>3 DEF Mapped
    <3> QED
      BY <3>1, <3>2
  <2>9. Saga!MarginReleases(o)
    BY <1>5, <1>7, <2>4, <2>6, <2>7, <2>8 DEF Saga!MarginReleases
  <2> QED
    BY <1>2, <2>9
<1> QED
  BY <1>9, <1>10

\* The outbox implements the saga: placing, the services' decisions and the
\* settlements under a lease are the steps of OrderSaga; claims, retries, lost
\* leases, crashes and the clock are not seen by it.
THEOREM ImplementsSagaHolds == Spec => ImplementsSaga
<1>1. Init => Saga!Init
  BY DEF Init, Saga!Init, SagaOrder, SagaHold, SagaExchange, Outcome, OpsOf
<1>2. ASSUME IndInv, IndInv', [Next]_vars
      PROVE  [Saga!Next]_(Saga!sagaVars)
  <2>1. ASSUME NEW k \in Key, NEW h \in Hash, Place(k, h)
        PROVE  Saga!Next
    BY <1>2, <2>1, PlaceMaps DEF Saga!Next
  <2>2. ASSUME NEW w \in Worker, ClaimDue(w) \/ Stop(w)
        PROVE  UNCHANGED Saga!sagaVars
    BY <1>2, <2>2, Unseen
  <2>3. ASSUME NEW w \in Worker, Call(w)
        PROVE  Saga!Next \/ UNCHANGED Saga!sagaVars
    BY <1>2, <2>3, CallReserveMaps, CallRouteMaps, CallReleaseMaps
       DEF Call, Saga!Next
  <2>4. ASSUME NEW w \in Worker, Settle(w)
        PROVE  Saga!Next \/ UNCHANGED Saga!sagaVars
    BY <1>2, <2>4, SettleMaps DEF Saga!Next
  <2>5. CASE Tick
    BY <2>5 DEF Tick, store, remote, Saga!sagaVars, SagaOrder, SagaHold,
       SagaExchange, Outcome, OpsOf
  <2>6. CASE UNCHANGED vars
    BY <2>6 DEF vars, store, remote, faults, Saga!sagaVars, SagaOrder,
       SagaHold, SagaExchange, Outcome, OpsOf
  <2> QED
    BY <1>2, <2>1, <2>2, <2>3, <2>4, <2>5, <2>6 DEF Next
<1> QED
  BY <1>1, <1>2, Agreement, PTL DEF Spec, ImplementsSaga, Saga!Spec
============================================================================
