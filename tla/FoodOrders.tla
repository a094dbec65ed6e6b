---------------------------- MODULE FoodOrders ----------------------------
(* food-delivery-kafka: one order through its services. A handler's events   *)
(* go to the outbox one transaction at a time, the inbox remembers what a    *)
(* group has processed, and a handler that throws is retried and then        *)
(* dead-lettered. Every service runs a relay and the relays skip each        *)
(* other's rows, so a group may meet the order's events in any order.        *)
EXTENDS Integers, Sequences, TLC

CONSTANTS
  MaxAttempts,   \* maxAttempts of runConsumer
  Deployment,    \* groups that run, and the types emitted before the others stopped
  MaxFaults,     \* bound on crashed consumers and relays and failed transactions
  None

VARIABLES
  up, down,   \* the groups that are deployed, and those of them whose service stopped
  emitted,    \* how many events of a type are in the outbox or published
  inbox,      \* processed_events, per group
  work,       \* what a group's consumer is handling
  dead,       \* the dead-letter topic
  order,      \* the row of the order: its status and amount
  refunds,    \* the amounts of the refunds requested
  faults

foodVars == <<up, down, emitted, inbox, work, dead, order, refunds, faults>>

Type == {"order.placed", "payment.requested", "payment.authorized", "payment.failed",
         "refund.requested", "refund.completed", "restaurant.notified", "restaurant.accepted",
         "restaurant.rejected", "food.preparing", "food.ready", "rider.assigned",
         "rider.unavailable", "order.picked_up", "order.delivered"}

statusForEvent ==
  "order.placed" :> "PLACED" @@ "payment.authorized" :> "PAID"
  @@ "payment.failed" :> "PAYMENT_FAILED" @@ "restaurant.accepted" :> "ACCEPTED"
  @@ "restaurant.rejected" :> "REJECTED" @@ "refund.completed" :> "REJECTED_REFUNDED"
  @@ "food.preparing" :> "PREPARING" @@ "food.ready" :> "READY"
  @@ "rider.assigned" :> "RIDER_ASSIGNED" @@ "order.picked_up" :> "PICKED_UP"
  @@ "order.delivered" :> "DELIVERED"

(* What a group's handler does with an event of a type: the events it emits, *)
(* one transaction after the other, and whether it throws at the end.        *)

orchestration == [t \in {"order.placed"} |-> {<<"payment.requested">>}]
payment ==
  [t \in {"payment.requested", "refund.requested"} |->
     IF t = "refund.requested" THEN {<<"refund.completed">>}
     ELSE {<<"throw">>, <<"payment.failed">>, <<"payment.authorized">>}]
saga == [t \in {"restaurant.rejected"} |-> {<<"refund.requested">>}]
desk ==
  [t \in {"payment.authorized"} |->
     {<<"restaurant.notified", "restaurant.rejected">>, <<"restaurant.notified", "restaurant.accepted">>}]
kitchen == [t \in {"restaurant.accepted"} |-> {<<"food.preparing", "food.ready">>}]
dispatch == [t \in {"restaurant.accepted"} |-> {<<"rider.unavailable", "throw">>, <<"rider.assigned">>}]
lastMile == [t \in {"food.ready"} |-> {<<"order.picked_up", "order.delivered">>}]
projection == [t \in DOMAIN statusForEvent |-> {<<"project">>}]

Handler ==
  [orchestrator |-> orchestration, payment |-> payment, saga |-> saga, restaurant |-> desk,
   kitchen |-> kitchen, delivery |-> dispatch, lastmile |-> lastMile, projection |-> projection]

Group == DOMAIN Handler

\* POST /orders has put order.placed in the outbox, and services that do not
\* run any more may have brought the order further.
Init ==
  /\ \E d \in Deployment :
       up = d.groups /\ emitted = [t \in Type |-> IF t \in d.emitted THEN 1 ELSE 0]
  /\ inbox = [g \in Group |-> {}] /\ work = [g \in Group |-> None]
  /\ dead = {} /\ order = [status |-> "none", amount |-> 0]
  /\ refunds = {} /\ down = {} /\ faults = 0

Fault == faults < MaxFaults /\ faults' = faults + 1

\* Mutant: the inbox is not asked.
alreadyProcessed_Never(g, e) == FALSE

\* Redis first, then processed_events, which has whatever Redis has.
alreadyProcessed(g, e) == e \in inbox[g]

\* The events of a type that a relay publishes: the relays of the services take
\* unpublished rows in any order, and publish a row again after a crash.
tick(t) == 1..emitted[t]

\* A message reaches the group, and its handler starts. A dead-lettered event
\* has no inbox row: published again by a relay that crashed, it is handled again.
eachMessage(g, t) ==
  /\ g \notin down /\ work[g] = None
  /\ \E n \in tick(t) :
       /\ ~alreadyProcessed(g, <<t, n>>)
       /\ IF <<g, t, n>> \in dead THEN Fault ELSE UNCHANGED faults
       /\ \E plan \in Handler[g][t] :
            work' = [work EXCEPT ![g] = [event |-> <<t, n>>, attempt |-> 1, todo |-> plan]]
  /\ UNCHANGED <<up, down, emitted, inbox, dead, order, refunds>>

busy(g)  == work[g] # None
doing(g) == Head(work[g].todo)
Advance(g) == work' = [work EXCEPT ![g].todo = Tail(@)]

\* Mutant: the events of a handler are published again by markProcessed.
emitEvents_Twice(g) ==
  /\ busy(g) /\ work[g].todo # <<>> /\ doing(g) \in Type
  /\ emitted' = [emitted EXCEPT ![doing(g)] = @ + 2]
  /\ refunds' = IF doing(g) = "refund.requested" THEN refunds \cup {order.amount} ELSE refunds
  /\ Advance(g)
  /\ UNCHANGED <<up, down, inbox, dead, order, faults>>

\* One transaction of the handler. A refund is of the amount in the read model.
emitEvents(g) ==
  /\ busy(g) /\ work[g].todo # <<>> /\ doing(g) \in Type
  /\ emitted' = [emitted EXCEPT ![doing(g)] = @ + 1]
  /\ refunds' = IF doing(g) = "refund.requested" THEN refunds \cup {order.amount} ELSE refunds
  /\ Advance(g)
  /\ UNCHANGED <<up, down, inbox, dead, order, faults>>

projectOrder(g) ==
  LET t == work[g].event[1] IN
  /\ busy(g) /\ work[g].todo # <<>> /\ doing(g) = "project"
  /\ order' = [status |-> statusForEvent[t],
               amount |-> IF t = "order.placed" THEN 1 ELSE order.amount]
  /\ Advance(g)
  /\ UNCHANGED <<up, down, emitted, inbox, dead, refunds, faults>>

markProcessed(g) ==
  /\ busy(g) /\ work[g].todo = <<>>
  /\ inbox' = [inbox EXCEPT ![g] = @ \cup {work[g].event}]
  /\ work' = [work EXCEPT ![g] = None]
  /\ UNCHANGED <<up, down, emitted, dead, order, refunds, faults>>

\* The event goes to the dead-letter topic and its offset is committed.
toDeadLetter(g) ==
  /\ dead' = dead \cup {<<g, work[g].event[1], work[g].event[2]>>}
  /\ work' = [work EXCEPT ![g] = None]

\* The handler has thrown: it runs again from its start, or gives the event up.
retry(g) ==
  IF work[g].attempt < MaxAttempts
    THEN /\ \E plan \in Handler[g][work[g].event[1]] :
              work' = [work EXCEPT ![g].attempt = @ + 1, ![g].todo = plan]
         /\ UNCHANGED dead
    ELSE toDeadLetter(g)

Throws(g) ==
  /\ busy(g) /\ work[g].todo # <<>> /\ doing(g) = "throw"
  /\ retry(g)
  /\ UNCHANGED <<up, down, emitted, inbox, order, refunds, faults>>

\* A transaction of the handler, or of markProcessed, fails.
TransactionFails(g) ==
  /\ Fault
  /\ busy(g)
  /\ retry(g)
  /\ UNCHANGED <<up, down, emitted, inbox, order, refunds>>

\* The service stops: the message was not committed and will come again once
\* somebody has started the service.
Crash(g) ==
  /\ Fault
  /\ busy(g)
  /\ work' = [work EXCEPT ![g] = None] /\ down' = down \cup {g}
  /\ UNCHANGED <<up, emitted, inbox, dead, order, refunds>>

Start(g) ==
  /\ g \in down /\ down' = down \ {g}
  /\ UNCHANGED <<up, emitted, inbox, work, dead, order, refunds, faults>>

---------------------------------------------------------------------------
Consume(g) ==
  \/ \E t \in DOMAIN Handler[g] : eachMessage(g, t)
  \/ emitEvents(g) \/ projectOrder(g) \/ markProcessed(g) \/ Throws(g)

Next == \E g \in up : Consume(g) \/ TransactionFails(g) \/ Crash(g) \/ Start(g)

\* Every service that runs keeps fetching.
FairSpec == Init /\ [][Next]_foodVars /\ \A g \in Group : WF_foodVars(g \in up /\ Consume(g))

---------------------------------------------------------------------------
\* Every variable has its type.
TypeOK ==
  /\ emitted \in [Type -> Nat]
  /\ \A g \in Group : busy(g) => work[g].attempt \in 1..MaxAttempts
  /\ order.amount \in 0..1 /\ refunds \subseteq 0..1 /\ faults \in 0..MaxFaults

\* Every effect happens once, but for those a handler repeats by itself (it says
\* that there is no rider, and throws).
EffectsHappenOnce == \A t \in Type \ {"rider.unavailable"} : emitted[t] <= 1

\* However often an event is delivered and in whatever order the groups take
\* them, every effect happens once, until a handler is interrupted between its
\* transactions and its inbox row (packages/inbox/dedup.ts,
\* packages/kafka/consumer.ts).
UninterruptedOnce == faults = 0 => EffectsHappenOnce

\* What is said of them: "Together with at-least-once delivery this yields
\* effectively-once *effects*" (packages/inbox/dedup.ts:9-10), and of a consumer
\* that is killed, "no lost or duplicated effects" (sim/chaos.ts:7-8).
EffectivelyOnce == EffectsHappenOnce

\* What is said of the saga: "When a PAID order is rejected by the restaurant,
\* start the compensating refund" (services/payment-svc/index.ts:44-45). The
\* amount comes from the read model, which may not have the order yet.
RefundCompensates == 0 \notin refunds

\* What becomes true again and again: for an order that the restaurant rejected
\* a refund is completed, of the amount the read model had, whatever crashed,
\* once the services run again, unless the refund's event was dead-lettered
\* (payment-svc's saga).
RejectedIsRefunded ==
  emitted["restaurant.rejected"] > 0 /\ {"saga", "payment"} \subseteq up \ down =>
    \/ emitted["refund.completed"] > 0
    \/ \E g \in {"saga", "payment"} : \E d \in dead : d[1] = g
===========================================================================
