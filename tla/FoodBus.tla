------------------------------ MODULE FoodBus ------------------------------
(* food-delivery-eda: the in-memory bus with a queue per subscription,        *)
(* retries by timer and a dead-letter path, the services that react to each   *)
(* other's events, and the read model, which folds an event as it is          *)
(* published.                                                                 *)
EXTENDS Integers, Sequences, TLC

CONSTANTS
  Order,
  MaxAttempts,   \* MAX_ATTEMPTS of the bus
  None

VARIABLES
  placed,
  queue,      \* of a subscription: the events it has not taken yet
  handling,   \* what its handler is doing
  backoff,    \* retries that wait for their timer
  deadLetters,
  timeline    \* the read model: the statuses of an order

busVars == <<placed, queue, handling, backoff, deadLetters, timeline>>

(* The subscriptions, by group, with the topic each reads and what its        *)
(* handler does: the events it publishes, and whether it throws at the end.   *)

orders == [topic |-> "order.placed", plans |-> {<<"payment.requested">>}]
payments == [topic |-> "payment.requested",
             plans |-> {<<"throw">>, <<"payment.failed">>, <<"payment.authorized">>}]
restaurant == [topic |-> "payment.authorized",
               plans |-> {<<"restaurant.notified", "restaurant.rejected">>,
                          <<"restaurant.notified", "restaurant.accepted">>}]
\* Mutant: the food is announced ready before it is in preparation.
kitchen_Swapped == [topic |-> "restaurant.accepted", plans |-> {<<"food.ready", "food.preparing">>}]
kitchen == [topic |-> "restaurant.accepted", plans |-> {<<"food.preparing", "food.ready">>}]
delivery == [topic |-> "restaurant.accepted",
             plans |-> {<<"rider.unavailable", "throw">>, <<"rider.assigned">>}]
lastMile == [topic |-> "food.ready", plans |-> {<<"order.picked_up", "order.delivered">>}]

Handler == [orders |-> orders, payments |-> payments, restaurant |-> restaurant,
            kitchen |-> kitchen, delivery |-> delivery, lastmile |-> lastMile]

Consumer == DOMAIN Handler

nextStatus ==
  "order.placed" :> "PLACED" @@ "payment.authorized" :> "PAID"
  @@ "payment.failed" :> "PAYMENT_FAILED" @@ "restaurant.accepted" :> "ACCEPTED"
  @@ "restaurant.rejected" :> "REJECTED" @@ "food.preparing" :> "PREPARING"
  @@ "food.ready" :> "READY" @@ "rider.assigned" :> "RIDER_ASSIGNED"
  @@ "order.picked_up" :> "PICKED_UP" @@ "order.delivered" :> "DELIVERED"

Init ==
  /\ placed = {}
  /\ queue = [c \in Consumer |-> <<>>] /\ handling = [c \in Consumer |-> None]
  /\ backoff = {} /\ deadLetters = {}
  /\ timeline = [o \in Order |-> <<>>]

\* The event joins the queue of every subscription to its topic.
publish(t, o) ==
  queue' = [c \in Consumer |-> IF Handler[c].topic = t
                                 THEN Append(queue[c], [order |-> o, attempt |-> 1])
                                 ELSE queue[c]]

\* OrderService.project, which runs before publish returns.
project(t, o) ==
  timeline' = IF t \in DOMAIN nextStatus THEN [timeline EXCEPT ![o] = Append(@, nextStatus[t])]
              ELSE timeline

placeOrder(o) ==
  /\ o \notin placed
  /\ placed' = placed \cup {o}
  /\ publish("order.placed", o) /\ project("order.placed", o)
  /\ UNCHANGED <<handling, backoff, deadLetters>>

\* One event at a time: the handler starts on the head of the queue.
drain(c) ==
  /\ handling[c] = None /\ queue[c] # <<>>
  /\ \E plan \in Handler[c].plans :
       handling' = [handling EXCEPT ![c] = [event |-> Head(queue[c]), todo |-> plan]]
  /\ queue' = [queue EXCEPT ![c] = Tail(@)]
  /\ UNCHANGED <<placed, backoff, deadLetters, timeline>>

busy(c)  == handling[c] # None
doing(c) == Head(handling[c].todo)

Publishes(c) ==
  LET o == handling[c].event.order IN
  /\ busy(c) /\ handling[c].todo # <<>> /\ doing(c) # "throw"
  /\ publish(doing(c), o) /\ project(doing(c), o)
  /\ handling' = [handling EXCEPT ![c].todo = Tail(@)]
  /\ UNCHANGED <<placed, backoff, deadLetters>>

Delivers(c) ==
  /\ busy(c) /\ handling[c].todo = <<>>
  /\ handling' = [handling EXCEPT ![c] = None]
  /\ UNCHANGED <<placed, queue, backoff, deadLetters, timeline>>

Retry(c, e) == backoff' = backoff \cup {<<c, [e EXCEPT !.attempt = @ + 1]>>}

\* The handler threw: dead-lettered, or retried when its timer fires, at the
\* end of the queue.
Throws(c) ==
  LET e == handling[c].event IN
  /\ busy(c) /\ handling[c].todo # <<>> /\ doing(c) = "throw"
  /\ handling' = [handling EXCEPT ![c] = None]
  /\ IF e.attempt >= MaxAttempts
       THEN deadLetters' = deadLetters \cup {<<c, e.order>>} /\ UNCHANGED backoff
       ELSE Retry(c, e) /\ UNCHANGED deadLetters
  /\ UNCHANGED <<placed, queue, timeline>>

TimerFires ==
  \E r \in backoff :
    /\ backoff' = backoff \ {r}
    /\ queue' = [queue EXCEPT ![r[1]] = Append(@, r[2])]
    /\ UNCHANGED <<placed, handling, deadLetters, timeline>>

---------------------------------------------------------------------------
deliver(c) == drain(c) \/ Publishes(c) \/ Delivers(c) \/ Throws(c)

Next == (\E o \in Order : placeOrder(o)) \/ TimerFires \/ \E c \in Consumer : deliver(c)

\* Promises are resolved and timers fire.
FairSpec ==
  /\ Init /\ [][Next]_busVars
  /\ WF_busVars(TimerFires) /\ \A c \in Consumer : WF_busVars(deliver(c))

---------------------------------------------------------------------------
\* Every variable has its type.
TypeOK ==
  /\ placed \subseteq Order
  /\ \A c \in Consumer : \A i \in DOMAIN queue[c] : queue[c][i].attempt \in 1..MaxAttempts
  /\ \A o \in Order : \A i \in DOMAIN timeline[o] : timeline[o][i] \in
       {nextStatus[t] : t \in DOMAIN nextStatus}

Lifecycle == <<"PLACED", "PAID", "ACCEPTED", "PREPARING", "READY", "PICKED_UP", "DELIVERED">>

place(s) == IF s \in {"REJECTED", "PAYMENT_FAILED"} THEN Len(Lifecycle) + 1
            ELSE CHOOSE i \in DOMAIN Lifecycle : Lifecycle[i] = s

\* The statuses that follow from each other come in the order of the lifecycle,
\* each once and nothing after a rejection or a failed payment, whatever is
\* retried; a rider is assigned once, and to an accepted order. When the rider
\* comes is left to NothingAfterTerminal (bus deliver, store upsert).
ChainInOrder ==
  \A o \in Order : \A i, j \in DOMAIN timeline[o] : i < j =>
    LET s == timeline[o][i]
        t == timeline[o][j] IN
    IF t = "RIDER_ASSIGNED" THEN s # t /\ place(s) <= Len(Lifecycle)
    ELSE s = "RIDER_ASSIGNED" \/ place(s) < place(t)

\* What is said of the bus: "per-consumer sequential processing so one order's
\* events stay ordered" (InMemoryBus.ts:23), and of DELIVERED, REJECTED and
\* PAYMENT_FAILED, that they are TERMINAL (orderStateMachine.ts:35-40).
NothingAfterTerminal ==
  \A o \in Order : \A i \in DOMAIN timeline[o] :
    timeline[o][i] \in {"DELIVERED", "REJECTED", "PAYMENT_FAILED"} => i = Len(timeline[o])

Reached(o, s) == \E i \in DOMAIN timeline[o] : timeline[o][i] = s

\* What becomes true again and again: every order is delivered, rejected or not
\* paid, unless its payment was dead-lettered: a rider that is never found does
\* not stop it.
OrdersEnd ==
  \A o \in placed :
    \/ \E s \in {"DELIVERED", "REJECTED", "PAYMENT_FAILED"} : Reached(o, s)
    \/ <<"payments", o>> \in deadLetters
===========================================================================
