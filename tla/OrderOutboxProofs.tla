------------------------- MODULE OrderOutboxProofs -------------------------
(* The steps that finalize, abandon or claim events keep the invariant of  *)
(* OrderOutbox, so it always holds.                                        *)
EXTENDS OrderOutboxLemmas

\* Store.Finalize without a successor.
LEMMA FinalizeLast ==
  ASSUME IndInv, NEW w \in Worker, Delivering(w), NEW new \in Order,
         new.key = OrderOf(w).key, Finalize(w, new, <<>>)
  PROVE  /\ Settles(w, Current(w).event, EventOf(w).order, new)
         /\ DOMAIN events' = DOMAIN events
         /\ events'[Current(w).event].state = "DELIVERED"
<1>c. PICK e : e = Current(w).event
  OBVIOUS
<1>1. HoldsLease(w)
  BY DEF Finalize
<1>2. /\ e \in DOMAIN events /\ events[e] \in OutboxEvent
      /\ EventOf(w) = events[e] /\ events[e].attempts < MaxAttempts
  BY <1>1, <1>c, Held DEF EventOf
<1>3. /\ Delivered(events[e]) \in OutboxEvent
      /\ Delivered(events[e]).state = "DELIVERED"
      /\ Delivered(events[e]).order = events[e].order
      /\ Delivered(events[e]).kind = events[e].kind
      /\ Delivered(events[e]).token = events[e].token
      /\ Delivered(events[e]).attempts = events[e].attempts
  BY <1>2, SettledTypes, Zenon DEF Delivered, OutboxEvent
<1>4. events \in Seq(OutboxEvent) /\ Len(events) <= MaxEvents
  BY DEF IndInv, TypeOK
<1>5. events' = [events EXCEPT ![e] = Delivered(events[e])]
  BY <1>c, <1>2, <1>3, <1>4, SeqReplace, SeqConcat DEF Finalize
<1>6. /\ events' \in Seq(OutboxEvent) /\ Len(events') = Len(events)
      /\ DOMAIN events' = DOMAIN events
      /\ events'[e] = Delivered(events[e])
      /\ \A f \in DOMAIN events \ {e} : events'[f] = events[f]
  BY <1>2, <1>3, <1>4, <1>5, SeqReplace
<1>7. EventsGrow
  BY <1>3, <1>6 DEF EventsGrow
<1>8. AttemptsInv'
  BY <1>2, <1>3, <1>6 DEF IndInv, AttemptsInv
<1> QED
  BY <1>c, <1>1, <1>2, <1>3, <1>4, <1>6, <1>7, <1>8
     DEF Settles, Finalize, remote, faults

\* Store.Finalize with one successor event.
LEMMA FinalizeNext ==
  ASSUME IndInv, NEW w \in Worker, Delivering(w), NEW new \in Order,
         new.key = OrderOf(w).key, NEW kind \in EventKind,
         Finalize(w, new, <<NewEvent(EventOf(w).order, kind)>>)
  PROVE  /\ Settles(w, Current(w).event, EventOf(w).order, new)
         /\ events'[Current(w).event].state = "DELIVERED"
         /\ \E m : /\ DOMAIN events' = DOMAIN events \cup {m}
                   /\ m \notin DOMAIN events
                   /\ events'[m].order = EventOf(w).order
                   /\ events'[m].kind = kind
                   /\ events'[m].state = "PENDING"
<1>c. PICK e : e = Current(w).event
  OBVIOUS
<1>m. PICK m : m = Len(events) + 1
  OBVIOUS
<1>x. PICK x : x = NewEvent(EventOf(w).order, kind)
  OBVIOUS
<1>1. HoldsLease(w)
  BY DEF Finalize
<1>2. /\ e \in DOMAIN events /\ events[e] \in OutboxEvent
      /\ EventOf(w) = events[e] /\ events[e].attempts < MaxAttempts
      /\ EventOf(w).order \in DOMAIN orders
  BY <1>1, <1>c, Held DEF EventOf
<1>3. /\ Delivered(events[e]) \in OutboxEvent
      /\ Delivered(events[e]).state = "DELIVERED"
      /\ Delivered(events[e]).order = events[e].order
      /\ Delivered(events[e]).kind = events[e].kind
      /\ Delivered(events[e]).token = events[e].token
      /\ Delivered(events[e]).attempts = events[e].attempts
  BY <1>2, SettledTypes, Zenon DEF Delivered, OutboxEvent
<1>4. /\ events \in Seq(OutboxEvent) /\ Len(events) \in Nat
      /\ now \in Nat /\ EventOf(w).order \in OrderID
  <2>0. TypeOK
    BY DEF IndInv
  <2>1. events \in Seq(OutboxEvent) /\ now \in Nat
    BY <2>0, TypedStore
  <2>2. EventOf(w).order \in OrderID
    BY <1>2, Elements DEF IndInv
  <2> QED
    BY <2>1, <2>2
<1>5. x \in OutboxEvent
  BY <1>4, <1>x, PolicyAssumption DEF NewEvent, OutboxEvent, EventState
<1>a. x.order = EventOf(w).order /\ x.kind = kind /\ x.state = "PENDING"
      /\ x.attempts = 0
  BY <1>x DEF NewEvent
<1> DEFINE mid == [events EXCEPT ![e] = Delivered(events[e])]
<1>6. /\ mid \in Seq(OutboxEvent) /\ Len(mid) = Len(events)
      /\ DOMAIN mid = DOMAIN events /\ mid[e] = Delivered(events[e])
      /\ \A f \in DOMAIN events \ {e} : mid[f] = events[f]
  BY <1>2, <1>3, <1>4, SeqReplace
<1>7. /\ events' = mid \o <<x>> /\ Len(events) + Len(<<x>>) <= MaxEvents
  BY <1>c, <1>x, <1>2 DEF Finalize
<1> HIDE DEF mid
<1>8. events' = Append(mid, x)
  BY <1>5, <1>6, <1>7, SeqConcat
<1>9. /\ events' \in Seq(OutboxEvent) /\ Len(events') = Len(events) + 1
      /\ DOMAIN events' = DOMAIN events \cup {m} /\ m \notin DOMAIN events
      /\ \A f \in DOMAIN events : events'[f] = mid[f]
      /\ events'[m] = x
  BY SMTT(40), <1>4, <1>5, <1>6, <1>8, <1>m, SeqAppend
<1>10. Len(events') <= MaxEvents
  <2>1. Len(<<x>>) = 1
    OBVIOUS
  <2> QED
    BY <2>1, <1>7, <1>9
<1>11. EventsGrow
  BY <1>3, <1>6, <1>9 DEF EventsGrow
<1>12. AttemptsInv'
  <2>1. \A f \in DOMAIN events \ {e} : events'[f] = events[f]
    BY <1>6, <1>9
  <2>2. events'[e].attempts < MaxAttempts /\ events'[m].attempts < MaxAttempts
    BY SMTT(40), <1>2, <1>3, <1>6, <1>9, <1>a, PolicyAssumption
  <2> QED
    BY <2>1, <2>2, <1>9 DEF IndInv, AttemptsInv
<1>13. Settles(w, Current(w).event, EventOf(w).order, new)
  BY <1>c, <1>1, <1>2, <1>3, <1>6, <1>9, <1>10, <1>11, <1>12
     DEF Settles, Finalize, remote, faults
<1>14. events'[Current(w).event].state = "DELIVERED"
  BY <1>c, <1>2, <1>3, <1>6, <1>9
<1>15. /\ events'[m].order = EventOf(w).order /\ events'[m].kind = kind
       /\ events'[m].state = "PENDING"
  BY <1>9, <1>a
<1> HIDE DEF mid
<1> QED
  BY <1>9, <1>13, <1>14, <1>15

\* The margin service approved.
LEMMA ReserveApprovedStep ==
  ASSUME IndInv, NEW w \in Worker, ReserveApproved(w)
  PROVE  IndInv'
<1>c. PICK e : e = Current(w).event
  OBVIOUS
<1>o. PICK o : o = EventOf(w).order
  OBVIOUS
<1>x. PICK new : new = [OrderOf(w) EXCEPT !.status = "PENDING_ROUTE",
                                          !.margin = "RESERVED",
                                          !.reservation = Current(w).event]
  OBVIOUS
<1>0. /\ Delivering(w) /\ HoldsLease(w) /\ reply[w] = "yes"
      /\ EventOf(w).kind = "ReserveMargin"
      /\ Finalize(w, new, <<NewEvent(EventOf(w).order, "RouteExchange")>>)
  BY <1>x DEF ReserveApproved, Answered, Finalize
<1>1. /\ OrderOf(w) \in Order /\ Current(w) = batch[w][1]
      /\ e \in DOMAIN events /\ e \in EventID
  BY <1>0, <1>c, Held, Elements DEF IndInv
<1>2. /\ new \in Order /\ new.key = OrderOf(w).key
      /\ new.status = "PENDING_ROUTE" /\ new.margin = "RESERVED"
      /\ new.reservation = e
  BY <1>1, <1>x, <1>c, Zenon DEF Order, OrderStatus, MarginState
<1>3. /\ Settles(w, e, o, new) /\ events'[e].state = "DELIVERED"
      /\ \E m : /\ DOMAIN events' = DOMAIN events \cup {m}
                /\ m \notin DOMAIN events
                /\ events'[m].order = o
                /\ events'[m].kind = "RouteExchange"
                /\ events'[m].state = "PENDING"
  <2>1. "RouteExchange" \in EventKind
    BY DEF EventKind
  <2> QED
    BY ZenonT(60), <2>1, <1>c, <1>o, <1>0, <1>2, FinalizeNext
<1>4. PICK m : /\ DOMAIN events' = DOMAIN events \cup {m}
               /\ m \notin DOMAIN events
               /\ events'[m].order = o
               /\ events'[m].kind = "RouteExchange"
               /\ events'[m].state = "PENDING"
  BY <1>3
<1>5. /\ o \in DOMAIN orders /\ events[e].order = o
      /\ events[e].kind = "ReserveMargin" /\ OrderOf(w) = orders[o]
      /\ Open(e) /\ EventFits(e) /\ OrderFits(o)
      /\ DOMAIN orders' = DOMAIN orders /\ orders'[o] = new
      /\ EventsGrow /\ UNCHANGED <<hold, exchange>>
  <2>1. EventsGrow /\ UNCHANGED <<hold, exchange>>
    BY <1>3 DEF Settles
  <2>2. /\ o \in DOMAIN orders /\ events[e].order = o
        /\ EventOf(w) = events[e] /\ OrderOf(w) = orders[o]
        /\ Open(e) /\ EventFits(e) /\ OrderFits(o)
        /\ DOMAIN orders' = DOMAIN orders /\ orders'[o] = new
    BY <1>3, SettlesFacts, SMTT(60)
  <2> QED
    BY <2>1, <2>2, <1>0
<1>6. orders[o].status = "PENDING_MARGIN" /\ orders[o].margin = "NONE"
  BY <1>5 DEF EventFits, ReserveFits, OrderIs
<1>7. hold[e] = "held"
  <2>1. hold[e] \in {"held", "released"}
    BY <1>0, <1>1, <1>5, <1>c DEF IndInv, RepliesInv, ReplyFits
  <2>2. hold[e] # "released"
    BY <1>1, <1>5, <1>6 DEF IndInv, ServicesInv
  <2> QED
    BY <2>1, <2>2
<1>8. \A f \in DOMAIN events : events[f].order = o => f = e
  <2>1. ASSUME NEW f \in DOMAIN events, events[f].order = o
        PROVE  events[f].kind = "ReserveMargin"
    <3>1. EventFits(f) /\ events[f] \in OutboxEvent
      BY Elements DEF IndInv, EventsInv
    <3> QED
      BY <2>1, <3>1, <1>6 DEF EventFits, RouteFits, ReleaseFits, Open, OrderIs,
         OutboxEvent, EventKind, EventState
  <2> QED
    BY <2>1, <1>1, <1>5 DEF IndInv, EventsInv
<1>9. /\ TypeOK' /\ KeysInv' /\ AttemptsInv' /\ ClaimsInv' /\ ServicesInv'
      /\ RepliesInv'
      /\ \A f \in DOMAIN events : events[f].order # o => EventFits(f)'
      /\ \A p \in DOMAIN orders : p # o => OrderFits(p)'
  <2>1. /\ orders[o].margin # "NONE" => new.margin # "NONE"
        /\ \A f \in DOMAIN events :
             events[f].kind = "ReleaseMargin" /\ events[f].order = o =>
               new.reservation = orders[o].reservation
    BY <1>3, <1>5, <1>6, <1>8
  <2> QED
    BY <2>1, <1>3, SettlesRest, Zenon
<1>10. EventFits(e)' /\ EventFits(m)'
  BY <1>1, <1>2, <1>3, <1>4, <1>5, <1>7 DEF EventsGrow, EventFits, ReserveFits,
     RouteFits, Open, OrderIs
<1>11. EventsInv'
  <2>1. ASSUME NEW f \in DOMAIN events' PROVE EventFits(f)'
    BY <1>4, <1>8, <1>9, <1>10
  <2>2. ASSUME NEW f \in DOMAIN events, NEW g \in DOMAIN events,
               events'[f].order = events'[g].order,
               events'[f].kind = events'[g].kind
        PROVE  f = g
    <3>1. events[f].order = events[g].order /\ events[f].kind = events[g].kind
      BY <2>2, <1>5 DEF EventsGrow
    <3> QED
      BY <3>1 DEF IndInv, EventsInv
  <2>3. ASSUME NEW f \in DOMAIN events, events'[f].order = o
        PROVE  events'[f].kind # "RouteExchange"
    BY <2>3, <1>1, <1>5, <1>8 DEF EventsGrow
  <2> QED
    BY <2>1, <2>2, <2>3, <1>4 DEF EventsInv
<1>12. OrderFits(o)'
  <2>1. /\ e \in DOMAIN events' /\ events'[e].order = o
        /\ events'[e].kind = "ReserveMargin" /\ events'[e].state = "DELIVERED"
    BY <1>1, <1>3, <1>5 DEF EventsGrow
  <2>2. /\ orders'[o].margin = "RESERVED" /\ orders'[o].reservation = e
        /\ orders'[o].status = "PENDING_ROUTE" /\ hold'[e] = "held"
    BY <1>2, <1>5, <1>7
  <2> QED
    BY <2>1, <2>2, <1>4 DEF OrderFits
<1>13. OrdersInv'
  BY <1>5, <1>9, <1>12 DEF OrdersInv
<1> QED
  BY <1>9, <1>11, <1>13 DEF IndInv

\* The margin service declined.
LEMMA ReserveDeclinedStep ==
  ASSUME IndInv, NEW w \in Worker, ReserveDeclined(w)
  PROVE  IndInv'
<1>c. PICK e : e = Current(w).event
  OBVIOUS
<1>o. PICK o : o = EventOf(w).order
  OBVIOUS
<1>x. PICK new : new = [OrderOf(w) EXCEPT !.status = "REJECTED"]
  BY Zenon
<1>0. /\ Delivering(w) /\ HoldsLease(w) /\ reply[w] = "no"
      /\ EventOf(w).kind = "ReserveMargin" /\ Finalize(w, new, <<>>)
  BY <1>x DEF ReserveDeclined, Answered, Finalize
<1>1. /\ OrderOf(w) \in Order /\ Current(w) = batch[w][1]
      /\ e \in DOMAIN events /\ e \in EventID
  BY <1>0, <1>c, Held, Elements DEF IndInv
<1>2. /\ new \in Order /\ new.key = OrderOf(w).key
      /\ new.reservation = OrderOf(w).reservation
      /\ new.status = "REJECTED" /\ new.margin = OrderOf(w).margin
  BY <1>1, <1>x DEF Order, OrderStatus, MarginState
<1>3. Settles(w, e, o, new)
  BY <1>c, <1>o, <1>0, <1>2, FinalizeLast
<1>4. DOMAIN events' = DOMAIN events /\ events'[e].state = "DELIVERED"
  BY <1>c, <1>0, <1>2, FinalizeLast
<1>5. /\ o \in DOMAIN orders /\ events[e].order = o
      /\ events[e].kind = "ReserveMargin" /\ OrderOf(w) = orders[o]
      /\ Open(e) /\ EventFits(e) /\ OrderFits(o)
      /\ DOMAIN orders' = DOMAIN orders /\ orders'[o] = new
      /\ EventsGrow /\ UNCHANGED <<hold, exchange>>
  <2>1. EventsGrow /\ UNCHANGED <<hold, exchange>>
    BY <1>3 DEF Settles
  <2>2. /\ o \in DOMAIN orders /\ events[e].order = o
        /\ EventOf(w) = events[e] /\ OrderOf(w) = orders[o]
        /\ Open(e) /\ EventFits(e) /\ OrderFits(o)
        /\ DOMAIN orders' = DOMAIN orders /\ orders'[o] = new
    BY <1>3, SettlesFacts, SMTT(60)
  <2> QED
    BY <2>1, <2>2, <1>0
<1>6. orders[o].status = "PENDING_MARGIN" /\ orders[o].margin = "NONE"
  BY <1>5 DEF EventFits, ReserveFits, OrderIs
<1>7. hold[e] = "declined"
  BY <1>0, <1>1, <1>5, <1>c DEF IndInv, RepliesInv, ReplyFits
<1>9. /\ TypeOK' /\ KeysInv' /\ AttemptsInv' /\ ClaimsInv' /\ ServicesInv'
      /\ RepliesInv'
      /\ \A f \in DOMAIN events : events[f].order # o => EventFits(f)'
      /\ \A p \in DOMAIN orders : p # o => OrderFits(p)'
  <2>1. /\ orders[o].margin # "NONE" => new.margin # "NONE"
        /\ \A f \in DOMAIN events :
             events[f].kind = "ReleaseMargin" /\ events[f].order = o =>
               new.reservation = orders[o].reservation
    BY <1>2, <1>3, <1>5, <1>6
  <2> QED
    BY <2>1, <1>3, SettlesRest, Zenon
<1>10. ASSUME NEW f \in DOMAIN events, events[f].order = o
       PROVE  EventFits(f)'
  <2>1. EventFits(f) /\ events[f] \in OutboxEvent
    BY Elements DEF IndInv, EventsInv
  <2>2. f # e => events'[f] = events[f]
    BY <1>3 DEF Settles
  <2>3. f # e => events[f].kind # events[e].kind
    BY <1>1, <1>5, <1>10 DEF IndInv, EventsInv
  <2>4. CASE f = e
    BY <2>4, <1>2, <1>4, <1>5, <1>6, <1>7 DEF EventsGrow, EventFits,
       ReserveFits, Open, OrderIs
  <2>5. CASE f # e
    BY <2>1, <2>2, <2>3, <2>5, <1>2, <1>5, <1>6, <1>10, Zenon DEF EventFits,
       ReserveFits, RouteFits, ReleaseFits, Open, OrderIs, OutboxEvent,
       EventKind, EventState
  <2> QED
    BY <2>4, <2>5
<1>12. OrderFits(o)'
  BY ZenonT(60), <1>1, <1>2, <1>4, <1>5, <1>6, <1>7 DEF OrderFits, EventsGrow
<1>11. EventsInv'
  BY <1>1, <1>4, <1>5, <1>9, <1>10 DEF IndInv, EventsInv, EventsGrow
<1>13. OrdersInv'
  BY <1>5, <1>9, <1>12 DEF OrdersInv
<1> QED
  BY <1>9, <1>11, <1>13 DEF IndInv

\* The exchange accepted.
LEMMA RouteAcceptedStep ==
  ASSUME IndInv, NEW w \in Worker, RouteAccepted(w)
  PROVE  IndInv'
<1>c. PICK e : e = Current(w).event
  OBVIOUS
<1>o. PICK o : o = EventOf(w).order
  OBVIOUS
<1>x. PICK new : new = [OrderOf(w) EXCEPT !.status = "ACCEPTED"]
  BY Zenon
<1>0. /\ Delivering(w) /\ HoldsLease(w) /\ reply[w] = "yes"
      /\ EventOf(w).kind = "RouteExchange" /\ Finalize(w, new, <<>>)
  BY <1>x DEF RouteAccepted, Answered, Finalize
<1>1. /\ OrderOf(w) \in Order /\ Current(w) = batch[w][1]
      /\ e \in DOMAIN events /\ e \in EventID
  BY <1>0, <1>c, Held, Elements DEF IndInv
<1>2. /\ new \in Order /\ new.key = OrderOf(w).key
      /\ new.reservation = OrderOf(w).reservation
      /\ new.status = "ACCEPTED" /\ new.margin = OrderOf(w).margin
  BY <1>1, <1>x DEF Order, OrderStatus, MarginState
<1>3. Settles(w, e, o, new)
  BY <1>c, <1>o, <1>0, <1>2, FinalizeLast
<1>4. DOMAIN events' = DOMAIN events /\ events'[e].state = "DELIVERED"
  BY <1>c, <1>0, <1>2, FinalizeLast
<1>5. /\ o \in DOMAIN orders /\ events[e].order = o
      /\ events[e].kind = "RouteExchange" /\ OrderOf(w) = orders[o]
      /\ Open(e) /\ EventFits(e) /\ OrderFits(o)
      /\ DOMAIN orders' = DOMAIN orders /\ orders'[o] = new
      /\ EventsGrow /\ UNCHANGED <<hold, exchange>>
  <2>1. EventsGrow /\ UNCHANGED <<hold, exchange>>
    BY <1>3 DEF Settles
  <2>2. /\ o \in DOMAIN orders /\ events[e].order = o
        /\ EventOf(w) = events[e] /\ OrderOf(w) = orders[o]
        /\ Open(e) /\ EventFits(e) /\ OrderFits(o)
        /\ DOMAIN orders' = DOMAIN orders /\ orders'[o] = new
    BY <1>3, SettlesFacts, SMTT(60)
  <2> QED
    BY <2>1, <2>2, <1>0
<1>6. orders[o].status = "PENDING_ROUTE" /\ orders[o].margin = "RESERVED"
  BY <1>5 DEF EventFits, RouteFits, OrderIs
<1>7. exchange[e] = "accepted"
  BY <1>0, <1>1, <1>5, <1>c, Zenon DEF IndInv, RepliesInv, ReplyFits
<1>9. /\ TypeOK' /\ KeysInv' /\ AttemptsInv' /\ ClaimsInv' /\ ServicesInv'
      /\ RepliesInv'
      /\ \A f \in DOMAIN events : events[f].order # o => EventFits(f)'
      /\ \A p \in DOMAIN orders : p # o => OrderFits(p)'
  <2>1. /\ orders[o].margin # "NONE" => new.margin # "NONE"
        /\ \A f \in DOMAIN events :
             events[f].kind = "ReleaseMargin" /\ events[f].order = o =>
               new.reservation = orders[o].reservation
    BY <1>2, <1>3, <1>5, <1>6
  <2> QED
    BY <2>1, <1>3, SettlesRest, Zenon
<1>10. ASSUME NEW f \in DOMAIN events, events[f].order = o
       PROVE  EventFits(f)'
  <2>1. EventFits(f) /\ events[f] \in OutboxEvent
    BY Elements DEF IndInv, EventsInv
  <2>2. f # e => events'[f] = events[f]
    BY <1>3 DEF Settles
  <2>3. f # e => events[f].kind # events[e].kind
    BY <1>1, <1>5, <1>10 DEF IndInv, EventsInv
  <2>4. CASE f = e
    BY <2>4, <1>2, <1>4, <1>5, <1>6, <1>7 DEF EventsGrow, EventFits,
       RouteFits, Open, OrderIs
  <2>5. CASE f # e
    BY ZenonT(60), <2>1, <2>2, <2>3, <2>5, <1>2, <1>5, <1>6, <1>10 DEF EventFits,
       ReserveFits, RouteFits, ReleaseFits, Open, OrderIs, OutboxEvent,
       EventKind, EventState
  <2> QED
    BY <2>4, <2>5
<1>12. OrderFits(o)'
  <2>1. /\ orders'[o].reservation = orders[o].reservation
        /\ orders'[o].margin = "RESERVED" /\ orders[o].margin = "RESERVED"
    BY <1>2, <1>5, <1>6
  <2> QED
    BY <2>1, <1>5, OrderKept
<1>11. EventsInv'
  BY <1>1, <1>4, <1>5, <1>9, <1>10 DEF IndInv, EventsInv, EventsGrow
<1>13. OrdersInv'
  BY <1>5, <1>9, <1>12 DEF OrdersInv
<1> QED
  BY <1>9, <1>11, <1>13 DEF IndInv

\* The margin was released.
LEMMA ReleaseDoneStep ==
  ASSUME IndInv, NEW w \in Worker, ReleaseDone(w)
  PROVE  IndInv'
<1>c. PICK e : e = Current(w).event
  OBVIOUS
<1>o. PICK o : o = EventOf(w).order
  OBVIOUS
<1>x. PICK new : new = [OrderOf(w) EXCEPT !.margin = "RELEASED"]
  BY Zenon
<1>0. /\ Delivering(w) /\ HoldsLease(w) /\ reply[w] = "yes"
      /\ EventOf(w).kind = "ReleaseMargin" /\ Finalize(w, new, <<>>)
  BY <1>x DEF ReleaseDone, Answered, Finalize
<1>1. /\ OrderOf(w) \in Order /\ Current(w) = batch[w][1]
      /\ e \in DOMAIN events /\ e \in EventID
  BY <1>0, <1>c, Held, Elements DEF IndInv
<1>2. /\ new \in Order /\ new.key = OrderOf(w).key
      /\ new.reservation = OrderOf(w).reservation
      /\ new.margin = "RELEASED" /\ new.status = OrderOf(w).status
  BY <1>1, <1>x DEF Order, OrderStatus, MarginState
<1>3. Settles(w, e, o, new)
  BY <1>c, <1>o, <1>0, <1>2, FinalizeLast
<1>4. DOMAIN events' = DOMAIN events /\ events'[e].state = "DELIVERED"
  BY <1>c, <1>0, <1>2, FinalizeLast
<1>5. /\ o \in DOMAIN orders /\ events[e].order = o
      /\ events[e].kind = "ReleaseMargin" /\ OrderOf(w) = orders[o]
      /\ Open(e) /\ EventFits(e) /\ OrderFits(o)
      /\ DOMAIN orders' = DOMAIN orders /\ orders'[o] = new
      /\ EventsGrow /\ UNCHANGED <<hold, exchange>>
  <2>1. EventsGrow /\ UNCHANGED <<hold, exchange>>
    BY <1>3 DEF Settles
  <2>2. /\ o \in DOMAIN orders /\ events[e].order = o
        /\ EventOf(w) = events[e] /\ OrderOf(w) = orders[o]
        /\ Open(e) /\ EventFits(e) /\ OrderFits(o)
        /\ DOMAIN orders' = DOMAIN orders /\ orders'[o] = new
    BY <1>3, SettlesFacts, SMTT(60)
  <2> QED
    BY <2>1, <2>2, <1>0
<1>6. orders[o].status = "REJECTED" /\ orders[o].margin = "RELEASE_PENDING"
  BY <1>5 DEF EventFits, ReleaseFits, OrderIs
<1>7. hold[orders[o].reservation] = "released"
  BY <1>0, <1>1, <1>5, <1>c, Zenon DEF IndInv, RepliesInv, ReplyFits
<1>9. /\ TypeOK' /\ KeysInv' /\ AttemptsInv' /\ ClaimsInv' /\ ServicesInv'
      /\ RepliesInv'
      /\ \A f \in DOMAIN events : events[f].order # o => EventFits(f)'
      /\ \A p \in DOMAIN orders : p # o => OrderFits(p)'
  <2>1. /\ orders[o].margin # "NONE" => new.margin # "NONE"
        /\ \A f \in DOMAIN events :
             events[f].kind = "ReleaseMargin" /\ events[f].order = o =>
               new.reservation = orders[o].reservation
    BY <1>2, <1>3, <1>5, <1>6
  <2> QED
    BY <2>1, <1>3, SettlesRest, Zenon
<1>10. ASSUME NEW f \in DOMAIN events, events[f].order = o
       PROVE  EventFits(f)'
  <2>1. EventFits(f) /\ events[f] \in OutboxEvent
    BY Elements DEF IndInv, EventsInv
  <2>2. f # e => events'[f] = events[f]
    BY <1>3 DEF Settles
  <2>3. f # e => events[f].kind # events[e].kind
    BY <1>1, <1>5, <1>10 DEF IndInv, EventsInv
  <2>4. CASE f = e
    BY <2>4, <1>2, <1>4, <1>5, <1>6, <1>7 DEF EventsGrow, EventFits,
       ReleaseFits, Open, OrderIs
  <2>5. CASE f # e
    <3>1. events[f].kind \in {"ReserveMargin", "RouteExchange"}
      BY <2>1, <2>3, <2>5, <1>5 DEF OutboxEvent, EventKind
    <3>2. events[f].state = "DELIVERED"
      BY <2>1, <3>1, <1>6, <1>10 DEF EventFits, ReserveFits, RouteFits, Open,
         OrderIs, OutboxEvent, EventState
    <3>3. CASE events[f].kind = "ReserveMargin"
      BY <3>2, <3>3, <2>1, <2>2, <2>5, <1>2, <1>5, <1>6, <1>10
         DEF EventFits, ReserveFits, Open, OrderIs
    <3>4. CASE events[f].kind = "RouteExchange"
      BY <3>2, <3>4, <2>1, <2>2, <2>5, <1>2, <1>5, <1>6, <1>10
         DEF EventFits, RouteFits, Open, OrderIs
    <3> QED
      BY <3>1, <3>3, <3>4
  <2> QED
    BY <2>4, <2>5
<1>12. OrderFits(o)'
  <2>1. /\ orders'[o].reservation = orders[o].reservation
        /\ orders'[o].margin = "RELEASED"
        /\ orders[o].margin = "RELEASE_PENDING"
        /\ orders'[o].status # "ACCEPTED"
    BY <1>2, <1>5, <1>6
  <2> QED
    BY <2>1, <1>5, <1>7, OrderKept
<1>11. EventsInv'
  BY <1>1, <1>4, <1>5, <1>9, <1>10 DEF IndInv, EventsInv, EventsGrow
<1>13. OrdersInv'
  BY <1>5, <1>9, <1>12 DEF OrdersInv
<1> QED
  BY <1>9, <1>11, <1>13 DEF IndInv

\* The exchange rejected: the margin is to be released.
LEMMA RouteRejectedStep ==
  ASSUME IndInv, NEW w \in Worker, RouteRejected(w)
  PROVE  IndInv'
<1>c. PICK e : e = Current(w).event
  OBVIOUS
<1>o. PICK o : o = EventOf(w).order
  OBVIOUS
<1>x. PICK new : new = [OrderOf(w) EXCEPT !.status = "REJECTED",
                                          !.margin = "RELEASE_PENDING"]
  OBVIOUS
<1>0. /\ Delivering(w) /\ HoldsLease(w) /\ reply[w] = "no"
      /\ EventOf(w).kind = "RouteExchange"
      /\ Finalize(w, new, <<NewEvent(EventOf(w).order, "ReleaseMargin")>>)
  BY <1>x DEF RouteRejected, Answered, Finalize
<1>1. /\ OrderOf(w) \in Order /\ Current(w) = batch[w][1]
      /\ e \in DOMAIN events /\ e \in EventID
  BY <1>0, <1>c, Held, Elements DEF IndInv
<1>2. /\ new \in Order /\ new.key = OrderOf(w).key
      /\ new.reservation = OrderOf(w).reservation
      /\ new.status = "REJECTED" /\ new.margin = "RELEASE_PENDING"
  BY <1>1, <1>x, Zenon DEF Order, OrderStatus, MarginState
<1>3. /\ Settles(w, e, o, new) /\ events'[e].state = "DELIVERED"
      /\ \E m : /\ DOMAIN events' = DOMAIN events \cup {m}
                /\ m \notin DOMAIN events
                /\ events'[m].order = o
                /\ events'[m].kind = "ReleaseMargin"
                /\ events'[m].state = "PENDING"
  <2>1. "ReleaseMargin" \in EventKind
    BY DEF EventKind
  <2> QED
    BY ZenonT(60), <2>1, <1>c, <1>o, <1>0, <1>2, FinalizeNext
<1>4. PICK m : /\ DOMAIN events' = DOMAIN events \cup {m}
               /\ m \notin DOMAIN events
               /\ events'[m].order = o
               /\ events'[m].kind = "ReleaseMargin"
               /\ events'[m].state = "PENDING"
  BY <1>3
<1>5. /\ o \in DOMAIN orders /\ events[e].order = o
      /\ events[e].kind = "RouteExchange" /\ OrderOf(w) = orders[o]
      /\ Open(e) /\ EventFits(e) /\ OrderFits(o)
      /\ DOMAIN orders' = DOMAIN orders /\ orders'[o] = new
      /\ EventsGrow /\ UNCHANGED <<hold, exchange>>
  <2>1. EventsGrow /\ UNCHANGED <<hold, exchange>>
    BY <1>3 DEF Settles
  <2>2. /\ o \in DOMAIN orders /\ events[e].order = o
        /\ EventOf(w) = events[e] /\ OrderOf(w) = orders[o]
        /\ Open(e) /\ EventFits(e) /\ OrderFits(o)
        /\ DOMAIN orders' = DOMAIN orders /\ orders'[o] = new
    BY <1>3, SettlesFacts, SMTT(60)
  <2> QED
    BY <2>1, <2>2, <1>0
<1>6. orders[o].status = "PENDING_ROUTE" /\ orders[o].margin = "RESERVED"
  BY <1>5 DEF EventFits, RouteFits, OrderIs
<1>7. exchange[e] = "rejected"
  BY <1>0, <1>1, <1>5, <1>c, Zenon DEF IndInv, RepliesInv, ReplyFits
<1>8. \A f \in DOMAIN events : events[f].order = o =>
        events[f].kind # "ReleaseMargin"
  <2>1. ASSUME NEW f \in DOMAIN events, events[f].order = o
        PROVE  events[f].kind # "ReleaseMargin"
    <3>1. EventFits(f) /\ events[f] \in OutboxEvent
      BY Elements DEF IndInv, EventsInv
    <3> QED
      BY <2>1, <3>1, <1>6 DEF EventFits, ReleaseFits, Open, OrderIs,
         OutboxEvent, EventKind, EventState
  <2> QED
    BY <2>1
<1>9. /\ TypeOK' /\ KeysInv' /\ AttemptsInv' /\ ClaimsInv' /\ ServicesInv'
      /\ RepliesInv'
      /\ \A f \in DOMAIN events : events[f].order # o => EventFits(f)'
      /\ \A p \in DOMAIN orders : p # o => OrderFits(p)'
  <2>1. /\ orders[o].margin # "NONE" => new.margin # "NONE"
        /\ \A f \in DOMAIN events :
             events[f].kind = "ReleaseMargin" /\ events[f].order = o =>
               new.reservation = orders[o].reservation
    BY <1>2, <1>3, <1>5, <1>6
  <2> QED
    BY <2>1, <1>3, SettlesRest, Zenon
<1>10. ASSUME NEW f \in DOMAIN events, events[f].order = o
       PROVE  EventFits(f)'
  <2>1. EventFits(f) /\ events[f] \in OutboxEvent
    BY Elements DEF IndInv, EventsInv
  <2>2. f # e => events'[f] = events[f]
    BY <1>3 DEF Settles
  <2>3. f # e => events[f].kind # events[e].kind
    BY <1>1, <1>5, <1>10 DEF IndInv, EventsInv
  <2>4. CASE f = e
    BY <2>4, <1>2, <1>3, <1>5, <1>6, <1>7 DEF EventsGrow, EventFits,
       RouteFits, Open, OrderIs
  <2>5. CASE f # e
    <3>1. events[f].kind \in {"ReserveMargin", "ReleaseMargin"}
      BY <2>1, <2>3, <2>5, <1>5 DEF OutboxEvent, EventKind
    <3>2. events[f].kind = "ReserveMargin" /\ events[f].state = "DELIVERED"
      BY <2>1, <3>1, <1>6, <1>10 DEF EventFits, ReserveFits, ReleaseFits, Open,
         OrderIs, OutboxEvent, EventState
    <3> QED
      BY <3>2, <2>1, <2>2, <2>5, <1>2, <1>5, <1>6, <1>10
         DEF EventFits, ReserveFits, Open, OrderIs
  <2> QED
    BY <2>4, <2>5
<1>a. EventFits(m)'
  BY <1>2, <1>4, <1>5 DEF EventFits, ReleaseFits, Open, OrderIs
<1>11. EventsInv'
  <2>1. ASSUME NEW f \in DOMAIN events', NEW g \in DOMAIN events',
               events'[f].order = events'[g].order,
               events'[f].kind = events'[g].kind
        PROVE  f = g
    BY SMTT(40), <2>1, <1>4, <1>5, <1>8 DEF IndInv, EventsInv, EventsGrow
  <2> QED
    BY <2>1, <1>4, <1>9, <1>10, <1>a DEF EventsInv
<1>12. OrderFits(o)'
  BY SMTT(40), <1>1, <1>2, <1>4, <1>5, <1>6, <1>7 DEF OrderFits, EventsGrow
<1>13. OrdersInv'
  BY <1>5, <1>9, <1>12 DEF OrdersInv
<1> QED
  BY <1>9, <1>11, <1>13 DEF IndInv

\* The outcome stays unknown: the order goes to reconciliation.
LEMMA AbandonSettles ==
  ASSUME IndInv, NEW w \in Worker, Abandon(w)
  PROVE  \E e, o, new :
           /\ Settles(w, e, o, new)
           /\ new.status = "RECONCILIATION_REQUIRED"
           /\ new.margin = orders[o].margin
           /\ new.reservation = orders[o].reservation
           /\ DOMAIN events' = DOMAIN events
           /\ events'[e].state = "DEAD"
<1>c. PICK e : e = Current(w).event
  OBVIOUS
<1>o. PICK o : o = EventOf(w).order
  OBVIOUS
<1>x. PICK new : new = [OrderOf(w) EXCEPT !.status = "RECONCILIATION_REQUIRED"]
  BY Zenon
<1>0. /\ Delivering(w) /\ HoldsLease(w) /\ NextInBatch(w)
      /\ orders' = [orders EXCEPT ![o] = new]
      /\ events' = [events EXCEPT ![e] = Dead(events[e])]
      /\ UNCHANGED <<byIdempotency, hold, exchange, now, stops, overruns>>
  BY <1>c, <1>o, <1>x DEF Abandon, EventOf, remote, faults
<1>1. /\ OrderOf(w) \in Order /\ EventOf(w) = events[e]
      /\ e \in DOMAIN events /\ events[e] \in OutboxEvent
      /\ events[e].attempts < MaxAttempts /\ events[e].state = "PROCESSING"
  BY <1>0, <1>c, Held DEF EventOf
<1>2. /\ new \in Order /\ new.key = OrderOf(w).key
      /\ new.reservation = OrderOf(w).reservation
      /\ new.status = "RECONCILIATION_REQUIRED"
      /\ new.margin = OrderOf(w).margin
  BY <1>1, <1>x DEF Order, OrderStatus
<1>a. /\ Dead(events[e]) \in OutboxEvent /\ Dead(events[e]).state = "DEAD"
      /\ Dead(events[e]).order = events[e].order
      /\ Dead(events[e]).kind = events[e].kind
      /\ Dead(events[e]).token = events[e].token
  BY <1>1, SettledTypes, Zenon DEF Dead, OutboxEvent
<1>b. events \in Seq(OutboxEvent) /\ Len(events) <= MaxEvents
  BY DEF IndInv, TypeOK
<1>4. /\ events' \in Seq(OutboxEvent) /\ Len(events') = Len(events)
      /\ DOMAIN events' = DOMAIN events /\ events'[e] = Dead(events[e])
      /\ \A f \in DOMAIN events \ {e} : events'[f] = events[f]
  BY <1>0, <1>1, <1>a, <1>b, SeqReplace
<1>d. EventsGrow
  BY <1>1, <1>4, <1>a DEF EventsGrow
<1>e. AttemptsInv'
  BY <1>4, <1>a DEF IndInv, AttemptsInv
<1>3. Settles(w, e, o, new)
  BY <1>c, <1>o, <1>0, <1>1, <1>2, <1>4, <1>a, <1>b, <1>d, <1>e DEF Settles
<1>5. OrderOf(w) = orders[o]
  BY SMTT(40), <1>3, SettlesFacts
<1> QED
  BY <1>2, <1>3, <1>4, <1>5, <1>a

\* The saga stops.
LEMMA AbandonStep ==
  ASSUME IndInv, NEW w \in Worker, Abandon(w)
  PROVE  IndInv'
<1>0. PICK e, o, new :
        /\ Settles(w, e, o, new)
        /\ new.status = "RECONCILIATION_REQUIRED"
        /\ new.margin = orders[o].margin
        /\ new.reservation = orders[o].reservation
        /\ DOMAIN events' = DOMAIN events
        /\ events'[e].state = "DEAD"
  BY AbandonSettles
<1>1. UNCHANGED <<hold, exchange>> /\ EventsGrow
      /\ \A f \in DOMAIN events \ {e} : events'[f] = events[f]
  BY <1>0 DEF Settles
<1>5. /\ o \in DOMAIN orders /\ events[e].order = o
      /\ Open(e) /\ EventFits(e) /\ OrderFits(o) /\ e \in DOMAIN events
      /\ DOMAIN orders' = DOMAIN orders /\ orders'[o] = new
  BY SMTT(40), <1>0, SettlesFacts
<1>9. /\ TypeOK' /\ KeysInv' /\ AttemptsInv' /\ ClaimsInv' /\ ServicesInv'
      /\ RepliesInv'
      /\ \A f \in DOMAIN events : events[f].order # o => EventFits(f)'
      /\ \A p \in DOMAIN orders : p # o => OrderFits(p)'
  <2>1. /\ orders[o].margin # "NONE" => new.margin # "NONE"
        /\ \A f \in DOMAIN events :
             events[f].kind = "ReleaseMargin" /\ events[f].order = o =>
               new.reservation = orders[o].reservation
    BY <1>0, <1>5
  <2> QED
    BY <2>1, <1>0, SettlesRest, Zenon
<1>10. ASSUME NEW f \in DOMAIN events, events[f].order = o
       PROVE  EventFits(f)'
  <2>1. EventFits(f) /\ events[f] \in OutboxEvent /\ events[e] \in OutboxEvent
    BY <1>5, Elements DEF IndInv, EventsInv
  <2>3. f # e => events[f].kind # events[e].kind
    BY <1>5, <1>10 DEF IndInv, EventsInv
  <2>4. CASE f = e
    BY <2>4, <1>0, <1>1, <1>5 DEF EventsGrow, EventFits,
       ReserveFits, RouteFits, ReleaseFits, Open, OrderIs
  <2>5. CASE f # e
    BY ZenonT(60), <2>1, <2>3, <2>5, <1>0, <1>1, <1>5, <1>10 DEF EventFits,
       ReserveFits, RouteFits, ReleaseFits, Open, OrderIs, OutboxEvent,
       EventKind, EventState
  <2> QED
    BY <2>4, <2>5
<1>11. EventsInv'
  BY <1>0, <1>1, <1>9, <1>10, Zenon DEF IndInv, EventsInv, EventsGrow
<1>12. OrderFits(o)'
  <2>1. /\ orders'[o].reservation = orders[o].reservation
        /\ orders'[o].margin = orders[o].margin
        /\ orders'[o].status # "ACCEPTED"
    BY <1>0, <1>5
  <2>2. orders[o].margin = "RELEASED" => hold[orders[o].reservation] = "released"
    BY <1>5 DEF OrderFits
  <2> QED
    BY <2>1, <2>2, <1>1, <1>5, OrderKept, Zenon
<1>13. OrdersInv'
  BY <1>5, <1>9, <1>12 DEF OrdersInv
<1> QED
  BY <1>9, <1>11, <1>13 DEF IndInv

----------------------------------------------------------------------------
(* Claiming.                                                               *)

\* A batch is a duplicate-free sequence of due events.
LEMMA BatchesFacts ==
  ASSUME TypeOK, NEW s \in Batches
  PROVE  /\ \E n \in Nat : DOMAIN s = 1..n
         /\ \A i \in DOMAIN s : s[i] \in Due
         /\ \A i, j \in DOMAIN s : s[i] = s[j] => i = j
<1> DEFINE n == IF Cardinality(Due) < BatchLimit THEN Cardinality(Due)
                                                 ELSE BatchLimit
<1>1. n \in Nat
  <2>1. DOMAIN events = 1..Len(events) /\ Len(events) \in Nat
    BY DEF TypeOK
  <2>2. IsFiniteSet(1..Len(events))
    BY <2>1, FS_Interval
  <2>3. Due \subseteq 1..Len(events)
    BY <2>1 DEF Due
  <2>4. Cardinality(Due) \in Nat
    BY <2>2, <2>3, FS_Subset, FS_CardinalityType, Zenon
  <2> QED
    BY <2>4, PolicyAssumption
<1>2. /\ s \in [1..n -> Due]
      /\ \A i, j \in 1..n : i < j => s[i] # s[j]
  BY DEF Batches
<1> HIDE DEF n
<1>3. DOMAIN s = 1..n
  BY <1>2
<1>4. ASSUME NEW i \in 1..n, NEW j \in 1..n, s[i] = s[j] PROVE i = j
  <2>1. i \in Int /\ j \in Int
    BY <1>1
  <2>2. ~(i < j) /\ ~(j < i)
    BY <1>2, <1>4
  <2> QED
    BY <2>1, <2>2
<1> QED
  BY <1>1, <1>2, <1>3, <1>4

\* A claimed event.
LEMMA LeasedFacts ==
  ASSUME NEW event \in OutboxEvent, now + LeaseFor \in Nat
  PROVE  /\ Leased(event) \in OutboxEvent
         /\ Leased(event).state = "PROCESSING"
         /\ Leased(event).token = event.token + 1
         /\ Leased(event).leaseUntil = now + LeaseFor
         /\ Leased(event).order = event.order
         /\ Leased(event).kind = event.kind
         /\ Leased(event).attempts = event.attempts
<1>1. event.token + 1 \in Nat /\ "PROCESSING" \in EventState
  BY DEF OutboxEvent, EventState
<1>2. Leased(event) \in OutboxEvent
  BY <1>1, Zenon DEF Leased, OutboxEvent
<1> QED
  BY <1>2 DEF Leased, OutboxEvent

\* MemoryStore.ClaimDue.
LEMMA ClaimDueStep ==
  ASSUME IndInv, NEW w \in Worker, ClaimDue(w)
  PROVE  IndInv'
<1> DEFINE claim(e) == [event |-> e, token |-> events[e].token + 1,
                        attempts |-> events[e].attempts,
                        leaseUntil |-> now + LeaseFor]
<1>1. PICK s \in Batches :
        /\ events' = [e \in DOMAIN events |->
                        IF \E i \in DOMAIN s : s[i] = e THEN Leased(events[e])
                                                        ELSE events[e]]
        /\ batch' = [batch EXCEPT ![w] = [i \in DOMAIN s |-> claim(s[i])]]
  BY Zenon DEF ClaimDue
<1>2. /\ batch[w] = <<>>
      /\ UNCHANGED <<orders, byIdempotency, hold, exchange, reply, now,
                     stops, overruns>>
  BY DEF ClaimDue, remote, faults
<1>3. /\ TypeOK /\ now \in Nat /\ now + LeaseFor \in Nat
      /\ batch \in [Worker -> Seq(Claim)]
      /\ events \in Seq(OutboxEvent) /\ DOMAIN events = 1..Len(events)
      /\ Len(events) \in Nat
  BY BoundsAssumption, PolicyAssumption DEF IndInv, TypeOK
<1>4. PICK n \in Nat : DOMAIN s = 1..n
  BY <1>3, BatchesFacts
<1>5. /\ \A i \in DOMAIN s : s[i] \in Due
      /\ \A i, j \in DOMAIN s : s[i] = s[j] => i = j
  BY <1>3, BatchesFacts
<1>6. \A e \in Due : /\ e \in DOMAIN events /\ Open(e) /\ e \in EventID
                     /\ events[e] \in OutboxEvent
                     /\ events[e].state = "PROCESSING" =>
                          events[e].leaseUntil <= now
  BY <1>3, Elements DEF Due, Open
<1> DEFINE Taken == {s[i] : i \in DOMAIN s}
<1>7. /\ Taken \subseteq Due
      /\ DOMAIN events' = DOMAIN events
      /\ \A e \in DOMAIN events : e \notin Taken => events'[e] = events[e]
      /\ \A e \in Taken : events'[e] = Leased(events[e])
  BY <1>1, <1>5, <1>6
<1>8. \A e \in Taken :
        /\ events'[e] \in OutboxEvent
        /\ events'[e].state = "PROCESSING"
        /\ events'[e].token = events[e].token + 1
        /\ events'[e].leaseUntil = now + LeaseFor
        /\ events'[e].order = events[e].order
        /\ events'[e].kind = events[e].kind
        /\ events'[e].attempts = events[e].attempts
  BY SMTT(40), <1>3, <1>6, <1>7, LeasedFacts
<1>9. ASSUME NEW i \in DOMAIN s PROVE claim(s[i]) \in Claim
  <2>1. s[i] \in EventID /\ events[s[i]] \in OutboxEvent
    BY <1>5, <1>6
  <2>2. now + LeaseFor \in Nat
    BY <1>3
  <2>3. events[s[i]].token + 1 \in Nat /\ events[s[i]].attempts \in 0..MaxAttempts
    BY <2>1 DEF OutboxEvent
  <2> QED
    BY SMTT(20), <2>1, <2>2, <2>3 DEF Claim
<1> HIDE DEF Taken
<1>10. TypeOK'
  <2>1. events' \in Seq(OutboxEvent) /\ Len(events') = Len(events)
    <3>1. \A e \in DOMAIN events : events'[e] \in OutboxEvent
      BY SMTT(40), <1>3, <1>7, <1>8
    <3>2. events' \in [1..Len(events) -> OutboxEvent]
      BY <3>1, <1>1, <1>3
    <3> QED
      BY <3>2, <1>3
  <2>2. [i \in DOMAIN s |-> claim(s[i])] \in Seq(Claim)
    <3>1. [i \in DOMAIN s |-> claim(s[i])] \in [1..n -> Claim]
      BY <1>4, <1>9
    <3> QED
      BY SMTT(40), <3>1, <1>4
  <2>3. batch' \in [Worker -> Seq(Claim)]
    BY <2>2, <1>1, <1>3
  <2> QED
    BY <2>1, <2>3, <1>2 DEF IndInv, TypeOK
<1>11. KeysInv'
  BY <1>2 DEF IndInv, KeysInv
<1>12. AttemptsInv'
  BY <1>6, <1>7, <1>8 DEF IndInv, AttemptsInv, Open
<1>13. EventsGrow
  BY <1>6, <1>7, <1>8 DEF EventsGrow, Open
<1>14. /\ DOMAIN batch'[w] = DOMAIN s
       /\ \A i \in DOMAIN s :
            /\ s[i] \in Taken
            /\ batch'[w][i].event = s[i]
            /\ batch'[w][i].token = events[s[i]].token + 1
            /\ batch'[w][i].attempts = events[s[i]].attempts
            /\ batch'[w][i].leaseUntil = now + LeaseFor
       /\ \A v \in Worker : v # w => batch'[v] = batch[v]
  BY <1>1, <1>3 DEF Taken
<1>15. ClaimsInv'
  <2>1. ASSUME NEW v \in Worker, NEW i \in DOMAIN batch[v]
        PROVE  /\ ClaimFits(batch[v][i])
               /\ batch[v][i].token \in Nat /\ batch[v][i].leaseUntil \in Nat
    BY Elements DEF IndInv, ClaimsInv
  <2>2. ASSUME NEW v \in Worker, v # w, NEW i \in DOMAIN batch[v]
        PROVE  ClaimFits(batch[v][i])'
    <3> DEFINE c == batch[v][i]
    <3>1. CASE c.event \notin Taken
      <4>1. c.event \in DOMAIN events
        BY <2>1 DEF ClaimFits
      <4>2. DOMAIN events' = DOMAIN events /\ events'[c.event] = events[c.event]
        BY <4>1, <3>1, <1>7
      <4>3. batch'[v] = batch[v] /\ now' = now
        BY <2>2, <1>2, <1>14
      <4> QED
        BY <2>1, <4>2, <4>3 DEF ClaimFits
    <3>2. CASE c.event \in Taken
      <4>1. /\ c.event \in Due /\ events[c.event].token \in Nat
            /\ events[c.event].leaseUntil \in Nat
        BY <3>2, <1>6, <1>7 DEF OutboxEvent
      <4>2. ~(c.leaseUntil > now)
        <5>1. /\ events[c.event].state = "PROCESSING" =>
                   events[c.event].leaseUntil <= now
              /\ now \in Nat
          BY <4>1, <1>3, <1>6
        <5> QED
          BY <5>1, <4>1, <2>1 DEF ClaimFits
      <4>3. c.token < events'[c.event].token
        <5>1. c.token <= events[c.event].token /\ c.token \in Nat
          BY <2>1 DEF ClaimFits
        <5>2. events'[c.event].token = events[c.event].token + 1
          BY <3>2, <1>8
        <5> QED
          BY <5>1, <5>2, <4>1
      <4>4. /\ c.event \in DOMAIN events' /\ c.token \in Nat
            /\ events'[c.event].token \in Nat
        <5>1. c.event \in DOMAIN events'
          BY <4>1, <1>6, <1>7
        <5>2. events'[c.event].token = events[c.event].token + 1
          BY <3>2, <1>8
        <5> QED
          BY <5>1, <5>2, <4>1, <2>1
      <4>5. batch'[v][i] = c /\ now' = now
        BY <2>2, <1>2, <1>14
      <4> HIDE DEF c
      <4> QED
        BY <4>2, <4>3, <4>4, <4>5 DEF ClaimFits
    <3> QED
      BY <3>1, <3>2
  <2>3. ASSUME NEW i \in DOMAIN s PROVE ClaimFits(batch[w][i])'
    <3>1. s[i] \in Taken /\ s[i] \in DOMAIN events /\ events[s[i]].token \in Nat
      BY <1>5, <1>6, <1>14 DEF OutboxEvent
    <3>2. /\ batch'[w][i].event = s[i] /\ s[i] \in DOMAIN events'
          /\ batch'[w][i].token = events'[s[i]].token
          /\ events'[s[i]].token \in Nat
          /\ events'[s[i]].state = "PROCESSING"
          /\ batch'[w][i].leaseUntil = events'[s[i]].leaseUntil
          /\ batch'[w][i].attempts = events'[s[i]].attempts
      <4>1. /\ batch'[w][i].event = s[i]
            /\ batch'[w][i].token = events[s[i]].token + 1
            /\ batch'[w][i].leaseUntil = now + LeaseFor
            /\ batch'[w][i].attempts = events[s[i]].attempts
        BY <1>14
      <4>2. /\ events'[s[i]].token = events[s[i]].token + 1
            /\ events'[s[i]].leaseUntil = now + LeaseFor
            /\ events'[s[i]].attempts = events[s[i]].attempts
            /\ events'[s[i]].state = "PROCESSING"
        BY <3>1, <1>8
      <4>3. s[i] \in DOMAIN events' /\ events[s[i]].token + 1 \in Nat
        BY <3>1, <1>7
      <4> QED
        BY <4>1, <4>2, <4>3
    <3> QED
      BY <3>2 DEF ClaimFits
  <2>4. ASSUME NEW v \in Worker, v # w, NEW i \in DOMAIN batch[v],
               NEW j \in DOMAIN s
        PROVE  ~SameClaim(batch[v][i], batch'[w][j])
    <3>1. s[j] \in DOMAIN events /\ events[s[j]].token \in Nat
      BY <1>5, <1>6 DEF OutboxEvent
    <3> QED
      <4>1. /\ batch[v][i].token <= events[batch[v][i].event].token
            /\ batch[v][i].token \in Nat
        BY <2>1 DEF ClaimFits
      <4>2. /\ batch'[w][j].event = s[j]
            /\ batch'[w][j].token = events[s[j]].token + 1
        BY <1>14
      <4> QED
        BY <3>1, <4>1, <4>2 DEF SameClaim
  <2>5. ASSUME NEW i \in DOMAIN s, NEW j \in DOMAIN s,
               SameClaim(batch'[w][i], batch'[w][j])
        PROVE  i = j
    BY <2>5, <1>5, <1>14 DEF SameClaim
  <2>6. ASSUME NEW u \in Worker, NEW v \in Worker,
               NEW i \in DOMAIN batch'[u], NEW j \in DOMAIN batch'[v],
               SameClaim(batch'[u][i], batch'[v][j])
        PROVE  u = v /\ i = j
    <3>1. SameClaim(batch'[v][j], batch'[u][i])
      BY <2>6 DEF SameClaim
    <3>2. CASE u = w /\ v = w
      BY <3>2, <2>5, <2>6, <1>14
    <3>3. CASE u # w /\ v # w
      BY SMTT(40), <3>3, <2>6, <1>14 DEF IndInv, ClaimsInv
    <3>4. CASE u = w /\ v # w
      BY <3>1, <3>4, <2>4, <1>14
    <3>5. CASE u # w /\ v = w
      BY <3>5, <2>4, <2>6, <1>14
    <3> QED
      BY <3>2, <3>3, <3>4, <3>5
  <2>7. ASSUME NEW v \in Worker, NEW i \in DOMAIN batch'[v]
        PROVE  ClaimFits(batch[v][i])'
    BY <2>2, <2>3, <1>14
  <2> QED
    BY <2>6, <2>7 DEF ClaimsInv
<1>16. EventsInv'
  <2>1. ASSUME NEW f \in DOMAIN events PROVE EventFits(f)'
    <3>1. EventFits(f)
      BY DEF IndInv, EventsInv
    <3>2. /\ events'[f].order = events[f].order
          /\ events'[f].kind = events[f].kind
          /\ \/ events'[f].state = events[f].state
             \/ Open(f) /\ events'[f].state \in {"PENDING", "RETRY", "PROCESSING"}
      BY <1>6, <1>7, <1>8
    <3> QED
      <4>1. events[f].kind = "ReserveMargin" => ReserveFits(f)'
        BY <3>1, <3>2, <1>2 DEF EventFits, ReserveFits, Open, OrderIs
      <4>2. events[f].kind = "RouteExchange" => RouteFits(f)'
        BY <3>1, <3>2, <1>2 DEF EventFits, RouteFits, Open, OrderIs
      <4>3. events[f].kind = "ReleaseMargin" => ReleaseFits(f)'
        BY <3>1, <3>2, <1>2 DEF EventFits, ReleaseFits, Open, OrderIs
      <4> QED
        BY <4>1, <4>2, <4>3, <3>1, <3>2, <1>2 DEF EventFits
  <2> QED
    BY <2>1, <1>7, <1>13 DEF IndInv, EventsInv, EventsGrow
<1>17. OrdersInv'
  BY <1>2, <1>13, OrderFrame DEF IndInv, OrdersInv
<1>18. ServicesInv'
  BY <1>2, <1>7, <1>13, Zenon DEF IndInv, ServicesInv, EventsGrow
<1>19. RepliesInv'
  <2> SUFFICES ASSUME NEW v \in Worker, reply[v] # "none"
               PROVE  (batch[v] # <<>> /\ ReplyFits(batch[v][1].event, reply[v]))'
    BY <1>2, Zenon DEF RepliesInv
  <2>1. batch[v] # <<>> /\ ReplyFits(batch[v][1].event, reply[v])
    BY DEF IndInv, RepliesInv
  <2>2. batch'[v] = batch[v] /\ batch[v][1].event \in DOMAIN events
    BY <2>1, <1>2, <1>14, Heads
  <2> QED
    BY <2>1, <2>2, <1>2, <1>13, Zenon DEF ReplyFits, EventsGrow
<1> QED
  BY <1>10, <1>11, <1>12, <1>15, <1>16, <1>17, <1>18, <1>19 DEF IndInv

----------------------------------------------------------------------------
(* The theorems.                                                           *)

\* Every step preserves the invariant.
LEMMA NextIndInv == IndInv /\ [Next]_vars => IndInv'
<1> SUFFICES ASSUME IndInv, [Next]_vars PROVE IndInv'
  OBVIOUS
<1>1. CASE UNCHANGED vars
  <2>1. UNCHANGED <<orders, byIdempotency, events, hold, exchange, batch,
                    reply, now, stops, overruns>>
    BY <1>1 DEF vars
  <2>2. TypeOK'
    BY <2>1 DEF IndInv, TypeOK
  <2>3. RepliesInv'
    BY <2>1, Zenon DEF IndInv, RepliesInv, ReplyFits
  <2>4. ClaimsInv'
    BY ZenonT(60), <2>1 DEF IndInv, ClaimsInv, ClaimFits, SameClaim
  <2> QED
    BY <2>1, <2>2, <2>3, <2>4, StoreFrame DEF IndInv
<1>2. CASE Tick
  BY <1>2, TickStep
<1>3. ASSUME NEW k \in Key, NEW h \in Hash, Place(k, h) PROVE IndInv'
  BY <1>3, PlaceStep
<1>4. ASSUME NEW w \in Worker, Call(w) PROVE IndInv'
  BY <1>4, CallReserveStep, CallRouteStep, CallReleaseStep DEF Call
<1>5. ASSUME NEW w \in Worker, Settle(w) PROVE IndInv'
  BY <1>5, ReserveApprovedStep, ReserveDeclinedStep, RouteAcceptedStep,
     RouteRejectedStep, ReleaseDoneStep, RetryStep, AbandonStep, LeaseLostStep
     DEF Settle
<1>6. ASSUME NEW w \in Worker, ClaimDue(w) \/ Stop(w) PROVE IndInv'
  BY <1>6, ClaimDueStep, StopStep
<1> QED
  BY <1>1, <1>2, <1>3, <1>4, <1>5, <1>6 DEF Next

\* The store, the claims and the services always agree (IndInv), whatever the
\* interleaving of workers, crashes and lapsing leases.
THEOREM Agreement == Spec => []IndInv
  BY InitIndInv, NextIndInv, PTL DEF Spec

============================================================================
