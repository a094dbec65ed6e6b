------------------------- MODULE OrderOutboxLemmas -------------------------
(* The steps of OrderOutbox that settle no event keep its invariant, and   *)
(* what a settlement keeps; for any workers, keys, bounds and policy.      *)
EXTENDS OrderOutbox, SequenceTheorems, FiniteSetTheorems, TLAPS

\* Replacing one element of a sequence keeps its type, its length and its
\* other elements.
LEMMA SeqReplace ==
  ASSUME NEW S, NEW s \in Seq(S), NEW i \in DOMAIN s, NEW x \in S
  PROVE  /\ [s EXCEPT ![i] = x] \in Seq(S)
         /\ DOMAIN [s EXCEPT ![i] = x] = DOMAIN s
         /\ Len([s EXCEPT ![i] = x]) = Len(s)
         /\ \A j \in DOMAIN s :
              [s EXCEPT ![i] = x][j] = IF j = i THEN x ELSE s[j]
  OBVIOUS

\* Appending keeps the elements in place and adds the new one at the end.
LEMMA SeqAppend ==
  ASSUME NEW S, NEW s \in Seq(S), NEW x \in S
  PROVE  /\ Append(s, x) \in Seq(S)
         /\ Len(Append(s, x)) = Len(s) + 1
         /\ DOMAIN Append(s, x) = 1..(Len(s) + 1)
         /\ DOMAIN s = 1..Len(s)
         /\ \A j \in DOMAIN s : Append(s, x)[j] = s[j]
         /\ Append(s, x)[Len(s) + 1] = x
  OBVIOUS

\* Appending a one-element or an empty sequence.
LEMMA SeqConcat ==
  ASSUME NEW S, NEW s \in Seq(S), NEW x \in S
  PROVE  s \o <<>> = s /\ s \o <<x>> = Append(s, x)
  OBVIOUS

\* The rest of a batch: every claim of it was in the batch, one place later.
LEMMA SeqTail ==
  ASSUME NEW S, NEW s \in Seq(S), s # <<>>
  PROVE  /\ Head(s) = s[1] /\ 1 \in DOMAIN s /\ s[1] \in S
         /\ Tail(s) \in Seq(S)
         /\ \A j \in DOMAIN Tail(s) :
              j + 1 \in DOMAIN s /\ Tail(s)[j] = s[j + 1] /\ j + 1 # 1
  OBVIOUS

\* The elements of the typed sequences.
LEMMA Elements ==
  ASSUME TypeOK
  PROVE  /\ \A w \in Worker : \A i \in DOMAIN batch[w] :
              /\ batch[w][i].event \in EventID
              /\ batch[w][i].token \in Nat
              /\ batch[w][i].attempts \in 0..MaxAttempts
              /\ batch[w][i].leaseUntil \in Nat
         /\ \A e \in DOMAIN events : events[e] \in OutboxEvent /\ e \in EventID
         /\ \A o \in DOMAIN orders : orders[o] \in Order /\ o \in OrderID
<1>1. ASSUME NEW w \in Worker, NEW i \in DOMAIN batch[w]
      PROVE  batch[w][i] \in Claim
  <2>1. batch[w] \in Seq(Claim)
    BY DEF TypeOK
  <2> QED
    BY <2>1
<1>2. \A e \in DOMAIN events : events[e] \in OutboxEvent /\ e \in EventID
  BY BoundsAssumption DEF TypeOK, EventID
<1>3. \A o \in DOMAIN orders : orders[o] \in Order /\ o \in OrderID
  BY BoundsAssumption DEF TypeOK, OrderID
<1> QED
  BY <1>1, <1>2, <1>3 DEF Claim

----------------------------------------------------------------------------
(* The initial state.                                                      *)

\* The empty store satisfies the invariant.
LEMMA InitIndInv == Init => IndInv
<1> SUFFICES ASSUME Init PROVE IndInv
  OBVIOUS
<1>1. TypeOK
  BY BoundsAssumption DEF Init, TypeOK, OrderID, EventID, HoldState,
     ExchangeState, Reply
<1>2. /\ KeysInv /\ AttemptsInv /\ ClaimsInv /\ EventsInv /\ OrdersInv
      /\ ServicesInv /\ RepliesInv
  BY DEF Init, KeysInv, AttemptsInv, ClaimsInv, EventsInv, EventFits, OrdersInv, OrderFits,
     ServicesInv, RepliesInv
<1> QED
  BY <1>1, <1>2 DEF IndInv

----------------------------------------------------------------------------
(* Steps that leave the store alone.                                       *)

\* The parts of the invariant that a worker and the clock cannot disturb.
LEMMA StoreFrame ==
  ASSUME IndInv,
         UNCHANGED <<orders, byIdempotency, events, hold, exchange>>
  PROVE  KeysInv' /\ AttemptsInv' /\ EventsInv' /\ OrdersInv' /\ ServicesInv'
  BY DEF IndInv, KeysInv, AttemptsInv, EventsInv, EventFits, OrdersInv, OrderFits, ServicesInv,
     Open, OrderIs, ReserveFits, RouteFits, ReleaseFits

\* The clock.
LEMMA TickStep == IndInv /\ Tick => IndInv'
<1> SUFFICES ASSUME IndInv, Tick PROVE IndInv'
  OBVIOUS
<1> USE DEF Tick, IndInv
<1>1. TypeOK'
  BY BoundsAssumption DEF TypeOK, store, remote
<1>2. ClaimsInv'
  BY Elements DEF ClaimsInv, ClaimFits, SameClaim, store, TypeOK
<1>3. KeysInv' /\ AttemptsInv' /\ EventsInv' /\ OrdersInv'
  BY StoreFrame DEF store, remote
<1>4. ServicesInv' /\ RepliesInv'
  BY DEF store, remote, ServicesInv, RepliesInv, ReplyFits
<1> QED
  BY <1>1, <1>2, <1>3, <1>4

\* deliver returning: the claims that are left were there before.
LEMMA Popped ==
  ASSUME TypeOK, NEW w \in Worker, Delivering(w), NextInBatch(w)
  PROVE  /\ batch' \in [Worker -> Seq(Claim)]
         /\ reply' \in [Worker -> Reply]
         /\ Current(w) = batch[w][1] /\ 1 \in DOMAIN batch[w]
         /\ Current(w) \in Claim
         /\ \A v \in Worker : v # w =>
              batch'[v] = batch[v] /\ reply'[v] = reply[v]
         /\ \A i \in DOMAIN batch'[w] :
              /\ i + 1 \in DOMAIN batch[w] /\ i + 1 # 1
              /\ batch'[w][i] = batch[w][i + 1]
         /\ reply'[w] = "none"
         /\ DOMAIN batch'[w] \subseteq Nat
<1> DEFINE s == batch[w]
<1>1. s \in Seq(Claim) /\ s # <<>>
  BY DEF TypeOK, Delivering
<1>2. /\ Head(s) = s[1] /\ 1 \in DOMAIN s /\ s[1] \in Claim
      /\ Tail(s) \in Seq(Claim)
      /\ \A j \in DOMAIN Tail(s) :
           j + 1 \in DOMAIN s /\ Tail(s)[j] = s[j + 1] /\ j + 1 # 1
  BY <1>1, SeqTail
<1>3. /\ batch' = [batch EXCEPT ![w] = Tail(s)]
      /\ reply' = [reply EXCEPT ![w] = "none"]
  BY DEF NextInBatch
<1>4. batch \in [Worker -> Seq(Claim)] /\ reply \in [Worker -> Reply]
  BY DEF TypeOK
<1>5. batch'[w] = Tail(s) /\ "none" \in Reply /\ DOMAIN Tail(s) \subseteq Nat
  BY <1>2, <1>3, <1>4 DEF Reply
<1> HIDE DEF s
<1>6. Current(w) = s[1]
  BY <1>2 DEF Current, s
<1> QED
  BY <1>2, <1>3, <1>4, <1>5, <1>6 DEF s

\* Claims stay distinct when a batch loses its head.
LEMMA PoppedUnique ==
  ASSUME TypeOK, ClaimsInv, NEW w \in Worker, Delivering(w), NextInBatch(w),
         NEW u \in Worker, NEW v \in Worker,
         NEW i \in DOMAIN batch'[u], NEW j \in DOMAIN batch'[v],
         SameClaim(batch'[u][i], batch'[v][j])
  PROVE  u = v /\ i = j
<1> DEFINE old(x, n) == IF x = w THEN n + 1 ELSE n
<1>1. /\ old(u, i) \in DOMAIN batch[u] /\ batch'[u][i] = batch[u][old(u, i)]
      /\ old(v, j) \in DOMAIN batch[v] /\ batch'[v][j] = batch[v][old(v, j)]
  BY Popped
<1>2. u = v /\ old(u, i) = old(v, j)
  BY <1>1 DEF ClaimsInv
<1>3. u = w => i \in Nat /\ j \in Nat
  BY <1>2, Popped
<1> QED
  BY <1>2, <1>3

\* A late worker notices that its lease is gone.
LEMMA LeaseLostStep ==
  ASSUME IndInv, NEW w \in Worker, LeaseLost(w)
  PROVE  IndInv'
<1> USE DEF IndInv
<1>0. /\ TypeOK /\ Delivering(w) /\ NextInBatch(w)
      /\ UNCHANGED <<orders, byIdempotency, events, hold, exchange, now,
                     stops, overruns>>
  BY DEF LeaseLost, store, remote, faults
<1>1. TypeOK'
  BY <1>0, Popped DEF TypeOK
<1>2. ASSUME NEW v \in Worker, NEW i \in DOMAIN batch'[v]
      PROVE  ClaimFits(batch[v][i])'
  BY SMTT(40), <1>0, Popped DEF ClaimsInv, ClaimFits
<1>3. ASSUME NEW u \in Worker, NEW v \in Worker,
             NEW i \in DOMAIN batch'[u], NEW j \in DOMAIN batch'[v],
             SameClaim(batch'[u][i], batch'[v][j])
      PROVE  u = v /\ i = j
  BY <1>3, <1>0, Popped, PoppedUnique DEF ClaimsInv
<1>4. RepliesInv'
  <2> SUFFICES ASSUME NEW v \in Worker, reply'[v] # "none"
               PROVE  /\ batch'[v] # <<>>
                      /\ ReplyFits(batch[v][1].event, reply[v])'
    BY DEF RepliesInv
  <2>1. batch'[v] = batch[v] /\ reply'[v] = reply[v]
    BY <1>0, Popped
  <2>2. batch[v] # <<>> /\ ReplyFits(batch[v][1].event, reply[v])
    BY <2>1 DEF RepliesInv
  <2> QED
    BY <2>1, <2>2, <1>0, Zenon DEF ReplyFits
<1> QED
  BY <1>0, <1>1, <1>2, <1>3, <1>4, StoreFrame DEF ClaimsInv

\* A worker stops in the middle of a batch.
LEMMA StopStep ==
  ASSUME IndInv, NEW w \in Worker, Stop(w)
  PROVE  IndInv'
<1> USE DEF IndInv
<1>0. /\ UNCHANGED <<orders, byIdempotency, events, hold, exchange, now>>
      /\ \A v \in Worker : v # w =>
           batch'[v] = batch[v] /\ reply'[v] = reply[v]
      /\ batch'[w] = <<>> /\ reply'[w] = "none"
      /\ batch' \in [Worker -> Seq(Claim)] /\ reply' \in [Worker -> Reply]
  BY DEF Stop, store, remote, TypeOK, Reply
<1>1. TypeOK'
  BY <1>0, BoundsAssumption DEF TypeOK, Stop
<1>2. ClaimsInv'
  <2>1. DOMAIN batch'[w] = {}
    BY <1>0
  <2>2. ASSUME NEW v \in Worker, NEW i \in DOMAIN batch'[v]
        PROVE  v # w /\ ClaimFits(batch[v][i])'
    BY <1>0, <2>1 DEF ClaimsInv, ClaimFits
  <2> QED
    BY <1>0, <2>2 DEF ClaimsInv
<1>3. RepliesInv'
  BY ZenonT(60), <1>0 DEF RepliesInv, ReplyFits
<1> QED
  BY <1>0, <1>1, <1>2, <1>3, StoreFrame

----------------------------------------------------------------------------
(* The gateway calls.                                                      *)

\* A call touches neither the store nor the batches.
LEMMA CallFrame ==
  ASSUME IndInv, UNCHANGED <<orders, byIdempotency, events, batch, now>>
  PROVE  KeysInv' /\ AttemptsInv' /\ ClaimsInv'
  BY DEF IndInv, KeysInv, AttemptsInv, ClaimsInv, ClaimFits, SameClaim

\* The event at the head of a batch.
LEMMA Heads ==
  ASSUME IndInv, NEW w \in Worker, batch[w] # <<>>
  PROVE  /\ Current(w) = batch[w][1] /\ 1 \in DOMAIN batch[w]
         /\ batch[w][1].event \in DOMAIN events
         /\ batch[w][1].event \in EventID
<1>1. batch[w] \in Seq(Claim)
  BY DEF IndInv, TypeOK
<1>2. 1 \in DOMAIN batch[w] /\ Current(w) = batch[w][1]
  BY <1>1 DEF Current
<1> QED
  BY <1>1, <1>2, Elements DEF IndInv, ClaimsInv, ClaimFits

\* The event a calling worker is busy with.
LEMMA CallingFacts ==
  ASSUME IndInv, NEW w \in Worker, NEW kind, Calling(w, kind)
  PROVE  /\ Current(w) = batch[w][1] /\ batch[w] # <<>>
         /\ Current(w).event \in DOMAIN events
         /\ Current(w).event \in EventID
         /\ events[Current(w).event].kind = kind
  BY Heads DEF Calling, EventOf, Delivering

\* MarginGateway.Reserve.
LEMMA CallReserveStep ==
  ASSUME IndInv, NEW w \in Worker, CallReserve(w)
  PROVE  IndInv'
<1> DEFINE e == Current(w).event
<1>0. /\ Calling(w, "ReserveMargin")
      /\ UNCHANGED <<orders, byIdempotency, events, exchange, batch, now,
                     stops, overruns>>
  BY DEF CallReserve, store, faults
<1>1. /\ Current(w) = batch[w][1] /\ batch[w] # <<>>
      /\ e \in DOMAIN events /\ e \in EventID
      /\ events[e].kind = "ReserveMargin"
  BY <1>0, CallingFacts
<1>a. PICK d \in IF hold[e] = "none" THEN {"none", "held", "declined"}
                                     ELSE {hold[e]} :
        /\ hold' = [hold EXCEPT ![e] = d]
        /\ \E r \in Errors \cup (CASE d = "none"     -> {}
                                   [] d = "declined" -> {"no"}
                                   [] OTHER          -> {"yes"}) :
             reply' = [reply EXCEPT ![w] = r]
  BY Zenon DEF CallReserve
<1>2. PICK r \in Errors \cup (CASE d = "none"     -> {}
                                [] d = "declined" -> {"no"}
                                [] OTHER          -> {"yes"}) :
        reply' = [reply EXCEPT ![w] = r]
  BY <1>a, Zenon
<1>3. hold \in [EventID -> HoldState] /\ reply \in [Worker -> Reply]
  BY DEF IndInv, TypeOK
<1>4. /\ d \in HoldState /\ r \in Reply
      /\ r = "yes" => d \in {"held", "released"}
      /\ r = "no" => d = "declined"
  BY <1>a, <1>1, <1>2, <1>3 DEF HoldState, Reply, Errors
<1>5. /\ \A f \in EventID : hold[f] # "none" => hold'[f] = hold[f]
      /\ \A f \in EventID : hold'[f] = "released" => hold[f] = "released"
      /\ \A f \in EventID : hold'[f] # "none" => hold[f] # "none" \/ f = e
      /\ hold'[e] = d /\ reply'[w] = r
      /\ \A v \in Worker : v # w => reply'[v] = reply[v]
  BY <1>a, <1>1, <1>2, <1>3
<1> HIDE DEF e
<1>6. TypeOK'
  BY <1>0, <1>a, <1>2, <1>3, <1>4, <1>1 DEF IndInv, TypeOK
<1>7. EventsInv' /\ OrdersInv' /\ ServicesInv'
  <2>1. \A f \in DOMAIN events : f \in EventID
    BY Elements DEF IndInv
  <2>2. \A o \in DOMAIN orders : orders[o].margin # "NONE" =>
          /\ orders[o].reservation \in EventID
          /\ hold[orders[o].reservation] # "none"
    BY <2>1 DEF IndInv, OrdersInv, OrderFits
  <2>3. EventsInv'
    BY <1>0, <1>5, <2>1, <2>2 DEF IndInv, EventsInv, EventFits, Open, OrderIs,
       ReserveFits, RouteFits, ReleaseFits
  <2>4. OrdersInv'
    BY <1>0, <1>5, <2>1, <2>2 DEF IndInv, OrdersInv, OrderFits
  <2>5. ServicesInv'
    BY <1>0, <1>1, <1>5 DEF IndInv, ServicesInv
  <2> QED
    BY <2>3, <2>4, <2>5
<1>8. RepliesInv'
  <2> SUFFICES ASSUME NEW v \in Worker, reply'[v] # "none"
               PROVE  batch[v] # <<>> /\ ReplyFits(batch[v][1].event, reply[v])'
    BY <1>0 DEF RepliesInv
  <2>1. CASE v = w
    BY <2>1, <1>0, <1>1, <1>4, <1>5 DEF ReplyFits, e
  <2>2. CASE v # w
    <3> DEFINE f == batch[v][1].event
    <3>1. batch[v] # <<>> /\ ReplyFits(f, reply[v]) /\ reply'[v] = reply[v]
      BY <2>2, <1>5 DEF IndInv, RepliesInv
    <3>2. f \in DOMAIN events /\ f \in EventID
      BY <3>1, Heads
    <3>3. events[f].kind = "ReleaseMargin" =>
            /\ orders[events[f].order].reservation \in EventID
            /\ hold[orders[events[f].order].reservation] # "none"
      BY SMTT(40), <3>2, Elements DEF IndInv, EventsInv, EventFits, ReleaseFits, OrdersInv, OrderFits, Open,
         OrderIs, OutboxEvent, EventState
    <3> QED
      BY <3>1, <3>2, <3>3, <1>0, <1>5 DEF ReplyFits
  <2> QED
    BY <2>1, <2>2
<1> QED
  BY <1>0, <1>6, <1>7, <1>8, CallFrame DEF IndInv

\* ExchangeGateway.Route.
LEMMA CallRouteStep ==
  ASSUME IndInv, NEW w \in Worker, CallRoute(w)
  PROVE  IndInv'
<1> DEFINE e == Current(w).event
<1>0. /\ Calling(w, "RouteExchange")
      /\ UNCHANGED <<orders, byIdempotency, events, hold, batch, now,
                     stops, overruns>>
  BY DEF CallRoute, store, faults
<1>1. /\ Current(w) = batch[w][1] /\ batch[w] # <<>>
      /\ e \in DOMAIN events /\ e \in EventID
      /\ events[e].kind = "RouteExchange"
  BY <1>0, CallingFacts
<1>a. PICK d \in IF exchange[e] = "none" THEN ExchangeState
                                         ELSE {exchange[e]} :
        /\ exchange' = [exchange EXCEPT ![e] = d]
        /\ \E r \in Errors \cup (CASE d = "none"     -> {}
                                   [] d = "rejected" -> {"no"}
                                   [] d = "accepted" -> {"yes"}) :
             reply' = [reply EXCEPT ![w] = r]
  BY Zenon DEF CallRoute
<1>2. PICK r \in Errors \cup (CASE d = "none"     -> {}
                                [] d = "rejected" -> {"no"}
                                [] d = "accepted" -> {"yes"}) :
        reply' = [reply EXCEPT ![w] = r]
  BY <1>a, Zenon
<1>3. exchange \in [EventID -> ExchangeState] /\ reply \in [Worker -> Reply]
  BY DEF IndInv, TypeOK
<1>4. /\ d \in ExchangeState /\ r \in Reply
      /\ r = "yes" => d = "accepted"
      /\ r = "no" => d = "rejected"
  BY <1>a, <1>1, <1>2, <1>3 DEF ExchangeState, Reply, Errors
<1>5. /\ \A f \in EventID : exchange[f] # "none" => exchange'[f] = exchange[f]
      /\ \A f \in EventID :
           exchange'[f] # "none" => exchange[f] # "none" \/ f = e
      /\ exchange'[e] = d /\ reply'[w] = r
      /\ \A v \in Worker : v # w => reply'[v] = reply[v]
  BY <1>a, <1>1, <1>2, <1>3
<1> HIDE DEF e
<1>6. TypeOK'
  BY <1>0, <1>a, <1>2, <1>3, <1>4, <1>1 DEF IndInv, TypeOK
<1>7. EventsInv' /\ OrdersInv' /\ ServicesInv'
  <2>1. \A f \in DOMAIN events : f \in EventID
    BY Elements DEF IndInv
  <2>3. EventsInv'
    BY <1>0, <1>5, <2>1 DEF IndInv, EventsInv, EventFits, Open, OrderIs,
       ReserveFits, RouteFits, ReleaseFits
  <2>4. OrdersInv'
    BY <1>0, <1>5, <2>1 DEF IndInv, OrdersInv, OrderFits
  <2>5. ServicesInv'
    BY <1>0, <1>1, <1>5 DEF IndInv, ServicesInv
  <2> QED
    BY <2>3, <2>4, <2>5
<1>8. RepliesInv'
  <2> SUFFICES ASSUME NEW v \in Worker, reply'[v] # "none"
               PROVE  batch[v] # <<>> /\ ReplyFits(batch[v][1].event, reply[v])'
    BY <1>0 DEF RepliesInv
  <2>1. CASE v = w
    BY <2>1, <1>0, <1>1, <1>4, <1>5 DEF ReplyFits, e
  <2>2. CASE v # w
    <3> DEFINE f == batch[v][1].event
    <3>1. batch[v] # <<>> /\ ReplyFits(f, reply[v]) /\ reply'[v] = reply[v]
      BY <2>2, <1>5 DEF IndInv, RepliesInv
    <3>2. f \in EventID
      BY <3>1, Heads
    <3> QED
      BY <3>1, <3>2, <1>0, <1>5, Zenon DEF ReplyFits
  <2> QED
    BY <2>1, <2>2
<1> QED
  BY <1>0, <1>6, <1>7, <1>8, CallFrame DEF IndInv

\* MarginGateway.Release.
LEMMA CallReleaseStep ==
  ASSUME IndInv, NEW w \in Worker, CallRelease(w)
  PROVE  IndInv'
<1> DEFINE e == Current(w).event
           o == events[e].order
           q == orders[o].reservation
<1>0. /\ Calling(w, "ReleaseMargin")
      /\ UNCHANGED <<orders, byIdempotency, events, exchange, batch, now,
                     stops, overruns>>
  BY DEF CallRelease, store, faults
<1>1. /\ Current(w) = batch[w][1] /\ batch[w] # <<>>
      /\ e \in DOMAIN events /\ events[e].kind = "ReleaseMargin"
  BY <1>0, CallingFacts
<1>2. o \in DOMAIN orders /\ orders[o].margin \in {"RELEASE_PENDING", "RELEASED"}
  BY <1>1, Elements DEF IndInv, EventsInv, EventFits, ReleaseFits, Open, OrderIs,
     OutboxEvent, EventState
<1>3. /\ q \in DOMAIN events /\ q \in EventID /\ events[q].order = o
      /\ events[q].kind = "ReserveMargin" /\ hold[q] \in {"held", "released"}
  BY <1>2, Elements DEF IndInv, OrdersInv, OrderFits
<1>a. PICK done \in BOOLEAN :
        /\ hold' = IF done THEN [hold EXCEPT ![q] = "released"] ELSE hold
        /\ \E a \in Errors \cup (IF done THEN {"yes"} ELSE {}) :
             reply' = [reply EXCEPT ![w] = a]
  BY Zenon DEF CallRelease, OrderOf, EventOf
<1>b. PICK a \in Errors \cup (IF done THEN {"yes"} ELSE {}) :
        reply' = [reply EXCEPT ![w] = a]
  BY <1>a, Zenon
<1>4. hold \in [EventID -> HoldState] /\ reply \in [Worker -> Reply]
  BY DEF IndInv, TypeOK
<1>5. /\ \A f \in EventID : f # q => hold'[f] = hold[f]
      /\ hold'[q] \in {hold[q], "released"}
      /\ a \in Reply /\ a # "no" /\ a = "yes" => hold'[q] = "released"
      /\ reply'[w] = a
      /\ \A v \in Worker : v # w => reply'[v] = reply[v]
      /\ hold' \in [EventID -> HoldState] /\ reply' \in [Worker -> Reply]
  BY <1>a, <1>b, <1>3, <1>4, Zenon DEF Errors, Reply, HoldState
<1> HIDE DEF q, o, e
<1>6. TypeOK'
  BY <1>0, <1>5 DEF IndInv, TypeOK
<1>7. \A f \in EventID : /\ hold[f] = "released" => hold'[f] = "released"
                         /\ hold[f] = "declined" => hold'[f] = "declined"
                         /\ hold[f] = "held" => hold'[f] \in {"held", "released"}
                         /\ hold'[f] # "none" => hold[f] # "none"
                         /\ hold'[f] = "released" => hold[f] = "released" \/ f = q
  BY <1>3, <1>5
<1>8. \A f \in DOMAIN events : f \in EventID
  BY Elements DEF IndInv
<1>9. EventsInv'
  <2>1. \A p \in DOMAIN orders : orders[p].margin = "RELEASED" =>
          orders[p].reservation \in EventID
    BY <1>8 DEF IndInv, OrdersInv, OrderFits
  <2> QED
    BY SMTT(40), <2>1, <1>0, <1>7, <1>8 DEF IndInv, EventsInv, EventFits, Open, OrderIs,
       ReserveFits, RouteFits, ReleaseFits
<1>10. OrdersInv'
  <2>1. \A p \in DOMAIN orders :
          orders[p].margin # "NONE" /\ orders[p].reservation = q => p = o
    BY SMTT(40), <1>3 DEF IndInv, OrdersInv, OrderFits
  <2> QED
    BY SMTT(40), <2>1, <1>0, <1>2, <1>7, <1>8 DEF IndInv, OrdersInv, OrderFits
<1>11. ServicesInv'
  BY <1>0, <1>2, <1>3, <1>7 DEF IndInv, ServicesInv
<1>12. RepliesInv'
  <2> SUFFICES ASSUME NEW v \in Worker, reply'[v] # "none"
               PROVE  batch[v] # <<>> /\ ReplyFits(batch[v][1].event, reply[v])'
    BY <1>0 DEF RepliesInv
  <2>1. CASE v = w
    BY <2>1, <1>0, <1>1, <1>5, Zenon DEF ReplyFits, e, o, q
  <2>2. CASE v # w
    <3> DEFINE f == batch[v][1].event
    <3>1. batch[v] # <<>> /\ ReplyFits(f, reply[v]) /\ reply'[v] = reply[v]
      BY <2>2, <1>5 DEF IndInv, RepliesInv
    <3>2. f \in DOMAIN events /\ f \in EventID
      BY <3>1, Heads
    <3>3. events[f].kind = "ReleaseMargin" =>
            orders[events[f].order].reservation \in EventID
      BY SMTT(40), <1>8, <3>2, Elements DEF IndInv, EventsInv, EventFits, ReleaseFits, OrdersInv, OrderFits,
         Open, OrderIs, OutboxEvent, EventState
    <3> QED
      BY <3>1, <3>2, <3>3, <1>0, <1>7 DEF ReplyFits
  <2> QED
    BY <2>1, <2>2
<1> QED
  BY <1>0, <1>6, <1>9, <1>10, <1>11, <1>12, CallFrame DEF IndInv

----------------------------------------------------------------------------
(* Steps that change the store leave most of it alone.                     *)

\* Events are never removed or redirected, and a DELIVERED one stays so.
EventsGrow ==
  /\ DOMAIN events \subseteq DOMAIN events'
  /\ \A e \in DOMAIN events :
       /\ events'[e].order = events[e].order
       /\ events'[e].kind = events[e].kind
       /\ events[e].state = "DELIVERED" => events'[e].state = "DELIVERED"

\* An order keeps its reservation, and its margin moves only from pending to
\* done: what it had reached is still reached.
LEMMA OrderKept ==
  ASSUME NEW p, OrderFits(p),
         orders'[p].reservation = orders[p].reservation,
         orders'[p].margin # "NONE" => orders[p].margin # "NONE",
         orders'[p].margin \in {"RELEASE_PENDING", "RELEASED"} <=>
           orders[p].margin \in {"RELEASE_PENDING", "RELEASED"},
         orders'[p].status = "ACCEPTED" => orders'[p].margin = "RESERVED",
         orders'[p].margin = "RELEASED" =>
           hold[orders[p].reservation] = "released",
         UNCHANGED <<hold, exchange>>, EventsGrow
  PROVE  OrderFits(p)'
<1>1. PICK e \in DOMAIN events :
        events[e].order = p /\ events[e].kind = "ReserveMargin"
  BY DEF OrderFits
<1>2. \E x \in DOMAIN events' :
        events'[x].order = p /\ events'[x].kind = "ReserveMargin"
  BY <1>1 DEF EventsGrow
<1>3. ASSUME orders'[p].margin # "NONE"
      PROVE  LET r == orders'[p].reservation IN
             /\ r \in DOMAIN events'
             /\ events'[r].order = p /\ events'[r].kind = "ReserveMargin"
             /\ events'[r].state = "DELIVERED"
             /\ hold'[r] \in {"held", "released"}
             /\ hold'[r] = "released" =>
                  orders'[p].margin \in {"RELEASE_PENDING", "RELEASED"}
  BY <1>3 DEF OrderFits, EventsGrow
<1>4. ASSUME orders'[p].margin # "NONE"
      PROVE  \E x \in DOMAIN events' :
               events'[x].order = p /\ events'[x].kind = "RouteExchange"
  <2>1. PICK x \in DOMAIN events :
          events[x].order = p /\ events[x].kind = "RouteExchange"
    BY <1>4 DEF OrderFits
  <2> QED
    BY <2>1 DEF EventsGrow
<1>5. ASSUME orders'[p].margin \in {"RELEASE_PENDING", "RELEASED"}
      PROVE  \E x \in DOMAIN events' :
               /\ events'[x].order = p /\ events'[x].kind = "RouteExchange"
               /\ exchange'[x] = "rejected"
  <2>1. PICK x \in DOMAIN events :
          /\ events[x].order = p /\ events[x].kind = "RouteExchange"
          /\ exchange[x] = "rejected"
    BY <1>5 DEF OrderFits
  <2> QED
    BY <2>1 DEF EventsGrow
<1>6. orders'[p].margin = "RELEASED" =>
        hold'[orders'[p].reservation] = "released"
  OBVIOUS
<1> QED
  BY <1>2, <1>3, <1>4, <1>5, <1>6 DEF OrderFits

\* An order that a step does not write still fits.
LEMMA OrderFrame ==
  ASSUME NEW p, OrderFits(p), orders'[p] = orders[p],
         UNCHANGED <<hold, exchange>>, EventsGrow
  PROVE  OrderFits(p)'
<1>1. /\ orders[p].status = "ACCEPTED" => orders[p].margin = "RESERVED"
      /\ orders[p].margin = "RELEASED" =>
           hold[orders[p].reservation] = "released"
  BY DEF OrderFits
<1> QED
  BY <1>1, OrderKept

----------------------------------------------------------------------------
(* Placing an order.                                                       *)

\* OrderService.Place.
LEMMA PlaceStep ==
  ASSUME IndInv, NEW k \in Key, NEW h \in Hash, Place(k, h)
  PROVE  IndInv'
<1>n. PICK n : n = Len(orders) + 1
  OBVIOUS
<1>m. PICK m : m = Len(events) + 1
  OBVIOUS
<1> DEFINE order == NewOrder(k, h)
           event == NewEvent(n, "ReserveMargin")
<1>0. /\ byIdempotency[k] = 0
      /\ orders' = Append(orders, order) /\ events' = Append(events, event)
      /\ byIdempotency' = [byIdempotency EXCEPT ![k] = n]
      /\ UNCHANGED <<hold, exchange, batch, reply, now, stops, overruns>>
      /\ Len(orders) < MaxOrders /\ Len(events) < MaxEvents
  BY <1>n DEF Place, remote, faults
<1>1. /\ orders \in Seq(Order) /\ events \in Seq(OutboxEvent)
      /\ Len(orders) \in Nat /\ Len(events) \in Nat /\ now \in Nat
      /\ byIdempotency \in [Key -> OrderID \cup {0}]
  BY BoundsAssumption DEF IndInv, TypeOK
<1>2. n \in OrderID /\ m \in EventID
  BY <1>n, <1>m, <1>0, <1>1, BoundsAssumption DEF OrderID, EventID
<1>3. order \in Order /\ event \in OutboxEvent
  BY <1>1, <1>2, PolicyAssumption DEF NewOrder, NewEvent, Order, OutboxEvent,
     OrderStatus, MarginState, EventKind, EventState
<1> HIDE DEF order, event
<1>4. /\ orders' \in Seq(Order) /\ Len(orders') = n
      /\ DOMAIN orders' = DOMAIN orders \cup {n} /\ n \notin DOMAIN orders
      /\ \A p \in DOMAIN orders : orders'[p] = orders[p]
      /\ orders'[n] = order
  BY <1>n, <1>m, <1>0, <1>1, <1>3, SeqAppend
<1>5. /\ events' \in Seq(OutboxEvent) /\ Len(events') = m
      /\ DOMAIN events' = DOMAIN events \cup {m} /\ m \notin DOMAIN events
      /\ \A e \in DOMAIN events : events'[e] = events[e]
      /\ events'[m] = event
  BY <1>n, <1>m, <1>0, <1>1, <1>3, SeqAppend
<1>6. /\ order.key = k /\ order.status = "PENDING_MARGIN"
      /\ order.margin = "NONE"
      /\ event.order = n /\ event.kind = "ReserveMargin"
      /\ event.state = "PENDING" /\ event.attempts = 0
  BY DEF order, event, NewOrder, NewEvent
<1>7. TypeOK'
  <2>1. Len(orders') <= MaxOrders /\ Len(events') <= MaxEvents
    BY <1>n, <1>m, <1>0, <1>1, <1>4, <1>5, BoundsAssumption
  <2> QED
    BY <2>1, <1>0, <1>1, <1>2, <1>4, <1>5 DEF IndInv, TypeOK
<1>8. KeysInv'
  <2>1. \A p \in DOMAIN orders : orders[p].key # k /\ orders[p].key \in Key
    BY <1>0, <1>1, Elements, BoundsAssumption
       DEF IndInv, KeysInv, OrderID, Order
  <2> QED
    BY <2>1, <1>0, <1>1, <1>4, <1>6 DEF IndInv, KeysInv
<1>9. AttemptsInv'
  BY <1>5, <1>6, PolicyAssumption DEF IndInv, AttemptsInv
<1>10. ClaimsInv'
  <2>1. ClaimsInv
    BY DEF IndInv
  <2>2. ASSUME NEW v \in Worker, NEW i \in DOMAIN batch[v]
        PROVE  ClaimFits(batch[v][i])'
    BY <2>1, <1>0, <1>5 DEF ClaimsInv, ClaimFits
  <2> QED
    BY <2>1, <2>2, <1>0 DEF ClaimsInv, SameClaim
<1>11. \A e \in DOMAIN events : events[e].order \in DOMAIN orders
  BY DEF IndInv, EventsInv, EventFits
<1>12. EventsInv'
  <2>1. ASSUME NEW e \in DOMAIN events
        PROVE  EventFits(e)'
    <3>1. EventFits(e)
      BY DEF IndInv, EventsInv
    <3>2. /\ orders'[events[e].order] = orders[events[e].order]
          /\ events'[e] = events[e] /\ DOMAIN orders \subseteq DOMAIN orders'
          /\ UNCHANGED <<hold, exchange>>
      BY <1>0, <1>4, <1>5, <1>11
    <3> QED
      BY SMTT(40), <3>1, <3>2 DEF EventFits, ReserveFits, RouteFits, ReleaseFits, Open,
         OrderIs
  <2>2. EventFits(m)'
    BY <1>4, <1>5, <1>6 DEF EventFits, ReserveFits, Open, OrderIs
  <2> QED
    BY SMTT(40), <2>1, <2>2, <1>4, <1>5, <1>6, <1>11 DEF IndInv, EventsInv
<1>13. OrdersInv'
  <2>1. ASSUME NEW p \in DOMAIN orders PROVE OrderFits(p)'
    BY <1>0, <1>4, <1>5, OrderFrame DEF IndInv, OrdersInv, EventsGrow
  <2>2. OrderFits(n)'
    BY <1>4, <1>5, <1>6 DEF OrderFits
  <2> QED
    BY <2>1, <2>2, <1>4 DEF OrdersInv
<1>14. ServicesInv'
  BY <1>0, <1>4, <1>5, <1>11 DEF IndInv, ServicesInv
<1>15. RepliesInv'
  <2> SUFFICES ASSUME NEW v \in Worker, reply[v] # "none"
               PROVE  batch[v] # <<>> /\ ReplyFits(batch[v][1].event, reply[v])'
    BY <1>0 DEF RepliesInv
  <2>1. batch[v] # <<>> /\ ReplyFits(batch[v][1].event, reply[v])
    BY DEF IndInv, RepliesInv
  <2>2. batch[v][1].event \in DOMAIN events
    BY <2>1, Heads
  <2> QED
    BY <2>1, <2>2, <1>0, <1>4, <1>5, <1>11, Zenon DEF ReplyFits
<1> QED
  BY <1>7, <1>8, <1>9, <1>10, <1>12, <1>13, <1>14, <1>15 DEF IndInv

----------------------------------------------------------------------------
(* Settling an event under its lease.                                      *)

\* What the invariant says of an event whose lease is held.
LEMMA Held ==
  ASSUME IndInv, NEW w \in Worker, Delivering(w), HoldsLease(w)
  PROVE  /\ Current(w) = batch[w][1] /\ 1 \in DOMAIN batch[w]
         /\ Current(w).event \in DOMAIN events /\ EventOf(w) \in OutboxEvent
         /\ EventOf(w).state = "PROCESSING" /\ Open(Current(w).event)
         /\ EventOf(w).order \in DOMAIN orders
         /\ OrderOf(w) \in Order
         /\ Current(w).token = EventOf(w).token
         /\ Current(w).attempts = EventOf(w).attempts
         /\ EventOf(w).attempts < MaxAttempts
         /\ EventFits(Current(w).event)
         /\ OrderFits(EventOf(w).order)
<1>1. /\ Current(w) = batch[w][1] /\ 1 \in DOMAIN batch[w]
      /\ Current(w).event \in DOMAIN events
  BY Heads DEF Delivering
<1>2. ClaimFits(batch[w][1])
  BY <1>1 DEF IndInv, ClaimsInv
<1>3. EventFits(Current(w).event) /\ EventOf(w).order \in DOMAIN orders
  BY <1>1 DEF IndInv, EventsInv, EventFits, EventOf
<1>4. /\ EventOf(w).attempts < MaxAttempts /\ OrderFits(EventOf(w).order)
  BY <1>1, <1>3 DEF IndInv, AttemptsInv, OrdersInv, HoldsLease, EventOf
<1> QED
  BY <1>1, <1>2, <1>3, <1>4, Elements
     DEF IndInv, HoldsLease, EventOf, OrderOf, Open, ClaimFits

\* The claims that are left after a settlement: the settled event's token
\* was in nobody else's hands.
LEMMA SettleClaims ==
  ASSUME IndInv, NEW w \in Worker, Delivering(w), HoldsLease(w),
         NextInBatch(w), UNCHANGED now, EventsGrow,
         \A f \in DOMAIN events \ {Current(w).event} : events'[f] = events[f],
         events'[Current(w).event].token = EventOf(w).token
  PROVE  ClaimsInv'
<1>0. TypeOK
  BY DEF IndInv
<1>1. ASSUME NEW v \in Worker, NEW i \in DOMAIN batch'[v]
      PROVE  ClaimFits(batch[v][i])'
  <2>1. PICK j \in DOMAIN batch[v] :
          batch'[v][i] = batch[v][j] /\ (v = w => j # 1)
    BY <1>0, Popped
  <2>2. ClaimFits(batch[v][j])
    BY DEF IndInv, ClaimsInv
  <2>3. ~SameClaim(batch[v][j], batch[w][1])
    BY SMTT(40), <2>1, Held DEF IndInv, ClaimsInv
  <2>4. batch[v][j].event = Current(w).event =>
          batch[v][j].token # EventOf(w).token
    BY <2>3, Held DEF SameClaim
  <2> QED
    BY SMTT(40), <2>1, <2>2, <2>4 DEF ClaimFits, EventsGrow, EventOf
<1>2. ASSUME NEW u \in Worker, NEW v \in Worker,
             NEW i \in DOMAIN batch'[u], NEW j \in DOMAIN batch'[v],
             SameClaim(batch'[u][i], batch'[v][j])
      PROVE  u = v /\ i = j
  BY <1>2, <1>0, PoppedUnique DEF IndInv
<1> QED
  BY <1>1, <1>2 DEF ClaimsInv

\* The answers in the other workers' hands stay right.
LEMMA SettleReplies ==
  ASSUME IndInv, NEW w \in Worker, Delivering(w), HoldsLease(w),
         NextInBatch(w), UNCHANGED <<hold, exchange>>, EventsGrow,
         \A f \in DOMAIN events : events[f].kind = "ReleaseMargin" =>
           orders'[events[f].order].reservation =
             orders[events[f].order].reservation
  PROVE  RepliesInv'
<1> SUFFICES ASSUME NEW v \in Worker, reply'[v] # "none"
             PROVE  (batch[v] # <<>> /\ ReplyFits(batch[v][1].event, reply[v]))'
  BY DEF RepliesInv
<1>1. v # w /\ batch'[v] = batch[v] /\ reply'[v] = reply[v]
  BY Popped DEF IndInv
<1>2. batch[v] # <<>> /\ ReplyFits(batch[v][1].event, reply[v])
  BY <1>1 DEF IndInv, RepliesInv
<1>3. batch[v][1].event \in DOMAIN events
  BY <1>2, Heads
<1> QED
  BY <1>1, <1>2, <1>3, Zenon DEF ReplyFits, EventsGrow

\* The settled forms of an event.
LEMMA SettledTypes ==
  ASSUME NEW event \in OutboxEvent
  PROVE  /\ Delivered(event) \in OutboxEvent
         /\ event.attempts < MaxAttempts =>
              /\ Dead(event) \in OutboxEvent
              /\ \A at \in Nat : Retried(event, at) \in OutboxEvent
<1>0. event.attempts \in 0..MaxAttempts
  BY DEF OutboxEvent
<1>1. \A s \in EventState, u \in Nat, n \in 0..MaxAttempts, at \in Nat :
        [event EXCEPT !.state = s, !.leaseUntil = u, !.attempts = n,
                      !.availableAt = at] \in OutboxEvent
  BY Zenon DEF OutboxEvent
<1>2. /\ Delivered(event) \in OutboxEvent
  BY Zenon DEF Delivered, OutboxEvent, EventState
<1>3. ASSUME event.attempts < MaxAttempts
      PROVE  event.attempts + 1 \in 0..MaxAttempts
  BY <1>0, <1>3, PolicyAssumption
<1>4. ASSUME event.attempts < MaxAttempts
      PROVE  Dead(event) \in OutboxEvent
  BY <1>3, <1>4, Zenon DEF Dead, OutboxEvent, EventState
<1>5. ASSUME event.attempts < MaxAttempts, NEW at \in Nat
      PROVE  Retried(event, at) \in OutboxEvent
  <2>1. "RETRY" \in EventState /\ 0 \in Nat
    BY DEF EventState
  <2>2. [event EXCEPT !.state = "RETRY", !.leaseUntil = 0,
                      !.attempts = event.attempts + 1, !.availableAt = at]
          \in OutboxEvent
    BY <1>1, <1>3, <1>5, <2>1, Zenon
  <2> QED
    BY <2>2 DEF Retried
<1> QED
  BY <1>2, <1>4, <1>5

\* Store.Retry.
LEMMA RetryStep ==
  ASSUME IndInv, NEW w \in Worker, Retry(w)
  PROVE  IndInv'
<1>c. PICK e : e = Current(w).event
  OBVIOUS
<1> DEFINE new == Retried(events[e], now + Delay[Current(w).attempts + 1])
<1>0. /\ Delivering(w) /\ HoldsLease(w) /\ NextInBatch(w)
      /\ reply[w] = "transient" /\ ~GivesUp(w)
      /\ events' = [events EXCEPT ![e] = new]
      /\ UNCHANGED <<orders, byIdempotency, hold, exchange, now, stops,
                     overruns>>
  BY <1>c DEF Retry, EventOf, remote, faults
<1>1. /\ e \in DOMAIN events /\ events[e] \in OutboxEvent /\ Open(e)
      /\ Current(w).attempts = events[e].attempts
      /\ events[e].attempts \in Nat
      /\ events[e].state = "PROCESSING" /\ EventOf(w) = events[e]
      /\ EventFits(e)
  BY SMTT(40), <1>0, <1>c, Held DEF EventOf, OutboxEvent
<1>2. events[e].attempts + 1 < MaxAttempts
  BY <1>0, <1>1, PolicyAssumption DEF GivesUp
<1>3. now \in Nat /\ Delay[Current(w).attempts + 1] \in Nat
  <2>1. Current(w).attempts + 1 \in 1..MaxAttempts
    BY <1>1, <1>2, PolicyAssumption
  <2> QED
    BY <2>1, PolicyAssumption, BoundsAssumption DEF IndInv, TypeOK
<1>4. new \in OutboxEvent
  BY <1>1, <1>2, <1>3, PolicyAssumption, SettledTypes
<1>5. /\ new.state = "RETRY" /\ new.order = events[e].order
      /\ new.kind = events[e].kind /\ new.token = events[e].token
      /\ new.attempts < MaxAttempts
  BY <1>1, <1>2 DEF OutboxEvent, Retried
<1> HIDE DEF new
<1>6. /\ events' \in Seq(OutboxEvent) /\ Len(events') = Len(events)
      /\ DOMAIN events' = DOMAIN events /\ events'[e] = new
      /\ \A f \in DOMAIN events \ {e} : events'[f] = events[f]
  BY <1>0, <1>1, <1>4, SeqReplace DEF IndInv, TypeOK
<1>7. EventsGrow
  BY <1>1, <1>5, <1>6 DEF EventsGrow
<1>8. TypeOK'
  BY <1>0, <1>6, Popped DEF IndInv, TypeOK
<1>9. KeysInv' /\ AttemptsInv'
  BY <1>0, <1>5, <1>6, Zenon DEF IndInv, KeysInv, AttemptsInv
<1>10. ClaimsInv' /\ RepliesInv'
  BY <1>0, <1>1, <1>5, <1>6, <1>7, <1>c, SettleClaims, SettleReplies
<1>11. EventsInv'
  <2>1. ASSUME NEW f \in DOMAIN events PROVE EventFits(f)'
    <3>1. EventFits(f)
      BY DEF IndInv, EventsInv
    <3>2. /\ events'[f].order = events[f].order
          /\ events'[f].kind = events[f].kind
          /\ \/ events'[f].state = events[f].state
             \/ Open(f) /\ events'[f].state \in {"PENDING", "RETRY", "PROCESSING"}
      BY <1>1, <1>5, <1>6, Zenon
    <3> QED
      BY <3>1, <3>2, <1>0, Zenon DEF EventFits, ReserveFits, RouteFits, ReleaseFits,
         Open, OrderIs
  <2> QED
    BY <2>1, <1>6, <1>7 DEF IndInv, EventsInv, EventsGrow
<1>12. OrdersInv'
  BY <1>0, <1>7, OrderFrame DEF IndInv, OrdersInv
<1>13. ServicesInv'
  BY <1>0, <1>6, <1>7 DEF IndInv, ServicesInv, EventsGrow
<1> QED
  BY <1>8, <1>9, <1>10, <1>11, <1>12, <1>13 DEF IndInv

\* Worker w settles event e and writes `new' for its order o.
Settles(w, e, o, new) ==
  /\ Delivering(w) /\ HoldsLease(w) /\ NextInBatch(w)
  /\ UNCHANGED <<byIdempotency, hold, exchange, now, stops, overruns>>
  /\ e = Current(w).event /\ o = EventOf(w).order
  /\ orders' = [orders EXCEPT ![o] = new]
  /\ new \in Order /\ new.key = OrderOf(w).key
  /\ events' \in Seq(OutboxEvent) /\ Len(events') <= MaxEvents
  /\ EventsGrow
  /\ \A f \in DOMAIN events \ {e} : events'[f] = events[f]
  /\ events'[e].token = EventOf(w).token
  /\ AttemptsInv'

\* The settled event and its order.
LEMMA SettlesFacts ==
  ASSUME IndInv, NEW w \in Worker, NEW e, NEW o, NEW new,
         Settles(w, e, o, new)
  PROVE  /\ e \in DOMAIN events /\ o \in DOMAIN orders
         /\ events[e].order = o /\ EventOf(w) = events[e]
         /\ OrderOf(w) = orders[o]
         /\ Open(e) /\ EventFits(e) /\ OrderFits(o)
         /\ DOMAIN orders' = DOMAIN orders
         /\ orders'[o] = new
<1>1. /\ e \in DOMAIN events /\ o \in DOMAIN orders /\ events[e].order = o
      /\ EventOf(w) = events[e] /\ OrderOf(w) = orders[o]
      /\ Open(e) /\ EventFits(e) /\ OrderFits(o)
  BY Held DEF Settles, EventOf, OrderOf
<1>2. orders \in Seq(Order) /\ new \in Order
  BY DEF Settles, IndInv, TypeOK
<1> QED
  BY <1>1, <1>2, SeqReplace DEF Settles

\* What a settlement does to the other orders.
LEMMA SettlesOrders ==
  ASSUME IndInv, NEW w \in Worker, NEW e, NEW o, NEW new,
         Settles(w, e, o, new)
  PROVE  /\ orders' \in Seq(Order) /\ Len(orders') = Len(orders)
         /\ \A p \in DOMAIN orders : p # o => orders'[p] = orders[p]
<1>1. o \in DOMAIN orders
  BY Held DEF Settles, EventOf, OrderOf
<1>2. orders \in Seq(Order) /\ new \in Order
  BY DEF Settles, IndInv, TypeOK
<1> QED
  BY <1>1, <1>2, SeqReplace DEF Settles

\* A settlement keeps everything that is not about the order it writes.
LEMMA SettlesRest ==
  ASSUME IndInv, NEW w \in Worker, NEW e, NEW o, NEW new,
         Settles(w, e, o, new),
         \A f \in DOMAIN events :
           events[f].kind = "ReleaseMargin" /\ events[f].order = o =>
             new.reservation = orders[o].reservation,
         orders[o].margin # "NONE" => new.margin # "NONE"
  PROVE  /\ TypeOK' /\ KeysInv' /\ AttemptsInv' /\ ClaimsInv' /\ ServicesInv'
         /\ RepliesInv'
         /\ \A f \in DOMAIN events : events[f].order # o => EventFits(f)'
         /\ \A p \in DOMAIN orders : p # o => OrderFits(p)'
<1>1. /\ e \in DOMAIN events /\ o \in DOMAIN orders /\ EventOf(w) = events[e]
      /\ OrderOf(w) = orders[o] /\ events[e].order = o
      /\ orders' \in Seq(Order) /\ Len(orders') = Len(orders)
      /\ DOMAIN orders' = DOMAIN orders /\ orders'[o] = new
      /\ \A p \in DOMAIN orders : p # o => orders'[p] = orders[p]
  <2>1. /\ e \in DOMAIN events /\ o \in DOMAIN orders
        /\ EventOf(w) = events[e] /\ OrderOf(w) = orders[o]
        /\ events[e].order = o
        /\ DOMAIN orders' = DOMAIN orders /\ orders'[o] = new
    BY SMTT(40), SettlesFacts
  <2>2. /\ orders' \in Seq(Order) /\ Len(orders') = Len(orders)
        /\ \A p \in DOMAIN orders : p # o => orders'[p] = orders[p]
    BY SMTT(40), SettlesOrders
  <2> QED
    BY <2>1, <2>2
<1>2. UNCHANGED <<byIdempotency, hold, exchange, now, stops, overruns>>
      /\ Delivering(w) /\ HoldsLease(w) /\ NextInBatch(w)
  BY DEF Settles
<1>3. TypeOK'
  BY <1>1, <1>2, Popped DEF Settles, IndInv, TypeOK
<1>4. KeysInv' /\ AttemptsInv'
  BY <1>1, <1>2 DEF Settles, IndInv, KeysInv
<1>5. ClaimsInv'
  BY <1>1, <1>2, SettleClaims DEF Settles
<1>6. \A f \in DOMAIN events : events[f].order \in DOMAIN orders
  BY DEF IndInv, EventsInv, EventFits
<1>7. RepliesInv'
  BY <1>1, <1>2, <1>6, SettleReplies DEF Settles
<1>8. ServicesInv'
  BY <1>1, <1>2, <1>6 DEF Settles, EventsGrow, IndInv, ServicesInv
<1>9. ASSUME NEW f \in DOMAIN events, events[f].order # o PROVE EventFits(f)'
  <2>1. EventFits(f) /\ events'[f] = events[f]
    BY <1>1, <1>9 DEF Settles, IndInv, EventsInv
  <2> QED
    BY <2>1, <1>1, <1>2, <1>6, <1>9, Zenon DEF EventFits, ReserveFits, RouteFits,
       ReleaseFits, Open, OrderIs
<1>10. ASSUME NEW p \in DOMAIN orders, p # o PROVE OrderFits(p)'
  BY <1>1, <1>2, <1>10, OrderFrame DEF Settles, IndInv, OrdersInv
<1> QED
  BY <1>3, <1>4, <1>5, <1>7, <1>8, <1>9, <1>10

\* The types of the store's log and clock.
LEMMA TypedStore ==
  ASSUME TypeOK
  PROVE  events \in Seq(OutboxEvent) /\ now \in Nat
BY BoundsAssumption DEF TypeOK

============================================================================
