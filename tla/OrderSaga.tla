----------------------------- MODULE OrderSaga -----------------------------
(***************************************************************************)
(* What microservice/order promises about one order, without the outbox,   *)
(* the leases and the workers that carry it out: the delivery contract of  *)
(* reserving margin, routing to the exchange and compensating, as the      *)
(* three transactions of the Dispatcher define it.  OrderOutbox implements *)
(* this specification.                                                     *)
(***************************************************************************)
CONSTANT OrderID

VARIABLES
  order,     \* status and margin of each order, "ABSENT" before Place
  hold,      \* what the margin service did for the order
  exchange   \* what the exchange answered for the order

sagaVars == <<order, hold, exchange>>

Init ==
  /\ order = [o \in OrderID |-> [status |-> "ABSENT", margin |-> "NONE"]]
  /\ hold = [o \in OrderID |-> "none"]
  /\ exchange = [o \in OrderID |-> "none"]

Is(o, status, margin) == order[o] = [status |-> status, margin |-> margin]

Become(o, status, margin) ==
  /\ order' = [order EXCEPT ![o] = [status |-> status, margin |-> margin]]
  /\ UNCHANGED <<hold, exchange>>

Place(o) == Is(o, "ABSENT", "NONE") /\ Become(o, "PENDING_MARGIN", "NONE")

\* The services decide once, and only when the order asked them to.  An order
\* under reconciliation may still have a call on its way.
MarginDecides(o) ==
  /\ order[o].status # "ABSENT" /\ order[o].margin = "NONE"
  /\ hold[o] = "none"
  /\ \E d \in {"held", "declined"} : hold' = [hold EXCEPT ![o] = d]
  /\ UNCHANGED <<order, exchange>>

ExchangeDecides(o) ==
  /\ order[o].margin = "RESERVED" /\ hold[o] = "held"
  /\ exchange[o] = "none"
  /\ \E d \in {"accepted", "rejected"} : exchange' = [exchange EXCEPT ![o] = d]
  /\ UNCHANGED <<order, hold>>

MarginReleases(o) ==
  /\ order[o].margin = "RELEASE_PENDING" /\ exchange[o] = "rejected"
  /\ hold[o] = "held"
  /\ hold' = [hold EXCEPT ![o] = "released"]
  /\ UNCHANGED <<order, exchange>>

\* The order follows what the services decided.
Approved(o) ==
  /\ Is(o, "PENDING_MARGIN", "NONE") /\ hold[o] = "held"
  /\ Become(o, "PENDING_ROUTE", "RESERVED")

Declined(o) ==
  /\ Is(o, "PENDING_MARGIN", "NONE") /\ hold[o] = "declined"
  /\ Become(o, "REJECTED", "NONE")

Accepted(o) ==
  /\ Is(o, "PENDING_ROUTE", "RESERVED") /\ exchange[o] = "accepted"
  /\ Become(o, "ACCEPTED", "RESERVED")

Rejected(o) ==
  /\ Is(o, "PENDING_ROUTE", "RESERVED") /\ exchange[o] = "rejected"
  /\ Become(o, "REJECTED", "RELEASE_PENDING")

Released(o) ==
  /\ Is(o, "REJECTED", "RELEASE_PENDING") /\ hold[o] = "released"
  /\ Become(o, "REJECTED", "RELEASED")

\* The saga stops where it is when an outcome stays unknown.
GiveUp(o) ==
  /\ \/ Is(o, "PENDING_MARGIN", "NONE")
     \/ Is(o, "PENDING_ROUTE", "RESERVED")
     \/ Is(o, "REJECTED", "RELEASE_PENDING")
  /\ Become(o, "RECONCILIATION_REQUIRED", order[o].margin)

Next ==
  \E o \in OrderID :
    \/ Place(o)
    \/ MarginDecides(o) \/ ExchangeDecides(o) \/ MarginReleases(o)
    \/ Approved(o) \/ Declined(o) \/ Accepted(o) \/ Rejected(o)
    \/ Released(o) \/ GiveUp(o)

Spec == Init /\ [][Next]_sagaVars
============================================================================
