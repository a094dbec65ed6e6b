--------------------------- MODULE RefundOutbox ---------------------------
(* cricket-stadium-booking: the refund outbox that CancelBooking fills and *)
(* any number of workers drain, with leases on what they have claimed.     *)
EXTENDS Integers, FiniteSets

CONSTANTS
  Id,           \* confirmed bookings, numbered
  Worker,
  BatchSize,    \* cfg.OutboxBatchSize
  MaxTroubles   \* bound on failed statements, crashes and lapses of a lease in use

VARIABLES
  refund,     \* the status of the refund of a booking
  event,      \* its refund_requested event in the outbox
  batch,      \* the events a worker has claimed and not yet handled
  marked,     \* the worker has marked the refund of the event it handles
  troubles

outboxVars == <<refund, event, batch, marked, troubles>>

Init ==
  /\ refund = [b \in Id |-> "none"] /\ event = [b \in Id |-> "none"]
  /\ batch = [w \in Worker |-> {}] /\ marked = [w \in Worker |-> FALSE]
  /\ troubles = 0

\* The refund and its event are inserted with the cancellation.
CancelBooking(b) ==
  /\ refund[b] = "none"
  /\ refund' = [refund EXCEPT ![b] = "pending"]
  /\ event' = [event EXCEPT ![b] = "ready"]
  /\ UNCHANGED <<batch, marked, troubles>>

Trouble == troubles < MaxTroubles /\ troubles' = troubles + 1

\* Claims the oldest events that are ready, the ones whose lease has lapsed too.
PollUnprocessed(w) ==
  LET ready == {b \in Id : event[b] = "ready"}
      found == {b \in ready : Cardinality({c \in ready : c < b}) < BatchSize} IN
  /\ batch[w] = {} /\ found # {}
  /\ batch' = [batch EXCEPT ![w] = found]
  /\ event' = [b \in Id |-> IF b \in found THEN "claimed" ELSE event[b]]
  /\ UNCHANGED <<refund, marked, troubles>>

\* The oldest event of the batch.
oldest(w) == CHOOSE b \in batch[w] : \A c \in batch[w] : b <= c

Drops(w) == /\ batch' = [batch EXCEPT ![w] = @ \ {oldest(w)}]
            /\ marked' = [marked EXCEPT ![w] = FALSE]

MarkRefundStatus(w) ==
  /\ batch[w] # {} /\ ~marked[w]
  /\ refund' = [refund EXCEPT ![oldest(w)] = "refunded"]
  /\ marked' = [marked EXCEPT ![w] = TRUE]
  /\ UNCHANGED <<event, batch, troubles>>

\* Mutant: an event whose refund failed is marked processed.
ReleaseClaim_Processed(w) ==
  /\ Trouble
  /\ batch[w] # {} /\ ~marked[w]
  /\ event' = [event EXCEPT ![oldest(w)] = "processed"]
  /\ Drops(w)
  /\ UNCHANGED refund

\* MarkRefundStatus failed: the claim is given back, or the lease has to lapse.
\* An event that another worker has processed since stays processed.
ReleaseClaim(w) ==
  /\ Trouble
  /\ batch[w] # {} /\ ~marked[w]
  /\ \/ event' = [event EXCEPT ![oldest(w)] =
                    IF @ = "processed" THEN @ ELSE "ready"]
     \/ event' = event
  /\ Drops(w)
  /\ UNCHANGED refund

MarkProcessed(w) ==
  /\ batch[w] # {} /\ marked[w]
  /\ event' = [event EXCEPT ![oldest(w)] = "processed"]
  /\ Drops(w)
  /\ UNCHANGED <<refund, troubles>>

\* MarkProcessed fails: the event will be handled again.
MarkProcessedFails(w) ==
  /\ Trouble
  /\ batch[w] # {} /\ marked[w]
  /\ Drops(w)
  /\ UNCHANGED <<refund, event>>

WorkerStops(w) ==
  /\ Trouble
  /\ batch[w] # {}
  /\ batch' = [batch EXCEPT ![w] = {}]
  /\ marked' = [marked EXCEPT ![w] = FALSE]
  /\ UNCHANGED <<refund, event>>

InUse(b) == \E w \in Worker : b \in batch[w]

\* claimed_at is older than the lease.
LeaseLapses(b) ==
  /\ event[b] = "claimed"
  /\ IF InUse(b) THEN Trouble ELSE UNCHANGED troubles
  /\ event' = [event EXCEPT ![b] = "ready"]
  /\ UNCHANGED <<refund, batch, marked>>

---------------------------------------------------------------------------
processBatch(w) == PollUnprocessed(w) \/ MarkRefundStatus(w) \/ MarkProcessed(w)

Next ==
  \/ \E w \in Worker : \/ processBatch(w) \/ ReleaseClaim(w)
                       \/ MarkProcessedFails(w) \/ WorkerStops(w)
  \/ \E b \in Id : CancelBooking(b) \/ LeaseLapses(b)

Spec == Init /\ [][Next]_outboxVars

\* The ticker of every worker ticks, and a lease nobody uses lapses.
FairSpec ==
  /\ Spec
  /\ \A w \in Worker : WF_outboxVars(processBatch(w))
  /\ \A b \in Id : WF_outboxVars(~InUse(b) /\ LeaseLapses(b))

---------------------------------------------------------------------------
TypeOK ==
  /\ refund \in [Id -> {"none", "pending", "refunded"}]
  /\ event \in [Id -> {"none", "ready", "claimed", "processed"}]
  /\ batch \in [Worker -> SUBSET Id] /\ marked \in [Worker -> BOOLEAN]
  /\ troubles \in 0..MaxTroubles

\* A cancelled booking is refunded, whatever the outbox worker's failures.
RefundsComplete ==
  \A b \in Id : refund[b] = "pending" ~> refund[b] = "refunded"
===========================================================================
