-------------------------- MODULE MCSubscription --------------------------
(* Instances of the two halves of subscription-core for TLC. They share no *)
(* state: a behaviour is one of either, chosen at the start.               *)
EXTENDS SubscriptionSync

CONSTANTS UsageKey, MaxUse, MaxErrors

VARIABLES half, used, counter, flushed, snap, todo, mode, done, ledger, errors

U == INSTANCE UsageFlush

usage == <<used, counter, flushed, snap, todo, mode, done, ledger, errors>>
all   == <<vars, half, usage>>

Changes ==
  {[type |-> "updated",        status |-> None,       plan |-> "team"],
   [type |-> "payment_failed", status |-> "active",   plan |-> "pro"],
   [type |-> "canceled",       status |-> "canceled", plan |-> "pro"]}

MCInit == half \in {"sync", "usage"} /\ Init /\ U!Init

Sync(A)  == half = "sync"  /\ A /\ UNCHANGED <<half, usage>>
Usage(A) == half = "usage" /\ A /\ UNCHANGED <<half, vars>>

MCNext == Sync(Next) \/ Usage(U!Next)

MCSpec == MCInit /\ [][MCNext]_all

\* The variables of the webhook, reconciler and cache model and of the usage
\* model keep their types.
TypesOK == TypeOK /\ U!TypeOK

\* Usage is billed at most once (UsageFlush), and every variable of both modules
\* has its type.
NeverDoubleBills == TypesOK /\ U!NeverDoubleBills
===========================================================================
