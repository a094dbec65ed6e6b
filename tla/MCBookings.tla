---------------------------- MODULE MCBookings ----------------------------
(* Instances of cricket-stadium-booking's holds and refund outbox and of    *)
(* fintech-ledger-go's ledger, shard and reconciliation pool for TLC. They  *)
(* share no state: a behaviour is one of either, chosen at the start.       *)
EXTENDS Ledger

CONSTANTS
  Seat, Buyer, HoldKey, NoKey, Request, MaxBookings,
  Id, Worker, BatchSize, MaxTroubles,
  Caller, Owned, Foreign, Capacity, MaxCalls,
  Txns

VARIABLES
  part,
  bookings, holdKeys, call,
  refund, event, batch, marked, troubles,
  commands, closed, calls, doing, answers, applied, reported,
  fed, jobsOpen, state, txn, cancelled, out, returned

\* The same key for two seats, and a request without a key for one of them.
Holds ==
  {[seat |-> "s1", buyer |-> "A", key |-> "k"],
   [seat |-> "s2", buyer |-> "B", key |-> "k"],
   [seat |-> "s1", buyer |-> "B", key |-> NoKey]}

H == INSTANCE SeatHolds WITH Key <- HoldKey, keys <- holdKeys, Hold <- Holds
R == INSTANCE RefundOutbox
S == INSTANCE ShardOwner
P == INSTANCE ReconcilePool

hold   == <<bookings, holdKeys, call>>
outbox == <<refund, event, batch, marked, troubles>>
shard  == <<commands, closed, calls, doing, answers, applied, reported>>
pool   == <<fed, jobsOpen, state, txn, cancelled, out, returned>>
all    == <<part, ledgerVars, hold, outbox, shard, pool>>

Twos == [a \in Account |-> 2]

\* The requests of the keys: one of an account, one of an unknown account.
Requests == [k1 |-> [account |-> 1, amt |-> 2], k2 |-> [account |-> 9, amt |-> 1]]

MCInit ==
  /\ part \in {"ledger", "holds", "refunds", "shard", "pool"}
  /\ Init /\ H!Init /\ R!Init /\ S!Init /\ P!Init

InLedger(A)  == part = "ledger"  /\ A /\ UNCHANGED <<part, hold, outbox, shard, pool>>
InHolds(A)   == part = "holds"   /\ A /\ UNCHANGED <<part, ledgerVars, outbox, shard, pool>>
InRefunds(A) == part = "refunds" /\ A /\ UNCHANGED <<part, ledgerVars, hold, shard, pool>>
InShard(A)   == part = "shard"   /\ A /\ UNCHANGED <<part, ledgerVars, hold, outbox, pool>>
InPool(A)    == part = "pool"    /\ A /\ UNCHANGED <<part, ledgerVars, hold, outbox, shard>>

MCNext ==
  \/ InLedger(Next) \/ InHolds(H!Next) \/ InRefunds(R!Next)
  \/ InShard(S!Next) \/ InPool(P!Next)

\* The fairness of each module's FairSpec.
MCSpec ==
  /\ MCInit /\ [][MCNext]_all
  /\ \A g \in Goroutine : SF_all(InLedger(Step(g)))
  /\ \A w \in Worker : WF_all(InRefunds(R!processBatch(w)))
  /\ \A b \in Id : WF_all(InRefunds(~R!InUse(b) /\ R!LeaseLapses(b)))
  /\ WF_all(InShard(S!run))
  /\ \A c \in Caller : SF_all(InShard(S!Send(c))) /\ WF_all(InShard(S!Receive(c)))
  /\ WF_all(InPool(P!CloseJobs)) /\ WF_all(InPool(P!Return))
  /\ \A w \in Worker : WF_all(InPool(P!Work(w)))

---------------------------------------------------------------------------
\* The variables of every module keep their types, and no balance is negative.
TypesOK == TypeOK /\ H!TypeOK /\ R!TypeOK /\ S!TypeOK /\ P!TypeOK

\* Every requested refund is made (RefundOutbox).
RefundsComplete == R!RefundsComplete

\* One idempotency key never holds two seats (SeatHolds), and a shard runs a
\* command once, in its caller's order, and has run it when Do reports no error
\* (ShardOwner); every variable has its type.
OnceEach == TypesOK /\ H!KeyedOnce /\ S!RunsInOrder

\* Every ledger operation and every call of Do returns, and so does Reconcile,
\* with all its results (Ledger, ShardOwner, ReconcilePool).
CallsReturn ==
  /\ OperationsReturn
  /\ S!DoReturns
  /\ part = "pool" => P!BatchCompletes
===========================================================================
