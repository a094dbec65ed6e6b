--------------------------- MODULE ReconcilePool --------------------------
(* fintech-ledger-go: reconciliation.Reconcile, a pool of workers that take *)
(* transactions from one unbuffered channel and send results into another.  *)
EXTENDS Integers, Sequences

CONSTANTS Worker, Txns   \* the workers; how many transactions there are

VARIABLES
  fed,        \* how many transactions the feeder has sent
  jobsOpen,   \* jobs is not closed
  state,      \* of a worker
  txn,        \* its transaction, 0 for none
  cancelled,  \* ctx is done
  out,        \* the results received
  returned

poolVars == <<fed, jobsOpen, state, txn, cancelled, out, returned>>

Init ==
  /\ fed = 0 /\ jobsOpen = TRUE
  /\ state = [w \in Worker |-> "ranging"] /\ txn = [w \in Worker |-> 0]
  /\ cancelled = FALSE /\ out = <<>> /\ returned = FALSE

Cancel ==
  /\ ~cancelled /\ cancelled' = TRUE
  /\ UNCHANGED <<fed, jobsOpen, state, txn, out, returned>>

Becomes(w, s) == state' = [state EXCEPT ![w] = s]

\* The feeder's send meets a worker's receive; select may prefer it to ctx.
Feed(w) ==
  /\ jobsOpen /\ fed < Txns
  /\ state[w] = "ranging"
  /\ fed' = fed + 1
  /\ txn' = [txn EXCEPT ![w] = fed + 1]
  /\ Becomes(w, "got")
  /\ UNCHANGED <<jobsOpen, cancelled, out, returned>>

\* The feeder returns, having sent all or because ctx is done, and closes jobs.
CloseJobs ==
  /\ jobsOpen /\ (fed = Txns \/ cancelled)
  /\ jobsOpen' = FALSE
  /\ UNCHANGED <<fed, state, txn, cancelled, out, returned>>

\* ctx.Err() is read before process is called, which then may see ctx done.
Check(w) ==
  /\ state[w] = "got"
  /\ Becomes(w, IF cancelled THEN "sending" ELSE "processing")
  /\ UNCHANGED <<fed, jobsOpen, txn, cancelled, out, returned>>

Process(w) ==
  /\ state[w] = "processing"
  /\ Becomes(w, "sending")
  /\ UNCHANGED <<fed, jobsOpen, txn, cancelled, out, returned>>

\* A worker's send meets the receive of the loop over results.
Send(w) ==
  /\ state[w] = "sending"
  /\ out' = Append(out, txn[w])
  /\ txn' = [txn EXCEPT ![w] = 0]
  /\ Becomes(w, "ranging")
  /\ UNCHANGED <<fed, jobsOpen, cancelled, returned>>

Exit(w) ==
  /\ state[w] = "ranging" /\ ~jobsOpen
  /\ Becomes(w, "done")
  /\ UNCHANGED <<fed, jobsOpen, txn, cancelled, out, returned>>

\* wg.Wait returns, results is closed and Reconcile returns.
Return ==
  /\ ~returned /\ \A w \in Worker : state[w] = "done"
  /\ returned' = TRUE
  /\ UNCHANGED <<fed, jobsOpen, state, txn, cancelled, out>>

Work(w) == Feed(w) \/ Check(w) \/ Process(w) \/ Send(w) \/ Exit(w)

Next == Cancel \/ CloseJobs \/ Return \/ \E w \in Worker : Work(w)

Spec == Init /\ [][Next]_poolVars

\* process returns, and no goroutine stops.
FairSpec ==
  /\ Spec
  /\ WF_poolVars(CloseJobs) /\ WF_poolVars(Return)
  /\ \A w \in Worker : WF_poolVars(Work(w))

---------------------------------------------------------------------------
TypeOK ==
  /\ fed \in 0..Txns /\ jobsOpen \in BOOLEAN /\ cancelled \in BOOLEAN
  /\ state \in [Worker -> {"ranging", "got", "processing", "sending", "done"}]
  /\ txn \in [Worker -> 0..Txns] /\ out \in Seq(1..Txns) /\ returned \in BOOLEAN

\* Reconcile returns, with one result for every transaction that was given to a
\* worker, and for all of them unless ctx was done: no result is left behind in
\* a worker when jobs or results is closed.
BatchCompletes ==
  <>(/\ returned
     /\ Len(out) = fed /\ {out[i] : i \in DOMAIN out} = 1..fed
     /\ cancelled \/ fed = Txns)
===========================================================================
