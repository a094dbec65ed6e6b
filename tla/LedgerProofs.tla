--------------------------- MODULE LedgerProofs ---------------------------
(* A request is debited at most once, for any number of goroutines, keys,  *)
(* accounts and retries.                                                   *)
EXTENDS Ledger, TLAPS

\* The goroutines inside payment.Debit, which have reserved a key.
Holder(g) == job[g] # None /\ job[g].at \in {"debit", "complete", "release"}

KeyTypes ==
  /\ keys \in [Key -> {"free", "pending", "done"}]
  /\ debits \in [Key -> Nat]
  /\ job \in [Goroutine -> Job]

\* A reserved key is pending and has one holder.
Reserved ==
  /\ \A g \in Goroutine : Holder(g) => keys[job[g].key] = "pending"
  /\ \A g, h \in Goroutine :
       Holder(g) /\ Holder(h) /\ job[g].key = job[h].key => g = h

\* The debit of a key is made between its holder's debit and completion.
Counted ==
  /\ \A k \in Key : /\ keys[k] = "free" => debits[k] = 0
                    /\ keys[k] = "pending" => debits[k] <= 1
                    /\ keys[k] = "done" => debits[k] = 1
  /\ \A g \in Goroutine : Holder(g) =>
       debits[job[g].key] = IF job[g].at = "complete" THEN 1 ELSE 0

\* The inductive invariant of the idempotency keys.
KeyInv == KeyTypes /\ Reserved /\ Counted

---------------------------------------------------------------------------
\* A step that leaves the keys alone, and in which the goroutine was not and is
\* not inside payment.Debit: Transfer and WithdrawToBank.
LEMMA OtherSteps ==
  ASSUME KeyInv, NEW g \in Goroutine, NEW j \in Job,
         job' = [job EXCEPT ![g] = j], ~Holder(g),
         j # None => j.at \notin {"debit", "complete", "release"},
         UNCHANGED <<keys, debits>>
  PROVE  KeyInv'
<1>1. KeyTypes'
  BY DEF KeyInv, KeyTypes
<1>2. \A h \in Goroutine : Holder(h)' => Holder(h) /\ job'[h] = job[h] /\ h # g
  BY DEF KeyInv, KeyTypes, Holder
<1>3. Reserved'
  BY <1>2 DEF KeyInv, KeyTypes, Reserved
<1>4. Counted'
  BY <1>2 DEF KeyInv, KeyTypes, Counted
<1> QED
  BY <1>1, <1>3, <1>4 DEF KeyInv

\* A holder's job names its key, and any other job does not.
LEMMA JobShape ==
  ASSUME KeyTypes, NEW g \in Goroutine
  PROVE  /\ Holder(g) => /\ job[g].key \in Key
                         /\ job[g] = [at |-> job[g].at, key |-> job[g].key]
         /\ job[g] # None /\ ~Holder(g) =>
              \/ job[g] \in [at: {"first", "second", "locked"}, from: Account,
                            to: Account, amt: Amount]
              \/ job[g] \in [at: {"payout", "compensate"}, from: Account,
                            amt: Amount]
<1>1. job[g] \in Job
  BY DEF KeyTypes
<1> QED
  BY <1>1 DEF Job, Holder

\* Steps of a holder change its own key only, and leave it a holder or not.
LEMMA HolderSteps ==
  ASSUME KeyInv, NEW g \in Goroutine, Holder(g),
         Debit(g) \/ Complete(g) \/ Release(g)
  PROVE  KeyInv'
<1> DEFINE k == job[g].key
<1>1. k \in Key /\ job[g] = [at |-> job[g].at, key |-> k]
  BY JobShape DEF KeyInv
<1>2. keys[k] = "pending"
      /\ \A h \in Goroutine \ {g} : Holder(h) => job[h].key # k
  BY DEF KeyInv, Reserved
<1>3. CASE Debit(g)
  <2>1. /\ keys' = keys /\ debits[k] = 0 /\ At(g, "debit")
        /\ \/ job' = [job EXCEPT ![g].at = "complete"] /\ debits' = [debits EXCEPT ![k] = @ + 1]
           \/ job' = [job EXCEPT ![g].at = "release"] /\ debits' = debits
    BY <1>3 DEF Debit, At, Goes, KeyInv, Counted
  <2>2. \A at \in {"complete", "release"} :
          /\ [job[g] EXCEPT !.at = at] = [at |-> at, key |-> k]
          /\ [at |-> at, key |-> k] \in Job
    BY <1>1 DEF Job
  <2>3. PICK at \in {"complete", "release"} :
          /\ job' = [job EXCEPT ![g] = [at |-> at, key |-> k]]
          /\ debits' = [debits EXCEPT ![k] = IF at = "complete" THEN 1 ELSE 0]
    BY <1>1, <2>1, <2>2 DEF KeyInv, KeyTypes
  <2>4. KeyTypes'
    BY <1>1, <2>1, <2>2, <2>3 DEF KeyInv, KeyTypes
  <2>5. \A h \in Goroutine : /\ h # g => job'[h] = job[h] /\ (Holder(h)' <=> Holder(h))
                             /\ h = g => job'[h].key = k /\ job'[h].at = at
    BY <2>3 DEF KeyInv, KeyTypes, Holder
  <2>6. Reserved'
    BY <1>1, <1>2, <2>1, <2>5 DEF KeyInv, Reserved
  <2>7. Counted'
    <3>1. \A h \in Goroutine \ {g} : Holder(h) => job[h].key # k /\ job[h].key \in Key
      BY <1>2, JobShape, Zenon DEF KeyInv
    <3> QED
      BY <1>1, <1>2, <2>1, <2>3, <2>5, <3>1 DEF KeyInv, KeyTypes, Counted
  <2> QED
    BY <2>4, <2>6, <2>7 DEF KeyInv
<1>4. CASE Complete(g) \/ Release(g)
  <2>1. PICK st \in {"free", "done"} :
          /\ job' = [job EXCEPT ![g] = None]
          /\ keys' = [keys EXCEPT ![k] = st] /\ debits' = debits
          /\ st = "done" => job[g].at = "complete"
          /\ st = "free" => job[g].at = "release"
    BY <1>4 DEF Complete, Release, Returns, At
  <2>2. None \in Job
    BY DEF Job
  <2>3. KeyTypes'
    BY <1>1, <2>1, <2>2 DEF KeyInv, KeyTypes
  <2>4. \A h \in Goroutine : Holder(h)' => Holder(h) /\ job'[h] = job[h] /\ h # g
    BY <2>1 DEF KeyInv, KeyTypes, Holder
  <2>5. debits[k] = IF st = "done" THEN 1 ELSE 0
    BY <2>1 DEF KeyInv, Counted
  <2>6. Reserved'
    <3>1. \A h \in Goroutine \ {g} : Holder(h) => job[h].key # k /\ job[h].key \in Key
      BY <1>2, JobShape, Zenon DEF KeyInv
    <3> QED
      BY <1>1, <2>1, <2>4, <3>1 DEF KeyInv, KeyTypes, Reserved
  <2>7. Counted'
    BY <1>1, <2>1, <2>4, <2>5 DEF KeyInv, KeyTypes, Counted
  <2> QED
    BY <2>3, <2>6, <2>7 DEF KeyInv
<1> QED
  BY <1>3, <1>4

\* Reserve makes the goroutine the only holder of a key nobody holds.
LEMMA ReserveStep ==
  ASSUME KeyInv, NEW g \in Goroutine, NEW k \in Key, Reserve(g, k)
  PROVE  KeyInv'
<1>1. PICK at \in {"debit", "release"} :
        /\ job' = [job EXCEPT ![g] = [at |-> at, key |-> k]]
        /\ keys[k] = "free" /\ keys' = [keys EXCEPT ![k] = "pending"]
        /\ debits' = debits /\ job[g] = None
  BY Zenon DEF Reserve
<1>2. [at |-> at, key |-> k] \in Job
  BY DEF Job
<1>3. KeyTypes'
  BY <1>1, <1>2 DEF KeyInv, KeyTypes
<1>4. \A h \in Goroutine :
        /\ h # g => job'[h] = job[h] /\ (Holder(h)' <=> Holder(h))
        /\ h = g => job'[h].key = k /\ job'[h].at = at
  BY <1>1 DEF KeyInv, KeyTypes, Holder
<1>5. \A h \in Goroutine : Holder(h) => job[h].key # k /\ job[h].key \in Key
  BY <1>1, JobShape, Zenon DEF KeyInv, Reserved
<1>6. Reserved'
  BY <1>1, <1>4, <1>5 DEF KeyInv, KeyTypes, Reserved
<1>7. Counted'
  BY <1>1, <1>4, <1>5 DEF KeyInv, KeyTypes, Counted
<1> QED
  BY <1>3, <1>6, <1>7 DEF KeyInv

---------------------------------------------------------------------------
\* The state of the idempotency keys stays consistent with the goroutines that
\* hold them: Init and every step of Next preserve KeyInv.
THEOREM KeyInvHolds == Spec => []KeyInv
<1>1. Init => KeyInv
  BY DEF Init, KeyInv, KeyTypes, Reserved, Counted, Holder, Job
<1>2. ASSUME KeyInv, [Next]_ledgerVars PROVE KeyInv'
  <2>1. CASE UNCHANGED ledgerVars
    BY <1>2, <2>1 DEF ledgerVars, KeyInv, KeyTypes, Reserved, Counted, Holder
  <2>2. ASSUME NEW g \in Goroutine, NEW a \in Account, NEW b \in Account,
               NEW amt \in Amount, Transfer(g, a, b, amt) \/ DebitWallet(g, a, amt)
        PROVE  KeyInv'
    <3>1. PICK j \in Job : /\ job' = [job EXCEPT ![g] = j]
                           /\ j.at \in {"first", "payout"} /\ job[g] = None
      BY <2>2, Zenon DEF Transfer, DebitWallet, Job
    <3> QED
      BY <1>2, <2>2, <3>1, OtherSteps, Zenon DEF Transfer, DebitWallet, Holder
  <2>3. ASSUME NEW g \in Goroutine,
               LockFirst(g) \/ LockSecond(g) \/ Move(g)
                 \/ Payout(g) \/ PayoutFails(g) \/ Compensate(g)
        PROVE  KeyInv'
    <3>1. job[g] # None /\ ~Holder(g) /\ UNCHANGED <<keys, debits>>
      BY <2>3 DEF LockFirst, LockSecond, Locks, Move, Payout, PayoutFails,
                  Compensate, At, Holder
    <3>2. PICK j \in Job : /\ job' = [job EXCEPT ![g] = j]
                           /\ j # None => j.at \notin {"debit", "complete", "release"}
      <4>1. CASE LockFirst(g) \/ LockSecond(g)
        <5>1. PICK at \in {"second", "locked"} : job' = [job EXCEPT ![g].at = at]
          BY <4>1 DEF LockFirst, LockSecond, Locks, Goes
        <5>2. job[g].at \in {"first", "second"}
          BY <4>1 DEF LockFirst, LockSecond, At
        <5> DEFINE n == [job[g] EXCEPT !.at = at]
        <5>3. job[g] \in [at: {"first", "second", "locked"}, from: Account,
                          to: Account, amt: Amount]
          BY <1>2, <3>1, <5>2, JobShape, Zenon DEF KeyInv
        <5>4. n \in Job /\ n.at = at
          BY <5>3 DEF Job
        <5>5. job' = [job EXCEPT ![g] = n]
          BY <5>1
        <5> HIDE DEF n
        <5> QED
          BY <5>4, <5>5, Zenon
      <4>2. CASE PayoutFails(g)
        <5>1. job' = [job EXCEPT ![g].at = "compensate"] /\ job[g].at = "payout"
          BY <4>2 DEF PayoutFails, Goes, At
        <5> DEFINE n == [job[g] EXCEPT !.at = "compensate"]
        <5>2. job[g] \in [at: {"payout", "compensate"}, from: Account, amt: Amount]
          BY <1>2, <3>1, <5>1, JobShape, Zenon DEF KeyInv
        <5>3. n \in Job /\ n.at = "compensate"
          BY <5>2 DEF Job
        <5>4. job' = [job EXCEPT ![g] = n]
          BY <5>1
        <5> HIDE DEF n
        <5> QED
          BY <5>3, <5>4, Zenon
      <4>3. CASE Move(g) \/ Payout(g) \/ Compensate(g)
        BY <4>3 DEF Move, Payout, Compensate, Returns, Job
      <4> QED
        BY <2>3, <4>1, <4>2, <4>3
    <3> QED
      BY <1>2, <3>1, <3>2, OtherSteps, Zenon
  <2>4. ASSUME NEW g \in Goroutine, Debit(g) \/ Complete(g) \/ Release(g)
        PROVE  KeyInv'
    BY <1>2, <2>4, HolderSteps, Zenon DEF Debit, Complete, Release, At, Holder
  <2> QED
    BY <1>2, <2>1, <2>2, <2>3, <2>4, ReserveStep DEF Next, Step
<1> QED
  BY <1>1, <1>2, PTL DEF Spec

\* A client may send a payment.Debit any number of times, at the same time too:
\* its account is debited at most once, and once when a result is stored.
THEOREM DebitedOnceHolds == Spec => []DebitedOnce
<1>1. KeyInv => DebitedOnce
  BY DEF KeyInv, KeyTypes, Counted, DebitedOnce
<1> QED
  BY <1>1, KeyInvHolds, PTL
===========================================================================
