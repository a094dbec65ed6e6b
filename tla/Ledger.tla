------------------------------ MODULE Ledger ------------------------------
(* fintech-ledger-go: goroutines that transfer between accounts, debit     *)
(* them under an idempotency key and withdraw from them to a bank.         *)
(*                                                                         *)
(* The lock of an account is a variable where a goroutine waits for        *)
(* another lock while it holds one, in Transfer. An operation that takes   *)
(* one lock and returns is one step, possible while the lock is free.      *)
EXTENDS Integers, FiniteSetsExt

CONSTANTS
  Account,     \* account ids, as numbers in the order of the strings
  Opening,     \* the opening balance of each
  Amount,      \* amounts that are transferred and withdrawn
  Key,         \* idempotency keys
  Payment,     \* the account and amount of the request a key is for
  Goroutine,
  MaxLost,     \* what payouts that take effect and still fail may add up to
  None

ASSUME LedgerAssumption ==
  /\ Account \subseteq Nat /\ Opening \in [Account -> Nat] /\ Amount \subseteq Nat
  /\ \A k \in Key : Payment[k].account \in Nat /\ Payment[k].amt \in Nat

VARIABLES
  balance,
  lock,        \* the goroutine that holds an account's mutex
  keys,        \* MemStore: a key is free, pending or done
  debits,      \* how many times a key's request was debited
  paid,        \* what the bank has paid out
  gained,      \* the amounts of payouts that took effect and failed
  job          \* what a goroutine is doing

ledgerVars == <<balance, lock, keys, debits, paid, gained, job>>

Init ==
  /\ balance = Opening /\ lock = [a \in Account |-> None]
  /\ keys = [k \in Key |-> "free"] /\ debits = [k \in Key |-> 0]
  /\ paid = 0 /\ gained = 0
  /\ job = [g \in Goroutine |-> None]

Goes(g, at) == job' = [job EXCEPT ![g].at = at]
Returns(g)  == job' = [job EXCEPT ![g] = None]
At(g, at)   == job[g] # None /\ job[g].at = at

Unlocked(a) == lock[a] = None

\* Mutant: an account may be overdrawn.
covers_Any(a, amt) == TRUE

\* debit does not fail.
covers(a, amt) == balance[a] - amt >= 0

---------------------------------------------------------------------------
(* Transfer *)

\* A transfer to the same account returns at once.
Transfer(g, from, to, amt) ==
  /\ job[g] = None /\ from # to
  /\ job' = [job EXCEPT ![g] =
       [at |-> "first", from |-> from, to |-> to, amt |-> amt]]
  /\ UNCHANGED <<balance, lock, keys, debits, paid, gained>>

\* Mutant: the account that pays is locked first.
first_From(j) == j.from

first(j)  == IF j.to < j.from THEN j.to ELSE j.from
second(j) == IF first(j) = j.from THEN j.to ELSE j.from

Locks(g, a, at) ==
  /\ Unlocked(a)
  /\ lock' = [lock EXCEPT ![a] = g]
  /\ Goes(g, at)
  /\ UNCHANGED <<balance, keys, debits, paid, gained>>

LockFirst(g)  == At(g, "first")  /\ Locks(g, first(job[g]), "second")
LockSecond(g) == At(g, "second") /\ Locks(g, second(job[g]), "locked")

\* Mutant: the error of the debit is ignored.
Move_Credits(g) ==
  /\ At(g, "locked")
  /\ LET j == job[g] IN
     /\ balance' = [balance EXCEPT ![j.from] = IF covers(j.from, j.amt) THEN @ - j.amt ELSE @,
                                  ![j.to] = @ + j.amt]
     /\ lock' = [lock EXCEPT ![j.from] = None, ![j.to] = None]
  /\ Returns(g)
  /\ UNCHANGED <<keys, debits, paid, gained>>

\* Under both locks: the debit, the credit unless it failed, and the unlocks.
Move(g) ==
  /\ At(g, "locked")
  /\ LET j == job[g] IN
     /\ balance' = IF covers(j.from, j.amt)
                   THEN [balance EXCEPT ![j.from] = @ - j.amt, ![j.to] = @ + j.amt]
                   ELSE balance
     /\ lock' = [lock EXCEPT ![j.from] = None, ![j.to] = None]
  /\ Returns(g)
  /\ UNCHANGED <<keys, debits, paid, gained>>

---------------------------------------------------------------------------
(* payment.Debit. A client sends the request of a key any number of times. *)

\* Mutant: a pending key does not refuse a second request.
Reserve_Pending(g, k) ==
  /\ job[g] = None /\ keys[k] # "done"
  /\ keys' = [keys EXCEPT ![k] = "pending"]
  /\ job' = [job EXCEPT ![g] =
       [at |-> IF Payment[k].account \in Account THEN "debit" ELSE "release",
        key |-> k]]
  /\ UNCHANGED <<balance, lock, debits, paid, gained>>

\* Any other state of the key returns its record or ErrInProgress.
Reserve(g, k) ==
  /\ job[g] = None /\ keys[k] = "free"
  /\ keys' = [keys EXCEPT ![k] = "pending"]
  /\ job' = [job EXCEPT ![g] =
       [at |-> IF Payment[k].account \in Account THEN "debit" ELSE "release",
        key |-> k]]
  /\ UNCHANGED <<balance, lock, debits, paid, gained>>

Debit(g) ==
  /\ At(g, "debit")
  /\ LET k == job[g].key
         p == Payment[k] IN
     /\ Unlocked(p.account)
     /\ \/ /\ covers(p.account, p.amt)
           /\ balance' = [balance EXCEPT ![p.account] = @ - p.amt]
           /\ debits' = [debits EXCEPT ![k] = @ + 1]
           /\ Goes(g, "complete")
        \/ /\ ~covers(p.account, p.amt)
           /\ Goes(g, "release")
           /\ UNCHANGED <<balance, debits>>
  /\ UNCHANGED <<lock, keys, paid, gained>>

Complete(g) ==
  /\ At(g, "complete")
  /\ keys' = [keys EXCEPT ![job[g].key] = "done"]
  /\ Returns(g)
  /\ UNCHANGED <<balance, lock, debits, paid, gained>>

Release(g) ==
  /\ At(g, "release")
  /\ keys' = [keys EXCEPT ![job[g].key] = "free"]
  /\ Returns(g)
  /\ UNCHANGED <<balance, lock, debits, paid, gained>>

---------------------------------------------------------------------------
(* WithdrawToBank *)

\* debit_wallet. Without the funds the saga returns with nothing to undo.
DebitWallet(g, a, amt) ==
  /\ job[g] = None
  /\ Unlocked(a) /\ covers(a, amt)
  /\ balance' = [balance EXCEPT ![a] = @ - amt]
  /\ job' = [job EXCEPT ![g] = [at |-> "payout", from |-> a, amt |-> amt]]
  /\ UNCHANGED <<lock, keys, debits, paid, gained>>

\* payout_to_bank.
Payout(g) ==
  /\ At(g, "payout")
  /\ paid' = paid + job[g].amt
  /\ Returns(g)
  /\ UNCHANGED <<balance, lock, keys, debits, gained>>

\* The bank's error, or a timeout after the bank has paid.
PayoutFails(g) ==
  /\ At(g, "payout")
  /\ \/ UNCHANGED <<paid, gained>>
     \/ /\ gained + job[g].amt <= MaxLost
        /\ paid' = paid + job[g].amt
        /\ gained' = gained + job[g].amt
  /\ Goes(g, "compensate")
  /\ UNCHANGED <<balance, lock, keys, debits>>

\* Only the debit is in completed: ReversePayout is not called.
Compensate(g) ==
  /\ At(g, "compensate")
  /\ LET j == job[g] IN
     /\ Unlocked(j.from)
     /\ balance' = [balance EXCEPT ![j.from] = @ + j.amt]
  /\ Returns(g)
  /\ UNCHANGED <<lock, keys, debits, paid, gained>>

---------------------------------------------------------------------------
Step(g) ==
  \/ LockFirst(g) \/ LockSecond(g) \/ Move(g)
  \/ Debit(g) \/ Complete(g) \/ Release(g)
  \/ Payout(g) \/ PayoutFails(g) \/ Compensate(g)

Next ==
  \E g \in Goroutine :
    \/ Step(g)
    \/ \E a, b \in Account, amt \in Amount : Transfer(g, a, b, amt)
    \/ \E k \in Key : Reserve(g, k)
    \/ \E a \in Account, amt \in Amount : DebitWallet(g, a, amt)

Spec == Init /\ [][Next]_ledgerVars

\* sync.Mutex hands the lock over to a goroutine that has waited long.
FairSpec == Spec /\ \A g \in Goroutine : SF_ledgerVars(Step(g))

---------------------------------------------------------------------------
Job ==
  {None}
  \cup [at: {"first", "second", "locked"}, from: Account, to: Account, amt: Amount]
  \cup [at: {"debit", "complete", "release"}, key: Key]
  \cup [at: {"payout", "compensate"}, from: Account, amt: Amount]

\* No balance is negative.
TypeOK ==
  /\ balance \in [Account -> Nat] /\ lock \in [Account -> Goroutine \cup {None}]
  /\ keys \in [Key -> {"free", "pending", "done"}] /\ debits \in [Key -> Nat]
  /\ paid \in Nat /\ gained \in Nat
  /\ job \in [Goroutine -> Job]

Withdrawing == {g \in Goroutine : At(g, "payout") \/ At(g, "compensate")}

\* Money is neither created nor lost, whatever the interleaving of transfers,
\* debits and withdrawals: what has left the accounts was debited under a key,
\* was paid out or is on its way, save for the payouts that took effect and
\* failed, which the saga credits back.
MoneyConserved ==
  MapThenSumSet(LAMBDA a : balance[a], Account)
    + MapThenSumSet(LAMBDA k : debits[k] * Payment[k].amt, Key)
    + paid + MapThenSumSet(LAMBDA g : job[g].amt, Withdrawing)
  = MapThenSumSet(LAMBDA a : Opening[a], Account) + gained

\* A request is debited at most once however often the client sends it, and a
\* key with a stored result was debited: Reserve, Complete and Release.
DebitedOnce ==
  \A k \in Key : debits[k] <= 1 /\ (keys[k] = "done" => debits[k] = 1)

\* Every operation returns: Transfer locks in the order of the ids.
OperationsReturn == \A g \in Goroutine : job[g] # None ~> job[g] = None
===========================================================================
