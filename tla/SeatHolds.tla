---------------------------- MODULE SeatHolds -----------------------------
(* cricket-stadium-booking: holds, confirmations and cancellations of the  *)
(* seats of one match, and the idempotency keys of requests.               *)
(*                                                                         *)
(* A transaction of placeHold takes effect in one step: it locks its buyer *)
(* and waits for uncommitted rows that conflict with its own. now() is the *)
(* time at which it began. Of the time a hold has left the model keeps     *)
(* whether its expiry is ahead, now or past; of a row that is no hold any  *)
(* more, nothing.                                                          *)
EXTENDS Integers, Sequences

CONSTANTS
  Seat, Buyer,
  Key,          \* idempotency keys
  NoKey,        \* the request carries none
  Hold,         \* what is asked for: records of a seat, a buyer and a key
  Request,      \* requests served at a time
  MaxBookings,  \* bound on rows of bookings
  None

VARIABLES
  bookings,   \* the table, with the key each row was made under
  keys,       \* idempotency_keys: the id a key maps to, 0 for none
  call        \* the placeHold a request is in

holdVars == <<bookings, keys, call>>

Ids    == DOMAIN bookings
Active == {"held", "confirmed"}

Init ==
  /\ bookings = <<>> /\ keys = [k \in Key |-> 0]
  /\ call = [r \in Request |-> None]

\* The row when it is a hold no longer.
Becomes(row, status) == [row EXCEPT !.status = status, !.expiry = "past"]

\* Time passes the expiry of a hold.
Lapse(b) ==
  /\ bookings[b].status = "held" /\ bookings[b].expiry # "past"
  /\ bookings' = [bookings EXCEPT ![b].expiry =
                    IF @ = "ahead" THEN "now" ELSE "past"]
  /\ UNCHANGED <<keys, call>>

---------------------------------------------------------------------------
(* Store.placeHold *)

live(b) == \/ bookings[b].status = "confirmed"
           \/ bookings[b].status = "held" /\ bookings[b].expiry = "ahead"

lookupIdempotentHold(c) ==
  IF c.key = NoKey \/ keys[c.key] = 0 THEN "miss"
  ELSE LET b == bookings[keys[c.key]] IN
       IF b.seat # c.seat \/ b.buyer # c.buyer THEN "mismatch"
       ELSE IF live(keys[c.key]) THEN "live" ELSE "dead"

\* The fast path found nothing to replay or to refuse. A dead booking is
\* remembered, and the transaction begins.
Begin(r, c) ==
  /\ call[r] = None
  /\ lookupIdempotentHold(c) \in {"miss", "dead"}
  /\ call' = [call EXCEPT ![r] =
       [req   |-> c,
        stale |-> IF lookupIdempotentHold(c) = "dead" THEN keys[c.key] ELSE 0,
        past  |-> {b \in Ids : /\ bookings[b].seat = c.seat
                               /\ bookings[b].status = "held"
                               /\ bookings[b].expiry = "past"}]]
  /\ UNCHANGED <<bookings, keys>>

\* The rows after the two updates: the buyer's other holds cancelled, a hold on
\* the seat that had expired when the transaction began expired.
updated(t) ==
  [b \in Ids |->
     LET row == bookings[b] IN
     IF row.status # "held" THEN row
     ELSE IF row.buyer = t.req.buyer /\ row.seat # t.req.seat
          THEN Becomes(row, "cancelled")
     ELSE IF row.seat = t.req.seat /\ b \in t.past
          THEN Becomes(row, "expired")
     ELSE row]

\* ux_bookings_active_seat and ux_bookings_one_held_seat_per_buyer.
unique(rows, seat, buyer) ==
  \A b \in DOMAIN rows :
    /\ ~(rows[b].seat = seat /\ rows[b].status \in Active)
    /\ ~(rows[b].buyer = buyer /\ rows[b].status = "held")

\* Mutant: a key that is already recorded is not noticed.
keyIsFree_Always(t) == TRUE

\* The key has no row, or only the stale one the transaction deletes.
keyIsFree(t) ==
  t.req.key # NoKey => keys[t.req.key] \in {0, t.stale}

Place(r) ==
  /\ call[r] # None
  /\ LET t == call[r] IN
     /\ Len(bookings) < MaxBookings
     /\ unique(updated(t), t.req.seat, t.req.buyer) /\ keyIsFree(t)
     /\ bookings' = Append(updated(t),
          [seat |-> t.req.seat, buyer |-> t.req.buyer, status |-> "held",
           expiry |-> "ahead", key |-> t.req.key])
     /\ keys' = IF t.req.key = NoKey THEN keys
                ELSE [keys EXCEPT ![t.req.key] = Len(bookings) + 1]
  /\ call' = [call EXCEPT ![r] = None]

\* A unique violation, or any failed statement: the transaction rolls back and
\* the request returns what another lookup says, or an error.
Rollback(r) ==
  /\ call[r] # None
  /\ call' = [call EXCEPT ![r] = None]
  /\ UNCHANGED <<bookings, keys>>

---------------------------------------------------------------------------
(* The other statements on bookings *)

Moves(b, from, to) ==
  /\ bookings[b].status = from
  /\ bookings' = [bookings EXCEPT ![b] = Becomes(@, to)]

ConfirmHold(b) ==
  /\ bookings[b].expiry = "ahead"
  /\ Moves(b, "held", "confirmed")
  /\ UNCHANGED <<keys, call>>

ReleaseHold(b) ==
  /\ Moves(b, "held", "cancelled")
  /\ UNCHANGED <<keys, call>>

CancelBooking(b) ==
  /\ Moves(b, "confirmed", "cancelled")
  /\ UNCHANGED <<keys, call>>

SweepExpiredHolds ==
  LET dead == {b \in Ids : bookings[b].status = "held"
                             /\ bookings[b].expiry = "past"} IN
  /\ dead # {}
  /\ bookings' = [b \in Ids |-> IF b \in dead
                    THEN Becomes(bookings[b], "expired")
                    ELSE bookings[b]]
  /\ UNCHANGED <<keys, call>>

\* A key is past the retry horizon, which is far longer than a hold. The row it
\* mapped to is a booking like any other from then on.
PruneIdempotencyKeys(k) ==
  /\ keys[k] # 0
  /\ bookings[keys[k]].status = "held" => bookings[keys[k]].expiry = "past"
  /\ keys' = [keys EXCEPT ![k] = 0]
  /\ bookings' = [b \in Ids |-> IF bookings[b].key = k
                    THEN [bookings[b] EXCEPT !.key = NoKey] ELSE bookings[b]]
  /\ UNCHANGED call

---------------------------------------------------------------------------
Next ==
  \/ \E r \in Request : (\E c \in Hold : Begin(r, c)) \/ Place(r) \/ Rollback(r)
  \/ \E b \in Ids : \/ Lapse(b) \/ ConfirmHold(b) \/ ReleaseHold(b)
                    \/ CancelBooking(b)
  \/ SweepExpiredHolds
  \/ \E k \in Key : PruneIdempotencyKeys(k)

Spec == Init /\ [][Next]_holdVars

---------------------------------------------------------------------------
TypeOK ==
  /\ bookings \in Seq([seat: Seat, buyer: Buyer, key: Key \cup {NoKey},
                       status: Active \cup {"expired", "cancelled"},
                       expiry: {"ahead", "now", "past"}])
  /\ keys \in [Key -> 0..Len(bookings)]
  /\ \A r \in Request : call[r] # None =>
       call[r].req \in Hold /\ call[r].stale \in 0..Len(bookings)
         /\ call[r].past \subseteq Ids

\* One idempotency key never holds two seats, whichever requests carry it, one
\* after the other or at the same time: placeHold records the key with the hold.
KeyedOnce ==
  \A a, b \in Ids :
    /\ bookings[a].key = bookings[b].key /\ bookings[a].key # NoKey
    /\ bookings[a].status \in Active /\ bookings[b].status \in Active
    => a = b
===========================================================================
