----------------------------- MODULE SeatPicker -----------------------------
(***************************************************************************)
(* The stadium's browser page (web/app.js).  One user clicks, types and     *)
(* switches tabs while timers fire and replies arrive in any order.  A step *)
(* is one run of the event loop: a handler and the promise continuations    *)
(* it releases.  Drawing is left out; what a click may reach is kept.       *)
(***************************************************************************)
EXTENDS FiniteSets, Naturals

CONSTANTS
    Seat, Buyer,    \* the seats of the match, the names typed in the buyer field
    MaxEvents,      \* bound: edits of the buyer field, steps of other buyers and
                    \* of the refund worker
    MaxSends,       \* bound: writes the page sends
    MaxReads,       \* bound: booking lists on their way at once
    None            \* no seat, hold, dialog or request

VARIABLES
    held, book,                              \* the server's holds and bookings
    selected, hold, map, list, target,       \* what the page shows
    buyer, visible,                          \* the buyer field, the tab
    refresh, again, resched,                 \* refreshPromise ("before": sent before a
                                             \* write was answered), its awaiters
    timers, reads, mut,                      \* timers, booking reads, the write
    events, sends,                           \* what the bounds count
    owed, told                               \* history, for the properties

server == <<held, book>>
drawn == <<selected, hold, map, list, target>>
loading == <<refresh, again, resched>>
spent == <<events, sends>>
pickerVars == <<server, drawn, buyer, visible, loading, timers, reads, mut,
                spent, owed, told>>

Other == "other"
OwnHold(s) == hold # None /\ hold[1] = s
ListBookings(b) == {k \in book : k[2] = b}
Status(s) == IF \E k \in book : k[1] = s /\ k[3] = "confirmed" THEN "confirmed"
             ELSE IF held[s] # None THEN "held" ELSE "available"
ListSeats == [s \in Seat |-> Status(s)]

Init ==
    /\ held = [s \in Seat |-> None] /\ book \in {{}} \union {{<<s, b, "confirmed">>} : s \in Seat, b \in Buyer}
    /\ selected = None /\ hold = None /\ target = None
    /\ map = [s \in Seat |-> "none"] /\ list = [who |-> None, of |-> {}]
    /\ buyer \in Buyer /\ visible = TRUE
    /\ refresh = "asked"
    /\ again = FALSE /\ resched = TRUE /\ timers = {}
    /\ reads = {[who |-> buyer, live |-> TRUE, snap |-> ListBookings(buyer), for |-> "none"]}
    /\ mut = None /\ events = 0 /\ sends = 0
    /\ owed = FALSE /\ told = {}

-----------------------------------------------------------------------------
(* Reading the seat map. *)

\* A call joins the request on its way; either way its caller reschedules.
refreshSeats == /\ refresh' = IF refresh = None THEN "asked" ELSE refresh
                /\ resched' = TRUE

refreshAfterMutation_Joins ==
    /\ owed' = TRUE /\ again' = again /\ resched' = TRUE
    /\ refresh' = IF refresh = None THEN "asked" ELSE "before"

\* A request already on its way may have been read before the write: a second
\* one follows it.
refreshAfterMutation ==
    /\ owed' = TRUE
    /\ IF refresh = None
       THEN refreshSeats /\ UNCHANGED again
       ELSE /\ again' = TRUE /\ UNCHANGED resched
            /\ refresh' = "before"

scheduleNextRefresh(ts) == (ts \ {"seats"}) \union
                           (IF visible THEN {"seats"} ELSE {})

\* renderSeats: a selection that is no longer free falls back on the hold.
Reselected(m) ==
    IF selected # None /\ m[selected] # "available" /\ ~OwnHold(selected)
    THEN IF hold = None THEN None ELSE hold[1] ELSE selected

updateSeatElement(m) == map' = m
renderSeats(m) == updateSeatElement(m) /\ selected' = Reselected(m)

\* The reply, or the network's failure: the awaiters of the promise go on.  A
\* reply older than its arrival is as stale as a fresh one a moment later.
SeatsSettled ==
    /\ refresh # None
    /\ \/ renderSeats(ListSeats)
       \/ UNCHANGED <<map, selected>>
    /\ owed' = (owed /\ refresh = "before")
    /\ timers' = IF resched THEN scheduleNextRefresh(timers) ELSE timers
    /\ refresh' = IF again THEN "asked" ELSE None
    /\ resched' = again /\ again' = FALSE
    /\ reads' = {IF r.for = "both" THEN [r EXCEPT !.for = "all"] ELSE r : r \in reads}
    /\ UNCHANGED <<server, hold, list, target, buyer, visible, mut, spent, told>>

RefreshTimer ==
    /\ "seats" \in timers /\ timers' = timers \ {"seats"}
    /\ refreshSeats
    /\ UNCHANGED <<server, drawn, buyer, visible, again, reads, mut, spent, owed, told>>

visibilitychange_Silent ==
    /\ visible' = ~visible /\ timers' = timers \ {"seats"}
    /\ UNCHANGED <<server, drawn, buyer, loading, reads, mut, spent, owed, told>>

visibilitychange ==
    /\ visible' = ~visible /\ timers' = timers \ {"seats"}
    /\ IF visible THEN UNCHANGED <<refresh, resched>> ELSE refreshSeats
    /\ UNCHANGED <<server, drawn, buyer, again, reads, mut, spent, owed, told>>

-----------------------------------------------------------------------------
(* Reading the buyer's bookings. *)

\* A new generation: the replies of the earlier ones no longer count.
refreshBookings(rs, for) ==
    {[r EXCEPT !.live = FALSE] : r \in rs} \union
    {[who |-> buyer, live |-> TRUE, snap |-> ListBookings(buyer), for |-> for]}

scheduleRefundStatusRefresh(ts, bs) ==
    (ts \ {"refund"}) \union (IF \E k \in bs : k[3] = "pending" THEN {"refund"} ELSE {})

renderBookings(bs) == list' = [who |-> buyer, of |-> bs]

confirmedBookingForSeat(s) == list.who = buyer /\ <<s, buyer, "confirmed">> \in list.of

Current_Any(r) == TRUE
Current(r) == r.live /\ r.who = buyer

\* The finally of a write: the controls come back and the map is read again.
Finally == mut' = None /\ refreshAfterMutation

\* The reply, read when the request was sent or only just now, or none at all.
BookingsSettled(r) ==
    \E reply \in {r.snap, ListBookings(r.who)}, arrives \in BOOLEAN :
    LET shows == arrives /\ Current(r)
        ts    == IF shows THEN scheduleRefundStatusRefresh(timers, reply) ELSE timers
    IN  /\ IF shows THEN renderBookings(reply) ELSE UNCHANGED list
        /\ reads' = reads \ {r}
        /\ timers' = IF r.for = "all" THEN scheduleNextRefresh(ts) ELSE ts
        /\ IF r.for = "confirm" THEN Finally
           ELSE /\ resched' = (resched \/ r.for = "both")
                /\ UNCHANGED <<mut, refresh, again, owed>>
        /\ UNCHANGED <<server, selected, hold, map, target, buyer, visible, spent, told>>

BookingsTimer(t) ==
    /\ t \in timers \ {"seats"} /\ Cardinality(reads) < MaxReads
    /\ timers' = timers \ {t} /\ reads' = refreshBookings(reads, "none")
    /\ UNCHANGED <<server, drawn, buyer, visible, loading, mut, spent, owed, told>>

-----------------------------------------------------------------------------
(* The user.  The cancel dialog is modal: while it is open nothing else is  *)
(* within reach.                                                            *)

Free == target = None

\* The controls that are not disabled.
updateControls ==
    IF mut # None THEN {}
    ELSE {"bookings"} \union
         (IF selected # None /\ ~OwnHold(selected) THEN {"hold"} ELSE {}) \union
         (IF hold # None THEN {"confirm", "release"} ELSE {"buyer"})

\* btn-refresh; btn-refresh-bookings and the bookings tab.
refreshAllAndReschedule ==
    /\ Free /\ Cardinality(reads) < MaxReads
    /\ timers' = timers \ {"seats"}
    /\ refresh' = IF refresh = None THEN "asked" ELSE refresh
    /\ reads' = refreshBookings(reads, "both")
    /\ UNCHANGED <<server, drawn, buyer, visible, again, resched, mut, spent, owed, told>>

switchAppTab ==
    /\ Free /\ Cardinality(reads) < MaxReads
    /\ reads' = refreshBookings(reads, "none")
    /\ UNCHANGED <<server, drawn, buyer, visible, loading, timers, mut, spent, owed, told>>

BuyerInput(b) ==
    /\ Free /\ "buyer" \in updateControls /\ events < MaxEvents /\ b # buyer
    /\ buyer' = b /\ list' = [who |-> b, of |-> {}] /\ told' = {}
    /\ timers' = (timers \ {"refund"}) \union {"buyer"}
    /\ events' = events + 1
    /\ UNCHANGED <<server, selected, hold, map, target, visible, loading, reads, mut,
                   sends, owed>>

openCancelDialog(s) == target' = <<s, buyer>> /\ UNCHANGED selected
selectSeat(s) == selected' = s /\ UNCHANGED target

\* A seat may be clicked when it is free, or confirmed and the buyer's own.
syncSeatOwnershipForElement(s) ==
    map[s] = "available" \/ (map[s] = "confirmed" /\ confirmedBookingForSeat(s))

handleSeatClick(s) ==
    /\ Free /\ syncSeatOwnershipForElement(s)
    /\ IF map[s] = "confirmed" THEN openCancelDialog(s) ELSE selectSeat(s)
    /\ UNCHANGED <<server, hold, map, list, buyer, visible, loading, timers, reads, mut,
                   spent, owed, told>>

closeCancelDialog ==
    /\ ~Free /\ mut = None /\ target' = None
    /\ UNCHANGED <<server, selected, hold, map, list, buyer, visible, loading, timers,
                   reads, mut, spent, owed, told>>

Send(kind, s, b) ==
    /\ mut = None /\ sends < MaxSends /\ sends' = sends + 1
    /\ mut' = [kind |-> kind, seat |-> s, who |-> b, reply |-> "sent"]
    /\ UNCHANGED <<server, drawn, buyer, visible, loading, timers, reads, events,
                   owed, told>>

holdSeat == Free /\ "hold" \in updateControls /\ Send("hold", selected, buyer)
confirmBooking == Free /\ "confirm" \in updateControls /\ Send("confirm", hold[1], hold[2])
releaseHold == Free /\ "release" \in updateControls /\ Send("release", hold[1], hold[2])
cancelConfirmedBooking == ~Free /\ target[2] = buyer /\ Send("cancel", target[1], buyer)

-----------------------------------------------------------------------------
(* The server, and the replies to the writes. *)

\* What each write does when it is accepted.
handleHold(s, b) ==
    /\ Status(s) = "available" /\ UNCHANGED book
    /\ held' = [x \in Seat |-> IF x = s THEN b ELSE IF held[x] = b THEN None ELSE held[x]]
handleConfirm(s, b) ==
    /\ held[s] = b /\ held' = [held EXCEPT ![s] = None]
    /\ book' = book \union {<<s, b, "confirmed">>}
handleRelease(s, b) ==
    held[s] = b /\ held' = [held EXCEPT ![s] = None] /\ UNCHANGED book
handleCancel(s, b) ==
    /\ <<s, b, "confirmed">> \in book /\ UNCHANGED held
    /\ book' = (book \ {<<s, b, "confirmed">>}) \union {<<s, b, "pending">>}

Effect(kind, s, b) ==
    \/ kind = "hold" /\ handleHold(s, b)
    \/ kind = "confirm" /\ handleConfirm(s, b)
    \/ kind = "release" /\ handleRelease(s, b)
    \/ kind = "cancel" /\ handleCancel(s, b)

\* The reply says so, says otherwise, or is lost; so may the request be.
ServeWrite ==
    /\ mut # None /\ mut.reply = "sent"
    /\ \/ Effect(mut.kind, mut.seat, mut.who) /\ \E r \in {"ok", "refused", "lost"} : mut' = [mut EXCEPT !.reply = r]
       \/ UNCHANGED server /\ \E r \in {"refused", "lost"} : mut' = [mut EXCEPT !.reply = r]
    /\ UNCHANGED <<drawn, buyer, visible, loading, timers, reads, spent, owed, told>>

resetHoldState == hold' = None /\ selected' = None

Replied(kind) == mut # None /\ mut.kind = kind /\ mut.reply \notin {"sent", "reading"}

HoldReplied ==
    /\ Replied("hold")
    /\ CASE mut.reply = "ok" -> hold' = <<mut.seat, mut.who>> /\ selected' = mut.seat
         [] mut.reply = "refused" /\ hold # None -> selected' = hold[1] /\ UNCHANGED hold
         [] OTHER -> UNCHANGED <<hold, selected>>
    /\ Finally
    /\ UNCHANGED <<server, map, list, target, buyer, visible, timers, reads, spent, told>>

\* A confirmed booking is listed at once and the list read again before the
\* controls come back.
ConfirmReplied ==
    /\ Replied("confirm")
    /\ IF mut.reply = "lost" THEN UNCHANGED <<hold, selected>> ELSE resetHoldState
    /\ IF mut.reply = "ok"
       THEN /\ Cardinality(reads) < MaxReads
            /\ renderBookings(list.of \union {<<mut.seat, mut.who, "confirmed">>})
            /\ timers' = scheduleRefundStatusRefresh(timers, list.of)
            /\ reads' = refreshBookings(reads, "confirm")
            /\ mut' = [mut EXCEPT !.reply = "reading"]
            /\ told' = told \union {mut.seat}
            /\ UNCHANGED <<loading, owed>>
       ELSE Finally /\ UNCHANGED <<list, timers, reads, told>>
    /\ UNCHANGED <<server, map, target, buyer, visible, spent>>

ReleaseReplied ==
    /\ Replied("release")
    /\ IF mut.reply = "ok" THEN resetHoldState ELSE UNCHANGED <<hold, selected>>
    /\ Finally
    /\ UNCHANGED <<server, map, list, target, buyer, visible, timers, reads, spent, told>>

CancelReplied ==
    /\ Replied("cancel") /\ Cardinality(reads) < MaxReads
    /\ target' = IF mut.reply = "ok" THEN None ELSE target
    /\ Finally /\ reads' = refreshBookings(reads, "none")
    /\ UNCHANGED <<server, selected, hold, map, list, buyer, visible, timers, spent, told>>

\* The countdown ends by the browser's clock, whatever the server's says.
Countdown ==
    /\ hold # None /\ resetHoldState /\ refreshAfterMutation
    /\ UNCHANGED <<server, map, list, target, buyer, visible, timers, reads, mut, spent, told>>

HoldExpires(s) ==
    /\ held[s] # None /\ held' = [held EXCEPT ![s] = None]
    /\ UNCHANGED <<book, drawn, buyer, visible, loading, timers, reads, mut, spent, owed, told>>

\* Other buyers and the refund worker.
Elsewhere ==
    /\ events < MaxEvents /\ events' = events + 1
    /\ \/ \E s \in Seat : /\ Status(s) = "available" /\ UNCHANGED book
                          /\ held' = [held EXCEPT ![s] = Other]
       \/ \E s \in Seat : /\ held[s] = Other /\ held' = [held EXCEPT ![s] = None]
                          /\ book' = book \union {<<s, Other, "confirmed">>}
       \/ \E k \in book : /\ k[3] = "pending" /\ UNCHANGED held
                          /\ book' = (book \ {k}) \union {<<k[1], k[2], "refunded">>}
    /\ UNCHANGED <<drawn, buyer, visible, loading, timers, reads, mut, sends, owed, told>>

-----------------------------------------------------------------------------
Replies == \/ SeatsSettled \/ ServeWrite
           \/ \E r \in reads : BookingsSettled(r)
           \/ HoldReplied \/ ConfirmReplied \/ ReleaseReplied \/ CancelReplied

User == \/ refreshAllAndReschedule \/ switchAppTab \/ visibilitychange
        \/ \E b \in Buyer : BuyerInput(b)
        \/ \E s \in Seat : handleSeatClick(s)
        \/ closeCancelDialog \/ holdSeat \/ confirmBooking \/ releaseHold
        \/ cancelConfirmedBooking

Next == \/ Replies \/ User \/ Countdown \/ Elsewhere
        \/ RefreshTimer \/ \E t \in timers : BookingsTimer(t)
        \/ \E s \in Seat : HoldExpires(s)

Spec == Init /\ [][Next]_pickerVars

\* Every request is answered or fails, and an armed timer fires.
PickerFair == /\ WF_pickerVars(SeatsSettled) /\ WF_pickerVars(RefreshTimer)
              /\ \A f \in {"both", "all"} :
                     WF_pickerVars(\E r \in reads : r.for = f /\ BookingsSettled(r))
FairSpec == Spec /\ PickerFair

-----------------------------------------------------------------------------
\* Every variable of the page and of the server has its type.
TypeOK ==
    /\ held \in [Seat -> Buyer \union {Other, None}]
    /\ selected \in Seat \union {None}
    /\ hold \in (Seat \X Buyer) \union {None} /\ target \in (Seat \X Buyer) \union {None}
    /\ timers \subseteq {"seats", "buyer", "refund"}
    /\ Cardinality(reads) <= MaxReads + 1

\* Whatever order the lists arrive in while the buyer field is edited, the page
\* lists only bookings of the buyer it names (refreshBookings drops replies of
\* an older generation or another buyer), and a booking it was told is
\* confirmed does not drop off the list while it stands.
BookingsAreOwn ==
    /\ \A k \in list.of : k[2] = buyer
    /\ \A s \in told : <<s, buyer, "confirmed">> \in book =>
                       <<s, buyer, "confirmed">> \in list.of

\* When no request for the map is on its way, the last one to end was sent after
\* the last write of this page had been answered (refreshAfterMutation does not
\* settle for a request that was already under way); every variable has its type.
MapFollowsWrites == TypeOK /\ (refresh = None => ~owed)

\* A page that stays visible goes on asking for the map: no order of clicks,
\* timers and tab switches leaves it with its polling stopped.
PollingGoesOn == (visible /\ refresh = None) ~> (~visible \/ refresh # None)
=============================================================================
