--------------------------- MODULE RideDispatch ---------------------------
(* kafkaeda: rides, the dispatcher's two consumers with their row locks and  *)
(* the ride projection. Events are delivered as EventRelay delivers them to  *)
(* a group: in any order across keys and topics, effective once.             *)
EXTENDS Integers, Sequences

CONSTANTS
  Ride, Driver,
  MaxPings,    \* bound on location updates of a driver
  None

VARIABLES
  rides, rideDrivers,    \* ride.rides.status, ride.ride_drivers
  availability,          \* dispatch.driver_availability
  pendingRides,          \* dispatch.pending_rides, oldest first
  assignments,           \* dispatch.assignments
  events,                \* emitted events that their consumer has not processed
  pings,
  open                   \* the open transactions of the dispatcher

dispatchVars == <<rides, rideDrivers, availability, pendingRides, assignments, events, pings, open>>

Init ==
  /\ rides = [r \in Ride |-> "none"] /\ rideDrivers = [r \in Ride |-> None]
  /\ availability = [d \in Driver |-> "AVAILABLE"]
  /\ pendingRides = <<>> /\ assignments = [r \in Ride |-> None]
  /\ events = {} /\ pings = [d \in Driver |-> 0]
  /\ open = [requested |-> None, location |-> None]

Create(r) ==
  /\ rides[r] = "none"
  /\ rides' = [rides EXCEPT ![r] = "REQUESTED"]
  /\ events' = events \cup {<<"requested", r>>}
  /\ UNCHANGED <<rideDrivers, availability, pendingRides, assignments, pings, open>>

recordLocation(d) ==
  /\ pings[d] < MaxPings
  /\ pings' = [pings EXCEPT ![d] = @ + 1]
  /\ events' = events \cup {<<"location", d, pings[d]>>}
  /\ UNCHANGED <<rides, rideDrivers, availability, pendingRides, assignments, open>>

---------------------------------------------------------------------------
(* The dispatcher. A driver's row is locked from the statement that selects  *)
(* or updates it to the end of the transaction; the other consumer skips it. *)

Locks(t) == IF open[t] = None THEN None ELSE open[t].driver

\* Mutant: the availability is not asked for again.
candidates_Busy(other) == Driver \ {Locks(other)}

\* SELECT ... WHERE availability = 'AVAILABLE' ... FOR UPDATE SKIP LOCKED.
candidates(other) == {d \in Driver : availability[d] = "AVAILABLE" /\ d # Locks(other)}

\* The pending row is inserted, unseen by others, and a driver locked if any.
BeginRequested(r) ==
  /\ <<"requested", r>> \in events /\ open.requested = None
  /\ \E d \in IF candidates("location") = {} THEN {None} ELSE candidates("location") :
       open' = [open EXCEPT !.requested = [ride |-> r, driver |-> d]]
  /\ UNCHANGED <<rides, rideDrivers, availability, pendingRides, assignments, events, pings>>

handleRideRequested ==
  LET r == open.requested.ride
      d == open.requested.driver
      rest == events \ {<<"requested", r>>} IN
  /\ open.requested # None
  /\ open' = [open EXCEPT !.requested = None]
  /\ IF d # None
       THEN /\ availability' = [availability EXCEPT ![d] = "BUSY"]
            /\ assignments' = [assignments EXCEPT ![r] = d]
            /\ events' = rest \cup {<<"assigned", r, d>>}
            /\ UNCHANGED pendingRides
       ELSE /\ pendingRides' = Append(pendingRides, r)
            /\ events' = rest \cup {<<"deferred", r>>}
            /\ UNCHANGED <<availability, assignments>>
  /\ UNCHANGED <<rides, rideDrivers, pings>>

\* The UPDATE of the position locks the driver's row, or waits for its lock.
BeginLocation(d, n) ==
  /\ <<"location", d, n>> \in events /\ open.location = None
  /\ Locks("requested") # d
  /\ open' = [open EXCEPT !.location = [driver |-> d, ping |-> n]]
  /\ UNCHANGED <<rides, rideDrivers, availability, pendingRides, assignments, events, pings>>

\* The oldest pending ride takes a driver that is free and not locked.
handleDriverLocation ==
  LET rest == events \ {<<"location", open.location.driver, open.location.ping>>}
      oldest == Head(pendingRides) IN
  /\ open.location # None
  /\ open' = [open EXCEPT !.location = None]
  /\ IF pendingRides # <<>> /\ candidates("requested") # {}
       THEN \E d \in candidates("requested") :
              /\ availability' = [availability EXCEPT ![d] = "BUSY"]
              /\ assignments' = [assignments EXCEPT ![oldest] = d]
              /\ pendingRides' = Tail(pendingRides)
              /\ events' = rest \cup {<<"assigned", oldest, d>>}
       ELSE events' = rest /\ UNCHANGED <<availability, assignments, pendingRides>>
  /\ UNCHANGED <<rides, rideDrivers, pings>>

\* A statement fails: the locks are released, the event may come again.
Rollback(t) ==
  /\ open[t] # None
  /\ open' = [open EXCEPT ![t] = None]
  /\ UNCHANGED <<rides, rideDrivers, availability, pendingRides, assignments, events, pings>>

---------------------------------------------------------------------------
(* The ride projection. *)

applyAssigned(r, d) ==
  /\ <<"assigned", r, d>> \in events
  /\ events' = events \ {<<"assigned", r, d>>}
  /\ IF rides[r] # "DRIVER_ASSIGNED"
       THEN /\ rides' = [rides EXCEPT ![r] = "DRIVER_ASSIGNED"]
            /\ rideDrivers' = [rideDrivers EXCEPT ![r] = d]
       ELSE UNCHANGED <<rides, rideDrivers>>
  /\ UNCHANGED <<availability, pendingRides, assignments, pings, open>>

\* Mutant: SEARCHING_DRIVER whatever the status.
deferrable_Any(r) == TRUE

deferrable(r) == rides[r] = "REQUESTED"

applyDeferred(r) ==
  /\ <<"deferred", r>> \in events
  /\ events' = events \ {<<"deferred", r>>}
  /\ rides' = IF deferrable(r) THEN [rides EXCEPT ![r] = "SEARCHING_DRIVER"] ELSE rides
  /\ UNCHANGED <<rideDrivers, availability, pendingRides, assignments, pings, open>>

---------------------------------------------------------------------------
Next ==
  \/ \E r \in Ride : Create(r) \/ BeginRequested(r) \/ applyDeferred(r)
                     \/ \E d \in Driver : applyAssigned(r, d)
  \/ \E d \in Driver : recordLocation(d) \/ \E n \in 0..MaxPings : BeginLocation(d, n)
  \/ handleRideRequested \/ handleDriverLocation
  \/ \E t \in {"requested", "location"} : Rollback(t)

Spec == Init /\ [][Next]_dispatchVars

---------------------------------------------------------------------------
\* Every variable has its type.
TypeOK ==
  /\ rides \in [Ride -> {"none", "REQUESTED", "SEARCHING_DRIVER", "DRIVER_ASSIGNED"}]
  /\ rideDrivers \in [Ride -> Driver \cup {None}]
  /\ assignments \in [Ride -> Driver \cup {None}]
  /\ availability \in [Driver -> {"AVAILABLE", "BUSY"}]
  /\ pings \in [Driver -> 0..MaxPings]

\* A driver serves one ride and is BUSY exactly then, a pending ride is pending
\* once and has no driver, and a ride shown as assigned shows the dispatcher's
\* driver (dispatch.reserveDriver, ride.applyAssigned).
DriverServesOne ==
  /\ \A q, r \in Ride : assignments[q] = assignments[r] /\ assignments[q] # None => q = r
  /\ \A d \in Driver : availability[d] = "BUSY" <=> \E r \in Ride : assignments[r] = d
  /\ \A i, j \in DOMAIN pendingRides :
       /\ assignments[pendingRides[i]] = None
       /\ pendingRides[i] = pendingRides[j] => i = j
  /\ \A r \in Ride : rides[r] = "DRIVER_ASSIGNED" =>
                       rideDrivers[r] = assignments[r] /\ assignments[r] # None

rank == [none |-> 0, REQUESTED |-> 1, SEARCHING_DRIVER |-> 2, DRIVER_ASSIGNED |-> 3]

\* The deferred and the assigned event of a ride come in either order, from two
\* topics: its status never goes back (ride.applyDeferred).
StatusAdvances == [][\A r \in Ride : rank[rides'[r]] >= rank[rides[r]]]_dispatchVars
===========================================================================
