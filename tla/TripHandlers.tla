----------------------------- MODULE TripHandlers -----------------------------
(***************************************************************************)
(* From a trip to its settlement: the handlers handleTripStart,            *)
(* handleCancelRide and handleTripEnd of RidesGatewayService.  Each acts on*)
(* the trip connected to the first room of the socket, whoever sends it.   *)
(***************************************************************************)
EXTENDS RideStore

\* Riders are taken to be always connected; a driver needs a connected socket.
MaySend(u) == u \in Riders \/ (u \in Drivers /\ live[u])

-----------------------------------------------------------------------------
(* handleTripStart: no look at the status the trip has.                    *)

StartTrip(s, u) ==
    /\ task[s] = Idle
    /\ MaySend(u) /\ InRoom(u)
    /\ connected[FirstRoom(u)] # None    \* else Prisma refuses the update
    /\ Begin(s, [Idle EXCEPT !.pc = "start",
                             !.trip = connected[FirstRoom(u)]])
    /\ UNCHANGED <<presence, socketVars, pending, memoryVars, tableVars>>

WriteStart(s) ==
    /\ task[s].pc = "start"
    /\ trips' = [trips EXCEPT ![task[s].trip].status = "ongoing",
                              ![task[s].trip].started = TRUE]
    /\ Finish(s)
    /\ UNCHANGED <<presence, socketVars, pending, memoryVars, rideRequests,
                   fares, balance>>

-----------------------------------------------------------------------------
(* handleCancelRide: findUnstarted, then the update.  The driver stays in  *)
(* the room and in_ride.                                                   *)

\* The filter of findUnstarted.  For contrast, a faulty one that drops it.
AnyStatus(t) == TRUE
Unstarted(t) == trips[t].status = "unstarted"

CancelTrip(s, u) ==
    /\ task[s] = Idle
    /\ MaySend(u) /\ InRoom(u)
    /\ u \in Drivers => presence[u] # None
    /\ \E t \in Lookup(FirstRoom(u)) :
        /\ Unstarted(t)
        /\ Begin(s, [Idle EXCEPT !.pc = "cancel", !.trip = t])
    /\ UNCHANGED <<presence, socketVars, pending, memoryVars, tableVars>>

WriteCancel(s) ==
    /\ task[s].pc = "cancel"
    /\ trips' = [trips EXCEPT ![task[s].trip].status = "cancelled"]
    /\ Finish(s)
    /\ UNCHANGED <<presence, socketVars, pending, memoryVars, rideRequests,
                   fares, balance>>

-----------------------------------------------------------------------------
(* handleTripEnd: complete, price, credit, release.                        *)

\* The trip and the driver to settle with are read.
EndTrip(s, u) ==
    /\ task[s] = Idle
    /\ MaySend(u) /\ InRoom(u)
    /\ u \in Drivers => presence[u] # None
    /\ last[FirstRoom(u)] # None
    /\ \E t \in Lookup(FirstRoom(u)) :
        Begin(s, [Serving(FirstRoom(u), "complete") EXCEPT
                     !.trip = t, !.started = trips[t].started])
    /\ UNCHANGED <<presence, socketVars, pending, memoryVars, tableVars>>

\* Without a start_date the duration is NaN, which Prisma refuses for an Int.  For
\* contrast, a faulty update that lets it through.
DurationIgnored(s) == TRUE
HasDuration(s) == task[s].started

\* The status is written, unless the duration is refused: then the handler stops.
CompleteTrip(s) ==
    /\ task[s].pc = "complete"
    /\ IF HasDuration(s)
       THEN /\ trips' = [trips EXCEPT ![task[s].trip].status = "completed"]
            /\ task' = [task EXCEPT ![s].pc = "price", ![s].started = FALSE]
       ELSE UNCHANGED trips /\ Finish(s)
    /\ UNCHANGED <<presence, socketVars, pending, memoryVars, rideRequests,
                   fares, balance>>

\* trip_id is unique in trip_fare.  For contrast, an upsert, which never fails,
\* and an insert whose answer is never taken for a success.
NeverPriced(t) == FALSE
AlwaysPriced(t) == TRUE
AlreadyPriced(t) == t \in fares

\* The distance is measured, the fare computed and its row inserted; a trip that
\* has a fare stops the handler here.
PriceTrip(s) ==
    /\ task[s].pc = "price"
    /\ fares' = fares \cup {task[s].trip}
    /\ IF AlreadyPriced(task[s].trip) THEN Finish(s) ELSE Resume(s, "readBalance")
    /\ UNCHANGED <<presence, socketVars, pending, memoryVars, trips,
                   rideRequests, balance>>

ReadBalance(s) ==
    /\ task[s].pc = "readBalance"
    /\ task' = [task EXCEPT ![s].pc = "writeBalance",
                            ![s].base = balance[task[s].info.driver]]
    /\ UNCHANGED <<presence, socketVars, pending, memoryVars, tableVars>>

\* The balance read before, plus or minus the commission of this trip.  For
\* contrast, a faulty sum that leaves the balance read out.
CommissionOnly(s) == [t \in Trips |-> IF t = task[s].trip THEN 1 ELSE 0]
NewBalance(s) == [task[s].base EXCEPT ![task[s].trip] = @ + 1]

\* The new balance is absolute: it overwrites the one in the table.
WriteBalance(s) ==
    /\ task[s].pc = "writeBalance"
    /\ balance' = [balance EXCEPT ![task[s].info.driver] = NewBalance(s)]
    /\ task' = [task EXCEPT ![s].pc = "release", ![s].base = None]
    /\ UNCHANGED <<presence, socketVars, pending, memoryVars, trips,
                   rideRequests, fares>>

\* The driver is offered rides again, and every socket leaves the room.
ReleaseDriver(s) ==
    /\ task[s].pc = "release"
    /\ WriteSnapshot(task[s].info, FALSE)
    /\ rooms' = [u \in Users |-> Leave(rooms[u], task[s].room)]
    /\ Finish(s)
    /\ UNCHANGED <<sock, live, inbox, pending, memoryVars, tableVars>>
=============================================================================
