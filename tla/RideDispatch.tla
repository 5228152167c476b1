----------------------------- MODULE RideDispatch -----------------------------
(***************************************************************************)
(* From a driver coming online to the trip a rider and a driver share: the *)
(* handlers connect, disconnect, updateLocation, handleRideRequest and     *)
(* handleRideResponse of RidesGatewayService.                              *)
(***************************************************************************)
EXTENDS RideStore

CONSTANTS
    MaxRequests,    \* bound: rides a rider requests
    RepeatAnswers   \* may an app answer the same offer more than once?

ASSUME RequestBound == MaxRequests \in Nat
ASSUME RepeatAnswersIsFlag == RepeatAnswers \in BOOLEAN

VARIABLE asked      \* rides each rider has requested

-----------------------------------------------------------------------------
(* Presence.  Each of the three handlers reads the entity, awaits, and     *)
(* writes back the whole record it has read.  At most one handler of each  *)
(* kind is in flight per driver.                                           *)

\* The disconnect event: its handler reads the entity and will write it back
\* with is_online false.
DisconnectRead(d) ==
    IF presence[d] = None
    THEN UNCHANGED pending
    ELSE /\ pending[d]["disconnect"] = None
         /\ pending' = [pending EXCEPT ![d]["disconnect"] =
                            [presence[d] EXCEPT !.online = FALSE]]

\* A driver opens a socket.  The entity is left as it is when it still says
\* online; otherwise it is written anew, keeping only the fence.
Connect(d) ==
    /\ ~live[d]
    /\ sock[d] < MaxSockets
    /\ pending[d]["connect"] = None
    /\ sock' = [sock EXCEPT ![d] = @ + 1]
    /\ live' = [live EXCEPT ![d] = TRUE]
    /\ pending' =
         IF presence[d] # None /\ presence[d].online
         THEN pending
         ELSE [pending EXCEPT ![d]["connect"] =
                  [online |-> TRUE, in_ride |-> FALSE, sock |-> sock[d] + 1,
                   fenced |-> presence[d] # None /\ presence[d].fenced]]
    /\ UNCHANGED <<presence, rooms, inbox, memoryVars, tableVars, task, asked>>

\* A driver's socket closes: it leaves its rooms at once.
Disconnect(d) ==
    /\ live[d]
    /\ live' = [live EXCEPT ![d] = FALSE]
    /\ rooms' = [rooms EXCEPT ![d] = <<>>]
    /\ DisconnectRead(d)
    /\ UNCHANGED <<presence, sock, inbox, memoryVars, tableVars, task, asked>>

\* A rider's socket is replaced by a new one, which is in no room.
RiderReconnect(r) ==
    /\ InRoom(r)
    /\ rooms' = [rooms EXCEPT ![r] = <<>>]
    /\ UNCHANGED <<presence, sock, live, pending, inbox, memoryVars, tableVars,
                   task, asked>>

\* A driver reports a position.  Outside every fence it is refused unless the
\* entity says in a ride; in a ride it needs an ongoing trip of that driver.
UpdateLocation(d, inFence) ==
    /\ live[d]
    /\ presence[d] # None
    /\ pending[d]["updateLocation"] = None
    /\ inFence \/ presence[d].in_ride
    /\ presence[d].in_ride =>
         \E t \in Rows : trips[t].driver = d /\ trips[t].status = "ongoing"
    /\ pending' = [pending EXCEPT ![d]["updateLocation"] =
                      [presence[d] EXCEPT !.sock = sock[d],
                                          !.fenced = @ \/ inFence]]
    /\ UNCHANGED <<presence, socketVars, memoryVars, tableVars, task, asked>>

\* The await returns and the handler writes the record it holds.
WritePresence(d, handler) ==
    /\ pending[d][handler] # None
    /\ presence' = [presence EXCEPT ![d] = pending[d][handler]]
    /\ pending' = [pending EXCEPT ![d][handler] = None]
    /\ UNCHANGED <<socketVars, memoryVars, tableVars, task, asked>>

-----------------------------------------------------------------------------
(* handleRideRequest.                                                      *)

\* The search: vehicle type and mode of payment admit some of the eligible
\* drivers.  The rider joins the room as soon as the drivers are known.
RequestRide(s, r, suited) ==
    /\ task[s] = Idle
    /\ asked[r] < MaxRequests
    /\ asked' = [asked EXCEPT ![r] = @ + 1]
    /\ rooms' = [rooms EXCEPT ![r] = Join(@, r)]
    /\ Begin(s, [Idle EXCEPT
                    !.pc = "quote", !.room = r,
                    !.candidates = {[driver |-> d, sock |-> presence[d].sock] :
                                        d \in Eligible \cap suited}])
    /\ UNCHANGED <<presence, sock, live, pending, inbox, memoryVars, tableVars>>

\* A faulty offer, for contrast: every candidate is offered the ride at once.
OfferRideToAll(s) ==
    LET r == task[s].room
    IN  /\ task[s].pc = "quote"
        /\ \E next \in task[s].candidates : last' = [last EXCEPT ![r] = next]
        /\ queue' = [queue EXCEPT ![r] = {}]
        /\ inbox' = [d \in Drivers |->
                        IF live[d] /\ \E c \in task[s].candidates : c.driver = d
                        THEN inbox[d] \cup {r} ELSE inbox[d]]
        /\ Finish(s)
        /\ UNCHANGED <<presence, sock, live, pending, rooms, connected,
                       tableVars, asked>>

\* The pickup is located and priced; the queue of the room is replaced and the
\* first driver is offered the ride.
OfferRide(s) ==
    /\ task[s].pc = "quote"
    /\ OfferNext(task[s].room, task[s].candidates, live)
    /\ Finish(s)
    /\ UNCHANGED <<presence, sock, live, pending, rooms, connected, tableVars,
                   asked>>

-----------------------------------------------------------------------------
(* handleRideResponse.                                                     *)

\* A driver answers an offer: the handler takes the last value of the room the
\* message names.  Who answers, and whether the offer was answered before, is
\* not compared with it.
AnswerOffer(s, d, r, accept) ==
    /\ task[s] = Idle
    /\ live[d]
    /\ r \in inbox[d]
    /\ last[r] # None
    /\ Begin(s, [Serving(r, "record") EXCEPT
                    !.user = d, !.sock = sock[d], !.accept = accept])
    /\ inbox' = IF RepeatAnswers THEN inbox
                                 ELSE [inbox EXCEPT ![d] = @ \ {r}]
    /\ UNCHANGED <<presence, sock, live, pending, rooms, memoryVars, tableVars,
                   asked>>

SameSocket(s) == live[task[s].user] /\ sock[task[s].user] = task[s].sock

\* A faulty row, for contrast: the ride request names no driver.
RecordRequestUnnamed(s) ==
    rideRequests' = rideRequests \cup
        {[rider |-> task[s].room, driver |-> None, accepted |-> task[s].accept]}

RecordRequest(s) ==
    rideRequests' = rideRequests \cup
        {[rider |-> task[s].room, driver |-> task[s].info.driver,
          accepted |-> task[s].accept]}

\* A faulty acceptance, for contrast: the driver is made busy before the trip
\* exists.
RecordAcceptBusyFirst(s) ==
    /\ task[s].pc = "record" /\ task[s].accept
    /\ RecordRequest(s)
    /\ WriteSnapshot(task[s].info, TRUE)
    /\ Resume(s, "create")
    /\ UNCHANGED <<socketVars, pending, memoryVars, trips, fares, balance, asked>>

\* A faulty acceptance, for contrast: it is dropped when the socket has closed.
RecordAcceptIfLive(s) ==
    /\ task[s].pc = "record" /\ task[s].accept
    /\ RecordRequest(s)
    /\ IF SameSocket(s)
       THEN /\ rooms' = [rooms EXCEPT ![task[s].user] = Join(@, task[s].room)]
            /\ Resume(s, "create")
       ELSE UNCHANGED rooms /\ Finish(s)
    /\ UNCHANGED <<presence, sock, live, pending, inbox, memoryVars, trips,
                   fares, balance, asked>>

\* Accepted: the row of the ride request is written and the driver's socket
\* joins the room.
RecordAccept(s) ==
    /\ task[s].pc = "record" /\ task[s].accept
    /\ RecordRequest(s)
    /\ rooms' = IF SameSocket(s)
                THEN [rooms EXCEPT ![task[s].user] = Join(@, task[s].room)]
                ELSE rooms
    /\ Resume(s, "create")
    /\ UNCHANGED <<presence, sock, live, pending, inbox, memoryVars, trips,
                   fares, balance, asked>>

\* Rejected: the row is written, the socket that answered is disconnected and
\* the next driver of the queue is offered the ride.
RecordReject(s) ==
    LET d == task[s].user
        gone == IF SameSocket(s) THEN [live EXCEPT ![d] = FALSE] ELSE live
    IN  /\ task[s].pc = "record" /\ ~task[s].accept
        /\ RecordRequest(s)
        /\ live' = gone
        /\ IF SameSocket(s)
           THEN DisconnectRead(d) /\ rooms' = [rooms EXCEPT ![d] = <<>>]
           ELSE UNCHANGED <<pending, rooms>>
        /\ OfferNext(task[s].room, queue[task[s].room], gone)
        /\ Finish(s)
        /\ UNCHANGED <<presence, sock, connected, trips, fares, balance, asked>>

\* TripsService.create.  For contrast, a faulty row: the last value of the room is
\* read again after the await.
NewTripReadsAgain(s) ==
    [status |-> "unstarted", rider |-> task[s].room,
     driver |-> last[task[s].room].driver, started |-> FALSE]
NewTrip(s) ==
    [status |-> "unstarted", rider |-> task[s].room,
     driver |-> task[s].info.driver, started |-> FALSE]

\* MapStore.connect.  For contrast, a faulty one: the trip is connected to the
\* room the driver's other handlers find, the first it joined.
TripRoomFirst(s) == IF InRoom(task[s].user) THEN FirstRoom(task[s].user)
                                            ELSE task[s].room
TripRoom(s) == task[s].room

\* The row of the trip is written, for the driver the handler read first, and
\* the trip is connected to the room.
CreateTrip(s) ==
    /\ task[s].pc = "create"
    /\ \E t \in Trips \ Rows :
        /\ trips' = [trips EXCEPT ![t] = NewTrip(s)]
        /\ connected' = [connected EXCEPT ![TripRoom(s)] = t]
    /\ Resume(s, "busy")
    /\ UNCHANGED <<presence, socketVars, pending, queue, last, rideRequests,
                   fares, balance, asked>>

MarkBusy(s) ==
    /\ task[s].pc = "busy"
    /\ WriteSnapshot(task[s].info, TRUE)
    /\ Finish(s)
    /\ UNCHANGED <<socketVars, pending, memoryVars, tableVars, asked>>

-----------------------------------------------------------------------------
(* The dispatch on its own: trips are created but never started.           *)

dispatchVars == <<vars, asked>>

DispatchInit == StoreInit /\ asked = [r \in Riders |-> 0]

\* What a driver's app and the handlers of its presence do.
PresenceStep(d) ==
    \/ Connect(d)
    \/ Disconnect(d)
    \/ \E inFence \in BOOLEAN : UpdateLocation(d, inFence)
    \/ \E h \in PresenceHandlers : WritePresence(d, h)

\* An event starts a handler.
DispatchEvent(s) ==
    \/ \E r \in Riders, suited \in SUBSET Drivers : RequestRide(s, r, suited)
    \/ \E d \in Drivers, r \in Riders, accept \in BOOLEAN :
           AnswerOffer(s, d, r, accept)

\* A handler resumes.
DispatchStep(s) ==
    \/ OfferRide(s)
    \/ RecordAccept(s)
    \/ RecordReject(s)
    \/ CreateTrip(s)
    \/ MarkBusy(s)

DispatchNext ==
    \/ \E d \in Drivers : PresenceStep(d)
    \/ \E r \in Riders : RiderReconnect(r)
    \/ \E s \in Slots : DispatchEvent(s) \/ DispatchStep(s)

DispatchSpec == DispatchInit /\ [][DispatchNext]_dispatchVars

-----------------------------------------------------------------------------
(* What holds whatever the apps send, at any interleaving.                 *)

\* Every trip has the ride request its driver accepted: the row is written
\* before the trip, for the same driver and rider, even when the last value of
\* the room changes while the handler awaits.
TripHasAcceptedRequest ==
    \A t \in Rows :
        [rider |-> trips[t].rider, driver |-> trips[t].driver, accepted |-> TRUE]
            \in rideRequests

\* A driver that was offered a ride is not offered it again by a later pop of
\* the same request, whoever rejects and how often.
NeverOfferedAgain ==
    \A r \in Riders : last[r] # None =>
        \A c \in queue[r] : c.driver # last[r].driver

\* A driver is hidden from riders (in_ride) only after a trip was written for
\* that driver, whichever stale copy of the entity is written back.
BusyOnlyWithTrip ==
    \A d \in Drivers :
        presence[d] # None /\ presence[d].in_ride =>
            \E t \in Rows : trips[t].driver = d

\* The trip connected to a room is a trip of the rider the room is named after.
RoomHoldsItsRidersTrip ==
    \A r \in Riders : connected[r] # None =>
        connected[r] \in Rows /\ trips[connected[r]].rider = r

-----------------------------------------------------------------------------
(* What holds when the apps take turns: each rider asks once and each offer*)
(* is answered once.                                                       *)

\* A rider who asked for one ride has at most one trip.
OneTripPerRequest ==
    \A t, u \in Rows : trips[t].rider = trips[u].rider => t = u

\* The driver a trip is written for is the driver who accepted, although the
\* handler takes the driver from the last value of the room.
TripGoesToWhoAccepted ==
    \A s \in Slots :
        task[s].pc \in {"record", "create"} => task[s].info.driver = task[s].user

-----------------------------------------------------------------------------
\* An accepted ride request in the end has its trip, connected to the room.
AcceptedRequestGetsTrip ==
    \A r \in Riders, d \in Drivers :
        [rider |-> r, driver |-> d, accepted |-> TRUE] \in rideRequests
            ~> /\ connected[r] # None
               /\ trips[connected[r]].driver = d
=============================================================================
