---------------------------- MODULE DispatchProofs ----------------------------
(***************************************************************************)
(* What dispatch keeps to whatever the apps send, at any interleaving, with*)
(* failures and restarts, for any riders, drivers, trips, slots and bounds.*)
(* Each invariant is strengthened by what handlers in flight carry.        *)
(***************************************************************************)
EXTENDS RidesProofs

\* No trip disappears or changes hands.
PartiesKept ==
    \A t \in Rows : /\ t \in Rows'
                    /\ trips'[t].rider = trips[t].rider
                    /\ trips'[t].driver = trips[t].driver

\* The phases of dispatch, which the handlers of a trip never enter.
DispatchPhases == {"quote", "record", "create", "busy"}

\* A status is written, or the start_date with it.
LEMMA StatusKeepsParties ==
    ASSUME StoreTypeOK, NEW t \in Rows, NEW status \in TripStatus,
           \/ trips' = [trips EXCEPT ![t].status = status]
           \/ trips' = [trips EXCEPT ![t].status = status, ![t].started = TRUE]
    PROVE  PartiesKept /\ Rows' = Rows
<1> DEFINE row == [trips[t] EXCEPT !.status = status]
           new == [row EXCEPT !.started = TRUE]
<1>1. t \in Trips /\ trips[t] \in Trip
  BY DEF StoreTypeOK, Rows
<1>2. row \in Trip /\ row.rider = trips[t].rider /\ row.driver = trips[t].driver
  BY <1>1 DEF Trip
<1>3. trips' = [trips EXCEPT ![t] = row] \/ trips' = [trips EXCEPT ![t] = new]
  BY <1>1 DEF StoreTypeOK
<1> HIDE DEF row
<1>4. new \in Trip /\ new.rider = row.rider /\ new.driver = row.driver
  BY <1>2 DEF Trip
<1> HIDE DEF new
<1>5. row # None /\ new # None
  BY <1>2, <1>4, NoneIsNoValue
<1> QED
  BY <1>1, <1>2, <1>3, <1>4, <1>5 DEF PartiesKept, StoreTypeOK, Rows

\* The handlers of a trip leave dispatch alone, but for the entity that
\* ReleaseDriver writes.
LEMMA TripQuiet ==
    ASSUME Inv, NEW s \in Slots, TripEvent(s) \/ TripStep(s) \/ Fail(s)
    PROVE  /\ UNCHANGED <<queue, last, connected, rideRequests, pending>>
           /\ PartiesKept /\ Rows' = Rows
           /\ task'[s].pc \notin DispatchPhases
           /\ \A u \in Slots \ {s} : task'[u] = task[u]
           /\ \A d \in Drivers :
                  presence'[d] # None /\ presence'[d].in_ride => presence'[d] = presence[d]
<1> USE DEF memoryVars, tableVars, socketVars
<1>0. /\ task \in [Slots -> Task] /\ StoreTypeOK /\ Idle.pc = "idle"
      /\ TaskOK(task[s], Rows) /\ task[s] \in Task
  BY TypeParts DEF Inv, HandlersOK, Idle
<1>1. UNCHANGED trips => PartiesKept /\ Rows' = Rows
  BY DEF PartiesKept, Rows
<1>2. CASE TripEvent(s)
  <2>1. PICK k : /\ task' = [task EXCEPT ![s] = k]
                 /\ k.pc \in {"start", "cancel", "complete"}
    BY <1>2, EventQuiet
  <2>2. /\ task'[s] = k /\ \A u \in Slots \ {s} : task'[u] = task[u]
    BY <1>0, <2>1
  <2>3. /\ UNCHANGED <<queue, last, connected, rideRequests, pending, presence, trips>>
    BY <1>2 DEF TripEvent, StartTrip, CancelTrip, EndTrip
  <2>4. PartiesKept /\ Rows' = Rows
    BY <2>3 DEF PartiesKept, Rows
  <2>5. task'[s].pc \notin DispatchPhases
    BY <2>1, <2>2 DEF DispatchPhases
  <2> HIDE DEF memoryVars, tableVars, socketVars
  <2> QED
    BY <2>2, <2>3, <2>4, <2>5
<1>3. CASE WriteStart(s) \/ WriteCancel(s)
  <2>1. task' = [task EXCEPT ![s] = Idle]
    BY <1>3 DEF WriteStart, WriteCancel, Finish
  <2>2. UNCHANGED <<queue, last, connected, rideRequests, pending, presence>>
    BY <1>3 DEF WriteStart, WriteCancel
  <2>3. PartiesKept /\ Rows' = Rows
    BY <1>0, <1>3, StatusKeepsParties DEF WriteStart, WriteCancel, TaskOK, TripStatus
  <2> QED
    BY <1>0, <2>1, <2>2, <2>3 DEF DispatchPhases
<1>4. CASE CompleteTrip(s)
  <2>1. UNCHANGED <<queue, last, connected, rideRequests, pending, presence>>
    BY <1>4 DEF CompleteTrip, HasDuration
  <2>2. PartiesKept /\ Rows' = Rows
    BY <1>0, <1>1, <1>4, StatusKeepsParties
    DEF CompleteTrip, HasDuration, TaskOK, TripStatus, Rows
  <2>3. task'[s].pc \notin DispatchPhases /\ \A u \in Slots \ {s} : task'[u] = task[u]
    BY <1>0, <1>4 DEF CompleteTrip, HasDuration, Finish, DispatchPhases, Task
  <2> QED
    BY <2>1, <2>2, <2>3
<1>5. CASE PriceTrip(s) \/ ReadBalance(s) \/ WriteBalance(s)
  <2>1. UNCHANGED <<queue, last, connected, rideRequests, pending, presence, trips>>
    BY <1>5 DEF PriceTrip, ReadBalance, WriteBalance
  <2>2. task'[s].pc \notin DispatchPhases /\ \A u \in Slots \ {s} : task'[u] = task[u]
    BY <1>0, <1>5 DEF PriceTrip, AlreadyPriced, ReadBalance, WriteBalance, Finish, Resume,
                      DispatchPhases, Task
  <2> QED
    BY <2>1, <2>2 DEF PartiesKept, Rows
<1>6. CASE ReleaseDriver(s)
  <2>1. UNCHANGED <<queue, last, connected, rideRequests, pending, trips>>
    BY <1>6 DEF ReleaseDriver
  <2>2. task' = [task EXCEPT ![s] = Idle]
    BY <1>6 DEF ReleaseDriver, Finish
  <2>3. \A d \in Drivers :
            presence'[d] # None /\ presence'[d].in_ride => presence'[d] = presence[d]
    BY <1>0, <1>6 DEF ReleaseDriver, WriteSnapshot, StoreTypeOK
  <2> QED
    BY <1>0, <2>1, <2>2, <2>3 DEF PartiesKept, Rows, DispatchPhases
<1>7. CASE Fail(s)
  <2>1. task' = [task EXCEPT ![s] = Idle]
    BY <1>7 DEF Fail, Finish
  <2>2. UNCHANGED <<queue, last, connected, rideRequests, pending, presence, trips>>
    BY <1>7 DEF Fail
  <2> QED
    BY <1>0, <2>1, <2>2 DEF PartiesKept, Rows, DispatchPhases
<1> QED
  BY <1>2, <1>3, <1>4, <1>5, <1>6, <1>7 DEF TripStep

\* An offer or a rejection writes no trip.
LEMMA DispatchRows ==
    ASSUME Inv, NEW s \in Slots, DispatchEvent(s) \/ DispatchStep(s)
    PROVE  PartiesKept /\ \A u \in Slots \ {s} : task'[u] = task[u]
<1>1. RowsKept
  BY DispatchQuiet
<1>2. PICK k : task' = [task EXCEPT ![s] = k]
  BY DispatchQuiet
<1>3. task \in [Slots -> Task]
  BY TypeParts DEF Inv
<1> QED
  BY <1>1, <1>2, <1>3 DEF RowsKept, PartiesKept

\* Where a handler of dispatch is after a step.
LEMMA PhaseAfter ==
    ASSUME Inv, NEW s \in Slots
    PROVE  /\ \A r \in Riders, suited \in SUBSET Drivers : RequestRide(s, r, suited) =>
                  /\ task'[s].pc = "quote" /\ task'[s].room = r
                  /\ task'[s].candidates =
                        {[driver |-> d, sock |-> presence[d].sock] : d \in Eligible \cap suited}
           /\ \A d \in Drivers, r \in Riders, accept \in BOOLEAN :
                  AnswerOffer(s, d, r, accept) => task'[s].pc = "record"
           /\ OfferRide(s) \/ RecordReject(s) \/ MarkBusy(s) => task'[s].pc = "idle"
           /\ RecordAccept(s) =>
                  task'[s].pc = "create" /\ task'[s].room = task[s].room
                                        /\ task'[s].info = task[s].info
           /\ CreateTrip(s) => task'[s].pc = "busy" /\ task'[s].info = task[s].info
<1>0. /\ task \in [Slots -> Task] /\ task[s] \in Task /\ StoreTypeOK
      /\ Idle.pc = "idle" /\ Idle \in Task
  BY TypeParts, IdleType DEF Inv, Idle
<1>1. ASSUME NEW r \in Riders, NEW suited \in SUBSET Drivers, RequestRide(s, r, suited)
      PROVE  /\ task'[s].pc = "quote" /\ task'[s].room = r
             /\ task'[s].candidates =
                   {[driver |-> d, sock |-> presence[d].sock] : d \in Eligible \cap suited}
  <2> DEFINE found == {[driver |-> d, sock |-> presence[d].sock] : d \in Eligible \cap suited}
             k == [Idle EXCEPT !.pc = "quote", !.room = r, !.candidates = found]
  <2>1. task'[s] = k
    BY <1>0, <1>1 DEF RequestRide, Begin
  <2> HIDE DEF found
  <2>2. k.pc = "quote" /\ k.room = r /\ k.candidates = found
    BY DEF Idle
  <2> HIDE DEF k
  <2> QED
    BY <2>1, <2>2 DEF found
<1>2. ASSUME NEW d \in Drivers, NEW r \in Riders, NEW accept \in BOOLEAN,
             AnswerOffer(s, d, r, accept)
      PROVE  task'[s].pc = "record"
  <2> DEFINE j == Serving(r, "record")
             k == [j EXCEPT !.user = d, !.sock = sock[d], !.accept = accept]
  <2>1. task'[s] = k
    BY <1>0, <1>2 DEF AnswerOffer, Begin
  <2>2. last[r] \in Candidate
    BY <1>0, <1>2 DEF AnswerOffer, StoreTypeOK
  <2>3. j \in Task /\ j.pc = "record"
    BY <2>2, ServingType DEF Phases
  <2> HIDE DEF j
  <2> QED
    BY <2>1, <2>3 DEF Task
<1>3. ASSUME OfferRide(s) \/ RecordReject(s) \/ MarkBusy(s)
      PROVE  task'[s].pc = "idle"
  BY <1>0, <1>3 DEF OfferRide, RecordReject, MarkBusy, Finish
<1>4. ASSUME RecordAccept(s)
      PROVE  task'[s].pc = "create" /\ task'[s].room = task[s].room
                                   /\ task'[s].info = task[s].info
  BY <1>0, <1>4 DEF RecordAccept, Resume, Task
<1>5. ASSUME CreateTrip(s)
      PROVE  task'[s].pc = "busy" /\ task'[s].info = task[s].info
  BY <1>0, <1>5 DEF CreateTrip, Resume, Task
<1> QED
  BY <1>1, <1>2, <1>3, <1>4, <1>5

-----------------------------------------------------------------------------
(* The trip connected to a room.                                           *)

\* Only CreateTrip connects a trip, and only a restart disconnects one.
LEMMA RoomStep == Inv /\ RoomHoldsItsRidersTrip /\ [Next]_allVars => RoomHoldsItsRidersTrip'
<1> SUFFICES ASSUME Inv, RoomHoldsItsRidersTrip, [Next]_allVars
             PROVE  RoomHoldsItsRidersTrip'
  OBVIOUS
<1> USE DEF memoryVars, tableVars, socketVars
<1>0. StoreTypeOK /\ TypeOK
  BY TypeParts DEF Inv, RidesTypeOK
<1>1. CASE PartiesKept /\ UNCHANGED connected
  BY <1>0, <1>1 DEF PartiesKept, RoomHoldsItsRidersTrip, StoreTypeOK
<1>2. CASE UNCHANGED <<trips, connected>>
  BY <1>1, <1>2 DEF PartiesKept, Rows
<1>3. CASE \/ \E d \in Drivers : PresenceStep(d)
           \/ \E r \in Riders : RiderReconnect(r)
  <2>1. UNCHANGED connected
    BY <1>3 DEF PresenceStep, Connect, Disconnect, UpdateLocation, WritePresence,
                RiderReconnect
  <2> QED
    BY <1>2, <1>3, <2>1, PresenceQuiet
<1>4. ASSUME NEW s \in Slots, DispatchEvent(s) \/ DispatchStep(s)
      PROVE  RoomHoldsItsRidersTrip'
  <2>1. CASE CreateTrip(s)
    <3>1. PICK t \in Trips \ Rows :
              /\ trips' = [trips EXCEPT ![t] = NewTrip(s)]
              /\ connected' = [connected EXCEPT ![task[s].room] = t]
      BY <2>1 DEF CreateTrip, TripRoom
    <3>2. NewTrip(s).rider = task[s].room /\ NewTrip(s) # None
      <4>1. NewTrip(s) \in Trip
        BY <2>1 DEF NewTrip, CreateTrip, Trip, TripStatus, Inv, HandlersOK, TaskOK, Candidate
      <4> QED
        BY <4>1, NoneIsNoValue DEF NewTrip
    <3>3. PartiesKept
      BY <1>4, DispatchRows
    <3>4. t \in Rows' /\ trips'[t].rider = task[s].room
      BY <1>0, <3>1, <3>2 DEF Rows, StoreTypeOK
    <3>5. \A r \in Riders :
              connected'[r] = IF r = task[s].room THEN t ELSE connected[r]
      BY <1>0, <3>1 DEF StoreTypeOK
    <3> QED
      BY <3>3, <3>4, <3>5 DEF PartiesKept, RoomHoldsItsRidersTrip
  <2>2. CASE ~ CreateTrip(s)
    <3>1. UNCHANGED connected
      BY <1>4, <2>2 DEF DispatchEvent, RequestRide, AnswerOffer, DispatchStep, OfferRide,
                        RecordAccept, RecordReject, MarkBusy
    <3> QED
      BY <1>1, <1>4, <3>1, DispatchRows
  <2> QED
    BY <2>1, <2>2
<1>5. ASSUME NEW s \in Slots, TripEvent(s) \/ TripStep(s) \/ Fail(s)
      PROVE  RoomHoldsItsRidersTrip'
  BY <1>1, <1>5, TripQuiet
<1>6. CASE Restart
  BY <1>6 DEF Restart, RoomHoldsItsRidersTrip
<1> QED
  BY <1>2, <1>3, <1>4, <1>5, <1>6 DEF Next, DispatchNext, allVars, vars

\* However requests, answers and trips of several riders interleave, a room never
\* leads to another rider's trip.
THEOREM RoomsApart == Spec => []RoomHoldsItsRidersTrip
<1>1. Init => RoomHoldsItsRidersTrip
  BY DEF Init, DispatchInit, StoreInit, RoomHoldsItsRidersTrip
<1> QED
  BY <1>1, RoomStep, InvHolds, PTL DEF Spec
-----------------------------------------------------------------------------
(* The ride request behind a trip.                                         *)

\* The row an accepted ride request leaves.
Accepted(r, d) == [rider |-> r, driver |-> d, accepted |-> TRUE]

AcceptedInv ==
    /\ TripHasAcceptedRequest
    /\ \A s \in Slots : task[s].pc = "create" =>
            Accepted(task[s].room, task[s].info.driver) \in rideRequests

\* A step that writes no trip, removes no ride request, and after which the slot
\* has not just been accepted.
LEMMA AcceptedQuiet ==
    ASSUME AcceptedInv, PartiesKept, Rows' = Rows, rideRequests \subseteq rideRequests',
           NEW s \in Slots, \A u \in Slots \ {s} : task'[u] = task[u],
           task'[s].pc = "create" =>
               Accepted(task'[s].room, task'[s].info.driver) \in rideRequests'
    PROVE  AcceptedInv'
<1>1. TripHasAcceptedRequest'
  BY DEF AcceptedInv, TripHasAcceptedRequest, PartiesKept
<1>2. \A u \in Slots : task'[u].pc = "create" =>
            Accepted(task'[u].room, task'[u].info.driver) \in rideRequests'
  BY DEF AcceptedInv
<1> QED
  BY <1>1, <1>2 DEF AcceptedInv

\* RecordAccept writes the row before CreateTrip writes the trip, for the driver
\* and the room the handler holds.
LEMMA AcceptedStep == Inv /\ AcceptedInv /\ [Next]_allVars => AcceptedInv'
<1> SUFFICES ASSUME Inv, AcceptedInv, [Next]_allVars
             PROVE  AcceptedInv'
  OBVIOUS
<1> USE DEF memoryVars, tableVars
<1>0. task \in [Slots -> Task] /\ StoreTypeOK
  BY TypeParts DEF Inv
<1>1. CASE UNCHANGED <<trips, rideRequests, task>>
  BY <1>1 DEF AcceptedInv, TripHasAcceptedRequest, Rows
<1>2. CASE \/ \E d \in Drivers : PresenceStep(d)
           \/ \E r \in Riders : RiderReconnect(r)
  <2>1. UNCHANGED rideRequests
    BY <1>2 DEF PresenceStep, Connect, Disconnect, UpdateLocation, WritePresence,
                RiderReconnect
  <2> QED
    BY <1>1, <1>2, <2>1, PresenceQuiet
<1>3. ASSUME NEW s \in Slots, DispatchEvent(s) \/ DispatchStep(s)
      PROVE  AcceptedInv'
  <2>0. /\ PartiesKept /\ \A u \in Slots \ {s} : task'[u] = task[u]
    BY <1>3, DispatchRows
  <2>1. CASE DispatchEvent(s) \/ OfferRide(s) \/ RecordReject(s) \/ MarkBusy(s)
    <3>1. task'[s].pc # "create"
      BY <2>1, PhaseAfter DEF DispatchEvent
    <3>2. UNCHANGED trips /\ rideRequests \subseteq rideRequests'
      BY <2>1 DEF DispatchEvent, RequestRide, AnswerOffer, OfferRide, RecordReject,
                  RecordRequest, MarkBusy
    <3> QED
      BY <2>0, <3>1, <3>2, AcceptedQuiet DEF Rows
  <2>2. CASE RecordAccept(s)
    <3>1. /\ rideRequests' = rideRequests \cup
                 {Accepted(task[s].room, task[s].info.driver)}
          /\ UNCHANGED trips
      BY <2>2 DEF RecordAccept, RecordRequest, Accepted
    <3>2. Accepted(task'[s].room, task'[s].info.driver) \in rideRequests'
      BY <2>2, <3>1, PhaseAfter
    <3> QED
      BY <2>0, <3>1, <3>2, AcceptedQuiet DEF Rows
  <2>3. CASE CreateTrip(s)
    <3>1. PICK t \in Trips \ Rows : trips' = [trips EXCEPT ![t] = NewTrip(s)]
      BY <2>3 DEF CreateTrip
    <3>2. /\ task[s].pc = "create" /\ rideRequests' = rideRequests
          /\ task'[s].pc = "busy"
      BY <2>3, PhaseAfter DEF CreateTrip
    <3>3. /\ trips'[t].rider = task[s].room /\ trips'[t].driver = task[s].info.driver
          /\ Rows' \subseteq Rows \cup {t}
      BY <1>0, <3>1 DEF NewTrip, StoreTypeOK, Rows
    <3>4. TripHasAcceptedRequest'
      BY <2>0, <3>2, <3>3
      DEF AcceptedInv, Accepted, TripHasAcceptedRequest, PartiesKept
    <3>5. \A u \in Slots : task'[u].pc = "create" =>
                Accepted(task'[u].room, task'[u].info.driver) \in rideRequests'
      BY <2>0, <3>2 DEF AcceptedInv
    <3> QED
      BY <3>4, <3>5 DEF AcceptedInv
  <2> QED
    BY <1>3, <2>1, <2>2, <2>3 DEF DispatchStep
<1>4. ASSUME NEW s \in Slots, TripEvent(s) \/ TripStep(s) \/ Fail(s)
      PROVE  AcceptedInv'
  <2>1. task'[s].pc # "create" /\ UNCHANGED rideRequests
    BY <1>4, TripQuiet DEF DispatchPhases
  <2> QED
    BY <1>4, <2>1, TripQuiet, AcceptedQuiet
<1>5. CASE Restart
  <2>1. \A s \in Slots : task'[s].pc = "idle"
    BY <1>5 DEF Restart, Idle
  <2> QED
    BY <1>5, <2>1 DEF Restart, AcceptedInv, TripHasAcceptedRequest, Rows
<1> QED
  BY <1>1, <1>2, <1>3, <1>4, <1>5 DEF Next, DispatchNext, allVars, vars

\* A trip is for a rider and a driver of one accepted ride request, although the
\* last value of the room may have changed since.
THEOREM TripsWereAccepted == Spec => []TripHasAcceptedRequest
<1>1. Init => AcceptedInv
  BY DEF Init, DispatchInit, StoreInit, AcceptedInv, TripHasAcceptedRequest, Rows, Idle
<1>2. AcceptedInv => TripHasAcceptedRequest
  BY DEF AcceptedInv
<1> QED
  BY <1>1, <1>2, AcceptedStep, InvHolds, PTL DEF Spec

-----------------------------------------------------------------------------
(* The trip behind an accepted ride request: what is left of              *)
(* AcceptedRequestGetsTrip when nothing is said of fairness.               *)

Served(r, d) == \E t \in Rows : trips[t].rider = r /\ trips[t].driver = d
AwaitsTrip(s, r, d) == task[s].pc = "create" /\ task[s].room = r /\ task[s].info.driver = d

\* No restart, and no error of Postgres when the trip is written.
TripsGetWritten == MaxRestarts = 0 /\ "create" \notin Fallible

AcceptanceHeld ==
    \A r \in Riders, d \in Drivers : Accepted(r, d) \in rideRequests =>
        Served(r, d) \/ \E s \in Slots : AwaitsTrip(s, r, d)

\* A step that accepts nothing and does not take the slot of a trip to be written.
LEMMA AcceptanceQuiet ==
    ASSUME AcceptanceHeld, PartiesKept,
           \A r \in Riders, d \in Drivers :
               Accepted(r, d) \in rideRequests' => Accepted(r, d) \in rideRequests,
           NEW s \in Slots, \A u \in Slots \ {s} : task'[u] = task[u],
           task[s].pc # "create"
    PROVE  AcceptanceHeld'
<1> SUFFICES ASSUME NEW r \in Riders, NEW d \in Drivers, Accepted(r, d) \in rideRequests
             PROVE  Served(r, d)' \/ \E u \in Slots : AwaitsTrip(u, r, d)'
  BY DEF AcceptanceHeld, Accepted
<1>1. CASE Served(r, d)
  BY <1>1 DEF Served, PartiesKept
<1>2. ASSUME NEW u \in Slots, AwaitsTrip(u, r, d)
      PROVE  AwaitsTrip(u, r, d)'
  BY <1>2 DEF AwaitsTrip
<1> QED
  BY <1>1, <1>2 DEF AcceptanceHeld

\* RecordAccept leaves the trip to be written by the handler that goes on, and
\* CreateTrip writes it.
LEMMA AcceptanceStep ==
    TripsGetWritten /\ Inv /\ AcceptanceHeld /\ [Next]_allVars => AcceptanceHeld'
<1> SUFFICES ASSUME TripsGetWritten, Inv, AcceptanceHeld, [Next]_allVars
             PROVE  AcceptanceHeld'
  OBVIOUS
<1> USE DEF memoryVars, tableVars
<1>0. task \in [Slots -> Task] /\ StoreTypeOK
  BY TypeParts DEF Inv
<1>1. CASE UNCHANGED <<trips, rideRequests, task>>
  BY <1>1 DEF AcceptanceHeld, Served, AwaitsTrip, Rows
<1>2. CASE \/ \E d \in Drivers : PresenceStep(d)
           \/ \E r \in Riders : RiderReconnect(r)
  <2>1. UNCHANGED rideRequests
    BY <1>2 DEF PresenceStep, Connect, Disconnect, UpdateLocation, WritePresence,
                RiderReconnect
  <2> QED
    BY <1>1, <1>2, <2>1, PresenceQuiet
<1>3. ASSUME NEW s \in Slots, DispatchEvent(s) \/ DispatchStep(s)
      PROVE  AcceptanceHeld'
  <2>0. /\ PartiesKept /\ \A u \in Slots \ {s} : task'[u] = task[u]
    BY <1>3, DispatchRows
  <2>1. CASE DispatchEvent(s) \/ OfferRide(s) \/ MarkBusy(s)
    <3>1. task[s] = Idle \/ task[s].pc \in {"quote", "busy"}
      BY <2>1 DEF DispatchEvent, RequestRide, AnswerOffer, OfferRide, MarkBusy
    <3>2. UNCHANGED rideRequests
      BY <2>1 DEF DispatchEvent, RequestRide, AnswerOffer, OfferRide, MarkBusy
    <3>3. task[s].pc # "create"
      BY <3>1 DEF Idle
    <3> QED
      BY <2>0, <3>2, <3>3, AcceptanceQuiet
  <2>2. CASE RecordReject(s)
    <3>1. task[s].pc # "create" /\ ~ task[s].accept /\ RecordRequest(s)
      BY <2>2 DEF RecordReject
    <3>2. \A r \in Riders, d \in Drivers :
              Accepted(r, d) \in rideRequests' => Accepted(r, d) \in rideRequests
      BY <3>1 DEF RecordRequest, Accepted
    <3> QED
      BY <2>0, <3>1, <3>2, AcceptanceQuiet
  <2>3. CASE RecordAccept(s)
    <3>1. /\ task[s].pc = "record"
          /\ rideRequests' = rideRequests \cup {Accepted(task[s].room, task[s].info.driver)}
      BY <2>3 DEF RecordAccept, RecordRequest, Accepted
    <3>2. \A r, d : r = task[s].room /\ d = task[s].info.driver => AwaitsTrip(s, r, d)'
      BY <2>3, PhaseAfter DEF AwaitsTrip
    <3>3. ASSUME NEW r \in Riders, NEW d \in Drivers, Accepted(r, d) \in rideRequests'
          PROVE  Served(r, d)' \/ \E u \in Slots : AwaitsTrip(u, r, d)'
      <4>1. CASE Accepted(r, d) = Accepted(task[s].room, task[s].info.driver)
        <5>1. r = task[s].room /\ d = task[s].info.driver
          BY <4>1 DEF Accepted
        <5> QED
          BY <3>2, <5>1
      <4>2. CASE Accepted(r, d) \in rideRequests
        <5>1. CASE Served(r, d)
          BY <2>0, <5>1 DEF Served, PartiesKept
        <5>2. ASSUME NEW u \in Slots, AwaitsTrip(u, r, d)
              PROVE  AwaitsTrip(u, r, d)'
          BY <2>0, <3>1, <5>2 DEF AwaitsTrip
        <5> QED
          BY <4>2, <5>1, <5>2 DEF AcceptanceHeld
      <4> QED
        BY <3>1, <3>3, <4>1, <4>2
    <3> QED
      BY <3>3 DEF AcceptanceHeld, Accepted
  <2>4. CASE CreateTrip(s)
    <3>1. PICK t \in Trips \ Rows : trips' = [trips EXCEPT ![t] = NewTrip(s)]
      BY <2>4 DEF CreateTrip
    <3>2. /\ NewTrip(s).rider = task[s].room /\ NewTrip(s).driver = task[s].info.driver
          /\ NewTrip(s) # None
      <4>1. NewTrip(s) \in Trip
        BY <2>4 DEF NewTrip, CreateTrip, Trip, TripStatus, Inv, HandlersOK, TaskOK, Candidate
      <4> QED
        BY <4>1, NoneIsNoValue DEF NewTrip
    <3>3. t \in Rows' /\ trips'[t] = NewTrip(s)
      BY <1>0, <3>1, <3>2 DEF Rows, StoreTypeOK
    <3>4. \A r, d : r = task[s].room /\ d = task[s].info.driver => Served(r, d)'
      BY <3>2, <3>3 DEF Served
    <3>5. UNCHANGED rideRequests
      BY <2>4 DEF CreateTrip
    <3>6. ASSUME NEW r \in Riders, NEW d \in Drivers, Accepted(r, d) \in rideRequests
          PROVE  Served(r, d)' \/ \E u \in Slots : AwaitsTrip(u, r, d)'
      <4>1. CASE Served(r, d)
        BY <2>0, <4>1 DEF Served, PartiesKept
      <4>2. ASSUME NEW u \in Slots, AwaitsTrip(u, r, d)
            PROVE  Served(r, d)' \/ AwaitsTrip(u, r, d)'
        <5>1. CASE u = s
          <6>1. r = task[s].room /\ d = task[s].info.driver
            BY <4>2, <5>1 DEF AwaitsTrip
          <6> QED
            BY <3>4, <6>1
        <5>2. CASE u # s
          BY <2>0, <4>2, <5>2 DEF AwaitsTrip
        <5> QED
          BY <5>1, <5>2
      <4> QED
        BY <3>6, <4>1, <4>2 DEF AcceptanceHeld
    <3> QED
      BY <3>5, <3>6 DEF AcceptanceHeld, Accepted
  <2> QED
    BY <1>3, <2>1, <2>2, <2>3, <2>4 DEF DispatchStep
<1>4. ASSUME NEW s \in Slots, TripEvent(s) \/ TripStep(s) \/ Fail(s)
      PROVE  AcceptanceHeld'
  <2>1. task[s].pc # "create"
    <3>1. TripEvent(s) => task[s] = Idle
      BY DEF TripEvent, StartTrip, CancelTrip, EndTrip
    <3>2. TripStep(s) => task[s].pc # "create"
      BY DEF TripStep, WriteStart, WriteCancel, CompleteTrip, PriceTrip, ReadBalance,
             WriteBalance, ReleaseDriver
    <3>3. Fail(s) => task[s].pc # "create"
      BY DEF Fail, TripsGetWritten
    <3> QED
      BY <1>4, <3>1, <3>2, <3>3 DEF Idle
  <2> QED
    BY <1>4, <2>1, TripQuiet, AcceptanceQuiet
<1>5. ~ Restart
  BY RestartBound DEF Restart, TripsGetWritten, Inv, RidesTypeOK
<1> QED
  BY <1>1, <1>2, <1>3, <1>4, <1>5 DEF Next, DispatchNext, allVars, vars

\* Nothing but fairness is missing from AcceptedRequestGetsTrip: whatever the apps
\* send, an accepted request has its trip or a handler that is about to write it,
\* unless that insert fails or the process restarts.
THEOREM AcceptanceIsKept ==
    ASSUME TripsGetWritten
    PROVE  Spec => []AcceptanceHeld
<1>1. Init => AcceptanceHeld
  BY DEF Init, DispatchInit, StoreInit, AcceptanceHeld
<1>2. Inv /\ AcceptanceHeld /\ [Next]_allVars => AcceptanceHeld'
  BY AcceptanceStep
<1> QED
  BY <1>1, <1>2, InvHolds, PTL DEF Spec

-----------------------------------------------------------------------------
(* The drivers still to be offered a ride.                                 *)

\* Every driver is in the pool at most once: with one socket.
OneEach(pool) == \A c, e \in pool : c.driver = e.driver => c = e

QueueInv ==
    /\ NeverOfferedAgain
    /\ \A r \in Riders : OneEach(queue[r])
    /\ \A s \in Slots : task[s].pc = "quote" => OneEach(task[s].candidates)

\* A pop keeps the drivers apart, and takes the driver it offers the ride to out.
LEMMA PopKeepsApart ==
    ASSUME StoreTypeOK, NeverOfferedAgain, \A q \in Riders : OneEach(queue[q]),
           NEW r \in Riders, NEW pool \in SUBSET Candidate, OneEach(pool),
           NEW isLive, OfferNext(r, pool, isLive)
    PROVE  NeverOfferedAgain' /\ \A q \in Riders : OneEach(queue'[q])
<1>0. queue \in [Riders -> SUBSET Candidate] /\ last \in [Riders -> Candidate \cup {None}]
  BY DEF StoreTypeOK
<1>1. CASE pool = {}
  <2>1. queue' = [queue EXCEPT ![r] = {}] /\ last' = last
    BY <1>1 DEF OfferNext
  <2> QED
    BY <1>0, <2>1 DEF NeverOfferedAgain, OneEach
<1>2. CASE pool # {}
  <2>1. PICK next \in pool : /\ queue' = [queue EXCEPT ![r] = pool \ {next}]
                             /\ last' = [last EXCEPT ![r] = next]
    BY <1>2 DEF OfferNext, Rest, LastValue
  <2>2. /\ queue'[r] = pool \ {next} /\ last'[r] = next
        /\ \A q \in Riders \ {r} : queue'[q] = queue[q] /\ last'[q] = last[q]
    BY <1>0, <2>1
  <2>3. OneEach(pool \ {next}) /\ \A c \in pool \ {next} : c.driver # next.driver
    BY DEF OneEach
  <2>4. \A q \in Riders : OneEach(queue'[q])
    BY <2>2, <2>3
  <2>5. NeverOfferedAgain'
    BY <2>2, <2>3 DEF NeverOfferedAgain
  <2> QED
    BY <2>4, <2>5
<1> QED
  BY <1>1, <1>2

\* A step that leaves the queues alone, and after which the slot has not just
\* found candidates.
LEMMA QueueQuiet ==
    ASSUME QueueInv, UNCHANGED <<queue, last>>,
           NEW s \in Slots, \A u \in Slots \ {s} : task'[u] = task[u],
           task'[s].pc = "quote" => OneEach(task'[s].candidates)
    PROVE  QueueInv'
  BY DEF QueueInv, NeverOfferedAgain, OneEach

\* Every step keeps the drivers of a queue apart.
LEMMA QueueStep == Inv /\ QueueInv /\ [Next]_allVars => QueueInv'
<1> SUFFICES ASSUME Inv, QueueInv, [Next]_allVars
             PROVE  QueueInv'
  OBVIOUS
<1> USE DEF memoryVars
<1>0. task \in [Slots -> Task] /\ StoreTypeOK
  BY TypeParts DEF Inv
<1>1. CASE UNCHANGED <<queue, last, task>>
  BY <1>1 DEF QueueInv, NeverOfferedAgain, OneEach
<1>2. CASE \/ \E d \in Drivers : PresenceStep(d)
           \/ \E r \in Riders : RiderReconnect(r)
  BY <1>1, <1>2 DEF PresenceStep, Connect, Disconnect, UpdateLocation, WritePresence,
                    RiderReconnect
<1>3. ASSUME NEW s \in Slots, DispatchEvent(s) \/ DispatchStep(s)
      PROVE  QueueInv'
  <2>0. \A u \in Slots \ {s} : task'[u] = task[u]
    BY <1>3, DispatchRows
  <2>1. ASSUME NEW r \in Riders, NEW suited \in SUBSET Drivers, RequestRide(s, r, suited)
        PROVE  QueueInv'
    <3>1. OneEach({[driver |-> d, sock |-> presence[d].sock] : d \in Eligible \cap suited})
      BY DEF OneEach
    <3>2. UNCHANGED <<queue, last>>
      BY <2>1 DEF RequestRide
    <3>3. task'[s].candidates =
              {[driver |-> d, sock |-> presence[d].sock] : d \in Eligible \cap suited}
      BY <2>1, PhaseAfter
    <3>4. OneEach(task'[s].candidates)
      BY <3>1, <3>3
    <3> QED
      BY <2>0, <3>2, <3>4, QueueQuiet
  <2>2. ASSUME NEW d \in Drivers, NEW r \in Riders, NEW accept \in BOOLEAN,
               AnswerOffer(s, d, r, accept)
        PROVE  QueueInv'
    BY <2>0, <2>2, PhaseAfter, QueueQuiet DEF AnswerOffer
  <2>3. CASE OfferRide(s) \/ RecordReject(s)
    <3>1. PICK r \in Riders, pool \in SUBSET Candidate :
              OneEach(pool) /\ \E isLive : OfferNext(r, pool, isLive)
      <4>1. CASE OfferRide(s)
        <5>1. /\ task[s].room \in Riders /\ task[s].candidates \in SUBSET Candidate
              /\ task[s].pc = "quote"
          BY <1>0, <4>1 DEF OfferRide, Inv, HandlersOK, TaskOK, Task
        <5> QED
          BY <4>1, <5>1 DEF OfferRide, QueueInv
      <4>2. CASE RecordReject(s)
        <5>1. task[s].room \in Riders /\ queue[task[s].room] \in SUBSET Candidate
          BY <1>0, <4>2 DEF RecordReject, Inv, HandlersOK, TaskOK, StoreTypeOK
        <5> QED
          BY <4>2, <5>1 DEF RecordReject, QueueInv
      <4> QED
        BY <2>3, <4>1, <4>2
    <3>2. NeverOfferedAgain' /\ \A q \in Riders : OneEach(queue'[q])
      BY <1>0, <3>1, PopKeepsApart DEF QueueInv
    <3>3. \A u \in Slots : task'[u].pc = "quote" => OneEach(task'[u].candidates)
      BY <2>0, <2>3, PhaseAfter DEF QueueInv
    <3> QED
      BY <3>2, <3>3 DEF QueueInv, OneEach
  <2>4. CASE RecordAccept(s) \/ CreateTrip(s) \/ MarkBusy(s)
    <3>1. UNCHANGED <<queue, last>>
      BY <2>4 DEF RecordAccept, CreateTrip, MarkBusy
    <3> QED
      BY <2>0, <2>4, <3>1, PhaseAfter, QueueQuiet
  <2> QED
    BY <1>3, <2>1, <2>2, <2>3, <2>4 DEF DispatchEvent, DispatchStep
<1>4. ASSUME NEW s \in Slots, TripEvent(s) \/ TripStep(s) \/ Fail(s)
      PROVE  QueueInv'
  <2>1. task'[s].pc # "quote" /\ UNCHANGED <<queue, last>>
    BY <1>4, TripQuiet DEF DispatchPhases
  <2> QED
    BY <1>4, <2>1, TripQuiet, QueueQuiet
<1>5. CASE Restart
  <2>1. \A s \in Slots : task'[s].pc = "idle"
    BY <1>5 DEF Restart, Idle
  <2> QED
    BY <1>5, <2>1 DEF Restart, QueueInv, NeverOfferedAgain, OneEach
<1> QED
  BY <1>1, <1>2, <1>3, <1>4, <1>5 DEF Next, DispatchNext, allVars, vars

\* Whoever rejects an offer and how often, a driver is popped once per search.
THEOREM NobodyOfferedTwice == Spec => []NeverOfferedAgain
<1>1. Init => QueueInv
  BY DEF Init, DispatchInit, StoreInit, QueueInv, NeverOfferedAgain, OneEach, Idle
<1>2. QueueInv => NeverOfferedAgain
  BY DEF QueueInv
<1> QED
  BY <1>1, <1>2, QueueStep, InvHolds, PTL DEF Spec

-----------------------------------------------------------------------------
(* The drivers hidden from riders.                                         *)

HasTrip(d) == \E t \in Rows : trips[t].driver = d

BusyInv ==
    /\ BusyOnlyWithTrip
    /\ \A d \in Drivers, h \in PresenceHandlers :
            pending[d][h] # None /\ pending[d][h].in_ride => HasTrip(d)
    /\ \A s \in Slots : task[s].pc = "busy" => HasTrip(task[s].info.driver)

\* A driver who has had a trip keeps it.
LEMMA TripKept == PartiesKept => \A d : HasTrip(d) => HasTrip(d)'
  BY DEF PartiesKept, HasTrip

\* The copy the disconnect event takes says in ride when the entity does.
LEMMA DisconnectCopies ==
    ASSUME StoreTypeOK, BusyInv, NEW d \in Drivers, DisconnectRead(d)
    PROVE  \A e \in Drivers, h \in PresenceHandlers :
               pending'[e][h] # None /\ pending'[e][h].in_ride => HasTrip(e)
<1>1. CASE presence[d] = None
  BY <1>1 DEF DisconnectRead, BusyInv
<1>2. CASE presence[d] # None
  <2> DEFINE p == [presence[d] EXCEPT !.online = FALSE]
  <2>1. p.in_ride = presence[d].in_ride /\ presence[d].in_ride \in BOOLEAN
    BY <1>2 DEF StoreTypeOK, Presence
  <2>2. pending' = [pending EXCEPT ![d]["disconnect"] = p]
    BY <1>2 DEF DisconnectRead
  <2> HIDE DEF p
  <2>3. \A e \in Drivers, h \in PresenceHandlers :
            \/ pending'[e][h] = pending[e][h]
            \/ e = d /\ pending'[e][h] = p
    BY <2>2 DEF StoreTypeOK
  <2>4. presence[d].in_ride => HasTrip(d)
    BY <1>2 DEF BusyInv, BusyOnlyWithTrip, HasTrip
  <2> QED
    BY <2>1, <2>3, <2>4 DEF BusyInv
<1> QED
  BY <1>1, <1>2

\* The presence handlers copy the entity, whose in_ride a trip stands behind.
LEMMA PresenceBusy ==
    ASSUME Inv, BusyInv, NEW d \in Drivers, PresenceStep(d)
    PROVE  BusyInv'
<1> USE DEF memoryVars, tableVars, socketVars
<1>0. StoreTypeOK
  BY TypeParts DEF Inv
<1>1. /\ UNCHANGED <<trips, task>>
      /\ \A e : HasTrip(e)' <=> HasTrip(e)
  <2>1. UNCHANGED <<trips, task>>
    BY PresenceQuiet
  <2> QED
    BY <2>1 DEF HasTrip, Rows
<1>2. CASE Disconnect(d)
  <2>1. \A e \in Drivers, h \in PresenceHandlers :
            pending'[e][h] # None /\ pending'[e][h].in_ride => HasTrip(e)
    BY <1>0, <1>2, DisconnectCopies DEF Disconnect
  <2>2. presence' = presence
    BY <1>2 DEF Disconnect
  <2> QED
    BY <1>1, <2>1, <2>2 DEF BusyInv, BusyOnlyWithTrip, HasTrip, Rows
<1>3. CASE Connect(d)
  <2> DEFINE p == [online |-> TRUE, in_ride |-> FALSE, sock |-> sock[d] + 1,
                   fenced |-> presence[d] # None /\ presence[d].fenced]
  <2>1. pending' = pending \/ pending' = [pending EXCEPT ![d]["connect"] = p]
    BY <1>3 DEF Connect
  <2>2. p.in_ride = FALSE /\ presence' = presence
    BY <1>3 DEF Connect
  <2> HIDE DEF p
  <2>3. \A e \in Drivers, h \in PresenceHandlers :
            pending'[e][h] = pending[e][h] \/ (e = d /\ pending'[e][h] = p)
    BY <1>0, <2>1 DEF StoreTypeOK
  <2> QED
    BY <1>1, <2>2, <2>3 DEF BusyInv, BusyOnlyWithTrip, HasTrip, Rows
<1>4. ASSUME NEW inFence \in BOOLEAN, UpdateLocation(d, inFence)
      PROVE  BusyInv'
  <2> DEFINE p == [presence[d] EXCEPT !.sock = sock[d], !.fenced = @ \/ inFence]
  <2>1. pending' = [pending EXCEPT ![d]["updateLocation"] = p] /\ presence' = presence
    BY <1>4 DEF UpdateLocation
  <2>2. p.in_ride = presence[d].in_ride /\ presence[d] # None
    BY <1>0, <1>4 DEF UpdateLocation, StoreTypeOK, Presence
  <2> HIDE DEF p
  <2>3. \A e \in Drivers, h \in PresenceHandlers :
            pending'[e][h] = pending[e][h] \/ (e = d /\ pending'[e][h] = p)
    BY <1>0, <2>1 DEF StoreTypeOK
  <2>4. presence[d].in_ride => HasTrip(d)
    BY <2>2 DEF BusyInv, BusyOnlyWithTrip, HasTrip
  <2> QED
    BY <1>1, <2>1, <2>2, <2>3, <2>4 DEF BusyInv, BusyOnlyWithTrip, HasTrip, Rows
<1>5. ASSUME NEW h \in PresenceHandlers, WritePresence(d, h)
      PROVE  BusyInv'
  <2>1. /\ \A e \in Drivers : presence'[e] = presence[e]
                               \/ (e = d /\ presence'[e] = pending[e][h])
        /\ \A e \in Drivers, g \in PresenceHandlers :
               pending'[e][g] = pending[e][g] \/ pending'[e][g] = None
    BY <1>0, <1>5 DEF WritePresence, StoreTypeOK
  <2>2. \A e \in Drivers : presence'[e] # None /\ presence'[e].in_ride => HasTrip(e)
    BY <2>1 DEF BusyInv, BusyOnlyWithTrip, HasTrip
  <2> QED
    BY <1>1, <2>1, <2>2 DEF BusyInv, BusyOnlyWithTrip, HasTrip, Rows
<1> QED
  BY <1>2, <1>3, <1>4, <1>5 DEF PresenceStep

\* A step after which the driver that the slot is about to hide has a trip.
LEMMA BusyQuiet ==
    ASSUME BusyInv, PartiesKept, UNCHANGED pending,
           \A d \in Drivers :
               presence'[d] # None /\ presence'[d].in_ride => presence'[d] = presence[d],
           NEW s \in Slots, \A u \in Slots \ {s} : task'[u] = task[u],
           task'[s].pc = "busy" =>
               \E t \in Rows' : trips'[t].driver = task'[s].info.driver
    PROVE  BusyInv'
<1>1. \A d : HasTrip(d) => \E t \in Rows' : trips'[t].driver = d
  BY TripKept DEF HasTrip
<1>2. BusyOnlyWithTrip'
  BY <1>1 DEF BusyInv, BusyOnlyWithTrip, HasTrip
<1>3. \A d \in Drivers, h \in PresenceHandlers :
          pending'[d][h] # None /\ pending'[d][h].in_ride =>
              \E t \in Rows' : trips'[t].driver = d
  BY <1>1 DEF BusyInv
<1>4. \A u \in Slots : task'[u].pc = "busy" =>
          \E t \in Rows' : trips'[t].driver = task'[u].info.driver
  BY <1>1 DEF BusyInv
<1> QED
  BY <1>2, <1>3, <1>4 DEF BusyInv, HasTrip

\* Only MarkBusy hides a driver, after CreateTrip of the same handler.
LEMMA BusyStep == Inv /\ BusyInv /\ [Next]_allVars => BusyInv'
<1> SUFFICES ASSUME Inv, BusyInv, [Next]_allVars
             PROVE  BusyInv'
  OBVIOUS
<1> USE DEF memoryVars, tableVars, socketVars
<1>0. /\ task \in [Slots -> Task] /\ StoreTypeOK
      /\ \A s \in Slots : TaskOK(task[s], Rows)
  BY TypeParts DEF Inv, HandlersOK
<1>1. CASE UNCHANGED <<trips, presence, pending, task>>
  BY <1>1 DEF BusyInv, BusyOnlyWithTrip, HasTrip, Rows
<1>2. ASSUME NEW r \in Riders, RiderReconnect(r)
      PROVE  BusyInv'
  BY <1>1, <1>2 DEF RiderReconnect
<1>3. ASSUME NEW d \in Drivers, PresenceStep(d)
      PROVE  BusyInv'
  BY <1>3, PresenceBusy
<1>4. ASSUME NEW s \in Slots, DispatchEvent(s) \/ DispatchStep(s)
      PROVE  BusyInv'
  <2>0. PartiesKept /\ \A u \in Slots \ {s} : task'[u] = task[u]
    BY <1>4, DispatchRows
  <2>1. CASE DispatchEvent(s) \/ OfferRide(s) \/ RecordAccept(s)
    <3>1. UNCHANGED <<presence, pending>>
      BY <2>1 DEF DispatchEvent, RequestRide, AnswerOffer, OfferRide, RecordAccept
    <3>2. task'[s].pc # "busy"
      BY <2>1, PhaseAfter DEF DispatchEvent
    <3> QED
      BY <2>0, <3>1, <3>2, BusyQuiet
  <2>2. CASE RecordReject(s)
    <3>1. /\ presence' = presence /\ trips' = trips /\ task'[s].pc = "idle"
          /\ pending' = pending \/ DisconnectRead(task[s].user)
      BY <2>2, PhaseAfter DEF RecordReject
    <3>2. task[s].user \in Drivers
      BY <1>0, <2>2 DEF RecordReject, TaskOK
    <3>3. \A d \in Drivers, h \in PresenceHandlers :
              pending'[d][h] # None /\ pending'[d][h].in_ride => HasTrip(d)
      BY <1>0, <3>1, <3>2, DisconnectCopies DEF BusyInv
    <3>4. \A d : HasTrip(d)' <=> HasTrip(d)
      BY <3>1 DEF HasTrip, Rows
    <3>5. \A u \in Slots : task'[u].pc = "busy" => HasTrip(task'[u].info.driver)
      BY <2>0, <3>1 DEF BusyInv
    <3> QED
      BY <3>1, <3>3, <3>4, <3>5 DEF BusyInv, BusyOnlyWithTrip, HasTrip, Rows
  <2>3. CASE CreateTrip(s)
    <3>1. PICK t \in Trips \ Rows : trips' = [trips EXCEPT ![t] = NewTrip(s)]
      BY <2>3 DEF CreateTrip
    <3>2. /\ UNCHANGED <<presence, pending>>
          /\ task'[s].info = task[s].info
      BY <2>3, PhaseAfter DEF CreateTrip
    <3>3. NewTrip(s) \in Trip
      BY <1>0, <2>3 DEF NewTrip, CreateTrip, Trip, TripStatus, TaskOK, Candidate
    <3>4. t \in Rows' /\ trips'[t].driver = task[s].info.driver
      BY <1>0, <3>1, <3>3, NoneIsNoValue DEF NewTrip, StoreTypeOK, Rows
    <3>5. \E x \in Rows' : trips'[x].driver = task'[s].info.driver
      BY <3>2, <3>4
    <3> QED
      BY <2>0, <3>2, <3>5, BusyQuiet
  <2>4. CASE MarkBusy(s)
    <3>1. /\ UNCHANGED <<trips, pending>> /\ task'[s].pc = "idle"
          /\ task[s].pc = "busy" /\ task[s].info \in Candidate
      BY <1>0, <2>4, PhaseAfter DEF MarkBusy, TaskOK
    <3>2. \A d \in Drivers : presence'[d] = presence[d] \/ d = task[s].info.driver
      BY <1>0, <2>4 DEF MarkBusy, WriteSnapshot, StoreTypeOK
    <3>3. \A d : HasTrip(d)' <=> HasTrip(d)
      BY <3>1 DEF HasTrip, Rows
    <3>4. \A u \in Slots : task'[u].pc = "busy" => HasTrip(task'[u].info.driver)
      BY <2>0, <3>1 DEF BusyInv
    <3>5. \A d \in Drivers : presence'[d] # None /\ presence'[d].in_ride => HasTrip(d)
      BY <3>1, <3>2 DEF BusyInv, BusyOnlyWithTrip, HasTrip
    <3> QED
      BY <3>1, <3>3, <3>4, <3>5 DEF BusyInv, BusyOnlyWithTrip, HasTrip, Rows
  <2> QED
    BY <1>4, <2>1, <2>2, <2>3, <2>4 DEF DispatchStep
<1>5. ASSUME NEW s \in Slots, TripEvent(s) \/ TripStep(s) \/ Fail(s)
      PROVE  BusyInv'
  <2>1. task'[s].pc # "busy"
    BY <1>5, TripQuiet DEF DispatchPhases
  <2> QED
    BY <1>5, <2>1, TripQuiet, BusyQuiet
<1>6. CASE Restart
  <2>1. /\ \A s \in Slots : task'[s].pc = "idle"
        /\ \A d \in Drivers, h \in PresenceHandlers : pending'[d][h] = None
        /\ UNCHANGED <<presence, trips>>
    BY <1>6 DEF Restart, Idle
  <2> QED
    BY <2>1 DEF BusyInv, BusyOnlyWithTrip, HasTrip, Rows
<1> QED
  BY <1>1, <1>2, <1>3, <1>4, <1>5, <1>6 DEF Next, DispatchNext, allVars, vars

\* No stale copy of the entity hides a driver who never had a trip.
THEOREM HiddenDriversHaveTrips == Spec => []BusyOnlyWithTrip
<1>1. Init => BusyInv
  BY DEF Init, DispatchInit, StoreInit, BusyInv, BusyOnlyWithTrip, Idle
<1>2. BusyInv => BusyOnlyWithTrip
  BY DEF BusyInv
<1> QED
  BY <1>1, <1>2, BusyStep, InvHolds, PTL DEF Spec
-----------------------------------------------------------------------------
(* One ride per rider, when the apps take turns.                           *)
(*                                                                         *)
(* The ride a rider asked for is then in one place at a time: a handler is *)
(* deciding about it, a driver's app has the offer, or it is a trip.       *)

\* Each rider asks at most once, and each offer is answered at most once.
TakeTurns == MaxRequests <= 1 /\ ~RepeatAnswers

Deciding(k, r) == k.pc \in {"quote", "record", "create"} /\ k.room = r
Offered(d, r) == r \in inbox[d]
TripOf(t, r) == t \in Rows /\ trips[t].rider = r

\* Nothing of a ride of r is anywhere.
Untouched(r) ==
    /\ \A s \in Slots : ~ Deciding(task[s], r)
    /\ \A d \in Drivers : ~ Offered(d, r)
    /\ \A t \in Trips : ~ TripOf(t, r)

\* The ride is in at most one place, and an offer was made to the last driver popped.
OnePlace(r) ==
    /\ asked[r] = 0 => Untouched(r)
    /\ \A s, u \in Slots : Deciding(task[s], r) /\ Deciding(task[u], r) => s = u
    /\ \A d, e \in Drivers : Offered(d, r) /\ Offered(e, r) => d = e
    /\ \A t, u \in Trips : TripOf(t, r) /\ TripOf(u, r) => t = u
    /\ \A s \in Slots, d \in Drivers : ~ (Deciding(task[s], r) /\ Offered(d, r))
    /\ \A s \in Slots, t \in Trips : ~ (Deciding(task[s], r) /\ TripOf(t, r))
    /\ \A d \in Drivers, t \in Trips : ~ (Offered(d, r) /\ TripOf(t, r))
    /\ \A d \in Drivers : Offered(d, r) /\ last[r] # None => last[r].driver = d

TurnInv == TripGoesToWhoAccepted /\ \A r \in Riders : OnePlace(r)

\* A step that brings nothing of the ride of r to a new place.
LEMMA RideStays ==
    ASSUME NEW r \in Riders, OnePlace(r),
           asked'[r] = asked[r], last'[r] \in {last[r], None},
           \A s \in Slots : Deciding(task'[s], r) => Deciding(task[s], r),
           \A d \in Drivers : Offered(d, r)' => Offered(d, r),
           \A t \in Trips : TripOf(t, r)' => TripOf(t, r)
    PROVE  OnePlace(r)'
<1> HIDE DEF TripOf, Deciding, Offered
<1>1. Untouched(r) => Untouched(r)'
  BY DEF Untouched
<1> QED
  BY <1>1 DEF OnePlace

\* A slot that decides about a ride of r, and what that leaves: no other slot, no
\* offer and no trip.
LEMMA OnlyPlace ==
    ASSUME NEW r \in Riders, OnePlace(r), NEW s \in Slots, Deciding(task[s], r)
    PROVE  /\ \A u \in Slots \ {s} : ~ Deciding(task[u], r)
           /\ \A d \in Drivers : ~ Offered(d, r)
           /\ \A t \in Trips : ~ TripOf(t, r)
           /\ asked[r] # 0
  BY DEF OnePlace, Untouched

\* What a handler of dispatch holds after a step, beyond its phase.
LEMMA HoldsAfter ==
    ASSUME Inv, NEW s \in Slots
    PROVE  /\ \A d \in Drivers, r \in Riders, accept \in BOOLEAN :
                  AnswerOffer(s, d, r, accept) =>
                      /\ task'[s].pc = "record" /\ task'[s].room = r
                      /\ task'[s].user = d /\ task'[s].info = last[r]
           /\ RecordAccept(s) =>
                  /\ task[s].pc = "record" /\ task'[s].pc = "create"
                  /\ task'[s].room = task[s].room
                  /\ task'[s].user = task[s].user /\ task'[s].info = task[s].info
<1>0. task \in [Slots -> Task] /\ task[s] \in Task /\ StoreTypeOK
  BY TypeParts DEF Inv
<1>1. ASSUME NEW d \in Drivers, NEW r \in Riders, NEW accept \in BOOLEAN,
             AnswerOffer(s, d, r, accept)
      PROVE  /\ task'[s].pc = "record" /\ task'[s].room = r
             /\ task'[s].user = d /\ task'[s].info = last[r]
  <2> DEFINE j == Serving(r, "record")
             k == [j EXCEPT !.user = d, !.sock = sock[d], !.accept = accept]
  <2>1. task'[s] = k
    BY <1>0, <1>1 DEF AnswerOffer, Begin
  <2>2. last[r] \in Candidate
    BY <1>0, <1>1 DEF AnswerOffer, StoreTypeOK
  <2>3. j \in Task /\ j.pc = "record" /\ j.room = r /\ j.info = last[r]
    BY <2>2, ServingType DEF Phases
  <2> HIDE DEF j
  <2> QED
    BY <2>1, <2>3 DEF Task
<1>2. ASSUME RecordAccept(s)
      PROVE  /\ task[s].pc = "record" /\ task'[s].pc = "create"
             /\ task'[s].room = task[s].room
             /\ task'[s].user = task[s].user /\ task'[s].info = task[s].info
  BY <1>0, <1>2 DEF RecordAccept, Resume, Task
<1> QED
  BY <1>1, <1>2

\* A handler that was deciding offers the ride to the next driver, or to nobody.
LEMMA RideOffered ==
    ASSUME StoreTypeOK, NEW s \in Slots, NEW r \in Riders, OnePlace(r), Deciding(task[s], r),
           NEW pool \in SUBSET Candidate, NEW isLive, OfferNext(r, pool, isLive),
           task' = [task EXCEPT ![s] = Idle], task \in [Slots -> Task],
           UNCHANGED <<trips, asked>>
    PROVE  \A q \in Riders : OnePlace(q) => OnePlace(q)'
<1>0. /\ inbox \in [Drivers -> SUBSET Riders] /\ last \in [Riders -> Candidate \cup {None}]
      /\ Idle.pc = "idle"
  BY DEF StoreTypeOK, Idle
<1>1. /\ task'[s] = Idle /\ \A u \in Slots \ {s} : task'[u] = task[u]
  BY DEF Task
<1>2. \A q : \A u \in Slots : Deciding(task'[u], q) => u # s /\ Deciding(task[u], q)
  BY <1>0, <1>1 DEF Deciding
<1>3. \A q : \A t \in Trips : TripOf(t, q)' <=> TripOf(t, q)
  BY DEF TripOf, Rows
<1>4. \/ UNCHANGED <<last, inbox>>
      \/ \E c \in Candidate :
           /\ last' = [last EXCEPT ![r] = c]
           /\ inbox' \in {inbox, [inbox EXCEPT ![c.driver] = @ \cup {r}]}
  BY DEF OfferNext, Rest, LastValue
<1>5. \A q \in Riders \ {r} :
          last'[q] = last[q] /\ \A d \in Drivers : Offered(d, q)' => Offered(d, q)
  BY <1>0, <1>4 DEF Offered
<1>6. ASSUME NEW q \in Riders \ {r}, OnePlace(q)
      PROVE  OnePlace(q)'
  BY <1>2, <1>3, <1>5, <1>6, RideStays
<1>7. OnePlace(r)'
  <2>1. /\ \A u \in Slots \ {s} : ~ Deciding(task[u], r)
        /\ \A d \in Drivers : ~ Offered(d, r)
        /\ \A t \in Trips : ~ TripOf(t, r)
        /\ asked[r] # 0
    BY OnlyPlace
  <2>2. \A u \in Slots : ~ Deciding(task'[u], r)
    BY <1>2, <2>1
  <2>3. \A t \in Trips : ~ TripOf(t, r)'
    BY <1>3, <2>1
  <2>4. asked'[r] # 0
    BY <2>1
  <2>5. /\ \A d, e \in Drivers : Offered(d, r)' /\ Offered(e, r)' => d = e
        /\ \A d \in Drivers : Offered(d, r)' /\ last'[r] # None => last'[r].driver = d
    BY <1>0, <1>4, <2>1 DEF Offered, Candidate
  <2> HIDE DEF Deciding, Offered, TripOf
  <2> QED
    BY <2>2, <2>3, <2>4, <2>5 DEF OnePlace
<1> QED
  BY <1>6, <1>7

\* Only a request, an answer, a decision and a new trip move a ride on, each from the
\* one place it is in.
LEMMA TurnStep == TakeTurns /\ Inv /\ TurnInv /\ [Next]_allVars => TurnInv'
<1> SUFFICES ASSUME TakeTurns, Inv, TurnInv, [Next]_allVars
             PROVE  TurnInv'
  OBVIOUS
<1> USE DEF memoryVars, tableVars, socketVars
<1>0. /\ task \in [Slots -> Task] /\ StoreTypeOK /\ Idle.pc = "idle"
      /\ \A s \in Slots : TaskOK(task[s], Rows)
      /\ \A r \in Riders : OnePlace(r)
  BY TypeParts DEF Inv, HandlersOK, Idle, TurnInv
<1>1. ASSUME UNCHANGED <<asked, inbox, trips, task>>, \A r \in Riders : last'[r] \in {last[r], None}
      PROVE  TurnInv'
  <2>1. \A r \in Riders : OnePlace(r)'
    BY <1>0, <1>1, RideStays DEF Offered, TripOf, Rows
  <2> QED
    BY <1>1, <2>1 DEF TurnInv, TripGoesToWhoAccepted
<1>2. CASE \/ \E d \in Drivers : PresenceStep(d)
           \/ \E r \in Riders : RiderReconnect(r)
  <2>1. UNCHANGED <<asked, inbox, trips, task, last>>
    BY <1>2 DEF PresenceStep, Connect, Disconnect, UpdateLocation, WritePresence,
                RiderReconnect
  <2> QED
    BY <1>1, <2>1
<1>3. ASSUME NEW s \in Slots, NEW r \in Riders, NEW suited \in SUBSET Drivers,
             RequestRide(s, r, suited)
      PROVE  TurnInv'
  <2>1. /\ task'[s].pc = "quote" /\ task'[s].room = r
        /\ \A u \in Slots \ {s} : task'[u] = task[u]
    BY <1>3, PhaseAfter, DispatchRows DEF DispatchEvent
  <2>2. /\ UNCHANGED <<inbox, trips, last>> /\ task[s].pc = "idle"
        /\ asked' = [asked EXCEPT ![r] = @ + 1] /\ asked[r] < MaxRequests
        /\ asked[r] \in 0 .. MaxRequests /\ asked \in [Riders -> 0 .. MaxRequests]
    BY <1>0, <1>3 DEF RequestRide, StoreTypeOK
  <2>3. asked[r] = 0 /\ asked'[r] # 0 /\ \A q \in Riders \ {r} : asked'[q] = asked[q]
    BY <2>2, RequestBound DEF TakeTurns
  <2>4. \A q : \A u \in Slots : Deciding(task'[u], q) =>
            Deciding(task[u], q) \/ (u = s /\ q = r)
    BY <2>1 DEF Deciding
  <2>5. \A q : /\ \A d \in Drivers : Offered(d, q)' <=> Offered(d, q)
               /\ \A t \in Trips : TripOf(t, q)' <=> TripOf(t, q)
    BY <2>2 DEF Offered, TripOf, Rows
  <2>6. ASSUME NEW q \in Riders \ {r} PROVE OnePlace(q)'
    BY <1>0, <2>2, <2>3, <2>4, <2>5, RideStays
  <2>7. Untouched(r)
    BY <1>0, <2>3 DEF OnePlace
  <2>8. OnePlace(r)'
    <3> HIDE DEF Deciding, Offered, TripOf
    <3> QED
      BY <2>3, <2>4, <2>5, <2>7 DEF OnePlace, Untouched
  <2>9. TripGoesToWhoAccepted'
    BY <2>1 DEF TurnInv, TripGoesToWhoAccepted
  <2> QED
    BY <2>6, <2>8, <2>9 DEF TurnInv
<1>4. ASSUME NEW s \in Slots, NEW d \in Drivers, NEW r \in Riders, NEW accept \in BOOLEAN,
             AnswerOffer(s, d, r, accept)
      PROVE  TurnInv'
  <2>1. /\ task'[s].pc = "record" /\ task'[s].room = r
        /\ task'[s].user = d /\ task'[s].info = last[r]
        /\ \A u \in Slots \ {s} : task'[u] = task[u]
    BY <1>4, HoldsAfter, DispatchRows DEF DispatchEvent
  <2>2. /\ UNCHANGED <<trips, last, asked>> /\ Offered(d, r) /\ last[r] # None
        /\ inbox' = [inbox EXCEPT ![d] = @ \ {r}]
        /\ inbox \in [Drivers -> SUBSET Riders]
    BY <1>0, <1>4 DEF AnswerOffer, TakeTurns, Offered, StoreTypeOK
  <2>3. \A q : \A u \in Slots : Deciding(task'[u], q) =>
            Deciding(task[u], q) \/ (u = s /\ q = r)
    BY <2>1 DEF Deciding
  <2>4. \A q : \A e \in Drivers : Offered(e, q)' => Offered(e, q) /\ ~ (e = d /\ q = r)
    BY <2>2 DEF Offered
  <2>5. \A q : \A t \in Trips : TripOf(t, q)' <=> TripOf(t, q)
    BY <2>2 DEF TripOf, Rows
  <2>6. ASSUME NEW q \in Riders \ {r} PROVE OnePlace(q)'
    BY <1>0, <2>2, <2>3, <2>4, <2>5, RideStays
  <2>7. /\ \A u \in Slots : ~ Deciding(task[u], r)
        /\ \A e \in Drivers : Offered(e, r) => e = d
        /\ \A t \in Trips : ~ TripOf(t, r)
        /\ asked[r] # 0 /\ last[r].driver = d
    BY <1>0, <2>2 DEF OnePlace, Untouched
  <2>8. OnePlace(r)'
    <3> HIDE DEF Deciding, Offered, TripOf
    <3> QED
      BY <2>2, <2>3, <2>4, <2>5, <2>7 DEF OnePlace
  <2>9. TripGoesToWhoAccepted'
    BY <2>1, <2>7 DEF TurnInv, TripGoesToWhoAccepted
  <2> QED
    BY <2>6, <2>8, <2>9 DEF TurnInv
<1>5. ASSUME NEW s \in Slots, OfferRide(s) \/ RecordReject(s)
      PROVE  TurnInv'
  <2>1. /\ task' = [task EXCEPT ![s] = Idle] /\ UNCHANGED <<trips, asked>>
        /\ task[s].pc \in {"quote", "record"} /\ task[s].room \in Riders
    BY <1>0, <1>5 DEF OfferRide, RecordReject, Finish, TaskOK
  <2>2. PICK r \in Riders : r = task[s].room /\ Deciding(task[s], r)
    BY <2>1 DEF Deciding
  <2>3. \E pool \in SUBSET Candidate : \E isLive : OfferNext(r, pool, isLive)
    <3>1. CASE OfferRide(s)
      <4>1. task[s].candidates \in SUBSET Candidate
        BY <1>0 DEF Task
      <4> QED
        BY <2>2, <3>1, <4>1 DEF OfferRide
    <3>2. CASE RecordReject(s)
      <4>1. queue[r] \in SUBSET Candidate
        BY <1>0 DEF StoreTypeOK
      <4> QED
        BY <2>2, <3>2, <4>1 DEF RecordReject
    <3> QED
      BY <1>5, <3>1, <3>2
  <2>4. \A q \in Riders : OnePlace(q)'
    BY <1>0, <2>1, <2>2, <2>3, RideOffered
  <2>5. TripGoesToWhoAccepted'
    BY <1>0, <2>1 DEF TurnInv, TripGoesToWhoAccepted
  <2> QED
    BY <2>4, <2>5 DEF TurnInv
<1>6. ASSUME NEW s \in Slots, RecordAccept(s)
      PROVE  TurnInv'
  <2>1. /\ task[s].pc = "record" /\ task'[s].pc = "create" /\ task'[s].room = task[s].room
        /\ task'[s].user = task[s].user /\ task'[s].info = task[s].info
        /\ \A u \in Slots \ {s} : task'[u] = task[u]
    BY <1>6, HoldsAfter, DispatchRows DEF DispatchStep
  <2>2. UNCHANGED <<inbox, trips, last, asked>>
    BY <1>6 DEF RecordAccept
  <2>3. \A q : \A u \in Slots : Deciding(task'[u], q) => Deciding(task[u], q)
    BY <2>1 DEF Deciding
  <2>4. \A q \in Riders : OnePlace(q)'
    BY <1>0, <2>2, <2>3, RideStays DEF Offered, TripOf, Rows
  <2>5. TripGoesToWhoAccepted'
    BY <2>1 DEF TurnInv, TripGoesToWhoAccepted
  <2> QED
    BY <2>4, <2>5 DEF TurnInv
<1>7. ASSUME NEW s \in Slots, CreateTrip(s)
      PROVE  TurnInv'
  <2>1. /\ task'[s].pc = "busy" /\ \A u \in Slots \ {s} : task'[u] = task[u]
    BY <1>7, PhaseAfter, DispatchRows DEF DispatchStep
  <2>2. PICK t \in Trips \ Rows : trips' = [trips EXCEPT ![t] = NewTrip(s)]
    BY <1>7 DEF CreateTrip
  <2>3. PICK r \in Riders : r = task[s].room /\ Deciding(task[s], r)
    BY <1>0, <1>7 DEF CreateTrip, TaskOK, Deciding
  <2>4. UNCHANGED <<inbox, last, asked>>
    BY <1>7 DEF CreateTrip
  <2>5. \A q : \A u \in Slots : Deciding(task'[u], q) => u # s /\ Deciding(task[u], q)
    BY <2>1 DEF Deciding
  <2>6. \A q : \A d \in Drivers : Offered(d, q)' <=> Offered(d, q)
    BY <2>4 DEF Offered
  <2>7. \A q : \A x \in Trips : TripOf(x, q)' => TripOf(x, q) \/ (x = t /\ q = r)
    BY <1>0, <2>2, <2>3 DEF TripOf, Rows, NewTrip, StoreTypeOK
  <2>8. ASSUME NEW q \in Riders \ {r} PROVE OnePlace(q)'
    BY <1>0, <2>4, <2>5, <2>6, <2>7, RideStays
  <2>9. /\ \A u \in Slots \ {s} : ~ Deciding(task[u], r)
        /\ \A d \in Drivers : ~ Offered(d, r)
        /\ \A x \in Trips : ~ TripOf(x, r)
        /\ asked[r] # 0
    BY <1>0, <2>3, OnlyPlace
  <2>10. OnePlace(r)'
    <3> HIDE DEF Deciding, Offered, TripOf
    <3> QED
      BY <2>4, <2>5, <2>6, <2>7, <2>9 DEF OnePlace
  <2>11. TripGoesToWhoAccepted'
    BY <2>1 DEF TurnInv, TripGoesToWhoAccepted
  <2> QED
    BY <2>8, <2>10, <2>11 DEF TurnInv
<1>8. ASSUME NEW s \in Slots, MarkBusy(s) \/ TripEvent(s) \/ TripStep(s) \/ Fail(s),
             UNCHANGED asked
      PROVE  TurnInv'
  <2>1. /\ task'[s].pc \notin {"quote", "record", "create"}
        /\ \A u \in Slots \ {s} : task'[u] = task[u]
        /\ \A q : \A t \in Trips : TripOf(t, q)' <=> TripOf(t, q)
    <3>1. CASE MarkBusy(s)
      <4>1. trips' = trips
        BY <3>1 DEF MarkBusy
      <4> QED
        BY <3>1, <4>1, PhaseAfter, DispatchRows DEF DispatchStep, TripOf, Rows
    <3>2. CASE TripEvent(s) \/ TripStep(s) \/ Fail(s)
      BY <3>2, TripQuiet DEF DispatchPhases, PartiesKept, TripOf
    <3> QED
      BY <1>8, <3>1, <3>2
  <2>2. UNCHANGED <<inbox, last>>
    BY <1>8 DEF MarkBusy, TripEvent, StartTrip, CancelTrip, EndTrip, TripStep, WriteStart,
                WriteCancel, CompleteTrip, PriceTrip, ReadBalance, WriteBalance,
                ReleaseDriver, Fail
  <2>3. \A q : \A u \in Slots : Deciding(task'[u], q) => Deciding(task[u], q)
    BY <2>1 DEF Deciding
  <2>4. \A q \in Riders : OnePlace(q)'
    BY <1>0, <1>8, <2>1, <2>2, <2>3, RideStays DEF Offered
  <2>5. TripGoesToWhoAccepted'
    BY <2>1 DEF TurnInv, TripGoesToWhoAccepted
  <2> QED
    BY <2>4, <2>5 DEF TurnInv
<1>9. CASE Restart
  <2>1. /\ \A s \in Slots : task'[s].pc = "idle"
        /\ \A r \in Riders : last'[r] = None
        /\ UNCHANGED <<inbox, trips, asked>>
    BY <1>9 DEF Restart, Idle
  <2>2. \A q \in Riders : OnePlace(q)'
    BY <1>0, <2>1, RideStays DEF Deciding, Offered, TripOf, Rows
  <2> QED
    BY <2>1, <2>2 DEF TurnInv, TripGoesToWhoAccepted
<1>10. CASE UNCHANGED allVars
  BY <1>1, <1>10 DEF allVars, vars
<1>11. ASSUME NEW s \in Slots, Fail(s)
       PROVE  TurnInv'
  BY <1>8, <1>11 DEF Fail
<1> QED
  BY <1>2, <1>3, <1>4, <1>5, <1>6, <1>7, <1>8, <1>9, <1>10, <1>11
  DEF Next, DispatchNext, DispatchEvent, DispatchStep, MarkBusy

\* What the apps' turns give, as an invariant.
LEMMA TurnHolds ==
    ASSUME TakeTurns
    PROVE  Spec => []TurnInv
<1>1. Init => TurnInv
  BY DEF Init, DispatchInit, StoreInit, TurnInv, TripGoesToWhoAccepted, OnePlace, Untouched,
         Deciding, Offered, TripOf, Rows, Idle
<1> QED
  BY <1>1, TurnStep, InvHolds, PTL DEF Spec

\* Handlers may interleave, fail and be lost in a restart: a rider who asks once gets
\* at most one trip, as long as no offer is answered twice.
THEOREM OneTripEach ==
    ASSUME TakeTurns
    PROVE  Spec => []OneTripPerRequest
<1>1. TurnInv /\ Inv => OneTripPerRequest
  <2> SUFFICES ASSUME TurnInv, Inv, NEW t \in Rows, NEW u \in Rows,
                      trips[t].rider = trips[u].rider
               PROVE  t = u
    BY DEF OneTripPerRequest
  <2>1. trips[t].rider \in Riders /\ t \in Trips /\ u \in Trips
    BY TypeParts DEF Inv, StoreTypeOK, Rows, Trip
  <2> QED
    BY <2>1 DEF TurnInv, OnePlace, TripOf
<1> QED
  BY <1>1, TurnHolds, InvHolds, PTL

\* The handler of an answer takes the driver from the last value of the room: it is
\* the driver who answered, as long as no offer is answered twice.
THEOREM TripsGoToWhoAccepted ==
    ASSUME TakeTurns
    PROVE  Spec => []TripGoesToWhoAccepted
<1>1. TurnInv => TripGoesToWhoAccepted
  BY DEF TurnInv
<1> QED
  BY <1>1, TurnHolds, PTL
=============================================================================
