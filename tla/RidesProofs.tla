----------------------------- MODULE RidesProofs -----------------------------
(***************************************************************************)
(* Theorems about the rides gateway, for any riders, drivers, trips, slots *)
(* and bounds.                                                             *)
(*                                                                         *)
(* The inductive invariant has two parts.  Inv says that every handler in  *)
(* flight holds what its next step uses: a row that exists, a candidate, a *)
(* balance.  LedgerInv follows the commission of a trip from the insert of *)
(* its fare to the write of a balance, through the stale copies of the     *)
(* balance that handlers hold.                                             *)
(***************************************************************************)
EXTENDS Rides, TLAPS

\* What a handler holds at each phase, given the trips that exist.
TaskOK(k, rows) ==
    /\ k.pc \in {"quote", "record", "create"} => k.room \in Riders
    /\ k.pc \in {"record", "create"} => k.user \in Drivers
    /\ k.pc \in {"record", "create", "busy"} => k.info \in Candidate
    /\ k.pc \in {"start", "cancel"} => k.trip \in rows
    /\ k.pc \in {"complete", "price", "readBalance", "writeBalance", "release"} =>
            /\ k.room \in Riders
            /\ k.info \in Candidate
            /\ k.trip \in rows
    /\ k.pc = "writeBalance" => k.base \in Balance

HandlersOK == \A s \in Slots : TaskOK(task[s], Rows)

ConnectedOK == \A r \in Riders : connected[r] # None => connected[r] \in Rows

Inv == RidesTypeOK /\ HandlersOK /\ ConnectedOK

\* RidesTypeOK without the slots.
StoreTypeOK ==
    /\ presence \in [Drivers -> Presence \cup {None}]
    /\ sock \in [Drivers -> Sockets]
    /\ live \in [Drivers -> BOOLEAN]
    /\ pending \in [Drivers -> [PresenceHandlers -> Presence \cup {None}]]
    /\ rooms \in [Users -> Seq(Riders)]
    /\ inbox \in [Drivers -> SUBSET Riders]
    /\ queue \in [Riders -> SUBSET Candidate]
    /\ last \in [Riders -> Candidate \cup {None}]
    /\ connected \in [Riders -> Trips \cup {None}]
    /\ trips \in [Trips -> Trip \cup {None}]
    /\ rideRequests \in SUBSET RideRequest
    /\ fares \in SUBSET Trips
    /\ balance \in [Drivers -> Balance]
    /\ asked \in [Riders -> 0 .. MaxRequests]
    /\ restarts \in 0 .. MaxRestarts

LedgerInv ==
    /\ \A d \in Drivers, t \in Trips : balance[d][t] <= 1
    /\ \A s \in Slots : task[s].pc = "writeBalance" =>
            \A t \in Trips : task[s].base[t] <= 1
    /\ \A t \in Trips : \A d, e \in Drivers : Holds(d, t) /\ Holds(e, t) => d = e
    /\ \A t \in Trips : \A d \in Drivers : Holds(d, t) => t \in fares
    /\ \A s \in Slots : Settling(s) =>
            /\ task[s].trip \in fares
            /\ \A d \in Drivers : ~Holds(d, task[s].trip)
    /\ \A s, u \in Slots :
            Settling(s) /\ Settling(u) /\ task[s].trip = task[u].trip => s = u

StartInv ==
    /\ \A t \in fares : t \in Rows /\ trips[t].started
    /\ \A s \in Slots :
        /\ task[s].pc = "complete" /\ task[s].started => trips[task[s].trip].started
        /\ task[s].pc = "price" => trips[task[s].trip].started

-----------------------------------------------------------------------------
(* The helpers keep the types.                                             *)

\* Joining a room appends it at most once.
LEMMA JoinType ==
    ASSUME NEW joined \in Seq(Riders), NEW r \in Riders
    PROVE  Join(joined, r) \in Seq(Riders)
  BY DEF Join

\* Leaving a room keeps the others.
LEMMA LeaveType ==
    ASSUME NEW joined \in Seq(Riders), NEW r \in Riders
    PROVE  Leave(joined, r) \in Seq(Riders)
<1>1. CASE \E i \in 1 .. Len(joined) : joined[i] = r
  <2> DEFINE at == CHOOSE i \in 1 .. Len(joined) : joined[i] = r
             n == Len(joined) - 1
             rest == [i \in 1 .. n |->
                        IF i < at THEN joined[i] ELSE joined[i + 1]]
  <2>1. n \in Nat
    BY <1>1
  <2>2. ASSUME NEW i \in 1 .. n
        PROVE  (IF i < at THEN joined[i] ELSE joined[i + 1]) \in Riders
    BY <2>1, i \in 1 .. Len(joined), i + 1 \in 1 .. Len(joined)
  <2>3. rest \in [1 .. n -> Riders]
    BY <2>2
  <2>4. rest \in Seq(Riders)
    BY <2>1, <2>3
  <2> QED
    BY <1>1, <2>4 DEF Leave
<1>2. CASE ~ \E i \in 1 .. Len(joined) : joined[i] = r
  BY <1>2 DEF Leave
<1> QED
  BY <1>1, <1>2

\* The first room of a socket that is in a room.
LEMMA FirstRoomType ==
    ASSUME TypeOK, NEW u \in Users, InRoom(u)
    PROVE  FirstRoom(u) \in Riders
<1>1. rooms[u] \in Seq(Riders) /\ rooms[u] # <<>>
  BY DEF TypeOK, InRoom
<1> QED
  BY <1>1 DEF FirstRoom

\* The empty slot is well typed.
LEMMA IdleType == Idle \in Task
  BY SocketBound DEF Idle, Task, Phases, Sockets

\* A handler that has read the last value of its room.
LEMMA ServingType ==
    ASSUME NEW r \in Riders, last[r] \in Candidate, NEW pc \in Phases
    PROVE  /\ Serving(r, pc) \in Task
           /\ Serving(r, pc).pc = pc
           /\ Serving(r, pc).room = r
           /\ Serving(r, pc).info = last[r]
<1>1. ASSUME NEW k \in Task
      PROVE  LET f == [k EXCEPT !.pc = pc, !.room = r, !.info = last[r]]
             IN  f \in Task /\ f.pc = pc /\ f.room = r /\ f.info = last[r]
  BY DEF Task
<1> QED
  BY <1>1, IdleType DEF Serving

\* Type correctness, taken apart into the store and the slots.
LEMMA TypeParts == RidesTypeOK <=> StoreTypeOK /\ task \in [Slots -> Task]
  BY DEF RidesTypeOK, TypeOK, StoreTypeOK

\* One slot takes a step, no trip disappears: what is left to show of Inv.
LEMMA SlotStep ==
    ASSUME Inv, NEW s \in Slots, NEW k \in Task,
           task' = [task EXCEPT ![s] = k],
           TaskOK(k, Rows'), Rows \subseteq Rows', StoreTypeOK', ConnectedOK'
    PROVE  Inv'
<1>1. task' \in [Slots -> Task] /\ task'[s] = k
  BY DEF Inv, RidesTypeOK, TypeOK
<1>2. \A u \in Slots \ {s} : task'[u] = task[u]
  BY DEF Inv, RidesTypeOK, TypeOK
<1>3. \A u \in Slots : TaskOK(task[u], Rows)
  BY DEF Inv, HandlersOK
<1>4. \A u \in Slots : TaskOK(task'[u], Rows')
  BY <1>1, <1>2, <1>3 DEF TaskOK
<1>5. RidesTypeOK'
  BY <1>1 DEF RidesTypeOK, TypeOK, StoreTypeOK
<1> QED
  BY <1>4, <1>5 DEF Inv, HandlersOK

\* No slot takes a step and no trip changes.
LEMMA StoreStep ==
    ASSUME Inv, UNCHANGED <<task, trips, connected>>, StoreTypeOK'
    PROVE  Inv'
  BY DEF Inv, RidesTypeOK, TypeOK, StoreTypeOK, HandlersOK, ConnectedOK, Rows

\* What the disconnect event leaves behind.
LEMMA DisconnectType ==
    ASSUME StoreTypeOK, NEW d \in Drivers, DisconnectRead(d)
    PROVE  pending' \in [Drivers -> [PresenceHandlers -> Presence \cup {None}]]
<1>1. ASSUME NEW p \in Presence
      PROVE  [p EXCEPT !.online = FALSE] \in Presence
  BY DEF Presence
<1>2. CASE presence[d] = None
  BY <1>2 DEF DisconnectRead, StoreTypeOK
<1>3. CASE presence[d] # None
  <2>1. presence[d] \in Presence
    BY <1>3 DEF StoreTypeOK
  <2>2. [presence[d] EXCEPT !.online = FALSE] \in Presence
    BY <1>1, <2>1
  <2> DEFINE p == [presence[d] EXCEPT !.online = FALSE]
  <2>3. pending' = [pending EXCEPT ![d]["disconnect"] = p]
    BY <1>3 DEF DisconnectRead
  <2> HIDE DEF p
  <2>4. p \in Presence
    BY <2>2 DEF p
  <2> QED
    BY <2>3, <2>4 DEF StoreTypeOK
<1> QED
  BY <1>2, <1>3

\* A socket that leaves every room.
LEMMA LeaveAllType ==
    ASSUME StoreTypeOK, NEW u \in Users
    PROVE  [rooms EXCEPT ![u] = <<>>] \in [Users -> Seq(Riders)]
  BY DEF StoreTypeOK

\* A pop, and the offer to the driver popped.
LEMMA OfferNextType ==
    ASSUME StoreTypeOK, NEW r \in Riders, NEW pool \in SUBSET Candidate,
           NEW isLive, OfferNext(r, pool, isLive)
    PROVE  /\ queue' \in [Riders -> SUBSET Candidate]
           /\ last' \in [Riders -> Candidate \cup {None}]
           /\ inbox' \in [Drivers -> SUBSET Riders]
<1>1. CASE pool = {}
  BY <1>1 DEF OfferNext, LastValue, Rest, StoreTypeOK
<1>2. CASE pool # {}
  <2>1. PICK next \in pool :
            /\ queue' = [queue EXCEPT ![r] = pool \ {next}]
            /\ last' = [last EXCEPT ![r] = next]
            /\ inbox' = IF isLive[next.driver] /\ sock[next.driver] = next.sock
                        THEN [inbox EXCEPT ![next.driver] = @ \cup {r}]
                        ELSE inbox
    BY <1>2 DEF OfferNext, LastValue, Rest
  <2>2. next \in Candidate /\ next.driver \in Drivers
    BY DEF Candidate
  <2> QED
    BY <2>1, <2>2 DEF StoreTypeOK
<1> QED
  BY <1>1, <1>2

\* The row of a ride request.
LEMMA RecordRequestType ==
    ASSUME StoreTypeOK, NEW s \in Slots, task[s] \in Task,
           task[s].room \in Riders, task[s].info \in Candidate,
           RecordRequest(s)
    PROVE  rideRequests' \in SUBSET RideRequest
  BY DEF StoreTypeOK, RecordRequest, RideRequest, Candidate, Task

\* Writing back a driver's entity.
LEMMA SnapshotType ==
    ASSUME StoreTypeOK, NEW info \in Candidate, NEW inRide \in BOOLEAN,
           WriteSnapshot(info, inRide)
    PROVE  presence' \in [Drivers -> Presence \cup {None}]
<1>1. info.driver \in Drivers /\ info.sock \in Sockets
  BY DEF Candidate
<1>2. [online |-> TRUE, in_ride |-> inRide, sock |-> info.sock, fenced |-> TRUE]
        \in Presence
  BY <1>1 DEF Presence
<1> QED
  BY <1>1, <1>2 DEF StoreTypeOK, WriteSnapshot

\* A row of trips is replaced by a row.
LEMMA RowType ==
    ASSUME StoreTypeOK, NEW t \in Rows, NEW row \in Trip,
           trips' = [trips EXCEPT ![t] = row]
    PROVE  trips' \in [Trips -> Trip \cup {None}] /\ Rows' = Rows
<1>1. t \in Trips /\ row # None /\ trips[t] # None
  BY NoneIsNoValue DEF Rows
<1>2. trips \in [Trips -> Trip \cup {None}]
  BY DEF StoreTypeOK
<1> QED
  BY <1>1, <1>2 DEF Rows

\* A row of trips gets another status.
LEMMA StatusType ==
    ASSUME StoreTypeOK, NEW t \in Rows, NEW status \in TripStatus,
           trips' = [trips EXCEPT ![t].status = status]
    PROVE  trips' \in [Trips -> Trip \cup {None}] /\ Rows' = Rows
<1> DEFINE row == [trips[t] EXCEPT !.status = status]
<1>1. t \in Trips /\ trips[t] \in Trip
  BY DEF StoreTypeOK, Rows
<1>2. row \in Trip
  BY <1>1 DEF Trip
<1>3. trips' = [trips EXCEPT ![t] = row]
  BY <1>1 DEF StoreTypeOK
<1> HIDE DEF row
<1> QED
  BY <1>2, <1>3, RowType

-----------------------------------------------------------------------------
(* Every step keeps Inv.                                                   *)

\* A presence handler, or a rider's new socket.
LEMMA PresenceInv ==
    ASSUME Inv, UNCHANGED restarts,
           \/ \E d \in Drivers : PresenceStep(d)
           \/ \E r \in Riders : RiderReconnect(r)
    PROVE  Inv'
<1> USE DEF socketVars, memoryVars, tableVars
<1>0. StoreTypeOK
  BY TypeParts DEF Inv
<1>1. ASSUME NEW d \in Drivers, Connect(d)
      PROVE  Inv'
  <2>1. sock[d] + 1 \in Sockets
    BY <1>0, <1>1, SocketBound DEF Connect, StoreTypeOK, Sockets
  <2>2. StoreTypeOK'
    BY <1>0, <1>1, <2>1 DEF Connect, StoreTypeOK, Presence, PresenceHandlers
  <2> QED
    BY <1>1, <2>2, StoreStep DEF Connect
<1>2. ASSUME NEW d \in Drivers, Disconnect(d)
      PROVE  Inv'
  <2>1. pending' \in [Drivers -> [PresenceHandlers -> Presence \cup {None}]]
    BY <1>0, <1>2, DisconnectType DEF Disconnect
  <2>2. rooms' \in [Users -> Seq(Riders)]
    BY <1>0, <1>2, LeaveAllType DEF Disconnect, Users
  <2>3. StoreTypeOK'
    BY <1>0, <1>2, <2>1, <2>2 DEF Disconnect, StoreTypeOK
  <2> QED
    BY <1>2, <2>3, StoreStep DEF Disconnect
<1>3. ASSUME NEW d \in Drivers, NEW inFence \in BOOLEAN,
             UpdateLocation(d, inFence)
      PROVE  Inv'
  <2>0. presence[d] \in Presence /\ sock[d] \in Sockets
    BY <1>0, <1>3 DEF UpdateLocation, StoreTypeOK
  <2>0a. ASSUME NEW p \in Presence, NEW n \in Sockets
         PROVE  [p EXCEPT !.sock = n, !.fenced = @ \/ inFence] \in Presence
    BY DEF Presence
  <2>1. pending' \in [Drivers -> [PresenceHandlers -> Presence \cup {None}]]
    BY <1>0, <1>3, <2>0a, <2>0 DEF UpdateLocation, StoreTypeOK
  <2>2. StoreTypeOK'
    BY <1>0, <1>3, <2>1 DEF UpdateLocation, StoreTypeOK
  <2> QED
    BY <1>3, <2>2, StoreStep DEF UpdateLocation
<1>4. ASSUME NEW d \in Drivers, NEW h \in PresenceHandlers,
             WritePresence(d, h)
      PROVE  Inv'
  <2>1. StoreTypeOK'
    BY <1>0, <1>4 DEF WritePresence, StoreTypeOK
  <2> QED
    BY <1>4, <2>1, StoreStep DEF WritePresence
<1>5. ASSUME NEW r \in Riders, RiderReconnect(r)
      PROVE  Inv'
  <2>1. StoreTypeOK'
    BY <1>0, <1>5, LeaveAllType DEF RiderReconnect, StoreTypeOK, Users
  <2> QED
    BY <1>5, <2>1, StoreStep DEF RiderReconnect
<1> QED
  BY <1>1, <1>2, <1>3, <1>4, <1>5 DEF PresenceStep

\* handleRideRequest and handleRideResponse.
LEMMA DispatchInv ==
    ASSUME Inv, NEW s \in Slots, UNCHANGED restarts,
           DispatchEvent(s) \/ DispatchStep(s)
    PROVE  Inv'
<1> USE DEF socketVars, memoryVars, tableVars
<1>0. /\ StoreTypeOK /\ task[s] \in Task /\ TaskOK(task[s], Rows) /\ ConnectedOK
      /\ Idle \in Task
  BY TypeParts, IdleType DEF Inv, HandlersOK
<1>a. TaskOK(Idle, Rows')
  BY DEF TaskOK, Idle
<1>1. ASSUME NEW r \in Riders, NEW suited \in SUBSET Drivers,
             RequestRide(s, r, suited)
      PROVE  Inv'
  <2> DEFINE found == {[driver |-> d, sock |-> presence[d].sock] :
                          d \in Eligible \cap suited}
             k == [Idle EXCEPT !.pc = "quote", !.room = r, !.candidates = found]
  <2>1. found \in SUBSET Candidate
    BY <1>0 DEF StoreTypeOK, Eligible, Presence, Candidate
  <2>2. k \in Task /\ TaskOK(k, Rows')
    BY <1>0, <2>1 DEF Idle, Task, Phases, TaskOK
  <2>3. rooms' \in [Users -> Seq(Riders)]
    BY <1>0, <1>1, JoinType DEF RequestRide, StoreTypeOK, Users
  <2>4. asked' \in [Riders -> 0 .. MaxRequests]
    BY <1>0, <1>1, RequestBound DEF RequestRide, StoreTypeOK
  <2>5. StoreTypeOK' /\ ConnectedOK' /\ Rows \subseteq Rows'
    BY <1>0, <1>1, <2>3, <2>4 DEF RequestRide, StoreTypeOK, ConnectedOK, Rows
  <2>6. task' = [task EXCEPT ![s] = k]
    BY <1>1 DEF RequestRide, Begin
  <2> QED
    BY <2>2, <2>5, <2>6, SlotStep
<1>2. ASSUME NEW d \in Drivers, NEW r \in Riders, NEW accept \in BOOLEAN,
             AnswerOffer(s, d, r, accept)
      PROVE  Inv'
  <2> DEFINE j == Serving(r, "record")
             k == [j EXCEPT !.user = d, !.sock = sock[d], !.accept = accept]
  <2>1. last[r] \in Candidate /\ sock[d] \in Sockets
    BY <1>0, <1>2 DEF AnswerOffer, StoreTypeOK
  <2>2. /\ j \in Task /\ j.pc = "record"
        /\ j.room = r /\ j.info = last[r]
    BY <2>1, ServingType DEF Phases
  <2>3. task' = [task EXCEPT ![s] = k]
    BY <1>2 DEF AnswerOffer, Begin
  <2> HIDE DEF j
  <2>2a. k \in Task
    BY <2>1, <2>2 DEF Task, Users
  <2>2b. TaskOK(k, Rows')
    BY <2>1, <2>2 DEF TaskOK, Task
  <2>4. StoreTypeOK' /\ ConnectedOK' /\ Rows \subseteq Rows'
    BY <1>0, <1>2 DEF AnswerOffer, StoreTypeOK, ConnectedOK, Rows
  <2> HIDE DEF k
  <2> QED
    BY <2>2a, <2>2b, <2>3, <2>4, SlotStep
<1>3. CASE OfferRide(s)
  <2>1. task[s].room \in Riders /\ task[s].candidates \in SUBSET Candidate
    BY <1>0, <1>3 DEF OfferRide, TaskOK, Task
  <2>2. StoreTypeOK' /\ ConnectedOK' /\ Rows \subseteq Rows'
    BY <1>0, <1>3, <2>1, OfferNextType
    DEF OfferRide, StoreTypeOK, ConnectedOK, Rows
  <2>3. task' = [task EXCEPT ![s] = Idle]
    BY <1>3 DEF OfferRide, Finish
  <2> QED
    BY <1>0, <1>a, <2>2, <2>3, SlotStep
<1>4. CASE RecordAccept(s)
  <2> DEFINE k == [task[s] EXCEPT !.pc = "create"]
  <2>1. task[s].room \in Riders /\ task[s].user \in Drivers
    BY <1>0, <1>4 DEF RecordAccept, TaskOK
  <2>2. k \in Task /\ TaskOK(k, Rows')
    BY <1>0, <1>4 DEF RecordAccept, Task, Phases, TaskOK
  <2>3. rideRequests' \in SUBSET RideRequest
    BY <1>0, <1>4, RecordRequestType DEF RecordAccept, TaskOK
  <2>4. rooms' \in [Users -> Seq(Riders)]
    BY <1>0, <1>4, <2>1, JoinType DEF RecordAccept, StoreTypeOK, Users
  <2>5. StoreTypeOK' /\ ConnectedOK' /\ Rows \subseteq Rows'
    BY <1>0, <1>4, <2>3, <2>4 DEF RecordAccept, StoreTypeOK, ConnectedOK, Rows
  <2>6. task' = [task EXCEPT ![s] = k]
    BY <1>4 DEF RecordAccept, Resume
  <2> QED
    BY <2>2, <2>5, <2>6, SlotStep
<1>5. CASE RecordReject(s)
  <2>1. task[s].room \in Riders /\ task[s].user \in Drivers
    BY <1>0, <1>5 DEF RecordReject, TaskOK
  <2>2. rideRequests' \in SUBSET RideRequest
    BY <1>0, <1>5, RecordRequestType DEF RecordReject, TaskOK
  <2>3. pending' \in [Drivers -> [PresenceHandlers -> Presence \cup {None}]]
    BY <1>0, <1>5, <2>1, DisconnectType DEF RecordReject, StoreTypeOK
  <2>4. rooms' \in [Users -> Seq(Riders)]
    BY <1>0, <1>5, <2>1, LeaveAllType, task[s].user \in Users
    DEF RecordReject, StoreTypeOK, Users
  <2>4a. live' \in [Drivers -> BOOLEAN]
    BY <1>0, <1>5, <2>1 DEF RecordReject, StoreTypeOK
  <2>5. queue[task[s].room] \in SUBSET Candidate
    BY <1>0, <2>1 DEF StoreTypeOK
  <2>6. PICK gone : OfferNext(task[s].room, queue[task[s].room], gone)
    BY <1>5 DEF RecordReject
  <2>7. /\ queue' \in [Riders -> SUBSET Candidate]
        /\ last' \in [Riders -> Candidate \cup {None}]
        /\ inbox' \in [Drivers -> SUBSET Riders]
    BY <1>0, <2>1, <2>5, <2>6, OfferNextType
  <2>8. StoreTypeOK' /\ ConnectedOK' /\ Rows \subseteq Rows'
    BY <1>0, <1>5, <2>2, <2>3, <2>4, <2>4a, <2>7
    DEF RecordReject, StoreTypeOK, ConnectedOK, Rows
  <2>9. task' = [task EXCEPT ![s] = Idle]
    BY <1>5 DEF RecordReject, Finish
  <2> QED
    BY <1>0, <1>a, <2>8, <2>9, SlotStep
<1>6. CASE CreateTrip(s)
  <2> DEFINE k == [task[s] EXCEPT !.pc = "busy"]
             row == [status |-> "unstarted", rider |-> task[s].room,
                     driver |-> task[s].info.driver, started |-> FALSE]
  <2>1. row \in Trip
    BY <1>0, <1>6 DEF CreateTrip, NewTrip, TripRoom, TaskOK, Trip, TripStatus, Candidate
  <2>2. PICK t \in Trips \ Rows :
            /\ trips' = [trips EXCEPT ![t] = row]
            /\ connected' = [connected EXCEPT ![task[s].room] = t]
    BY <1>6 DEF CreateTrip, NewTrip, TripRoom
  <2>3. Rows \subseteq Rows' /\ t \in Rows'
    BY <1>0, <2>1, <2>2, NoneIsNoValue DEF Rows, StoreTypeOK
  <2>4. ConnectedOK'
    BY <1>0, <2>2, <2>3 DEF ConnectedOK, StoreTypeOK
  <2>5. k \in Task /\ TaskOK(k, Rows')
    BY <1>0, <1>6 DEF CreateTrip, NewTrip, TripRoom, Task, Phases, TaskOK
  <2>6. StoreTypeOK'
    BY <1>0, <1>6, <2>1, <2>2 DEF CreateTrip, NewTrip, TripRoom, StoreTypeOK
  <2>7. task' = [task EXCEPT ![s] = k]
    BY <1>6 DEF CreateTrip, NewTrip, TripRoom, Resume
  <2> QED
    BY <2>3, <2>4, <2>5, <2>6, <2>7, SlotStep
<1>7. CASE MarkBusy(s)
  <2>1. presence' \in [Drivers -> Presence \cup {None}]
    BY <1>0, <1>7, SnapshotType DEF MarkBusy, TaskOK
  <2>2. StoreTypeOK' /\ ConnectedOK' /\ Rows \subseteq Rows'
    BY <1>0, <1>7, <2>1 DEF MarkBusy, StoreTypeOK, ConnectedOK, Rows
  <2>3. task' = [task EXCEPT ![s] = Idle]
    BY <1>7 DEF MarkBusy, Finish
  <2> QED
    BY <1>0, <1>a, <2>2, <2>3, SlotStep
<1> QED
  BY <1>1, <1>2, <1>3, <1>4, <1>5, <1>6, <1>7 DEF DispatchEvent, DispatchStep

\* What a start or a cancellation leaves to do is about a stored trip.
LEMMA BegunTask ==
    ASSUME NEW pc \in {"start", "cancel"}, NEW t \in Rows, Rows \subseteq Trips
    PROVE  LET k == [Idle EXCEPT !.pc = pc, !.trip = t]
           IN  k \in Task /\ TaskOK(k, Rows)
<1> DEFINE k == [Idle EXCEPT !.pc = pc, !.trip = t]
<1>1. Idle \in Task /\ pc \in Phases /\ t \in Trips
  BY IdleType DEF Phases
<1>2. k \in Task
  BY <1>1 DEF Task
<1>3. k.pc = pc /\ k.trip = t
  BY DEF Idle
<1> HIDE DEF k
<1>4. TaskOK(k, Rows)
  BY <1>3 DEF TaskOK
<1> QED BY <1>2, <1>4 DEF k

\* handleTripStart, handleCancelRide and handleTripEnd.
LEMMA TripInv ==
    ASSUME Inv, NEW s \in Slots, UNCHANGED <<asked, restarts>>,
           TripEvent(s) \/ TripStep(s)
    PROVE  Inv'
<1> USE DEF socketVars, memoryVars, tableVars
<1>0. /\ StoreTypeOK /\ task[s] \in Task /\ TaskOK(task[s], Rows) /\ ConnectedOK
      /\ TypeOK /\ Idle \in Task /\ Rows \subseteq Trips
  BY TypeParts, IdleType DEF Inv, HandlersOK, RidesTypeOK, Rows
<1>a. TaskOK(Idle, Rows')
  BY DEF TaskOK, Idle
<1>b. ASSUME NEW u \in Users, InRoom(u)
      PROVE  Lookup(FirstRoom(u)) \subseteq Rows
  BY <1>0, <1>b, FirstRoomType DEF Lookup, ConnectedOK
<1>1. ASSUME NEW u \in Users, StartTrip(s, u)
      PROVE  Inv'
  <2> DEFINE k == [Idle EXCEPT !.pc = "start", !.trip = connected[FirstRoom(u)]]
  <2>1. connected[FirstRoom(u)] \in Rows
    BY <1>0, <1>1, FirstRoomType DEF StartTrip, ConnectedOK
  <2>2. k \in Task /\ TaskOK(k, Rows)
    BY <1>0, <2>1, BegunTask
  <2>3. StoreTypeOK' /\ ConnectedOK' /\ Rows = Rows'
    BY <1>0, <1>1 DEF StartTrip, StoreTypeOK, ConnectedOK, Rows
  <2>4. task' = [task EXCEPT ![s] = k]
    BY <1>1 DEF StartTrip, Begin
  <2> HIDE DEF k
  <2> QED
    BY <2>2, <2>3, <2>4, SlotStep
<1>2. ASSUME NEW u \in Users, CancelTrip(s, u)
      PROVE  Inv'
  <2>1. PICK t \in Lookup(FirstRoom(u)) :
            task' = [task EXCEPT ![s] = [Idle EXCEPT !.pc = "cancel", !.trip = t]]
    BY <1>2 DEF CancelTrip, Unstarted, Begin
  <2> DEFINE k == [Idle EXCEPT !.pc = "cancel", !.trip = t]
  <2>2. t \in Rows
    BY <1>b, <1>2 DEF CancelTrip, Unstarted
  <2>3. k \in Task /\ TaskOK(k, Rows)
    BY <1>0, <2>2, BegunTask
  <2>4. StoreTypeOK' /\ ConnectedOK' /\ Rows = Rows'
    BY <1>0, <1>2 DEF CancelTrip, Unstarted, StoreTypeOK, ConnectedOK, Rows
  <2>5. task' = [task EXCEPT ![s] = k]
    BY <2>1
  <2> HIDE DEF k
  <2> QED
    BY <2>3, <2>4, <2>5, SlotStep
<1>3. ASSUME NEW u \in Users, EndTrip(s, u)
      PROVE  Inv'
  <2> DEFINE j == Serving(FirstRoom(u), "complete")
  <2>1. PICK t \in Lookup(FirstRoom(u)) :
            task' = [task EXCEPT ![s] =
                        [j EXCEPT !.trip = t, !.started = trips[t].started]]
    BY <1>3 DEF EndTrip, Begin
  <2>2. FirstRoom(u) \in Riders /\ last[FirstRoom(u)] \in Candidate
    BY <1>0, <1>3, FirstRoomType DEF EndTrip, StoreTypeOK
  <2>3. /\ j \in Task /\ j.pc = "complete"
        /\ j.room \in Riders /\ j.info \in Candidate
    BY <2>2, ServingType DEF Phases
  <2>4. t \in Rows /\ trips[t].started \in BOOLEAN
    BY <1>b, <1>0, <1>3 DEF EndTrip, Rows, StoreTypeOK, Trip
  <2> DEFINE k == [j EXCEPT !.trip = t, !.started = trips[t].started]
  <2>5. task' = [task EXCEPT ![s] = k]
    BY <2>1
  <2> HIDE DEF j
  <2>6. k \in Task /\ TaskOK(k, Rows)
    BY <1>0, <2>3, <2>4 DEF Task, TaskOK
  <2>7. StoreTypeOK' /\ ConnectedOK' /\ Rows = Rows'
    BY <1>0, <1>3 DEF EndTrip, StoreTypeOK, ConnectedOK, Rows
  <2> HIDE DEF k
  <2> QED
    BY <2>5, <2>6, <2>7, SlotStep
<1>4. CASE WriteStart(s)
  <2>1. task[s].trip \in Rows /\ task[s].trip \in Trips
    BY <1>0, <1>4 DEF WriteStart, TaskOK
  <2>2. trips[task[s].trip] \in Trip
    BY <1>0, <2>1 DEF StoreTypeOK, Rows
  <2>3. ASSUME NEW row \in Trip
        PROVE  [row EXCEPT !.status = "ongoing", !.started = TRUE] \in Trip
    BY DEF Trip, TripStatus
  <2> DEFINE new == [trips[task[s].trip] EXCEPT !.status = "ongoing",
                                                !.started = TRUE]
  <2>4. trips' = [trips EXCEPT ![task[s].trip] = new]
    BY <1>4, <1>0, <2>1 DEF WriteStart, StoreTypeOK
  <2>5. new \in Trip
    BY <2>2, <2>3
  <2> HIDE DEF new
  <2>5a. trips' \in [Trips -> Trip \cup {None}] /\ Rows' = Rows
    BY <1>0, <2>1, <2>4, <2>5, RowType
  <2>6. StoreTypeOK' /\ ConnectedOK'
    BY <1>0, <1>4, <2>5a DEF WriteStart, StoreTypeOK, ConnectedOK
  <2>7. task' = [task EXCEPT ![s] = Idle]
    BY <1>4 DEF WriteStart, Finish
  <2> QED
    BY <1>0, <1>a, <2>5a, <2>6, <2>7, SlotStep
<1>5. CASE WriteCancel(s)
  <2>1. task[s].trip \in Rows /\ task[s].trip \in Trips
    BY <1>0, <1>5 DEF WriteCancel, TaskOK
  <2>2. trips' = [trips EXCEPT ![task[s].trip].status = "cancelled"]
    BY <1>5 DEF WriteCancel
  <2>3. trips' \in [Trips -> Trip \cup {None}] /\ Rows' = Rows
    BY <1>0, <2>1, <2>2, StatusType DEF TripStatus
  <2>3a. StoreTypeOK' /\ ConnectedOK'
    BY <1>0, <1>5, <2>3 DEF WriteCancel, StoreTypeOK, ConnectedOK
  <2>4. task' = [task EXCEPT ![s] = Idle]
    BY <1>5 DEF WriteCancel, Finish
  <2> QED
    BY <1>0, <1>a, <2>3, <2>3a, <2>4, SlotStep
<1>6. CASE CompleteTrip(s)
  <2>1. task[s].trip \in Rows
    BY <1>0, <1>6 DEF CompleteTrip, HasDuration, TaskOK
  <2>2. CASE task[s].started
    <3> DEFINE k == [task[s] EXCEPT !.pc = "price", !.started = FALSE]
    <3>1. trips' = [trips EXCEPT ![task[s].trip].status = "completed"]
      BY <1>6, <2>2 DEF CompleteTrip, HasDuration
    <3>2. trips' \in [Trips -> Trip \cup {None}] /\ Rows' = Rows
      BY <1>0, <2>1, <3>1, StatusType DEF TripStatus
    <3>3. StoreTypeOK' /\ ConnectedOK'
      BY <1>0, <1>6, <3>2 DEF CompleteTrip, HasDuration, StoreTypeOK, ConnectedOK
    <3>4. k \in Task /\ TaskOK(k, Rows')
      BY <1>0, <1>6, <3>2 DEF CompleteTrip, HasDuration, Task, Phases, TaskOK
    <3>5. task' = [task EXCEPT ![s] = k]
      BY <1>6, <2>2, TypeParts DEF CompleteTrip, HasDuration, Inv
    <3> HIDE DEF k
    <3> QED
      BY <3>2, <3>3, <3>4, <3>5, SlotStep
  <2>3. CASE ~task[s].started
    <3>1. StoreTypeOK' /\ ConnectedOK' /\ Rows' = Rows
      BY <1>0, <1>6, <2>3 DEF CompleteTrip, HasDuration, StoreTypeOK, ConnectedOK, Rows
    <3>2. task' = [task EXCEPT ![s] = Idle]
      BY <1>6, <2>3 DEF CompleteTrip, HasDuration, Finish
    <3> QED
      BY <1>0, <1>a, <3>1, <3>2, SlotStep
  <2> QED
    BY <2>2, <2>3
<1>7. CASE PriceTrip(s)
  <2>1. fares' \in SUBSET Trips
    BY <1>0, <1>7 DEF PriceTrip, AlreadyPriced, TaskOK, StoreTypeOK
  <2>2. StoreTypeOK' /\ ConnectedOK' /\ Rows' = Rows
    BY <1>0, <1>7, <2>1 DEF PriceTrip, AlreadyPriced, StoreTypeOK, ConnectedOK, Rows
  <2> DEFINE k == [task[s] EXCEPT !.pc = "readBalance"]
  <2>3. k \in Task /\ TaskOK(k, Rows')
    BY <1>0, <1>7, <2>2 DEF PriceTrip, AlreadyPriced, Task, Phases, TaskOK
  <2>4. task' = [task EXCEPT ![s] = Idle] \/ task' = [task EXCEPT ![s] = k]
    BY <1>7 DEF PriceTrip, AlreadyPriced, Finish, Resume
  <2> HIDE DEF k
  <2> QED
    BY <1>0, <1>a, <2>2, <2>3, <2>4, SlotStep
<1>8. CASE ReadBalance(s)
  <2> DEFINE k == [task[s] EXCEPT !.pc = "writeBalance",
                                  !.base = balance[task[s].info.driver]]
  <2>1. balance[task[s].info.driver] \in Balance
    BY <1>0, <1>8 DEF ReadBalance, TaskOK, StoreTypeOK, Candidate
  <2>2. StoreTypeOK' /\ ConnectedOK' /\ Rows' = Rows
    BY <1>0, <1>8 DEF ReadBalance, StoreTypeOK, ConnectedOK, Rows
  <2>3. k \in Task /\ TaskOK(k, Rows')
    BY <1>0, <1>8, <2>1, <2>2 DEF ReadBalance, Task, Phases, TaskOK
  <2>4. task' = [task EXCEPT ![s] = k]
    BY <1>8, TypeParts DEF ReadBalance, Inv
  <2> HIDE DEF k
  <2> QED
    BY <2>2, <2>3, <2>4, SlotStep
<1>9. CASE WriteBalance(s)
  <2> DEFINE k == [task[s] EXCEPT !.pc = "release", !.base = None]
             b == [task[s].base EXCEPT ![task[s].trip] = @ + 1]
  <2>1. b \in Balance
    BY <1>0, <1>9 DEF WriteBalance, NewBalance, TaskOK, Balance
  <2>2. balance' = [balance EXCEPT ![task[s].info.driver] = b]
    BY <1>9 DEF WriteBalance, NewBalance
  <2>3. task' = [task EXCEPT ![s] = k]
    BY <1>9, TypeParts DEF WriteBalance, NewBalance, Inv
  <2>4. k \in Task /\ TaskOK(k, Rows)
    BY <1>0, <1>9 DEF WriteBalance, NewBalance, Task, Phases, TaskOK
  <2> HIDE DEF b, k
  <2>5. balance' \in [Drivers -> Balance]
    BY <1>0, <2>1, <2>2 DEF StoreTypeOK
  <2>6. StoreTypeOK' /\ ConnectedOK' /\ Rows' = Rows
    BY <1>0, <1>9, <2>5 DEF WriteBalance, NewBalance, StoreTypeOK, ConnectedOK, Rows
  <2> QED
    BY <2>3, <2>4, <2>6, SlotStep
<1>10. CASE ReleaseDriver(s)
  <2>1. task[s].room \in Riders /\ task[s].info \in Candidate
    BY <1>0, <1>10 DEF ReleaseDriver, TaskOK
  <2>2. presence' \in [Drivers -> Presence \cup {None}]
    BY <1>0, <1>10, <2>1, SnapshotType DEF ReleaseDriver
  <2>3. ASSUME NEW u \in Users
        PROVE  Leave(rooms[u], task[s].room) \in Seq(Riders)
    BY <1>0, <2>1, LeaveType DEF StoreTypeOK
  <2>4. rooms' \in [Users -> Seq(Riders)]
    BY <1>10, <2>3 DEF ReleaseDriver
  <2>5. StoreTypeOK' /\ ConnectedOK' /\ Rows' = Rows
    BY <1>0, <1>10, <2>2, <2>4 DEF ReleaseDriver, StoreTypeOK, ConnectedOK, Rows
  <2>6. task' = [task EXCEPT ![s] = Idle]
    BY <1>10 DEF ReleaseDriver, Finish
  <2> QED
    BY <1>0, <1>a, <2>5, <2>6, SlotStep
<1> QED
  BY <1>1, <1>2, <1>3, <1>4, <1>5, <1>6, <1>7, <1>8, <1>9, <1>10
  DEF TripEvent, TripStep

\* An await that throws.
LEMMA FailInv ==
    ASSUME Inv, NEW s \in Slots, Fail(s)
    PROVE  Inv'
<1>1. StoreTypeOK /\ ConnectedOK /\ Idle \in Task
  BY TypeParts, IdleType DEF Inv
<1>2. StoreTypeOK' /\ ConnectedOK' /\ Rows' = Rows
  BY <1>1 DEF Fail, StoreTypeOK, ConnectedOK, Rows, socketVars, memoryVars,
              tableVars
<1>3. task' = [task EXCEPT ![s] = Idle] /\ TaskOK(Idle, Rows')
  BY DEF Fail, Finish, TaskOK, Idle
<1> QED
  BY <1>1, <1>2, <1>3, SlotStep

\* A restart of the process.
LEMMA RestartInv ==
    ASSUME Inv, Restart
    PROVE  Inv'
<1>1. StoreTypeOK /\ Idle \in Task
  BY TypeParts, IdleType DEF Inv
<1>2. StoreTypeOK'
  BY <1>1, RestartBound DEF Restart, StoreTypeOK, tableVars
<1>3. task' \in [Slots -> Task] /\ HandlersOK' /\ ConnectedOK'
  BY <1>1 DEF Restart, HandlersOK, TaskOK, Idle, ConnectedOK
<1> QED
  BY <1>2, <1>3 DEF Inv, RidesTypeOK, TypeOK, StoreTypeOK

\* The initial state.
LEMMA InitInv == Init => Inv
<1> SUFFICES ASSUME Init PROVE Inv
  OBVIOUS
<1> USE DEF Init, DispatchInit, StoreInit
<1>1. StoreTypeOK
  BY SocketBound, RequestBound, RestartBound
  DEF StoreTypeOK, Sockets, Balance
<1>2. task \in [Slots -> Task] /\ HandlersOK /\ ConnectedOK
  BY IdleType DEF HandlersOK, TaskOK, Idle, ConnectedOK
<1> QED
  BY <1>1, <1>2, TypeParts DEF Inv

\* Every step, and stuttering.
LEMMA NextInv == Inv /\ [Next]_allVars => Inv'
<1> SUFFICES ASSUME Inv, [Next]_allVars PROVE Inv'
  OBVIOUS
<1>1. CASE DispatchNext /\ UNCHANGED restarts
  BY <1>1, PresenceInv, DispatchInv DEF DispatchNext
<1>2. ASSUME NEW s \in Slots, TripEvent(s) \/ TripStep(s),
             UNCHANGED <<asked, restarts>>
      PROVE  Inv'
  BY <1>2, TripInv
<1>3. ASSUME NEW s \in Slots, Fail(s)
      PROVE  Inv'
  BY <1>3, FailInv
<1>4. CASE Restart
  BY <1>4, RestartInv
<1>5. CASE UNCHANGED allVars
  <2>1. StoreTypeOK'
    BY <1>5, TypeParts DEF Inv, allVars, vars, StoreTypeOK
  <2> QED
    BY <1>5, <2>1, StoreStep DEF allVars, vars
<1> QED
  BY <1>1, <1>2, <1>3, <1>4, <1>5 DEF Next

\* What every handler in flight holds is what its next step uses.
LEMMA InvHolds == Spec => []Inv
  BY InitInv, NextInv, PTL DEF Spec

\* The store, the slots and the counters keep their types, whatever the apps
\* send, whichever awaits fail and however often the process restarts.
THEOREM TypeCorrect == Spec => []RidesTypeOK
<1>1. Inv => RidesTypeOK
  BY DEF Inv
<1> QED
  BY <1>1, InvHolds, PTL

-----------------------------------------------------------------------------
(* What the steps before handleTripEnd leave alone.                        *)

RowsKept == \A t \in Rows : t \in Rows' /\ trips'[t] = trips[t]

\* Dispatch neither prices nor settles, and leaves the trips there are alone.
LEMMA DispatchQuiet ==
    ASSUME Inv, NEW s \in Slots, DispatchEvent(s) \/ DispatchStep(s)
    PROVE  /\ UNCHANGED <<fares, balance>> /\ RowsKept
           /\ \E k : /\ task' = [task EXCEPT ![s] = k]
                    /\ k.pc \in {"idle", "quote", "record", "create", "busy"}
<1> USE DEF tableVars
<1>0. /\ task[s] \in Task /\ TaskOK(task[s], Rows) /\ Idle.pc = "idle"
      /\ StoreTypeOK
  BY TypeParts DEF Inv, HandlersOK, Idle
<1>1. ASSUME NEW r \in Riders, NEW suited \in SUBSET Drivers,
             RequestRide(s, r, suited)
      PROVE  /\ UNCHANGED <<trips, fares, balance>>
             /\ \E k : task' = [task EXCEPT ![s] = k] /\ k.pc = "quote"
  <2> DEFINE k == [Idle EXCEPT !.pc = "quote", !.room = r,
                        !.candidates = {[driver |-> d, sock |-> presence[d].sock] :
                                           d \in Eligible \cap suited}]
  <2>1. task' = [task EXCEPT ![s] = k]
    BY <1>1 DEF RequestRide, Begin
  <2>2. k.pc = "quote"
    BY DEF Idle
  <2> HIDE DEF k
  <2> QED
    BY <1>1, <2>1, <2>2 DEF RequestRide
<1>2. ASSUME NEW d \in Drivers, NEW r \in Riders, NEW accept \in BOOLEAN,
             AnswerOffer(s, d, r, accept)
      PROVE  /\ UNCHANGED <<trips, fares, balance>>
             /\ \E k : task' = [task EXCEPT ![s] = k] /\ k.pc = "record"
  <2> DEFINE j == Serving(r, "record")
             k == [j EXCEPT !.user = d, !.sock = sock[d], !.accept = accept]
  <2>1. task' = [task EXCEPT ![s] = k]
    BY <1>2 DEF AnswerOffer, Begin
  <2>2. last[r] \in Candidate
    BY <1>0, <1>2 DEF AnswerOffer, StoreTypeOK
  <2>3. j \in Task /\ j.pc = "record"
    BY <2>2, ServingType DEF Phases
  <2> HIDE DEF j
  <2>4. k.pc = "record"
    BY <2>3 DEF Task
  <2> HIDE DEF k
  <2> QED
    BY <1>2, <2>1, <2>4 DEF AnswerOffer
<1>3. CASE OfferRide(s) \/ RecordReject(s) \/ MarkBusy(s)
  BY <1>0, <1>3 DEF OfferRide, RecordReject, MarkBusy, Finish, RowsKept, Rows
<1>4. CASE RecordAccept(s)
  <2> DEFINE k == [task[s] EXCEPT !.pc = "create"]
  <2>1. task' = [task EXCEPT ![s] = k] /\ k.pc = "create"
    BY <1>0, <1>4 DEF RecordAccept, Resume, Task
  <2> HIDE DEF k
  <2> QED
    BY <1>4, <2>1 DEF RecordAccept, RowsKept, Rows
<1>5. CASE CreateTrip(s)
  <2> DEFINE k == [task[s] EXCEPT !.pc = "busy"]
  <2>1. task' = [task EXCEPT ![s] = k] /\ k.pc = "busy"
    BY <1>0, <1>5 DEF CreateTrip, NewTrip, TripRoom, Resume, Task
  <2> HIDE DEF k
  <2>2. PICK t \in Trips \ Rows : trips' = [trips EXCEPT ![t] = NewTrip(s)]
    BY <1>5 DEF CreateTrip, NewTrip, TripRoom
  <2>3. RowsKept
    BY <1>0, <2>2 DEF RowsKept, Rows, StoreTypeOK
  <2> QED
    BY <1>5, <2>1, <2>3 DEF CreateTrip, NewTrip, TripRoom
<1> QED
  BY <1>1, <1>2, <1>3, <1>4, <1>5
  DEF DispatchEvent, DispatchStep, RowsKept, Rows

\* Presence neither prices nor settles.
LEMMA PresenceQuiet ==
    ASSUME \/ \E d \in Drivers : PresenceStep(d)
           \/ \E r \in Riders : RiderReconnect(r)
    PROVE  UNCHANGED <<trips, fares, balance, task>>
  BY DEF PresenceStep, Connect, Disconnect, UpdateLocation, WritePresence,
         RiderReconnect, tableVars

\* A handler that believes in a start_date is right.
StartSeen(k) == k.pc = "complete" /\ k.started => trips[k.trip].started

\* The events of a trip only read, and handleTripEnd keeps what it has read of
\* start_date.
LEMMA EventQuiet ==
    ASSUME Inv, NEW s \in Slots, TripEvent(s)
    PROVE  /\ UNCHANGED <<trips, fares, balance>>
           /\ \E k : /\ task' = [task EXCEPT ![s] = k]
                    /\ k.pc \in {"start", "cancel", "complete"}
                    /\ StartSeen(k)
<1> USE DEF tableVars
<1>0. StoreTypeOK /\ TypeOK /\ ConnectedOK
  BY TypeParts DEF Inv, RidesTypeOK
<1>1. ASSUME NEW u \in Users, StartTrip(s, u)
      PROVE  \E k : task' = [task EXCEPT ![s] = k] /\ k.pc = "start"
  <2> DEFINE k == [Idle EXCEPT !.pc = "start", !.trip = connected[FirstRoom(u)]]
  <2>1. task' = [task EXCEPT ![s] = k]
    BY <1>1 DEF StartTrip, Begin
  <2>2. k.pc = "start"
    BY DEF Idle
  <2> HIDE DEF k
  <2> QED
    BY <2>1, <2>2
<1>2. ASSUME NEW u \in Users, CancelTrip(s, u)
      PROVE  \E k : task' = [task EXCEPT ![s] = k] /\ k.pc = "cancel"
  <2>1. PICK t : task' = [task EXCEPT ![s] = [Idle EXCEPT !.pc = "cancel",
                                                         !.trip = t]]
    BY <1>2 DEF CancelTrip, Unstarted, Begin
  <2> DEFINE k == [Idle EXCEPT !.pc = "cancel", !.trip = t]
  <2>2. task' = [task EXCEPT ![s] = k]
    BY <2>1
  <2>3. k.pc = "cancel"
    BY DEF Idle
  <2> HIDE DEF k
  <2> QED
    BY <2>2, <2>3
<1>3. ASSUME NEW u \in Users, EndTrip(s, u)
      PROVE  \E k : /\ task' = [task EXCEPT ![s] = k]
                    /\ k.pc = "complete"
                    /\ k.started => trips[k.trip].started
  <2> DEFINE j == Serving(FirstRoom(u), "complete")
  <2>1. PICK t \in Lookup(FirstRoom(u)) :
            task' = [task EXCEPT ![s] =
                        [j EXCEPT !.trip = t, !.started = trips[t].started]]
    BY <1>3 DEF EndTrip, Begin
  <2> DEFINE k == [j EXCEPT !.trip = t, !.started = trips[t].started]
  <2>2. task' = [task EXCEPT ![s] = k]
    BY <2>1
  <2>3. FirstRoom(u) \in Riders /\ last[FirstRoom(u)] \in Candidate
    BY <1>0, <1>3, FirstRoomType DEF EndTrip, StoreTypeOK
  <2>4. j \in Task /\ j.pc = "complete"
    BY <2>3, ServingType DEF Phases
  <2> HIDE DEF j
  <2>5. k.pc = "complete" /\ k.trip = t /\ k.started = trips[t].started
    BY <2>4 DEF Task
  <2> HIDE DEF k
  <2> QED
    BY <2>2, <2>5
<1>4. UNCHANGED <<trips, fares, balance>>
  BY DEF TripEvent, StartTrip, CancelTrip, EndTrip
<1> QED
  BY <1>1, <1>2, <1>3, <1>4 DEF TripEvent, StartSeen

-----------------------------------------------------------------------------
(* The ledger: the commission of a trip is credited at most once.          *)

\* A step of a slot that does not settle after it, and that writes neither a
\* fare nor a balance.
LEMMA LedgerQuiet ==
    ASSUME Inv, LedgerInv, NEW s \in Slots, NEW k,
           task' = [task EXCEPT ![s] = k], UNCHANGED <<fares, balance>>,
           k.pc \notin {"readBalance", "writeBalance"}
    PROVE  LedgerInv'
<1>1. task'[s] = k /\ \A u \in Slots \ {s} : task'[u] = task[u]
  BY TypeParts DEF Inv
<1>2. \A u \in Slots : u # s \/ ~(task'[u].pc \in {"readBalance", "writeBalance"})
  BY <1>1
<1>3. \A d \in Drivers, t \in Trips : Holds(d, t)' => Holds(d, t)
  BY <1>1, <1>2 DEF Holds
<1>4. \A u \in Slots : Settling(u)' => Settling(u) /\ task'[u] = task[u]
  BY <1>1, <1>2 DEF Settling
<1>5. \A u \in Slots : task'[u].pc = "writeBalance" => task'[u] = task[u]
  BY <1>1, <1>2
<1>6. /\ \A t \in Trips : \A d, e \in Drivers :
                Holds(d, t)' /\ Holds(e, t)' => d = e
      /\ \A t \in Trips : \A d \in Drivers : Holds(d, t)' => t \in fares
  BY <1>3 DEF LedgerInv
<1>7. \A u \in Slots : Settling(u) => task[u].trip \in Trips
  BY DEF Inv, HandlersOK, TaskOK, Settling, Rows
<1>8. \A u \in Slots : Settling(u)' =>
            /\ task'[u].trip \in fares
            /\ \A d \in Drivers : ~Holds(d, task[u].trip)'
  BY <1>3, <1>4, <1>7 DEF LedgerInv
<1>9. \A u, v \in Slots :
            Settling(u)' /\ Settling(v)' /\ task'[u].trip = task'[v].trip => u = v
  BY <1>4 DEF LedgerInv
<1> QED
  BY <1>5, <1>6, <1>8, <1>9 DEF LedgerInv

\* The fare is inserted: nothing was credited for the trip before.
LEMMA LedgerPrice ==
    ASSUME Inv, LedgerInv, NEW s \in Slots, PriceTrip(s)
    PROVE  LedgerInv'
<1>0. /\ task[s] \in Task /\ task[s].trip \in Trips /\ task[s].pc = "price"
      /\ task \in [Slots -> Task]
  BY TypeParts DEF Inv, HandlersOK, TaskOK, PriceTrip, Rows
<1>1. CASE task[s].trip \in fares
  <2>1. fares' = fares /\ task' = [task EXCEPT ![s] = Idle] /\ balance' = balance
    BY <1>1 DEF PriceTrip, AlreadyPriced, Finish
  <2> QED
    BY <2>1, LedgerQuiet DEF Idle
<1>2. CASE task[s].trip \notin fares
  <2> DEFINE k == [task[s] EXCEPT !.pc = "readBalance"]
  <2>1. task' = [task EXCEPT ![s] = k] /\ balance' = balance
    BY <1>2 DEF PriceTrip, AlreadyPriced, Resume
  <2>a. PICK t \in Trips : t = task[s].trip
    BY <1>0
  <2>2. k.pc = "readBalance" /\ k.trip = t
    BY <1>0, <2>a DEF Task
  <2> HIDE DEF k
  <2>3. task'[s] = k /\ \A u \in Slots \ {s} : task'[u] = task[u]
    BY <1>0, <2>1
  <2>4. \A d \in Drivers, x \in Trips : Holds(d, x)' => Holds(d, x)
    BY <2>1, <2>2, <2>3 DEF Holds
  <2>5. fares' = fares \cup {t}
    BY <2>a DEF PriceTrip, AlreadyPriced
  <2>6. \A d \in Drivers : ~Holds(d, t)'
    BY <1>2, <2>a, <2>4 DEF LedgerInv
  <2>7. \A u \in Slots \ {s} : Settling(u)' =>
            Settling(u) /\ task'[u] = task[u] /\ task[u].trip \in fares
                        /\ task[u].trip \in Trips
    BY <2>3 DEF Settling, LedgerInv, Inv, HandlersOK, TaskOK, Rows
  <2>8. \A u \in Slots : Settling(u)' =>
            /\ task'[u].trip \in fares'
            /\ \A d \in Drivers : ~Holds(d, task[u].trip)'
    BY <2>2, <2>3, <2>4, <2>5, <2>6, <2>7 DEF LedgerInv
  <2>9. \A u, v \in Slots :
            Settling(u)' /\ Settling(v)' /\ task'[u].trip = task'[v].trip => u = v
    BY <1>2, <2>a, <2>2, <2>3, <2>7 DEF LedgerInv
  <2>10. \A u \in Slots : task'[u].pc = "writeBalance" => task'[u] = task[u]
    BY <2>2, <2>3
  <2> QED
    BY <2>1, <2>4, <2>5, <2>8, <2>9, <2>10 DEF LedgerInv
<1> QED
  BY <1>1, <1>2

\* The balance is read: the copy holds what the balance holds.
LEMMA LedgerRead ==
    ASSUME Inv, LedgerInv, NEW s \in Slots, ReadBalance(s)
    PROVE  LedgerInv'
<1> DEFINE k == [task[s] EXCEPT !.pc = "writeBalance",
                                !.base = balance[task[s].info.driver]]
<1>0. /\ task \in [Slots -> Task] /\ task[s] \in Task
      /\ task[s].pc = "readBalance"
      /\ task[s].trip \in Trips /\ task[s].info.driver \in Drivers
      /\ balance \in [Drivers -> Balance]
  BY TypeParts
  DEF Inv, HandlersOK, TaskOK, ReadBalance, Rows, Candidate, StoreTypeOK
<1>1. PICK d \in Drivers, b \in Balance : d = task[s].info.driver /\ b = balance[d]
  BY <1>0
<1>2. task' = [task EXCEPT ![s] = k] /\ fares' = fares /\ balance' = balance
  BY <1>0 DEF ReadBalance, tableVars
<1>3. /\ k.pc = "writeBalance" /\ k.base = b
      /\ k.info = task[s].info /\ k.trip = task[s].trip
  BY <1>0, <1>1 DEF Task
<1> HIDE DEF k
<1>4. task'[s] = k /\ \A u \in Slots \ {s} : task'[u] = task[u]
  BY <1>0, <1>2
<1>5. \A e \in Drivers, t \in Trips : Holds(e, t)' => Holds(e, t)
  BY <1>1, <1>2, <1>3, <1>4 DEF Holds
<1>6. \A u \in Slots : Settling(u)' =>
            /\ Settling(u) /\ task'[u].trip = task[u].trip
            /\ task[u].trip \in Trips
  BY <1>0, <1>3, <1>4 DEF Settling, Inv, HandlersOK, TaskOK, Rows
<1>7. \A u \in Slots : Settling(u)' =>
            /\ task'[u].trip \in fares
            /\ \A e \in Drivers : ~Holds(e, task[u].trip)'
  BY <1>5, <1>6 DEF LedgerInv
<1>8. \A u \in Slots : task'[u].pc = "writeBalance" =>
            \A t \in Trips : task'[u].base[t] <= 1
  BY <1>1, <1>3, <1>4 DEF LedgerInv
<1>9. /\ \A t \in Trips : \A e, f \in Drivers :
                Holds(e, t)' /\ Holds(f, t)' => e = f
      /\ \A t \in Trips : \A e \in Drivers : Holds(e, t)' => t \in fares
  BY <1>5 DEF LedgerInv
<1>10. \A u, v \in Slots :
            Settling(u)' /\ Settling(v)' /\ task'[u].trip = task'[v].trip => u = v
  BY <1>6 DEF LedgerInv
<1> QED
  BY <1>2, <1>7, <1>8, <1>9, <1>10 DEF LedgerInv

\* The balance is written: every copy lacked the commission, so the balance
\* gains it once, and no other driver has it.
LEMMA LedgerWrite ==
    ASSUME Inv, LedgerInv, NEW s \in Slots, WriteBalance(s)
    PROVE  LedgerInv'
<1> DEFINE k == [task[s] EXCEPT !.pc = "release", !.base = None]
<1>0. /\ task \in [Slots -> Task] /\ task[s] \in Task
      /\ task[s].pc = "writeBalance" /\ task[s].base \in Balance
      /\ task[s].trip \in Trips /\ task[s].info.driver \in Drivers
      /\ balance \in [Drivers -> Balance]
  BY TypeParts
  DEF Inv, HandlersOK, TaskOK, WriteBalance, Rows, Candidate, StoreTypeOK
<1>1. PICK d \in Drivers, t \in Trips, b \in Balance :
          d = task[s].info.driver /\ t = task[s].trip /\ b = task[s].base
  BY <1>0
<1>2. /\ task' = [task EXCEPT ![s] = k] /\ fares' = fares
      /\ balance' = [balance EXCEPT ![d] = [b EXCEPT ![t] = @ + 1]]
  BY <1>0, <1>1 DEF WriteBalance, NewBalance, tableVars
<1>3. k.pc = "release"
  BY <1>0 DEF Task
<1> HIDE DEF k
<1>4. task'[s] = k /\ \A u \in Slots \ {s} : task'[u] = task[u]
  BY <1>0, <1>2
<1>5. /\ t \in fares
      /\ \A e \in Drivers : ~Holds(e, t)
      /\ \A x \in Trips : b[x] <= 1
  BY <1>0, <1>1 DEF LedgerInv, Settling
<1>6. b[t] = 0 /\ \A x \in Trips : b[x] # 0 => Holds(d, x)
  BY <1>0, <1>1, <1>5 DEF Holds
<1>7. \A e \in Drivers, x \in Trips :
          balance'[e][x] = IF e = d THEN IF x = t THEN 1 ELSE b[x]
                                    ELSE balance[e][x]
  BY <1>0, <1>2, <1>6 DEF Balance
<1>8. \A e \in Drivers, x \in Trips :
          Holds(e, x)' => Holds(e, x) \/ (e = d /\ x = t)
  BY <1>3, <1>4, <1>6, <1>7 DEF Holds
<1>9. \A u \in Slots : Settling(u)' =>
            /\ Settling(u) /\ task'[u].trip = task[u].trip
            /\ task[u].trip \in Trips /\ task[u].trip # t
  BY <1>0, <1>1, <1>3, <1>4
  DEF Settling, Inv, HandlersOK, TaskOK, Rows, LedgerInv
<1>10. \A u \in Slots : Settling(u)' =>
            /\ task'[u].trip \in fares
            /\ \A e \in Drivers : ~Holds(e, task[u].trip)'
  BY <1>8, <1>9 DEF LedgerInv
<1>11. \A u \in Slots : task'[u].pc = "writeBalance" =>
            \A x \in Trips : task'[u].base[x] <= 1
  BY <1>3, <1>4 DEF LedgerInv
<1>12. /\ \A x \in Trips : \A e, f \in Drivers :
                Holds(e, x)' /\ Holds(f, x)' => e = f
       /\ \A x \in Trips : \A e \in Drivers : Holds(e, x)' => x \in fares
  BY <1>5, <1>8 DEF LedgerInv
<1>13. \A u, v \in Slots :
            Settling(u)' /\ Settling(v)' /\ task'[u].trip = task'[v].trip => u = v
  BY <1>9 DEF LedgerInv
<1>14. \A e \in Drivers, x \in Trips : balance'[e][x] <= 1
  BY <1>5, <1>7 DEF LedgerInv
<1> QED
  BY <1>2, <1>10, <1>11, <1>12, <1>13, <1>14 DEF LedgerInv

\* Every step of the system keeps the ledger.
LEMMA LedgerStep == Inv /\ LedgerInv /\ [Next]_allVars => LedgerInv'
<1> SUFFICES ASSUME Inv, LedgerInv, [Next]_allVars PROVE LedgerInv'
  OBVIOUS
<1> USE DEF tableVars
<1>0. task \in [Slots -> Task]
  BY TypeParts DEF Inv
<1>1. CASE UNCHANGED <<fares, balance, task>>
  BY <1>1 DEF LedgerInv, Settling, Holds
<1>2. ASSUME NEW d \in Drivers, PresenceStep(d)
      PROVE  LedgerInv'
  BY <1>1, <1>2, PresenceQuiet
<1>3. ASSUME NEW r \in Riders, RiderReconnect(r)
      PROVE  LedgerInv'
  BY <1>1, <1>3, PresenceQuiet
<1>4. ASSUME NEW s \in Slots, DispatchEvent(s) \/ DispatchStep(s)
      PROVE  LedgerInv'
  BY <1>4, DispatchQuiet, LedgerQuiet
<1>5. ASSUME NEW s \in Slots, TripEvent(s)
      PROVE  LedgerInv'
  <2>1. PICK k : /\ task' = [task EXCEPT ![s] = k]
                 /\ k.pc \in {"start", "cancel", "complete"}
    BY <1>5, EventQuiet
  <2>2. UNCHANGED <<fares, balance>>
    BY <1>5, EventQuiet
  <2> QED
    BY <2>1, <2>2, LedgerQuiet
<1>6. ASSUME NEW s \in Slots, WriteStart(s) \/ WriteCancel(s) \/ ReleaseDriver(s)
                                             \/ Fail(s)
      PROVE  LedgerInv'
  <2>1. /\ task' = [task EXCEPT ![s] = Idle] /\ Idle.pc = "idle"
        /\ UNCHANGED <<fares, balance>>
    BY <1>6 DEF WriteStart, WriteCancel, ReleaseDriver, Fail, Finish, Idle
  <2> QED
    BY <2>1, LedgerQuiet
<1>7. ASSUME NEW s \in Slots, CompleteTrip(s)
      PROVE  LedgerInv'
  <2> DEFINE k == [task[s] EXCEPT !.pc = "price", !.started = FALSE]
  <2>1. Idle.pc = "idle" /\ k.pc = "price"
    BY <1>0 DEF Idle, Task
  <2>2. task' = [task EXCEPT ![s] = Idle] \/ task' = [task EXCEPT ![s] = k]
    BY <1>0, <1>7 DEF CompleteTrip, HasDuration, Finish
  <2> HIDE DEF k
  <2>3. UNCHANGED <<fares, balance>>
    BY <1>7 DEF CompleteTrip, HasDuration
  <2> QED
    BY <2>1, <2>2, <2>3, LedgerQuiet
<1>8. ASSUME NEW s \in Slots, PriceTrip(s) \/ ReadBalance(s) \/ WriteBalance(s)
      PROVE  LedgerInv'
  BY <1>8, LedgerPrice, LedgerRead, LedgerWrite
<1>9. CASE Restart
  <2>1. \A s \in Slots : task'[s].pc = "idle"
    BY <1>9 DEF Restart, Idle
  <2>2. UNCHANGED <<fares, balance>>
    BY <1>9 DEF Restart
  <2> QED
    BY <2>1, <2>2 DEF LedgerInv, Settling, Holds
<1> QED
  BY <1>1, <1>2, <1>3, <1>4, <1>5, <1>6, <1>7, <1>8, <1>9
  DEF Next, DispatchNext, TripStep, allVars, vars

\* The ledger, in every reachable state.
LEMMA LedgerHolds == Spec => []LedgerInv
<1>1. Init => LedgerInv
  BY DEF Init, DispatchInit, StoreInit, LedgerInv, Settling, Holds, Idle
<1> QED
  BY <1>1, LedgerStep, InvHolds, PTL DEF Spec

\* However many handleTripEnd run for a trip, interleaved, after an error or
\* after a restart, its commission is in the balances at most once, and in the
\* balance of one driver.
THEOREM NoDoubleSettlement == Spec => []SettledAtMostOnce
<1>1. Inv /\ LedgerInv => SettledAtMostOnce
  <2> SUFFICES ASSUME Inv, LedgerInv PROVE SettledAtMostOnce
    OBVIOUS
  <2>1. \A d \in Drivers, t \in Trips : balance[d][t] = 1 => Holds(d, t)
    BY DEF Holds
  <2> QED
    BY <2>1 DEF LedgerInv, SettledAtMostOnce
<1> QED
  BY <1>1, InvHolds, LedgerHolds, PTL

-----------------------------------------------------------------------------
(* A fare is only charged for a trip that started.                         *)

\* No trip disappears, and no start_date is removed.
StartKept ==
    \A t \in Rows : t \in Rows' /\ (trips[t].started => trips'[t].started)

\* A step that inserts no fare, and after which the slot neither completes nor
\* prices a trip unless the trip has started.
LEMMA StartQuiet ==
    ASSUME Inv, StartInv, StartKept, fares' = fares, NEW s \in Slots, NEW k,
           task' = [task EXCEPT ![s] = k],
           k.pc = "complete" /\ k.started => trips'[k.trip].started,
           k.pc = "price" => trips'[k.trip].started
    PROVE  StartInv'
<1>1. task'[s] = k /\ \A u \in Slots \ {s} : task'[u] = task[u]
  BY TypeParts DEF Inv
<1>2. \A u \in Slots : task[u].pc \in {"complete", "price"} => task[u].trip \in Rows
  BY DEF Inv, HandlersOK, TaskOK
<1>3. ASSUME NEW u \in Slots
      PROVE  /\ task'[u].pc = "complete" /\ task'[u].started =>
                    trips'[task'[u].trip].started
             /\ task'[u].pc = "price" => trips'[task'[u].trip].started
  BY <1>1, <1>2 DEF StartInv, StartKept
<1>4. \A t \in fares' : t \in Rows' /\ trips'[t].started
  BY DEF StartInv, StartKept
<1> QED
  BY <1>3, <1>4 DEF StartInv

\* A status is written, or the start_date with it.
LEMMA StatusKeepsStart ==
    ASSUME StoreTypeOK, NEW t \in Rows, NEW status \in TripStatus,
           \/ trips' = [trips EXCEPT ![t].status = status]
           \/ trips' = [trips EXCEPT ![t].status = status, ![t].started = TRUE]
    PROVE  StartKept
<1> DEFINE row == [trips[t] EXCEPT !.status = status]
           new == [row EXCEPT !.started = TRUE]
<1>1. t \in Trips /\ trips[t] \in Trip
  BY DEF StoreTypeOK, Rows
<1>2. /\ row \in Trip /\ row.started = trips[t].started
  BY <1>1 DEF Trip
<1>3. trips' = [trips EXCEPT ![t] = row] \/ trips' = [trips EXCEPT ![t] = new]
  BY <1>1 DEF StoreTypeOK
<1> HIDE DEF row
<1>4. new \in Trip /\ new.started = TRUE
  BY <1>2 DEF Trip
<1> HIDE DEF new
<1>5. row # None /\ new # None
  BY <1>2, <1>4, NoneIsNoValue
<1> QED
  BY <1>1, <1>2, <1>3, <1>4, <1>5 DEF StartKept, StoreTypeOK, Rows

\* Every step of the system keeps StartInv.
LEMMA StartStep == Inv /\ StartInv /\ [Next]_allVars => StartInv'
<1> SUFFICES ASSUME Inv, StartInv, [Next]_allVars PROVE StartInv'
  OBVIOUS
<1> USE DEF tableVars
<1>0. /\ task \in [Slots -> Task] /\ StoreTypeOK /\ Idle.pc = "idle"
      /\ \A s \in Slots : TaskOK(task[s], Rows)
  BY TypeParts DEF Inv, HandlersOK, Idle
<1>1. CASE UNCHANGED <<trips, fares, task>>
  BY <1>1 DEF StartInv, Rows
<1>2. ASSUME NEW d \in Drivers, PresenceStep(d)
      PROVE  StartInv'
  BY <1>1, <1>2, PresenceQuiet
<1>3. ASSUME NEW r \in Riders, RiderReconnect(r)
      PROVE  StartInv'
  BY <1>1, <1>3, PresenceQuiet
<1>4. ASSUME NEW s \in Slots, DispatchEvent(s) \/ DispatchStep(s)
      PROVE  StartInv'
  <2>1. PICK k : /\ task' = [task EXCEPT ![s] = k]
                 /\ k.pc \in {"idle", "quote", "record", "create", "busy"}
    BY <1>4, DispatchQuiet
  <2>2. fares' = fares /\ StartKept
    BY <1>4, DispatchQuiet DEF RowsKept, StartKept
  <2> QED
    BY <2>1, <2>2, StartQuiet
<1>5. ASSUME NEW s \in Slots, TripEvent(s)
      PROVE  StartInv'
  <2>1. PICK k : /\ task' = [task EXCEPT ![s] = k]
                 /\ k.pc \in {"start", "cancel", "complete"}
                 /\ StartSeen(k)
    BY <1>5, EventQuiet
  <2>2. trips' = trips /\ fares' = fares /\ StartKept
    BY <1>5, EventQuiet DEF StartKept, Rows
  <2> QED
    BY <2>1, <2>2, StartQuiet DEF StartSeen
<1>6. ASSUME NEW s \in Slots, WriteStart(s) \/ WriteCancel(s)
      PROVE  StartInv'
  <2>1. task' = [task EXCEPT ![s] = Idle] /\ fares' = fares
    BY <1>6 DEF WriteStart, WriteCancel, Finish
  <2>2. StartKept
    BY <1>0, <1>6, StatusKeepsStart DEF WriteStart, WriteCancel, TaskOK, TripStatus
  <2> QED
    BY <1>0, <2>1, <2>2, StartQuiet
<1>7. ASSUME NEW s \in Slots, CompleteTrip(s)
      PROVE  StartInv'
  <2> DEFINE k == [task[s] EXCEPT !.pc = "price", !.started = FALSE]
  <2>1. task[s].trip \in Rows /\ task[s].pc = "complete" /\ fares' = fares
    BY <1>0, <1>7 DEF CompleteTrip, HasDuration, TaskOK
  <2>2. CASE task[s].started
    <3>1. trips' = [trips EXCEPT ![task[s].trip].status = "completed"]
      BY <1>7, <2>2 DEF CompleteTrip, HasDuration
    <3>2. StartKept
      BY <1>0, <2>1, <3>1, StatusKeepsStart DEF TripStatus
    <3>3. task' = [task EXCEPT ![s] = k]
      BY <1>0, <1>7, <2>2 DEF CompleteTrip, HasDuration
    <3>4. k.pc = "price" /\ k.trip = task[s].trip
      BY <1>0 DEF Task
    <3> HIDE DEF k
    <3>5. trips'[k.trip].started
      BY <2>1, <2>2, <3>2, <3>4 DEF StartKept, StartInv
    <3> QED
      BY <2>1, <3>2, <3>3, <3>4, <3>5, StartQuiet
  <2>3. CASE ~task[s].started
    <3>1. task' = [task EXCEPT ![s] = Idle] /\ StartKept
      BY <1>7, <2>3 DEF CompleteTrip, HasDuration, Finish, StartKept, Rows
    <3> QED
      BY <1>0, <2>1, <3>1, StartQuiet
  <2> QED
    BY <2>2, <2>3
<1>8. ASSUME NEW s \in Slots, PriceTrip(s)
      PROVE  StartInv'
  <2> DEFINE k == [task[s] EXCEPT !.pc = "readBalance"]
  <2>1. trips' = trips /\ fares' = fares \cup {task[s].trip} /\ Rows' = Rows
    BY <1>8 DEF PriceTrip, AlreadyPriced, Rows
  <2>2. task[s].trip \in Rows /\ trips[task[s].trip].started
    BY <1>0, <1>8 DEF PriceTrip, AlreadyPriced, TaskOK, StartInv
  <2>3. k.pc = "readBalance"
    BY <1>0 DEF Task
  <2>4. task' = [task EXCEPT ![s] = Idle] \/ task' = [task EXCEPT ![s] = k]
    BY <1>8 DEF PriceTrip, AlreadyPriced, Finish, Resume
  <2> HIDE DEF k
  <2>5. \A u \in Slots :
            task'[u] = task[u] \/ task'[u].pc \in {"idle", "readBalance"}
    BY <1>0, <2>3, <2>4
  <2> QED
    BY <2>1, <2>2, <2>5 DEF StartInv
<1>9. ASSUME NEW s \in Slots, ReadBalance(s) \/ WriteBalance(s)
      PROVE  StartInv'
  <2>1. trips' = trips /\ fares' = fares /\ Rows' = Rows
    BY <1>9 DEF ReadBalance, WriteBalance, Rows
  <2>2. \A u \in Slots :
            task'[u] = task[u] \/ task'[u].pc \in {"writeBalance", "release"}
    BY <1>0, <1>9 DEF ReadBalance, WriteBalance, Task
  <2> QED
    BY <2>1, <2>2 DEF StartInv
<1>10. ASSUME NEW s \in Slots, ReleaseDriver(s) \/ Fail(s)
       PROVE  StartInv'
  <2>1. task' = [task EXCEPT ![s] = Idle] /\ fares' = fares /\ StartKept
    BY <1>10 DEF ReleaseDriver, Fail, Finish, StartKept, Rows
  <2> QED
    BY <1>0, <2>1, StartQuiet
<1>11. CASE Restart
  <2>1. \A s \in Slots : task'[s].pc = "idle"
    BY <1>11 DEF Restart, Idle
  <2>2. trips' = trips /\ fares' = fares /\ Rows' = Rows
    BY <1>11 DEF Restart, Rows
  <2> QED
    BY <2>1, <2>2 DEF StartInv
<1> QED
  BY <1>1, <1>2, <1>3, <1>4, <1>5, <1>6, <1>7, <1>8, <1>9, <1>10, <1>11
  DEF Next, DispatchNext, TripStep, allVars, vars

\* No fare is inserted for a trip that never started, whichever trip
\* handleTripEnd finds.
THEOREM NoFareWithoutStart == Spec => []FareOnlyIfStarted
<1>1. Init => StartInv
  BY DEF Init, DispatchInit, StoreInit, StartInv, Idle
<1>2. StartInv => FareOnlyIfStarted
  BY DEF StartInv, FareOnlyIfStarted
<1> QED
  BY <1>1, <1>2, StartStep, InvHolds, PTL DEF Spec
=============================================================================
