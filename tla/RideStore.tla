------------------------------ MODULE RideStore ------------------------------
(***************************************************************************)
(* What the handlers of the "rides" socket.io namespace share.             *)
(*                                                                         *)
(*   - in Redis: one online-user entity per driver (UsersOnlineRepository);*)
(*   - in the memory of the Node process: the candidate queues, the driver *)
(*     last offered in each room and the trip connected to each room       *)
(*     (MapStore), and the rooms every socket has joined;                  *)
(*   - in Postgres: trips, ride requests, trip fares and the drivers'      *)
(*     account balances.                                                   *)
(*                                                                         *)
(* A room is named after the rider who requested the ride, so rooms are    *)
(* elements of Riders.  Handlers are asynchronous functions of one event   *)
(* loop: another handler runs only while one awaits Redis, Postgres or the *)
(* Google API.  Each handler in flight occupies a slot; the record of the  *)
(* slot holds what the handler has read so far and the step it takes when  *)
(* its await returns.                                                      *)
(***************************************************************************)
EXTENDS Naturals, Sequences, FiniteSets

CONSTANTS
    Riders,       \* users who request rides; also the names of the rooms
    Drivers,      \* users who drive
    Trips,        \* primary keys of the table trips
    Slots,        \* handlers in flight at once
    None,         \* undefined, null or no row
    MaxSockets    \* bound: connections a driver opens, one after another

ASSUME RidersAndDrivers == Riders \cap Drivers = {}
ASSUME SocketBound == MaxSockets \in Nat

VARIABLES
    presence,     \* Redis: the online-user entity of each driver, or None
    sock,         \* the id of the last socket each driver opened (0: none yet)
    live,         \* is that socket still connected?
    pending,      \* presence handlers that have read Redis and not yet written
    rooms,        \* the rooms each user's socket has joined, oldest first
    inbox,        \* the rooms whose offer a driver's app has received
    queue,        \* MapStore._store: drivers still to be offered the ride
    last,         \* MapStore.lastValues: the driver last offered the ride
    connected,    \* MapStore.connectedTrips: the trip of the room
    trips,        \* table trips
    rideRequests, \* table ride_requests
    fares,        \* trips that have a row in trip_fare (trip_id is unique)
    balance,      \* users.account_balance, as how often each trip is in it
    task          \* the handler in each slot

memoryVars == <<queue, last, connected>>
tableVars == <<trips, rideRequests, fares, balance>>
socketVars == <<sock, live, rooms, inbox>>
vars == <<presence, sock, live, pending, rooms, inbox, queue, last, connected,
          trips, rideRequests, fares, balance, task>>

Users == Riders \cup Drivers

-----------------------------------------------------------------------------
(* The data.                                                               *)

Sockets == 0 .. MaxSockets

\* The fields of SocketUsers that a handler decides anything by.  "fenced":
\* the fence field names the area of the pickups (it starts as '').
Presence == [online: BOOLEAN, in_ride: BOOLEAN, sock: Sockets, fenced: BOOLEAN]

\* A candidate as findAllDriversForRide returns it.  The other fields are those
\* of an eligible driver: online, not in a ride, inside the fence.
Candidate == [driver: Drivers, sock: Sockets]

TripStatus == {"unstarted", "ongoing", "completed", "cancelled"}

\* "started": start_date is set.
Trip == [status: TripStatus, rider: Riders, driver: Drivers, started: BOOLEAN]

RideRequest == [rider: Riders, driver: Drivers, accepted: BOOLEAN]

\* A balance, as the number of times the commission of each trip is in it.
Balance == [Trips -> Nat]

\* The presence handlers: connect, disconnect and updateLocation.
PresenceHandlers == {"connect", "disconnect", "updateLocation"}

\* Where a handler resumes.
Phases == {"idle", "quote", "record", "create", "busy", "start", "cancel",
           "complete", "price", "readBalance", "writeBalance", "release"}

Task == [pc: Phases,
         user: Users \cup {None},
         sock: Sockets,
         room: Riders \cup {None},
         candidates: SUBSET Candidate,
         info: Candidate \cup {None},
         accept: BOOLEAN,
         trip: Trips \cup {None},
         started: BOOLEAN,
         base: Balance \cup {None}]

Idle == [pc |-> "idle", user |-> None, sock |-> 0, room |-> None,
         candidates |-> {}, info |-> None, accept |-> FALSE,
         trip |-> None, started |-> FALSE, base |-> None]

\* None is not a value of any of these types.
ASSUME NoneIsNoValue ==
    None \notin Users \cup Trips \cup Presence \cup Candidate \cup Trip
                \cup Balance

TypeOK ==
    /\ presence \in [Drivers -> Presence \cup {None}]
    /\ sock \in [Drivers -> Sockets]
    /\ live \in [Drivers -> BOOLEAN]
    /\ pending \in [Drivers -> [PresenceHandlers -> Presence \cup {None}]]
    /\ rooms \in [Users -> Seq(Riders)]
    /\ inbox \in [Drivers -> SUBSET Riders]
    /\ queue \in [Riders -> SUBSET Candidate]
    /\ last \in [Riders -> Candidate \cup {None}]
    /\ connected \in [Riders -> Trips \cup {None}]
    /\ trips \in [Trips -> Trip \cup {None}]
    /\ rideRequests \in SUBSET RideRequest
    /\ fares \in SUBSET Trips
    /\ balance \in [Drivers -> Balance]
    /\ task \in [Slots -> Task]

\* No driver has ever connected, no ride was ever requested.
StoreInit ==
    /\ presence = [d \in Drivers |-> None]
    /\ sock = [d \in Drivers |-> 0]
    /\ live = [d \in Drivers |-> FALSE]
    /\ pending = [d \in Drivers |-> [h \in PresenceHandlers |-> None]]
    /\ rooms = [u \in Users |-> <<>>]
    /\ inbox = [d \in Drivers |-> {}]
    /\ queue = [r \in Riders |-> {}]
    /\ last = [r \in Riders |-> None]
    /\ connected = [r \in Riders |-> None]
    /\ trips = [t \in Trips |-> None]
    /\ rideRequests = {}
    /\ fares = {}
    /\ balance = [d \in Drivers |-> [t \in Trips |-> 0]]
    /\ task = [s \in Slots |-> Idle]

-----------------------------------------------------------------------------
(* Reading the shared state.                                               *)

\* client.rooms also holds the socket's own id: rooms.size > 1 says that it has
\* joined a room, and [...rooms][1] is the one it joined first.
InRoom(u) == rooms[u] # <<>>
FirstRoom(u) == Head(rooms[u])

Rows == {t \in Trips : trips[t] # None}

\* Prisma drops a filter whose value is undefined: with no trip connected to the
\* room, findFirst returns the first of all trips that match the rest.
Lookup(r) == IF connected[r] = None THEN Rows ELSE {connected[r]}

\* The drivers findAllDriversForRide would return, were they all of the right
\* vehicle type and mode of payment.
Eligible == {d \in Drivers : /\ presence[d] # None
                             /\ presence[d].online
                             /\ ~presence[d].in_ride
                             /\ presence[d].fenced}

-----------------------------------------------------------------------------
(* Changing the shared state.                                              *)

Join(joined, r) == IF \E i \in 1 .. Len(joined) : joined[i] = r
                   THEN joined
                   ELSE Append(joined, r)

Leave(joined, r) ==
    IF \E i \in 1 .. Len(joined) : joined[i] = r
    THEN LET at == CHOOSE i \in 1 .. Len(joined) : joined[i] = r
         IN  [i \in 1 .. Len(joined) - 1 |->
                 IF i < at THEN joined[i] ELSE joined[i + 1]]
    ELSE joined

\* For contrast, a faulty pop: the driver stays in the queue.
RestAll(pool, next) == pool

\* MapStore.pop takes the driver out of the queue ...
Rest(pool, next) == pool \ {next}

\* ... and makes it the last value of the room.  For contrast, a faulty pop that
\* only does so the first time.
LastValueOnce(r, next) == IF last[r] = None THEN [last EXCEPT ![r] = next]
                                            ELSE last
LastValue(r, next) == [last EXCEPT ![r] = next]

\* MapStore.pop, then informDriver: the driver popped becomes the last value of
\* the room, and learns of the ride if the socket id of the snapshot is still
\* the id of a connected socket (else informDriver throws, which is caught).
\* In which order the drivers leave the queue is left open here.
OfferNext(r, pool, isLive) ==
    \/ /\ pool = {}                                \* connectFailed
       /\ queue' = [queue EXCEPT ![r] = {}]
       /\ UNCHANGED <<last, inbox>>
    \/ \E next \in pool :
        /\ queue' = [queue EXCEPT ![r] = Rest(pool, next)]
        /\ last' = LastValue(r, next)
        /\ inbox' = IF isLive[next.driver] /\ sock[next.driver] = next.sock
                    THEN [inbox EXCEPT ![next.driver] = @ \cup {r}]
                    ELSE inbox

\* UsersOnlineRepository.update with the snapshot taken when the driver was
\* found, and is_in_ride overwritten.
WriteSnapshot(info, inRide) ==
    presence' = [presence EXCEPT ![info.driver] =
                    [online |-> TRUE, in_ride |-> inRide,
                     sock |-> info.sock, fenced |-> TRUE]]

\* A handler that has read the last value of room r.
Serving(r, pc) == [Idle EXCEPT !.pc = pc, !.room = r, !.info = last[r]]

Begin(s, fields) == task' = [task EXCEPT ![s] = fields]
Finish(s) == task' = [task EXCEPT ![s] = Idle]
Resume(s, pc) == task' = [task EXCEPT ![s].pc = pc]
=============================================================================
