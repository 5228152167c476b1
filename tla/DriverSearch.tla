---------------------------- MODULE DriverSearch ----------------------------
(***************************************************************************)
(* Which drivers a ride is offered to, and in which order: findDriver of   *)
(* RidesGatewayService, findClosestDriver of UsersOnlineRepository and     *)
(* filterAndSort of RidesHelpers.                                          *)
(*                                                                         *)
(* RideDispatch leaves the order of the candidates open; here it is        *)
(* computed.  Scores, distances and balances stand for the numbers they    *)
(* are compared as.                                                        *)
(***************************************************************************)
EXTENDS Integers, Sequences, FiniteSets

CONSTANTS
    Vehicles,      \* names of vehicle types
    Areas,         \* names of locations
    Drivers,       \* the online-user entities a driver may have, see Entity
    MaxFound,      \* bound: entities in the index
    OweLimit       \* the setting MAXIMUM_OWED_AMOUNT

Modes == {"card", "cash"}

\* An online-user entity of a driver, with the account balance and the distance
\* to the pickup that its fields acceptable_rides and location were set from.
Entity == [online: BOOLEAN, in_ride: BOOLEAN, vehicle: Vehicles, fence: Areas,
           balance: Int, score: Nat, distance: Nat]

ASSUME DriversAreEntities == Drivers \subseteq Entity
ASSUME OweLimitIsNat == OweLimit \in Nat
ASSUME MaxFoundIsNat == MaxFound \in Nat

Request == [mode: Modes, vehicle: Vehicles, area: Areas]

VARIABLES
    index,      \* the entities in Redis, in the order the search returns them
    request,    \* the ride requested
    offers      \* the positions in index to be offered the ride, in order

searchVars == <<index, request, offers>>

-----------------------------------------------------------------------------
(* connect: how a driver's debt decides which rides the driver accepts.    *)

Owing(e) == e.balance < 0 /\ -e.balance < OweLimit
AcceptableRides(e) == IF Owing(e) THEN "cash" ELSE "both"

-----------------------------------------------------------------------------
(* findAllDriversForRide: what the search asks of Redis, and the two       *)
(* filters after it.                                                       *)

\* For contrast, a faulty search that forgets the drivers in a ride.
FoundEvenBusy(e, req) == e.online /\ e.vehicle = req.vehicle
Found(e, req) == e.online /\ e.vehicle = req.vehicle /\ ~e.in_ride

\* For contrast, the filter with the name of the mode it is about.
TakesModeByName(e, req) ==
    req.mode = "card" \/ AcceptableRides(e) \in {"both", "cash"}
TakesMode(e, req) ==
    req.mode = "card" \/ AcceptableRides(e) \in {"both", "card"}

Suits(e, req) == Found(e, req) /\ e.fence = req.area /\ TakesMode(e, req)
Suitable == {i \in DOMAIN index : Suits(index[i], request)}

-----------------------------------------------------------------------------
(* filterAndSort.                                                          *)

\* The members of a finite set in a strict order, a set of pairs: the p-th is the
\* one that p - 1 members come before.
Arranged(S, before) ==
    LET Earlier(i) == {j \in S : <<j, i>> \in before}
    IN  [p \in 1 .. Cardinality(S) |-> CHOOSE i \in S : Cardinality(Earlier(i)) = p - 1]

\* Array.prototype.sort: by key, and of one key in the order they were in.
StableSort(s, key) ==
    LET places == DOMAIN s
        before == {ij \in places \X places :
                       \/ key[s[ij[1]]] < key[s[ij[2]]]
                       \/ key[s[ij[1]]] = key[s[ij[2]]] /\ ij[1] < ij[2]}
        arranged == Arranged(places, before)
    IN  [p \in places |-> s[arranged[p]]]

SortByDistance(s) == StableSort(s, [i \in DOMAIN index |-> index[i].distance])
SortByScore(s) == StableSort(s, [i \in DOMAIN index |-> -index[i].score])

\* For contrast, the two sorts in the other order.
SortThenFilter(s) == SortByDistance(SortByScore(s))
FilterAndSort(s) == SortByScore(SortByDistance(s))

-----------------------------------------------------------------------------
\* The suitable drivers in the order Redis returned them.
FoundInOrder == Arranged(Suitable, {ij \in Suitable \X Suitable : ij[1] < ij[2]})

\* The search, once.
FindDriver ==
    /\ offers = <<>>
    /\ offers' = FilterAndSort(FoundInOrder)
    /\ UNCHANGED <<index, request>>

SearchInit ==
    /\ index \in UNION {[1 .. n -> Drivers] : n \in 0 .. MaxFound}
    /\ request \in Request
    /\ offers = <<>>

SearchSpec == SearchInit /\ [][FindDriver]_searchVars

-----------------------------------------------------------------------------
\* The drivers are offered the ride by score, drivers of one score by distance,
\* and drivers of one score and distance in the order Redis returned them:
\* sorting by distance first matters only because the second sort is stable.
RankedByScoreThenDistance ==
    \A p, q \in DOMAIN offers : p < q =>
        LET a == index[offers[p]]
            b == index[offers[q]]
        IN  \/ a.score > b.score
            \/ a.score = b.score /\ a.distance < b.distance
            \/ a.score = b.score /\ a.distance = b.distance /\ offers[p] < offers[q]

\* Two passes of sorting neither lose nor repeat a driver: whoever suits is in the
\* list once the list is made, no driver is in it twice, and whoever is in it is
\* free and in the pickup's area.
OffersAreFreeDrivers ==
    /\ offers # <<>> => \A i \in Suitable : \E p \in DOMAIN offers : offers[p] = i
    /\ \A p, q \in DOMAIN offers : offers[p] = offers[q] => p = q
    /\ \A p \in DOMAIN offers :
        LET e == index[offers[p]]
        IN  e.online /\ ~e.in_ride /\ e.vehicle = request.vehicle
                     /\ e.fence = request.area

\* A driver in debt, within the limit, is offered no ride that is paid in cash,
\* though the field connect writes for that driver says 'cash'.
DebtorsTakeNoCash ==
    request.mode = "cash" =>
        \A p \in DOMAIN offers :
            LET e == index[offers[p]] IN ~(e.balance < 0 /\ -e.balance < OweLimit)

\* What the comment of findDriver says: the first driver offered the ride is the
\* closest of those found.
ClosestDriverFirst ==
    \A p \in DOMAIN offers : index[offers[1]].distance <= index[offers[p]].distance
=============================================================================
