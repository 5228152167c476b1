-------------------------------- MODULE Rides --------------------------------
(***************************************************************************)
(* The rides gateway: dispatch and trip handlers over one shared store,    *)
(* with handlers that fail at an await and restarts of the process.        *)
(***************************************************************************)
EXTENDS RideDispatch, TripHandlers

CONSTANTS
    MaxRestarts,    \* bound: restarts of the process
    Fallible        \* the phases whose await may throw

ASSUME RestartBound == MaxRestarts \in Nat
ASSUME FalliblePhases == Fallible \subseteq Phases \ {"idle"}

VARIABLE restarts

allVars == <<vars, asked, restarts>>

Init == DispatchInit /\ restarts = 0

\* A call the handler awaits throws: the handler's catch ends it, and what it
\* has written so far stays written.
Fail(s) ==
    /\ task[s].pc \in Fallible
    /\ Finish(s)
    /\ UNCHANGED <<presence, socketVars, pending, memoryVars, tableVars, asked,
                   restarts>>

\* The process dies and is started again.  MapStore, rooms, sockets and the
\* handlers in flight are gone; Redis and Postgres keep what was written, so the
\* drivers' entities still say online.
Restart ==
    /\ restarts < MaxRestarts
    /\ restarts' = restarts + 1
    /\ live' = [d \in Drivers |-> FALSE]
    /\ pending' = [d \in Drivers |-> [h \in PresenceHandlers |-> None]]
    /\ rooms' = [u \in Users |-> <<>>]
    /\ queue' = [r \in Riders |-> {}]
    /\ last' = [r \in Riders |-> None]
    /\ connected' = [r \in Riders |-> None]
    /\ task' = [s \in Slots |-> Idle]
    /\ UNCHANGED <<presence, sock, inbox, tableVars, asked>>

\* An event starts a handler of a trip.
TripEvent(s) ==
    \E u \in Users : StartTrip(s, u) \/ CancelTrip(s, u) \/ EndTrip(s, u)

\* A handler of a trip resumes.
TripStep(s) ==
    \/ WriteStart(s)
    \/ WriteCancel(s)
    \/ CompleteTrip(s)
    \/ PriceTrip(s)
    \/ ReadBalance(s)
    \/ WriteBalance(s)
    \/ ReleaseDriver(s)

Next ==
    \/ DispatchNext /\ UNCHANGED restarts
    \/ \E s \in Slots :
        \/ (TripEvent(s) \/ TripStep(s)) /\ UNCHANGED <<asked, restarts>>
        \/ Fail(s)
    \/ Restart

Spec == Init /\ [][Next]_allVars

\* The event loop resumes every handler whose await has returned, and every
\* await of Redis, Postgres and Google returns (with an answer or an error).
Fairness ==
    /\ \A s \in Slots : WF_allVars(
            (DispatchStep(s) /\ UNCHANGED restarts)
            \/ (TripStep(s) /\ UNCHANGED <<asked, restarts>>))
    /\ \A d \in Drivers, h \in PresenceHandlers :
            WF_allVars(WritePresence(d, h) /\ UNCHANGED restarts)

FairSpec == Spec /\ Fairness

-----------------------------------------------------------------------------
(* What holds whatever the apps send, at any interleaving, failure and     *)
(* restart.                                                                *)

\* Type correctness of the shared state and of the handlers in flight.
RidesTypeOK ==
    /\ TypeOK
    /\ asked \in [Riders -> 0 .. MaxRequests]
    /\ restarts \in 0 .. MaxRestarts

\* However many handleTripEnd run for a trip, one after another or interleaved,
\* retried after an error or after a restart, its commission is in the drivers'
\* balances at most once: trip_fare is inserted before the balance is read, and
\* only one insert succeeds.
SettledAtMostOnce ==
    \A t \in Trips : \A d, e \in Drivers :
        /\ balance[d][t] <= 1
        /\ balance[d][t] = 1 /\ balance[e][t] = 1 => d = e

\* No fare is charged for a trip that never started, although handleTripEnd does
\* not look at the status of the trip and can even find another room's trip:
\* the update of the status fails first.
FareOnlyIfStarted == \A t \in fares : t \in Rows /\ trips[t].started

-----------------------------------------------------------------------------
(* The settlement, as Settlement promises it.                              *)

Settling(s) == task[s].pc \in {"readBalance", "writeBalance"}

\* The commission of t is in the balance of d, or in a copy of it that a handler
\* is about to add to and write back.
Holds(d, t) ==
    \/ balance[d][t] # 0
    \/ \E s \in Slots : /\ task[s].pc = "writeBalance"
                        /\ task[s].info.driver = d
                        /\ task[s].base[t] # 0

StartedTrips == {t \in Rows : trips[t].started}
DueTrips == {t \in Trips : \E s \in Slots : Settling(s) /\ task[s].trip = t}
Credits == {credit \in Trips \X Drivers : Holds(credit[2], credit[1])}

\* One ride handler at a time, and neither an error of Postgres nor a restart
\* between the fare and the balance.
OneAtATime ==
    /\ \A s, u \in Slots : s = u
    /\ MaxRestarts = 0
    /\ Fallible \cap {"readBalance", "writeBalance"} = {}

Promise == INSTANCE Settlement WITH
    Payees <- Drivers, Lossless <- OneAtATime,
    started <- StartedTrips, charged <- fares, due <- DueTrips, credits <- Credits

\* Every step of the handlers is a step of the settlement or none: a trip is
\* charged once and after its start, credited once and to one driver, and what
\* handlers overwrite or leave behind in their copies of balances never comes back.
\* When handlers run one at a time and do not fail in between, nothing is lost.
Settles == Promise!Spec

-----------------------------------------------------------------------------
(* What holds when one ride handler runs at a time (Slots has one element),*)
(* and no await but those of Google and the fare lookup throws.            *)

\* No commission is lost: a trip with a fare is in the balance of a driver, or
\* the handler that priced it is still to write it.
NoCommissionLost ==
    \A t \in fares :
        \/ \E d \in Drivers : balance[d][t] = 1
        \/ \E s \in Slots : /\ task[s].trip = t
                            /\ task[s].pc \in {"readBalance", "writeBalance"}

\* A trip that is under way or over is never turned into a cancelled one.
CancelOnlyUnstarted ==
    [][\A t \in Trips :
         trips[t] # None /\ trips'[t] # None /\ trips'[t].status = "cancelled"
            => trips[t].status \in {"unstarted", "cancelled"}]_allVars

-----------------------------------------------------------------------------
(* Liveness, without restarts.                                             *)

\* A trip that has a fare is in the end credited to a driver.
PricedTripIsCredited ==
    \A t \in Trips :
        t \in fares ~> \E d \in Drivers : balance[d][t] = 1
=============================================================================
