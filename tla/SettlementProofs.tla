--------------------------- MODULE SettlementProofs ---------------------------
(***************************************************************************)
(* The rides gateway implements Settlement, for any riders, drivers, trips,*)
(* slots and bounds.  Every step of a handler leaves the settlement alone  *)
(* but four: WriteStart starts, PriceTrip charges, WriteBalance credits,   *)
(* and a handler that stops between fare and balance drops.                *)
(***************************************************************************)
EXTENDS RidesProofs

\* With one handler at a time, the copy of a balance is the balance.
CopyInv ==
    OneAtATime => \A s \in Slots : task[s].pc = "writeBalance" =>
                      task[s].base = balance[task[s].info.driver]

Abstract == <<StartedTrips, fares, DueTrips, Credits>>

\* A step outside the settlement: of a slot that neither settles before nor after.
LEMMA OutsideQuiet ==
    ASSUME Inv, NEW s \in Slots, NEW k, task' = [task EXCEPT ![s] = k],
           UNCHANGED <<fares, balance>>, StartedTrips' = StartedTrips,
           ~ Settling(s), k.pc \notin {"readBalance", "writeBalance"}
    PROVE  UNCHANGED Abstract
<1>1. task'[s] = k /\ \A u \in Slots \ {s} : task'[u] = task[u]
  BY TypeParts DEF Inv
<1>2. \A u \in Slots : Settling(u)' <=> Settling(u)
  BY <1>1 DEF Settling
<1>3. \A u \in Slots : Settling(u) => task'[u] = task[u]
  BY <1>1
<1>4. DueTrips' = DueTrips
  BY <1>2, <1>3 DEF DueTrips
<1>5. \A d \in Drivers, t \in Trips : Holds(d, t)' <=> Holds(d, t)
  BY <1>1, <1>3 DEF Holds, Settling
<1>6. Credits' = Credits
  BY <1>5 DEF Credits
<1> QED
  BY <1>4, <1>6 DEF Abstract

\* A slot that stops, or a copy that is left behind: nothing new is held.
LEMMA Dropped ==
    ASSUME Inv, \A s \in Slots : task'[s] = task[s] \/ ~ Settling(s)',
           UNCHANGED <<fares, balance>>, StartedTrips' = StartedTrips,
           ~ OneAtATime
    PROVE  Promise!Drop
<1>1. \A s \in Slots : Settling(s)' => Settling(s) /\ task'[s] = task[s]
  BY DEF Settling
<1>2. DueTrips' \in SUBSET DueTrips
  BY <1>1 DEF DueTrips
<1>3. \A d \in Drivers, t \in Trips : Holds(d, t)' => Holds(d, t)
  BY <1>1 DEF Holds, Settling
<1>4. Credits' \in SUBSET Credits
  BY <1>3 DEF Credits
<1> QED
  BY <1>2, <1>4 DEF Promise!Drop

\* Rows only change in what started is about.
LEMMA RowsStarted ==
    ASSUME UNCHANGED trips
    PROVE  StartedTrips' = StartedTrips
  BY DEF StartedTrips, Rows

-----------------------------------------------------------------------------
(* The four steps of the settlement, and the copy in between.              *)

\* The trip is started, perhaps again.
LEMMA StartsTrip ==
    ASSUME Inv, NEW s \in Slots, WriteStart(s)
    PROVE  Promise!Start(task[s].trip) /\ task[s].trip \in Trips
<1> DEFINE t == task[s].trip
           row == [trips[t] EXCEPT !.status = "ongoing"]
           new == [row EXCEPT !.started = TRUE]
<1>1. /\ task \in [Slots -> Task] /\ StoreTypeOK /\ Idle.pc = "idle"
      /\ task[s].pc = "start" /\ t \in Rows /\ t \in Trips
  BY TypeParts DEF Inv, HandlersOK, TaskOK, WriteStart, Idle, Rows
<1>2. trips[t] \in Trip
  BY <1>1 DEF StoreTypeOK, Rows
<1>3. row \in Trip
  BY <1>2 DEF Trip, TripStatus
<1>4. trips' = [trips EXCEPT ![t] = new] /\ trips \in [Trips -> Trip \cup {None}]
  BY <1>1 DEF StoreTypeOK, WriteStart
<1>5. task' = [task EXCEPT ![s] = Idle] /\ UNCHANGED <<fares, balance>>
  BY DEF WriteStart, Finish
<1> HIDE DEF row
<1>6. new \in Trip /\ new.started = TRUE
  BY <1>3 DEF Trip
<1> HIDE DEF new
<1>7. new # None
  BY <1>6, NoneIsNoValue
<1>8. StartedTrips' = StartedTrips \cup {t}
  BY <1>1, <1>4, <1>6, <1>7 DEF StartedTrips, Rows
<1>9. task'[s] = Idle /\ \A u \in Slots \ {s} : task'[u] = task[u]
  BY <1>1, <1>5
<1>10. \A u \in Slots : Settling(u)' <=> Settling(u)
  BY <1>1, <1>9 DEF Settling
<1>11. \A u \in Slots : Settling(u) => task'[u] = task[u]
  BY <1>1, <1>9 DEF Settling
<1>12. DueTrips' = DueTrips
  BY <1>10, <1>11 DEF DueTrips
<1>13. \A d \in Drivers, x \in Trips : Holds(d, x)' <=> Holds(d, x)
  BY <1>1, <1>5, <1>9 DEF Holds
<1>14. Credits' = Credits
  BY <1>13 DEF Credits
<1> QED
  BY <1>1, <1>5, <1>8, <1>12, <1>14 DEF Promise!Start

\* The fare is inserted: the trip is charged unless it has been.
LEMMA Charges ==
    ASSUME Inv, StartInv, NEW s \in Slots, PriceTrip(s)
    PROVE  UNCHANGED Abstract \/ \E t \in Trips : Promise!Charge(t)
<1>0. /\ task \in [Slots -> Task] /\ task[s] \in Task /\ Idle.pc = "idle"
      /\ task[s].pc = "price" /\ task[s].trip \in Rows /\ task[s].trip \in Trips
      /\ trips[task[s].trip].started
  BY TypeParts DEF Inv, HandlersOK, TaskOK, PriceTrip, Rows, StartInv, Idle
<1>1. trips' = trips /\ StartedTrips' = StartedTrips /\ balance' = balance
  BY RowsStarted DEF PriceTrip
<1>2. ~ Settling(s)
  BY <1>0 DEF Settling
<1>3. CASE task[s].trip \in fares
  <2>1. fares' = fares /\ task' = [task EXCEPT ![s] = Idle]
    BY <1>3 DEF PriceTrip, AlreadyPriced, Finish
  <2> QED
    BY <1>0, <1>1, <1>2, <2>1, OutsideQuiet
<1>4. CASE task[s].trip \notin fares
  <2> DEFINE k == [task[s] EXCEPT !.pc = "readBalance"]
  <2>1. task' = [task EXCEPT ![s] = k]
    BY <1>4 DEF PriceTrip, AlreadyPriced, Resume
  <2>2. PICK t \in Trips : t = task[s].trip
    BY <1>0
  <2>3. k.pc = "readBalance" /\ k.trip = t
    BY <1>0, <2>2 DEF Task
  <2> HIDE DEF k
  <2>4. task'[s] = k /\ \A u \in Slots \ {s} : task'[u] = task[u]
    BY <1>0, <2>1
  <2>5. \A u \in Slots \ {s} : Settling(u)' <=> Settling(u)
    BY <2>4 DEF Settling
  <2>6. Settling(s)'
    BY <2>3, <2>4 DEF Settling
  <2>7. DueTrips' = DueTrips \cup {t}
    BY <1>2, <2>3, <2>4, <2>5, <2>6 DEF DueTrips
  <2>8. \A d \in Drivers, x \in Trips : Holds(d, x)' <=> Holds(d, x)
    BY <1>0, <1>1, <2>3, <2>4 DEF Holds
  <2>9. Credits' = Credits
    BY <2>8 DEF Credits
  <2>10. fares' = fares \cup {t} /\ t \in StartedTrips \ fares
    BY <1>0, <1>4, <2>2 DEF PriceTrip, AlreadyPriced, StartedTrips
  <2>11. Promise!Charge(t)
    BY <1>1, <2>7, <2>9, <2>10 DEF Promise!Charge
  <2> QED
    BY <2>11
<1> QED
  BY <1>3, <1>4

\* The copy of a balance holds what the balance holds.
LEMMA ReadsOnly ==
    ASSUME Inv, NEW s \in Slots, ReadBalance(s)
    PROVE  UNCHANGED Abstract
<1> DEFINE k == [task[s] EXCEPT !.pc = "writeBalance",
                                !.base = balance[task[s].info.driver]]
<1>0. /\ task \in [Slots -> Task] /\ task[s] \in Task
      /\ task[s].pc = "readBalance" /\ task[s].info.driver \in Drivers
      /\ balance \in [Drivers -> Balance]
  BY TypeParts DEF Inv, HandlersOK, TaskOK, ReadBalance, Candidate, StoreTypeOK
<1>1. PICK d \in Drivers, b \in Balance : d = task[s].info.driver /\ b = balance[d]
  BY <1>0
<1>2. task' = [task EXCEPT ![s] = k] /\ UNCHANGED <<trips, fares, balance>>
  BY <1>0 DEF ReadBalance, tableVars
<1>3. /\ k.pc = "writeBalance" /\ k.base = b
      /\ k.info = task[s].info /\ k.trip = task[s].trip
  BY <1>0, <1>1 DEF Task
<1> HIDE DEF k
<1>4. task'[s] = k /\ \A u \in Slots \ {s} : task'[u] = task[u]
  BY <1>0, <1>2
<1>5. \A u \in Slots : (Settling(u)' <=> Settling(u)) /\ task'[u].trip = task[u].trip
  BY <1>0, <1>3, <1>4 DEF Settling
<1>6. DueTrips' = DueTrips
  BY <1>5 DEF DueTrips
<1>7. \A e \in Drivers, x \in Trips : Holds(e, x)' <=> Holds(e, x)
  BY <1>0, <1>1, <1>2, <1>3, <1>4 DEF Holds
<1>8. Credits' = Credits
  BY <1>7 DEF Credits
<1> QED
  BY <1>2, <1>6, <1>8, RowsStarted DEF Abstract
\* The balance is written: the commission moves to it, and only commissions that the
\* handler's copy lacks are lost, of the same driver.
LEMMA CreditsTrip ==
    ASSUME Inv, LedgerInv, CopyInv, NEW s \in Slots, WriteBalance(s)
    PROVE  \E t \in Trips, d \in Drivers : Promise!Credit(t, d)
<1> DEFINE k == [task[s] EXCEPT !.pc = "release", !.base = None]
<1>0. /\ task \in [Slots -> Task] /\ task[s] \in Task
      /\ task[s].pc = "writeBalance" /\ task[s].base \in Balance
      /\ task[s].trip \in Trips /\ task[s].info.driver \in Drivers
      /\ balance \in [Drivers -> Balance]
  BY TypeParts
  DEF Inv, HandlersOK, TaskOK, WriteBalance, Rows, Candidate, StoreTypeOK
<1>1. PICK d \in Drivers, t \in Trips, b \in Balance :
          d = task[s].info.driver /\ t = task[s].trip /\ b = task[s].base
  BY <1>0
<1>2. /\ task' = [task EXCEPT ![s] = k] /\ UNCHANGED <<trips, fares>>
      /\ balance' = [balance EXCEPT ![d] = [b EXCEPT ![t] = @ + 1]]
  BY <1>0, <1>1 DEF WriteBalance, NewBalance
<1>3. k.pc = "release"
  BY <1>0 DEF Task
<1> HIDE DEF k
<1>4. task'[s] = k /\ \A u \in Slots \ {s} : task'[u] = task[u]
  BY <1>0, <1>2
<1>5. Settling(s) /\ ~ Settling(s)'
  BY <1>0, <1>3, <1>4 DEF Settling
<1>6. \A u \in Slots \ {s} : (Settling(u)' <=> Settling(u)) /\ task'[u] = task[u]
  BY <1>4 DEF Settling
<1>7. \A u \in Slots \ {s} : Settling(u) => task[u].trip # t
  BY <1>1, <1>5 DEF LedgerInv
<1>8. t \in DueTrips /\ DueTrips' = DueTrips \ {t}
  BY <1>1, <1>5, <1>6, <1>7 DEF DueTrips
<1>9. b[t] = 0 /\ \A x \in Trips : b[x] # 0 => Holds(d, x)
  BY <1>0, <1>1, <1>5 DEF Holds, LedgerInv
<1>10. \A e \in Drivers, x \in Trips :
          balance'[e][x] = IF e = d THEN IF x = t THEN 1 ELSE b[x]
                                    ELSE balance[e][x]
  BY <1>0, <1>2, <1>9 DEF Balance
<1>11. \A e \in Drivers, x \in Trips :
          Holds(e, x)' => Holds(e, x) \/ (e = d /\ x = t)
  BY <1>3, <1>4, <1>9, <1>10 DEF Holds
<1>12. Holds(d, t)'
  BY <1>10 DEF Holds
<1>13. \A e \in Drivers, x \in Trips : Holds(e, x) /\ e # d => Holds(e, x)'
  BY <1>1, <1>4, <1>10 DEF Holds
<1> DEFINE lost == Credits \ Credits'
<1>14. lost \in SUBSET (Credits \cap (Trips \X {d}))
  BY <1>13 DEF Credits
<1>15. Credits' = (Credits \ lost) \cup {<<t, d>>}
  BY <1>11, <1>12 DEF Credits
<1>16. OneAtATime => lost = {}
  <2> SUFFICES ASSUME OneAtATime PROVE lost = {}
    OBVIOUS
  <2>1. b = balance[d] /\ \A u \in Slots : u = s
    BY <1>0, <1>1 DEF CopyInv, OneAtATime
  <2>2. \A x \in Trips : Holds(d, x) => b[x] # 0
    BY <1>1, <2>1 DEF Holds
  <2>3. \A x \in Trips : Holds(d, x) => Holds(d, x)'
    BY <1>10, <1>12, <2>2 DEF Holds
  <2> QED
    BY <1>13, <2>3 DEF Credits
<1>17. StartedTrips' = StartedTrips
  BY <1>2, RowsStarted
<1> HIDE DEF lost
<1>18. Promise!Credit(t, d)
  BY <1>2, <1>8, <1>14, <1>15, <1>16, <1>17 DEF Promise!Credit
<1> QED
  BY <1>18

-----------------------------------------------------------------------------
(* The other steps.                                                        *)

\* A handler stops: between fare and balance it drops the commission.
LEMMA Stops ==
    ASSUME Inv, NEW s \in Slots, Fail(s)
    PROVE  UNCHANGED Abstract \/ Promise!Drop
<1>1. /\ task' = [task EXCEPT ![s] = Idle] /\ Idle.pc = "idle"
      /\ UNCHANGED <<trips, fares, balance>> /\ task \in [Slots -> Task]
  BY TypeParts DEF Inv, Fail, Finish, Idle, tableVars
<1>2. CASE Settling(s)
  <2>1. ~ OneAtATime
    BY <1>2 DEF Fail, Settling, OneAtATime
  <2>2. \A u \in Slots : task'[u] = task[u] \/ ~ Settling(u)'
    BY <1>1 DEF Settling
  <2> QED
    BY <1>1, <2>1, <2>2, Dropped, RowsStarted
<1>3. CASE ~ Settling(s)
  BY <1>1, <1>3, OutsideQuiet, RowsStarted
<1> QED
  BY <1>2, <1>3

\* The process stops.
LEMMA Restarts ==
    ASSUME Inv, Restart
    PROVE  Promise!Drop
<1>1. /\ \A s \in Slots : task'[s].pc = "idle"
      /\ UNCHANGED <<trips, fares, balance>>
  BY DEF Restart, Idle, tableVars
<1>2. ~ OneAtATime
  BY RestartBound DEF Restart, OneAtATime, Inv, RidesTypeOK
<1> QED
  BY <1>1, <1>2, Dropped, RowsStarted DEF Settling

\* Dispatch and the events of a trip come before the settlement; a new row has not
\* started.
LEMMA BeforeSettlement ==
    ASSUME Inv, NEW s \in Slots, DispatchEvent(s) \/ DispatchStep(s) \/ TripEvent(s)
    PROVE  UNCHANGED Abstract
<1>1. ~ Settling(s)
  <2>1. CASE DispatchEvent(s)
    <3>1. task[s] = Idle
      BY <2>1 DEF DispatchEvent, RequestRide, AnswerOffer
    <3> QED
      BY <3>1 DEF Settling, Idle
  <2>2. CASE DispatchStep(s)
    BY <2>2 DEF DispatchStep, OfferRide, RecordAccept, RecordReject, CreateTrip,
                MarkBusy, Settling
  <2>3. CASE TripEvent(s)
    <3>1. task[s] = Idle
      BY <2>3 DEF TripEvent, StartTrip, CancelTrip, EndTrip
    <3> QED
      BY <3>1 DEF Settling, Idle
  <2> QED
    BY <2>1, <2>2, <2>3
<1>2. CASE TripEvent(s)
  <2>1. PICK k : /\ task' = [task EXCEPT ![s] = k]
                 /\ k.pc \in {"start", "cancel", "complete"}
    BY <1>2, EventQuiet
  <2>2. UNCHANGED <<trips, fares, balance>>
    BY <1>2, EventQuiet
  <2> QED
    BY <1>1, <2>1, <2>2, OutsideQuiet, RowsStarted
<1>3. CASE DispatchEvent(s) \/ DispatchStep(s)
  <2>1. PICK k : /\ task' = [task EXCEPT ![s] = k]
                 /\ k.pc \in {"idle", "quote", "record", "create", "busy"}
    BY <1>3, DispatchQuiet
  <2>2. UNCHANGED <<fares, balance>> /\ RowsKept
    BY <1>3, DispatchQuiet
  <2>3. \A t \in Trips \ Rows : t \in Rows' => ~ trips'[t].started
    <3>1. CASE CreateTrip(s)
      <4>1. PICK t \in Trips \ Rows : trips' = [trips EXCEPT ![t] = NewTrip(s)]
        BY <3>1 DEF CreateTrip, NewTrip, TripRoom
      <4>2. trips \in [Trips -> Trip \cup {None}]
        BY TypeParts DEF Inv, StoreTypeOK
      <4>3. ~ NewTrip(s).started
        BY DEF NewTrip
      <4> QED
        BY <4>1, <4>2, <4>3 DEF Rows
    <3>2. CASE ~ CreateTrip(s)
      <4>1. trips' = trips
        BY <1>3, <3>2 DEF DispatchEvent, RequestRide, AnswerOffer, DispatchStep, OfferRide,
                          RecordAccept, RecordReject, MarkBusy, tableVars
      <4> QED
        BY <4>1 DEF Rows
    <3> QED
      BY <3>1, <3>2
  <2>4. StartedTrips' = StartedTrips
    BY <2>2, <2>3 DEF RowsKept, StartedTrips, Rows
  <2> QED
    BY <1>1, <2>1, <2>2, <2>4, OutsideQuiet
<1> QED
  BY <1>2, <1>3
\* A slot ends neither about to write a balance nor with another balance written.
LEMMA CopyQuiet ==
    ASSUME Inv, NEW s \in Slots, NEW k, task' = [task EXCEPT ![s] = k],
           k.pc # "writeBalance"
    PROVE  CopyInv'
<1>1. task'[s] = k
  BY TypeParts DEF Inv
<1> QED
  BY <1>1 DEF CopyInv, OneAtATime

\* Every step keeps the copies true.
LEMMA CopyStep == Inv /\ CopyInv /\ [Next]_allVars => CopyInv'
<1> SUFFICES ASSUME Inv, CopyInv, [Next]_allVars PROVE CopyInv'
  OBVIOUS
<1>0. task \in [Slots -> Task] /\ Idle.pc = "idle"
  BY TypeParts DEF Inv, Idle
<1>1. CASE UNCHANGED <<trips, fares, balance, task>>
  BY <1>1 DEF CopyInv, OneAtATime
<1>2. CASE \/ \E d \in Drivers : PresenceStep(d)
           \/ \E r \in Riders : RiderReconnect(r)
  BY <1>1, <1>2, PresenceQuiet
<1>3. ASSUME NEW s \in Slots, DispatchEvent(s) \/ DispatchStep(s)
      PROVE  CopyInv'
  BY <1>3, DispatchQuiet, CopyQuiet
<1>4. ASSUME NEW s \in Slots, TripEvent(s)
      PROVE  CopyInv'
  <2>1. PICK k : /\ task' = [task EXCEPT ![s] = k]
                 /\ k.pc \in {"start", "cancel", "complete"}
    BY <1>4, EventQuiet
  <2> QED
    BY <2>1, CopyQuiet
<1>5. ASSUME NEW s \in Slots,
             WriteStart(s) \/ WriteCancel(s) \/ ReleaseDriver(s) \/ Fail(s)
      PROVE  CopyInv'
  <2>1. task' = [task EXCEPT ![s] = Idle]
    BY <1>5 DEF WriteStart, WriteCancel, ReleaseDriver, Fail, Finish
  <2> QED
    BY <1>0, <2>1, CopyQuiet
<1>6. ASSUME NEW s \in Slots, CompleteTrip(s) \/ PriceTrip(s) \/ WriteBalance(s)
      PROVE  CopyInv'
  <2>1. task'[s].pc # "writeBalance"
    BY <1>0, <1>6 DEF CompleteTrip, HasDuration, PriceTrip, AlreadyPriced, WriteBalance,
                      Finish, Resume, Task
  <2> QED
    BY <2>1 DEF CopyInv, OneAtATime
<1>7. ASSUME NEW s \in Slots, ReadBalance(s)
      PROVE  CopyInv'
  <2> DEFINE k == [task[s] EXCEPT !.pc = "writeBalance",
                                  !.base = balance[task[s].info.driver]]
  <2>1. task' = [task EXCEPT ![s] = k] /\ balance' = balance
    BY <1>7 DEF ReadBalance, tableVars
  <2>2. k.info = task[s].info /\ k.base = balance[task[s].info.driver]
    BY <1>0 DEF Task
  <2> HIDE DEF k
  <2>3. task'[s] = k
    BY <1>0, <2>1
  <2> QED
    BY <2>1, <2>2, <2>3 DEF CopyInv, OneAtATime
<1>8. CASE Restart
  BY <1>0, <1>8 DEF Restart, CopyInv, OneAtATime
<1> QED
  BY <1>1, <1>2, <1>3, <1>4, <1>5, <1>6, <1>7, <1>8
  DEF Next, DispatchNext, TripStep, allVars, vars

-----------------------------------------------------------------------------
\* Every step of the handlers is a step of the settlement or leaves it alone.
LEMMA StepSettles ==
    Inv /\ LedgerInv /\ StartInv /\ CopyInv /\ [Next]_allVars
        => [Promise!Next]_(Promise!settlementVars)
<1> SUFFICES ASSUME Inv, LedgerInv, StartInv, CopyInv, [Next]_allVars
             PROVE  UNCHANGED Abstract \/ Promise!Next
  BY DEF Abstract, Promise!settlementVars
<1>0. task \in [Slots -> Task] /\ Idle.pc = "idle"
  BY TypeParts DEF Inv, Idle
<1>1. CASE UNCHANGED <<trips, fares, balance, task>>
  <2>1. DueTrips' = DueTrips /\ Credits' = Credits
    BY <1>1 DEF DueTrips, Settling, Credits, Holds
  <2> QED
    BY <1>1, <2>1, RowsStarted DEF Abstract
<1>2. CASE \/ \E d \in Drivers : PresenceStep(d)
           \/ \E r \in Riders : RiderReconnect(r)
  BY <1>1, <1>2, PresenceQuiet
<1>3. ASSUME NEW s \in Slots,
             DispatchEvent(s) \/ DispatchStep(s) \/ TripEvent(s)
      PROVE  UNCHANGED Abstract
  BY <1>3, BeforeSettlement
<1>4. ASSUME NEW s \in Slots, WriteStart(s)
      PROVE  Promise!Next
  BY <1>4, StartsTrip DEF Promise!Next
<1>5. ASSUME NEW s \in Slots, WriteCancel(s)
      PROVE  UNCHANGED Abstract
  <2> DEFINE t == task[s].trip
             row == [trips[t] EXCEPT !.status = "cancelled"]
  <2>1. /\ task[s].pc = "cancel" /\ t \in Rows /\ t \in Trips /\ StoreTypeOK
    BY <1>5, TypeParts DEF WriteCancel, Inv, HandlersOK, TaskOK, Rows
  <2>2. /\ task' = [task EXCEPT ![s] = Idle] /\ UNCHANGED <<fares, balance>>
        /\ trips' = [trips EXCEPT ![t] = row]
    BY <1>5 DEF WriteCancel, Finish
  <2>3. trips[t] \in Trip
    BY <2>1 DEF StoreTypeOK, Rows
  <2>4. row \in Trip /\ row.started = trips[t].started
    BY <2>3 DEF Trip, TripStatus
  <2> HIDE DEF row
  <2>5. StartedTrips' = StartedTrips
    BY <2>1, <2>2, <2>4, NoneIsNoValue DEF StartedTrips, Rows, StoreTypeOK
  <2> QED
    BY <1>0, <2>1, <2>2, <2>5, OutsideQuiet DEF Settling
<1>6. ASSUME NEW s \in Slots, CompleteTrip(s)
      PROVE  UNCHANGED Abstract
  <2> DEFINE t == task[s].trip
             row == [trips[t] EXCEPT !.status = "completed"]
             k == [task[s] EXCEPT !.pc = "price", !.started = FALSE]
  <2>1. /\ task[s].pc = "complete" /\ t \in Rows /\ t \in Trips /\ StoreTypeOK
    BY <1>6, TypeParts DEF CompleteTrip, HasDuration, Inv, HandlersOK, TaskOK, Rows
  <2>2. /\ trips' = trips \/ trips' = [trips EXCEPT ![t] = row]
        /\ UNCHANGED <<fares, balance>>
    BY <1>6 DEF CompleteTrip, HasDuration
  <2>3. task' = [task EXCEPT ![s] = Idle] \/ task' = [task EXCEPT ![s] = k]
    BY <1>0, <1>6 DEF CompleteTrip, HasDuration, Finish
  <2>4. trips[t] \in Trip
    BY <2>1 DEF StoreTypeOK, Rows
  <2>5. row \in Trip /\ row.started = trips[t].started
    BY <2>4 DEF Trip, TripStatus
  <2> HIDE DEF row
  <2>6. StartedTrips' = StartedTrips
    BY <2>1, <2>2, <2>5, NoneIsNoValue DEF StartedTrips, Rows, StoreTypeOK
  <2>7. k.pc = "price"
    BY <1>0 DEF Task
  <2> HIDE DEF k
  <2> QED
    BY <1>0, <2>1, <2>2, <2>3, <2>6, <2>7, OutsideQuiet DEF Settling
<1>7. ASSUME NEW s \in Slots, PriceTrip(s) \/ ReadBalance(s)
      PROVE  UNCHANGED Abstract \/ Promise!Next
  BY <1>7, Charges, ReadsOnly DEF Promise!Next
<1>8. ASSUME NEW s \in Slots, WriteBalance(s)
      PROVE  Promise!Next
  BY <1>8, CreditsTrip DEF Promise!Next
<1>9. ASSUME NEW s \in Slots, ReleaseDriver(s)
      PROVE  UNCHANGED Abstract
  <2>1. /\ task' = [task EXCEPT ![s] = Idle] /\ ~ Settling(s)
        /\ UNCHANGED <<trips, fares, balance>>
    BY <1>9 DEF ReleaseDriver, Finish, Settling, tableVars
  <2> QED
    BY <1>0, <2>1, OutsideQuiet, RowsStarted
<1>10. ASSUME NEW s \in Slots, Fail(s)
       PROVE  UNCHANGED Abstract \/ Promise!Next
  BY <1>10, Stops DEF Promise!Next
<1>11. CASE Restart
  BY <1>11, Restarts DEF Promise!Next
<1> QED
  BY <1>1, <1>2, <1>3, <1>4, <1>5, <1>6, <1>7, <1>8, <1>9, <1>10, <1>11
  DEF Next, DispatchNext, TripStep, allVars, vars

\* The gateway settles trips as Settlement promises, lossless when handlers run one
\* at a time and do not fail between fare and balance.
THEOREM GatewaySettles == Spec => Settles
<1>1. Init => Promise!Init
  BY DEF Init, DispatchInit, StoreInit, Promise!Init, StartedTrips, Rows, DueTrips,
         Settling, Idle, Credits, Holds
<1>2. Init => StartInv /\ CopyInv
  BY DEF Init, DispatchInit, StoreInit, StartInv, CopyInv, Idle
<1>3. Spec => [](StartInv /\ CopyInv)
  BY <1>2, StartStep, CopyStep, InvHolds, PTL DEF Spec
<1> QED
  BY <1>1, <1>3, StepSettles, InvHolds, LedgerHolds, PTL DEF Spec, Settles, Promise!Spec

-----------------------------------------------------------------------------
(* What the settlement keeps, carried over to the gateway.                 *)

\* A trip charged is due or credited, as long as no commission gets lost.
ChargedInv ==
    OneAtATime => \A t \in fares : t \in DueTrips \/ \E d \in Drivers : <<t, d>> \in Credits

\* A lossless settlement keeps every commission it has charged: this is a fact of
\* Settlement, of which no handler is mentioned.
LEMMA ChargedKept ==
    ASSUME ChargedInv, UNCHANGED Abstract \/ Promise!Next
    PROVE  ChargedInv'
<1> SUFFICES ASSUME OneAtATime, NEW t \in fares'
             PROVE  t \in DueTrips' \/ \E d \in Drivers : <<t, d>> \in Credits'
  BY DEF ChargedInv, OneAtATime
<1> HIDE DEF DueTrips, Credits, StartedTrips
<1>0. \A x \in fares : x \in DueTrips \/ \E d \in Drivers : <<x, d>> \in Credits
  BY DEF ChargedInv
<1>1. CASE UNCHANGED Abstract
  BY <1>0, <1>1 DEF Abstract
<1>2. ASSUME NEW x \in Trips, Promise!Start(x)
      PROVE  t \in DueTrips' \/ \E d \in Drivers : <<t, d>> \in Credits'
  BY <1>0, <1>2 DEF Promise!Start
<1>3. ASSUME NEW x \in Trips, Promise!Charge(x)
      PROVE  t \in DueTrips' \/ \E d \in Drivers : <<t, d>> \in Credits'
  BY <1>0, <1>3 DEF Promise!Charge
<1>4. ASSUME NEW x \in Trips, NEW d \in Drivers, Promise!Credit(x, d)
      PROVE  t \in DueTrips' \/ \E e \in Drivers : <<t, e>> \in Credits'
  <2>1. /\ DueTrips' = DueTrips \ {x} /\ fares' = fares
        /\ Credits' = Credits \cup {<<x, d>>}
    BY <1>4 DEF Promise!Credit
  <2> QED
    BY <1>0, <2>1
<1>5. ~ Promise!Drop
  BY DEF Promise!Drop
<1> QED
  BY <1>1, <1>2, <1>3, <1>4, <1>5 DEF Promise!Next

\* A commission held is in a balance once, when the only copy there is says what
\* the balance says.
LEMMA CreditedOnce ==
    ASSUME OneAtATime, Inv, LedgerInv, CopyInv, ChargedInv
    PROVE  NoCommissionLost
<1> SUFFICES ASSUME NEW t \in fares
             PROVE  \/ \E d \in Drivers : balance[d][t] = 1
                    \/ \E s \in Slots : /\ task[s].trip = t
                                        /\ task[s].pc \in {"readBalance", "writeBalance"}
  BY DEF NoCommissionLost
<1>1. CASE t \in DueTrips
  BY <1>1 DEF DueTrips, Settling
<1>2. ASSUME NEW d \in Drivers, <<t, d>> \in Credits
      PROVE  balance[d][t] = 1
  <2>1. Holds(d, t) /\ t \in Trips
    BY <1>2 DEF Credits
  <2>2. balance[d][t] # 0
    BY <2>1 DEF Holds, CopyInv
  <2>3. balance[d][t] \in Nat /\ balance[d][t] <= 1
    BY <2>1, TypeParts DEF Inv, StoreTypeOK, Balance, LedgerInv
  <2> QED
    BY <2>2, <2>3
<1> QED
  BY <1>1, <1>2 DEF ChargedInv

\* The commission of a trip that has a fare is in a balance, or its handler is about
\* to write it there: with one handler at a time, and neither an error of Postgres
\* nor a restart between fare and balance, none gets lost, whatever the apps send.
THEOREM CommissionsKept ==
    ASSUME OneAtATime
    PROVE  Spec => []NoCommissionLost
<1>1. Init => StartInv /\ CopyInv /\ ChargedInv
  BY DEF Init, DispatchInit, StoreInit, StartInv, CopyInv, ChargedInv, Idle
<1>2. Inv /\ LedgerInv /\ StartInv /\ CopyInv /\ ChargedInv /\ [Next]_allVars
          => ChargedInv'
  BY StepSettles, ChargedKept DEF Abstract, Promise!settlementVars
<1>3. Spec => [](StartInv /\ CopyInv /\ ChargedInv)
  BY <1>1, <1>2, StartStep, CopyStep, InvHolds, LedgerHolds, PTL DEF Spec
<1>4. Inv /\ LedgerInv /\ CopyInv /\ ChargedInv => NoCommissionLost
  BY CreditedOnce
<1> QED
  BY <1>3, <1>4, InvHolds, LedgerHolds, PTL

-----------------------------------------------------------------------------
(* Cancelling a trip.                                                      *)

\* At most one ride handler is in flight.
OneHandler == \A s, u \in Slots : s = u

\* What findUnstarted found is still so when the update is written.
CancelInv ==
    OneHandler => \A s \in Slots : task[s].pc = "cancel" =>
                      task[s].trip \in Rows /\ trips[task[s].trip].status = "unstarted"

\* What a step may do to the status of a trip.
NoLateCancel ==
    \A t \in Trips :
        trips[t] # None /\ trips'[t] # None /\ trips'[t].status = "cancelled"
            => trips[t].status \in {"unstarted", "cancelled"}

\* A slot that is not about to cancel a trip is the only one.
LEMMA NotCancelling ==
    ASSUME Inv, NEW s \in Slots, NEW k, task' = [task EXCEPT ![s] = k], k.pc # "cancel"
    PROVE  CancelInv'
<1>1. task'[s] = k
  BY TypeParts DEF Inv
<1> QED
  BY <1>1 DEF CancelInv, OneHandler

\* Of the steps that write a trip, only WriteCancel writes "cancelled", into a row
\* no other handler could touch since CancelTrip read it.
LEMMA CancelStep ==
    OneHandler /\ Inv /\ CancelInv /\ [Next]_allVars => CancelInv' /\ NoLateCancel
<1> SUFFICES ASSUME OneHandler, Inv, CancelInv, [Next]_allVars
             PROVE  CancelInv' /\ NoLateCancel
  OBVIOUS
<1> USE DEF tableVars
<1>0. /\ task \in [Slots -> Task] /\ StoreTypeOK /\ Idle.pc = "idle"
      /\ \A s \in Slots : TaskOK(task[s], Rows)
  BY TypeParts DEF Inv, HandlersOK, Idle
<1>1. UNCHANGED trips => NoLateCancel
  <2> SUFFICES ASSUME UNCHANGED trips PROVE NoLateCancel
    OBVIOUS
  <2> QED
    BY DEF NoLateCancel
<1>2. CASE UNCHANGED <<trips, task>>
  BY <1>1, <1>2 DEF CancelInv, OneHandler, Rows
<1>3. CASE \/ \E d \in Drivers : PresenceStep(d)
           \/ \E r \in Riders : RiderReconnect(r)
  BY <1>2, <1>3, PresenceQuiet
<1>4. ASSUME NEW s \in Slots, DispatchEvent(s) \/ DispatchStep(s)
      PROVE  CancelInv' /\ NoLateCancel
  <2>1. CancelInv'
    BY <1>4, DispatchQuiet, NotCancelling
  <2>2. RowsKept
    BY <1>4, DispatchQuiet
  <2>3. NoLateCancel
    BY <2>2 DEF RowsKept, NoLateCancel, Rows
  <2> QED
    BY <2>1, <2>3
<1>5. ASSUME NEW s \in Slots, TripEvent(s)
      PROVE  CancelInv' /\ NoLateCancel
  <2>1. trips' = trips
    BY <1>5, EventQuiet
  <2>2. CASE \E u \in Users : CancelTrip(s, u)
    <3>1. PICK u \in Users : CancelTrip(s, u)
      BY <2>2
    <3>2. PICK t \in Lookup(FirstRoom(u)) :
              /\ trips[t].status = "unstarted"
              /\ task' = [task EXCEPT ![s] = [Idle EXCEPT !.pc = "cancel", !.trip = t]]
      BY <3>1 DEF CancelTrip, Unstarted, Begin
    <3>3. t \in Rows
      <4>1. FirstRoom(u) \in Riders /\ ConnectedOK
        BY <3>1, FirstRoomType DEF CancelTrip, Inv, RidesTypeOK
      <4> QED
        BY <4>1 DEF Lookup, ConnectedOK
    <3> DEFINE k == [Idle EXCEPT !.pc = "cancel", !.trip = t]
    <3>4. k.trip = t
      BY DEF Idle
    <3> HIDE DEF k
    <3>5. task'[s] = k
      BY <1>0, <3>2 DEF k
    <3>6. CancelInv'
      BY <2>1, <3>2, <3>3, <3>4, <3>5 DEF CancelInv, OneHandler, Rows
    <3> QED
      BY <1>1, <2>1, <3>6
  <2>3. CASE \E u \in Users : StartTrip(s, u)
    <3>1. PICK u \in Users : StartTrip(s, u)
      BY <2>3
    <3> DEFINE k == [Idle EXCEPT !.pc = "start", !.trip = connected[FirstRoom(u)]]
    <3>2. task' = [task EXCEPT ![s] = k] /\ k.pc = "start"
      BY <3>1 DEF StartTrip, Begin, Idle
    <3> HIDE DEF k
    <3> QED
      BY <1>1, <2>1, <3>2, NotCancelling
  <2>4. CASE \E u \in Users : EndTrip(s, u)
    <3>1. PICK u \in Users : EndTrip(s, u)
      BY <2>4
    <3> DEFINE j == Serving(FirstRoom(u), "complete")
    <3>2. PICK t : task' = [task EXCEPT ![s] =
                               [j EXCEPT !.trip = t, !.started = trips[t].started]]
      BY <3>1 DEF EndTrip, Begin
    <3>3. FirstRoom(u) \in Riders /\ last[FirstRoom(u)] \in Candidate
      BY <1>0, <3>1, FirstRoomType DEF EndTrip, StoreTypeOK, Inv, RidesTypeOK
    <3>4. j \in Task /\ j.pc = "complete"
      BY <3>3, ServingType DEF Phases
    <3> DEFINE k == [j EXCEPT !.trip = t, !.started = trips[t].started]
    <3>5. task' = [task EXCEPT ![s] = k]
      BY <3>2
    <3> HIDE DEF j
    <3>6. k.pc = "complete"
      BY <3>4 DEF Task
    <3> HIDE DEF k
    <3> QED
      BY <1>1, <2>1, <3>5, <3>6, NotCancelling
  <2> QED
    BY <1>5, <2>2, <2>3, <2>4 DEF TripEvent
<1>6. ASSUME NEW s \in Slots, WriteStart(s) \/ WriteCancel(s) \/ CompleteTrip(s)
      PROVE  CancelInv' /\ NoLateCancel
  <2> DEFINE t == task[s].trip
  <2>1. t \in Rows /\ t \in Trips /\ trips[t] \in Trip
    BY <1>0, <1>6 DEF WriteStart, WriteCancel, CompleteTrip, HasDuration, TaskOK, Rows,
                      StoreTypeOK
  <2>2. task'[s].pc # "cancel"
    BY <1>0, <1>6 DEF WriteStart, WriteCancel, CompleteTrip, HasDuration, Finish, Task
  <2>3. CancelInv'
    BY <2>2 DEF CancelInv, OneHandler
  <2>4. CASE WriteCancel(s)
    <3>1. trips[t].status = "unstarted"
      BY <2>4 DEF CancelInv, WriteCancel
    <3>2. \A x \in Trips : x # t => trips'[x] = trips[x]
      BY <1>0, <2>4 DEF WriteCancel, StoreTypeOK
    <3> QED
      BY <2>3, <3>1, <3>2 DEF NoLateCancel
  <2>5. CASE WriteStart(s) \/ CompleteTrip(s)
    <3> DEFINE row(v) == [trips[t] EXCEPT !.status = v]
               new == [row("ongoing") EXCEPT !.started = TRUE]
    <3>1. row("ongoing") \in Trip /\ row("completed") \in Trip
          /\ row("ongoing").status # "cancelled" /\ row("completed").status # "cancelled"
      BY <2>1 DEF Trip, TripStatus
    <3>2. \/ trips' = [trips EXCEPT ![t] = new]
          \/ trips' = [trips EXCEPT ![t] = row("completed")]
          \/ trips' = trips
      BY <1>0, <2>1, <2>5 DEF WriteStart, CompleteTrip, HasDuration, StoreTypeOK
    <3> HIDE DEF row
    <3>3. new.status # "cancelled"
      BY <3>1 DEF Trip
    <3> HIDE DEF new
    <3>4. NoLateCancel
      BY <1>0, <2>1, <3>1, <3>2, <3>3 DEF NoLateCancel, StoreTypeOK
    <3> QED
      BY <2>3, <3>4
  <2> QED
    BY <1>6, <2>4, <2>5
<1>7. ASSUME NEW s \in Slots,
             PriceTrip(s) \/ ReadBalance(s) \/ WriteBalance(s) \/ ReleaseDriver(s) \/ Fail(s)
      PROVE  CancelInv' /\ NoLateCancel
  <2>1. trips' = trips
    BY <1>7 DEF PriceTrip, ReadBalance, WriteBalance, ReleaseDriver, Fail
  <2>2. task'[s].pc # "cancel"
    BY <1>0, <1>7 DEF PriceTrip, AlreadyPriced, ReadBalance, WriteBalance, ReleaseDriver,
                      Fail, Finish, Resume, Task
  <2> QED
    BY <1>1, <2>1, <2>2 DEF CancelInv, OneHandler
<1>8. CASE Restart
  <2>1. trips' = trips /\ \A s \in Slots : task'[s].pc = "idle"
    BY <1>8 DEF Restart, Idle
  <2> QED
    BY <1>1, <2>1 DEF CancelInv
<1> QED
  BY <1>2, <1>3, <1>4, <1>5, <1>6, <1>7, <1>8 DEF Next, DispatchNext, TripStep, allVars, vars

\* Whatever the apps send, and even across errors and restarts, a gateway that runs
\* one handler at a time cancels no trip that is under way or over.
THEOREM CancelsInTime ==
    ASSUME OneHandler
    PROVE  Spec => CancelOnlyUnstarted
<1>1. Init => CancelInv
  BY DEF Init, DispatchInit, StoreInit, CancelInv, Idle
<1>2. Inv /\ CancelInv /\ [Next]_allVars => CancelInv' /\ [NoLateCancel]_allVars
  BY CancelStep
<1>3. Spec => [][NoLateCancel]_allVars
  BY <1>1, <1>2, InvHolds, PTL DEF Spec
<1> QED
  BY <1>3 DEF CancelOnlyUnstarted, NoLateCancel
=============================================================================
