----------------------------- MODULE DriverPromos -----------------------------
(***************************************************************************)
(* DriverPromoService: a promo for drivers, where it is offered, who takes *)
(* part, and whether what they have done since meets its goals.            *)
(***************************************************************************)
EXTENDS Requests, Naturals

CONSTANTS
    PromoDrivers,
    PromoAreas,     \* locations; the types of vehicles are listed like them
    Goals,          \* what administrators ask for
    MaxAsked        \* bound on the rides a driver is asked to take

VARIABLES
    driverPromo,    \* a row of driver_promos with its locations, or None
    taking,         \* user_driver_promos: None, or the driver's work since assigned_at
    rewarded        \* history: the work that has been answered to complete a promo

driverPromoVars == <<driverPromo, taking, rewarded>>

Goal == [trips: Nat, acceptance: 0 .. 100, cancellation: 0 .. 100]

ASSUME GoalsAssumption == Goals \subseteq Goal /\ MaxAsked \in Nat

DriverPromo == [goal: Goals, areas: SUBSET PromoAreas, active: BOOLEAN]
Count == 0 .. MaxAsked
Work == [asked: Count, accepted: Count, trips: Count, cancelled: Count, completed: Count]
NoWork == [asked |-> 0, accepted |-> 0, trips |-> 0, cancelled |-> 0, completed |-> 0]

DriverPromoTask ==
    [pc: {"clearAreas", "createAreas"}, areas: SUBSET PromoAreas]
    \cup [pc: {"already", "take"}, driver: PromoDrivers]
    \cup [pc: {"trips"}, driver: PromoDrivers, goal: Goals]
    \cup [pc: {"requests"}, driver: PromoDrivers, goal: Goals, work: Work]

DriverPromosTypeOK ==
    /\ driverPromo \in DriverPromo \cup {None}
    /\ taking \in [PromoDrivers -> Work \cup {None}]
    /\ rewarded \subseteq [asked: Count, trips: Count]
    /\ \A s \in Slots : task[s] \in DriverPromoTask \cup {Idle}

DriverPromosInit ==
    /\ driverPromo = None
    /\ taking = [d \in PromoDrivers |-> None]
    /\ rewarded = {}

-----------------------------------------------------------------------------
(* The promo: its row, then where it is offered.                           *)

CreateDriverPromo(s, goal, areas) ==
    /\ driverPromo = None                \* else the name is taken
    /\ driverPromo' = [goal |-> goal, areas |-> {}, active |-> TRUE]
    /\ Begin(s, [pc |-> "createAreas", areas |-> areas])
    /\ UNCHANGED <<taking, rewarded>>

\* An update that names no areas keeps them; one that does deletes them first.
UpdateDriverPromo(s, areas, active) ==
    /\ driverPromo # None
    /\ driverPromo' = [driverPromo EXCEPT !.active = active]
    /\ IF areas = {} THEN UNCHANGED task
       ELSE Begin(s, [pc |-> "clearAreas", areas |-> areas])
    /\ UNCHANGED <<taking, rewarded>>

ClearAreas(s) ==
    /\ At(s, "clearAreas")
    /\ driverPromo' = IF driverPromo = None THEN None ELSE [driverPromo EXCEPT !.areas = {}]
    /\ Await(s, [task[s] EXCEPT !.pc = "createAreas"])
    /\ UNCHANGED <<taking, rewarded>>

\* createMany throws when one of them is listed by now, or is no location.
CreateAreas(s, unknown) ==
    /\ At(s, "createAreas")
    /\ driverPromo' =
          IF driverPromo = None \/ unknown \/ driverPromo.areas \cap task[s].areas # {}
          THEN driverPromo
          ELSE [driverPromo EXCEPT !.areas = @ \cup task[s].areas]
    /\ Finish(s)
    /\ UNCHANGED <<taking, rewarded>>

\* The rows of its drivers go with it.
RemoveDriverPromo ==
    /\ driverPromo # None
    /\ driverPromo' = None
    /\ taking' = [d \in PromoDrivers |-> None]
    /\ UNCHANGED <<task, rewarded>>

-----------------------------------------------------------------------------
(* participate: promoConstraints, then the insert.                         *)

\* An active promo, offered where the driver is.
Participate(s, d, area) ==
    /\ driverPromo # None /\ driverPromo.active /\ area \in driverPromo.areas
    /\ Begin(s, [pc |-> "already", driver |-> d])
    /\ UNCHANGED driverPromoVars

CheckAlready(s) ==
    /\ At(s, "already")
    /\ IF taking[task[s].driver] = None
       THEN Await(s, [task[s] EXCEPT !.pc = "take"]) ELSE Finish(s)
    /\ UNCHANGED driverPromoVars

\* The key of the row refuses the second of two.
TakePart(s) ==
    /\ At(s, "take")
    /\ taking' = [taking EXCEPT ![task[s].driver] =
          IF driverPromo # None /\ @ = None THEN NoWork ELSE @]
    /\ Finish(s)
    /\ UNCHANGED <<driverPromo, rewarded>>

-----------------------------------------------------------------------------
(* Meanwhile the driver works; RideDispatch and TripHandlers say how.      *)

Works(d, work) ==
    /\ taking' = [taking EXCEPT ![d] = work]
    /\ UNCHANGED <<task, driverPromo, rewarded>>

IsAsked(d, accepts) ==
    /\ taking[d] # None /\ taking[d].asked < MaxAsked
    /\ Works(d, [taking[d] EXCEPT !.asked = @ + 1, !.accepted = IF accepts THEN @ + 1 ELSE @])

\* The trip is inserted some awaits after the request.
Travels(d) ==
    /\ taking[d] # None /\ taking[d].trips < taking[d].accepted
    /\ Works(d, [taking[d] EXCEPT !.trips = @ + 1])

EndsTrip(d, how) ==
    /\ taking[d] # None /\ taking[d].completed + taking[d].cancelled < taking[d].trips
    /\ Works(d, [taking[d] EXCEPT ![how] = @ + 1])

-----------------------------------------------------------------------------
(* computeDriverProgress: the trips are read, then the requests.           *)

\* For contrast, a rate of which nothing is as good as any.
AtMostOfNone(part, all, goal) == part * 100 <= goal * all

\* Nothing over nothing is NaN, which compares with no goal.
AtLeast(part, all, goal) == all # 0 /\ part * 100 >= goal * all
AtMost(part, all, goal) == all # 0 /\ part * 100 <= goal * all

AskProgress(s, d) ==
    /\ driverPromo # None /\ taking[d] # None
    /\ Begin(s, [pc |-> "trips", driver |-> d, goal |-> driverPromo.goal])
    /\ UNCHANGED driverPromoVars

ReadTrips(s) ==
    /\ At(s, "trips")
    /\ LET h == task[s] IN
       Await(s, [pc |-> "requests", driver |-> h.driver, goal |-> h.goal,
                 work |-> IF taking[h.driver] = None THEN NoWork ELSE taking[h.driver]])
    /\ UNCHANGED driverPromoVars

\* The hours online and the score may meet the goals or not.
ReadRequests(s, hoursAndScore) ==
    /\ At(s, "requests")
    /\ LET h == task[s]
           now == IF taking[h.driver] = None THEN h.work ELSE taking[h.driver]
           completed == /\ hoursAndScore
                        /\ h.work.completed >= h.goal.trips
                        /\ AtLeast(now.accepted, now.asked, h.goal.acceptance)
                        /\ AtMost(h.work.cancelled, h.work.trips, h.goal.cancellation)
       IN  rewarded' = IF completed
                       THEN rewarded \cup {[asked |-> now.asked, trips |-> h.work.trips]}
                       ELSE rewarded
    /\ Finish(s)
    /\ UNCHANGED <<driverPromo, taking>>

-----------------------------------------------------------------------------
DriverPromosStep(s) ==
    \/ ClearAreas(s) \/ CheckAlready(s) \/ TakePart(s) \/ ReadTrips(s)
    \/ \E b \in BOOLEAN : CreateAreas(s, b) \/ ReadRequests(s, b)

DriverPromosNext ==
    \/ RemoveDriverPromo
    \/ \E d \in PromoDrivers :
        \/ \E accepts \in BOOLEAN : IsAsked(d, accepts)
        \/ Travels(d)
        \/ \E how \in {"completed", "cancelled"} : EndsTrip(d, how)
    \/ \E s \in Slots :
        \/ \E goal \in Goals, areas \in SUBSET PromoAreas \ {{}} : CreateDriverPromo(s, goal, areas)
        \/ \E areas \in SUBSET PromoAreas, active \in BOOLEAN : UpdateDriverPromo(s, areas, active)
        \/ \E d \in PromoDrivers :
            AskProgress(s, d) \/ \E area \in PromoAreas : Participate(s, d, area)
        \/ DriverPromosStep(s)

DriverPromosSpec ==
    RequestsInit /\ DriverPromosInit /\ [][DriverPromosNext]_<<task, driverPromoVars>>

-----------------------------------------------------------------------------
\* A driver who has travelled nowhere completes no promo, even one whose goals ask
\* for nothing: the rates of no rides are not numbers.  The counts are read apart,
\* so this is about the numbers the handler had.
CompletedByWorking == \A work \in rewarded : work.asked > 0 /\ work.trips > 0
=============================================================================
