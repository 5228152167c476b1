-------------------------------- MODULE Regions --------------------------------
(***************************************************************************)
(* Where the service operates: CountriesService, StatesService and         *)
(* CitiesService.  Countries, states and cities come from the seeds; an    *)
(* administrator switches them on and off, top down.                       *)
(***************************************************************************)
EXTENDS Requests

CONSTANTS
    Countries, States, Cities,
    CountryOf,     \* country_id of each state
    StateOf        \* state_id of each city

ASSUME RegionsAssumption ==
    /\ CountryOf \in [States -> Countries] /\ StateOf \in [Cities -> States]
    /\ Countries \cap States = {} /\ (Countries \cup States) \cap Cities = {}

VARIABLES
    active,        \* is_active: the places that are on
    regionsDisturbed      \* history: handlers have overlapped, or one has stopped half-way

regionVars == <<active, regionsDisturbed>>

StatesIn(country) == {st \in States : CountryOf[st] = country}
CitiesIn(states) == {c \in Cities : StateOf[c] \in states}

RegionTask ==
    [pc: {"states", "citiesOfCountry"}, country: Countries]
    \cup [pc: {"country"}, country: Countries, on: BOOLEAN]
    \cup [pc: {"citiesOfState"}, state: States]
    \cup [pc: {"parent", "state"}, state: States, on: BOOLEAN]
    \cup [pc: {"grandparent", "parentOfCity", "city"}, city: Cities, on: BOOLEAN]

RegionsTypeOK ==
    /\ active \subseteq Countries \cup States \cup Cities
    /\ regionsDisturbed \in BOOLEAN
    /\ \A s \in Slots : task[s] \in RegionTask \cup {Idle}

RegionsInit == active = {} /\ regionsDisturbed = FALSE

Set(place, on) == IF on THEN active \cup {place} ELSE active \ {place}

BeginUpdate(s, handler) ==
    /\ Begin(s, handler)
    /\ regionsDisturbed' = (regionsDisturbed \/ ~ Alone(s))
    /\ UNCHANGED active

\* It awaits again, or throws, having changed nothing.
Check(s, passes, handler) ==
    /\ IF passes THEN Await(s, handler) ELSE Finish(s)
    /\ UNCHANGED regionVars

SwitchOff(s, places, handler) ==
    /\ active' = active \ places
    /\ Await(s, handler)
    /\ UNCHANGED regionsDisturbed

Switch(s, place) ==
    /\ active' = Set(place, task[s].on)
    /\ Finish(s)
    /\ UNCHANGED regionsDisturbed

-----------------------------------------------------------------------------
(* A country: switching it off switches off all that is in it, first.      *)

UpdateCountry(s, country, on) ==
    BeginUpdate(s, IF on THEN [pc |-> "country", country |-> country, on |-> on]
                         ELSE [pc |-> "states", country |-> country])

\* For contrast, a country that switches off its states and forgets the cities.
NoCities(country) == {}

CitiesOfCountry(country) == CitiesIn(StatesIn(country))

StatesOff(s) ==
    /\ At(s, "states")
    /\ SwitchOff(s, StatesIn(task[s].country),
                 [pc |-> "citiesOfCountry", country |-> task[s].country])

CitiesOfCountryOff(s) ==
    /\ At(s, "citiesOfCountry")
    /\ SwitchOff(s, CitiesOfCountry(task[s].country),
                 [pc |-> "country", country |-> task[s].country, on |-> FALSE])

WriteCountry(s) == At(s, "country") /\ Switch(s, task[s].country)

-----------------------------------------------------------------------------
(* A state, in a country that is on.                                       *)

UpdateState(s, state, on) == BeginUpdate(s, [pc |-> "parent", state |-> state, on |-> on])

CheckParent(s) ==
    /\ At(s, "parent")
    /\ Check(s, CountryOf[task[s].state] \in active,
             IF task[s].on THEN [task[s] EXCEPT !.pc = "state"]
                           ELSE [pc |-> "citiesOfState", state |-> task[s].state])

CitiesOfStateOff(s) ==
    /\ At(s, "citiesOfState")
    /\ SwitchOff(s, CitiesIn({task[s].state}),
                 [pc |-> "state", state |-> task[s].state, on |-> FALSE])

WriteState(s) == At(s, "state") /\ Switch(s, task[s].state)

-----------------------------------------------------------------------------
(* A city, in a country and a state that are on.                           *)

UpdateCity(s, city, on) == BeginUpdate(s, [pc |-> "grandparent", city |-> city, on |-> on])

CheckGrandparent(s) ==
    /\ At(s, "grandparent")
    /\ Check(s, CountryOf[StateOf[task[s].city]] \in active,
             [task[s] EXCEPT !.pc = "parentOfCity"])

CheckParentOfCity(s) ==
    /\ At(s, "parentOfCity")
    /\ Check(s, StateOf[task[s].city] \in active, [task[s] EXCEPT !.pc = "city"])

WriteCity(s) == At(s, "city") /\ Switch(s, task[s].city)

-----------------------------------------------------------------------------
\* An await throws: what has been switched off by then stays off.
UpdateFails(s) ==
    /\ task[s] \in RegionTask
    /\ Finish(s)
    /\ regionsDisturbed' = TRUE
    /\ UNCHANGED active

RegionsStep(s) ==
    \/ StatesOff(s) \/ CitiesOfCountryOff(s) \/ WriteCountry(s)
    \/ CheckParent(s) \/ CitiesOfStateOff(s) \/ WriteState(s)
    \/ CheckGrandparent(s) \/ CheckParentOfCity(s) \/ WriteCity(s)

RegionsNext ==
    \E s \in Slots :
        \/ \E on \in BOOLEAN :
            \/ \E country \in Countries : UpdateCountry(s, country, on)
            \/ \E state \in States : UpdateState(s, state, on)
            \/ \E city \in Cities : UpdateCity(s, city, on)
        \/ RegionsStep(s) \/ UpdateFails(s)

RegionsSpec == RequestsInit /\ RegionsInit /\ [][RegionsNext]_<<task, regionVars>>

-----------------------------------------------------------------------------
\* What is on lies in what is on, between updates that neither overlap nor stop
\* half-way: the switches of a country and the checks of a state or a city are
\* single statements, with nothing to hold them together.
ActiveInActive ==
    ~ regionsDisturbed /\ (\A s \in Slots : task[s] = Idle) =>
        /\ \A state \in States \cap active : CountryOf[state] \in active
        /\ \A city \in Cities \cap active : StateOf[city] \in active
=============================================================================
