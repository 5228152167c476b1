----------------------------- MODULE Registration -----------------------------
(***************************************************************************)
(* AuthService.register, UsersService.create and the account officers: who *)
(* is registered under which phone, and which officer looks after whom.    *)
(* Officers are registered by the seeds; users.remove is in Access.        *)
(***************************************************************************)
EXTENDS Requests, Naturals, FiniteSets

CONSTANTS
    People,      \* accounts there may be
    Phones,
    AccountOfficers,    \* accounts with the role account-officer
    Supervisors  \* accounts with the role supervisor

VARIABLES
    people,      \* table users: phone and roles
    officerOf,   \* table account_managements, by user_id
    supervisorOf \* table supervisors, by manager_id

registerVars == <<people, officerOf, supervisorOf>>

PublicRoles == {"rider", "driver"}
Person == [phone: Phones, roles: SUBSET PublicRoles]

ASSUME NoneIsNoAccount == None \notin Person \cup AccountOfficers

RegisterTask ==
    [pc: {"person"}, phone: Phones, role: PublicRoles]
    \cup [pc: {"role"}, id: People, role: PublicRoles]
    \cup [pc: {"officers"}, id: People]
    \cup [pc: {"assign"}, id: People, officer: AccountOfficers]
    \cup [pc: {"supervise"}, supervisor: Supervisors, managers: SUBSET AccountOfficers]

RegisterTypeOK ==
    /\ people \in [People -> Person \cup {None}]
    /\ officerOf \in [People -> AccountOfficers \cup {None}]
    /\ supervisorOf \in [AccountOfficers -> Supervisors \cup {None}]
    /\ \A s \in Slots : task[s] \in RegisterTask \cup {Idle}

RegisterInit ==
    /\ people = [p \in People |-> None]
    /\ officerOf = [p \in People |-> None]
    /\ supervisorOf = [m \in AccountOfficers |-> None]

WithPhone(phone) == {p \in People : people[p] # None /\ people[p].phone = phone}

-----------------------------------------------------------------------------
(* register: a phone that is known gains the role it has not yet, a new one*)
(* becomes a user.                                                         *)

Register(s, phone, role) ==
    /\ \A p \in WithPhone(phone) : role \notin people[p].roles   \* else: in use
    /\ \/ /\ WithPhone(phone) = {}
          /\ Begin(s, [pc |-> "person", phone |-> phone, role |-> role])
       \/ \E p \in WithPhone(phone) : Begin(s, [pc |-> "role", id |-> p, role |-> role])
    /\ UNCHANGED registerVars

\* users.update creates the role: a role added meanwhile makes it throw.
AddRole(s) ==
    /\ At(s, "role")
    /\ people' = [people EXCEPT ![task[s].id].roles = @ \cup {task[s].role}]
    /\ Finish(s)
    /\ UNCHANGED <<officerOf, supervisorOf>>

\* For contrast, a table without its unique phone.
PhoneNeverTaken(phone) == FALSE

PhoneTaken(phone) == WithPhone(phone) # {}

\* users.create, after a referral code that no row has: the unique phone refuses
\* the second of two registrations.  A driver is given an officer.
InsertUser(s) ==
    /\ At(s, "person")
    /\ IF PhoneTaken(task[s].phone)
       THEN Finish(s) /\ UNCHANGED people
       ELSE \E p \in People :
           /\ people[p] = None
           /\ people' = [people EXCEPT ![p] =
                 [phone |-> task[s].phone, roles |-> {task[s].role}]]
           /\ IF task[s].role = "driver"
              THEN Await(s, [pc |-> "officers", id |-> p])
              ELSE Finish(s)
    /\ UNCHANGED <<officerOf, supervisorOf>>

Load(m) == Cardinality({p \in People : officerOf[p] = m})

\* For contrast, a sort that puts the busiest officer first.
BusiestOfficers == {m \in AccountOfficers : \A n \in AccountOfficers : Load(n) <= Load(m)}

LeastLoaded == {m \in AccountOfficers : \A n \in AccountOfficers : Load(m) <= Load(n)}

\* assignToUser reads every officer with the drivers of each; without officers it
\* throws.
PickOfficer(s) ==
    /\ At(s, "officers")
    /\ \E m \in LeastLoaded :
        Await(s, [pc |-> "assign", id |-> task[s].id, officer |-> m])
    /\ UNCHANGED registerVars

\* The upsert by the unique user_id.
AssignOfficer(s) ==
    /\ At(s, "assign")
    /\ officerOf' = [officerOf EXCEPT ![task[s].id] = task[s].officer]
    /\ Finish(s)
    /\ UNCHANGED <<people, supervisorOf>>

\* An await throws: a user inserted by then stays, and registering again is refused.
RegisterFails(s) == task[s] \in RegisterTask /\ Finish(s) /\ UNCHANGED registerVars

-----------------------------------------------------------------------------
(* assignManagers: the officers named, or all of them, come under one      *)
(* supervisor.  The upserts run at once; each may fail by itself.          *)

FindManagers(s, supervisor, managers) ==
    /\ managers # {}
    /\ Begin(s, [pc |-> "supervise", supervisor |-> supervisor, managers |-> managers])
    /\ UNCHANGED registerVars

AssignManagers(s) ==
    /\ At(s, "supervise")
    /\ \E done \in SUBSET task[s].managers :
        supervisorOf' = [m \in AccountOfficers |->
            IF m \in done THEN task[s].supervisor ELSE supervisorOf[m]]
    /\ Finish(s)
    /\ UNCHANGED <<people, officerOf>>

-----------------------------------------------------------------------------
RegisterStep(s) ==
    \/ AddRole(s) \/ InsertUser(s) \/ PickOfficer(s) \/ AssignOfficer(s)
    \/ AssignManagers(s)

RegisterNext ==
    \E s \in Slots :
        \/ \E phone \in Phones, role \in PublicRoles : Register(s, phone, role)
        \/ \E v \in Supervisors, managers \in SUBSET AccountOfficers : FindManagers(s, v, managers)
        \/ RegisterStep(s)
        \/ RegisterFails(s)

RegisterSpec == RequestsInit /\ RegisterInit /\ [][RegisterNext]_<<task, registerVars>>

-----------------------------------------------------------------------------
\* However registrations overlap, a phone belongs to one account: what login by
\* phone and the one-account-two-roles registration rely on.
OneAccountPerPhone == \A phone \in Phones : Cardinality(WithPhone(phone)) <= 1

\* The loads of the officers differ by no more than the handlers in flight: the
\* officer is picked by counts that may be old when the driver is assigned.
OfficersShareDrivers ==
    \A m, n \in AccountOfficers : Load(m) <= Load(n) + Cardinality(Slots)
=============================================================================
