-------------------------------- MODULE Access --------------------------------
(***************************************************************************)
(* Who may do what: RolesService, the roles of UsersService and the three  *)
(* guards that every REST request passes.  A token names its user and says *)
(* nothing of roles: the guards read them, in several awaits, while        *)
(* administrators change them.                                             *)
(***************************************************************************)
EXTENDS Requests, Endpoints, Naturals, Sequences

CONSTANTS
    Callers,     \* the users; Root is the one with id 1
    Root,
    RoleNames,   \* names a role may have
    Calls,       \* the endpoints that are called
    MaxRoles     \* bound on the roles ever created

VARIABLES
    roleRows,    \* table roles with role_permissions: a sequence of ids
    userRoles,   \* table user_roles: None once the user is removed
    verified     \* whether the contact in use is verified

accessVars == <<roleRows, userRoles, verified>>

SuperAdmin == "super-admin"

ASSUME AccessAssumption ==
    /\ Root \in Callers /\ SuperAdmin \in RoleNames /\ Calls \subseteq AllEndpoints
    /\ MaxRoles \in Nat \ {0}

Grantable == {call.needs : call \in Calls} \ {NoPermission}
RoleIds == 1 .. MaxRoles
Role == [name: RoleNames, grants: SUBSET Grantable]

AccessTask ==
    [pc: {"user", "contact", "handler"}, user: Callers, call: Calls]
    \cup [pc: {"grants"}, user: Callers, call: Calls, roles: SUBSET RoleIds]
    \cup [pc: {"edit"}, role: RoleIds, name: RoleNames, grants: SUBSET Grantable]

\* A removed role keeps its id, which is not given again.
AccessTypeOK ==
    /\ DOMAIN roleRows \in {1 .. n : n \in 0 .. MaxRoles}
    /\ \A r \in DOMAIN roleRows : roleRows[r] \in Role \cup {None}
    /\ userRoles \in [Callers -> (SUBSET RoleIds) \cup {None}]
    /\ verified \in [Callers -> BOOLEAN]
    /\ \A s \in Slots : task[s] \in AccessTask \cup {Idle}

\* The seeds: one administrator, who has every permission by the name of the role.
AccessInit ==
    /\ roleRows = [r \in {1} |-> [name |-> SuperAdmin, grants |-> {}]]
    /\ userRoles = [u \in Callers |-> IF u = Root THEN {1} ELSE {}]
    /\ verified = [u \in Callers |-> u = Root]

Exists(r) == r \in DOMAIN roleRows /\ roleRows[r] # None
Named(name) == {r \in DOMAIN roleRows : Exists(r) /\ roleRows[r].name = name}

-----------------------------------------------------------------------------
(* RolesService                                                            *)

CreateRole(name, grants) ==
    /\ Named(name) = {}                     \* RecordExists, and the unique name
    /\ Len(roleRows) < MaxRoles
    /\ roleRows' = Append(roleRows, [name |-> name, grants |-> grants])
    /\ UNCHANGED <<userRoles, verified, task>>

\* update: the new name must be free, even to change no more than permissions; of
\* these the ones the role has not yet are created.
FindRole(s, r, name, grants) ==
    /\ Exists(r) /\ Named(name) = {}
    /\ Begin(s, [pc |-> "edit", role |-> r, name |-> name, grants |-> grants \ roleRows[r].grants])
    /\ UNCHANGED accessVars

\* It throws when the role is gone, the name taken or a permission given meanwhile.
UpdateRole(s) ==
    /\ At(s, "edit")
    /\ LET r == task[s].role IN
       IF Exists(r) /\ Named(task[s].name) = {} /\ task[s].grants \cap roleRows[r].grants = {}
       THEN roleRows' = [roleRows EXCEPT ![r] =
                [name |-> task[s].name, grants |-> @.grants \cup task[s].grants]]
       ELSE UNCHANGED roleRows
    /\ Finish(s)
    /\ UNCHANGED <<userRoles, verified>>

\* Any role, and with it the rows of its users.
RemoveRole(r) ==
    /\ Exists(r)
    /\ roleRows' = [roleRows EXCEPT ![r] = None]
    /\ userRoles' = [u \in Callers |-> IF userRoles[u] = None THEN None ELSE userRoles[u] \ {r}]
    /\ UNCHANGED <<verified, task>>

-----------------------------------------------------------------------------
(* The roles of UsersService                                               *)

\* For contrast, an update that sets the roles to those of the request.
RolesSet(old, new) == new

RolesAfter(old, new) == old \cup new

\* users.update creates each role named: one the user has already makes it throw.
UpdateUserRoles(u, roles) ==
    /\ userRoles[u] # None
    /\ roles # {} /\ roles \cap userRoles[u] = {}
    /\ \A r \in roles : Exists(r)
    /\ userRoles' = [userRoles EXCEPT ![u] = RolesAfter(@, roles)]
    /\ UNCHANGED <<roleRows, verified, task>>

RemoveUser(u) ==
    /\ u # Root /\ userRoles[u] # None
    /\ userRoles' = [userRoles EXCEPT ![u] = None]
    /\ UNCHANGED <<roleRows, verified, task>>

\* OneTimePasswords says when.
Verify(u) ==
    /\ verified' = [verified EXCEPT ![u] = ~ @]
    /\ UNCHANGED <<roleRows, userRoles, task>>

-----------------------------------------------------------------------------
(* JwtGuard, PermissionsGuard and VerificationGuard, in this order, then   *)
(* the handler.                                                            *)

\* The guards of a call whose first ones have let it pass.
AfterPermissions(call) == IF call.bypass THEN "handler" ELSE "contact"

\* A guest has no user: the later guards would have nobody to read.
GuestCall(s, u, call) ==
    /\ call.guest
    /\ Begin(s, [pc |-> AfterPermissions(call), user |-> u, call |-> call])
    /\ UNCHANGED accessVars

TokenCall(s, u, call) ==
    /\ ~ call.guest
    /\ Begin(s, [pc |-> IF call.needs = NoPermission THEN AfterPermissions(call) ELSE "user",
                 user |-> u, call |-> call])
    /\ UNCHANGED accessVars

\* hasPermissions: the roles of the user; without a user it throws.
ReadUser(s) ==
    /\ At(s, "user")
    /\ LET u == task[s].user
           call == task[s].call
       IN  IF userRoles[u] \in {None, {}}
           THEN Finish(s)
           ELSE IF userRoles[u] \cap Named(SuperAdmin) # {}
           THEN Await(s, [pc |-> AfterPermissions(call), user |-> u, call |-> call])
           ELSE Await(s, [pc |-> "grants", user |-> u, call |-> call, roles |-> userRoles[u]])
    /\ UNCHANGED accessVars

\* One permission of one role is enough.
ReadGrants(s) ==
    /\ At(s, "grants")
    /\ LET call == task[s].call IN
       IF \E r \in task[s].roles : Exists(r) /\ call.needs \in roleRows[r].grants
       THEN Await(s, [pc |-> AfterPermissions(call), user |-> task[s].user, call |-> call])
       ELSE Finish(s)
    /\ UNCHANGED accessVars

\* isProviderVerified
ReadContact(s) ==
    /\ At(s, "contact")
    /\ IF userRoles[task[s].user] # None /\ verified[task[s].user]
       THEN Await(s, [task[s] EXCEPT !.pc = "handler"])
       ELSE Finish(s)
    /\ UNCHANGED accessVars

Handle(s) == At(s, "handler") /\ Finish(s) /\ UNCHANGED accessVars

-----------------------------------------------------------------------------
AccessEvent ==
    \/ \E name \in RoleNames, grants \in SUBSET Grantable :
        \/ CreateRole(name, grants)
        \/ \E s \in Slots, r \in RoleIds : FindRole(s, r, name, grants)
    \/ \E r \in RoleIds : RemoveRole(r)
    \/ \E u \in Callers :
        \/ \E roles \in SUBSET RoleIds : UpdateUserRoles(u, roles)
        \/ RemoveUser(u)
        \/ Verify(u)
        \/ \E s \in Slots, call \in Calls : GuestCall(s, u, call) \/ TokenCall(s, u, call)

AccessStep(s) ==
    \/ ReadUser(s) \/ ReadGrants(s) \/ ReadContact(s)
    \/ Handle(s)
    \/ UpdateRole(s)

AccessNext == AccessEvent \/ \E s \in Slots : AccessStep(s)

AccessSpec == RequestsInit /\ AccessInit /\ [][AccessNext]_<<task, accessVars>>

-----------------------------------------------------------------------------
Holds(u, permission) ==
    \E r \in userRoles[u] :
        roleRows[r].name = SuperAdmin \/ permission \in roleRows[r].grants

\* The permission guard reads the user's roles and, an await later, their grants.
\* What it lets pass is nevertheless a right the caller has at that moment, unless
\* the caller has been removed in between: roles and grants are only ever added.
PassedIsGranted ==
    [][\A s \in Slots :
        task[s].pc = "grants" /\ task'[s].pc \in {"contact", "handler"} =>
            userRoles[task[s].user] = None \/ Holds(task[s].user, task[s].call.needs)]_<<task, accessVars>>

\* The decorators of every endpoint and the permissions the seeds create.
DecoratorsAgree ==
    \A call \in AllEndpoints :
        /\ call.guest => call.needs = NoPermission /\ call.bypass
        /\ call.needs \in AllPermissions \cup {NoPermission}

\* No guard reads the user of a request that has none: an endpoint open to guests
\* asks for no permission and bypasses verification.  And every permission an
\* endpoint asks for can be given to a role other than the super administrator's.
EndpointsAnswerable ==
    /\ DecoratorsAgree
    /\ \A s \in Slots : task[s].pc \in {"user", "grants", "contact"} => ~ task[s].call.guest
=============================================================================
