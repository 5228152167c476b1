------------------------------ MODULE SeedGrants ------------------------------
(***************************************************************************)
(* database/seeds/seed.ts: roles, permissions, grants and staff.  Four     *)
(* functions are started together and none waits for another, though each  *)
(* reads what the others write.  One that throws ends the process; a       *)
(* message advises to rerun the seeder.                                    *)
(***************************************************************************)
EXTENDS Naturals

CONSTANTS
    Permissions,       \* auth/permissions.ts
    DriverGrants,      \* those of the role driver
    SupervisorGrants,  \* those of supervisors and of account officers
    Admins, Officers,  \* the users created
    MaxRuns            \* bound on the runs of the seeder

VARIABLES
    roles,        \* table roles, by name
    permissions,  \* table permissions, by name
    grants,       \* table role_permissions
    staff,        \* users with their role
    function,     \* where each function is
    queries,      \* upserts in flight that look before they write
    runs,
    ready         \* the run found every role and permission in place

grantVars == <<roles, permissions, grants, staff, function, queries, runs, ready>>

ASSUME SeedAssumption ==
    /\ DriverGrants \cup SupervisorGrants \subseteq Permissions
    /\ Admins \cap Officers = {}
    /\ MaxRuns \in Nat

SuperAdminRole == "super-admin"
OfficerRoles == {"supervisor", "account-officer"}
SeedRoles == {SuperAdminRole, "driver"} \cup OfficerRoles
Functions == {"roles", "permissions", "grants", "staff"}

\* An upsert that gives the permissions perms to the roles of to.  key is the row
\* it looks for, a role or a permission.
Query ==
    [pc: {"look", "update", "create"}, role: {SuperAdminRole}, to: {{SuperAdminRole}},
     perms: SUBSET Permissions, nth: Permissions]
    \cup [pc: {"look", "update", "create"}, perm: Permissions, to: {{"driver"}, OfficerRoles}]

SeedGrantsTypeOK ==
    /\ roles \subseteq SeedRoles
    /\ permissions \subseteq Permissions
    /\ grants \subseteq roles \X permissions
    /\ staff \subseteq (Admins \X {SuperAdminRole}) \cup (Officers \X {"account-officer"})
    /\ function \in [Functions -> {"start", "read", "admins", "no officer", "done", "failed"}]
    /\ \A q \in queries : q \in Query
    /\ runs \in 0 .. MaxRuns /\ ready \in BOOLEAN

SeedGrantsInit ==
    /\ roles = {} /\ permissions = {} /\ grants = {} /\ staff = {}
    /\ function = [f \in Functions |-> "done"]
    /\ queries = {}
    /\ runs = 0 /\ ready = FALSE

To(f, pc) == function' = [function EXCEPT ![f] = pc]

-----------------------------------------------------------------------------
(* createMany with skipDuplicates                                          *)

\* For contrast, a createMany without skipDuplicates.
InsertRolesAnew ==
    /\ function["roles"] = "start"
    /\ roles' = SeedRoles
    /\ To("roles", IF roles = {} THEN "done" ELSE "failed")
    /\ UNCHANGED <<permissions, grants, staff, queries, runs, ready>>

InsertRoles ==
    /\ function["roles"] = "start"
    /\ roles' = SeedRoles
    /\ To("roles", "done")
    /\ UNCHANGED <<permissions, grants, staff, queries, runs, ready>>

InsertPermissions ==
    /\ function["permissions"] = "start"
    /\ permissions' = Permissions
    /\ To("permissions", "read")
    /\ UNCHANGED <<roles, grants, staff, queries, runs, ready>>

\* every: the role of each of its grants is another one.
Ungranted == {p \in permissions : <<SuperAdminRole, p>> \notin grants}

\* For each permission, one upsert of the super administrator with all of them.
GrantToSuperAdmin ==
    /\ function["permissions"] = "read"
    /\ queries' = queries \cup
           {[pc |-> "look", role |-> SuperAdminRole, to |-> {SuperAdminRole},
             perms |-> Ungranted, nth |-> p] : p \in Ungranted}
    /\ To("permissions", "done")
    /\ UNCHANGED <<roles, permissions, grants, staff, runs, ready>>

\* The upserts of permissions that carry grants.
Upserts(perms, to) == {[pc |-> "look", perm |-> p, to |-> to] : p \in perms}

\* For contrast, one that does not need the two other roles to be there.
GrantToOthersAnyway ==
    /\ function["grants"] = "start"
    /\ roles' = roles \cup {"driver"}
    /\ queries' = queries \cup Upserts(DriverGrants, {"driver"})
                         \cup Upserts(SupervisorGrants, OfficerRoles)
    /\ To("grants", "done")
    /\ UNCHANGED <<permissions, grants, staff, runs, ready>>

\* The driver's role is made if need be; the two others are only looked for, and a
\* missing one throws when its id is read, the driver's upserts already under way.
GrantToOthers ==
    /\ function["grants"] = "start"
    /\ roles' = roles \cup {"driver"}
    /\ IF OfficerRoles \subseteq roles
       THEN /\ queries' = queries \cup Upserts(DriverGrants, {"driver"})
                                  \cup Upserts(SupervisorGrants, OfficerRoles)
            /\ To("grants", "done")
       ELSE /\ queries' = queries \cup Upserts(DriverGrants, {"driver"})
            /\ To("grants", "failed")
    /\ UNCHANGED <<permissions, grants, staff, runs, ready>>

-----------------------------------------------------------------------------
(* An upsert with nested writes looks, then updates or creates in one      *)
(* transaction.  A row or a grant that is there by then violates a unique  *)
(* key: the error is caught and the whole transaction lost.                *)

Look(q) ==
    /\ q.pc = "look"
    /\ LET found == IF "role" \in DOMAIN q THEN q.role \in roles ELSE q.perm \in permissions IN
       queries' = (queries \ {q}) \cup
                      {[q EXCEPT !.pc = IF found THEN "update" ELSE "create"]}
    /\ UNCHANGED <<roles, permissions, grants, staff, function, runs, ready>>

Add(links) ==
    grants' = IF links \cap grants = {} THEN grants \cup links ELSE grants

\* A role that has to be created is created without permissions.
WriteRole(q) ==
    /\ q.pc # "look" /\ "role" \in DOMAIN q
    /\ IF q.pc = "update"
       THEN Add(q.to \X q.perms) /\ UNCHANGED roles
       ELSE roles' = roles \cup {q.role} /\ UNCHANGED grants
    /\ queries' = queries \ {q}
    /\ UNCHANGED <<permissions, staff, function, runs, ready>>

WritePermission(q) ==
    /\ q.pc # "look" /\ "perm" \in DOMAIN q
    /\ IF q.pc = "update"
       THEN Add(q.to \X {q.perm}) /\ UNCHANGED permissions
       ELSE IF q.perm \in permissions
       THEN UNCHANGED <<permissions, grants>>
       ELSE permissions' = permissions \cup {q.perm} /\ Add(q.to \X {q.perm})
    /\ queries' = queries \ {q}
    /\ UNCHANGED <<roles, staff, function, runs, ready>>

-----------------------------------------------------------------------------
(* The administrators, then the account officer, who keep the role they    *)
(* have when they exist.                                                   *)

ReadStaffRoles ==
    /\ function["staff"] = "start"
    /\ To("staff", IF SuperAdminRole \notin roles THEN "failed"
                   ELSE IF "account-officer" \notin roles THEN "no officer" ELSE "admins")
    /\ UNCHANGED <<roles, permissions, grants, staff, queries, runs, ready>>

UpsertAdmin(a) ==
    /\ function["staff"] \in {"admins", "no officer"}
    /\ <<a, SuperAdminRole>> \notin staff
    /\ staff' = staff \cup {<<a, SuperAdminRole>>}
    /\ UNCHANGED <<roles, permissions, grants, function, queries, runs, ready>>

UpsertOfficers ==
    /\ function["staff"] \in {"admins", "no officer"}
    /\ Admins \X {SuperAdminRole} \subseteq staff
    /\ IF function["staff"] = "admins"
       THEN staff' = staff \cup (Officers \X {"account-officer"}) /\ To("staff", "done")
       ELSE UNCHANGED staff /\ To("staff", "failed")
    /\ UNCHANGED <<roles, permissions, grants, queries, runs, ready>>

-----------------------------------------------------------------------------
Finished == \A f \in Functions : function[f] = "done"

\* A rejected function disconnects and exits; nothing is undone.  The place seeds or
\* the operator may end the process too.
Exit ==
    /\ ~ (Finished /\ queries = {})
    /\ function' = [f \in Functions |-> "done"]
    /\ queries' = {}
    /\ ready' = FALSE
    /\ UNCHANGED <<roles, permissions, grants, staff, runs>>

Run ==
    /\ Finished /\ queries = {}
    /\ runs < MaxRuns
    /\ runs' = runs + 1
    /\ ready' = (roles = SeedRoles /\ permissions = Permissions)
    /\ function' = [f \in Functions |-> "start"]
    /\ UNCHANGED <<roles, permissions, grants, staff, queries>>

SeedGrantsNext ==
    \/ InsertRoles \/ InsertPermissions \/ GrantToSuperAdmin \/ GrantToOthers
    \/ \E q \in queries : Look(q) \/ WriteRole(q) \/ WritePermission(q)
    \/ ReadStaffRoles \/ UpsertOfficers
    \/ \E a \in Admins : UpsertAdmin(a)
    \/ Exit \/ Run

SeedGrantsSpec == SeedGrantsInit /\ [][SeedGrantsNext]_grantVars

-----------------------------------------------------------------------------
Wanted ==
    ({SuperAdminRole} \X Permissions) \cup ({"driver"} \X DriverGrants)
        \cup (OfficerRoles \X SupervisorGrants)

\* Rerunning the seeder is enough, as its message says: whatever grants earlier
\* runs lost to the races of their upserts or to an exit, a run that finds the
\* roles and permissions in place does not throw, and once its upserts are through
\* every grant and every member of the staff is there.
RerunCompletes ==
    ready =>
        /\ \A f \in Functions : function[f] # "failed"
        /\ Finished /\ queries = {} =>
               /\ Wanted \subseteq grants
               /\ Admins \X {SuperAdminRole} \subseteq staff
               /\ Officers \X {"account-officer"} \subseteq staff
=============================================================================
