----------------------------- MODULE SerialProofs -----------------------------
(***************************************************************************)
(* What holds as long as nothing comes in between: a run of the seeder that*)
(* finds its rows, handlers that do not overlap.                           *)
(***************************************************************************)
EXTENDS SeedGrants, SeedPlaces, Fares, Promos, Regions, OnlineUsers,
        FiniteSetTheorems, TLAPS

-----------------------------------------------------------------------------
(* The seeds of grants: the upserts of the super administrator all carry   *)
(* what is left ungranted, so the first to write grants it and the others  *)
(* fail as a whole; those of the other roles carry a permission each.      *)

ForRole == {q \in queries : "role" \in DOMAIN q}
ForPermission == {q \in queries : "perm" \in DOMAIN q}
Granted(r, p) == <<r, p>> \in grants

\* A grant is there, or an upsert under way will make it, or the function that sends
\* the upserts is still to come.
SuperDue(p) ==
    \/ Granted(SuperAdminRole, p) \/ function["permissions"] # "done"
    \/ \E q \in ForRole : p \in q.perms
OtherDue(r, to, p) ==
    \/ Granted(r, p) \/ function["grants"] # "done"
    \/ \E q \in ForPermission : q.perm = p /\ q.to = to

OfficersAlike == \A p \in Permissions : Granted("supervisor", p) <=> Granted("account-officer", p)

\* One perms for all, none or all of it granted.
AllOrNone ==
    /\ \A q, r \in ForRole : q.perms = r.perms
    /\ \A q \in ForRole :
          \/ \A p \in q.perms : ~ Granted(SuperAdminRole, p)
          \/ \A p \in q.perms : Granted(SuperAdminRole, p)

RerunInv ==
    /\ roles = SeedRoles /\ permissions = Permissions
    /\ \A q \in queries : q.pc # "create"
    /\ \A f \in Functions : function[f] \notin {"failed", "no officer"}
    /\ ForRole # {} => function["permissions"] = "done"
    /\ AllOrNone
    /\ \A p \in Permissions : SuperDue(p)
    /\ \A p \in DriverGrants : OtherDue("driver", {"driver"}, p)
    /\ \A p \in SupervisorGrants : OtherDue("supervisor", OfficerRoles, p)
    /\ function["staff"] = "done" =>
          Admins \X {SuperAdminRole} \subseteq staff /\ Officers \X {"account-officer"} \subseteq staff

GrantsInv ==
    /\ DOMAIN function = Functions
    /\ \A q \in queries : q \in Query
    /\ permissions \subseteq Permissions /\ roles \subseteq SeedRoles
    /\ OfficersAlike
    /\ ready => RerunInv

LEMMA QueryKinds ==
    ASSUME NEW q \in Query
    PROVE  /\ q.pc \in {"look", "update", "create"}
           /\ "role" \in DOMAIN q =>
                 /\ "perm" \notin DOMAIN q /\ q.role = SuperAdminRole /\ q.to = {SuperAdminRole}
                 /\ q.perms \in SUBSET Permissions /\ q.nth \in Permissions
           /\ "role" \notin DOMAIN q =>
                 "perm" \in DOMAIN q /\ q.perm \in Permissions /\ q.to \in {{"driver"}, OfficerRoles}
<1>1. CASE q \in [pc: {"look", "update", "create"}, role: {SuperAdminRole}, to: {{SuperAdminRole}},
                  perms: SUBSET Permissions, nth: Permissions]
  BY <1>1
<1>2. CASE q \in [pc: {"look", "update", "create"}, perm: Permissions, to: {{"driver"}, OfficerRoles}]
  BY <1>2
<1> QED
  BY <1>1, <1>2 DEF Query

\* An upsert that has looked is the same but for pc.
LEMMA Looked ==
    ASSUME NEW q \in Query, NEW pc \in {"update", "create"}, NEW r, r = [q EXCEPT !.pc = pc]
    PROVE  /\ r \in Query /\ r.pc = pc /\ DOMAIN r = DOMAIN q /\ r.to = q.to
           /\ "role" \in DOMAIN q => r.perms = q.perms
           /\ "perm" \in DOMAIN q => r.perm = q.perm
<1>1. CASE q \in [pc: {"look", "update", "create"}, role: {SuperAdminRole}, to: {{SuperAdminRole}},
                  perms: SUBSET Permissions, nth: Permissions]
  BY <1>1 DEF Query
<1>2. CASE q \in [pc: {"look", "update", "create"}, perm: Permissions, to: {{"driver"}, OfficerRoles}]
  BY <1>2 DEF Query
<1> QED
  BY <1>1, <1>2 DEF Query

\* Writing permissions to roles writes all of them or none.
LEMMA Added ==
    ASSUME NEW to, NEW perms, Add(to \X perms)
    PROVE  \/ /\ \A r \in to : \A p \in perms : <<r, p>> \notin grants
              /\ grants' = grants \cup (to \X perms)
           \/ /\ \E r \in to : \E p \in perms : <<r, p>> \in grants
              /\ grants' = grants
<1>1. CASE (to \X perms) \cap grants = {}
  <2>1. \A r \in to : \A p \in perms : <<r, p>> \in to \X perms
    OBVIOUS
  <2> QED
    BY <1>1, <2>1 DEF Add
<1>2. CASE (to \X perms) \cap grants # {}
  <2>1. PICK x \in to \X perms : x \in grants
    BY <1>2
  <2>2. \E r \in to : \E p \in perms : x = <<r, p>>
    BY <2>1
  <2> QED
    BY <1>2, <2>1, <2>2 DEF Add
<1> QED
  BY <1>1, <1>2

LEMMA AddedOne ==
    ASSUME NEW to, NEW perm, Add(to \X {perm})
    PROVE  \/ grants' = grants \cup (to \X {perm})
           \/ grants' = grants /\ \E r \in to : <<r, perm>> \in grants
  BY Added

LEMMA AddedToOne ==
    ASSUME NEW role, NEW perms, Add({role} \X perms)
    PROVE  \/ grants' = grants \cup ({role} \X perms)
           \/ grants' = grants /\ \E p \in perms : <<role, p>> \in grants
<1>1. PICK to : to = {role}
  OBVIOUS
<1>2. Add(to \X perms)
  BY <1>1
<1>3. \/ grants' = grants \cup (to \X perms)
      \/ grants' = grants /\ \E r \in to : \E p \in perms : <<r, p>> \in grants
  BY <1>2, Added
<1> QED
  BY <1>1, <1>3

\* A grant that is due stays due while the upserts that are to make it stay.
LEMMA StaysDue ==
    ASSUME NEW r, NEW to, NEW p, OtherDue(r, to, p),
           Granted(r, p) => Granted(r, p)',
           function'["grants"] = "done" => function["grants"] = "done",
           \A x \in ForPermission : x.perm = p /\ x.to = to =>
               Granted(r, p)' \/ \E y \in ForPermission' : y.perm = p /\ y.to = to
    PROVE  OtherDue(r, to, p)'
  BY DEF OtherDue

\* The rows and the upserts stay, grants are kept, and a function may begin, end or
\* fail.
LEMMA RerunKept ==
    ASSUME GrantsInv, ready, UNCHANGED <<permissions, grants, queries>>, roles' = roles,
           NEW f \in Functions \ {"permissions", "grants"}, NEW pc, To(f, pc),
           pc \notin {"failed", "no officer"},
           staff \subseteq staff',
           f = "staff" /\ pc = "done" =>
               Admins \X {SuperAdminRole} \subseteq staff' /\ Officers \X {"account-officer"} \subseteq staff'
    PROVE  RerunInv'
<1>1. DOMAIN function' = Functions /\ function'[f] = pc /\ \A g \in Functions \ {f} : function'[g] = function[g]
  BY DEF GrantsInv, To
<1>2. RerunInv /\ {"permissions", "grants", "staff"} \subseteq Functions
  BY DEF GrantsInv, Functions
<1>3. ForRole' = ForRole /\ ForPermission' = ForPermission
  BY DEF ForRole, ForPermission
<1>4. /\ \A p \in Permissions : SuperDue(p)'
      /\ \A p \in DriverGrants : OtherDue("driver", {"driver"}, p)'
      /\ \A p \in SupervisorGrants : OtherDue("supervisor", OfficerRoles, p)'
  BY <1>1, <1>2, <1>3 DEF RerunInv, SuperDue, OtherDue, Granted
<1>5. AllOrNone'
  BY <1>2, <1>3 DEF RerunInv, AllOrNone, Granted
<1>6. /\ \A g \in Functions : function'[g] \notin {"failed", "no officer"}
      /\ ForRole' # {} => function'["permissions"] = "done"
      /\ function'["staff"] = "done" =>
            Admins \X {SuperAdminRole} \subseteq staff' /\ Officers \X {"account-officer"} \subseteq staff'
  BY <1>1, <1>2, <1>3 DEF RerunInv
<1> QED
  BY <1>2, <1>4, <1>5, <1>6 DEF RerunInv

\* What does not concern a run that finds its rows.
LEMMA GrantsKept ==
    ASSUME GrantsInv, permissions' \subseteq Permissions, roles' \subseteq SeedRoles,
           DOMAIN function' = Functions, \A q \in queries' : q \in Query,
           OfficersAlike', ready' => RerunInv'
    PROVE  GrantsInv'
  BY DEF GrantsInv

LEMMA StaysAlike ==
    ASSUME OfficersAlike, NEW to, NEW perms, Add(to \X perms),
           \/ to \in {{SuperAdminRole}, {"driver"}}
           \/ to = OfficerRoles /\ \E p : perms = {p}
    PROVE  OfficersAlike'
<1> SUFFICES ASSUME grants' = grants \cup (to \X perms),
                    \A r \in to : \A p \in perms : <<r, p>> \notin grants
             PROVE  OfficersAlike'
  BY Added DEF OfficersAlike, Granted
<1>1. CASE to \in {{SuperAdminRole}, {"driver"}}
  <2>1. "supervisor" \notin to /\ "account-officer" \notin to
    BY <1>1 DEF SuperAdminRole
  <2> QED
    BY <2>1 DEF OfficersAlike, Granted
<1>2. CASE to = OfficerRoles
  <2>1. \A p : <<"supervisor", p>> \in to \X perms <=> <<"account-officer", p>> \in to \X perms
    BY <1>2 DEF OfficerRoles
  <2> QED
    BY <2>1 DEF OfficersAlike, Granted
<1> QED
  BY <1>1, <1>2

\* An upsert has been written: what it was to make is there.
LEMMA WrittenUpsert ==
    ASSUME GrantsInv, ready, ready', UNCHANGED <<roles, permissions, function, staff>>,
           NEW q \in queries, queries' = queries \ {q},
           \A r, p : Granted(r, p) => Granted(r, p)',
           "role" \in DOMAIN q =>
               \A p \in q.perms : Granted(SuperAdminRole, p)',
           "role" \notin DOMAIN q =>
               /\ \A r \in q.to : Granted(r, q.perm)'
               /\ \A p : Granted(SuperAdminRole, p)' => Granted(SuperAdminRole, p)
    PROVE  RerunInv'
<1>1. RerunInv /\ ForRole' = ForRole \ {q} /\ ForPermission' = ForPermission \ {q}
  BY DEF GrantsInv, ForRole, ForPermission
<1>2. \A p \in Permissions : SuperDue(p)'
  BY <1>1 DEF RerunInv, SuperDue, ForRole
<1>3. q \in ForPermission => "role" \notin DOMAIN q
  BY QueryKinds DEF GrantsInv, ForPermission
<1>4. ASSUME NEW p \in DriverGrants PROVE OtherDue("driver", {"driver"}, p)'
  <2>1. OtherDue("driver", {"driver"}, p)
    BY <1>1 DEF RerunInv
  <2>2. q \in ForPermission /\ q.perm = p /\ q.to = {"driver"} => Granted("driver", p)'
    BY <1>3
  <2>3. \A x \in ForPermission : x.perm = p /\ x.to = {"driver"} =>
            Granted("driver", p)' \/ \E y \in ForPermission' : y.perm = p /\ y.to = {"driver"}
    BY <1>1, <2>2
  <2> QED
    BY <2>1, <2>3, StaysDue
<1>5. ASSUME NEW p \in SupervisorGrants PROVE OtherDue("supervisor", OfficerRoles, p)'
  <2>1. OtherDue("supervisor", OfficerRoles, p)
    BY <1>1 DEF RerunInv
  <2>2. q \in ForPermission /\ q.perm = p /\ q.to = OfficerRoles => Granted("supervisor", p)'
    BY <1>3 DEF OfficerRoles
  <2>3. \A x \in ForPermission : x.perm = p /\ x.to = OfficerRoles =>
            Granted("supervisor", p)' \/ \E y \in ForPermission' : y.perm = p /\ y.to = OfficerRoles
    BY <1>1, <2>2
  <2> QED
    BY <2>1, <2>3, StaysDue
<1>6. AllOrNone'
  <2>1. CASE "role" \in DOMAIN q
    BY <1>1, <2>1 DEF RerunInv, AllOrNone, ForRole
  <2>2. CASE "role" \notin DOMAIN q
    BY <1>1, <2>2 DEF RerunInv, AllOrNone, ForRole
  <2> QED
    BY <2>1, <2>2
<1> QED
  BY <1>1, <1>2, <1>4, <1>5, <1>6 DEF RerunInv

LEMMA GrantsStepInv ==
    ASSUME GrantsInv, SeedGrantsNext
    PROVE  GrantsInv'
<1>0. /\ DOMAIN function = Functions /\ {"roles", "permissions", "grants", "staff"} = Functions
      /\ \A q \in queries : q \in Query
      /\ permissions \subseteq Permissions /\ roles \subseteq SeedRoles /\ OfficersAlike
  BY DEF GrantsInv, Functions
<1>1. ASSUME UNCHANGED grants PROVE OfficersAlike'
  BY <1>0, <1>1 DEF OfficersAlike, Granted
<1>2. ASSUME NEW f, NEW pc, To(f, pc) PROVE DOMAIN function' = Functions
  BY <1>0, <1>2 DEF To
<1>3. CASE InsertRoles
  <2>1. /\ UNCHANGED <<permissions, grants, queries, staff, ready>> /\ To("roles", "done")
        /\ roles' = SeedRoles
    BY <1>3 DEF InsertRoles
  <2>2. ready' => RerunInv'
    <3>1. ready' => ready /\ roles' = roles
      BY <2>1 DEF GrantsInv, RerunInv
    <3>2. "roles" \in Functions \ {"permissions", "grants"}
      BY DEF Functions
    <3> QED
      BY <2>1, <3>1, <3>2, RerunKept
  <2> QED
    BY <1>0, <1>1, <1>2, <2>1, <2>2, GrantsKept
<1>4. CASE InsertPermissions
  <2>1. /\ UNCHANGED <<roles, grants, queries, staff, ready>> /\ To("permissions", "read")
        /\ function["permissions"] = "start" /\ permissions' = Permissions
    BY <1>4 DEF InsertPermissions
  <2>2. ready' => RerunInv'
    <3> SUFFICES ASSUME ready' PROVE RerunInv'
      OBVIOUS
    <3>1. /\ RerunInv /\ permissions' = permissions /\ ForRole' = ForRole
          /\ ForPermission' = ForPermission
      BY <2>1 DEF GrantsInv, RerunInv, ForRole, ForPermission
    <3>2. /\ function'["permissions"] = "read"
          /\ \A g \in Functions \ {"permissions"} : function'[g] = function[g]
      BY <1>0, <2>1 DEF To
    <3>3. ForRole = {} /\ ForRole' = {}
      BY <2>1, <3>1 DEF RerunInv
    <3>4. AllOrNone' /\ \A p \in Permissions : SuperDue(p)'
      BY <3>2, <3>3 DEF AllOrNone, SuperDue
    <3>5. /\ \A p \in DriverGrants : OtherDue("driver", {"driver"}, p)'
          /\ \A p \in SupervisorGrants : OtherDue("supervisor", OfficerRoles, p)'
      <4>1. /\ function'["grants"] = function["grants"] /\ UNCHANGED grants
            /\ ForPermission' = ForPermission
        BY <1>0, <2>1, <3>1, <3>2
      <4>2. /\ \A p \in DriverGrants : OtherDue("driver", {"driver"}, p)
            /\ \A p \in SupervisorGrants : OtherDue("supervisor", OfficerRoles, p)
        BY <3>1 DEF RerunInv
      <4> QED
        BY <4>1, <4>2, StaysDue DEF Granted
    <3> QED
      BY <1>0, <2>1, <3>1, <3>2, <3>3, <3>4, <3>5 DEF RerunInv
  <2> QED
    BY <1>0, <1>1, <1>2, <2>1, <2>2, GrantsKept
<1>5. CASE GrantToSuperAdmin
  <2> DEFINE sent == {[pc |-> "look", role |-> SuperAdminRole, to |-> {SuperAdminRole},
                       perms |-> Ungranted, nth |-> p] : p \in Ungranted}
  <2>1. /\ UNCHANGED <<roles, permissions, grants, staff, ready>> /\ To("permissions", "done")
        /\ function["permissions"] = "read" /\ queries' = queries \cup sent
    BY <1>5 DEF GrantToSuperAdmin
  <2>2. Ungranted \in SUBSET Permissions /\ \A p \in permissions : p \in Ungranted <=> ~ Granted(SuperAdminRole, p)
    BY <1>0 DEF Ungranted, Granted
  <2>3. /\ \A q \in sent : q \in Query /\ q.pc = "look" /\ "role" \in DOMAIN q /\ q.perms = Ungranted
        /\ \A p \in Ungranted : \E q \in sent : p \in q.perms
    <3> DEFINE look(p) == [pc |-> "look", role |-> SuperAdminRole, to |-> {SuperAdminRole},
                           perms |-> Ungranted, nth |-> p]
    <3>1. ASSUME NEW p \in Ungranted
          PROVE  /\ look(p) \in Query /\ look(p).pc = "look" /\ "role" \in DOMAIN look(p)
                 /\ look(p).perms = Ungranted
      BY <2>2 DEF Query
    <3>2. sent = {look(p) : p \in Ungranted}
      OBVIOUS
    <3> HIDE DEF sent, look
    <3> QED
      BY <3>1, <3>2
  <2> HIDE DEF sent
  <2>4. ready' => RerunInv'
    <3> SUFFICES ASSUME ready' PROVE RerunInv'
      OBVIOUS
    <3>1. RerunInv /\ permissions' = permissions /\ permissions = Permissions
      BY <2>1 DEF GrantsInv, RerunInv
    <3>2. /\ function'["permissions"] = "done"
          /\ \A g \in Functions \ {"permissions"} : function'[g] = function[g]
      BY <1>0, <2>1 DEF To
    <3>3. ForRole = {}
      BY <2>1, <3>1 DEF RerunInv
    <3>4. ForRole' = sent
      BY <2>1, <2>3, <3>3 DEF ForRole
    <3>5. ForPermission' = ForPermission
      BY <2>1, <2>3, QueryKinds DEF ForPermission
    <3>6. AllOrNone' /\ \A p \in Permissions : SuperDue(p)'
      BY <2>1, <2>2, <2>3, <3>1, <3>4 DEF AllOrNone, SuperDue, Granted, Ungranted
    <3>7. /\ \A p \in DriverGrants : OtherDue("driver", {"driver"}, p)'
          /\ \A p \in SupervisorGrants : OtherDue("supervisor", OfficerRoles, p)'
      <4>1. /\ function'["grants"] = function["grants"] /\ UNCHANGED grants
            /\ ForPermission' = ForPermission
        BY <1>0, <2>1, <3>2, <3>5
      <4>2. /\ \A p \in DriverGrants : OtherDue("driver", {"driver"}, p)
            /\ \A p \in SupervisorGrants : OtherDue("supervisor", OfficerRoles, p)
        BY <3>1 DEF RerunInv
      <4> QED
        BY <4>1, <4>2, StaysDue DEF Granted
    <3> QED
      BY <1>0, <2>1, <2>3, <3>1, <3>2, <3>6, <3>7 DEF RerunInv
  <2> QED
    BY <1>0, <1>1, <1>2, <2>1, <2>3, <2>4, GrantsKept
<1>6. CASE GrantToOthers
  <2>1. /\ UNCHANGED <<permissions, grants, staff, ready>> /\ function["grants"] = "start"
        /\ roles' = roles \cup {"driver"}
    BY <1>6 DEF GrantToOthers
  <2>2. \/ /\ OfficerRoles \subseteq roles /\ To("grants", "done")
           /\ queries' = queries \cup Upserts(DriverGrants, {"driver"})
                                 \cup Upserts(SupervisorGrants, OfficerRoles)
        \/ /\ ~ (OfficerRoles \subseteq roles) /\ To("grants", "failed")
           /\ queries' = queries \cup Upserts(DriverGrants, {"driver"})
    BY <1>6 DEF GrantToOthers
  <2>3. \A perms \in SUBSET Permissions : \A to \in {{"driver"}, OfficerRoles} :
            /\ \A q \in Upserts(perms, to) :
                  q \in Query /\ q.pc = "look" /\ "perm" \in DOMAIN q /\ "role" \notin DOMAIN q
            /\ \A p \in perms : \E q \in Upserts(perms, to) : q.perm = p /\ q.to = to
    <3> SUFFICES ASSUME NEW perms \in SUBSET Permissions, NEW to \in {{"driver"}, OfficerRoles}
                 PROVE  /\ \A q \in Upserts(perms, to) :
                              /\ q \in Query /\ q.pc = "look"
                              /\ "perm" \in DOMAIN q /\ "role" \notin DOMAIN q
                        /\ \A p \in perms : \E q \in Upserts(perms, to) : q.perm = p /\ q.to = to
      OBVIOUS
    <3> DEFINE look(p) == [pc |-> "look", perm |-> p, to |-> to]
    <3>1. ASSUME NEW p \in perms
          PROVE  /\ look(p) \in Query /\ look(p).pc = "look" /\ look(p).perm = p /\ look(p).to = to
                 /\ "perm" \in DOMAIN look(p) /\ "role" \notin DOMAIN look(p)
      BY DEF Query
    <3>2. Upserts(perms, to) = {look(p) : p \in perms}
      BY DEF Upserts
    <3> HIDE DEF look
    <3> QED
      BY <3>1, <3>2
  <2>4. DriverGrants \in SUBSET Permissions /\ SupervisorGrants \in SUBSET Permissions
    BY SeedAssumption
  <2>5. roles' \subseteq SeedRoles /\ \A q \in queries' : q \in Query
    BY <1>0, <2>1, <2>2, <2>3, <2>4 DEF SeedRoles
  <2>6. ready' => RerunInv'
    <3> SUFFICES ASSUME ready' PROVE RerunInv'
      OBVIOUS
    <3>1. RerunInv /\ OfficerRoles \subseteq roles /\ roles' = roles
      BY <2>1 DEF GrantsInv, RerunInv, SeedRoles
    <3>2. /\ To("grants", "done")
          /\ queries' = queries \cup Upserts(DriverGrants, {"driver"})
                                \cup Upserts(SupervisorGrants, OfficerRoles)
      BY <2>2, <3>1
    <3>3. /\ function'["grants"] = "done"
          /\ \A g \in Functions \ {"grants"} : function'[g] = function[g]
      BY <1>0, <3>2 DEF To
    <3>4. /\ ForRole' = ForRole
          /\ ForPermission' = ForPermission \cup Upserts(DriverGrants, {"driver"})
                                            \cup Upserts(SupervisorGrants, OfficerRoles)
      BY <2>3, <2>4, <3>2 DEF ForRole, ForPermission
    <3>5. AllOrNone' /\ \A p \in Permissions : SuperDue(p)'
      BY <1>0, <2>1, <3>1, <3>3, <3>4 DEF RerunInv, AllOrNone, SuperDue, Granted
    <3>6. /\ \A p \in DriverGrants : OtherDue("driver", {"driver"}, p)'
          /\ \A p \in SupervisorGrants : OtherDue("supervisor", OfficerRoles, p)'
      BY <2>3, <2>4, <3>4 DEF OtherDue
    <3> QED
      BY <1>0, <2>1, <2>3, <2>4, <3>1, <3>2, <3>3, <3>4, <3>5, <3>6 DEF RerunInv
  <2> QED
    BY <1>0, <1>1, <1>2, <2>1, <2>2, <2>5, <2>6, GrantsKept
<1>7. ASSUME NEW q \in queries, Look(q)
      PROVE  GrantsInv'
  <2>1. PICK pc \in {"update", "create"} :
            /\ queries' = (queries \ {q}) \cup {[q EXCEPT !.pc = pc]}
            /\ pc = "create" => IF "role" \in DOMAIN q THEN q.role \notin roles ELSE q.perm \notin permissions
    BY <1>7 DEF Look
  <2>2. UNCHANGED <<roles, permissions, grants, staff, function, ready>>
    BY <1>7 DEF Look
  <2> DEFINE r == [q EXCEPT !.pc = pc]
  <2>3. /\ r \in Query /\ r.pc = pc /\ DOMAIN r = DOMAIN q /\ r.to = q.to
        /\ "role" \in DOMAIN q => r.perms = q.perms
        /\ "perm" \in DOMAIN q => r.perm = q.perm
    BY <1>0, Looked
  <2>4. queries' = (queries \ {q}) \cup {r}
    BY <2>1
  <2> HIDE DEF r
  <2>5. ready' => RerunInv'
    <3> SUFFICES ASSUME ready' PROVE RerunInv'
      OBVIOUS
    <3>1. RerunInv /\ r.pc = "update"
      <4>1. RerunInv
        BY <2>2 DEF GrantsInv
      <4> QED
        BY <1>0, <2>1, <2>3, <4>1, QueryKinds DEF RerunInv, SeedRoles
    <3>2. /\ ForRole' = IF "role" \in DOMAIN q THEN (ForRole \ {q}) \cup {r} ELSE ForRole
          /\ ForPermission' = IF "perm" \in DOMAIN q THEN (ForPermission \ {q}) \cup {r} ELSE ForPermission
      BY <2>3, <2>4 DEF ForRole, ForPermission
    <3>3. /\ "role" \in DOMAIN q <=> q \in ForRole
          /\ "perm" \in DOMAIN q <=> q \in ForPermission
      BY DEF ForRole, ForPermission
    <3>4. AllOrNone'
      BY <2>2, <2>3, <3>1, <3>2, <3>3 DEF RerunInv, AllOrNone, Granted
    <3>5. \A p \in Permissions : SuperDue(p)'
      BY <2>2, <2>3, <3>1, <3>2, <3>3 DEF RerunInv, SuperDue, Granted
    <3>6. /\ \A p \in DriverGrants : OtherDue("driver", {"driver"}, p)'
          /\ \A p \in SupervisorGrants : OtherDue("supervisor", OfficerRoles, p)'
      <4>1. /\ \A p \in DriverGrants : OtherDue("driver", {"driver"}, p)
            /\ \A p \in SupervisorGrants : OtherDue("supervisor", OfficerRoles, p)
        BY <3>1 DEF RerunInv
      <4>2. \A x \in ForPermission : \E y \in ForPermission' : y.perm = x.perm /\ y.to = x.to
        BY <2>3, <3>2, <3>3
      <4> QED
        BY <2>2, <4>1, <4>2, StaysDue DEF Granted
    <3>7. ForRole' # {} => function'["permissions"] = "done"
      BY <2>2, <3>1, <3>2, <3>3 DEF RerunInv
    <3> QED
      BY <2>2, <2>4, <3>1, <3>4, <3>5, <3>6, <3>7 DEF RerunInv
  <2> QED
    BY <1>0, <1>1, <2>2, <2>3, <2>4, <2>5, GrantsKept
<1>8. ASSUME NEW q \in queries, WriteRole(q)
      PROVE  GrantsInv'
  <2>1. /\ q.pc # "look" /\ "role" \in DOMAIN q /\ queries' = queries \ {q}
        /\ UNCHANGED <<permissions, staff, function, ready>>
    BY <1>8 DEF WriteRole
  <2>2. q.role = SuperAdminRole /\ q.to = {SuperAdminRole} /\ q.pc \in {"look", "update", "create"}
    BY <1>0, <2>1, QueryKinds
  <2>3. CASE q.pc = "update"
    <3>1. Add(q.to \X q.perms) /\ UNCHANGED roles
      BY <1>8, <2>3 DEF WriteRole
    <3>2. OfficersAlike'
      BY <1>0, <2>2, <3>1, StaysAlike
    <3>3. ready' => RerunInv'
      <4> SUFFICES ASSUME ready' PROVE RerunInv'
        OBVIOUS
      <4>1. RerunInv /\ ready /\ q \in ForRole
        BY <2>1 DEF GrantsInv, ForRole
      <4>2. \/ \A p \in q.perms : ~ Granted(SuperAdminRole, p)
            \/ \A p \in q.perms : Granted(SuperAdminRole, p)
        BY <4>1 DEF RerunInv, AllOrNone
      <4>3. Add({SuperAdminRole} \X q.perms)
        BY <2>2, <3>1
      <4>4. \A p \in q.perms : Granted(SuperAdminRole, p)'
        <5>1. \/ grants' = grants \cup ({SuperAdminRole} \X q.perms)
              \/ grants' = grants /\ \E p \in q.perms : Granted(SuperAdminRole, p)
          BY <4>3, AddedToOne DEF Granted
        <5>2. \A p \in q.perms : <<SuperAdminRole, p>> \in {SuperAdminRole} \X q.perms
          OBVIOUS
        <5> QED
          BY <4>2, <5>1, <5>2 DEF Granted
      <4>5. \A r, p : Granted(r, p) => Granted(r, p)'
        BY <4>3, Added DEF Granted
      <4> QED
        BY <2>1, <3>1, <4>1, <4>4, <4>5, WrittenUpsert
    <3> QED
      BY <1>0, <2>1, <3>1, <3>2, <3>3, GrantsKept
  <2>4. CASE q.pc # "update"
    <3>1. roles' = roles \cup {q.role} /\ UNCHANGED grants
      BY <1>8, <2>4 DEF WriteRole
    <3>2. ~ ready
      BY <2>1, <2>2, <2>4 DEF GrantsInv, RerunInv
    <3> QED
      BY <1>0, <1>1, <2>1, <2>2, <3>1, <3>2, GrantsKept DEF SeedRoles
  <2> QED
    BY <2>3, <2>4
<1>9. ASSUME NEW q \in queries, WritePermission(q)
      PROVE  GrantsInv'
  <2>1. /\ q.pc # "look" /\ "perm" \in DOMAIN q /\ queries' = queries \ {q}
        /\ UNCHANGED <<roles, staff, function, ready>>
    BY <1>9 DEF WritePermission
  <2>2. /\ q.perm \in Permissions /\ q.to \in {{"driver"}, OfficerRoles} /\ "role" \notin DOMAIN q
        /\ q.pc \in {"look", "update", "create"}
    BY <1>0, <2>1, QueryKinds
  <2>3. permissions' \subseteq Permissions /\ (Add(q.to \X {q.perm}) \/ UNCHANGED grants)
    BY <1>0, <1>9, <2>2 DEF WritePermission
  <2>4. OfficersAlike'
    BY <1>0, <1>1, <2>2, <2>3, StaysAlike
  <2>5. ready' => RerunInv'
    <3> SUFFICES ASSUME ready' PROVE RerunInv'
      OBVIOUS
    <3>1. RerunInv /\ ready /\ q.pc = "update"
      BY <2>1, <2>2 DEF GrantsInv, RerunInv
    <3>2. Add(q.to \X {q.perm}) /\ UNCHANGED permissions
      BY <1>9, <3>1 DEF WritePermission
    <3>3. \A r \in q.to : Granted(r, q.perm)'
      <4>1. \A r, m \in q.to : Granted(r, q.perm) <=> Granted(m, q.perm)
        BY <1>0, <2>2 DEF OfficersAlike, OfficerRoles
      <4>2. \A r \in q.to : <<r, q.perm>> \in q.to \X {q.perm}
        OBVIOUS
      <4> QED
        BY <3>2, <4>1, <4>2, AddedOne DEF Granted
    <3>4. \A p : Granted(SuperAdminRole, p)' => Granted(SuperAdminRole, p)
      <4>1. SuperAdminRole \notin q.to
        BY <2>2 DEF OfficerRoles, SuperAdminRole
      <4>2. \A p : <<SuperAdminRole, p>> \notin q.to \X {q.perm}
        BY <4>1
      <4> QED
        BY <3>2, <4>2, AddedOne DEF Granted
    <3>5. \A r, p : Granted(r, p) => Granted(r, p)'
      BY <3>2, Added DEF Granted
    <3> QED
      BY <2>1, <2>2, <3>1, <3>2, <3>3, <3>4, <3>5, WrittenUpsert
  <2> QED
    BY <1>0, <2>1, <2>3, <2>4, <2>5, GrantsKept
<1>10. CASE ReadStaffRoles
  <2>1. UNCHANGED <<roles, permissions, grants, staff, queries, ready>>
    BY <1>10 DEF ReadStaffRoles
  <2>2. PICK pc : To("staff", pc) /\ pc # "done"
                    /\ (SeedRoles \subseteq roles => pc = "admins")
    BY <1>10 DEF ReadStaffRoles, SeedRoles, OfficerRoles
  <2>3. ready' => RerunInv'
    <3>1. ready' => ready /\ pc = "admins"
      BY <2>1, <2>2 DEF GrantsInv, RerunInv
    <3>2. "staff" \in Functions \ {"permissions", "grants"}
      BY DEF Functions
    <3> QED
      BY <2>1, <2>2, <3>1, <3>2, RerunKept
  <2> QED
    BY <1>0, <1>1, <1>2, <2>1, <2>2, <2>3, GrantsKept
<1>11. ASSUME NEW a \in Admins, UpsertAdmin(a)
       PROVE  GrantsInv'
  <2>1. UNCHANGED <<roles, permissions, grants, queries, function, ready>> /\ staff \subseteq staff'
    BY <1>11 DEF UpsertAdmin
  <2>2. ready' => RerunInv'
    BY <2>1 DEF GrantsInv, RerunInv, AllOrNone, SuperDue, OtherDue, ForRole, ForPermission, Granted
  <2> QED
    BY <1>0, <1>1, <2>1, <2>2, GrantsKept
<1>12. CASE UpsertOfficers
  <2>1. UNCHANGED <<roles, permissions, grants, queries, ready>>
    BY <1>12 DEF UpsertOfficers
  <2>2. Admins \X {SuperAdminRole} \subseteq staff /\ function["staff"] \in {"admins", "no officer"}
    BY <1>12 DEF UpsertOfficers
  <2>3. IF function["staff"] = "admins"
        THEN staff' = staff \cup (Officers \X {"account-officer"}) /\ To("staff", "done")
        ELSE To("staff", "failed")
    BY <1>12 DEF UpsertOfficers
  <2>4. ready' => RerunInv'
    <3>1. ready' => ready /\ function["staff"] = "admins"
      BY <1>0, <2>1, <2>2 DEF GrantsInv, RerunInv
    <3>2. "staff" \in Functions \ {"permissions", "grants"}
      BY DEF Functions
    <3> QED
      BY <2>1, <2>2, <2>3, <3>1, <3>2, RerunKept
  <2> QED
    BY <1>0, <1>1, <1>2, <2>1, <2>3, <2>4, GrantsKept
<1>13. CASE Exit
  BY <1>0, <1>1, <1>13, GrantsKept DEF Exit
<1>14. CASE Run
  <2>1. /\ queries = {} /\ UNCHANGED <<roles, permissions, grants, staff, queries>>
        /\ function' = [f \in Functions |-> "start"]
        /\ ready' = (roles = SeedRoles /\ permissions = Permissions)
    BY <1>14 DEF Run
  <2>2. ForRole' = {}
    BY <2>1 DEF ForRole
  <2>3. ready' => RerunInv'
    BY <1>0, <2>1, <2>2 DEF RerunInv, AllOrNone, SuperDue, OtherDue
  <2> QED
    BY <1>0, <1>1, <2>1, <2>3, GrantsKept
<1> QED
  BY <1>3, <1>4, <1>5, <1>6, <1>7, <1>8, <1>9, <1>10, <1>11, <1>12, <1>13, <1>14 DEF SeedGrantsNext

\* A run of the seeder that finds the roles and permissions completes what earlier
\* runs have lost, for any permissions and any number of runs.
THEOREM RerunRepairs == SeedGrantsSpec => []RerunCompletes
<1>1. SeedGrantsInit => GrantsInv
  BY DEF SeedGrantsInit, GrantsInv, OfficersAlike, Granted
<1>2. GrantsInv /\ [SeedGrantsNext]_grantVars => GrantsInv'
  <2>1. ASSUME GrantsInv, UNCHANGED grantVars PROVE GrantsInv'
    <3>1. UNCHANGED <<roles, permissions, grants, staff, function, queries, ready>>
      BY <2>1 DEF grantVars
    <3>2. /\ OfficersAlike' = OfficersAlike /\ AllOrNone' = AllOrNone
          /\ \A p : SuperDue(p)' = SuperDue(p) /\ \A r, to : OtherDue(r, to, p)' = OtherDue(r, to, p)
          /\ ForRole' = ForRole
      BY <3>1 DEF OfficersAlike, AllOrNone, SuperDue, OtherDue, ForRole, ForPermission, Granted
    <3> QED
      BY <2>1, <3>1, <3>2 DEF GrantsInv, RerunInv
  <2> QED
    BY <2>1, GrantsStepInv
<1>3. GrantsInv => RerunCompletes
  <2> SUFFICES ASSUME GrantsInv, ready PROVE RerunCompletes
    BY DEF RerunCompletes
  <2>1. RerunInv /\ \A f \in Functions : function[f] # "failed"
    BY DEF GrantsInv, RerunInv
  <2> SUFFICES ASSUME Finished, queries = {}
               PROVE  /\ Wanted \subseteq grants
                      /\ Admins \X {SuperAdminRole} \subseteq staff
                      /\ Officers \X {"account-officer"} \subseteq staff
    BY <2>1 DEF RerunCompletes
  <2>2. ForRole = {} /\ ForPermission = {} /\ \A f \in Functions : function[f] = "done"
    BY DEF ForRole, ForPermission, Finished
  <2>3. /\ \A p \in Permissions : Granted(SuperAdminRole, p)
        /\ \A p \in DriverGrants : Granted("driver", p)
        /\ \A p \in SupervisorGrants : Granted("supervisor", p)
    BY <2>1, <2>2 DEF RerunInv, SuperDue, OtherDue, Functions
  <2>4. \A p \in SupervisorGrants : Granted("account-officer", p)
    BY <2>3, SeedAssumption DEF GrantsInv, OfficersAlike
  <2>5. Wanted \subseteq grants
    BY <2>3, <2>4 DEF Wanted, Granted, OfficerRoles
  <2> QED
    BY <2>1, <2>2, <2>5 DEF RerunInv, Functions
<1> QED
  BY <1>1, <1>2, <1>3, PTL DEF SeedGrantsSpec

-----------------------------------------------------------------------------
(* The seeds of places: each name is in its table, or an upsert that will  *)
(* insert it, or one that will start that one, is under way.               *)

CountryOut(p) == \E u \in upserts : u.table = "country" /\ u.country = p[1]
StateOut(p) == \E u \in upserts : u.table = "state" /\ u.country = p[1] /\ u.state = p[2]
CityOut(p) == \E u \in upserts : u.table = "city" /\ u.city = p[3]
BankOut(b) == \E u \in upserts : u.table = "bank" /\ u.bank = b

StateDue(p) == (\E s \in states : s[1] = p[2]) \/ phase = "places" \/ CountryOut(p) \/ StateOut(p)
CityDue(p) ==
    (\E c \in cities : c[1] = p[3]) \/ phase = "places" \/ CountryOut(p) \/ StateOut(p) \/ CityOut(p)
BankDue(b) == b \in banks \/ phase \in {"places", "banks"} \/ BankOut(b)

PlacesInv ==
    /\ banks \subseteq Banks
    /\ \A u \in upserts :
          (u.table = "country" => u.country \in CountryNames) /\ (u.table = "bank" => u.bank \in Banks)
    /\ populated =>
          /\ countries = CountryNames /\ phase # "failed"
          /\ \A p \in Atlas : StateDue(p) /\ CityDue(p)
          /\ \A b \in Banks : BankDue(b)

LEMMA PlacesStepInv ==
    ASSUME PlacesInv, SeedPlacesNext
    PROVE  PlacesInv'
<1>1. CASE StartCountries
  <2> DEFINE sent == {[table |-> "country", country |-> c] : c \in CountryNames}
  <2>1. /\ upserts' = sent /\ phase = "places" /\ phase' = "banks"
        /\ UNCHANGED <<countries, states, cities, banks, populated>>
    BY <1>1 DEF StartCountries
  <2>2. /\ \A u \in sent : u.table = "country" /\ u.country \in CountryNames
        /\ \A p \in Atlas : \E u \in sent : u.table = "country" /\ u.country = p[1]
    <3> DEFINE row(c) == [table |-> "country", country |-> c]
    <3>1. \A c : row(c).table = "country" /\ row(c).country = c
      OBVIOUS
    <3>2. sent = {row(c) : c \in CountryNames}
      OBVIOUS
    <3> HIDE DEF row, sent
    <3>3. \A p \in Atlas : row(p[1]) \in sent
      BY <3>2 DEF CountryNames
    <3> QED
      BY <3>1, <3>2, <3>3
  <2> HIDE DEF sent
  <2>3. \A p \in Atlas : CountryOut(p)'
    BY <2>1, <2>2 DEF CountryOut
  <2>4. \A p \in Atlas : StateDue(p)' /\ CityDue(p)'
    BY <2>3 DEF StateDue, CityDue
  <2> QED
    BY <2>1, <2>2, <2>4 DEF PlacesInv, BankDue
<1>2. CASE StartBanks
  <2> DEFINE sent == {[table |-> "bank", bank |-> b] : b \in Banks}
  <2>1. /\ upserts' = upserts \cup sent /\ phase = "banks" /\ phase' = "end"
        /\ UNCHANGED <<countries, states, cities, banks, populated>>
    BY <1>2 DEF StartBanks
  <2>2. /\ \A u \in sent : u.table = "bank" /\ u.bank \in Banks
        /\ \A b \in Banks : \E u \in sent : u.table = "bank" /\ u.bank = b
    <3> DEFINE row(b) == [table |-> "bank", bank |-> b]
    <3>1. \A b : row(b).table = "bank" /\ row(b).bank = b
      OBVIOUS
    <3>2. sent = {row(b) : b \in Banks}
      OBVIOUS
    <3> HIDE DEF row, sent
    <3> QED
      BY <3>1, <3>2
  <2> HIDE DEF sent
  <2>3. \A b \in Banks : BankDue(b)'
    BY <2>1, <2>2 DEF BankDue, BankOut
  <2>4. ASSUME populated, NEW p \in Atlas PROVE StateDue(p)' /\ CityDue(p)'
    BY <2>1, <2>4 DEF PlacesInv, StateDue, CityDue, CountryOut, StateOut, CityOut
  <2> QED
    BY <2>1, <2>2, <2>3, <2>4 DEF PlacesInv
<1>3. ASSUME NEW u \in upserts, UpsertCountry(u)
      PROVE  PlacesInv'
  <2> DEFINE sent == {[table |-> "state", country |-> u.country, state |-> p[2]] :
                         p \in {p \in Atlas : p[1] = u.country}}
  <2>1. /\ u.table = "country" /\ upserts' = (upserts \ {u}) \cup sent
        /\ countries' = countries \cup {u.country}
        /\ UNCHANGED <<states, cities, banks, phase, populated>>
    BY <1>3 DEF UpsertCountry
  <2>2. /\ \A x \in sent : x.table = "state"
        /\ \A p \in Atlas : p[1] = u.country =>
              \E x \in sent : x.table = "state" /\ x.country = p[1] /\ x.state = p[2]
    <3> DEFINE row(p) == [table |-> "state", country |-> u.country, state |-> p[2]]
               within == {p \in Atlas : p[1] = u.country}
    <3>1. \A p : row(p).table = "state" /\ row(p).country = u.country /\ row(p).state = p[2]
      OBVIOUS
    <3>2. sent = {row(p) : p \in within} /\ \A p \in Atlas : p[1] = u.country => p \in within
      OBVIOUS
    <3> HIDE DEF row, sent, within
    <3> QED
      BY <3>1, <3>2
  <2> HIDE DEF sent
  <2>3. \A p \in Atlas : CountryOut(p) => CountryOut(p)' \/ StateOut(p)'
    BY <2>1, <2>2 DEF CountryOut, StateOut
  <2>4. /\ \A p \in Atlas : (StateOut(p) => StateOut(p)') /\ (CityOut(p) => CityOut(p)')
        /\ \A b \in Banks : BankOut(b) => BankOut(b)'
    BY <2>1 DEF StateOut, CityOut, BankOut
  <2>5. ASSUME populated
        PROVE  (\A p \in Atlas : StateDue(p)' /\ CityDue(p)') /\ (\A b \in Banks : BankDue(b)')
    BY <2>1, <2>3, <2>4, <2>5 DEF PlacesInv, StateDue, CityDue, BankDue
  <2> QED
    BY <2>1, <2>2, <2>5 DEF PlacesInv
<1>4. ASSUME NEW u \in upserts, UpsertState(u)
      PROVE  PlacesInv'
  <2> DEFINE sent == {[table |-> "city", city |-> p[3], state |-> u.state] :
                         p \in {p \in Atlas : p[1] = u.country /\ p[2] = u.state}}
  <2>1. /\ u.table = "state" /\ upserts' = (upserts \ {u}) \cup sent
        /\ UNCHANGED <<countries, cities, banks, phase, populated>>
    BY <1>4 DEF UpsertState
  <2>2. /\ \A s \in states : s \in states'
        /\ \E s \in states' : s[1] = u.state
    <3>1. states' = IF \E s \in states : s[1] = u.state THEN states
                    ELSE states \cup {<<u.state, u.country>>}
      BY <1>4 DEF UpsertState
    <3>2. <<u.state, u.country>>[1] = u.state
      OBVIOUS
    <3> QED
      BY <3>1, <3>2
  <2>3. /\ \A x \in sent : x.table = "city"
        /\ \A p \in Atlas : p[1] = u.country /\ p[2] = u.state =>
              \E x \in sent : x.table = "city" /\ x.city = p[3]
    <3> DEFINE row(p) == [table |-> "city", city |-> p[3], state |-> u.state]
               within == {p \in Atlas : p[1] = u.country /\ p[2] = u.state}
    <3>1. \A p : row(p).table = "city" /\ row(p).city = p[3]
      OBVIOUS
    <3>2. /\ sent = {row(p) : p \in within}
          /\ \A p \in Atlas : p[1] = u.country /\ p[2] = u.state => p \in within
      OBVIOUS
    <3> HIDE DEF row, sent, within
    <3> QED
      BY <3>1, <3>2
  <2> HIDE DEF sent
  <2>4. \A p \in Atlas :
            /\ StateOut(p) => StateOut(p)' \/ ((\E s \in states' : s[1] = p[2]) /\ CityOut(p)')
            /\ (CountryOut(p) => CountryOut(p)') /\ (CityOut(p) => CityOut(p)')
    BY <2>1, <2>2, <2>3 DEF CountryOut, StateOut, CityOut
  <2>5. \A b \in Banks : BankOut(b) => BankOut(b)'
    BY <2>1 DEF BankOut
  <2>6. ASSUME populated
        PROVE  (\A p \in Atlas : StateDue(p)' /\ CityDue(p)') /\ (\A b \in Banks : BankDue(b)')
    BY <2>1, <2>2, <2>4, <2>5, <2>6 DEF PlacesInv, StateDue, CityDue, BankDue
  <2> QED
    BY <2>1, <2>3, <2>6 DEF PlacesInv
<1>5. ASSUME NEW u \in upserts, UpsertCity(u)
      PROVE  PlacesInv'
  <2>1. /\ u.table = "city" /\ upserts' = upserts \ {u}
        /\ UNCHANGED <<countries, states, banks, phase, populated>>
    BY <1>5 DEF UpsertCity
  <2>2. /\ \A c \in cities : c \in cities'
        /\ \E c \in cities' : c[1] = u.city
    <3>1. cities' = IF \E c \in cities : c[1] = u.city THEN cities
                    ELSE cities \cup {<<u.city, u.state>>}
      BY <1>5 DEF UpsertCity
    <3>2. <<u.city, u.state>>[1] = u.city
      OBVIOUS
    <3> QED
      BY <3>1, <3>2
  <2>3. \A p \in Atlas :
            /\ CityOut(p) => CityOut(p)' \/ \E c \in cities' : c[1] = p[3]
            /\ (CountryOut(p) => CountryOut(p)') /\ (StateOut(p) => StateOut(p)')
    BY <2>1, <2>2 DEF CountryOut, StateOut, CityOut
  <2>4. \A b \in Banks : BankOut(b) => BankOut(b)'
    BY <2>1 DEF BankOut
  <2>5. ASSUME populated
        PROVE  (\A p \in Atlas : StateDue(p)' /\ CityDue(p)') /\ (\A b \in Banks : BankDue(b)')
    BY <2>1, <2>2, <2>3, <2>4, <2>5 DEF PlacesInv, StateDue, CityDue, BankDue
  <2> QED
    BY <2>1, <2>5 DEF PlacesInv
<1>6. ASSUME NEW u \in upserts, UpsertBank(u)
      PROVE  PlacesInv'
  <2>1. /\ u.table = "bank" /\ u.bank \in Banks /\ upserts' = upserts \ {u}
        /\ UNCHANGED <<countries, states, cities, populated>>
    BY <1>6 DEF UpsertBank, PlacesInv
  <2>2. IF u.bank[2] \in countries
        THEN banks' = banks \cup {u.bank} /\ UNCHANGED phase
        ELSE phase' = "failed" /\ UNCHANGED banks
    BY <1>6 DEF UpsertBank
  <2>3. u.bank[2] \in CountryNames
    BY <2>1, PlacesAssumption DEF CountryNames
  <2>4. \A p \in Atlas :
            /\ CityOut(p) => CityOut(p)'
            /\ (CountryOut(p) => CountryOut(p)') /\ (StateOut(p) => StateOut(p)')
    BY <2>1 DEF CountryOut, StateOut, CityOut
  <2>5. ASSUME populated
        PROVE  /\ UNCHANGED phase
               /\ (\A p \in Atlas : StateDue(p)' /\ CityDue(p)') /\ (\A b \in Banks : BankDue(b)')
    <3>1. banks' = banks \cup {u.bank} /\ UNCHANGED phase
      BY <2>2, <2>3, <2>5 DEF PlacesInv
    <3>2. \A p \in Atlas : StateDue(p)' /\ CityDue(p)'
      BY <2>1, <2>4, <2>5, <3>1 DEF PlacesInv, StateDue, CityDue
    <3>3. \A b \in Banks : BankDue(b)'
      BY <2>1, <2>5, <3>1 DEF PlacesInv, BankDue, BankOut
    <3> QED
      BY <3>1, <3>2, <3>3
  <2> QED
    BY <2>1, <2>2, <2>5 DEF PlacesInv
<1>7. CASE InsertSettings \/ UpdateSetting
  <2>1. UNCHANGED <<countries, states, cities, banks, phase, upserts, populated>>
    BY <1>7 DEF InsertSettings, UpdateSetting
  <2> QED
    BY <2>1 DEF PlacesInv, StateDue, CityDue, BankDue, CountryOut, StateOut, CityOut, BankOut
<1>8. CASE End
  BY <1>8 DEF End, PlacesInv
<1>9. CASE Seed
  BY <1>9 DEF Seed, PlacesInv, StateDue, CityDue, BankDue
<1> QED
  BY <1>1, <1>2, <1>3, <1>4, <1>5, <1>6, <1>7, <1>8, <1>9 DEF SeedPlacesNext

\* A run of the seeder that finds the countries completes the places of any atlas,
\* in whatever order its upserts answer.
THEOREM PlacesRepaired == SeedPlacesSpec => []PlacesComplete
<1>1. SeedPlacesInit => PlacesInv
  BY DEF SeedPlacesInit, PlacesInv
<1>2. PlacesInv /\ [SeedPlacesNext]_placeVars => PlacesInv'
  <2>1. PlacesInv /\ UNCHANGED placeVars => PlacesInv'
    BY DEF placeVars, PlacesInv, StateDue, CityDue, BankDue, CountryOut, StateOut, CityOut, BankOut
  <2> QED
    BY <2>1, PlacesStepInv
<1>3. PlacesInv => PlacesComplete
  <2>1. PlacesInv /\ upserts = {} =>
            (\A p \in Atlas : ~ CountryOut(p) /\ ~ StateOut(p) /\ ~ CityOut(p)) /\ \A b \in Banks : ~ BankOut(b)
    BY DEF CountryOut, StateOut, CityOut, BankOut
  <2> QED
    BY <2>1 DEF PlacesInv, PlacesComplete, StateDue, CityDue, BankDue
<1> QED
  BY <1>1, <1>2, <1>3, PTL DEF SeedPlacesSpec

-----------------------------------------------------------------------------
(* Handlers that have not overlapped: at most one is in flight.            *)

OneSlot == DOMAIN task = Slots
OneBusy == \A s, u \in Slots : task[s] # Idle /\ task[u] # Idle => s = u

LEMMA IdlePc == Idle.pc = "idle"
  BY DEF Idle

LEMMA BusyAlone ==
    ASSUME OneSlot, NEW s \in Slots, NEW h, Begin(s, h), Alone(s)
    PROVE  /\ OneSlot' /\ OneBusy' /\ task'[s] = h /\ \A u \in Slots \ {s} : task'[u] = Idle
           /\ \A u \in Slots : task[u] = Idle
  BY DEF OneSlot, OneBusy, Begin, Alone

LEMMA BusyOn ==
    ASSUME OneSlot, OneBusy, NEW s \in Slots, task[s] # Idle, NEW h, Await(s, h)
    PROVE  OneSlot' /\ OneBusy' /\ task'[s] = h /\ \A u \in Slots \ {s} : task'[u] = Idle /\ task[u] = Idle
  BY DEF OneSlot, OneBusy, Await

\* Whoever else is in flight.
LEMMA SlotsStay ==
    ASSUME OneSlot, NEW s \in Slots, NEW h, Begin(s, h) \/ Await(s, h)
    PROVE  OneSlot' /\ task'[s] = h /\ \A u \in Slots \ {s} : task'[u] = task[u]
  BY DEF OneSlot, Begin, Await

LEMMA FinishAwaits ==
    ASSUME NEW s, Finish(s)
    PROVE  Await(s, Idle)
  BY DEF Finish, Await

LEMMA AtBusy ==
    ASSUME NEW s, NEW pc, At(s, pc), pc # "idle"
    PROVE  task[s] # Idle
  BY IdlePc DEF At

LEMMA AtMostOne ==
    ASSUME NEW S, \A x, y \in S : x = y
    PROVE  Cardinality(S) <= 1
<1>1. CASE S = {}
  BY <1>1, FS_EmptySet
<1>2. CASE S # {}
  <2>1. PICK x : S = {x}
    BY <1>2
  <2>2. Cardinality({x}) = 1
    BY FS_Singleton
  <2> QED
    BY <2>1, <2>2
<1> QED
  BY <1>1, <1>2

-----------------------------------------------------------------------------
(* Fares: what the validator has looked at still holds when the row is     *)
(* written.                                                                *)

SamePlace(row, other) == row.area = other.area /\ row.kind = other.kind

OneFare == \A f, g \in KnownFares : SamePlace(fares[f], fares[g]) => f = g

\* The row the handler is to write is of a place without another fare.
FareFits(s) ==
    /\ At(s, "add") => \A f \in KnownFares : ~ SamePlace(task[s].row, fares[f])
    /\ At(s, "set") => \A f \in KnownFares \ {task[s].id} : ~ SamePlace(task[s].row, fares[f])

FaresInv ==
    /\ OneSlot /\ DOMAIN fares = FareIds
    /\ ~ overlapped => OneBusy /\ OneFare /\ \A s \in Slots : FareFits(s)

\* A handler begins that writes no fare, or one that fits.
LEMMA FaresBegin ==
    ASSUME FaresInv, NEW s \in Slots, NEW h, Begin(s, h), UNCHANGED fares,
           ~ overlapped' => ~ overlapped /\ Alone(s),
           ~ overlapped /\ ~ overlapped' /\ h.pc = "add" =>
               \A f \in KnownFares : ~ SamePlace(h.row, fares[f]),
           ~ overlapped /\ ~ overlapped' /\ h.pc = "set" =>
               \A f \in KnownFares \ {h.id} : ~ SamePlace(h.row, fares[f])
    PROVE  FaresInv'
<1>1. OneSlot' /\ DOMAIN fares' = FareIds
  BY SlotsStay DEF FaresInv
<1>2. ASSUME ~ overlapped'
      PROVE  OneBusy' /\ OneFare' /\ \A u \in Slots : FareFits(u)'
  <2>1. /\ OneBusy' /\ task'[s] = h /\ \A u \in Slots \ {s} : task'[u] = Idle
        /\ ~ overlapped
    BY <1>2, BusyAlone DEF FaresInv
  <2>2. KnownFares' = KnownFares
    BY DEF KnownFares
  <2>3. OneFare'
    BY <2>1, <2>2 DEF FaresInv, OneFare, SamePlace
  <2>4. FareFits(s)'
    BY <1>2, <2>1, <2>2 DEF FareFits, At, SamePlace
  <2>5. \A u \in Slots \ {s} : FareFits(u)'
    BY <2>1, IdlePc DEF FareFits, At
  <2> QED
    BY <2>1, <2>3, <2>4, <2>5
<1> QED
  BY <1>1, <1>2 DEF FaresInv

\* A handler ends; fares have gone, or changed to what keeps them apart.
LEMMA FaresEnd ==
    ASSUME FaresInv, NEW s \in Slots, task[s] # Idle, Finish(s),
           UNCHANGED overlapped, DOMAIN fares' = FareIds,
           ~ overlapped => OneFare'
    PROVE  FaresInv'
<1>1. OneSlot' /\ (~ overlapped => OneBusy' /\ \A u \in Slots : task'[u] = Idle)
  BY FinishAwaits, SlotsStay, BusyOn DEF FaresInv
<1>2. ~ overlapped => \A u \in Slots : FareFits(u)'
  BY <1>1, IdlePc DEF FareFits, At
<1> QED
  BY <1>1, <1>2 DEF FaresInv

LEMMA FaresStepInv ==
    ASSUME FaresInv, FaresNext
    PROVE  FaresInv'
<1>1. ASSUME NEW s \in Slots, NEW h, BeginFare(s, h), h.pc \notin {"add", "set"}
      PROVE  FaresInv'
  BY <1>1, FaresBegin DEF BeginFare
<1>2. ASSUME NEW s \in Slots, NEW row \in FareRow, CreateFare(s, row)
      PROVE  FaresInv'
  <2> DEFINE h == [pc |-> "add", row |-> row]
  <2>1. Begin(s, h) /\ overlapped' = (overlapped \/ ~ Alone(s)) /\ UNCHANGED fares
    BY <1>2 DEF CreateFare, BeginFare
  <2>2. \A f \in KnownFares : ~ SamePlace(h.row, fares[f])
    BY <1>2 DEF CreateFare, RecordExists, FaresAt, SamePlace
  <2>3. h.pc = "add"
    OBVIOUS
  <2> HIDE DEF h
  <2> QED
    BY <2>1, <2>2, <2>3, FaresBegin
<1>3. ASSUME NEW s \in Slots, NEW f \in FareIds, NEW row \in FareRow, UpdateFare(s, f, row)
      PROVE  FaresInv'
  <2> DEFINE h == [pc |-> "set", id |-> f, row |-> row]
  <2>1. /\ Begin(s, h) /\ UNCHANGED fares /\ f \in KnownFares
        /\ overlapped' = (overlapped \/ ~ Alone(s) \/ (row.kind = fares[f].kind /\ row.area # fares[f].area))
        /\ row.kind # fares[f].kind => ~ RecordExists(row.area, row.kind)
    BY <1>3 DEF UpdateFare
  <2>2. ASSUME ~ overlapped, ~ overlapped', NEW g \in KnownFares \ {f}
        PROVE  ~ SamePlace(row, fares[g])
    <3>1. CASE row.kind # fares[f].kind
      BY <2>1, <3>1 DEF RecordExists, FaresAt, SamePlace
    <3>2. CASE row.kind = fares[f].kind
      BY <2>1, <2>2, <3>2 DEF FaresInv, OneFare, SamePlace
    <3> QED
      BY <3>1, <3>2
  <2>3. h.pc = "set" /\ h.id = f /\ h.row = row
    OBVIOUS
  <2> HIDE DEF h
  <2> QED
    BY <2>1, <2>2, <2>3, FaresBegin
<1>4. ASSUME NEW s \in Slots, NEW f \in FareIds, DeleteFare(s, f)
      PROVE  FaresInv'
  BY <1>1, <1>4 DEF DeleteFare
<1>5. ASSUME NEW s \in Slots, NEW f \in FareIds, NEW peak \in Peak, CreatePeak(s, f, peak)
      PROVE  FaresInv'
  BY <1>1, <1>5 DEF CreatePeak
<1>6. ASSUME NEW s \in Slots, NEW f \in FareIds, NEW old \in Peak, NEW peak \in Peak \cup {None},
             FindPeak(s, f, old, peak)
      PROVE  FaresInv'
  BY <1>1, <1>6 DEF FindPeak
<1>7. ASSUME NEW s \in Slots, NEW area \in Areas, NEW kind \in Kinds,
             NEW time \in Minutes, NEW distance \in Minutes, Calculate(s, area, kind, time, distance)
      PROVE  FaresInv'
  BY <1>1, <1>7 DEF Calculate
<1>8. ASSUME NEW s \in Slots, AddFare(s)
      PROVE  FaresInv'
  <2>1. task[s] # Idle /\ At(s, "add") /\ Finish(s) /\ UNCHANGED overlapped
    BY <1>8, AtBusy DEF AddFare
  <2>2. PICK f \in FareIds \ KnownFares : fares' = [fares EXCEPT ![f] = task[s].row]
    BY <1>8 DEF AddFare
  <2>3. DOMAIN fares' = FareIds /\ fares'[f] = task[s].row /\ \A g \in FareIds \ {f} : fares'[g] = fares[g]
    BY <2>2 DEF FaresInv
  <2>4. KnownFares' \subseteq KnownFares \cup {f} /\ f \notin KnownFares /\ KnownFares \subseteq FareIds
    BY <2>2, <2>3 DEF KnownFares
  <2>5. ~ overlapped => OneFare'
    BY <2>1, <2>3, <2>4 DEF FaresInv, OneFare, FareFits, SamePlace
  <2> QED
    BY <2>1, <2>3, <2>5, FaresEnd
<1>9. ASSUME NEW s \in Slots, SetFare(s)
      PROVE  FaresInv'
  <2>1. task[s] # Idle /\ At(s, "set") /\ Finish(s) /\ UNCHANGED overlapped
    BY <1>9, AtBusy DEF SetFare
  <2>2. fares' = IF task[s].id \in KnownFares THEN [fares EXCEPT ![task[s].id] = task[s].row] ELSE fares
    BY <1>9 DEF SetFare
  <2>3. PICK f : f = task[s].id
    OBVIOUS
  <2>4. /\ DOMAIN fares' = FareIds /\ KnownFares' \subseteq KnownFares /\ KnownFares \subseteq FareIds
        /\ f \in KnownFares => fares'[f] = task[s].row
        /\ \A g \in KnownFares \ {f} : fares'[g] = fares[g]
    BY <2>2, <2>3 DEF FaresInv, KnownFares
  <2>5. ~ overlapped => OneFare'
    BY <2>1, <2>3, <2>4 DEF FaresInv, OneFare, FareFits, SamePlace
  <2> QED
    BY <2>1, <2>4, <2>5, FaresEnd
<1>10. ASSUME NEW s \in Slots, NEW travelled \in BOOLEAN, DropFare(s, travelled)
       PROVE  FaresInv'
  <2>1. task[s] # Idle /\ Finish(s) /\ UNCHANGED overlapped
    BY <1>10, AtBusy DEF DropFare
  <2>2. fares' = fares \/ \E f : fares' = [fares EXCEPT ![f] = None]
    BY <1>10 DEF DropFare
  <2>3. DOMAIN fares' = FareIds /\ \A g \in KnownFares' : g \in KnownFares /\ fares'[g] = fares[g]
    BY <2>2 DEF FaresInv, KnownFares
  <2>4. ~ overlapped => OneFare'
    BY <2>3 DEF FaresInv, OneFare
  <2> QED
    BY <2>1, <2>3, <2>4, FaresEnd
<1>11. ASSUME NEW s \in Slots, AddPeak(s) \/ SetPeak(s) \/ AnswerFare(s)
       PROVE  FaresInv'
  <2>1. task[s] # Idle /\ Finish(s) /\ UNCHANGED <<fares, overlapped>>
    BY <1>11, AtBusy DEF AddPeak, SetPeak, AnswerFare
  <2>2. ~ overlapped => OneFare'
    BY <2>1 DEF FaresInv, OneFare, KnownFares
  <2>3. DOMAIN fares' = FareIds
    BY <2>1 DEF FaresInv
  <2> QED
    BY <2>1, <2>2, <2>3, FaresEnd
<1> QED
  BY <1>2, <1>3, <1>4, <1>5, <1>6, <1>7, <1>8, <1>9, <1>10, <1>11 DEF FaresNext, FaresStep

\* As long as handlers of fares do not overlap and none moves a fare by its location
\* alone, a location has one fare for a type of vehicle.
THEOREM FaresUnique == FaresSpec => []OneFarePerPlace
<1>1. RequestsInit /\ FaresInit => FaresInv
  BY IdlePc DEF RequestsInit, FaresInit, FaresInv, OneSlot, OneBusy, OneFare, FareFits, KnownFares, At
<1>2. FaresInv /\ [FaresNext]_<<task, fareVars>> => FaresInv'
  <2>1. ASSUME FaresInv, UNCHANGED <<task, fareVars>> PROVE FaresInv'
    <3>1. UNCHANGED <<task, fares, overlapped>>
      BY <2>1 DEF fareVars
    <3>2. OneFare' = OneFare /\ OneBusy' = OneBusy /\ \A s : FareFits(s)' = FareFits(s)
      BY <3>1 DEF OneFare, OneBusy, FareFits, KnownFares, At
    <3> QED
      BY <2>1, <3>1, <3>2 DEF FaresInv, OneSlot
  <2> QED
    BY <2>1, FaresStepInv
<1>3. FaresInv => OneFarePerPlace
  <2> SUFFICES ASSUME FaresInv, ~ overlapped, NEW area \in Areas, NEW kind \in Kinds
               PROVE  Cardinality(FaresAt(area, kind)) <= 1
    BY DEF OneFarePerPlace
  <2>1. \A f, g \in FaresAt(area, kind) : f = g
    BY DEF FaresInv, OneFare, FaresAt, SamePlace
  <2> QED
    BY <2>1, AtMostOne
<1> QED
  BY <1>1, <1>2, <1>3, PTL DEF FaresSpec

-----------------------------------------------------------------------------
(* Promos: what an update has written and what it has yet to write make up *)
(* its list.                                                               *)

Updating(s) == task[s].pc \in {"saved", "addUsers", "removeUsers", "writePromo"}

PromoSized(s) ==
    /\ At(s, "insertPromo") \/ At(s, "saved") => task[s].ids \subseteq Customers
    /\ At(s, "addUsers") => task[s].new \subseteq Customers /\ "pc" \in DOMAIN task[s]

PromoFits(s) ==
    /\ At(s, "saved") => task[s].ids = wanted
    /\ At(s, "addUsers") => (promo.users \cup task[s].new) \ task[s].removed = wanted
    /\ At(s, "removeUsers") => promo.users \ task[s].removed = wanted
    /\ At(s, "writePromo") => promo.users = wanted

PromosSerial ==
    /\ promo # None
    /\ \A s \in Slots : ~ At(s, "insertPromo") /\ PromoFits(s)
    /\ \A s, u \in Slots : Updating(s) /\ Updating(u) => s = u
    /\ (\A s \in Slots : ~ Updating(s)) => promo.users = wanted

PromosInv ==
    /\ OneSlot /\ promo \in Promo \cup {None}
    /\ \A s \in Slots : PromoSized(s)
    /\ wanted # None => PromosSerial

\* What concerns one handler only.
LEMMA PromoOthers ==
    ASSUME PromosInv, NEW s \in Slots, NEW h, Begin(s, h) \/ Await(s, h),
           h.pc \in {"insertPromo", "saved"} => h.ids \subseteq Customers,
           h.pc = "addUsers" => h.new \subseteq Customers /\ "pc" \in DOMAIN h
    PROVE  /\ OneSlot' /\ task'[s] = h /\ \A u \in Slots \ {s} : task'[u] = task[u]
           /\ \A u \in Slots : PromoSized(u)'
<1>1. OneSlot' /\ task'[s] = h /\ \A u \in Slots \ {s} : task'[u] = task[u]
  BY SlotsStay DEF PromosInv
<1>2. PromoSized(s)'
  BY <1>1 DEF PromoSized, At
<1>3. \A u \in Slots \ {s} : PromoSized(u)'
  BY <1>1 DEF PromosInv, PromoSized, At
<1> QED
  BY <1>1, <1>2, <1>3

\* A handler that is no update begins, goes on or returns.
LEMMA PromoBeside ==
    ASSUME PromosInv, NEW s \in Slots, NEW h, Begin(s, h) \/ Await(s, h), ~ Updating(s),
           h.pc \notin {"saved", "addUsers", "removeUsers", "writePromo"},
           h.pc = "insertPromo" => h.ids \subseteq Customers /\ promo = None,
           UNCHANGED <<promo, wanted>>
    PROVE  PromosInv'
<1>1. /\ OneSlot' /\ task'[s] = h /\ \A u \in Slots \ {s} : task'[u] = task[u]
      /\ \A u \in Slots : PromoSized(u)'
  BY PromoOthers
<1>2. ASSUME wanted # None
      PROVE  PromosSerial'
  <2>1. \A u \in Slots \ {s} : PromoFits(u)' /\ ~ At(u, "insertPromo")' /\ Updating(u)' = Updating(u)
    BY <1>1, <1>2 DEF PromosInv, PromosSerial, PromoFits, At, Updating
  <2>2. PromoFits(s)' /\ ~ At(s, "insertPromo")' /\ ~ Updating(s)'
    BY <1>1, <1>2 DEF PromosInv, PromosSerial, PromoFits, At, Updating
  <2> QED
    BY <1>2, <2>1, <2>2 DEF PromosInv, PromosSerial
<1> QED
  BY <1>1, <1>2 DEF PromosInv

\* The one update goes on.
LEMMA PromoOn ==
    ASSUME PromosInv, NEW s \in Slots, NEW h, Await(s, h), Updating(s),
           h.pc \in {"addUsers", "removeUsers", "writePromo", "idle"},
           h.pc = "addUsers" => h.new \subseteq Customers /\ "pc" \in DOMAIN h,
           promo' \in Promo \cup {None},
           wanted' # None => wanted' = wanted /\ promo' # None /\ PromoFits(s)'
                                 /\ (h.pc = "idle" => promo'.users = wanted)
    PROVE  PromosInv'
<1>1. /\ OneSlot' /\ task'[s] = h /\ \A u \in Slots \ {s} : task'[u] = task[u]
      /\ \A u \in Slots : PromoSized(u)'
  BY PromoOthers
<1>2. ASSUME wanted' # None
      PROVE  PromosSerial'
  <2>1. PromosSerial /\ wanted' = wanted /\ promo' # None /\ PromoFits(s)'
    BY <1>2 DEF PromosInv
  <2>2. \A u \in Slots \ {s} : ~ Updating(u) /\ ~ Updating(u)' /\ ~ At(u, "insertPromo")'
    BY <1>1, <2>1 DEF PromosSerial, Updating, At
  <2>3. \A u \in Slots \ {s} : PromoFits(u)'
    BY <2>2 DEF PromoFits, Updating, At
  <2>4. ~ At(s, "insertPromo")' /\ (~ Updating(s)' => promo'.users = wanted')
    BY <1>1, <1>2, <2>1 DEF Updating, At
  <2> QED
    BY <2>1, <2>2, <2>3, <2>4 DEF PromosSerial
<1> QED
  BY <1>1, <1>2 DEF PromosInv

LEMMA PromosStepInv ==
    ASSUME PromosInv, PromosNext
    PROVE  PromosInv'
<1>1. ASSUME NEW s \in Slots, NEW ids \in SUBSET Customers, CreatePromo(s, ids)
      PROVE  PromosInv'
  <2> DEFINE h == [pc |-> "insertPromo", ids |-> IF ids = {} THEN Customers ELSE ids]
  <2>1. Begin(s, h) /\ promo = None /\ UNCHANGED <<promo, wanted>>
    BY <1>1 DEF CreatePromo, promoVars
  <2>2. h.pc = "insertPromo" /\ h.ids \subseteq Customers /\ ~ Updating(s)
    BY <2>1, IdlePc DEF Begin, Updating
  <2> HIDE DEF h
  <2> QED
    BY <2>1, <2>2, PromoBeside
<1>2. ASSUME NEW s \in Slots, InsertPromo(s)
      PROVE  PromosInv'
  <2>1. At(s, "insertPromo") /\ Await(s, Idle) /\ wanted' = wanted
    BY <1>2, FinishAwaits DEF InsertPromo
  <2>2. task[s].ids \subseteq Customers /\ wanted = None
    BY <2>1 DEF PromosInv, PromoSized, PromosSerial
  <2>3. promo' \in Promo \cup {None}
    BY <1>2, <2>2 DEF InsertPromo, PromosInv, Promo
  <2>4. OneSlot' /\ \A u \in Slots : PromoSized(u)'
    BY <2>1, IdlePc, PromoOthers
  <2> QED
    BY <2>1, <2>2, <2>3, <2>4 DEF PromosInv
<1>3. ASSUME NEW s \in Slots, NEW ids \in SUBSET Customers, NEW expiry \in BOOLEAN,
             UpdatePromo(s, ids, expiry)
      PROVE  PromosInv'
  <2> DEFINE h == [pc |-> "saved", ids |-> ids, expiry |-> expiry]
  <2>1. /\ Begin(s, h) /\ promo # None /\ promo' = promo
        /\ wanted' = IF Alone(s) THEN ids ELSE None
    BY <1>3 DEF UpdatePromo
  <2>2. h.pc = "saved" /\ h.ids = ids
    OBVIOUS
  <2> HIDE DEF h
  <2>3. /\ OneSlot' /\ task'[s] = h
        /\ \A u \in Slots : PromoSized(u)'
    BY <2>1, <2>2, PromoOthers
  <2>4. ASSUME wanted' # None
        PROVE  PromosSerial'
    <3>1. Alone(s) /\ wanted' = ids
      BY <2>1, <2>4
    <3>2. \A u \in Slots \ {s} : task'[u] = Idle
      BY <2>1, <3>1, BusyAlone DEF PromosInv
    <3>3. \A u \in Slots \ {s} : PromoFits(u)' /\ ~ At(u, "insertPromo")' /\ ~ Updating(u)'
      BY <3>2, IdlePc DEF PromoFits, At, Updating
    <3>4. PromoFits(s)' /\ ~ At(s, "insertPromo")' /\ Updating(s)'
      BY <2>2, <2>3, <3>1 DEF PromoFits, At, Updating
    <3> QED
      BY <2>1, <3>3, <3>4 DEF PromosSerial
  <2> QED
    BY <2>1, <2>3, <2>4 DEF PromosInv
<1>4. ASSUME NEW s \in Slots, ReadSaved(s)
      PROVE  PromosInv'
  <2>1. PICK ids : ids = task[s].ids
    OBVIOUS
  <2>2. PICK saved : saved = IF promo = None THEN {} ELSE promo.users
    OBVIOUS
  <2>3. PICK expiry : expiry = task[s].expiry
    OBVIOUS
  <2>4. PICK h : h = AtFirstWrite([pc |-> "saved", ids |-> ids, expiry |-> expiry,
                                   new |-> ids \ saved, removed |-> saved \ ids])
    OBVIOUS
  <2>5. Await(s, h) /\ UNCHANGED <<promo, wanted>> /\ At(s, "saved") /\ Updating(s)
    BY <1>4, <2>1, <2>2, <2>3, <2>4 DEF ReadSaved, Removed, promoVars, At, Updating
  <2>6. \/ /\ h.pc = "addUsers" /\ "pc" \in DOMAIN h
           /\ h.new = ids \ saved /\ h.removed = saved \ ids
        \/ ids \ saved = {} /\ h.pc = "removeUsers" /\ h.removed = saved \ ids
        \/ ids = saved /\ h.pc = "writePromo"
    BY <2>4 DEF AtFirstWrite, AtRemoval
  <2>7. ids \subseteq Customers
    BY <2>1, <2>5 DEF PromosInv, PromoSized
  <2>8. task'[s] = h
    BY <2>5, SlotsStay DEF PromosInv
  <2>9. ASSUME wanted' # None
        PROVE  promo # None /\ PromoFits(s)'
    <3>1. promo # None /\ wanted = ids /\ saved = promo.users
      BY <2>1, <2>2, <2>5, <2>9 DEF PromosInv, PromosSerial, PromoFits
    <3> QED
      BY <2>5, <2>6, <2>8, <3>1 DEF PromoFits, At
  <2> QED
    BY <2>5, <2>6, <2>7, <2>9, PromoOn DEF PromosInv
<1>5. ASSUME NEW s \in Slots, AddUsers(s)
      PROVE  PromosInv'
  <2>1. At(s, "addUsers") /\ Updating(s) /\ task[s].new \subseteq Customers /\ "pc" \in DOMAIN task[s]
    BY <1>5 DEF AddUsers, At, Updating, PromosInv, PromoSized
  <2>2. CASE promo # None /\ promo.users \cap task[s].new = {}
    <3>1. PICK h : h = AtRemoval(task[s])
      OBVIOUS
    <3>2. /\ promo' = [promo EXCEPT !.users = @ \cup task[s].new]
          /\ Await(s, h) /\ wanted' = wanted
      BY <1>5, <2>2, <3>1 DEF AddUsers
    <3>3. promo' \in Promo /\ promo'.users = promo.users \cup task[s].new
      BY <2>1, <2>2, <3>2 DEF PromosInv, Promo
    <3>4. \/ h.pc = "removeUsers" /\ h.removed = task[s].removed
          \/ task[s].removed = {} /\ h.pc = "writePromo"
      BY <2>1, <3>1 DEF AtRemoval
    <3>5. task'[s] = h /\ promo' # None
      BY <3>2, <3>3, SlotsStay, NoneIsNoPromo DEF PromosInv
    <3>6. ASSUME wanted' # None
          PROVE  PromoFits(s)'
      <4>1. (promo.users \cup task[s].new) \ task[s].removed = wanted
        BY <2>1, <3>2, <3>6 DEF PromosInv, PromosSerial, PromoFits
      <4>2. PICK new, removed : new = task[s].new /\ removed = task[s].removed
        OBVIOUS
      <4> QED
        BY <3>2, <3>3, <3>4, <3>5, <4>1, <4>2 DEF PromoFits, At
    <3> QED
      BY <2>1, <3>2, <3>3, <3>4, <3>5, <3>6, PromoOn
  <2>3. CASE ~ (promo # None /\ promo.users \cap task[s].new = {})
    <3>1. Await(s, Idle) /\ promo' = promo /\ wanted' = None
      BY <1>5, <2>3, FinishAwaits DEF AddUsers
    <3> QED
      BY <2>1, <3>1, IdlePc, PromoOn DEF PromosInv
  <2> QED
    BY <2>2, <2>3
<1>6. ASSUME NEW s \in Slots, RemoveUsers(s)
      PROVE  PromosInv'
  <2> DEFINE h == [pc |-> "writePromo", ids |-> task[s].ids, expiry |-> task[s].expiry]
  <2>1. At(s, "removeUsers") /\ Updating(s) /\ Await(s, h) /\ wanted' = wanted
    BY <1>6 DEF RemoveUsers, At, Updating
  <2>2. PICK removed : removed = task[s].removed
    OBVIOUS
  <2>3. promo' = IF promo = None THEN None ELSE [promo EXCEPT !.users = @ \ removed]
    BY <1>6, <2>2 DEF RemoveUsers
  <2>4. promo' \in Promo \cup {None} /\ (promo # None => promo' # None /\ promo'.users = promo.users \ removed)
    BY <2>3, NoneIsNoPromo DEF PromosInv, Promo
  <2>5. h.pc = "writePromo"
    OBVIOUS
  <2> HIDE DEF h
  <2>6. task'[s] = h
    BY <2>1, SlotsStay DEF PromosInv
  <2>7. ASSUME wanted' # None
        PROVE  promo' # None /\ PromoFits(s)'
    <3>1. promo # None /\ promo.users \ removed = wanted
      BY <2>1, <2>2, <2>7 DEF PromosInv, PromosSerial, PromoFits
    <3> QED
      BY <2>1, <2>4, <2>5, <2>6, <3>1 DEF PromoFits, At
  <2> QED
    BY <2>1, <2>4, <2>5, <2>7, PromoOn
<1>7. ASSUME NEW s \in Slots, WritePromo(s)
      PROVE  PromosInv'
  <2>1. At(s, "writePromo") /\ Updating(s) /\ Await(s, Idle) /\ wanted' = wanted
    BY <1>7, FinishAwaits DEF WritePromo, At, Updating
  <2>2. promo' \in Promo \cup {None} /\ (promo # None => promo' # None /\ promo'.users = promo.users)
    <3>1. PICK to : to = ~ task[s].expiry
      OBVIOUS
    <3> QED
      BY <1>7, <3>1, NoneIsNoPromo DEF WritePromo, PromosInv, Promo
  <2>3. task'[s] = Idle
    BY <2>1, SlotsStay DEF PromosInv
  <2>4. ASSUME wanted' # None
        PROVE  promo' # None /\ PromoFits(s)' /\ promo'.users = wanted
    <3>1. promo # None /\ promo.users = wanted
      BY <2>1, <2>4 DEF PromosInv, PromosSerial, PromoFits
    <3> QED
      BY <2>2, <2>3, <3>1, IdlePc DEF PromoFits, At
  <2> QED
    BY <2>1, <2>2, <2>4, IdlePc, PromoOn
<1>8. ASSUME RemovePromo
      PROVE  PromosInv'
  BY <1>8 DEF RemovePromo, PromosInv, OneSlot, PromoSized, At
<1>9. ASSUME NEW s \in Slots, NEW type \in DiscountType, CreateDiscount(s, type)
      PROVE  PromosInv'
  <2> DEFINE h == [pc |-> IF type = "active" THEN "listActive" ELSE "listInactive"]
  <2>1. Begin(s, h) /\ UNCHANGED <<promo, wanted>> /\ ~ Updating(s)
    BY <1>9, IdlePc DEF CreateDiscount, Begin, Updating
  <2>2. h.pc \in {"listActive", "listInactive"}
    OBVIOUS
  <2> HIDE DEF h
  <2> QED
    BY <2>1, <2>2, PromoBeside
<1>10. ASSUME NEW s \in Slots, NEW users, GiveToActive(s, users) \/ GiveToInactive(s, users)
       PROVE  PromosInv'
  <2>1. ~ Updating(s) /\ UNCHANGED <<promo, wanted>>
    BY <1>10 DEF GiveToActive, GiveToInactive, At, Updating
  <2>2. Await(s, Idle) \/ Await(s, [pc |-> "listInactive"])
    BY <1>10, FinishAwaits DEF GiveToActive, GiveToInactive
  <2> QED
    BY <2>1, <2>2, IdlePc, PromoBeside
<1>11. ASSUME NEW type \in DiscountType, UpdateDiscount(type) \/ DeleteDiscount
       PROVE  PromosInv'
  <2>1. UNCHANGED <<task, promo, wanted>>
    BY <1>11 DEF UpdateDiscount, DeleteDiscount
  <2> QED
    BY <2>1 DEF PromosInv, PromosSerial, OneSlot, PromoSized, PromoFits, Updating, At
<1>12. ASSUME NEW s \in Slots, PromoFails(s)
       PROVE  PromosInv'
  <2>1. Await(s, Idle) /\ promo' = promo /\ wanted' = None
    BY <1>12, FinishAwaits DEF PromoFails
  <2>2. OneSlot' /\ \A u \in Slots : PromoSized(u)'
    BY <2>1, IdlePc, PromoOthers
  <2> QED
    BY <2>1, <2>2 DEF PromosInv
<1>13. CASE DeleteDiscount
  <2>1. UNCHANGED <<task, promo, wanted>>
    BY <1>13 DEF DeleteDiscount
  <2> QED
    BY <2>1 DEF PromosInv, PromosSerial, OneSlot, PromoSized, PromoFits, Updating, At
<1> QED
  BY <1>1, <1>2, <1>3, <1>4, <1>5, <1>6, <1>7, <1>8, <1>9, <1>10, <1>11, <1>12, <1>13
  DEF PromosNext, PromosStep

\* Unless handlers overlap or fail, an update leaves the promo for the users it names.
THEOREM UpdateIsAsWanted == PromosSpec => []PromoIsAsWanted
<1>1. RequestsInit /\ PromosInit => PromosInv
  BY IdlePc DEF RequestsInit, PromosInit, PromosInv, OneSlot, PromoSized, At
<1>2. PromosInv /\ [PromosNext]_<<task, promoVars>> => PromosInv'
  <2>1. ASSUME PromosInv, UNCHANGED <<task, promoVars>> PROVE PromosInv'
    BY <2>1 DEF promoVars, PromosInv, PromosSerial, OneSlot, PromoSized, PromoFits, Updating, At
  <2> QED
    BY <2>1, PromosStepInv
<1>3. PromosInv => PromoIsAsWanted
  BY IdlePc DEF PromosInv, PromosSerial, PromoIsAsWanted, Updating
<1> QED
  BY <1>1, <1>2, <1>3, PTL DEF PromosSpec

-----------------------------------------------------------------------------
(* Online users: an entity that says online is of a user with an open      *)
(* socket, or its disconnect is on the way to it.                          *)

Connected == \E k \in RideSockets : rideSocket[k] = "open"
Writing(s) == task[s].pc \in {"update", "drop", "pushEntity"}

Leaving(s) ==
    \/ At(s, "get") /\ task[s].by = "disconnect"
    \/ (At(s, "update") \/ At(s, "drop")) /\ ~ task[s].data.is_online

OneEntity == \A e, f \in Held : e = f
OnlineIsConnected ==
    \A e \in Held : online[e].is_online => Connected \/ \E s \in Slots : Leaving(s)

OnlineKnows(s) ==
    /\ At(s, "get") /\ task[s].by # "disconnect" => Connected
    /\ Writing(s) /\ task[s].data.is_online => Connected
    /\ At(s, "drop") => Held \subseteq {task[s].key}
    /\ At(s, "pushEntity") => Held = {}

OnlineTyped(s) ==
    /\ At(s, "get") => task[s].by \in OnlineHandler /\ task[s].socket \in RideSockets
    /\ Writing(s) => task[s].data \in Online

OnlineSerial ==
    /\ OneBusy /\ OneEntity /\ OnlineIsConnected
    /\ \A s \in Slots : OnlineKnows(s)

OnlineInv ==
    /\ OneSlot /\ DOMAIN rideSocket = RideSockets /\ DOMAIN online = EntityKeys
    /\ \A e \in Held : online[e] \in Online
    /\ \A s \in Slots : OnlineTyped(s)
    /\ ~ disturbed => OnlineSerial

\* A handler begins or goes on: what the others know is none of its business.
LEMMA OnlineOthers ==
    ASSUME OnlineInv, NEW s \in Slots, NEW h, Begin(s, h) \/ Await(s, h),
           h.pc = "get" => h.by \in OnlineHandler /\ h.socket \in RideSockets,
           h.pc \in {"update", "drop", "pushEntity"} => h.data \in Online
    PROVE  OneSlot' /\ task'[s] = h /\ \A u \in Slots : OnlineTyped(u)'
<1>1. OneSlot' /\ task'[s] = h /\ \A u \in Slots \ {s} : task'[u] = task[u]
  BY SlotsStay DEF OnlineInv
<1>2. OnlineTyped(s)'
  BY <1>1 DEF OnlineTyped, At, Writing
<1>3. \A u \in Slots \ {s} : OnlineTyped(u)'
  BY <1>1 DEF OnlineInv, OnlineTyped, At, Writing
<1> QED
  BY <1>1, <1>2, <1>3

\* The one handler goes on from step to step.
LEMMA OnlineOn ==
    ASSUME OnlineInv, NEW s \in Slots, NEW h, Await(s, h), task[s] # Idle, h.pc # "get",
           h.pc \in {"update", "drop", "pushEntity"} => h.data \in Online,
           UNCHANGED <<rideSocket, disturbed>>, DOMAIN online' = EntityKeys,
           \A e \in Held' : online'[e] \in Online,
           ~ disturbed => /\ OneEntity'
                          /\ \A e \in Held' : online'[e].is_online => Connected \/ Leaving(s)'
                          /\ OnlineKnows(s)'
    PROVE  OnlineInv'
<1>1. OneSlot' /\ task'[s] = h /\ \A u \in Slots : OnlineTyped(u)'
  BY OnlineOthers
<1>2. ASSUME ~ disturbed'
      PROVE  OnlineSerial'
  <2>1. ~ disturbed /\ OneBusy' /\ \A u \in Slots \ {s} : task'[u] = Idle
    BY <1>2, BusyOn DEF OnlineInv, OnlineSerial
  <2>2. \A u \in Slots \ {s} : OnlineKnows(u)'
    BY <2>1, IdlePc DEF OnlineKnows, At, Writing
  <2>3. Connected' = Connected
    BY DEF Connected
  <2>4. OnlineIsConnected'
    BY <2>1, <2>3 DEF OnlineIsConnected
  <2> QED
    BY <2>1, <2>2, <2>4 DEF OnlineSerial
<1> QED
  BY <1>1, <1>2 DEF OnlineInv

LEMMA OnlineArrives ==
    ASSUME OnlineInv, NEW s \in Slots, NEW k \in RideSockets,
           NEW by \in OnlineHandler, NEW before, NEW after, Arrive(s, by, k, before, after),
           by # "disconnect" => after = "open"
    PROVE  OnlineInv'
<1> DEFINE h == [pc |-> "get", by |-> by, socket |-> k]
<1>1. /\ Begin(s, h) /\ disturbed' = (disturbed \/ ~ Alone(s)) /\ online' = online
      /\ rideSocket' = [rideSocket EXCEPT ![k] = after]
  BY DEF Arrive
<1>2. h.pc = "get" /\ h.by = by /\ h.socket = k
  OBVIOUS
<1> HIDE DEF h
<1>3. OneSlot' /\ task'[s] = h /\ \A u \in Slots : OnlineTyped(u)'
  BY <1>1, <1>2, OnlineOthers
<1>4. DOMAIN rideSocket' = RideSockets /\ rideSocket'[k] = after
  BY <1>1 DEF OnlineInv
<1>5. Held' = Held
  BY <1>1 DEF Held
<1>6. ASSUME ~ disturbed'
      PROVE  OnlineSerial'
  <2>1. /\ ~ disturbed /\ OneBusy' /\ \A u \in Slots \ {s} : task'[u] = Idle
        /\ \A u \in Slots : task[u] = Idle
    BY <1>1, <1>6, BusyAlone DEF OnlineInv
  <2>2. \A u \in Slots : ~ Leaving(u)
    BY <2>1, IdlePc DEF Leaving, At
  <2>3. by # "disconnect" => Connected'
    BY <1>4 DEF Connected
  <2>4. by = "disconnect" => Leaving(s)'
    BY <1>2, <1>3 DEF Leaving, At
  <2>5. OnlineIsConnected'
    BY <2>3, <2>4 DEF OnlineIsConnected
  <2>6. OneEntity'
    BY <1>5, <2>1 DEF OnlineInv, OnlineSerial, OneEntity
  <2>7. OnlineKnows(s)'
    BY <1>2, <1>3, <2>3 DEF OnlineKnows, At, Writing
  <2>8. \A u \in Slots \ {s} : OnlineKnows(u)'
    BY <2>1, IdlePc DEF OnlineKnows, At, Writing
  <2> QED
    BY <2>1, <2>5, <2>6, <2>7, <2>8 DEF OnlineSerial
<1> QED
  BY <1>1, <1>3, <1>4, <1>5, <1>6 DEF OnlineInv

LEMMA OpenedOnline ==
    ASSUME NEW k \in RideSockets
    PROVE  [is_online |-> TRUE, socket |-> k] \in Online
  BY DEF Online

LEMMA OnlineStepInv ==
    ASSUME OnlineInv, OnlineNext
    PROVE  OnlineInv'
<1>1. CASE OnlineRestart
  <2>1. /\ task' = [s \in Slots |-> Idle] /\ disturbed' /\ online' = online
        /\ DOMAIN rideSocket' = RideSockets
    BY <1>1 DEF OnlineRestart
  <2>2. OneSlot' /\ \A s \in Slots : OnlineTyped(s)'
    BY <2>1, IdlePc DEF OneSlot, OnlineTyped, At, Writing
  <2> QED
    BY <2>1, <2>2 DEF OnlineInv, Held
<1>2. ASSUME NEW s \in Slots, NEW k \in RideSockets,
             ConnectUser(s, k) \/ DisconnectUser(s, k) \/ MoveUser(s, k)
      PROVE  OnlineInv'
  BY <1>2, OnlineArrives DEF ConnectUser, DisconnectUser, MoveUser, OnlineHandler
<1>3. ASSUME NEW s \in Slots, GetUser(s)
      PROVE  OnlineInv'
  <2>1. /\ At(s, "get") /\ task[s] # Idle /\ UNCHANGED <<rideSocket, online, disturbed>>
        /\ task[s].by \in OnlineHandler /\ task[s].socket \in RideSockets
    BY <1>3, AtBusy DEF GetUser, onlineVars, OnlineInv, OnlineTyped
  <2>2. Held' = Held /\ \A e \in Held' : online'[e] \in Online
    BY <2>1 DEF Held, OnlineInv
  <2>3. ~ disturbed => OneEntity' /\ (task[s].by # "disconnect" => Connected)
    BY <2>1, <2>2 DEF OnlineInv, OnlineSerial, OneEntity, OnlineKnows
  <2>4. CASE Held = {}
    <3>1. PICK h : h = NotFoundOnline(task[s])
      OBVIOUS
    <3>2. Await(s, h)
      BY <1>3, <2>4, <3>1 DEF GetUser
    <3>3. \/ h.pc = "idle"
          \/ /\ h.pc = "pushEntity" /\ task[s].by = "connect"
             /\ h.data = [is_online |-> TRUE, socket |-> task[s].socket]
      BY <3>1, IdlePc DEF NotFoundOnline
    <3>4. h.pc = "pushEntity" => h.data \in Online
      BY <2>1, <3>3, OpenedOnline
    <3>5. task'[s] = h
      BY <3>2, SlotsStay DEF OnlineInv
    <3>6. ~ disturbed => OnlineKnows(s)'
      BY <2>2, <2>3, <2>4, <2>1, <3>3, <3>5 DEF OnlineKnows, At, Writing, Connected
    <3> QED
      BY <2>1, <2>2, <2>3, <2>4, <3>2, <3>3, <3>4, <3>6, OnlineOn DEF OnlineInv
  <2>5. ASSUME NEW e \in Held, Await(s, FoundOnline(task[s], e))
        PROVE  OnlineInv'
    <3>1. PICK h : h = FoundOnline(task[s], e)
      OBVIOUS
    <3>2. PICK user : user = online[e]
      OBVIOUS
    <3>3. user \in Online
      BY <3>2 DEF OnlineInv
    <3>4. task'[s] = h /\ Await(s, h)
      BY <2>5, <3>1, SlotsStay DEF OnlineInv
    <3>5. CASE task[s].by = "connect"
      <4>1. \/ h = Idle
            \/ /\ h.pc = "drop" /\ h.key = e
               /\ h.data = [is_online |-> TRUE, socket |-> task[s].socket]
        BY <3>1, <3>5 DEF FoundOnline
      <4>2. h.pc = "drop" => h.data \in Online
        BY <2>1, <4>1, IdlePc, OpenedOnline
      <4>3. ~ disturbed => Connected /\ OnlineKnows(s)'
        BY <2>1, <2>2, <2>3, <3>4, <3>5, <4>1, IdlePc DEF OneEntity, OnlineKnows, At, Writing, Connected
      <4>4. h.pc \in {"idle", "drop"}
        BY <4>1, IdlePc
      <4> QED
        BY <2>1, <2>2, <2>3, <3>4, <4>2, <4>3, <4>4, OnlineOn DEF OnlineInv
    <3>6. CASE task[s].by = "disconnect"
      <4>1. h.pc = "update" /\ h.data = [user EXCEPT !.is_online = FALSE]
        BY <3>1, <3>2, <3>6 DEF FoundOnline, GoneOffline
      <4>2. h.data \in Online /\ ~ h.data.is_online
        BY <3>3, <4>1 DEF Online
      <4>3. Leaving(s)' /\ OnlineKnows(s)'
        BY <3>4, <4>1, <4>2 DEF Leaving, OnlineKnows, At, Writing
      <4> QED
        BY <2>1, <2>2, <2>3, <3>4, <4>1, <4>2, <4>3, OnlineOn DEF OnlineInv
    <3>7. CASE task[s].by = "updateLocation"
      <4>1. h.pc = "update" /\ h.data = [user EXCEPT !.socket = task[s].socket]
        BY <3>1, <3>2, <3>7 DEF FoundOnline
      <4>2. h.data \in Online
        BY <2>1, <3>3, <4>1 DEF Online
      <4>3. ~ disturbed => Connected /\ OnlineKnows(s)'
        BY <2>1, <2>3, <3>4, <3>7, <4>1 DEF OnlineKnows, At, Writing, Connected
      <4> QED
        BY <2>1, <2>2, <2>3, <3>4, <4>1, <4>2, <4>3, OnlineOn DEF OnlineInv
    <3> QED
      BY <2>1, <3>5, <3>6, <3>7 DEF OnlineHandler
  <2> QED
    BY <1>3, <2>4, <2>5 DEF GetUser
<1>4. ASSUME NEW s \in Slots, UpdateGet(s)
      PROVE  OnlineInv'
  <2>1. /\ At(s, "update") /\ task[s] # Idle /\ UNCHANGED <<rideSocket, online, disturbed>>
        /\ task[s].data \in Online
    BY <1>4, AtBusy DEF UpdateGet, onlineVars, OnlineInv, OnlineTyped, At, Writing
  <2>2. Held' = Held /\ \A e \in Held' : online'[e] \in Online
    BY <2>1 DEF Held, OnlineInv
  <2>3. ~ disturbed => /\ OneEntity /\ OneEntity' /\ OnlineIsConnected
                       /\ task[s].data.is_online => Connected
                       /\ \A u \in Slots \ {s} : task[u] = Idle
    BY <2>1, <2>2 DEF OnlineInv, OnlineSerial, OneBusy, OneEntity, OnlineKnows, At, Writing
  <2>4. CASE Held = {}
    <3>1. Await(s, Idle)
      BY <1>4, <2>4, FinishAwaits DEF UpdateGet
    <3>2. task'[s] = Idle
      BY <3>1, SlotsStay DEF OnlineInv
    <3>3. OnlineKnows(s)'
      BY <3>2, IdlePc DEF OnlineKnows, At, Writing
    <3> QED
      BY <2>1, <2>2, <2>3, <2>4, <3>1, <3>3, IdlePc, OnlineOn DEF OnlineInv
  <2>5. ASSUME NEW e \in Held,
               Await(s, [pc |-> "drop", by |-> task[s].by, data |-> task[s].data, key |-> e])
        PROVE  OnlineInv'
    <3>1. PICK h : h = [pc |-> "drop", by |-> task[s].by, data |-> task[s].data, key |-> e]
      OBVIOUS
    <3>2. h.pc = "drop" /\ h.data = task[s].data /\ h.key = e
      BY <3>1
    <3>3. task'[s] = h /\ Await(s, h)
      BY <2>5, <3>1, SlotsStay DEF OnlineInv
    <3>4. ~ disturbed => OnlineKnows(s)'
      BY <2>1, <2>2, <2>3, <3>2, <3>3 DEF OneEntity, OnlineKnows, At, Writing, Connected
    <3>5. Leaving(s) => Leaving(s)'
      BY <2>1, <3>2, <3>3 DEF Leaving, At
    <3>6. ~ disturbed => \A d \in Held' : online'[d].is_online => Connected \/ Leaving(s)'
      BY <2>1, <2>2, <2>3, <3>5, IdlePc DEF OnlineIsConnected, Leaving, At
    <3> QED
      BY <2>1, <2>2, <2>3, <3>2, <3>3, <3>4, <3>6, OnlineOn DEF OnlineInv
  <2> QED
    BY <1>4, <2>4, <2>5 DEF UpdateGet
<1>5. ASSUME NEW s \in Slots, DropEntity(s)
      PROVE  OnlineInv'
  <2> DEFINE h == [pc |-> "pushEntity", by |-> task[s].by, data |-> task[s].data]
  <2>1. /\ At(s, "drop") /\ task[s] # Idle /\ UNCHANGED <<rideSocket, disturbed>>
        /\ online' = [online EXCEPT ![task[s].key] = None] /\ Await(s, h)
        /\ task[s].data \in Online
    BY <1>5, AtBusy DEF DropEntity, OnlineInv, OnlineTyped, At, Writing
  <2>2. h.pc = "pushEntity" /\ h.data = task[s].data
    OBVIOUS
  <2> HIDE DEF h
  <2>3. DOMAIN online' = EntityKeys /\ Held' = Held \ {task[s].key} /\ \A e \in Held' : online'[e] = online[e]
    BY <2>1 DEF OnlineInv, Held
  <2>4. task'[s] = h
    BY <2>1, SlotsStay DEF OnlineInv
  <2>5. ~ disturbed => Held' = {} /\ (task[s].data.is_online => Connected)
    BY <2>1, <2>3 DEF OnlineInv, OnlineSerial, OnlineKnows, At, Writing
  <2>6. ~ disturbed => OnlineKnows(s)'
    BY <2>1, <2>2, <2>4, <2>5 DEF OnlineKnows, At, Writing, Connected
  <2>7. ~ disturbed => OneEntity'
    BY <2>5 DEF OneEntity
  <2>8. \A e \in Held' : online'[e] \in Online
    BY <2>3 DEF OnlineInv
  <2> QED
    BY <2>1, <2>2, <2>3, <2>5, <2>6, <2>7, <2>8, OnlineOn
<1>6. ASSUME NEW s \in Slots, PushEntity(s)
      PROVE  OnlineInv'
  <2>1. /\ At(s, "pushEntity") /\ task[s] # Idle /\ UNCHANGED <<rideSocket, disturbed>>
        /\ task[s].data \in Online
    BY <1>6, AtBusy DEF PushEntity, OnlineInv, OnlineTyped, At, Writing
  <2>2. PICK e \in EntityKeys \ Held : online' = [online EXCEPT ![e] = task[s].data]
    BY <1>6 DEF PushEntity
  <2>3. PICK h \in {Idle, [pc |-> "saveTime", by |-> task[s].by]} : Await(s, h)
    BY <1>6, FinishAwaits DEF PushEntity
  <2>4. h.pc \in {"idle", "saveTime"}
    BY <2>3, IdlePc
  <2>5. /\ DOMAIN online' = EntityKeys /\ online'[e] = task[s].data /\ Held' \subseteq Held \cup {e}
        /\ \A f \in Held : online'[f] = online[f]
    BY <2>2 DEF OnlineInv, Held
  <2>6. \A f \in Held' : online'[f] \in Online
    BY <2>1, <2>5 DEF OnlineInv
  <2>7. ~ disturbed => Held = {} /\ (task[s].data.is_online => Connected)
    BY <2>1 DEF OnlineInv, OnlineSerial, OnlineKnows, At, Writing
  <2>8. task'[s] = h
    BY <2>3, SlotsStay DEF OnlineInv
  <2>9. OnlineKnows(s)'
    BY <2>4, <2>8 DEF OnlineKnows, At, Writing
  <2>10. ~ disturbed => OneEntity' /\ \A f \in Held' : online'[f].is_online => Connected
    BY <2>5, <2>7 DEF OneEntity
  <2> QED
    BY <2>1, <2>3, <2>4, <2>5, <2>6, <2>9, <2>10, OnlineOn
<1>7. ASSUME NEW s \in Slots, SaveTime(s)
      PROVE  OnlineInv'
  <2>1. At(s, "saveTime") /\ task[s] # Idle /\ UNCHANGED <<rideSocket, online, disturbed>> /\ Await(s, Idle)
    BY <1>7, AtBusy, FinishAwaits DEF SaveTime
  <2>2. Held' = Held /\ task'[s] = Idle
    BY <2>1, SlotsStay DEF Held, OnlineInv
  <2>3. OnlineKnows(s)'
    BY <2>2, IdlePc DEF OnlineKnows, At, Writing
  <2>4. ~ disturbed => \A u \in Slots : ~ Leaving(u)
    BY <2>1, IdlePc DEF OnlineInv, OnlineSerial, OneBusy, Leaving, At
  <2>5. ~ disturbed => OneEntity' /\ \A e \in Held' : online'[e].is_online => Connected
    BY <2>1, <2>2, <2>4 DEF OnlineInv, OnlineSerial, OnlineIsConnected, OneEntity
  <2>6. \A e \in Held' : online'[e] \in Online
    BY <2>1, <2>2 DEF OnlineInv
  <2> QED
    BY <2>1, <2>3, <2>5, <2>6, IdlePc, OnlineOn DEF OnlineInv
<1>8. ASSUME NEW s \in Slots, OnlineFails(s)
      PROVE  OnlineInv'
  <2>1. Await(s, Idle) /\ UNCHANGED <<rideSocket, online>> /\ disturbed'
    BY <1>8, FinishAwaits DEF OnlineFails
  <2>2. OneSlot' /\ \A u \in Slots : OnlineTyped(u)'
    BY <2>1, IdlePc, OnlineOthers
  <2> QED
    BY <2>1, <2>2 DEF OnlineInv, Held
<1> QED
  BY <1>1, <1>2, <1>3, <1>4, <1>5, <1>6, <1>7, <1>8 DEF OnlineNext

\* Unless its handlers overlap or fail, a user at rest has at most one entity, and one
\* that says online only while a socket is open.
THEOREM OnlineWhileConnected == OnlineSpec => []GoneIsOffline
<1>1. RequestsInit /\ OnlineInit => OnlineInv
  BY IdlePc DEF RequestsInit, OnlineInit, OnlineInv, OnlineSerial, OneSlot, OneBusy, OneEntity,
     OnlineIsConnected, OnlineKnows, OnlineTyped, Held, At, Writing
<1>2. OnlineInv /\ [OnlineNext]_<<task, onlineVars>> => OnlineInv'
  <2>1. ASSUME OnlineInv, UNCHANGED <<task, onlineVars>> PROVE OnlineInv'
    <3>1. UNCHANGED <<task, rideSocket, online, disturbed>>
      BY <2>1 DEF onlineVars
    <3>2. OneSlot' = OneSlot /\ Held' = Held /\ \A s : OnlineTyped(s)' = OnlineTyped(s)
      BY <3>1 DEF OneSlot, Held, OnlineTyped, At, Writing
    <3>3. Connected' = Connected /\ \A s : Leaving(s)' = Leaving(s)
      BY <3>1 DEF Connected, Leaving, At
    <3>4. /\ OneBusy' = OneBusy /\ OneEntity' = OneEntity
          /\ OnlineIsConnected' = OnlineIsConnected
          /\ \A s : OnlineKnows(s)' = OnlineKnows(s)
      BY <3>1, <3>2, <3>3 DEF OneBusy, OneEntity, OnlineIsConnected, OnlineKnows, At, Writing
    <3>5. OnlineSerial' = OnlineSerial
      BY <3>4 DEF OnlineSerial
    <3> QED
      BY <2>1, <3>1, <3>2, <3>5 DEF OnlineInv
  <2> QED
    BY <2>1, OnlineStepInv
<1>3. OnlineInv => GoneIsOffline
  <2> SUFFICES ASSUME OnlineInv, ~ disturbed, \A s \in Slots : task[s] = Idle
               PROVE  /\ Cardinality(Held) <= 1
                      /\ (\E e \in Held : online[e].is_online) => Connected
    BY DEF GoneIsOffline, Connected
  <2>1. OneEntity /\ OnlineIsConnected /\ \A s \in Slots : ~ Leaving(s)
    BY IdlePc DEF OnlineInv, OnlineSerial, Leaving, At
  <2> QED
    BY <2>1, AtMostOne DEF OneEntity, OnlineIsConnected
<1> QED
  BY <1>1, <1>2, <1>3, PTL DEF OnlineSpec

-----------------------------------------------------------------------------
(* Regions: what a handler has checked or switched off is so when it       *)
(* writes.                                                                 *)

StatesFit == \A st \in States \cap active : CountryOf[st] \in active

\* A city of a country whose states are off already.
Dangles(s, c) == At(s, "citiesOfCountry") /\ c \in CitiesOfCountry(task[s].country)
CitiesFit == \A c \in Cities \cap active :
    StateOf[c] \in active \/ \E s \in Slots : Dangles(s, c)

RegionKnows(s) ==
    /\ At(s, "citiesOfCountry") => StatesIn(task[s].country) \cap active = {}
    /\ At(s, "country") /\ ~ task[s].on => StatesIn(task[s].country) \cap active = {}
    /\ At(s, "state") =>
          IF task[s].on THEN CountryOf[task[s].state] \in active
                        ELSE CitiesIn({task[s].state}) \cap active = {}
    /\ At(s, "city") /\ task[s].on => StateOf[task[s].city] \in active

RegionTyped(s) ==
    /\ task[s].pc \in {"states", "citiesOfCountry", "country"} => task[s].country \in Countries
    /\ task[s].pc \in {"parent", "citiesOfState", "state"} => task[s].state \in States
    /\ task[s].pc \in {"grandparent", "parentOfCity", "city"} => task[s].city \in Cities
    /\ task[s].pc \in {"parent", "grandparent", "parentOfCity"} => "pc" \in DOMAIN task[s]

RegionsSerial ==
    /\ OneBusy /\ StatesFit /\ CitiesFit
    /\ \A s \in Slots : RegionKnows(s)

RegionsInv ==
    /\ OneSlot /\ \A s \in Slots : RegionTyped(s)
    /\ ~ regionsDisturbed => RegionsSerial

HandlerTyped(h) ==
    /\ h.pc \in {"states", "citiesOfCountry", "country"} => h.country \in Countries
    /\ h.pc \in {"parent", "citiesOfState", "state"} => h.state \in States
    /\ h.pc \in {"grandparent", "parentOfCity", "city"} => h.city \in Cities
    /\ h.pc \in {"parent", "grandparent", "parentOfCity"} => "pc" \in DOMAIN h

LEMMA RegionOthers ==
    ASSUME RegionsInv, NEW s \in Slots, NEW h, Begin(s, h) \/ Await(s, h), HandlerTyped(h)
    PROVE  OneSlot' /\ task'[s] = h /\ \A u \in Slots : RegionTyped(u)'
<1>1. OneSlot' /\ task'[s] = h /\ \A u \in Slots \ {s} : task'[u] = task[u]
  BY SlotsStay DEF RegionsInv
<1>2. RegionTyped(s)'
  BY <1>1 DEF RegionTyped, HandlerTyped
<1>3. \A u \in Slots \ {s} : RegionTyped(u)'
  BY <1>1 DEF RegionsInv, RegionTyped
<1> QED
  BY <1>1, <1>2, <1>3

LEMMA IdleTyped == HandlerTyped(Idle)
  BY IdlePc DEF HandlerTyped

\* An idle handler knows nothing.
LEMMA IdleKnows ==
    ASSUME NEW u, task[u] = Idle
    PROVE  RegionKnows(u) /\ \A c : ~ Dangles(u, c)
  BY IdlePc DEF RegionKnows, Dangles, At

LEMMA RegionsOn ==
    ASSUME RegionsInv, NEW s \in Slots, NEW h, Await(s, h), task[s] # Idle, HandlerTyped(h),
           UNCHANGED regionsDisturbed,
           ~ regionsDisturbed => /\ StatesFit'
                                 /\ \A c \in Cities \cap active' : StateOf[c] \in active' \/ Dangles(s, c)'
                                 /\ RegionKnows(s)'
    PROVE  RegionsInv'
<1>1. OneSlot' /\ \A u \in Slots : RegionTyped(u)'
  BY RegionOthers
<1>2. ASSUME ~ regionsDisturbed'
      PROVE  RegionsSerial'
  <2>1. ~ regionsDisturbed /\ OneBusy' /\ \A u \in Slots \ {s} : task'[u] = Idle
    BY <1>2, BusyOn DEF RegionsInv, RegionsSerial
  <2>2. \A u \in Slots \ {s} : RegionKnows(u)'
    BY <2>1, IdlePc DEF RegionKnows, At
  <2> QED
    BY <2>1, <2>2 DEF RegionsSerial, CitiesFit
<1> QED
  BY <1>1, <1>2 DEF RegionsInv

LEMMA RegionBegins ==
    ASSUME RegionsInv, NEW s \in Slots, NEW h, BeginUpdate(s, h), HandlerTyped(h),
           h.pc \in {"states", "parent", "grandparent"} \/ (h.pc = "country" /\ h.on)
    PROVE  RegionsInv'
<1>1. /\ Begin(s, h) /\ active' = active
      /\ regionsDisturbed' = (regionsDisturbed \/ ~ Alone(s))
  BY DEF BeginUpdate
<1>2. OneSlot' /\ task'[s] = h /\ \A u \in Slots : RegionTyped(u)'
  BY <1>1, RegionOthers
<1>3. ASSUME ~ regionsDisturbed'
      PROVE  RegionsSerial'
  <2>1. /\ ~ regionsDisturbed /\ OneBusy' /\ \A u \in Slots \ {s} : task'[u] = Idle
        /\ \A u \in Slots : task[u] = Idle
    BY <1>1, <1>3, BusyAlone DEF RegionsInv
  <2>2. \A u \in Slots \ {s} : RegionKnows(u)'
    BY <2>1, IdlePc DEF RegionKnows, At
  <2>3. RegionKnows(s)'
    BY <1>2 DEF RegionKnows, At
  <2>4. StatesFit' /\ \A c \in Cities \cap active' : StateOf[c] \in active'
    BY <1>1, <2>1, IdleKnows DEF RegionsInv, RegionsSerial, StatesFit, CitiesFit
  <2> QED
    BY <2>1, <2>2, <2>3, <2>4 DEF RegionsSerial, CitiesFit
<1> QED
  BY <1>2, <1>3 DEF RegionsInv

\* At a handler of no country all cities that are on lie in states that are on.
LEMMA CitiesFitAt ==
    ASSUME RegionsInv, ~ regionsDisturbed, NEW s \in Slots, task[s] # Idle, ~ At(s, "citiesOfCountry")
    PROVE  \A c \in Cities \cap active : StateOf[c] \in active
<1>1. \A u \in Slots \ {s} : task[u] = Idle
  BY DEF RegionsInv, RegionsSerial, OneBusy
<1> QED
  BY <1>1, IdleKnows DEF RegionsInv, RegionsSerial, CitiesFit, Dangles

\* The handler goes on with what it has learnt.
LEMMA RegionChecks ==
    ASSUME RegionsInv, NEW s \in Slots, NEW h, Await(s, h), task[s] # Idle, HandlerTyped(h),
           ~ At(s, "citiesOfCountry"), UNCHANGED regionVars,
           ~ regionsDisturbed => RegionKnows(s)'
    PROVE  RegionsInv'
<1>1. active' = active /\ regionsDisturbed' = regionsDisturbed
  BY DEF regionVars
<1>2. ~ regionsDisturbed => StatesFit'
  BY <1>1 DEF RegionsInv, RegionsSerial, StatesFit
<1>3. ~ regionsDisturbed => \A c \in Cities \cap active' : StateOf[c] \in active'
  BY <1>1, CitiesFitAt
<1> QED
  BY <1>1, <1>2, <1>3, RegionsOn

LEMMA RegionsStepInv ==
    ASSUME RegionsInv, RegionsNext
    PROVE  RegionsInv'
<1>1. ASSUME NEW s \in Slots, NEW country \in Countries, NEW on \in BOOLEAN,
             UpdateCountry(s, country, on)
      PROVE  RegionsInv'
  <2>1. PICK h : h = IF on THEN [pc |-> "country", country |-> country, on |-> on]
                           ELSE [pc |-> "states", country |-> country]
    OBVIOUS
  <2>2. BeginUpdate(s, h)
    BY <1>1, <2>1 DEF UpdateCountry
  <2>3. h.country = country /\ (h.pc = "states" \/ (h.pc = "country" /\ h.on))
    BY <2>1
  <2> QED
    BY <2>2, <2>3, RegionBegins DEF HandlerTyped
<1>2. ASSUME NEW s \in Slots, NEW state \in States, NEW on \in BOOLEAN, UpdateState(s, state, on)
      PROVE  RegionsInv'
  <2>1. PICK h : h = [pc |-> "parent", state |-> state, on |-> on]
    OBVIOUS
  <2>2. BeginUpdate(s, h)
    BY <1>2, <2>1 DEF UpdateState
  <2>3. h.state = state /\ h.pc = "parent" /\ "pc" \in DOMAIN h
    BY <2>1
  <2> QED
    BY <2>2, <2>3, RegionBegins DEF HandlerTyped
<1>3. ASSUME NEW s \in Slots, NEW city \in Cities, NEW on \in BOOLEAN, UpdateCity(s, city, on)
      PROVE  RegionsInv'
  <2>1. PICK h : h = [pc |-> "grandparent", city |-> city, on |-> on]
    OBVIOUS
  <2>2. BeginUpdate(s, h)
    BY <1>3, <2>1 DEF UpdateCity
  <2>3. h.city = city /\ h.pc = "grandparent" /\ "pc" \in DOMAIN h
    BY <2>1
  <2> QED
    BY <2>2, <2>3, RegionBegins DEF HandlerTyped
<1>4. ASSUME NEW s \in Slots, StatesOff(s)
      PROVE  RegionsInv'
  <2>1. PICK country : country = task[s].country
    OBVIOUS
  <2>2. PICK h : h = [pc |-> "citiesOfCountry", country |-> country]
    OBVIOUS
  <2>3. /\ At(s, "states") /\ task[s] # Idle /\ Await(s, h) /\ active' = active \ StatesIn(country)
        /\ UNCHANGED regionsDisturbed
    BY <1>4, <2>1, <2>2, AtBusy DEF StatesOff, SwitchOff
  <2>4. country \in Countries /\ h.pc = "citiesOfCountry" /\ h.country = country
    BY <2>1, <2>2, <2>3 DEF RegionsInv, RegionTyped, At
  <2>5. task'[s] = h
    BY <2>3, SlotsStay DEF RegionsInv
  <2>6. RegionKnows(s)'
    BY <2>3, <2>4, <2>5 DEF RegionKnows, At
  <2>7. ~ regionsDisturbed => StatesFit'
    BY <2>3, RegionsAssumption DEF RegionsInv, RegionsSerial, StatesFit, StatesIn
  <2>8. ASSUME ~ regionsDisturbed, NEW c \in Cities \cap active'
        PROVE  StateOf[c] \in active' \/ Dangles(s, c)'
    <3>1. StateOf[c] \in active
      BY <2>3, <2>8, CitiesFitAt DEF At
    <3>2. StateOf[c] \in StatesIn(country) => c \in CitiesOfCountry(country)
      BY DEF CitiesOfCountry, CitiesIn
    <3> QED
      BY <2>3, <2>4, <2>5, <3>1, <3>2 DEF Dangles, At
  <2> QED
    BY <2>3, <2>4, <2>6, <2>7, <2>8, RegionsOn DEF HandlerTyped
<1>5. ASSUME NEW s \in Slots, CitiesOfCountryOff(s)
      PROVE  RegionsInv'
  <2>1. PICK country : country = task[s].country
    OBVIOUS
  <2>2. PICK h : h = [pc |-> "country", country |-> country, on |-> FALSE]
    OBVIOUS
  <2>3. /\ At(s, "citiesOfCountry") /\ task[s] # Idle /\ Await(s, h)
        /\ active' = active \ CitiesOfCountry(country) /\ UNCHANGED regionsDisturbed
    BY <1>5, <2>1, <2>2, AtBusy DEF CitiesOfCountryOff, SwitchOff
  <2>4. country \in Countries /\ h.pc = "country" /\ h.country = country /\ ~ h.on
    BY <2>1, <2>2, <2>3 DEF RegionsInv, RegionTyped, At
  <2>5. task'[s] = h
    BY <2>3, SlotsStay DEF RegionsInv
  <2>6. CitiesOfCountry(country) \subseteq Cities
    BY DEF CitiesOfCountry, CitiesIn
  <2>7. ~ regionsDisturbed => RegionKnows(s)'
    <3>1. ~ regionsDisturbed => StatesIn(country) \cap active = {}
      BY <2>1, <2>3 DEF RegionsInv, RegionsSerial, RegionKnows
    <3> QED
      BY <2>3, <2>4, <2>5, <3>1 DEF RegionKnows, At
  <2>8. ~ regionsDisturbed => StatesFit'
    BY <2>3, <2>6, RegionsAssumption DEF RegionsInv, RegionsSerial, StatesFit
  <2>9. ASSUME ~ regionsDisturbed, NEW c \in Cities \cap active'
        PROVE  StateOf[c] \in active'
    <3>1. ~ Dangles(s, c) /\ c \in active
      BY <2>1, <2>3, <2>9 DEF Dangles
    <3>2. \A u \in Slots \ {s} : ~ Dangles(u, c)
      BY <2>3, <2>9, IdleKnows DEF RegionsInv, RegionsSerial, OneBusy
    <3>3. StateOf[c] \in active
      BY <2>9, <3>1, <3>2 DEF RegionsInv, RegionsSerial, CitiesFit
    <3> QED
      BY <2>3, <2>6, <3>3, RegionsAssumption
  <2> QED
    BY <2>3, <2>4, <2>7, <2>8, <2>9, RegionsOn DEF HandlerTyped
<1>6. ASSUME NEW s \in Slots, NEW place, NEW on, Switch(s, place), task[s] # Idle, on = task[s].on,
             ~ At(s, "citiesOfCountry"),
             ~ regionsDisturbed /\ on => /\ place \in States => CountryOf[place] \in active
                                         /\ place \in Cities => StateOf[place] \in active,
             ~ regionsDisturbed /\ ~ on => /\ StatesIn(place) \cap active = {}
                                           /\ CitiesIn({place}) \cap active = {}
      PROVE  RegionsInv'
  <2>1. Await(s, Idle) /\ active' = Set(place, on) /\ UNCHANGED regionsDisturbed
    BY <1>6, FinishAwaits DEF Switch
  <2>2. ~ regionsDisturbed => StatesFit'
    BY <1>6, <2>1 DEF RegionsInv, RegionsSerial, StatesFit, Set, StatesIn
  <2>3. ~ regionsDisturbed => \A c \in Cities \cap active' : StateOf[c] \in active'
    BY <1>6, <2>1, CitiesFitAt DEF Set, CitiesIn
  <2>4. RegionKnows(s)'
    <3>1. task'[s] = Idle
      BY <2>1, SlotsStay DEF RegionsInv
    <3> QED
      BY <3>1, IdlePc DEF RegionKnows, At
  <2> QED
    BY <1>6, <2>1, <2>2, <2>3, <2>4, IdleTyped, RegionsOn
<1>7. ASSUME NEW s \in Slots, WriteCountry(s)
      PROVE  RegionsInv'
  <2>1. PICK country : country = task[s].country
    OBVIOUS
  <2>2. At(s, "country") /\ task[s] # Idle /\ Switch(s, country) /\ country \in Countries
    BY <1>7, <2>1, AtBusy DEF WriteCountry, RegionsInv, RegionTyped, At
  <2>3. country \notin States /\ country \notin Cities /\ CitiesIn({country}) = {}
    BY <2>2, RegionsAssumption DEF CitiesIn
  <2>4. ~ regionsDisturbed /\ ~ task[s].on => StatesIn(country) \cap active = {}
    BY <2>1, <2>2 DEF RegionsInv, RegionsSerial, RegionKnows
  <2> QED
    BY <1>6, <2>2, <2>3, <2>4 DEF At
<1>8. ASSUME NEW s \in Slots, WriteState(s)
      PROVE  RegionsInv'
  <2>1. PICK state : state = task[s].state
    OBVIOUS
  <2>2. At(s, "state") /\ task[s] # Idle /\ Switch(s, state) /\ state \in States
    BY <1>8, <2>1, AtBusy DEF WriteState, RegionsInv, RegionTyped, At
  <2>3. state \notin Cities /\ StatesIn(state) = {}
    BY <2>2, RegionsAssumption DEF StatesIn
  <2>4. ~ regionsDisturbed => IF task[s].on THEN CountryOf[state] \in active
                                            ELSE CitiesIn({state}) \cap active = {}
    BY <2>1, <2>2 DEF RegionsInv, RegionsSerial, RegionKnows
  <2> QED
    BY <1>6, <2>2, <2>3, <2>4 DEF At
<1>9. ASSUME NEW s \in Slots, WriteCity(s)
      PROVE  RegionsInv'
  <2>1. PICK city : city = task[s].city
    OBVIOUS
  <2>2. At(s, "city") /\ task[s] # Idle /\ Switch(s, city) /\ city \in Cities
    BY <1>9, <2>1, AtBusy DEF WriteCity, RegionsInv, RegionTyped, At
  <2>3. city \notin States /\ StatesIn(city) = {} /\ CitiesIn({city}) = {}
    BY <2>2, RegionsAssumption DEF StatesIn, CitiesIn
  <2>4. ~ regionsDisturbed /\ task[s].on => StateOf[city] \in active
    BY <2>1, <2>2 DEF RegionsInv, RegionsSerial, RegionKnows
  <2> QED
    BY <1>6, <2>2, <2>3, <2>4 DEF At
<1>10. ASSUME NEW s \in Slots, NEW passes, NEW h, Check(s, passes, h), task[s] # Idle,
              ~ At(s, "citiesOfCountry"), HandlerTyped(h),
              passes /\ task'[s] = h /\ active' = active => RegionKnows(s)'
       PROVE  RegionsInv'
  <2>1. UNCHANGED regionVars /\ active' = active
    BY <1>10 DEF Check, regionVars
  <2>2. CASE passes
    <3>1. Await(s, h) /\ task'[s] = h
      BY <1>10, <2>2, SlotsStay DEF Check, RegionsInv
    <3> QED
      BY <1>10, <2>1, <2>2, <3>1, RegionChecks
  <2>3. CASE ~ passes
    <3>1. Await(s, Idle) /\ task'[s] = Idle
      BY <1>10, <2>3, FinishAwaits, SlotsStay DEF Check, RegionsInv
    <3>2. RegionKnows(s)'
      BY <3>1, IdlePc DEF RegionKnows, At
    <3> QED
      BY <1>10, <2>1, <3>1, <3>2, IdleTyped, RegionChecks
  <2> QED
    BY <2>2, <2>3
<1>11. ASSUME NEW s \in Slots, CheckParent(s)
       PROVE  RegionsInv'
  <2>1. PICK state : state = task[s].state
    OBVIOUS
  <2>2. PICK h : h = IF task[s].on THEN [task[s] EXCEPT !.pc = "state"]
                                   ELSE [pc |-> "citiesOfState", state |-> task[s].state]
    OBVIOUS
  <2>3. /\ At(s, "parent") /\ task[s] # Idle /\ Check(s, CountryOf[state] \in active, h)
    BY <1>11, <2>1, <2>2, AtBusy DEF CheckParent
  <2>4. state \in States /\ "pc" \in DOMAIN task[s]
    BY <2>1, <2>3 DEF RegionsInv, RegionTyped, At
  <2>5. h.state = state /\ (h.pc = "citiesOfState" \/ (h.pc = "state" /\ h.on))
    BY <2>1, <2>2, <2>4
  <2>6. ASSUME CountryOf[state] \in active, task'[s] = h, active' = active
        PROVE  RegionKnows(s)'
    BY <2>5, <2>6 DEF RegionKnows, At
  <2> QED
    BY <1>10, <2>3, <2>4, <2>5, <2>6 DEF HandlerTyped, At
<1>12. ASSUME NEW s \in Slots, CitiesOfStateOff(s)
       PROVE  RegionsInv'
  <2>1. PICK state : state = task[s].state
    OBVIOUS
  <2>2. PICK h : h = [pc |-> "state", state |-> state, on |-> FALSE]
    OBVIOUS
  <2>3. /\ At(s, "citiesOfState") /\ task[s] # Idle /\ Await(s, h)
        /\ active' = active \ CitiesIn({state}) /\ UNCHANGED regionsDisturbed
    BY <1>12, <2>1, <2>2, AtBusy DEF CitiesOfStateOff, SwitchOff
  <2>4. state \in States /\ h.pc = "state" /\ h.state = state /\ ~ h.on
    BY <2>1, <2>2, <2>3 DEF RegionsInv, RegionTyped, At
  <2>5. task'[s] = h
    BY <2>3, SlotsStay DEF RegionsInv
  <2>6. CitiesIn({state}) \subseteq Cities
    BY DEF CitiesIn
  <2>7. RegionKnows(s)'
    BY <2>3, <2>4, <2>5 DEF RegionKnows, At
  <2>8. ~ regionsDisturbed => StatesFit'
    BY <2>3, <2>6, RegionsAssumption DEF RegionsInv, RegionsSerial, StatesFit
  <2>9. ASSUME ~ regionsDisturbed, NEW c \in Cities \cap active'
        PROVE  StateOf[c] \in active'
    <3>1. StateOf[c] \in active
      BY <2>3, <2>9, CitiesFitAt DEF At
    <3> QED
      BY <2>3, <2>6, <3>1, RegionsAssumption
  <2> QED
    BY <2>3, <2>4, <2>7, <2>8, <2>9, RegionsOn DEF HandlerTyped
<1>13. ASSUME NEW s \in Slots, CheckGrandparent(s)
       PROVE  RegionsInv'
  <2>1. PICK h : h = [task[s] EXCEPT !.pc = "parentOfCity"]
    OBVIOUS
  <2>2. /\ At(s, "grandparent") /\ task[s] # Idle
        /\ Check(s, CountryOf[StateOf[task[s].city]] \in active, h)
    BY <1>13, <2>1, AtBusy DEF CheckGrandparent
  <2>3. task[s].city \in Cities /\ "pc" \in DOMAIN task[s]
    BY <2>2 DEF RegionsInv, RegionTyped, At
  <2>4. h.city = task[s].city /\ h.pc = "parentOfCity" /\ "pc" \in DOMAIN h
    BY <2>1, <2>3
  <2>5. ASSUME task'[s] = h
        PROVE  RegionKnows(s)'
    BY <2>4, <2>5 DEF RegionKnows, At
  <2> QED
    BY <1>10, <2>2, <2>3, <2>4, <2>5 DEF HandlerTyped, At
<1>14. ASSUME NEW s \in Slots, CheckParentOfCity(s)
       PROVE  RegionsInv'
  <2>1. PICK h : h = [task[s] EXCEPT !.pc = "city"]
    OBVIOUS
  <2>2. /\ At(s, "parentOfCity") /\ task[s] # Idle
        /\ Check(s, StateOf[task[s].city] \in active, h)
    BY <1>14, <2>1, AtBusy DEF CheckParentOfCity
  <2>3. task[s].city \in Cities /\ "pc" \in DOMAIN task[s]
    BY <2>2 DEF RegionsInv, RegionTyped, At
  <2>4. h.city = task[s].city /\ h.pc = "city"
    BY <2>1, <2>3
  <2>5. ASSUME StateOf[task[s].city] \in active, task'[s] = h, active' = active
        PROVE  RegionKnows(s)'
    BY <2>4, <2>5 DEF RegionKnows, At
  <2> QED
    BY <1>10, <2>2, <2>3, <2>4, <2>5 DEF HandlerTyped, At
<1>15. ASSUME NEW s \in Slots, UpdateFails(s)
       PROVE  RegionsInv'
  <2>1. Await(s, Idle) /\ regionsDisturbed'
    BY <1>15, FinishAwaits DEF UpdateFails
  <2> QED
    BY <2>1, IdleTyped, RegionOthers DEF RegionsInv
<1> QED
  BY <1>1, <1>2, <1>3, <1>4, <1>5, <1>7, <1>8, <1>9, <1>11, <1>12, <1>13, <1>14, <1>15
  DEF RegionsNext, RegionsStep

\* Unless updates overlap or stop half-way, what is on lies in what is on.
THEOREM RegionsNested == RegionsSpec => []ActiveInActive
<1>1. RequestsInit /\ RegionsInit => RegionsInv
  BY IdlePc DEF RequestsInit, RegionsInit, RegionsInv, RegionsSerial, OneSlot, OneBusy, StatesFit,
     CitiesFit, RegionKnows, RegionTyped, At
<1>2. RegionsInv /\ [RegionsNext]_<<task, regionVars>> => RegionsInv'
  <2>1. ASSUME RegionsInv, UNCHANGED <<task, regionVars>> PROVE RegionsInv'
    <3>1. UNCHANGED <<task, active, regionsDisturbed>>
      BY <2>1 DEF regionVars
    <3>2. /\ OneSlot' = OneSlot /\ OneBusy' = OneBusy /\ StatesFit' = StatesFit
          /\ \A s : RegionTyped(s)' = RegionTyped(s) /\ RegionKnows(s)' = RegionKnows(s)
          /\ \A s, c : Dangles(s, c)' = Dangles(s, c)
      BY <3>1 DEF OneSlot, OneBusy, StatesFit, RegionTyped, RegionKnows, Dangles, At
    <3>3. CitiesFit' = CitiesFit
      BY <3>1, <3>2 DEF CitiesFit
    <3> QED
      BY <2>1, <3>1, <3>2, <3>3 DEF RegionsInv, RegionsSerial
  <2> QED
    BY <2>1, RegionsStepInv
<1>3. RegionsInv => ActiveInActive
  BY IdleKnows DEF RegionsInv, RegionsSerial, StatesFit, CitiesFit, ActiveInActive
<1> QED
  BY <1>1, <1>2, <1>3, PTL DEF RegionsSpec
=============================================================================
