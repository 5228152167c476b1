----------------------------- MODULE AccountsProofs -----------------------------
(***************************************************************************)
(* Proofs about the components that MCAccounts checks together.  What the  *)
(* permission guard lets pass is granted, for any users, roles and         *)
(* endpoints, whatever administrators change between its awaits; no guard  *)
(* reads the user of a guest; every variable and handler keeps its type.   *)
(***************************************************************************)
EXTENDS MCAccounts, SequenceTheorems, TLAPS

-----------------------------------------------------------------------------
(* The roles that the guard has read stay the user's for as long as they   *)
(* exist, since ids are not given again and roles are taken from a user    *)
(* only by removing the one or the other.                                  *)

Remembers(s) ==
    task[s].pc = "grants" =>
        /\ task[s].roles \subseteq DOMAIN roleRows
        /\ userRoles[task[s].user] # None =>
               \A r \in task[s].roles : Exists(r) => r \in userRoles[task[s].user]

AccessInv ==
    /\ roleRows \in Seq(Role \cup {None}) /\ Len(roleRows) <= MaxRoles
    /\ userRoles \in [Callers -> (SUBSET RoleIds) \cup {None}]
    /\ verified \in [Callers -> BOOLEAN]
    /\ task \in [Slots -> AccessTask \cup {Idle}]
    /\ \A u \in Callers : userRoles[u] # None => userRoles[u] \subseteq DOMAIN roleRows
    /\ \A s \in Slots : Remembers(s)

LEMMA AccessFields ==
    ASSUME NEW h \in AccessTask \cup {Idle}
    PROVE  /\ h.pc \in {"user", "contact", "handler"} =>
                 h \in [pc: {"user", "contact", "handler"}, user: Callers, call: Calls]
           /\ h.pc = "grants" =>
                 h \in [pc: {"grants"}, user: Callers, call: Calls, roles: SUBSET RoleIds]
           /\ h.pc = "edit" =>
                 h \in [pc: {"edit"}, role: RoleIds, name: RoleNames, grants: SUBSET Grantable]
  BY DEF AccessTask, Idle

LEMMA AccessTypes ==
    ASSUME AccessInv
    PROVE  /\ AccessTypeOK
           /\ MaxRoles \in Nat /\ Len(roleRows) \in Nat
           /\ DOMAIN roleRows = 1 .. Len(roleRows) /\ DOMAIN roleRows \subseteq RoleIds
           /\ \A r \in DOMAIN roleRows : roleRows[r] \in Role \cup {None}
<1>1. /\ MaxRoles \in Nat /\ Len(roleRows) \in 0 .. MaxRoles
      /\ DOMAIN roleRows = 1 .. Len(roleRows)
      /\ \A r \in DOMAIN roleRows : roleRows[r] \in Role \cup {None}
  BY AccessAssumption DEF AccessInv
<1>2. DOMAIN roleRows \in {1 .. n : n \in 0 .. MaxRoles}
  BY <1>1
<1>3. DOMAIN roleRows \subseteq RoleIds
  BY <1>1 DEF RoleIds
<1>4. \A s \in Slots : task[s] \in AccessTask \cup {Idle}
  BY DEF AccessInv
<1>5. AccessTypeOK
  BY <1>1, <1>2, <1>4, Zenon DEF AccessTypeOK, AccessInv
<1>6. Len(roleRows) \in Nat
  BY <1>1
<1> QED
  BY <1>1, <1>3, <1>5, <1>6

\* Administrators create and change roles, give and take them, while the handlers
\* stay where they are or, in slot s, go on to one that remembers nothing.
LEMMA TableStep ==
    ASSUME AccessInv,
           task' \in [Slots -> AccessTask \cup {Idle}],
           \A s \in Slots : task'[s] = task[s] \/ task'[s].pc # "grants",
           roleRows' \in Seq(Role \cup {None}), Len(roleRows') <= MaxRoles,
           DOMAIN roleRows \subseteq DOMAIN roleRows',
           \A r \in DOMAIN roleRows : roleRows'[r] # None => roleRows[r] # None,
           userRoles' \in [Callers -> (SUBSET RoleIds) \cup {None}],
           verified' \in [Callers -> BOOLEAN],
           \A u \in Callers : userRoles'[u] # None =>
               /\ userRoles[u] # None
               /\ userRoles'[u] \subseteq DOMAIN roleRows'
               /\ \A r \in userRoles[u] : roleRows'[r] # None => r \in userRoles'[u]
    PROVE  AccessInv'
<1>1. ASSUME NEW s \in Slots
      PROVE  Remembers(s)'
  <2> SUFFICES ASSUME task'[s].pc = "grants" PROVE Remembers(s)'
    BY DEF Remembers
  <2>1. task'[s] = task[s] /\ task[s].user \in Callers /\ Remembers(s)
    BY AccessFields DEF AccessInv
  <2> QED
    BY <2>1 DEF Remembers, Exists
<1> QED
  BY <1>1 DEF AccessInv

\* A handler in slot s goes on; only ReadUser starts to remember roles.
LEMMA GuardStep ==
    ASSUME AccessInv, NEW s \in Slots, NEW h \in AccessTask \cup {Idle},
           task' = [task EXCEPT ![s] = h], UNCHANGED accessVars,
           h.pc = "grants" => userRoles[h.user] # None /\ h.roles = userRoles[h.user]
    PROVE  AccessInv'
<1>1. /\ task' \in [Slots -> AccessTask \cup {Idle}] /\ task'[s] = h
      /\ \A u \in Slots \ {s} : task'[u] = task[u]
  BY DEF AccessInv
<1>2. Remembers(s)'
  <2> SUFFICES ASSUME h.pc = "grants" PROVE Remembers(s)'
    BY <1>1 DEF Remembers
  <2>1. h.user \in Callers
    BY AccessFields
  <2> QED
    BY <1>1, <2>1 DEF Remembers, AccessInv, accessVars
<1>3. \A u \in Slots \ {s} : Remembers(u)'
  BY <1>1 DEF Remembers, AccessInv, accessVars, Exists
<1> QED
  BY <1>1, <1>2, <1>3 DEF AccessInv, accessVars

LEMMA AccessEventStep ==
    ASSUME AccessInv, AccessEvent
    PROVE  AccessInv'
<1>0. /\ roleRows \in Seq(Role \cup {None}) /\ Len(roleRows) <= MaxRoles
      /\ userRoles \in [Callers -> (SUBSET RoleIds) \cup {None}]
      /\ verified \in [Callers -> BOOLEAN]
      /\ task \in [Slots -> AccessTask \cup {Idle}]
      /\ \A u \in Callers : userRoles[u] # None => userRoles[u] \subseteq DOMAIN roleRows
  BY DEF AccessInv
<1>1. ASSUME NEW name \in RoleNames, NEW given \in SUBSET Grantable, CreateRole(name, given)
      PROVE  AccessInv'
  <2> DEFINE row == [name |-> name, grants |-> given]
  <2>1. row \in Role \cup {None}
    BY DEF Role
  <2>2. /\ roleRows' = Append(roleRows, row) /\ Len(roleRows) < MaxRoles
        /\ UNCHANGED <<userRoles, verified, task>>
    BY <1>1 DEF CreateRole
  <2> HIDE DEF row
  <2>3. /\ roleRows' \in Seq(Role \cup {None}) /\ Len(roleRows') = Len(roleRows) + 1
        /\ \A r \in 1 .. Len(roleRows) : roleRows'[r] = roleRows[r]
    BY <1>0, <2>1, <2>2, AppendProperties
  <2>4. /\ DOMAIN roleRows = 1 .. Len(roleRows) /\ DOMAIN roleRows' = 1 .. Len(roleRows')
        /\ Len(roleRows) \in Nat /\ MaxRoles \in Nat
    BY <1>0, <2>3, AccessTypes
  <2>5. Len(roleRows') <= MaxRoles /\ DOMAIN roleRows \subseteq DOMAIN roleRows'
    BY <2>2, <2>3, <2>4
  <2> QED
    BY <1>0, <2>2, <2>3, <2>4, <2>5, TableStep
<1>2. ASSUME NEW name \in RoleNames, NEW given \in SUBSET Grantable, NEW s \in Slots,
             NEW r \in RoleIds, FindRole(s, r, name, given)
      PROVE  AccessInv'
  <2> DEFINE h == [pc |-> "edit", role |-> r, name |-> name, grants |-> given \ roleRows[r].grants]
  <2>1. h \in AccessTask /\ h.pc = "edit"
    BY DEF AccessTask
  <2>2. task' = [task EXCEPT ![s] = h] /\ UNCHANGED accessVars
    BY <1>2 DEF FindRole, Begin
  <2> HIDE DEF h
  <2> QED
    BY <2>1, <2>2, GuardStep
<1>3. ASSUME NEW r \in RoleIds, RemoveRole(r)
      PROVE  AccessInv'
  <2>1. /\ r \in DOMAIN roleRows
        /\ roleRows' = [roleRows EXCEPT ![r] = None]
        /\ userRoles' = [u \in Callers |-> IF userRoles[u] = None THEN None ELSE userRoles[u] \ {r}]
        /\ UNCHANGED <<verified, task>>
    BY <1>3 DEF RemoveRole, Exists
  <2>2. /\ roleRows' \in Seq(Role \cup {None}) /\ Len(roleRows') = Len(roleRows)
        /\ DOMAIN roleRows' = DOMAIN roleRows
    BY <1>0, <2>1, ExceptSeq
  <2>3. roleRows'[r] = None /\ \A x \in DOMAIN roleRows \ {r} : roleRows'[x] = roleRows[x]
    BY <2>1
  <2>4. userRoles' \in [Callers -> (SUBSET RoleIds) \cup {None}]
    BY <1>0, <2>1
  <2>5. \A u \in Callers : userRoles'[u] # None =>
            userRoles[u] # None /\ userRoles'[u] = userRoles[u] \ {r}
    BY <2>1
  <2> QED
    BY <1>0, <2>1, <2>2, <2>3, <2>4, <2>5, TableStep
<1>4. ASSUME NEW u \in Callers, NEW more \in SUBSET RoleIds, UpdateUserRoles(u, more)
      PROVE  AccessInv'
  <2>1. /\ userRoles[u] # None /\ more \subseteq DOMAIN roleRows
        /\ userRoles' = [userRoles EXCEPT ![u] = userRoles[u] \cup more]
        /\ UNCHANGED <<roleRows, verified, task>>
    BY <1>0, <1>4 DEF UpdateUserRoles, RolesAfter, Exists
  <2>2. /\ userRoles'[u] = userRoles[u] \cup more
        /\ \A x \in Callers \ {u} : userRoles'[x] = userRoles[x]
        /\ userRoles' \in [Callers -> (SUBSET RoleIds) \cup {None}]
    BY <1>0, <2>1
  <2> QED
    BY <1>0, <2>1, <2>2, TableStep
<1>5. ASSUME NEW u \in Callers, RemoveUser(u)
      PROVE  AccessInv'
  <2>1. /\ userRoles' = [userRoles EXCEPT ![u] = None]
        /\ UNCHANGED <<roleRows, verified, task>>
    BY <1>5 DEF RemoveUser
  <2> QED
    BY <1>0, <2>1, TableStep
<1>6. ASSUME NEW u \in Callers, Verify(u)
      PROVE  AccessInv'
  <2>1. /\ verified' \in [Callers -> BOOLEAN] /\ UNCHANGED <<roleRows, userRoles, task>>
    BY <1>0, <1>6 DEF Verify
  <2> QED
    BY <1>0, <2>1, TableStep
<1>7. ASSUME NEW u \in Callers, NEW s \in Slots, NEW call \in Calls,
             GuestCall(s, u, call) \/ TokenCall(s, u, call)
      PROVE  AccessInv'
  <2>1. PICK pc \in {"user", "contact", "handler"} :
            task' = [task EXCEPT ![s] = [pc |-> pc, user |-> u, call |-> call]]
    BY <1>7 DEF GuestCall, TokenCall, AfterPermissions, Begin
  <2> DEFINE h == [pc |-> pc, user |-> u, call |-> call]
  <2>2. h \in AccessTask /\ h.pc # "grants"
    BY DEF AccessTask
  <2>3. task' = [task EXCEPT ![s] = h] /\ UNCHANGED accessVars
    BY <1>7, <2>1 DEF GuestCall, TokenCall
  <2> HIDE DEF h
  <2> QED
    BY <2>2, <2>3, GuardStep
<1> QED
  BY <1>1, <1>2, <1>3, <1>4, <1>5, <1>6, <1>7 DEF AccessEvent

LEMMA AccessStepStep ==
    ASSUME AccessInv, NEW s \in Slots, AccessStep(s)
    PROVE  AccessInv'
<1>0. /\ roleRows \in Seq(Role \cup {None}) /\ Len(roleRows) <= MaxRoles
      /\ userRoles \in [Callers -> (SUBSET RoleIds) \cup {None}]
      /\ verified \in [Callers -> BOOLEAN]
      /\ task \in [Slots -> AccessTask \cup {Idle}]
      /\ Idle \in AccessTask \cup {Idle} /\ Idle.pc = "idle"
      /\ \A u \in Callers : userRoles[u] # None => userRoles[u] \subseteq DOMAIN roleRows
  BY DEF AccessInv, Idle
<1>1. ASSUME Finish(s), UNCHANGED accessVars
      PROVE  AccessInv'
  BY <1>0, <1>1, GuardStep DEF Finish
<1>2. CASE ReadUser(s)
  <2> DEFINE u == task[s].user
             call == task[s].call
             past == [pc |-> AfterPermissions(call), user |-> u, call |-> call]
             asks == [pc |-> "grants", user |-> u, call |-> call, roles |-> userRoles[u]]
  <2>1. u \in Callers /\ call \in Calls /\ UNCHANGED accessVars
    BY <1>0, <1>2, AccessFields DEF ReadUser, At
  <2>2. past \in AccessTask /\ past.pc # "grants"
    BY <2>1 DEF AccessTask, AfterPermissions
  <2>3. \/ Finish(s)
        \/ task' = [task EXCEPT ![s] = past]
        \/ userRoles[u] # None /\ task' = [task EXCEPT ![s] = asks]
    BY <1>2 DEF ReadUser, Await
  <2>4. userRoles[u] # None =>
            asks \in AccessTask /\ asks.user = u /\ asks.roles = userRoles[u] /\ asks.pc = "grants"
    BY <1>0, <2>1 DEF AccessTask
  <2> HIDE DEF past, asks
  <2> QED
    BY <1>1, <2>1, <2>2, <2>3, <2>4, GuardStep
<1>3. CASE ReadGrants(s)
  <2> DEFINE u == task[s].user
             call == task[s].call
             past == [pc |-> AfterPermissions(call), user |-> u, call |-> call]
  <2>1. u \in Callers /\ call \in Calls /\ UNCHANGED accessVars
    BY <1>0, <1>3, AccessFields DEF ReadGrants, At
  <2>2. past \in AccessTask /\ past.pc # "grants"
    BY <2>1 DEF AccessTask, AfterPermissions
  <2>3. Finish(s) \/ task' = [task EXCEPT ![s] = past]
    BY <1>3 DEF ReadGrants, Await
  <2> HIDE DEF past
  <2> QED
    BY <1>1, <2>1, <2>2, <2>3, GuardStep
<1>4. CASE ReadContact(s)
  <2> DEFINE past == [task[s] EXCEPT !.pc = "handler"]
  <2>1. past \in AccessTask /\ past.pc # "grants" /\ UNCHANGED accessVars
    BY <1>0, <1>4, AccessFields DEF ReadContact, At, AccessTask
  <2>2. Finish(s) \/ task' = [task EXCEPT ![s] = past]
    BY <1>4 DEF ReadContact, Await
  <2> HIDE DEF past
  <2> QED
    BY <1>1, <2>1, <2>2, GuardStep
<1>5. CASE Handle(s)
  BY <1>1, <1>5 DEF Handle
<1>6. CASE UpdateRole(s)
  <2> DEFINE r == task[s].role
             row == [name |-> task[s].name, grants |-> roleRows[r].grants \cup task[s].grants]
  <2>1. /\ r \in RoleIds /\ task[s].name \in RoleNames /\ task[s].grants \subseteq Grantable
        /\ task' = [task EXCEPT ![s] = Idle] /\ UNCHANGED <<userRoles, verified>>
    BY <1>0, <1>6, AccessFields DEF UpdateRole, At, Finish
  <2>2. CASE UNCHANGED roleRows
    BY <1>1, <1>6, <2>2 DEF UpdateRole, accessVars
  <2>3. CASE ~ UNCHANGED roleRows
    <3>1. /\ r \in DOMAIN roleRows /\ roleRows[r] # None
          /\ roleRows' = [roleRows EXCEPT ![r] = row]
      BY <1>6, <2>3 DEF UpdateRole, Exists
    <3>2. roleRows[r] \in Role
      BY <3>1, AccessTypes
    <3>3. row \in Role \cup {None}
      BY <2>1, <3>2 DEF Role
    <3> HIDE DEF row
    <3>4. /\ roleRows' \in Seq(Role \cup {None}) /\ Len(roleRows') = Len(roleRows)
          /\ DOMAIN roleRows' = DOMAIN roleRows
      BY <1>0, <3>1, <3>3, ExceptSeq
    <3>5. \A x \in DOMAIN roleRows : roleRows'[x] # None => roleRows[x] # None
      BY <3>1
    <3> QED
      BY <1>0, <2>1, <3>4, <3>5, TableStep
  <2> QED
    BY <2>2, <2>3
<1> QED
  BY <1>2, <1>3, <1>4, <1>5, <1>6 DEF AccessStep

-----------------------------------------------------------------------------
LEMMA AccessBegins == RequestsInit /\ AccessInit => AccessInv
<1> SUFFICES ASSUME RequestsInit, AccessInit PROVE AccessInv
  OBVIOUS
<1> DEFINE row == [name |-> SuperAdmin, grants |-> {}]
<1>1. row \in Role
  BY AccessAssumption DEF Role
<1>2. roleRows = [r \in {1} |-> row] /\ 1 .. 1 = {1}
  BY DEF AccessInit
<1> HIDE DEF row
<1>3. roleRows \in [1 .. 1 -> Role \cup {None}]
  BY <1>1, <1>2
<1>4. roleRows \in Seq(Role \cup {None}) /\ Len(roleRows) = 1 /\ DOMAIN roleRows = {1}
  <2>1. roleRows \in Seq(Role \cup {None})
    BY <1>3, SeqDef
  <2>2. Len(roleRows) \in Nat /\ 1 .. Len(roleRows) = 1 .. 1
    BY <1>2, <2>1, LenProperties
  <2>3. 1 \in 1 .. Len(roleRows) /\ Len(roleRows) \in 1 .. Len(roleRows)
    <3>1. 1 \in 1 .. 1
      OBVIOUS
    <3>2. 1 \in 1 .. Len(roleRows)
      BY <2>2, <3>1, Zenon
    <3> QED
      BY <2>2, <3>2
  <2>4. Len(roleRows) \in 1 .. 1
    BY <2>2, <2>3, Zenon
  <2> QED
    BY <1>2, <2>1, <2>4
<1>5. MaxRoles \in Nat \ {0} /\ 1 \in RoleIds
  BY AccessAssumption DEF RoleIds
<1>6. /\ userRoles \in [Callers -> (SUBSET RoleIds) \cup {None}]
      /\ verified \in [Callers -> BOOLEAN]
      /\ \A u \in Callers : userRoles[u] \subseteq {1}
  BY <1>5 DEF AccessInit
<1>7. \A s \in Slots : task[s] = Idle /\ Idle.pc = "idle"
  BY DEF RequestsInit, Idle
<1>8. task \in [Slots -> AccessTask \cup {Idle}]
  BY DEF RequestsInit
<1> QED
  BY <1>4, <1>5, <1>6, <1>7, <1>8 DEF AccessInv, Remembers

\* The invariant is kept, whatever administrators and callers do.
LEMMA AccessKept == AccessInv /\ [AccessNext]_<<task, accessVars>> => AccessInv'
<1> SUFFICES ASSUME AccessInv, [AccessNext]_<<task, accessVars>>
             PROVE  AccessInv'
  OBVIOUS
<1>1. CASE UNCHANGED <<task, accessVars>>
  BY <1>1 DEF AccessInv, Remembers, Exists, accessVars
<1> QED
  BY <1>1, AccessEventStep, AccessStepStep DEF AccessNext

LEMMA AccessInvariant == AccessSpec => []AccessInv
BY AccessBegins, AccessKept, PTL DEF AccessSpec

\* Every row and every handler keeps its type.
THEOREM AccessTyped == AccessSpec => []AccessTypeOK
<1>1. AccessInv => AccessTypeOK
  BY AccessTypes
<1> QED
  BY <1>1, AccessInvariant, PTL

\* The guard reads roles and, an await later, grants, while both change; what it lets
\* pass is a right the caller has at that moment, if he still is a user.
THEOREM GuardGrants == AccessSpec => PassedIsGranted
<1> DEFINE A == \A s \in Slots :
        task[s].pc = "grants" /\ task'[s].pc \in {"contact", "handler"} =>
            userRoles[task[s].user] = None \/ Holds(task[s].user, task[s].call.needs)
<1>1. AccessInv /\ [AccessNext]_<<task, accessVars>> => [A]_<<task, accessVars>>
  <2> SUFFICES ASSUME AccessInv, AccessNext, NEW s \in Slots,
                      task[s].pc = "grants", task'[s].pc \in {"contact", "handler"}
               PROVE  userRoles[task[s].user] = None \/ Holds(task[s].user, task[s].call.needs)
    OBVIOUS
  <2>0. task \in [Slots -> AccessTask \cup {Idle}] /\ Remembers(s) /\ Idle.pc = "idle"
    BY DEF AccessInv, Idle
  <2>1. ASSUME NEW u \in Slots, NEW h, task' = [task EXCEPT ![u] = h]
        PROVE  u = s
    BY <2>0, <2>1
  <2>2. ReadGrants(s)
    <3>1. CASE AccessEvent
      <4>1. task' = task \/ \E u \in Slots : task[u] = Idle /\ \E h : task' = [task EXCEPT ![u] = h]
        BY <3>1 DEF AccessEvent, CreateRole, FindRole, RemoveRole, UpdateUserRoles, RemoveUser,
                    Verify, GuestCall, TokenCall, Begin
      <4> QED
        BY <2>0, <2>1, <4>1
    <3>2. ASSUME NEW u \in Slots, AccessStep(u)
          PROVE  ReadGrants(s)
      <4>1. \E h : task' = [task EXCEPT ![u] = h]
        BY <3>2 DEF AccessStep, ReadUser, ReadGrants, ReadContact, Handle, UpdateRole, Await, Finish
      <4>2. u = s
        BY <2>1, <4>1
      <4> QED
        BY <2>0, <3>2, <4>2 DEF AccessStep, ReadUser, ReadContact, Handle, UpdateRole, At
    <3> QED
      BY <3>1, <3>2 DEF AccessNext
  <2>3. \E r \in task[s].roles : Exists(r) /\ task[s].call.needs \in roleRows[r].grants
    <3>1. ~ Finish(s)
      BY <2>0 DEF Finish
    <3> QED
      BY <2>2, <3>1 DEF ReadGrants
  <2> QED
    BY <2>0, <2>3 DEF Remembers, Holds
<1> QED
  BY <1>1, AccessInvariant, PTL DEF AccessSpec, PassedIsGranted

-----------------------------------------------------------------------------
(* Decorators.  What they make is answerable, for any resource of the      *)
(* permissions; every controller uses them on such a resource.             *)

Agrees(call) ==
    /\ call.guest \in BOOLEAN /\ call.bypass \in BOOLEAN
    /\ call.guest => call.needs = NoPermission /\ call.bypass
    /\ call.needs \in AllPermissions \cup {NoPermission}

LEMMA EndpointAgrees ==
    ASSUME NEW path, NEW op, NEW needs \in AllPermissions
    PROVE  Agrees(Endpoint(path, op, needs, FALSE, FALSE))
  BY DEF Agrees, Endpoint

LEMMA GuardedAgree ==
    ASSUME NEW path, NEW resource, NEW ops, \A op \in ops : <<op, resource>> \in AllPermissions
    PROVE  \A call \in Guarded(path, resource, ops) : Agrees(call)
  BY EndpointAgrees DEF Guarded

LEMMA CrudAgree ==
    ASSUME NEW path, NEW resource \in CrudResources, NEW ops \in SUBSET Crud
    PROVE  \A call \in Guarded(path, resource, ops) : Agrees(call)
<1>1. \A op \in ops : <<op, resource>> \in AllPermissions
  BY DEF AllPermissions
<1> QED BY <1>1, GuardedAgree

\* Without a permission.
LEMMA OthersAgree ==
    ASSUME NEW path, NEW ops
    PROVE  /\ \A call \in Plain(path, ops) : Agrees(call)
           /\ \A call \in Unverified(path, ops) : Agrees(call)
           /\ \A call \in Public(path, ops) : Agrees(call)
<1>1. \A op, guest, bypass :
          guest \in BOOLEAN /\ bypass \in BOOLEAN /\ (guest => bypass) =>
              Agrees(Endpoint(path, op, NoPermission, guest, bypass))
  BY DEF Endpoint, Agrees
<1>2. \A call \in Plain(path, ops) : Agrees(call)
  BY <1>1 DEF Plain
<1>3. \A call \in Unverified(path, ops) : Agrees(call)
  BY <1>1 DEF Unverified
<1>4. \A call \in Public(path, ops) : Agrees(call)
  BY <1>1 DEF Public
<1> QED BY <1>2, <1>3, <1>4

\* The endpoints of each controller.
LEMMA ControllersAgree ==
    \A call \in AllEndpoints : Agrees(call)
<1> DEFINE Fine(set) == \A call \in set : Agrees(call)
<1>0. /\ \A resource \in CrudResources : \A op \in Crud : <<op, resource>> \in AllPermissions
      /\ OtherPermissions \subseteq AllPermissions
  BY DEF AllPermissions
<1>1. ASSUME NEW path, NEW op, NEW verb \in Crud, NEW resource \in CrudResources
      PROVE  Agrees(Endpoint(path, op, <<verb, resource>>, FALSE, FALSE))
  BY <1>0, EndpointAgrees
<1>2. Fine(AuthEndpoints) /\ Fine(VerificationEndpoints)
  BY OthersAgree DEF AuthEndpoints, VerificationEndpoints
<1>3. Fine(UserEndpoints)
  BY CrudAgree DEF UserEndpoints, CrudResources
<1>4. Fine(RoleEndpoints)
  <2>1. Fine(Guarded("roles", "roles", {"create", "update", "delete", "read"}))
    BY CrudAgree DEF CrudResources, Crud
  <2>2. Agrees(Endpoint("roles", "list", <<"read", "roles">>, FALSE, FALSE))
    BY <1>1 DEF CrudResources, Crud
  <2> QED BY <2>1, <2>2 DEF RoleEndpoints
<1>5. Fine(PermissionEndpoints) /\ Fine(AccountManagerEndpoints) /\ Fine(SupervisorEndpoints)
      /\ Fine(SettingEndpoints) /\ Fine(OweSettingEndpoints)
  <2>1. /\ <<"browse", "permissions">> \in AllPermissions
        /\ <<"browse", "account-manager">> \in AllPermissions
        /\ \A op \in {"browse", "update"} : /\ <<op, "supervisors">> \in AllPermissions
                                            /\ <<op, "settings">> \in AllPermissions
    BY <1>0 DEF OtherPermissions
  <2> QED
    BY <2>1, GuardedAgree DEF PermissionEndpoints, AccountManagerEndpoints, SupervisorEndpoints,
                              SettingEndpoints, OweSettingEndpoints
<1>6. Fine(LicenseEndpoints) /\ Fine(VehicleEndpoints)
  <2>1. /\ Fine(Guarded("licenses", "licenses", Crud))
        /\ Fine(Guarded("vehicles", "vehicles", Crud))
    BY CrudAgree DEF CrudResources
  <2>2. /\ Agrees(Endpoint("licenses/find/user", "read", <<"read", "licenses">>, FALSE, FALSE))
        /\ Agrees(Endpoint("vehicles/find/user", "read", <<"read", "vehicles">>, FALSE, FALSE))
    BY <1>1 DEF CrudResources, Crud
  <2> QED BY <2>1, <2>2 DEF LicenseEndpoints, VehicleEndpoints
<1>7. /\ Fine(VehicleBrandEndpoints) /\ Fine(VehicleTypeEndpoints) /\ Fine(PeakFareEndpoints)
      /\ Fine(BankAccountEndpoints) /\ Fine(PromoEndpoints) /\ Fine(DiscountEndpoints)
      /\ Fine(IncentiveEndpoints) /\ Fine(LocationEndpoints) /\ Fine(LegalEndpoints)
      /\ Fine(MailTemplateEndpoints)
  BY CrudAgree DEF CrudResources, VehicleBrandEndpoints, VehicleTypeEndpoints, PeakFareEndpoints,
       BankAccountEndpoints, PromoEndpoints, DiscountEndpoints, IncentiveEndpoints,
       LocationEndpoints, LegalEndpoints, MailTemplateEndpoints
<1>8. /\ Fine(TimeOnlineEndpoints) /\ Fine(AcceptanceRateEndpoints) /\ Fine(TripEndpoints)
      /\ Fine(EarningsEndpoints) /\ Fine(BankEndpoints) /\ Fine(WebhookEndpoints)
      /\ Fine(CountryEndpoints) /\ Fine(StateEndpoints) /\ Fine(CityEndpoints)
      /\ Fine(StatsEndpoints) /\ Fine(HealthEndpoints) /\ Fine(AppEndpoints)
      /\ Fine(ChatEndpoints)
  BY OthersAgree DEF TimeOnlineEndpoints, AcceptanceRateEndpoints, TripEndpoints,
       EarningsEndpoints, BankEndpoints, WebhookEndpoints, CountryEndpoints, StateEndpoints,
       CityEndpoints, StatsEndpoints, HealthEndpoints, AppEndpoints, ChatEndpoints
<1>9. Fine(ReviewEndpoints)
  <2>1. \A op \in {"browse", "read", "delete"} : <<op, "reviews">> \in AllPermissions
    BY <1>0 DEF OtherPermissions
  <2>2. Fine(Guarded("reviews", "reviews", {"browse", "read", "delete"}))
    BY <2>1, GuardedAgree
  <2>3. Agrees(Endpoint("reviews/find/trip", "read", <<"read", "reviews">>, FALSE, FALSE))
    BY <2>1, EndpointAgrees
  <2> QED BY <2>2, <2>3, OthersAgree DEF ReviewEndpoints
<1>10. Fine(FareEndpoints) /\ Fine(NightFareEndpoints) /\ Fine(CancelReasonEndpoints)
       /\ Fine(FaqEndpoints)
  BY CrudAgree, OthersAgree DEF CrudResources, FareEndpoints, NightFareEndpoints,
       CancelReasonEndpoints, FaqEndpoints
<1>11. Fine(TransactionEndpoints)
  <2>1. Fine(Guarded("transactions", "bank-accounts", {"browse"}))
    BY CrudAgree DEF CrudResources, Crud
  <2> QED BY <2>1, OthersAgree DEF TransactionEndpoints
<1>12. Fine(WithdrawalEndpoints)
  <2>1. \A op \in {"browse", "create", "update"} : <<op, "withdrawal-requests">> \in AllPermissions
    BY <1>0 DEF OtherPermissions
  <2> QED BY <2>1, GuardedAgree DEF WithdrawalEndpoints
<1>13. Fine(DriverPromoEndpoints)
  <2>1. Fine(Guarded("driver-promos", "promos", Crud))
    BY CrudAgree DEF CrudResources
  <2>2. Agrees(Endpoint("driver-promos/progress", "read", <<"read", "promos">>, FALSE, FALSE))
    BY <1>1 DEF CrudResources, Crud
  <2> QED BY <2>1, <2>2, OthersAgree DEF DriverPromoEndpoints
<1>14. Fine(NotificationEndpoints)
  <2>1. Fine(Guarded("notifications", "notifications", {"browse", "read", "delete"}))
    BY CrudAgree DEF CrudResources, Crud
  <2>2. \A op : Agrees(Endpoint("notifications", op, <<"create", "notifications">>, FALSE, FALSE))
    BY <1>1 DEF CrudResources, Crud
  <2> QED BY <2>1, <2>2 DEF NotificationEndpoints
<1>15. Fine(SupportCategoryEndpoints) /\ Fine(SupportQuestionEndpoints)
  <2>1. \A path : Fine(Guarded(path, "support", {"create", "update", "delete"}))
    BY CrudAgree DEF CrudResources, Crud
  <2> QED BY <2>1, OthersAgree DEF SupportCategoryEndpoints, SupportQuestionEndpoints
<1> HIDE DEF Fine
<1>16. ASSUME NEW set \in
    {AuthEndpoints, VerificationEndpoints, UserEndpoints, RoleEndpoints, PermissionEndpoints,
     AccountManagerEndpoints, SupervisorEndpoints, SettingEndpoints, OweSettingEndpoints,
     LicenseEndpoints, VehicleEndpoints, VehicleBrandEndpoints, VehicleTypeEndpoints,
     TimeOnlineEndpoints, AcceptanceRateEndpoints, TripEndpoints, ReviewEndpoints,
     FareEndpoints, PeakFareEndpoints, NightFareEndpoints, CancelReasonEndpoints,
     TransactionEndpoints, BankAccountEndpoints, WithdrawalEndpoints, WebhookEndpoints,
     PromoEndpoints, DriverPromoEndpoints, DiscountEndpoints, IncentiveEndpoints,
     LocationEndpoints, CountryEndpoints, StateEndpoints, CityEndpoints,
     NotificationEndpoints, ChatEndpoints, FaqEndpoints, LegalEndpoints,
     MailTemplateEndpoints, SupportCategoryEndpoints, SupportQuestionEndpoints,
     EarningsEndpoints, BankEndpoints, StatsEndpoints, HealthEndpoints, AppEndpoints}
       PROVE  Fine(set)
  BY <1>2, <1>3, <1>4, <1>5, <1>6, <1>7, <1>8, <1>9, <1>10, <1>11, <1>12, <1>13, <1>14, <1>15,
     <1>16
<1> QED BY <1>16 DEF AllEndpoints, Fine

-----------------------------------------------------------------------------
(* A guest is led past the guards that would read a user.                  *)

KnowsUser(s) == task[s].pc \in {"user", "grants", "contact"} => ~ task[s].call.guest

LEMMA GuestsPass ==
    ASSUME NEW call \in Calls, call.guest
    PROVE  AfterPermissions(call) = "handler"
  BY ControllersAgree, AccessAssumption DEF Agrees, AfterPermissions

LEMMA KnowsUserKept ==
    ASSUME AccessInv, \A s \in Slots : KnowsUser(s), [AccessNext]_<<task, accessVars>>
    PROVE  \A s \in Slots : KnowsUser(s)'
<1>0. task \in [Slots -> AccessTask \cup {Idle}]
  BY DEF AccessInv
<1>1. ASSUME NEW s \in Slots, NEW h, task' = [task EXCEPT ![s] = h],
             h.pc \in {"user", "grants", "contact"} => ~ h.call.guest
      PROVE  \A u \in Slots : KnowsUser(u)'
  BY <1>0, <1>1 DEF KnowsUser
<1>2. ASSUME NEW s \in Slots, Finish(s)
      PROVE  \A u \in Slots : KnowsUser(u)'
  BY <1>1, <1>2 DEF Finish, Idle
<1>3. CASE UNCHANGED task
  BY <1>3 DEF KnowsUser
<1>4. ASSUME NEW s \in Slots, NEW u \in Callers, NEW call \in Calls,
             GuestCall(s, u, call) \/ TokenCall(s, u, call)
      PROVE  \A t \in Slots : KnowsUser(t)'
  <2>1. CASE GuestCall(s, u, call)
    BY <1>1, <2>1, GuestsPass DEF GuestCall, Begin
  <2>2. CASE TokenCall(s, u, call)
    <3>1. ~ call.guest /\ \E pc : task' = [task EXCEPT ![s] = [pc |-> pc, user |-> u, call |-> call]]
      BY <2>2 DEF TokenCall, Begin
    <3>2. \A pc : [pc |-> pc, user |-> u, call |-> call].call = call
      OBVIOUS
    <3> QED BY <1>1, <3>1, <3>2
  <2> QED BY <1>4, <2>1, <2>2
<1>5. ASSUME NEW s \in Slots, NEW r \in RoleIds, NEW name \in RoleNames,
             NEW given \in SUBSET Grantable, FindRole(s, r, name, given)
      PROVE  \A u \in Slots : KnowsUser(u)'
  BY <1>1, <1>5 DEF FindRole, Begin
<1>6. CASE AccessEvent
  BY <1>3, <1>4, <1>5, <1>6 DEF AccessEvent, CreateRole, RemoveRole, UpdateUserRoles, RemoveUser,
       Verify
<1>7. ASSUME NEW s \in Slots, ReadUser(s) \/ ReadGrants(s)
      PROVE  \A u \in Slots : KnowsUser(u)'
  <2>1. ~ task[s].call.guest
    BY <1>7 DEF KnowsUser, ReadUser, ReadGrants, At
  <2>2. \/ Finish(s)
        \/ \E h : task' = [task EXCEPT ![s] = h] /\ h.call = task[s].call
    BY <1>7 DEF ReadUser, ReadGrants, Await
  <2> QED BY <1>1, <1>2, <2>1, <2>2
<1>8. ASSUME NEW s \in Slots, ReadContact(s)
      PROVE  \A u \in Slots : KnowsUser(u)'
  <2>1. task[s] \in [pc: {"user", "contact", "handler"}, user: Callers, call: Calls]
    BY <1>0, <1>8, AccessFields DEF ReadContact, At
  <2>2. [task[s] EXCEPT !.pc = "handler"].pc = "handler"
    BY <2>1
  <2> QED BY <1>1, <1>2, <1>8, <2>2 DEF ReadContact, Await
<1>9. ASSUME NEW s \in Slots, Handle(s) \/ UpdateRole(s)
      PROVE  \A u \in Slots : KnowsUser(u)'
  BY <1>2, <1>9 DEF Handle, UpdateRole
<1> QED
  BY <1>3, <1>6, <1>7, <1>8, <1>9 DEF AccessNext, AccessStep

\* No guard reads the user of a request that has none, and every permission that an
\* endpoint asks for is among those the seeds create, whatever endpoints are called.
THEOREM GuestsAnswered == AccessSpec => []EndpointsAnswerable
<1>1. DecoratorsAgree
  BY ControllersAgree DEF DecoratorsAgree, Agrees
<1>2. RequestsInit => \A s \in Slots : KnowsUser(s)
  BY DEF RequestsInit, KnowsUser, Idle
<1>3. (\A s \in Slots : KnowsUser(s)) => EndpointsAnswerable
  BY <1>1 DEF KnowsUser, EndpointsAnswerable
<1> DEFINE Known == \A s \in Slots : KnowsUser(s)
<1>4. AccessInv /\ Known /\ [AccessNext]_<<task, accessVars>> => Known'
  BY KnowsUserKept
<1> HIDE DEF Known
<1> QED
  BY <1>2, <1>3, <1>4, AccessInvariant, PTL DEF AccessSpec, Known

-----------------------------------------------------------------------------
(* Types of the others.  What Begin, Await and Finish keep: a handler of   *)
(* one of the types T, or none, in each slot.                              *)

LEMMA HandlersKept ==
    ASSUME NEW T, task \in [Slots -> T \cup {Idle}], NEW s \in Slots, NEW h \in T
    PROVE  /\ Begin(s, h) => task' \in [Slots -> T \cup {Idle}]
           /\ Await(s, h) => task' \in [Slots -> T \cup {Idle}]
  BY DEF Begin, Await

LEMMA HandlersFinish ==
    ASSUME NEW T, task \in [Slots -> T \cup {Idle}], NEW s \in Slots, Finish(s)
    PROVE  task' \in [Slots -> T \cup {Idle}]
  BY DEF Finish

\* Who is at a step is a handler.
LEMMA HandlerAt ==
    ASSUME NEW T, task \in [Slots -> T \cup {Idle}], NEW s \in Slots, NEW pc,
           At(s, pc), pc # "idle"
    PROVE  task[s] \in T /\ task[s].pc = pc
  BY DEF At, Idle

OtpTyped == OtpTypeOK /\ task \in [Slots -> OtpTask \cup {Idle}]

\* One-time passwords: what is marked or grows old is a row, and the contact that is
\* verified is the user's of that row.
LEMMA OtpKept == OtpTyped /\ [OtpNext]_<<task, otpVars>> => OtpTyped'
<1> SUFFICES ASSUME OtpTyped, [OtpNext]_<<task, otpVars>> PROVE OtpTyped'
  OBVIOUS
<1> DEFINE Kept == /\ task' \in [Slots -> OtpTask \cup {Idle}]
                   /\ otps' \in [Tokens -> Otp \cup {None}]
                   /\ contacts' \in [Holders -> Contact]
                   /\ accepted' \in [Tokens -> Nat]
<1>0. /\ task \in [Slots -> OtpTask \cup {Idle}]
      /\ otps \in [Tokens -> Otp \cup {None}]
      /\ contacts \in [Holders -> Contact]
      /\ accepted \in [Tokens -> Nat]
  BY DEF OtpTyped, OtpTypeOK
<1>01. task \in [Slots -> OtpTask \cup {Idle}]
  BY <1>0
<1>1. SUFFICES Kept
  BY DEF OtpTyped, OtpTypeOK
<1>2. CASE UNCHANGED <<task, otpVars>>
  BY <1>0, <1>2 DEF otpVars
<1>3. ASSUME NEW s \in Slots, UNCHANGED otpVars,
             Finish(s) \/ \E h \in OtpTask : Begin(s, h) \/ Await(s, h)
      PROVE  Kept
  BY <1>0, <1>3, HandlersKept, HandlersFinish DEF otpVars
<1>4. \A otp \in Otp : /\ otp.user \in Holders
                       /\ \A age \in Age : [otp EXCEPT !.age = age] \in Otp
                       /\ MarkedUsed(otp) \in Otp
  BY DEF Otp, MarkedUsed
<1>5. ASSUME NEW t \in Tokens, Grow(t)
      PROVE  Kept
  <2>1. Older(otps[t].age) \in Age /\ otps[t] \in Otp
    BY <1>0, <1>5 DEF Grow, Older, Age
  <2>2. [otps[t] EXCEPT !.age = Older(otps[t].age)] \in Otp
    BY <1>4, <2>1
  <2>3. otps' = [otps EXCEPT ![t] = [otps[t] EXCEPT !.age = Older(otps[t].age)]]
    BY <1>0, <1>5 DEF Grow
  <2> QED BY <1>0, <1>5, <2>2, <2>3 DEF Grow
<1>6. ASSUME NEW u \in Holders, NEW changed \in SUBSET Provider, NEW provider \in Provider,
             ChangeContact(u, changed, provider)
      PROVE  Kept
  <2>1. [provider |-> provider, verified |-> contacts[u].verified \ changed] \in Contact
    BY <1>0 DEF Contact
  <2> QED BY <1>0, <1>6, <2>1 DEF ChangeContact
<1>7. ASSUME NEW s \in Slots, NEW u \in Holders, NEW type \in OtpTypes, SendOtp(s, u, type)
      PROVE  Kept
  <2>1. [pc |-> "clear", user |-> u, type |-> type] \in OtpTask
    BY DEF OtpTask
  <2> QED BY <1>3, <1>7, <2>1 DEF SendOtp
<1>8. ASSUME NEW s \in Slots, NEW t \in Tokens, NEW type \in OtpTypes, VerifyOtp(s, t, type)
      PROVE  Kept
  <2>1. otps[t].user \in Holders
    BY <1>0, <1>4, <1>8 DEF VerifyOtp
  <2>2. contacts[otps[t].user].provider \in Provider
    BY <1>0, <2>1 DEF Contact
  <2>3. [pc |-> "accept", token |-> t, type |-> type, user |-> otps[t].user,
         provider |-> contacts[otps[t].user].provider] \in OtpTask
    BY <2>1, <2>2 DEF OtpTask
  <2> QED BY <1>3, <1>8, <2>3 DEF VerifyOtp
<1>9. ASSUME NEW s \in Slots, ClearOtps(s)
      PROVE  Kept
  <2>0. At(s, "clear")
    BY <1>9 DEF ClearOtps
  <2>1. task[s] \in OtpTask /\ task[s].pc = "clear"
    BY <1>01, <2>0, HandlerAt
  <2>2. [task[s] EXCEPT !.pc = "insert"] \in OtpTask
    BY <2>1 DEF OtpTask
  <2>3. task' \in [Slots -> OtpTask \cup {Idle}]
    BY <1>0, <1>9, <2>2, HandlersKept DEF ClearOtps
  <2>4. otps' \in [Tokens -> Otp \cup {None}]
    BY <1>0, <1>9 DEF ClearOtps
  <2> QED BY <1>0, <1>9, <2>3, <2>4 DEF ClearOtps
<1>10. ASSUME NEW s \in Slots, InsertOtp(s)
       PROVE  Kept
  <2>0. At(s, "insert")
    BY <1>10 DEF InsertOtp
  <2>1. task[s] \in OtpTask /\ task[s].pc = "insert"
    BY <1>01, <2>0, HandlerAt
  <2>2. task[s].user \in Holders /\ task[s].type \in OtpTypes
    BY <2>1 DEF OtpTask
  <2>3. [user |-> task[s].user, type |-> task[s].type, used |-> FALSE, age |-> "new"] \in Otp
    BY <2>2 DEF Otp, Age
  <2>4. otps' \in [Tokens -> Otp \cup {None}]
    BY <1>0, <1>10, <2>3 DEF InsertOtp
  <2> QED BY <1>0, <1>10, <2>4, HandlersFinish DEF InsertOtp
<1>11. ASSUME NEW s \in Slots, AcceptOtp(s)
       PROVE  Kept
  <2>0. At(s, "accept")
    BY <1>11 DEF AcceptOtp
  <2>1. task[s] \in OtpTask /\ task[s].pc = "accept"
    BY <1>01, <2>0, HandlerAt
  <2>2. task[s].token \in Tokens /\ [task[s] EXCEPT !.pc = "flag"] \in OtpTask
    BY <2>1 DEF OtpTask
  <2>3. Finish(s) \/ Await(s, [task[s] EXCEPT !.pc = "flag"])
    BY <1>11 DEF AcceptOtp
  <2>4. task' \in [Slots -> OtpTask \cup {Idle}]
    BY <1>0, <2>2, <2>3, HandlersKept, HandlersFinish
  <2>5. otps[task[s].token] # None => MarkedUsed(otps[task[s].token]) \in Otp
    BY <1>0, <1>4, <2>2
  <2>6. otps' \in [Tokens -> Otp \cup {None}]
    BY <1>0, <1>11, <2>5 DEF AcceptOtp
  <2>7. accepted' \in [Tokens -> Nat] /\ UNCHANGED contacts
    BY <1>0, <1>11, <2>2 DEF AcceptOtp
  <2> QED BY <1>0, <2>4, <2>6, <2>7
<1>12. ASSUME NEW s \in Slots, FlagVerified(s)
       PROVE  Kept
  <2>0. At(s, "flag")
    BY <1>12 DEF FlagVerified
  <2>1. task[s] \in OtpTask /\ task[s].pc = "flag"
    BY <1>01, <2>0, HandlerAt
  <2>2. task[s].user \in Holders /\ task[s].provider \in Provider
    BY <2>1 DEF OtpTask
  <2>3. [contacts[task[s].user] EXCEPT !.verified = @ \cup {task[s].provider}] \in Contact
    BY <1>0, <2>2 DEF Contact
  <2>4. contacts' \in [Holders -> Contact]
    BY <1>0, <1>12, <2>3 DEF FlagVerified
  <2> QED BY <1>0, <1>12, <2>4, HandlersFinish DEF FlagVerified
<1>13. ASSUME NEW s \in Slots, OtpFails(s)
       PROVE  Kept
  BY <1>3, <1>13 DEF OtpFails
<1> HIDE DEF Kept
<1>14. CASE OtpNext
  BY <1>5, <1>6, <1>7, <1>8, <1>9, <1>10, <1>11, <1>12, <1>13, <1>14 DEF OtpNext
<1> QED BY <1>2, <1>14

\* An account that is to gain a role is there: none is removed while it registers.
RegisterTyped ==
    /\ RegisterTypeOK /\ task \in [Slots -> RegisterTask \cup {Idle}]
    /\ \A s \in Slots : At(s, "role") => people[task[s].id] # None

\* Registrations and account officers.
LEMMA RegisterKept == RegisterTyped /\ [RegisterNext]_<<task, registerVars>> => RegisterTyped'
<1> SUFFICES ASSUME RegisterTyped, [RegisterNext]_<<task, registerVars>> PROVE RegisterTyped'
  OBVIOUS
<1> DEFINE Gains == \A s \in Slots : At(s, "role") => people[task[s].id] # None
           Kept == /\ task' \in [Slots -> RegisterTask \cup {Idle}]
                   /\ people' \in [People -> Person \cup {None}]
                   /\ officerOf' \in [People -> AccountOfficers \cup {None}]
                   /\ supervisorOf' \in [AccountOfficers -> Supervisors \cup {None}]
                   /\ Gains'
<1>0. /\ task \in [Slots -> RegisterTask \cup {Idle}]
      /\ people \in [People -> Person \cup {None}]
      /\ officerOf \in [People -> AccountOfficers \cup {None}]
      /\ supervisorOf \in [AccountOfficers -> Supervisors \cup {None}]
      /\ Gains /\ Idle.pc # "role"
  BY DEF RegisterTyped, RegisterTypeOK, Idle
<1>01. task \in [Slots -> RegisterTask \cup {Idle}]
  BY <1>0
<1>1. SUFFICES Kept
  BY DEF RegisterTyped, RegisterTypeOK
<1>2. CASE UNCHANGED <<task, registerVars>>
  BY <1>0, <1>2 DEF registerVars, At
<1>3. ASSUME NEW s \in Slots, UNCHANGED <<people, officerOf, supervisorOf>>,
             NEW h \in RegisterTask, Begin(s, h) \/ Await(s, h),
             h.pc = "role" => people[h.id] # None
      PROVE  Kept
  <2>1. task' \in [Slots -> RegisterTask \cup {Idle}]
    BY <1>0, <1>3, HandlersKept
  <2>2. task' = [task EXCEPT ![s] = h]
    BY <1>3 DEF Begin, Await
  <2>3. Gains'
    BY <1>0, <1>3, <2>2 DEF At
  <2> QED BY <1>0, <1>3, <2>1, <2>3
<1>4. ASSUME NEW s \in Slots, Finish(s), \A p \in People : people[p] # None => people'[p] # None
      PROVE  task' \in [Slots -> RegisterTask \cup {Idle}] /\ Gains'
  <2>1. task' \in [Slots -> RegisterTask \cup {Idle}]
    BY <1>0, <1>4, HandlersFinish
  <2>2. \A u \in Slots : At(u, "role") => task[u].id \in People
    <3> TAKE u \in Slots
    <3> HAVE At(u, "role")
    <3>1. task[u] \in RegisterTask /\ task[u].pc = "role"
      BY <1>01, HandlerAt
    <3> QED BY <3>1 DEF RegisterTask
  <2> QED BY <1>0, <1>4, <2>1, <2>2 DEF Finish, At
<1>5. ASSUME NEW s \in Slots, NEW phone \in Phones, NEW role \in PublicRoles,
             Register(s, phone, role)
      PROVE  Kept
  <2>1. /\ [pc |-> "person", phone |-> phone, role |-> role] \in RegisterTask
        /\ \A p \in People : [pc |-> "role", id |-> p, role |-> role] \in RegisterTask
    BY DEF RegisterTask
  <2>2. CASE Begin(s, [pc |-> "person", phone |-> phone, role |-> role])
    BY <1>3, <1>5, <2>1, <2>2 DEF Register, registerVars
  <2>3. ASSUME NEW p \in WithPhone(phone), Begin(s, [pc |-> "role", id |-> p, role |-> role])
        PROVE  Kept
    <3>1. p \in People /\ people[p] # None
      BY DEF WithPhone
    <3> QED BY <1>3, <1>5, <2>1, <2>3, <3>1 DEF Register, registerVars
  <2> QED BY <1>5, <2>2, <2>3 DEF Register
<1>6. ASSUME NEW s \in Slots, NEW v \in Supervisors, NEW managers \in SUBSET AccountOfficers,
             FindManagers(s, v, managers)
      PROVE  Kept
  <2>1. [pc |-> "supervise", supervisor |-> v, managers |-> managers] \in RegisterTask
    BY DEF RegisterTask
  <2> QED BY <1>3, <1>6, <2>1 DEF FindManagers, registerVars
<1>7. ASSUME NEW s \in Slots, AddRole(s)
      PROVE  Kept
  <2>0. At(s, "role")
    BY <1>7 DEF AddRole
  <2>1. task[s] \in RegisterTask /\ task[s].pc = "role"
    BY <1>01, <2>0, HandlerAt
  <2>2. task[s].id \in People /\ task[s].role \in PublicRoles
    BY <2>1 DEF RegisterTask
  <2>3. people[task[s].id] \in Person
    BY <1>0, <2>0, <2>2
  <2>4. [people[task[s].id] EXCEPT !.roles = @ \cup {task[s].role}] \in Person
    BY <2>2, <2>3 DEF Person
  <2>5. /\ people' \in [People -> Person \cup {None}]
        /\ \A p \in People : people[p] # None => people'[p] # None
    BY <1>0, <1>7, <2>4, NoneIsNoAccount DEF AddRole
  <2> QED BY <1>0, <1>4, <1>7, <2>5 DEF AddRole
<1>8. ASSUME NEW s \in Slots, InsertUser(s)
      PROVE  Kept
  <2>0. At(s, "person")
    BY <1>8 DEF InsertUser
  <2>1. task[s] \in RegisterTask /\ task[s].pc = "person"
    BY <1>01, <2>0, HandlerAt
  <2>2. task[s].phone \in Phones /\ task[s].role \in PublicRoles
    BY <2>1 DEF RegisterTask
  <2>3. CASE Finish(s) /\ UNCHANGED people
    BY <1>0, <1>4, <1>8, <2>3 DEF InsertUser
  <2>4. CASE ~ (Finish(s) /\ UNCHANGED people)
    <3> DEFINE person == [phone |-> task[s].phone, roles |-> {task[s].role}]
    <3>1. PICK p \in People :
             /\ people[p] = None /\ people' = [people EXCEPT ![p] = person]
             /\ Finish(s) \/ Await(s, [pc |-> "officers", id |-> p])
      BY <1>8, <2>4 DEF InsertUser
    <3>2. person \in Person
      BY <2>2 DEF Person
    <3> HIDE DEF person
    <3>3. /\ people' \in [People -> Person \cup {None}]
          /\ \A q \in People : people[q] # None => people'[q] # None
      BY <1>0, <3>1, <3>2, NoneIsNoAccount
    <3>4. [pc |-> "officers", id |-> p] \in RegisterTask
      BY DEF RegisterTask
    <3>5. CASE Finish(s)
      BY <1>0, <1>4, <1>8, <3>3, <3>5 DEF InsertUser
    <3>6. CASE Await(s, [pc |-> "officers", id |-> p])
      <4>1. task' \in [Slots -> RegisterTask \cup {Idle}]
        BY <1>0, <3>4, <3>6, HandlersKept
      <4>2. ASSUME NEW u \in Slots, At(u, "role")'
            PROVE  people'[task'[u].id] # None
        <5>1. u # s /\ task'[u] = task[u]
          BY <1>0, <3>6, <4>2 DEF Await, At
        <5>2. At(u, "role")
          BY <4>2, <5>1 DEF At
        <5>3. task[u] \in RegisterTask /\ task[u].pc = "role"
          BY <1>01, <5>2, HandlerAt
        <5>4. task[u].id \in People
          BY <5>3 DEF RegisterTask
        <5> QED BY <1>0, <3>3, <5>1, <5>2, <5>4
      <4>3. Gains'
        BY <4>2 DEF At
      <4> QED BY <1>0, <1>8, <3>3, <4>1, <4>3 DEF InsertUser
    <3> QED BY <3>1, <3>5, <3>6
  <2> QED BY <2>3, <2>4
<1>9. ASSUME NEW s \in Slots, PickOfficer(s)
      PROVE  Kept
  <2>0. At(s, "officers")
    BY <1>9 DEF PickOfficer
  <2>1. task[s] \in RegisterTask /\ task[s].pc = "officers"
    BY <1>01, <2>0, HandlerAt
  <2>2. \A m \in LeastLoaded : [pc |-> "assign", id |-> task[s].id, officer |-> m] \in RegisterTask
    BY <2>1 DEF RegisterTask, LeastLoaded
  <2>3. \A m : [pc |-> "assign", id |-> task[s].id, officer |-> m].pc # "role"
    OBVIOUS
  <2> QED BY <1>3, <1>9, <2>2, <2>3 DEF PickOfficer, registerVars
<1>10. ASSUME NEW s \in Slots, AssignOfficer(s)
       PROVE  Kept
  <2>0. At(s, "assign")
    BY <1>10 DEF AssignOfficer
  <2>1. task[s] \in RegisterTask /\ task[s].pc = "assign"
    BY <1>01, <2>0, HandlerAt
  <2>2. task[s].officer \in AccountOfficers
    BY <2>1 DEF RegisterTask
  <2>3. officerOf' \in [People -> AccountOfficers \cup {None}]
    BY <1>0, <1>10, <2>2 DEF AssignOfficer
  <2> QED BY <1>0, <1>4, <1>10, <2>3 DEF AssignOfficer
<1>11. ASSUME NEW s \in Slots, AssignManagers(s)
       PROVE  Kept
  <2>0. At(s, "supervise")
    BY <1>11 DEF AssignManagers
  <2>1. task[s] \in RegisterTask /\ task[s].pc = "supervise"
    BY <1>01, <2>0, HandlerAt
  <2>2. task[s].supervisor \in Supervisors
    BY <2>1 DEF RegisterTask
  <2>3. supervisorOf' \in [AccountOfficers -> Supervisors \cup {None}]
    BY <1>0, <1>11, <2>2 DEF AssignManagers
  <2> QED BY <1>0, <1>4, <1>11, <2>3 DEF AssignManagers
<1>12. ASSUME NEW s \in Slots, RegisterFails(s)
       PROVE  Kept
  BY <1>0, <1>4, <1>12 DEF RegisterFails, registerVars
<1> HIDE DEF Kept
<1>13. CASE RegisterNext
  BY <1>5, <1>6, <1>7, <1>8, <1>9, <1>10, <1>11, <1>12, <1>13 DEF RegisterNext, RegisterStep
<1> QED BY <1>2, <1>13

-----------------------------------------------------------------------------
(* The seeds of grants.  An upsert gives permissions that are there to     *)
(* roles that are there, once it has found what it looks for.              *)

Fits(q) ==
    /\ "role" \in DOMAIN q => q.perms \subseteq permissions
                              /\ (q.pc = "update" => SuperAdminRole \in roles)
    /\ "perm" \in DOMAIN q => q.to \subseteq roles /\ (q.pc = "update" => q.perm \in permissions)

SeedGrantsTyped == SeedGrantsTypeOK /\ \A q \in queries : Fits(q)

LEMMA UpsertKinds ==
    ASSUME NEW q \in Query
    PROVE  /\ q.pc \in {"look", "update", "create"}
           /\ "role" \in DOMAIN q =>
                 "perm" \notin DOMAIN q /\ q.role = SuperAdminRole /\ q.to = {SuperAdminRole}
           /\ "perm" \in DOMAIN q => q.perm \in Permissions
           /\ \A pc \in {"update", "create"} : \A r : r = [q EXCEPT !.pc = pc] =>
                 /\ r \in Query /\ r.pc = pc /\ DOMAIN r = DOMAIN q /\ r.to = q.to
                 /\ "role" \in DOMAIN q => r.perms = q.perms
                 /\ "perm" \in DOMAIN q => r.perm = q.perm
<1>1. CASE q \in [pc: {"look", "update", "create"}, role: {SuperAdminRole}, to: {{SuperAdminRole}},
                  perms: SUBSET Permissions, nth: Permissions]
  BY <1>1 DEF Query
<1>2. CASE q \in [pc: {"look", "update", "create"}, perm: Permissions, to: {{"driver"}, OfficerRoles}]
  BY <1>2 DEF Query
<1> QED BY <1>1, <1>2 DEF Query

\* What is there stays there, and so do the upserts that fit.
LEMMA FitsStay ==
    ASSUME NEW q, Fits(q), roles \subseteq roles', permissions \subseteq permissions'
    PROVE  Fits(q)'
  BY DEF Fits

LEMMA SeedGrantsKept == SeedGrantsTyped /\ [SeedGrantsNext]_grantVars => SeedGrantsTyped'
<1> SUFFICES ASSUME SeedGrantsTyped, [SeedGrantsNext]_grantVars PROVE SeedGrantsTyped'
  OBVIOUS
<1> DEFINE Places == {"start", "read", "admins", "no officer", "done", "failed"}
           Staff == (Admins \X {SuperAdminRole}) \cup (Officers \X {"account-officer"})
           Kept == /\ roles' \subseteq SeedRoles /\ permissions' \subseteq Permissions
                   /\ grants' \subseteq roles' \X permissions'
                   /\ staff' \subseteq Staff
                   /\ function' \in [Functions -> Places]
                   /\ \A q \in queries' : q \in Query /\ Fits(q)'
                   /\ runs' \in 0 .. MaxRuns /\ ready' \in BOOLEAN
<1>0. /\ roles \subseteq SeedRoles /\ permissions \subseteq Permissions
      /\ grants \subseteq roles \X permissions
      /\ staff \subseteq Staff
      /\ function \in [Functions -> Places]
      /\ \A q \in queries : q \in Query /\ Fits(q)
      /\ runs \in 0 .. MaxRuns /\ ready \in BOOLEAN /\ MaxRuns \in Nat
  BY SeedAssumption DEF SeedGrantsTyped, SeedGrantsTypeOK
<1>1. SUFFICES Kept
  BY DEF SeedGrantsTyped, SeedGrantsTypeOK
<1> HIDE DEF Staff
<1>2. ASSUME NEW f, NEW pc \in Places, To(f, pc)
      PROVE  function' \in [Functions -> Places]
  BY <1>0, <1>2 DEF To
<1>3. ASSUME NEW A, NEW B, NEW C, NEW D, A \subseteq C, B \subseteq D
      PROVE  A \X B \subseteq C \X D
  BY <1>3
<1>4. ASSUME roles \subseteq roles', permissions \subseteq permissions', UNCHANGED grants
      PROVE  grants' \subseteq roles' \X permissions'
  <2>1. roles \X permissions \subseteq roles' \X permissions'
    BY <1>3, <1>4
  <2>2. grants \subseteq roles \X permissions /\ grants' = grants
    BY <1>0, <1>4
  <2> QED BY <2>1, <2>2
<1>5. ASSUME roles \subseteq roles', permissions \subseteq permissions'
      PROVE  \A q \in queries : q \in Query /\ Fits(q)'
  BY <1>0, <1>5, FitsStay
<1>6. CASE UNCHANGED grantVars
  <2>1. UNCHANGED <<roles, permissions, grants, staff, function, queries, runs, ready>>
    BY <1>6 DEF grantVars
  <2> QED BY <1>0, <1>4, <1>5, <2>1
<1>7. CASE InsertRoles
  <2>1. roles \subseteq roles' /\ roles' \subseteq SeedRoles
    BY <1>0, <1>7 DEF InsertRoles
  <2>2. UNCHANGED <<permissions, grants, staff, queries, runs, ready>> /\ To("roles", "done")
    BY <1>7 DEF InsertRoles
  <2> QED BY <1>0, <1>2, <1>4, <1>5, <2>1, <2>2
<1>8. CASE InsertPermissions
  <2>1. permissions \subseteq permissions' /\ permissions' \subseteq Permissions
    BY <1>0, <1>8 DEF InsertPermissions
  <2>2. UNCHANGED <<roles, grants, staff, queries, runs, ready>> /\ To("permissions", "read")
    BY <1>8 DEF InsertPermissions
  <2> QED BY <1>0, <1>2, <1>4, <1>5, <2>1, <2>2
<1>9. CASE GrantToSuperAdmin
  <2>0. /\ UNCHANGED <<roles, permissions, grants, staff, runs, ready>>
        /\ To("permissions", "done")
    BY <1>9 DEF GrantToSuperAdmin
  <2>1. ASSUME NEW p \in Ungranted, NEW q,
               q = [pc |-> "look", role |-> SuperAdminRole, to |-> {SuperAdminRole},
                    perms |-> Ungranted, nth |-> p]
        PROVE  q \in Query /\ Fits(q)'
    <3>1. Ungranted \subseteq permissions /\ Ungranted \subseteq Permissions
      BY <1>0 DEF Ungranted
    <3>2. q \in Query
      BY <2>1, <3>1 DEF Query
    <3>3. "role" \in DOMAIN q /\ "perm" \notin DOMAIN q /\ q.perms = Ungranted /\ q.pc = "look"
      BY <2>1
    <3> QED BY <2>0, <3>1, <3>2, <3>3 DEF Fits
  <2>2. \A q \in queries' : q \in Query /\ Fits(q)'
    BY <1>5, <1>9, <2>0, <2>1 DEF GrantToSuperAdmin
  <2> QED BY <1>0, <1>2, <1>4, <2>0, <2>2
<1>10. CASE GrantToOthers
  <2>0. /\ UNCHANGED <<permissions, grants, staff, runs, ready>>
        /\ roles' = roles \cup {"driver"}
        /\ To("grants", "done") \/ To("grants", "failed")
    BY <1>10 DEF GrantToOthers
  <2>1. ASSUME NEW perms \in SUBSET Permissions, NEW to \in {{"driver"}, OfficerRoles},
               to \subseteq roles', NEW q \in Upserts(perms, to)
        PROVE  q \in Query /\ Fits(q)'
    <3>1. PICK p \in perms : q = [pc |-> "look", perm |-> p, to |-> to]
      BY DEF Upserts
    <3>2. q \in Query
      BY <3>1 DEF Query
    <3>3. "role" \notin DOMAIN q /\ q.to = to /\ q.pc = "look"
      BY <3>1
    <3> QED BY <2>1, <3>2, <3>3 DEF Fits
  <2>2. DriverGrants \in SUBSET Permissions /\ SupervisorGrants \in SUBSET Permissions
    BY SeedAssumption
  <2>3. \A q \in Upserts(DriverGrants, {"driver"}) : q \in Query /\ Fits(q)'
    BY <2>0, <2>1, <2>2
  <2>4. OfficerRoles \subseteq roles =>
            \A q \in Upserts(SupervisorGrants, OfficerRoles) : q \in Query /\ Fits(q)'
    BY <2>0, <2>1, <2>2
  <2>5. \A q \in queries' : q \in Query /\ Fits(q)'
    <3>1. \/ queries' = queries \cup Upserts(DriverGrants, {"driver"})
          \/ /\ OfficerRoles \subseteq roles
             /\ queries' = queries \cup Upserts(DriverGrants, {"driver"})
                               \cup Upserts(SupervisorGrants, OfficerRoles)
      BY <1>10 DEF GrantToOthers
    <3> QED BY <1>5, <2>0, <2>3, <2>4, <3>1
  <2>6. roles' \subseteq SeedRoles /\ roles \subseteq roles'
    BY <1>0, <2>0 DEF SeedRoles
  <2> QED BY <1>0, <1>2, <1>4, <2>0, <2>5, <2>6
<1>11. ASSUME NEW q \in queries, Look(q)
       PROVE  Kept
  <2>0. UNCHANGED <<roles, permissions, grants, staff, function, runs, ready>>
    BY <1>11 DEF Look
  <2>1. q \in Query /\ Fits(q) /\ q.pc = "look"
    BY <1>0, <1>11 DEF Look
  <2>2. PICK pc \in {"update", "create"} :
           /\ pc = "update" => (IF "role" \in DOMAIN q THEN q.role \in roles ELSE q.perm \in permissions)
           /\ queries' = (queries \ {q}) \cup {[q EXCEPT !.pc = pc]}
    BY <1>11 DEF Look
  <2>3. PICK r : r = [q EXCEPT !.pc = pc]
    OBVIOUS
  <2>4. /\ r \in Query /\ r.pc = pc /\ DOMAIN r = DOMAIN q /\ r.to = q.to
        /\ "role" \in DOMAIN q => r.perms = q.perms
        /\ "perm" \in DOMAIN q => r.perm = q.perm
    BY <2>1, <2>3, UpsertKinds
  <2>5. "role" \in DOMAIN q => "perm" \notin DOMAIN q /\ q.role = SuperAdminRole
    BY <2>1, UpsertKinds
  <2>6. "role" \in DOMAIN r => r.perms \subseteq permissions
                              /\ (r.pc = "update" => SuperAdminRole \in roles)
    BY <2>1, <2>2, <2>4, <2>5 DEF Fits
  <2>7. "perm" \in DOMAIN r => r.to \subseteq roles /\ (r.pc = "update" => r.perm \in permissions)
    BY <2>1, <2>2, <2>4, <2>5 DEF Fits
  <2>8. Fits(r)'
    BY <2>0, <2>6, <2>7 DEF Fits
  <2>9. \A o \in queries' : o \in Query /\ Fits(o)'
    <3>1. \A o \in queries : o \in Query /\ Fits(o)'
      BY <1>5, <2>0
    <3>2. \A o \in queries' : o \in queries \/ o = r
      BY <2>2, <2>3
    <3> QED BY <2>4, <2>8, <3>1, <3>2
  <2> QED BY <1>0, <1>4, <2>0, <2>9
<1>12. ASSUME NEW to, NEW perms, Add(to \X perms), to \subseteq roles', perms \subseteq permissions',
              roles \subseteq roles', permissions \subseteq permissions'
       PROVE  grants' \subseteq roles' \X permissions'
  <2>1. to \X perms \subseteq roles' \X permissions'
    BY <1>3, <1>12
  <2>2. roles \X permissions \subseteq roles' \X permissions'
    BY <1>3, <1>12
  <2>3. grants \subseteq roles \X permissions
    BY <1>0
  <2>4. grants' \subseteq grants \cup (to \X perms)
    BY <1>12 DEF Add
  <2> QED BY <2>1, <2>2, <2>3, <2>4
<1>13. ASSUME NEW q \in queries, WriteRole(q)
       PROVE  Kept
  <2>0. /\ UNCHANGED <<permissions, staff, function, runs, ready>>
        /\ "role" \in DOMAIN q /\ queries' \subseteq queries
    BY <1>13 DEF WriteRole
  <2>1. /\ q \in Query /\ Fits(q)
        /\ q.role = SuperAdminRole /\ q.to = {SuperAdminRole}
    BY <1>0, <2>0, UpsertKinds
  <2>2. CASE q.pc = "update"
    <3>1. Add(q.to \X q.perms) /\ UNCHANGED roles
      BY <1>13, <2>2 DEF WriteRole
    <3>2. q.to \subseteq roles /\ q.perms \subseteq permissions
      BY <2>0, <2>1, <2>2 DEF Fits
    <3>3. grants' \subseteq roles' \X permissions'
      BY <1>12, <2>0, <3>1, <3>2
    <3> QED BY <1>0, <1>5, <2>0, <3>1, <3>3
  <2>3. CASE q.pc # "update"
    <3>1. roles' = roles \cup {SuperAdminRole} /\ UNCHANGED grants
      BY <1>13, <2>1, <2>3 DEF WriteRole
    <3>2. roles' \subseteq SeedRoles
      BY <1>0, <3>1 DEF SeedRoles
    <3> QED BY <1>0, <1>4, <1>5, <2>0, <3>1, <3>2
  <2> QED BY <2>2, <2>3
<1>14. ASSUME NEW q \in queries, WritePermission(q)
       PROVE  Kept
  <2>0. /\ UNCHANGED <<roles, staff, function, runs, ready>>
        /\ "perm" \in DOMAIN q /\ queries' \subseteq queries
    BY <1>14 DEF WritePermission
  <2>1. q \in Query /\ Fits(q) /\ q.perm \in Permissions
    BY <1>0, <2>0, UpsertKinds
  <2>2. /\ permissions' \in {permissions, permissions \cup {q.perm}}
        /\ \/ UNCHANGED grants
           \/ Add(q.to \X {q.perm}) /\ (q.pc = "update" \/ q.perm \in permissions')
    BY <1>14 DEF WritePermission
  <2>3. q.to \subseteq roles /\ (q.pc = "update" => q.perm \in permissions)
    BY <2>0, <2>1 DEF Fits
  <2>4. permissions \subseteq permissions' /\ permissions' \subseteq Permissions
    BY <1>0, <2>1, <2>2
  <2>5. grants' \subseteq roles' \X permissions'
    <3>1. CASE UNCHANGED grants
      BY <1>4, <2>0, <2>4, <3>1
    <3>2. CASE ~ UNCHANGED grants
      <4>1. {q.perm} \subseteq permissions'
        BY <2>2, <2>3, <2>4, <3>2
      <4>2. Add(q.to \X {q.perm}) /\ q.to \subseteq roles' /\ roles \subseteq roles'
        BY <2>0, <2>2, <2>3, <3>2
      <4> QED BY <1>12, <2>4, <4>1, <4>2
    <3> QED BY <3>1, <3>2
  <2> QED BY <1>0, <1>5, <2>0, <2>4, <2>5
<1>15. CASE ReadStaffRoles
  <2>1. UNCHANGED <<roles, permissions, grants, staff, queries, runs, ready>>
    BY <1>15 DEF ReadStaffRoles
  <2>2. \E pc \in Places : To("staff", pc)
    BY <1>15 DEF ReadStaffRoles
  <2> QED BY <1>0, <1>2, <1>4, <1>5, <2>1, <2>2
<1>16. ASSUME NEW a \in Admins, UpsertAdmin(a)
       PROVE  Kept
  <2>1. UNCHANGED <<roles, permissions, grants, function, queries, runs, ready>>
    BY <1>16 DEF UpsertAdmin
  <2>2. staff' \subseteq Staff
    <3>1. staff \subseteq Staff /\ staff' = staff \cup {<<a, SuperAdminRole>>}
      BY <1>0, <1>16 DEF UpsertAdmin
    <3>2. <<a, SuperAdminRole>> \in Admins \X {SuperAdminRole}
      OBVIOUS
    <3> QED BY <3>1, <3>2 DEF Staff
  <2> QED BY <1>0, <1>4, <1>5, <2>1, <2>2
<1>17. CASE UpsertOfficers
  <2>1. UNCHANGED <<roles, permissions, grants, queries, runs, ready>>
    BY <1>17 DEF UpsertOfficers
  <2>2. staff' \subseteq Staff
    BY <1>0, <1>17 DEF UpsertOfficers, Staff
  <2>3. To("staff", "done") \/ To("staff", "failed")
    BY <1>17 DEF UpsertOfficers
  <2> QED BY <1>0, <1>2, <1>4, <1>5, <2>1, <2>2, <2>3
<1>18. CASE Exit
  <2>1. /\ UNCHANGED <<roles, permissions, grants, staff, runs>>
        /\ queries' = {} /\ ready' = FALSE /\ function' \in [Functions -> Places]
    BY <1>18 DEF Exit
  <2> QED BY <1>0, <1>4, <2>1
<1>19. CASE Run
  <2>1. /\ UNCHANGED <<roles, permissions, grants, staff, queries>>
        /\ ready' \in BOOLEAN /\ function' \in [Functions -> Places]
    BY <1>19 DEF Run
  <2>2. runs' \in 0 .. MaxRuns
    <3>1. runs \in 0 .. MaxRuns /\ MaxRuns \in Nat
      BY <1>0
    <3>2. runs < MaxRuns /\ runs' = runs + 1
      BY <1>19 DEF Run
    <3> QED BY <3>1, <3>2
  <2> QED BY <1>0, <1>4, <1>5, <2>1, <2>2
<1> HIDE DEF Kept
<1> QED
  BY <1>6, <1>7, <1>8, <1>9, <1>10, <1>11, <1>13, <1>14, <1>15, <1>16, <1>17, <1>18, <1>19
     DEF SeedGrantsNext

-----------------------------------------------------------------------------
(* All four: whichever of them acts, it starts typed and its steps keep it *)
(* so.                                                                     *)

PartTyped ==
    /\ part = "passwords" => OtpTyped
    /\ part = "registration" => RegisterTyped
    /\ part = "access" => AccessInv
    /\ part = "seeds" => SeedGrantsTyped

LEMMA AccountsBegin == AccountsInit => PartTyped
<1> SUFFICES ASSUME AccountsInit PROVE PartTyped
  OBVIOUS
<1>0. /\ task = [s \in Slots |-> Idle] /\ RequestsInit
      /\ OtpInit /\ RegisterInit /\ AccessInit /\ SeedGrantsInit
  BY DEF AccountsInit, RequestsInit
<1>1. OtpTyped
  <2>1. [provider |-> "phone", verified |-> {}] \in Contact
    BY DEF Contact, Provider
  <2>2. contacts \in [Holders -> Contact]
    BY <1>0, <2>1 DEF OtpInit
  <2> QED BY <1>0, <2>2 DEF OtpInit, OtpTyped, OtpTypeOK
<1>2. RegisterTyped
  <2>1. \A s \in Slots : task[s].pc = "idle"
    BY <1>0 DEF Idle
  <2>2. \A s \in Slots : ~ At(s, "role")
    BY <2>1 DEF At
  <2> QED BY <1>0, <2>2 DEF RegisterInit, RegisterTyped, RegisterTypeOK
<1>3. AccessInv
  BY <1>0, AccessBegins
<1>4. SeedGrantsTyped
  <2>1. /\ roles = {} /\ permissions = {} /\ grants = {} /\ staff = {} /\ queries = {}
        /\ function = [f \in Functions |-> "done"] /\ ready = FALSE /\ runs \in 0 .. MaxRuns
    BY <1>0, SeedAssumption DEF SeedGrantsInit
  <2> QED BY <2>1 DEF SeedGrantsTyped, SeedGrantsTypeOK
<1> QED BY <1>1, <1>2, <1>3, <1>4 DEF PartTyped

\* The part that acts takes a step of its own; no other part is asked of.
LEMMA AccountsKept == PartTyped /\ [AccountsNext]_accountVars => PartTyped'
<1> SUFFICES ASSUME PartTyped, [AccountsNext]_accountVars PROVE PartTyped'
  OBVIOUS
<1>1. part' = part
  BY DEF AccountsNext, accountVars
<1>2. /\ part = "passwords" => [OtpNext]_<<task, otpVars>>
      /\ part = "registration" => [RegisterNext]_<<task, registerVars>>
      /\ part = "access" => [AccessNext]_<<task, accessVars>>
      /\ part = "seeds" => [SeedGrantsNext]_grantVars
  BY DEF AccountsNext, accountVars
<1>3. /\ part = "passwords" => OtpTyped'
      /\ part = "registration" => RegisterTyped'
      /\ part = "access" => AccessInv'
      /\ part = "seeds" => SeedGrantsTyped'
  BY <1>2, OtpKept, RegisterKept, AccessKept, SeedGrantsKept DEF PartTyped
<1> QED BY <1>1, <1>3 DEF PartTyped

\* Every row, grant, upsert and handler of the four components keeps its type: a grant
\* is of a permission that exists to a role that exists, an account that gains a role
\* is there.
THEOREM AccountsTyped == AccountsSpec => []AccountsTypeOK
<1>1. PartTyped => AccountsTypeOK
  BY AccessTypes DEF PartTyped, AccountsTypeOK, OtpTyped, RegisterTyped, SeedGrantsTyped
<1> QED
  BY <1>1, AccountsBegin, AccountsKept, PTL DEF AccountsSpec
=============================================================================
