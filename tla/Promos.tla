-------------------------------- MODULE Promos --------------------------------
(***************************************************************************)
(* PromoService and DiscountService: a promo code with the users it is for,*)
(* and a discount with the users it is given to.                           *)
(***************************************************************************)
EXTENDS Requests

CONSTANT Customers    \* the users

VARIABLES
    promo,      \* a row of promos with its promo_users, or None
    wanted,     \* history: the list of the last update, None once handlers overlap or fail
    discount    \* a row of discounts with its discount_users, or None

promoVars == <<promo, wanted, discount>>

Promo == [users: SUBSET Customers, expired: BOOLEAN]

ASSUME NoneIsNoPromo == None \notin Promo

DiscountType == {"active", "inactive"}
Discount == [type: DiscountType, users: SUBSET Customers]

PromoTask ==
    [pc: {"insertPromo"}, ids: SUBSET Customers]
    \cup [pc: {"saved", "writePromo"}, ids: SUBSET Customers, expiry: BOOLEAN]
    \cup [pc: {"addUsers", "removeUsers"}, ids: SUBSET Customers, expiry: BOOLEAN,
          new: SUBSET Customers, removed: SUBSET Customers]
    \cup [pc: {"listActive", "listInactive"}]

PromosTypeOK ==
    /\ promo \in Promo \cup {None}
    /\ wanted \in (SUBSET Customers) \cup {None}
    /\ discount \in Discount \cup {None}
    /\ \A s \in Slots : task[s] \in PromoTask \cup {Idle}

PromosInit == promo = None /\ wanted = None /\ discount = None

-----------------------------------------------------------------------------
\* Without a list all users get it.
CreatePromo(s, ids) ==
    /\ promo = None                      \* else the code is taken
    /\ Begin(s, [pc |-> "insertPromo", ids |-> IF ids = {} THEN Customers ELSE ids])
    /\ UNCHANGED promoVars

InsertPromo(s) ==
    /\ At(s, "insertPromo")
    /\ promo' = IF promo = None THEN [users |-> task[s].ids, expired |-> FALSE] ELSE promo
    /\ Finish(s)
    /\ UNCHANGED <<wanted, discount>>

\* Without a list none keeps it.
UpdatePromo(s, ids, expiry) ==
    /\ promo # None
    /\ Begin(s, [pc |-> "saved", ids |-> ids, expiry |-> expiry])
    /\ wanted' = IF Alone(s) THEN ids ELSE None
    /\ UNCHANGED <<promo, discount>>

\* The handler at its next write, for it makes none of nothing.
AtRemoval(h) ==
    IF h.removed # {} THEN [h EXCEPT !.pc = "removeUsers"]
    ELSE [pc |-> "writePromo", ids |-> h.ids, expiry |-> h.expiry]
AtFirstWrite(h) == IF h.new # {} THEN [h EXCEPT !.pc = "addUsers"] ELSE AtRemoval(h)

\* For contrast, the difference the other way round.
RemovedSwapped(saved, ids) == ids \ saved

Removed(saved, ids) == saved \ ids

ReadSaved(s) ==
    /\ At(s, "saved")
    /\ LET ids == task[s].ids
           saved == IF promo = None THEN {} ELSE promo.users
       IN  Await(s, AtFirstWrite([pc |-> "saved", ids |-> ids, expiry |-> task[s].expiry,
                                  new |-> ids \ saved, removed |-> Removed(saved, ids)]))
    /\ UNCHANGED promoVars

\* createMany: a user who is listed by now, or a promo that is gone, and it throws.
AddUsers(s) ==
    /\ At(s, "addUsers")
    /\ IF promo # None /\ promo.users \cap task[s].new = {}
       THEN /\ promo' = [promo EXCEPT !.users = @ \cup task[s].new]
            /\ Await(s, AtRemoval(task[s]))
            /\ UNCHANGED wanted
       ELSE /\ Finish(s)
            /\ wanted' = None
            /\ UNCHANGED promo
    /\ UNCHANGED discount

RemoveUsers(s) ==
    /\ At(s, "removeUsers")
    /\ promo' = IF promo = None THEN None ELSE [promo EXCEPT !.users = @ \ task[s].removed]
    /\ Await(s, [pc |-> "writePromo", ids |-> task[s].ids, expiry |-> task[s].expiry])
    /\ UNCHANGED <<wanted, discount>>

\* An update that names no expiry sets it to now.
WritePromo(s) ==
    /\ At(s, "writePromo")
    /\ promo' = IF promo = None THEN None ELSE [promo EXCEPT !.expired = ~ task[s].expiry]
    /\ Finish(s)
    /\ UNCHANGED <<wanted, discount>>

RemovePromo ==
    /\ promo # None
    /\ promo' = None /\ wanted' = None
    /\ UNCHANGED <<task, discount>>

-----------------------------------------------------------------------------
(* A discount: the row, then a row for each user found.  The case of the   *)
(* active users has no break and goes on to the inactive ones.             *)

CreateDiscount(s, type) ==
    /\ discount = None
    /\ discount' = [type |-> type, users |-> {}]
    /\ Begin(s, [pc |-> IF type = "active" THEN "listActive" ELSE "listInactive"])
    /\ UNCHANGED <<promo, wanted>>

\* The inserts run by themselves; some may fail, also for the discount being gone.
Give(users) ==
    IF discount = None THEN UNCHANGED discount
    ELSE \E given \in SUBSET users : discount' = [discount EXCEPT !.users = @ \cup given]

GiveToActive(s, users) ==
    /\ At(s, "listActive")
    /\ Give(users)
    /\ Await(s, [pc |-> "listInactive"])
    /\ UNCHANGED <<promo, wanted>>

GiveToInactive(s, users) ==
    /\ At(s, "listInactive")
    /\ Give(users)
    /\ Finish(s)
    /\ UNCHANGED <<promo, wanted>>

\* update changes the type and leaves the users.
UpdateDiscount(type) ==
    /\ discount # None /\ discount.type # type
    /\ discount' = [discount EXCEPT !.type = type]
    /\ UNCHANGED <<task, promo, wanted>>

\* The key of discount_users keeps a discount that has been given.
DeleteDiscount ==
    /\ discount # None /\ discount.users = {}
    /\ discount' = None
    /\ UNCHANGED <<task, promo, wanted>>

\* An await throws: what is written stays.
PromoFails(s) ==
    /\ task[s] \in PromoTask
    /\ Finish(s)
    /\ wanted' = None
    /\ UNCHANGED <<promo, discount>>

-----------------------------------------------------------------------------
PromosStep(s) ==
    \/ InsertPromo(s) \/ ReadSaved(s) \/ AddUsers(s) \/ RemoveUsers(s) \/ WritePromo(s)
    \/ \E users \in SUBSET Customers : GiveToActive(s, users) \/ GiveToInactive(s, users)

PromosNext ==
    \/ RemovePromo \/ DeleteDiscount
    \/ \E type \in DiscountType : UpdateDiscount(type)
    \/ \E s \in Slots :
        \/ \E ids \in SUBSET Customers :
            CreatePromo(s, ids) \/ \E expiry \in BOOLEAN : UpdatePromo(s, ids, expiry)
        \/ \E type \in DiscountType : CreateDiscount(s, type)
        \/ PromosStep(s)
        \/ PromoFails(s)

PromosSpec == RequestsInit /\ PromosInit /\ [][PromosNext]_<<task, promoVars>>

-----------------------------------------------------------------------------
\* An update writes the difference between its list and the saved one in up to two
\* statements, each left out when it has nothing to write.  When no handler has
\* overlapped it and none has failed, the promo is for the users it names.
PromoIsAsWanted ==
    promo # None /\ wanted # None /\ (\A s \in Slots : task[s] = Idle) => promo.users = wanted
=============================================================================
