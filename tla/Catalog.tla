-------------------------------- MODULE Catalog --------------------------------
(***************************************************************************)
(* The tables administrators edit: vehicle types and brands, faqs, cancel  *)
(* reasons, terms of service, support categories and questions, incentives *)
(* and mail templates.  Their services are alike: look for a row with the  *)
(* name, refuse or, an await later, write.  They differ in what they look  *)
(* for and in whether a unique key stands behind the look.                 *)
(***************************************************************************)
EXTENDS Requests, Naturals, Sequences, FiniteSets

CONSTANTS
    Names,      \* names, titles, questions or reasons
    Groups,     \* categories of terms, groups of cancel reasons
    MaxRows     \* bound on the rows ever created

VARIABLES
    table,      \* the table in question
    rows        \* its rows, a sequence of ids: None once removed

catalogVars == <<table, rows>>

\* grouped: the operations that also compare the group.  own: an update compares with
\* the row itself too.  blank: an update without a name is refused if there is any
\* other row, for a condition on undefined is no condition.  unique: a unique key.
Table(grouped, own, blank, unique) ==
    [grouped |-> grouped, own |-> own, blank |-> blank, unique |-> unique]

VehicleTypes      == Table({}, FALSE, FALSE, FALSE)
VehicleBrands     == Table({}, TRUE, FALSE, TRUE)
Faqs              == Table({}, TRUE, FALSE, TRUE)
CancelReasons     == Table({"create", "update"}, FALSE, FALSE, FALSE)
TermsOfServices   == Table({"update"}, FALSE, TRUE, FALSE)
SupportCategories == Table({}, FALSE, FALSE, FALSE)
SupportQuestions  == Table({"create", "update"}, FALSE, TRUE, FALSE)
Incentives        == Table({}, FALSE, FALSE, FALSE)
MailTemplates     == Table({}, FALSE, FALSE, FALSE)

Tables ==
    [vehicleTypes |-> VehicleTypes, vehicleBrands |-> VehicleBrands, faqs |-> Faqs,
     cancelReasons |-> CancelReasons, terms |-> TermsOfServices,
     supportCategories |-> SupportCategories, supportQuestions |-> SupportQuestions,
     incentives |-> Incentives, mailTemplates |-> MailTemplates]

Ids == 1 .. MaxRows

\* group where there are groups; active for mail templates, which alone are made
\* inactive; previous is the tier before an incentive.
Row == [name: Names, group: Groups \cup {None}, active: BOOLEAN, previous: Ids \cup {None}]

\* None is no row.
ASSUME CatalogAssumption == MaxRows \in Nat /\ None \notin Row

CatalogTask ==
    [pc: {"insert"}, row: Row]
    \cup [pc: {"write"}, id: Ids, row: Row \cup {None}]
    \cup [pc: {"activate"}, id: Ids, active: BOOLEAN]
    \cup [pc: {"delete"}, id: Ids]

CatalogTypeOK ==
    /\ table \in DOMAIN Tables
    /\ DOMAIN rows \in {1 .. n : n \in 0 .. MaxRows}
    /\ \A i \in DOMAIN rows : rows[i] \in Row \cup {None}
    /\ \A s \in Slots : task[s] \in CatalogTask \cup {Idle}

CatalogInit == table \in DOMAIN Tables /\ rows = <<>>

Present == {i \in DOMAIN rows : rows[i] # None}

-----------------------------------------------------------------------------
Same(op, row, other) ==
    /\ row.name = other.name
    /\ op \in Tables[table].grouped => row.group = other.group

\* For contrast, a look that finds nothing.
NoClash(op, row, self) == {}

\* findFirst, or RecordExists of the body: the rows other than self with the name.
Clash(op, row, self) == {i \in Present \ self : Same(op, row, rows[i])}

\* The database refuses a second row where there is a unique key; the tier before an
\* incentive has one, and must be there.
Refused(row, self) ==
    \/ Tables[table].unique /\ \E i \in Present \ self : rows[i].name = row.name
    \/ row.previous # None /\
           (row.previous \notin Present
              \/ \E i \in Present \ self : rows[i].previous = row.previous)

\* What a request may ask for in this table.
Asked(row) ==
    /\ row.group = None <=> Tables[table].grouped = {}
    /\ table # "mailTemplates" => row.active
    /\ table # "incentives" => row.previous = None

\* An incentive also looks for the tier before it, and whether that tier has a next.
Create(s, row) ==
    /\ Asked(row)
    /\ Clash("create", row, {}) = {}
    /\ row.previous # None =>
           row.previous \in Present /\ \A i \in Present : rows[i].previous # row.previous
    /\ Begin(s, [pc |-> "insert", row |-> row])
    /\ UNCHANGED catalogVars

Insert(s) ==
    /\ At(s, "insert")
    /\ Len(rows) < MaxRows
    /\ rows' = IF Refused(task[s].row, {}) THEN rows ELSE Append(rows, task[s].row)
    /\ Finish(s)
    /\ UNCHANGED table

\* A mail template keeps its name.
Update(s, i, row) ==
    /\ i \in Present /\ table # "mailTemplates"
    /\ Asked(row)
    /\ Clash("update", row, IF Tables[table].own THEN {} ELSE {i}) = {}
    /\ row.previous # None =>
           /\ row.previous \in Present
           /\ \A j \in Present \ {i} : rows[j].previous # row.previous
    /\ Begin(s, [pc |-> "write", id |-> i, row |-> row])
    /\ UNCHANGED catalogVars

\* An update that names nothing.
UpdateRest(s, i) ==
    /\ i \in Present /\ table # "mailTemplates"
    /\ Tables[table].blank => Present = {i}
    /\ Begin(s, [pc |-> "write", id |-> i, row |-> None])
    /\ UNCHANGED catalogVars

\* A row removed meanwhile, or a violated key, makes it throw.  A tier that the
\* request does not name is kept.
Write(s) ==
    /\ At(s, "write")
    /\ LET i == task[s].id
           row == task[s].row
       IN  rows' = IF row = None \/ i \notin Present \/ Refused(row, {i}) THEN rows
                   ELSE [rows EXCEPT ![i] =
                           IF row.previous # None THEN row
                           ELSE [row EXCEPT !.previous = rows[i].previous]]
    /\ Finish(s)
    /\ UNCHANGED table

-----------------------------------------------------------------------------
(* Mail templates.  The last active template of a type is to stay; all     *)
(* templates of the model have one type, which is not notification.        *)

OtherActive(i) == {j \in Present \ {i} : rows[j].active}

SetActive(s, i, active) ==
    /\ table = "mailTemplates" /\ i \in Present
    /\ active \/ OtherActive(i) # {}
    /\ Begin(s, [pc |-> "activate", id |-> i, active |-> active])
    /\ UNCHANGED catalogVars

WriteActive(s) ==
    /\ At(s, "activate")
    /\ rows' = IF task[s].id \in Present
               THEN [rows EXCEPT ![task[s].id].active = task[s].active] ELSE rows
    /\ Finish(s)
    /\ UNCHANGED table

-----------------------------------------------------------------------------
\* findOne; a template needs another active one, and its file goes first.
Remove(s, i) ==
    /\ i \in Present
    /\ table = "mailTemplates" => OtherActive(i) # {}
    /\ Begin(s, [pc |-> "delete", id |-> i])
    /\ UNCHANGED catalogVars

\* The rows of from and the tiers that come after them: the foreign key cascades.
Cascade(from) ==
    LET Cascades(gone) == \A i \in Present : rows[i].previous \in gone => i \in gone
    IN  {i \in DOMAIN rows : \A gone \in SUBSET DOMAIN rows :
            from \subseteq gone /\ Cascades(gone) => i \in gone}

Delete(s) ==
    /\ At(s, "delete")
    /\ LET gone == IF task[s].id \in Present THEN Cascade({task[s].id}) ELSE {} IN
       rows' = [i \in DOMAIN rows |-> IF i \in gone THEN None ELSE rows[i]]
    /\ Finish(s)
    /\ UNCHANGED table

-----------------------------------------------------------------------------
CatalogNext ==
    \E s \in Slots :
        \/ \E row \in Row : Create(s, row)
        \/ \E i \in Ids :
            \/ \E row \in Row : Update(s, i, row)
            \/ UpdateRest(s, i) \/ Remove(s, i)
            \/ \E active \in BOOLEAN : SetActive(s, i, active)
        \/ Insert(s) \/ Write(s) \/ WriteActive(s) \/ Delete(s)

CatalogSpec == RequestsInit /\ CatalogInit /\ [][CatalogNext]_<<task, catalogVars>>

-----------------------------------------------------------------------------
\* A name is given as often as requests can overlap and no more: every request whose
\* look follows a write of the name is refused.  One row where a key is unique.
SameNamePerRace ==
    \A i \in Present :
        Cardinality({j \in Present : Same("update", rows[i], rows[j])}) <=
            IF Tables[table].unique THEN 1 ELSE Cardinality(Slots)
=============================================================================
