-------------------------------- MODULE Papers --------------------------------
(***************************************************************************)
(* A driver's license and vehicles: LicenseService, VehicleService, the    *)
(* years of VehicleTypeService and the type of vehicle a driver drives as, *)
(* of UsersService.  Between the look at a row and the write to it lies    *)
(* the upload of images.                                                   *)
(***************************************************************************)
EXTENDS Requests, Naturals, Sequences, FiniteSets

CONSTANTS
    Owners,        \* the drivers
    MaxLicenses,   \* bound on the licenses ever created
    MaxVehicles,   \* bound on the vehicles ever registered
    VehicleKinds,  \* rows of vehicle_type
    MaxYear        \* bound on years, all of them past

ASSUME PapersAssumption == MaxLicenses \in Nat /\ MaxVehicles \in Nat /\ MaxYear \in Nat

VARIABLES
    licenses,      \* table liscenses, a sequence of ids: None once removed
    rewritten,     \* history: how often each was written since it was verified
    vehicles,      \* table vehicles, likewise
    years,         \* vehicle_type: minimum and maximum year, None once removed
    drivesAs       \* users.vehicle_type_id

papersVars == <<licenses, rewritten, vehicles, years, drivesAs>>

Verification == {"failed", "pending", "verified"}
License == [owner: Owners, verification: Verification]
Year == 0 .. MaxYear
Span == {y \in [minimum: Year, maximum: Year] : y.minimum <= y.maximum}
LicenseIds == 1 .. MaxLicenses
VehicleIds == 1 .. MaxVehicles
Vehicle == [owner: Owners, manufactured: Year, type: VehicleKinds]

PapersTask ==
    [pc: {"insertLicense"}, owner: Owners]
    \cup [pc: {"rewrite"}, id: LicenseIds, verdict: Verification \cup {None}]
    \cup [pc: {"type"}, id: VehicleIds \cup {None}, owner: Owners, manufactured: Year]
    \cup [pc: {"vehicle"}, id: VehicleIds \cup {None}, owner: Owners, manufactured: Year,
          type: VehicleKinds]
    \cup [pc: {"owned"}, owner: Owners, type: VehicleKinds, minimum: Year]
    \cup [pc: {"switch"}, owner: Owners, type: VehicleKinds]

PapersTypeOK ==
    /\ DOMAIN licenses \in {1 .. n : n \in 0 .. MaxLicenses}
    /\ \A l \in DOMAIN licenses : licenses[l] \in License \cup {None}
    /\ rewritten \in [LicenseIds -> Nat]
    /\ DOMAIN vehicles \in {1 .. n : n \in 0 .. MaxVehicles}
    /\ \A v \in DOMAIN vehicles : vehicles[v] \in Vehicle \cup {None}
    /\ years \in [VehicleKinds -> Span \cup {None}]
    /\ drivesAs \in [Owners -> VehicleKinds \cup {None}]
    /\ \A s \in Slots : task[s] \in PapersTask \cup {Idle}

PapersInit ==
    /\ licenses = <<>>
    /\ rewritten = [l \in LicenseIds |-> 0]
    /\ vehicles = <<>>
    /\ years = [k \in VehicleKinds |-> [minimum |-> 0, maximum |-> MaxYear]]
    /\ drivesAs = [d \in Owners |-> None]

Licenses == {l \in DOMAIN licenses : licenses[l] # None}
LicenseOf(d) == {l \in Licenses : licenses[l].owner = d}
Vehicles == {v \in DOMAIN vehicles : vehicles[v] # None}
VehiclesOf(d) == {v \in Vehicles : vehicles[v].owner = d}

-----------------------------------------------------------------------------
(* Licenses, one per driver.                                               *)

CreateLicense(s, d) ==
    /\ LicenseOf(d) = {}                     \* else it throws
    /\ Begin(s, [pc |-> "insertLicense", owner |-> d])
    /\ UNCHANGED papersVars

\* The unique user_id refuses a second insert.
InsertLicense(s) ==
    /\ At(s, "insertLicense")
    /\ Len(licenses) < MaxLicenses
    /\ licenses' = IF LicenseOf(task[s].owner) # {} THEN licenses
                   ELSE Append(licenses, [owner |-> task[s].owner, verification |-> "pending"])
    /\ Finish(s)
    /\ UNCHANGED <<rewritten, vehicles, years, drivesAs>>

\* For contrast, an update that takes verified licenses too.
AlwaysOpen(license) == TRUE

Open(license) == license.verification # "verified"

\* An update may leave out the verdict.
FindLicense(s, l, verdict) ==
    /\ l \in Licenses
    /\ Open(licenses[l])                     \* else: updated already
    /\ Begin(s, [pc |-> "rewrite", id |-> l, verdict |-> verdict])
    /\ UNCHANGED papersVars

\* The look is old by now; the update is by id and throws when the row is gone.
RewriteLicense(s) ==
    /\ At(s, "rewrite")
    /\ LET l == task[s].id
           old == licenses[l]
           new == IF task[s].verdict = None THEN old
                  ELSE [old EXCEPT !.verification = task[s].verdict]
       IN  IF old = None THEN UNCHANGED <<licenses, rewritten>>
           ELSE /\ licenses' = [licenses EXCEPT ![l] = new]
                /\ rewritten' = [rewritten EXCEPT ![l] =
                                    IF {old.verification, new.verification} = {"verified"}
                                    THEN @ + 1 ELSE 0]
    /\ Finish(s)
    /\ UNCHANGED <<vehicles, years, drivesAs>>

RemoveLicense(l) ==
    /\ l \in Licenses
    /\ licenses' = [licenses EXCEPT ![l] = None]
    /\ UNCHANGED <<task, rewritten, vehicles, years, drivesAs>>

-----------------------------------------------------------------------------
(* Vehicles.  Their verification is never written, so that an update finds *)
(* it pending; one that gives no date changes nothing told here.           *)

RegisterVehicle(s, d, year) ==
    /\ Begin(s, [pc |-> "type", id |-> None, owner |-> d, manufactured |-> year])
    /\ UNCHANGED papersVars

UpdateVehicle(s, v, year) ==
    /\ v \in Vehicles
    /\ Begin(s, [pc |-> "type", id |-> v, owner |-> vehicles[v].owner, manufactured |-> year])
    /\ UNCHANGED papersVars

Fits(year, k) == years[k] # None /\ year \in years[k].minimum .. years[k].maximum

\* getVehicleType: the first that fits, of a list in no order; without one it throws.
GetVehicleType(s) ==
    /\ At(s, "type")
    /\ LET h == task[s] IN
       \/ (\A k \in VehicleKinds : ~ Fits(h.manufactured, k)) /\ Finish(s)
       \/ \E k \in VehicleKinds :
            /\ Fits(h.manufactured, k)
            /\ Await(s, [pc |-> "vehicle", id |-> h.id, owner |-> h.owner,
                         manufactured |-> h.manufactured, type |-> k])
    /\ UNCHANGED papersVars

\* It throws when the type or, for an update, the row is gone.
WriteVehicle(s) ==
    /\ At(s, "vehicle")
    /\ LET h == task[s]
           row == [owner |-> h.owner, manufactured |-> h.manufactured, type |-> h.type]
       IN  \/ /\ h.id = None /\ years[h.type] # None
              /\ Len(vehicles) < MaxVehicles
              /\ vehicles' = Append(vehicles, row)
           \/ /\ h.id \in Vehicles /\ years[h.type] # None
              /\ vehicles' = [vehicles EXCEPT ![h.id] = row]
           \/ /\ years[h.type] = None \/ h.id \notin Vehicles \cup {None}
              /\ UNCHANGED vehicles
    /\ Finish(s)
    /\ UNCHANGED <<licenses, rewritten, years, drivesAs>>

RemoveVehicle(v) ==
    /\ v \in Vehicles
    /\ vehicles' = [vehicles EXCEPT ![v] = None]
    /\ UNCHANGED <<task, licenses, rewritten, years, drivesAs>>

-----------------------------------------------------------------------------
(* The types; Catalog has their names.                                     *)

ChangeYears(k, span) ==
    /\ years[k] # None
    /\ years' = [years EXCEPT ![k] = span]
    /\ UNCHANGED <<task, licenses, rewritten, vehicles, drivesAs>>

\* Vehicles keep their type from being removed; drivers lose it.
RemoveType(k) ==
    /\ years[k] # None
    /\ \A v \in Vehicles : vehicles[v].type # k
    /\ years' = [years EXCEPT ![k] = None]
    /\ drivesAs' = [d \in Owners |-> IF drivesAs[d] = k THEN None ELSE drivesAs[d]]
    /\ UNCHANGED <<task, licenses, rewritten, vehicles>>

\* users.update with a vehicle_type_id: canSwitchToVehicleType reads the type, then
\* the vehicles.
SwitchType(s, d, k) ==
    /\ years[k] # None                       \* else the rest of the update alone
    /\ Begin(s, [pc |-> "owned", owner |-> d, type |-> k, minimum |-> years[k].minimum])
    /\ UNCHANGED papersVars

\* The first vehicle must be new enough; it may be too new.
CanSwitch(s) ==
    /\ At(s, "owned")
    /\ LET h == task[s] IN
       \/ VehiclesOf(h.owner) = {} /\ Finish(s)
       \/ \E v \in VehiclesOf(h.owner) :
            IF vehicles[v].manufactured >= h.minimum
            THEN Await(s, [pc |-> "switch", owner |-> h.owner, type |-> h.type])
            ELSE Finish(s)
    /\ UNCHANGED papersVars

WriteType(s) ==
    /\ At(s, "switch")
    /\ drivesAs' = IF years[task[s].type] = None THEN drivesAs
                   ELSE [drivesAs EXCEPT ![task[s].owner] = task[s].type]
    /\ Finish(s)
    /\ UNCHANGED <<licenses, rewritten, vehicles, years>>

PapersFail(s) == task[s] \in PapersTask /\ Finish(s) /\ UNCHANGED papersVars

-----------------------------------------------------------------------------
PapersEvent(s) ==
    \/ \E d \in Owners :
        \/ CreateLicense(s, d)
        \/ \E year \in Year : RegisterVehicle(s, d, year)
        \/ \E k \in VehicleKinds : SwitchType(s, d, k)
    \/ \E l \in LicenseIds, verdict \in Verification \cup {None} : FindLicense(s, l, verdict)
    \/ \E v \in VehicleIds, year \in Year : UpdateVehicle(s, v, year)

PapersStep(s) ==
    \/ InsertLicense(s) \/ RewriteLicense(s)
    \/ GetVehicleType(s) \/ WriteVehicle(s)
    \/ CanSwitch(s) \/ WriteType(s)

PapersNext ==
    \/ \E l \in LicenseIds : RemoveLicense(l)
    \/ \E v \in VehicleIds : RemoveVehicle(v)
    \/ \E k \in VehicleKinds : RemoveType(k) \/ \E span \in Span : ChangeYears(k, span)
    \/ \E s \in Slots : PapersEvent(s) \/ PapersStep(s) \/ PapersFail(s)

PapersSpec == RequestsInit /\ PapersInit /\ [][PapersNext]_<<task, papersVars>>

-----------------------------------------------------------------------------
\* A verified license is written again only by handlers that were in flight, with
\* their images on the way, when it was verified: whoever comes later is refused.
VerifiedPerRace ==
    \A l \in Licenses :
        licenses[l].verification = "verified" =>
            rewritten[l] + Cardinality({s \in Slots : At(s, "rewrite") /\ task[s].id = l})
                < Cardinality(Slots)
=============================================================================
