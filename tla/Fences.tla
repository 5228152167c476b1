-------------------------------- MODULE Fences --------------------------------
(***************************************************************************)
(* LocationServices: the areas the service operates in.  A stretch of a    *)
(* line stands for a polygon, its two ends for the corners; what is told of*)
(* polygons is which points they cover.                                    *)
(***************************************************************************)
EXTENDS Requests, Integers

CONSTANTS
    LocationNames,
    Locations,      \* rows there may be
    MaxPoint        \* bound on the points of the line

VARIABLE locations  \* table locations

Points == 0 .. MaxPoint

\* A polygon has an inside: its corners differ.
Polygons == {p \in [from: Points, to: Points] : p.from < p.to}
Corners(polygon) == {polygon.from, polygon.to}
Covers(polygon, point) == polygon.from <= point /\ point <= polygon.to

Location == [name: LocationNames, coordinates: Polygons, is_active: BOOLEAN]

FenceTask ==
    [pc: {"validate", "insert"}, row: Location]
    \cup [pc: {"name", "row"}, id: Locations, name: LocationNames \cup {None},
          coordinates: Polygons \cup {None}, is_active: BOOLEAN]
    \cup [pc: {"revalidate", "coordinates"}, id: Locations,
          name: LocationNames \cup {None}, coordinates: Polygons, is_active: BOOLEAN]
    \cup [pc: {"delete"}, id: Locations]

FencesTypeOK ==
    /\ locations \in [Locations -> Location \cup {None}]
    /\ \A s \in Slots : task[s] \in FenceTask \cup {Idle}

FencesInit == locations = [l \in Locations |-> None]

Rows == {l \in Locations : locations[l] # None}
NameExist(name, self) == \E l \in Rows \ self : locations[l].name = name

\* The corners are looked up one by one, in the polygons of the other locations.
ValidateCoordinates(polygon, self) ==
    \A l \in Rows \ self, point \in Corners(polygon) : ~ Covers(locations[l].coordinates, point)

-----------------------------------------------------------------------------
CreateLocation(s, row) ==
    /\ ~ NameExist(row.name, {})
    /\ Begin(s, [pc |-> "validate", row |-> row])
    /\ UNCHANGED locations

ValidateNew(s) ==
    /\ At(s, "validate")
    /\ IF ValidateCoordinates(task[s].row.coordinates, {})
       THEN Await(s, [task[s] EXCEPT !.pc = "insert"]) ELSE Finish(s)
    /\ UNCHANGED locations

\* Neither the name nor the polygon has a key behind it.
InsertLocation(s) ==
    /\ At(s, "insert")
    /\ \E l \in Locations \ Rows : locations' = [locations EXCEPT ![l] = task[s].row]
    /\ Finish(s)

\* An update may leave out the name or the coordinates.
FindLocation(s, l, name, coordinates, is_active) ==
    /\ l \in Rows
    /\ Begin(s, [pc |-> "name", id |-> l, name |-> name,
                 coordinates |-> coordinates, is_active |-> is_active])
    /\ UNCHANGED locations

CheckName(s) ==
    /\ At(s, "name")
    /\ LET h == task[s] IN
       IF h.name # None /\ NameExist(h.name, {h.id})
       THEN Finish(s)
       ELSE Await(s, [h EXCEPT !.pc = IF h.coordinates = None THEN "row" ELSE "revalidate"])
    /\ UNCHANGED locations

ValidateChanged(s) ==
    /\ At(s, "revalidate")
    /\ IF ValidateCoordinates(task[s].coordinates, {task[s].id})
       THEN Await(s, [task[s] EXCEPT !.pc = "coordinates"]) ELSE Finish(s)
    /\ UNCHANGED locations

\* UPDATE locations SET coordinates = ...: there is no WHERE.
WriteCoordinates(s) ==
    /\ At(s, "coordinates")
    /\ locations' = [l \in Locations |->
          IF l \in Rows THEN [locations[l] EXCEPT !.coordinates = task[s].coordinates] ELSE None]
    /\ Await(s, [task[s] EXCEPT !.pc = "row"])

\* It throws when the row is gone.
WriteLocation(s) ==
    /\ At(s, "row")
    /\ LET h == task[s] IN
       locations' = IF h.id \notin Rows THEN locations
                    ELSE [locations EXCEPT
                            ![h.id].name = IF h.name = None THEN @ ELSE h.name,
                            ![h.id].is_active = h.is_active]
    /\ Finish(s)

FindToRemove(s, l) ==
    /\ l \in Rows
    /\ Begin(s, [pc |-> "delete", id |-> l])
    /\ UNCHANGED locations

\* A location that fares, ride requests or discounts refer to is kept by their keys.
RemoveLocation(s, referred) ==
    /\ At(s, "delete")
    /\ locations' = IF referred THEN locations ELSE [locations EXCEPT ![task[s].id] = None]
    /\ Finish(s)

-----------------------------------------------------------------------------
FencesStep(s) ==
    \/ ValidateNew(s) \/ InsertLocation(s)
    \/ CheckName(s) \/ ValidateChanged(s) \/ WriteCoordinates(s) \/ WriteLocation(s)
    \/ \E referred \in BOOLEAN : RemoveLocation(s, referred)

FencesNext ==
    \E s \in Slots :
        \/ \E row \in Location : CreateLocation(s, row)
        \/ \E l \in Locations :
            \/ \E name \in LocationNames \cup {None}, coordinates \in Polygons \cup {None},
                  is_active \in BOOLEAN : FindLocation(s, l, name, coordinates, is_active)
            \/ FindToRemove(s, l)
        \/ FencesStep(s)

FencesSpec == RequestsInit /\ FencesInit /\ [][FencesNext]_<<task, locations>>

-----------------------------------------------------------------------------
\* What findByPoint may answer for a point: None outside all areas.
FindByPoint(point) ==
    LET found == {l \in Rows : Covers(locations[l].coordinates, point)}
    IN  IF found = {} THEN {None} ELSE found

\* What validateCoordinates is to see to: of a polygon that has just been written
\* for a location, no corner is covered by any other location.
WrittenUncovered ==
    [][\A l \in Locations :
        /\ locations'[l] # None
        /\ locations[l] = None \/ locations[l].coordinates # locations'[l].coordinates
        => \A other \in Locations \ {l}, point \in Corners(locations'[l].coordinates) :
            locations'[other] = None \/ ~ Covers(locations'[other].coordinates, point)
      ]_<<task, locations>>
=============================================================================
