\* One update at a time, of two locations.
SPECIFICATION FencesSpec
CONSTANTS
    Slots = {s1}
    None = None
    LocationNames = {n1, n2}
    Locations = {l1, l2}
    MaxPoint = 3
PROPERTY
    WrittenUncovered
CHECK_DEADLOCK FALSE
