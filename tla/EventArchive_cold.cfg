\* From an empty event with one photo, and from two processed photos; one fault anywhere.
SPECIFICATION StartSpec
CHECK_DEADLOCK FALSE
CONSTANTS
    Photo = {p1, p2}
    NoPhoto = NoPhoto
    Worker = {w1, w2}
    First = p1
    Only = w1
    Archiver = {a1}
    Click = {c1}
    MaxKeys = 2
    MaxQueue = 1
    MaxAsks = 2
    MaxFaults = 1
INVARIANTS
    ColdUnlessWarm
    DanglingIsArchiving
PROPERTIES
    RestoreServes
