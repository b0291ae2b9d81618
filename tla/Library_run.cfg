\* Two requests over every tree of three folders with up to two photos.
SPECIFICATION StartSpec
CONSTANTS
    Folder = {f1, f2, f3}
    Photo = {p1, p2}
    Request = {r1, r2}
    MaxDepth = 2
    Limit = 1
    Root = Root
    Other = Other
    None = None
    Gone = Gone
SYMMETRY Symmetry
INVARIANTS
    RootedUnlessTangled
    CounterExplained
    AcceptedIsKept
PROPERTIES
    WithinLimitUnlessGrown
CHECK_DEADLOCK FALSE
