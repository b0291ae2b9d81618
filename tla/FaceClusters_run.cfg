SPECIFICATION ClusterSpec
CONSTANTS
    Frontal = {f1, f2, f3}
    Profile = {p1, p2}
    Deletable = {p1, p2}
    NumClusters = 2
    Sessions = {r1, r2}
    ClusterBatchSize = 2
    MaxOrphanSize = 1
    Slow = {"crops"}
    MaxFaults = 1
    Nil = Nil
    Dead = Dead
INVARIANTS
    MembersAgree
PROPERTIES
    KeepsItsPerson
SYMMETRY Symmetry
CHECK_DEADLOCK FALSE
