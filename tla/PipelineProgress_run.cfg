\* Crops straddle batches; one run may break anywhere and one photo may be deleted.
SPECIFICATION ProgressSpec
CONSTANTS
    NumPhotos = 2
    MaxFaces = 2
    BatchSize = 2
    MaxAborts = 1
    Deletable = {1}
    Visitor = {v1}
INVARIANTS
    ShownIsTrue
    TotalIsSum
    CropsConserved
PROPERTIES
    KeepsLedger
    EveryPhotoDecided
CHECK_DEADLOCK FALSE
