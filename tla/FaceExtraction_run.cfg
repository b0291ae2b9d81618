\* A photo of up to three boxes in a worker, or two selfies at once in the API.
SPECIFICATION Spec
CONSTANTS
    Width = 2
    TopScore = 3
    MaxBoxes = 3
    Thread = {t1, t2}
    BatchSize = 2
    MinLive = 1
    MaxLive = 1
    LiveScore = 2
    None = None
SYMMETRY Symmetry
INVARIANTS
    DetectsEachFaceOnce
    JudgedOnOwnCrop
    ModelsLoadOnce
    SwapsOnlyOutOfMemory
CHECK_DEADLOCK FALSE
