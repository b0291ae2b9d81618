\* Two photos, one worker, one backfill; the watermark is uploaded or removed once while photos
\* are worked on, and changes three times, by two requests and the profile, while none is.
SPECIFICATION StartSpec
CONSTANTS
    NumPhotos = 2
    Worker = {w1}
    Request = {r1, r2}
    MaxTries = 1
    BatchSize = 1
    MaxKeys = 2
    MaxEdits = 3
    MaxFaults = 1
SYMMETRY Clients
INVARIANTS
    MarkedOnce
    RenditionsAgree
    WatermarkServes
PROPERTIES
    BackfillReachesAll
