\* One photo, one worker, one crash anywhere; the face queue may stop being served.
SPECIFICATION FairSpec
CONSTANTS
    Worker = {w1}
    NoWorker = NoWorker
    LockTtl = 2
    PulseGap = 1
    LockAttempts = 1
    Photo = {p1}
    NoPhoto = NoPhoto
    Click = {c1}
    Ticker = {t1}
    MaxRetries = 0
    FreshAfter = 1
    StallAfter = 2
    Debounce = 1
    WatchTtl = 3
    MaxStarts = 1
    MaxFaults = 1
    MaxJobs = 2
    StuckProxy = {}
INVARIANTS
    ReadyUnlessRaced
PROPERTIES
    LeavesProcessing
