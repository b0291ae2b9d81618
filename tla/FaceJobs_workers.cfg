\* Two workers and two photos whose proxies are late: duplicate messages, retries,
\* one crash.  The pulse comes before the lock expires.
SPECIFICATION Spec
CONSTANTS
    Worker = {w1, w2}
    NoWorker = NoWorker
    LockTtl = 2
    PulseGap = 1
    LockAttempts = 1
    Photo = {p1, p2}
    NoPhoto = NoPhoto
    Click = {c1}
    Ticker = {t1}
    MaxRetries = 1
    FreshAfter = 1
    StallAfter = 2
    Debounce = 1
    WatchTtl = 3
    MaxStarts = 1
    MaxFaults = 1
    MaxJobs = 1
    StuckProxy = {p1, p2}
SYMMETRY Symmetry
INVARIANTS
    RowsPerFault
PROPERTIES
    PipelineExclusion
