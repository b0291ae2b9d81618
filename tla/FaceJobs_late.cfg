\* The lock may expire under a live run; two reconcile runs overlap;
\* the proxy is late.
SPECIFICATION Spec
CONSTANTS
    Worker = {w1, w2}
    NoWorker = NoWorker
    LockTtl = 1
    PulseGap = 1
    LockAttempts = 2
    Photo = {p1}
    NoPhoto = NoPhoto
    Click = {c1}
    Ticker = {t1, t2}
    MaxRetries = 0
    FreshAfter = 1
    StallAfter = 2
    Debounce = 1
    WatchTtl = 3
    MaxStarts = 2
    MaxFaults = 0
    MaxJobs = 1
    StuckProxy = {p1}
SYMMETRY Symmetry
PROPERTIES
    OthersKeyUntouched
    OneAlertPerWindow
    StartHasItsWindow
