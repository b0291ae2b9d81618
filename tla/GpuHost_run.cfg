SPECIFICATION FairHostSpec
CONSTANTS
    Event = {e1, e2}
    Slots = 1
    IdleAfter = 2
    LockTtl = 2
    FreshAfter = 1
    StallAfter = 4
    RequeueAfter = 2
    MaxStarts = 2
    MaxJobs = 2
    MaxFaults = 1
    None = None
INVARIANTS
    KillsOnlyRacing
    GivesUpAfterFault
PROPERTIES
    IdleHostStops
    StartIsServed
