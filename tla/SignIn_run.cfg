\* Three requests on one account.
SPECIFICATION Spec
CONSTANTS
    Request = {r1, r2, r3}
    Token = {t1, t2}
    MaxAttempts = 1
    MaxSends = 1
    MaxCodes = 2
    MaxAtOnce = 2
    MaxEvents = 1
SYMMETRY Symmetry
INVARIANTS
    AttemptsLimited
    CooldownsHold
    ServeOnce
PROPERTIES
    SentCodesStay
    BothCodesNeeded
CHECK_DEADLOCK FALSE
