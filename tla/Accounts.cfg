CONSTANTS
    Requests = {r1, r2}
    Emails = {"kim"}
    MaxAttempts = 2
    LockTime = 1
    TokenTime = 1
    MaxAccounts = 3
    MaxRequests = 4
    MaxTime = 3
SPECIFICATION Spec
SYMMETRY Symmetry
CHECK_DEADLOCK FALSE
INVARIANTS
    OneAccountPerEmail
    FailuresLock
    GivenMustBeChanged
PROPERTIES
    GoneStaysGone
