CONSTANTS
    c1 = c1
    c2 = c2
    p1 = p1
    Callers = {c1, c2}
    PasswordOf <- MCPasswordOfTwo
    Omitted = Omitted
    Empty = Empty
    MaxEntries = 2
    MaxGeneration = 2
SPECIFICATION LiveSpec
INVARIANTS StaleNeverAccepted LeaseHasOwnCredentials
PROPERTIES LeaseEndsWithMaster AcquireEnds IdleCloses DisposedEnds
CHECK_DEADLOCK FALSE
