CONSTANTS
    m1 = m1
    m2 = m2
    Home = Home
    Draft = Draft
    None = None
    Messages = {m1, m2}
    MaxFaults = 2
SPECIFICATION LiveSpec
INVARIANTS
    TypeOK
    OrderKept
    FreshIdentitySafe
    OnceOnly
    SentIsRemembered
PROPERTIES
    UnknownPauses
    PendingSettles
CHECK_DEADLOCK FALSE
