CONSTANTS
    s1 = s1
    s2 = s2
    s3 = s3
    c1 = c1
    c2 = c2
    x1 = x1
    q1 = q1
    q2 = q2
    None = None
    Outside = Outside
    Detached = Detached
    HostSessions = {s1, s3}
    Channels = {c1, c2}
    ChannelOf <- MCOneChannel
    Local = {s3}
    AccessSessions = {x1}
    AccessOf <- MCAccessOf
    Requests = {q1}
    MaxGeneration = 2
SPECIFICATION LiveSpec
INVARIANTS IndexExact NoAdmissionAfterIntent MaintenanceNeverRejected NothingLeftOpen
PROPERTY ClosedIsForgotten
CHECK_DEADLOCK FALSE
