CONSTANTS
    s1 = s1
    s2 = s2
    s3 = s3
    c1 = c1
    c2 = c2
    x1 = x1
    q1 = q1
    q2 = q2
    None = None
    Outside = Outside
    Detached = Detached
    HostSessions = {s1}
    Channels = {c1, c2}
    ChannelOf <- MCChannelOfOnly
    Local = {}
    AccessSessions = {}
    AccessOf <- MCNoAccess
    Requests = {q1}
    MaxGeneration = 1
SPECIFICATION Spec
INVARIANT HostClosedDrained
CHECK_DEADLOCK FALSE
