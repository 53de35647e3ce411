CONSTANTS
    h1 = h1
    h2 = h2
    h3 = h3
    s1 = s1
    s2 = s2
    s3 = s3
    w1 = w1
    w2 = w2
    w3 = w3
    Handlers = {h1, h2}
    Sessions = {s1, s2}
    SessionOf <- MCSessionOfTwo
    Worktrees = {w1}
    Repos = {1}
    RepoOf <- MCOneTree
    Contents = {0, 1}
    Kinds = {"read", "mutation", "delete", "files"}
    MaxCoordinators = 1
    MaxWorktrees = 1
    MaxChanges = 2
SPECIFICATION LiveSpec
INVARIANTS TypeOK SnapshotFresh
PROPERTY RequestEnds
CHECK_DEADLOCK FALSE
