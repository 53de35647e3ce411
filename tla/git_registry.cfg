CONSTANTS
    h1 = h1
    h2 = h2
    h3 = h3
    s1 = s1
    s2 = s2
    s3 = s3
    w1 = w1
    w2 = w2
    w3 = w3
    Handlers = {h1, h2}
    Sessions = {s1, s2}
    SessionOf <- MCSessionOfTwo
    Worktrees = {w1, w2, w3}
    Repos = {1, 2}
    RepoOf <- MCRepoOf
    Contents = {0}
    Kinds = {"mutation", "delete", "files"}
    MaxCoordinators = 2
    MaxWorktrees = 2
    MaxChanges = 2
SPECIFICATION Spec
SYMMETRY MCPairSymmetry
INVARIANTS ReferencesExact RepositoryGatesFree RepositoryExclusion LeasedWorktreeStands
CHECK_DEADLOCK FALSE
