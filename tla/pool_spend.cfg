SPECIFICATION MCSpec
CONSTANTS
    l1 = l1
    l2 = l2
    d1 = d1
    Leases = {l1, l2}
    DataArtifacts = {d1}
    NoPool = NoPool
    TargetWaterline = 1
    MaxPoolEntries = 2
    MaxOutstanding = 1
    MaxTopUpEntries = 1
    RefreshHorizon = 0
    MaxLifetime = 1
    ConnectTimeout = 0
    Retention = 1
    MaxLedgerEntries = 2
    DataExpiry = 3
    MaxGeneration = 2
    MaxSequence = 2
    MaxRequests = 0
    MaxTime = 4
    MaxDisturbances = 3
SYMMETRY LeaseSymmetry
INVARIANTS SingleSpend
