SPECIFICATION MCLiveSpec
CONSTANTS
    Leases = {}
    DataArtifacts = {}
    NoPool = NoPool
    TargetWaterline = 1
    MaxPoolEntries = 3
    MaxOutstanding = 2
    MaxTopUpEntries = 1
    RefreshHorizon = 1
    MaxLifetime = 2
    ConnectTimeout = 0
    Retention = 1
    MaxLedgerEntries = 2
    DataExpiry = 3
    MaxGeneration = 1
    MaxSequence = 4
    MaxRequests = 2
    MaxTime = 4
    MaxDisturbances = 2
INVARIANTS ValidResponseFits AckedMeansDurable
PROPERTIES OutstandingNeverDropped RequestResolved
