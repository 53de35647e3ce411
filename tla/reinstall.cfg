CONSTANTS
    o1 = o1
    o2 = o2
    None = None
    Ops = {o1, o2}
    ConcurrentPreview = FALSE
    MaxFaults = 2
SPECIFICATION LiveSpec
INVARIANTS IsolatedDataHasJournal CompletionStands FirstAttemptRestores
PROPERTIES OldDataErasedOnlyVerified SuccessIsVerified StartedConverges
CHECK_DEADLOCK FALSE
