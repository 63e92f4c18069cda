SPECIFICATION StoreSpec
CONSTANTS
    s1 = s1  s2 = s2  s3 = s3
    r1 = r1  r2 = r2
    a1 = a1  a2 = a2
    NoRunner = NoRunner
    NoArtifact = NoArtifact
    Hashes = {s1, s2, s3}
    Runners = {r1, r2}
    Artifacts = {a1, a2}
    Parents <- ForkParents
    LeaseTTL = 1
    RetryDelay = 1
    MaxLag = 1
    ClaimLimit = 2
    MaxAttempts = 2
SYMMETRY Interchangeable
INVARIANTS
    StoreTypeOK
    LeaseMatchesAttempt
    RowMatchesAttempt
    AttemptsContiguous
    EarlierAttemptsRetryable
    ParentsStaySucceeded
PROPERTIES
    SettledIsFinal
    ClosedAttemptsKept
    LiveLeaseKept
    ImplementsDataflow
