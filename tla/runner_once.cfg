SPECIFICATION RunnerSpec
CONSTANTS
    g1 = g1  g2 = g2  g3 = g3
    r1 = r1  r2 = r2
    t1 = t1  t2 = t2
    NoRunner = NoRunner
    NoStage = NoStage
    NoArtifact = 0
    Hashes = {g1, g2, g3}
    Parents <- ForkParents
    PlanOrder <- ForkOrder
    Runners = {r1}
    Slots = {t1, t2}
    LeaseTTL = 1
    RetryDelay = 1
    MaxLag = 0
    ClaimLimit = 3
    MaxAttempts = 2
    Artifacts = {1, 2}
    Forever = FALSE
    MaxClaims = 3
    Unhandled = {g3}
    SinkFails = TRUE
    FlakyAttempts = 1
    MaxCrashes = 1
INVARIANTS
    OutcomesRecorded
    ClaimsAccountedFor
    HandlersSeeParents
    LeaseHasWorker
