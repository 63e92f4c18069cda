SPECIFICATION LiveSpec
CONSTANTS
    g1 = g1  g2 = g2  g3 = g3
    r1 = r1  r2 = r2
    t1 = t1  t2 = t2
    NoRunner = NoRunner
    NoStage = NoStage
    NoArtifact = 0
    Hashes = {g1, g2}
    Parents <- ChainParents
    PlanOrder <- ChainOrder
    Runners = {r1}
    Slots = {t1, t2}
    LeaseTTL = 1
    RetryDelay = 1
    MaxLag = 0
    ClaimLimit = 2
    MaxAttempts = 3
    Artifacts = {1, 2, 3}
    Forever = TRUE
    MaxClaims = 9
    Unhandled = {}
    SinkFails = FALSE
    FlakyAttempts = 1
    MaxCrashes = 1
INVARIANT
    RunsUntilStopped
PROPERTIES
    EveryReadyStageSettles
    StopIsHeeded
