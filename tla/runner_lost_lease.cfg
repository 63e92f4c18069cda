SPECIFICATION RunnerSpec
CONSTANTS
    g1 = g1  g2 = g2  g3 = g3
    r1 = r1  r2 = r2
    t1 = t1  t2 = t2
    NoRunner = NoRunner
    NoStage = NoStage
    NoArtifact = 0
    Hashes = {g1}
    Parents <- OneStage
    PlanOrder <- OneOrder
    Runners = {r1}
    Slots = {t1}
    LeaseTTL = 0
    RetryDelay = 1
    MaxLag = 0
    ClaimLimit = 1
    MaxAttempts = 2
    Artifacts = {1, 2}
    Forever = TRUE
    MaxClaims = 9
    Unhandled = {}
    SinkFails = FALSE
    FlakyAttempts = 0
    MaxCrashes = 0
INVARIANT
    RunsUntilStopped
