SPECIFICATION SeedSpec
CONSTANTS
    g1 = g1  g2 = g2  g3 = g3
    r1 = r1  p1 = p1  p2 = p2
    NoRunner = NoRunner
    NoArtifact = 0
    Hashes = {g1, g2, g3}
    Parents <- ForkParents
    Plan <- ForkPlan
    Planners = {p1, p2}
    Runners = {r1}
    Artifacts = {1}
    LeaseTTL = 0
    RetryDelay = 0
    MaxLag = 0
    ClaimLimit = 3
    MaxAttempts = 1
    MaxCrashes = 1
INVARIANTS
    RowsParentClosed
    ParentsListedFirst
    SeededMeansPresent
PROPERTIES
    ReseedingKeepsProgress
    PlansGetSeeded
