SPECIFICATION FlowSpec
CONSTANTS
    short = short  long = long  silent = silent  unknown = unknown
    x = x  y = y  g = g  h = h  base = base  off = off alien = alien mild = mild  odd = odd
    m1 = m1 m2 = m2 m3 = m3 e1 = e1 e2 = e2
    NoModel = NoModel NoCandidate = NoCandidate NoContent = NoContent
    NotHydrated = NotHydrated
    Precision = 12
    MaxEvidence = 2
    Runs <- RunsOf
    Turns <- TurnsOf
    Enabled <- EnabledOf
    Endpoints <- EndpointsOf
    Draw <- DrawOf
    OperatorConfig <- OperatorConfigOf
    DefaultOperator = base
INVARIANTS
    ParentsPlannedFirst
    SamplesIsolated
    HandlersGetTheirParents
    OneRowPerPieceOfWork
    DrawsAreProportional
    CallsSawTheRecord
    AggregateCountsEveryGrader
    FocusIsWeakest
    PatchesAllOrNothing
CHECK_DEADLOCK FALSE
