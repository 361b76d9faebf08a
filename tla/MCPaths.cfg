SPECIFICATION MCSpec
CONSTANTS
    r1 = r1
    r2 = r2
    r3 = r3
    c1 = c1
    c2 = c2
    Targets <- ThreeTargets
    NoPath = NoPath
    Client = {c1, c2}
    Overlap = FALSE
    MaxGeneration = 2
    Peer = {p1, p2}
    MaxSamples = 2
    SampleWindow = 1
    PeriodSeconds = 8
    SkewOfA = 1
    MaxRefresh = 2
    MaxSpread = 3
    MaxUtc = 26
INVARIANTS
    
    HealthyCarrier
    ActiveShownWhenHealthy
    UninterruptedRotation
PROPERTIES
    FreshStart
CHECK_DEADLOCK FALSE
