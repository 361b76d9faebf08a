SPECIFICATION MCSpec
CONSTANTS
    s1 = s1
    s2 = s2
    s3 = s3
    hub = hub
    local = local
    Selector <- MCSelector
    Session <- MCSession
    Ticket <- MCTickets
    Peer = {hub}
    Local = local
    NoSession = NoSession
    BasePath = BasePath
    MaxClockSkew = 1
    MaxLease = 4
    HandshakeLifetime = 4
    PollInterval = 2
    MaxTime = 7
    RemoveCanFail = FALSE
    x1 = x1
    x2 = x2
    y1 = y1
    Destination = {x1, x2, y1}
    FamilyOf <- Families
    PriorityOf <- Priorities
    ManagedPriority = {1, 2}
    OurTable = "shortcuts"
    Foreign <- Others
    MaxCrash = 3
    MaxFail = 2
INVARIANTS
    RouteBacked
    LeaseBound
    CleanStart
    BypassHeld
PROPERTIES
    ImplementsLeaseRouting
    DivertedReturns
    ComesUp
