SPECIFICATION MCSpec
CONSTANTS
    a = a
    b = b
    Node = {a, b}
    Hub = {a}
    Limit = {3, 5}
    Skew <- OneAhead
    MaxDelegationDepth = 3
    ExpiresAfter = 4
    RenewAfter = 2
    MaxLease = 4
    MaxClockSkew = 1
    MaxTickets = 3
    MaxNow = 3
    IssueKey = {"i1", "i2"}
    Retry = 2
    HandshakeTimeout = 3
    Lead = 2
    RenewIn = {6}
    MaxSession = 3
    MaxTime = 8
    k1 = k1
    k2 = k2
    k3 = k3
    NoPeer = NoPeer
    Peers <- ThreePeers
    Bits = 2
    Prefix <- TwoPrefixes
    Source = {3}
    Destination = {1}
    Fresh = 2
    Suppression = 2
    MaxClock = 3
    MaxSteps = 1
INVARIANTS
    LineageSound
    
    PlannedValidates
    NextIssueBounded
    
    SuppressionEnds
    
PROPERTIES
    OncePerWindow
CHECK_DEADLOCK FALSE
