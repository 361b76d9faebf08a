SPECIFICATION NodeSpec
CONSTANTS
    s1 = s1
    s2 = s2
    hub = hub
    local = local
    Selector <- MCSelector
    Session <- MCSession
    Ticket <- MCTickets
    Peer = {hub}
    Local = local
    NoSession = NoSession
    BasePath = BasePath
    MaxClockSkew = 1
    MaxLease = 4
    HandshakeLifetime = 4
    PollInterval = 1
    MaxTime = 4
    RemoveCanFail = TRUE
    CommandCapacity = 1
    EventCapacity = 2
    MayReplay = FALSE
INVARIANT DeviceBacked
 
 
INVARIANT RoutesAgree
PROPERTY RouteKept
 
