SPECIFICATION FairSpec
CONSTANTS
    s1 = s1
    s2 = s2
    s3 = s3
    hub = hub
    local = local
    Selector <- MCSelector
    Session <- MCSession
    Ticket <- MCTickets
    Peer = {hub}
    Local = local
    NoSession = NoSession
    BasePath = BasePath
    MaxClockSkew = 1
    MaxLease = 4
    HandshakeLifetime = 4
    PollInterval = 2
    MaxTime = 7
    RemoveCanFail = TRUE
PROPERTY DivertedReturns
