SPECIFICATION MCSpec
CONSTANTS
    PeerCount = 2
    MaxInFlight = 2
    ProbeTimeout = 0
    Stale <- StaleReply
    MaxNonce = 3
INVARIANTS
    ProbeAccounted
PROPERTIES
    ProbeSettles
