SPECIFICATION HubSpec
CONSTANTS
    L = L
    B = B
    Peer = {L, B}
    Pair <- OnePair
    RenewAfter = 3
    ExpiresAfter = 6
    HandshakeLifetime = 6
    RenewalLead = 2
    RetryAfter = 2
    MaxLease = 7
    PollInterval = 1
    RekeyAfter = 3
    MaxFault = 1
    MaxTime = 12
INVARIANTS
    LeaseWithinHandshakes
    TicketsValid
    
