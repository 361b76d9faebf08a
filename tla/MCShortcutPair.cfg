SPECIFICATION MCSpec
CONSTANTS
    Left = left
    Right = right
    LeaseCount = 2
    IssuedAt <- Issued
    ExpiresAt <- Expires
    MaxNow = 3
    MaxFault = 1
INVARIANTS
    BothHaveTicket
PROPERTIES
    HoleEnds
    Settles
CHECK_DEADLOCK FALSE
