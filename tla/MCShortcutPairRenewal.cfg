SPECIFICATION PairSpec
CONSTANTS
    Left = left
    Right = right
    LeaseCount = 2
    IssuedAt <- Issued
    ExpiresAt <- Expires
    MaxNow = 3
    MaxFault = 0
PROPERTIES
    OnlyForward
CHECK_DEADLOCK FALSE
