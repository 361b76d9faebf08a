SPECIFICATION MCSpec
CONSTANTS
    Task = {"device", "broker", "relay"}
    Config <- Configs
    NoIps = NoIps
    NoKey = NoKey
    MayBlock = {"device", "relay"}
    MayFail = {"device", "broker"}
    MaxGeneration = 5
    MaxChanges = 2
    MaxFailures = 1
INVARIANTS
    KeyMatchesGeneration
    OrderlyHandover

    
    
CHECK_DEADLOCK FALSE
