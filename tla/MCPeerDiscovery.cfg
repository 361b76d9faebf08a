SPECIFICATION MCSpec
CONSTANTS
    a = a
    b = b
    Node = {a, b}
    PeersOf <- EachOther
    PeriodSeconds = 2
    Setting <- Settings
    ChannelSize = 1
    MaxTime = 4

    
PROPERTIES
    Rendezvous
