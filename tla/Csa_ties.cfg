SPECIFICATION TravelSpec
CONSTANTS
    Stops = {A, B, C}
    NoStop = NoStop
    Infinity = 2147483647
    MaxTime = 1
    MaxConnections = 2
    MaxBackward = 0
    Memory = 2
    Feeds <- MCFeeds
    Initials <- MCInitials
SYMMETRY Symmetry
INVARIANTS EarliestArrival
CHECK_DEADLOCK FALSE
