SPECIFICATION PlanFairSpec
CONSTANTS
    Stops = {A, B, C}
    NoStop = NoStop
    Infinity = 2147483647
    Origin = Origin
    Destination = Destination
    NoWalk = NoWalk
    Ticks = 2
    Dislike = 2
    MaxTime = 2
    MaxConnections = 2
    MaxBackward = 1
    Memory = 2
    Feeds <- MCFeeds
    Initials <- MCInitialTimes
    Queries <- MCQueries
INVARIANTS PlanTypeOK LegsConnect LegsInTime FastestArrivesFirst
PROPERTIES AlwaysARoute
CHECK_DEADLOCK FALSE
