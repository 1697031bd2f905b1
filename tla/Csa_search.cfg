SPECIFICATION TravelSpec
CONSTANTS
    Stops = {A, B, C}
    NoStop = NoStop
    Infinity = 2147483647
    MaxTime = 2
    MaxConnections = 3
    MaxBackward = 1
    Memory = 3
    Feeds <- MCFeeds
    Initials <- MCInitials
SYMMETRY Symmetry
INVARIANTS PredecessorsExplainArrivals JourneyCanBeTravelled WalkBackEnds EarliestWithoutLateFeeder
CHECK_DEADLOCK FALSE
