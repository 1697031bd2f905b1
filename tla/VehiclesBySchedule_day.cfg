SPECIFICATION ViewSpec
CONSTANTS
    T1 = T1
    T2 = T2
    A = A
    B = B
    C = C
    Short = Short
    Turning = Turning
    Backward = Backward
    Straight = Straight
    L1 = L1
    L2 = L2
    Blank = Blank
    Unparsed = Unparsed
    MaxTime = 5
    Day = 4
    Ids <- MCIds
    Places <- MCPlaces
    Feeds <- MCFeeds
    Selections <- MCSelections
INVARIANTS FeedTypeOK LoadsTheTimetable MissingForAReason VehiclesKeepToTheTimetable
PROPERTIES VehiclesNeverGoBack
CHECK_DEADLOCK FALSE
