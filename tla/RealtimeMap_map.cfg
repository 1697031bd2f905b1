SPECIFICATION Spec
CONSTANTS
    Routes = {a, b}
    Tasks = {t1, t2, t3}
    MaxActions = 4
    Buses = {v1}
    NoRoute = NoRoute
    Live = Live
SYMMETRY Symmetry
INVARIANTS TypeOK QuietMapShowsSelection LeaksNeedOverlap
PROPERTIES SyncDrawsSelection
CHECK_DEADLOCK FALSE
