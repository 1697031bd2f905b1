SPECIFICATION Spec
CONSTANTS
    Routes = {a}
    Tasks = {t1, t2}
    MaxActions = 6
    Buses = {v1}
    NoRoute = NoRoute
    Live = Live
PROPERTIES SyncRemovesUnselected
CHECK_DEADLOCK FALSE
