SPECIFICATION PageFairSpec
CONSTANTS
    Jobs = {c1, c2}
    None = None
    MaxPolls = 2
    MaxLoads = 1
INVARIANTS PageTypeOK MapAgreesWithItinerary TimerStops PatientUserSeesLatest
PROPERTIES EveryClickEnds
CHECK_DEADLOCK FALSE
