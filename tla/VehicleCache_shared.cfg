SPECIFICATION FairSpec
CONSTANTS
    Requests = {r1, r2, r3}
    Providers = {p1, p2}
    Wirings <- AllWirings
    TTL = 1
    MaxTime = 2
    MaxFaults = 1
CHECK_DEADLOCK FALSE
INVARIANTS TypeOK OneFetchAtATime
PROPERTIES AnswersInOrder AnswersAreFresh EveryRequestEnds
