SPECIFICATION Spec
CONSTANTS
    Requests = {r1, r2}
    Providers = {p1, p2}
    Wirings <- OwnProvider
    TTL = 2
    MaxTime = 3
    MaxFaults = 0
CHECK_DEADLOCK FALSE
PROPERTIES SharedCache
