SPECIFICATION RestartedSpec
CONSTANTS
    Requests = {r1}
    Messages = {m1}
    Workers = {w1}
    NoId = NoId
    NoMessage = NoMessage
    BatchSize = 1
    Loop = TRUE
    MaxFaults = 1
PROPERTIES EveryJobFinishes
