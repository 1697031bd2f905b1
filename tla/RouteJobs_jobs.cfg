SPECIFICATION FairSpec
CONSTANTS
    Requests = {r1, r2}
    Messages = {m1, m2}
    Workers = {w1, w2}
    NoId = NoId
    NoMessage = NoMessage
    BatchSize = 2
    Loop = TRUE
    MaxFaults = 1
INVARIANTS TypeOK RowsComplete StatusMatchesAttributes NoSilentLoss
PROPERTIES ImplementsBoard Served
