SPECIFICATION Spec
CONSTANTS
    f1 = f1
    f2 = f2
    Fetch = {f1, f2}
    BodyLen <- Fits2TooLarge3
    Endless = {}
    Status = {0, 1, 2, 3}
    MaxBody = 2
    IdSpace = 8
    MaxId = 4
    MaxChunks = 2
    MaxConn = 2
INVARIANTS
    TypeOK
    ExecutedBodyComplete
    AnswersOwnRequest
    ClosedMeansComplete
    NoOrphanedFetch
PROPERTY
    ImplementsFetching
CHECK_DEADLOCK FALSE
