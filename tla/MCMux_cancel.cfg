SPECIFICATION Spec
CONSTANTS
    f1 = f1
    f2 = f2
    Fetch = {f1, f2}
    BodyLen <- Fits1NoBody
    Endless = {f2}
    Status = {1}
    MaxBody = 1
    IdSpace = 8
    MaxId = 4
    MaxChunks = 1
    MaxConn = 1
INVARIANT CancelStops
CHECK_DEADLOCK FALSE
