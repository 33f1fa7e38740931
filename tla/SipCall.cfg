SPECIFICATION CallSpec
CONSTANTS
    CallId = {c1, c2}
    Port = {p1, p2}
    RunTime = 4
    CallTime = 2
    RecvTimeout = 1
    ToneFrames = 1
    Pattern = 2
    SendMayFail = TRUE
    Uris = {"extension"}
    Noise = 1
    QueueLimit = 2
INVARIANTS TimeBounded CallsAgree
PROPERTIES AttemptEnds CallKept
CHECK_DEADLOCK FALSE
