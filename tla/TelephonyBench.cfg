SPECIFICATION TelephonyBench
CONSTANTS
    File <- Files
    OtherFile = "other"
    FullBlocks <- Full
    HasTail <- Tails
    Port = {p1, p2}
    RunTimes <- Times
    MaxNumber = 3
    Timeout = 2
    Retransmits = 2
    MaxDatagrams = 4
    SendMayFail = TRUE
    MaxFrames = 2
    MaxPieces = 6
    MaxFed = 4
    AgentSessions = 2
    ToneFrames = 2
    WindowTicks = 2
    MaxMessages = 3
    MaxInbound = 2
    IaxFirst = 1
    IaxLast = 3
    SequenceWidth = 2
    ClockWidth = 8
    MaxMedia = 5
    MaxOnPath = 3
    Outgoing = {c1, c2}
    Incoming = {i1, i2, i3}
    NoCall = null
    RunTicks = 3
    CallTicks = 2
    DigitTick = 1
    FreshAudio = 2
    MaxAudio = 3
    MaxFaults = 1
    app = app
    codec = codec
    libc = libc
    Packages = {app, codec, libc}
    FeedOrder <- SearchOrder
    AskedFor = {app}
    InBaseImage = {libc}
    NeededBy <- Depends
    Unhashed = {codec}
    Versions = {"v1", "v2"}
    MaxCacheRuns = 2
    MaxReleases = 1
INVARIANTS TelephonyTypeOK TransferCoherent  SkinnyAnswersAll MediaInOrder
    NoGhostCall PassMeansConversation DoneIsInstallable
PROPERTY HangupEndsSession
CHECK_DEADLOCK FALSE
