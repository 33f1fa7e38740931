SPECIFICATION FirmwareBench
CONSTANTS
    NoTime = NoTime
    NumBlocks = 3
    Duration = 20
    Grace = 4
    Horizon = 20
    QueueLimit = 2
    MaxDatagrams = 12
    Retry = 1
    RequestLosses = 2
    ReplyLosses = 3
    ClientTimeout = 1
    SessionLimit = 4
    JoinTimeout = 1
    MaxForeign = 1
    Address = {0, 1, 2, 3, 4, 5, 6, 7}
    SelectedInterface = "up"
    Loopback = {"lo"}
    RouteRecord <- Routes
    OwnAddress = {1, 2}
    ClientHost = 2
    Unasked = Unasked
    MaxRoutes = 3
    MaxChanges = 1
    pairRun = pairRun
    singleRun = singleRun
    bankRun = bankRun
    ta = ta
    tb = tb
    Publisher = {pairRun, singleRun, bankRun}
    Unowned = nobody
    Output = {ta, tb}
    Writes <- Wanting
    Banks <- BankRuns
    MaxSignals = 2
    Ptag <- SmallPtag
    Profiles <- SmallProfiles
    MainFile = "main"
    Protocols = {"sip", "h323"}
    NumberLimit = 2
    SmallTag = 10
    SplitThreshold = 6
    FormatLimit = 2
    PseudoLimit = 2
    DepthLimit = 2
    InputLimit = 8
    BankCells = 10
    HeaderCells = {0, 1}
    SectionCell = 4
    PayloadData = {"p1", "p2", "p3", "p4", "p5"}
    StoredSize <- Streams
    OutputSize <- Expansions
    Templates <- SmallPackages
    RecordEdits <- Edits
    KnownTypes = {"t3", "t5", "t8"}
    TerminalType = "t3"
    Type8 = "t8"
    MaxBankEdits = 2
    PackageLimit = 10
INVARIANT ComposedReadsBack
CHECK_DEADLOCK FALSE
