SPECIFICATION TftpSpec
CONSTANTS
    File <- Files
    OtherFile = "other"
    FullBlocks <- Full
    HasTail <- Tails
    Port = {p1, p2}
    RunTimes <- Times
    MaxNumber = 4
    Timeout = 1
    Retransmits = 2
    MaxDatagrams = 12
    SendMayFail = TRUE
    Wires <- Mixed
    RfcClient = FALSE
INVARIANTS HeldFilesAreWhole
PROPERTIES CompleteMeansHeld FetchSucceeds
CHECK_DEADLOCK FALSE
