SPECIFICATION ServiceSpec
CONSTANTS
    NoTime = NoTime
    NumBlocks = 2
    Duration = 3
    Grace = 1
    Horizon = 3
    QueueLimit = 2
    MaxDatagrams = 4
INVARIANTS CompleteMeansEveryBlock RequestsAccountedFor EarlyReturnIsQuiet
PROPERTY DataOnlyWhileAdvertised
CHECK_DEADLOCK FALSE
