SPECIFICATION FlashSpec
CONSTANTS
    Mac = {ata}
    NoMac = NoMac
    Xid = {x1}
    NoXid = NoXid
    NoTime = NoTime
    NumBlocks = 2
    Duration = 1
    Grace = 0
    Horizon = 1
    QueueLimit = 2
    MaxDatagrams = 3
    DrainLimit = 1
INVARIANT TransmissionFailedMeansSend
CHECK_DEADLOCK FALSE
