SPECIFICATION ExchangeSpec
CONSTANTS
    Mac = {ata, pc}
    NoMac = NoMac
    Xid = {x1, x2}
    NoXid = NoXid
INVARIANTS SingleClient AckFollowsOffer LeaseIffAcknowledged AtMostOneBound AckAnswersOwnRequest
