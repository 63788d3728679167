SPECIFICATION FairSpec
CONSTANTS
    ReqLen = 2
    RespLen = 2
    Framings = {"length"}
    HostRewrites = {TRUE, FALSE}
INVARIANTS
    BridgeInv
    NoTruncation
    EofAfterRequest
PROPERTIES
    ClosedBridgeEnds
    ResponseEndSeen
CHECK_DEADLOCK FALSE
