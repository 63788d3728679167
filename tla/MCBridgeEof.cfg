SPECIFICATION FairSpec
CONSTANTS
    ReqLen = 2
    RespLen = 2
    Framings = {"eof"}
    HostRewrites = {TRUE, FALSE}
PROPERTIES
    ResponseEndSeen
CHECK_DEADLOCK FALSE
