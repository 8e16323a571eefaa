\* One subscription at a listener while an association waits to be accepted.
SPECIFICATION Spec
CONSTANTS
    Assocs = {3, 4}
    Events = {101, 102}
    RtoInfos <- MCRtoInfos
    AssocInfos <- MCAssocInfos
    SackInfos <- MCSackInfos
    PeerAddrParamsSet <- MCPeerAddrParams
    InitParamsSet <- MCInitParams
    Sizes = {8, 9}
    I32_MAX = 8
    MemMax = 4
    MaxCalls = 1
PROPERTY AcceptedAsSubscribed
CHECK_DEADLOCK FALSE
