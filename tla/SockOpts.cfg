\* Two associations, two notification classes of which one may be unknown to
\* the kernel, two option calls in any order.
SPECIFICATION Spec
CONSTANTS
    Assocs = {3, 4}
    Events = {101, 102}
    RtoInfos <- MCRtoInfos
    AssocInfos <- MCAssocInfos
    SackInfos <- MCSackInfos
    PeerAddrParamsSet <- MCPeerAddrParams
    InitParamsSet <- MCInitParams
    Sizes = {8, 9}
    I32_MAX = 8
    MemMax = 4
    MaxCalls = 2
INVARIANTS OptionsAsAsked SubscribedAsAsked
CHECK_DEADLOCK FALSE
