\* Two writers, tasks or threads, and two peers that share a send buffer which
\* one long message fills, or two short ones.
SPECIFICATION FairSpec
CONSTANTS
    Writers = {w1, w2}
    AsyncSets = {{w1, w2}, {w1}}
    Peers = {p1, p2}
    Lens = {1, 2}
    SndBuf = 2
    MaxSends = 3
    MaxCancels = 1
INVARIANTS SentOnce SpaceNoticed
PROPERTIES SendReturns ImplementsSendQueue
CHECK_DEADLOCK FALSE
