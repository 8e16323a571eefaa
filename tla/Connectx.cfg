\* Two threads connect one socket; its mode changes only between calls.
SPECIFICATION FairSpec
CONSTANTS
    Threads = {t1, t2}
    Peers = {p1, p2}
    MidCall = FALSE
    MaxCalls = 2
    MaxAssocs = 2
CHECK_DEADLOCK FALSE
INVARIANTS OkAfterBlockingMeansUp TimedOutMeansWaited IdOfOwnAssociation
PROPERTY OutcomeAnnounced
