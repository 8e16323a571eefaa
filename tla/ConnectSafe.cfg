\* A fresh socket; notifications may be lost for want of memory.
SPECIFICATION FairSpec
CONSTANTS
    MaxEvents = 5
    Lossy = TRUE
    Reused = FALSE
CHECK_DEADLOCK FALSE
INVARIANTS
    OkMeansEstablished NoDataSwallowed NoSilentLoss CauseReported
    SubscriptionRestored
PROPERTY ConnectEnds
