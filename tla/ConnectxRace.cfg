\* Another thread may make the socket non-blocking during a call.
SPECIFICATION Spec
CONSTANTS
    Threads = {t1, t2}
    Peers = {p1}
    MidCall = TRUE
    MaxCalls = 2
    MaxAssocs = 1
CHECK_DEADLOCK FALSE
INVARIANT OkAfterBlockingMeansUp
