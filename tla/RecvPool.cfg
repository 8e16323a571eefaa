\* Two tasks read the stream with buffers that notifications exceed.
SPECIFICATION FairSpec
CONSTANTS
    Readers = {r1, r2}
    AsyncSets = {{r1, r2}}
    Lens = {1, 2}
    MaxNotification = 4
    MaxMsgs = 2
    Caps = {1}
    Scratch = 1
    MaxCancels = 1
CHECK_DEADLOCK FALSE
INVARIANTS ReadinessKept NeverMixed
PROPERTIES LossIsReported Drained
