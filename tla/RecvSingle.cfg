\* One task, or one thread, reads the socket; small buffers force reassembly.
SPECIFICATION Spec
CONSTANTS
    Readers = {r1}
    AsyncSets = {{}, {r1}}
    Lens = {1, 3, 5}
    MaxNotification = 3
    MaxMsgs = 3
    Caps = {0, 2}
    Scratch = 2
    MaxCancels = 1
CHECK_DEADLOCK FALSE
INVARIANTS ReassemblyCannotBlock NotificationsWhole EofIsFinal
PROPERTY ImplementsQueue
