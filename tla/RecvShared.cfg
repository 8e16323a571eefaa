\* Two tasks read the stream; a notification may exceed the buffers.
SPECIFICATION Spec
CONSTANTS
    Readers = {r1, r2}
    AsyncSets = {{r1, r2}}
    Lens = {1, 3}
    MaxNotification = 4
    MaxMsgs = 2
    Caps = {1, 2}
    Scratch = 1
    MaxCancels = 0
CHECK_DEADLOCK FALSE
INVARIANT NotificationsWhole
