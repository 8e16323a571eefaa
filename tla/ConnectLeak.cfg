\* A caller without a subscription to AssocChange.
SPECIFICATION Spec
CONSTANTS
    MaxEvents = 3
    Lossy = FALSE
    Reused = FALSE
CHECK_DEADLOCK FALSE
INVARIANT OnlySubscribed
