\* A socket whose earlier connect failed.
SPECIFICATION Spec
CONSTANTS
    MaxEvents = 3
    Lossy = FALSE
    Reused = TRUE
CHECK_DEADLOCK FALSE
INVARIANT FailureIsReal
