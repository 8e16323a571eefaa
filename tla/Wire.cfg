\* Queries with buffers from below the minimum up to the limit, the list
\* changing between any two attempts; variable parts of even and odd length;
\* a tick of three microseconds, a microsecond of two nanoseconds.
SPECIFICATION WireSpec
CONSTANTS
    Addresses <- MCAddresses
    MaxAddrs = 2
    Capacities = {0, 20, 60}
    MAX_CAPACITY = 50
    Tails = {0, 1, 4}
    Cuts = {0, 1, 2, 7}
    MaxSecs = 6
    Nanos = 2
    Micros = 6
    Hz = 2
    TIME_T_MAX = 5
    MaxTimeoutSecs = 4
INVARIANTS
    ResultIsSnapshot CapacityBounded EnomemMeansTooMany
    DecodedAsWritten ControlCarried OptionsCarried TimeoutKept
PROPERTY QueryEnds
