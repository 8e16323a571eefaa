\* Control messages of every kind the socket layer attaches; the other bounds as
\* small as possible.
SPECIFICATION WireSpec
CONSTANTS
    Addresses <- MCAddresses
    MaxAddrs = 0
    Capacities = {20}
    MAX_CAPACITY = 50
    Tails = {0}
    Cuts = {0}
    MaxSecs = 1
    Nanos = 2
    Micros = 6
    Hz = 2
    TIME_T_MAX = 5
    MaxTimeoutSecs = 4
INVARIANT AnythingElseFits
