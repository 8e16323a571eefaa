\* Two tasks, a listener or an endpoint and what they obtain.
SPECIFICATION Spec
CONSTANTS
    Socks = {s1, s2, s3}
    Assocs = {a1, a2}
    Tasks = {t1, t2}
    None = none
    MaxOpened = 1
CHECK_DEADLOCK FALSE
SYMMETRY Symmetry
INVARIANTS AsyncNeverBlocks RcvInfoEverywhere NoneStranded QueueNoticed
PROPERTY AbortHonoured
