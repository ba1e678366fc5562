\* Two workers, one reload, a pool of one connection per instance.
SPECIFICATION FairSpec
CONSTANTS
    Worker = {w1, w2}
    Conn = {c1, c2, c3}
    MaxIdle = 1
    MaxReloads = 1
    MaxFaults = 2
    None = None
INVARIANTS
    Exclusive
    CleanStart
    NoneForgotten
PROPERTY SendEnds
CHECK_DEADLOCK FALSE
