\* One session and two workers on two buckets, one of them shared, and a reload.
SPECIFICATION LimitSpec
CONSTANTS
    Session = {s1}
    Worker = {w1, w2}
    Key = {k1, k2}
    Configs = {{"*"}, {k1}}
    Burst = 1
    MaxBlock = 2
    MaxTime = 3
    MaxReloads = 1
    MaxCalls = 5
    None = None
INVARIANTS
    Paced
    Conserved
CHECK_DEADLOCK FALSE
