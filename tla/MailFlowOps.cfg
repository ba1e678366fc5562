\* A sweep, a requeue and a purge beside the delivery of one message, a client's or an alert.
SPECIFICATION OpsSpec
CONSTANTS
    Mail = {m1}
    Dsn = {d1}
    Slot = {c1, c2, c3}
    Session = {s1}
    Worker = {w1}
    Gen = {g1}
    Envelope <- NullOnly
    NTiers = 1
    MaxChain = 1
    MaxFaults = 1
    None = None
    Budget <- Budgets
SYMMETRY Symm
INVARIANTS
    NoLossButPurged
PROPERTY SweepsOrphansOnly
CHECK_DEADLOCK FALSE
