\* Two replicas, two overlapping loads, two things people do.
SPECIFICATION Spec
CONSTANTS
    Replica = {r1, r2}
    Load = {l1, l2}
    Refresh = {f1}
    Other = other
    Start <- Starts
    MaxEdits = 1
    None = None
INVARIANTS
    ChangesAccounted
    SeededAdmin
PROPERTIES
    ConsoleSettles
    EditKeepsTheRest
CHECK_DEADLOCK FALSE
