\* Two requests in flight against one process, one loss of its connection and one error.
SPECIFICATION FairSpec
CONSTANTS
    Node = {n1}
    Handler = {h1, h2}
    NSlices = 2
    MaxWrites = 3
    MaxDrops = 1
    MaxErrors = 1
INVARIANTS
    CatchesUp
PROPERTIES
    NeverGoesBack
    EventuallyCurrent
CHECK_DEADLOCK FALSE
