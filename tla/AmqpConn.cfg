\* A queue consumer and a configuration handler, two reconnects, one failure
\* that leaves the connection up.
SPECIFICATION FairSpec
CONSTANTS
    Consumer = {q1}
    Handler = {h1}
    MaxConns = 3
    MaxFaults = 1
    None = None
INVARIANTS
    NoneMissed
    NoDuplicates
PROPERTIES
    Heals
    CloseStops
CHECK_DEADLOCK FALSE
