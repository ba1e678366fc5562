\* Every kind of envelope, a failover chain of two, two notification ids and one failure
\* anywhere, under the scheduling the code relies on: the properties that need them.
SPECIFICATION FairSpec
CONSTANTS
    Mail = {m1}
    Dsn = {d1, d2}
    Slot = {c1, c2, c3}
    Session = {s1}
    Worker = {w1}
    Gen = {g1}
    Envelope <- AllEnvelopes
    NTiers = 1
    MaxChain = 2
    MaxFaults = 1
    None = None
INVARIANTS
    DeadLetterEarned
    NeverBounceABounce
PROPERTY EventuallyResolved
CHECK_DEADLOCK FALSE
