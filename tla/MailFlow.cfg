\* One message with any envelope, its bounce, a schedule of two tiers, two workers racing
\* on redelivered copies.
SPECIFICATION Spec
CONSTANTS
    Mail = {m1}
    Dsn = {d1}
    Slot = {c1, c2, c3}
    Session = {s1}
    Worker = {w1, w2}
    Gen = {g1}
    Envelope <- AllEnvelopes
    NTiers = 2
    MaxChain = 1
    MaxFaults = 1
    None = None
SYMMETRY Symm
INVARIANTS
    TypeOK
    NoLoss
    IInv
    JobHasBody
    StatusTruthful
PROPERTY KeepsContract
CHECK_DEADLOCK FALSE
