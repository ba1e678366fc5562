\* One session and three changes or reloads of the policy.
SPECIFICATION Spec
CONSTANTS
    a = a
    b = b
    x = x
    y = y
    Domain = {a, b}
    Address = {x, y}
    Account <- Accounts
    Tables <- SmallTables
    MaxChanges = 3
    MaxRcpts = 2
    None = None
INVARIANTS
    EnvelopeAsAcknowledged
    SuppressedByAll
    Permitted
CHECK_DEADLOCK FALSE
