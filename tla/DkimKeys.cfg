\* Two selectors, two generations beside changes of the rotation, one failure or death.
SPECIFICATION Spec
CONSTANTS
    Selector = {"s1", "s2"}
    Generation = {g1, g2}
    OldKey = old
    Start <- Starts
    Written <- HandMade
    MaxFaults = 1
    None = None
SYMMETRY Alike
INVARIANTS
    ActiveBacked
    RotationClean
    FixAuthorizes
    GradesAgree
CHECK_DEADLOCK FALSE
