CONSTANTS
    o1 = o1
    o2 = o2
    Owners = {o1, o2}
    Names = {n1, n2}
    NoOwner = NoOwner
    Duration = 2
    MaxLag = 1
    MaxTime = 4
    Skew <- MCSkew
SPECIFICATION Spec
INVARIANTS LeaseHeld LeaseExclusive
PROPERTIES NoTakeover ImplementsLeases
CHECK_DEADLOCK FALSE
SYMMETRY Symmetry
