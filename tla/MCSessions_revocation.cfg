SPECIFICATION Spec
CONSTANTS
    t1 = t1
    t2 = t2
    c1 = c1
    c2 = c2
    None = None
    Tabs = {t1, t2}
    Calls = {c1, c2}
    Life = 1
    Threshold = 0
    MaxTime = 0
    MaxVersion = 2
    MaxActs = 9
    MaxFaults = 0
SYMMETRY Symmetry
CONSTRAINT OfRevocation
INVARIANTS
    SomeRevocationHolds
CHECK_DEADLOCK FALSE
