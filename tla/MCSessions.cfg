SPECIFICATION Spec
CONSTANTS
    t1 = t1
    t2 = t2
    c1 = c1
    c2 = c2
    None = None
    Tabs = {t1, t2}
    Calls = {c1, c2}
    Life = 3
    Threshold = 3
    MaxTime = 3
    MaxVersion = 1
    MaxActs = 5
    MaxFaults = 1
SYMMETRY Symmetry
INVARIANTS
    KeptAlive
    LoadingIsAwaited
PROPERTIES
    ExpiredNoticeIsEarned
CHECK_DEADLOCK FALSE
