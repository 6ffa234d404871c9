SPECIFICATION Spec
CONSTANTS
    r1 = r1
    r2 = r2
    h1 = h1
    h2 = h2
    None = None
    Rows = {r1, r2}
    Served <- InAnswer
    Name <- InAlphabet
    Entered = {0, 1}
    Market = {2}
    STALE_THRESHOLD = 0
    Handlers = {h1, h2}
    MaxTime = 1
    MaxWrites <- Writes
    MaxReloads = 1
    MaxFaults = 1
SYMMETRY Symmetry
INVARIANTS
    UnpricedLast
    OverridesAreShown
PROPERTIES
    SentForItsRow
    TypedIsKept
CHECK_DEADLOCK FALSE
