SPECIFICATION Spec
CONSTANTS
    l1 = l1
    t1 = t1
    pos = pos
    h1 = h1
    h2 = h2
    None = None
    Lots = {l1}
    Tranches = {t1}
    Position = pos
    Initial <- AtFirst
    LotShares = {1}
    TrancheShares = {2}
    Shared = {l1, pos}
    Handlers = {h1, h2}
    MaxVersion <- Versions
    Lossy = {"save", "delete", "refresh", "revalidate"}
    MaxFaults = 1
INVARIANTS
    BusyHasHandler
    SavesAreShown
PROPERTIES
    NoLostUpdate
    CacheNeverGoesBack
SYMMETRY Interchangeable
CHECK_DEADLOCK FALSE
