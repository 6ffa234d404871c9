SPECIFICATION FairSpec
CONSTANTS
    a = a
    b = b
    c = c
    u = u
    None = None
    NoRow = NoRow
    Free = Free
    Runs = {a, b, c}
    Users = {u}
    Schedule <- TwoDays
    Stocks = {"1155", "5225"}
    AutoPrices = {100}
    ManualPrices = {500}
    OverrideDays = {1}
    Holidays = {}
    MaxPct = 75
    Ttl = 1
    Timeout = 1
    HoursPerDay = 2
    MaxTime = 3
    Faults = {"crash", "timeout"}
PROPERTIES
    LockExcludes
    SkipIsJustified
    RunsEnd
    AllOrNothing
CHECK_DEADLOCK FALSE
