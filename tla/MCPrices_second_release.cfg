SPECIFICATION Spec
CONSTANTS
    a = a
    b = b
    c = c
    u = u
    None = None
    NoRow = NoRow
    Free = Free
    Runs = {a, b, c}
    Users = {}
    Schedule <- SameDay
    Stocks = {"1155"}
    AutoPrices = {100}
    ManualPrices = {}
    OverrideDays = {}
    Holidays = {}
    MaxPct = 75
    Ttl = 2
    Timeout = 1
    HoursPerDay = 24
    MaxTime = 4
    Faults = {"timeout"}
INVARIANTS
    OneRunAtATime
CHECK_DEADLOCK FALSE
