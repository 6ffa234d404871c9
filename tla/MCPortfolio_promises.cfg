SPECIFICATION Spec
CONSTANTS
    r1 = r1
    r2 = r2
    r3 = r3
    p1 = p1
    p2 = p2
    l1 = l1
    l2 = l2
    l3 = l3
    t1 = t1
    t2 = t2
    None = None
    Requests = {r1, r2}
    Endpoints = {"create_position", "add_lot", "update_lot", "delete_lot", "create_dividend"}
    Portfolios = {"alice"}
    Stocks = {"1155"}
    PositionId = {p1, p2}
    LotId = {l1, l2, l3}
    TrancheId = {t1, t2}
    Shares = {1}
    Days = {1}
    ExDays = {}
    DaysPerYear = 2
    Labels = {"1st"}
    PerShare = {15000}
    TranchesPerYear = 8
    MaxVersion = 2
SYMMETRY Interchangeable
INVARIANTS
    SomePromiseHolds
CHECK_DEADLOCK FALSE
