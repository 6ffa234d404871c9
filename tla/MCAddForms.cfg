SPECIFICATION FairSpec
CONSTANTS
    h1 = h1
    h2 = h2
    None = None
    Dialogs = {"lot", "dividend", "position"}
    Brokers <- BothBrokers
    Prices = {5000}
    Shares = {1}
    Years = {1, 2}
    ThisYear = 2
    Labels = {1}
    Holding <- OneLot
    Handlers = {h1, h2}
    MaxEntries = 2
    MaxChanges = 1
    MaxFaults = 1
INVARIANTS
    SavedOnce
    PreviewIsStored
PROPERTIES
    SaveEnds
CHECK_DEADLOCK FALSE
