CONSTANTS
    Clients = {c1, c2}
    HistoryLimit = 3
    MaxAttempts = 2
    None = None
    MaxReports = 2
    MaxFaults = 2
    MaxRestarts = 1
    MaxResumes = 1
    MaxOpens = 2
SPECIFICATION LiveSpec
INVARIANTS
    DeliveredInOrder
    NothingMissed
    NobodyWaitsInVain
PROPERTY EndIsHeard
CHECK_DEADLOCK FALSE
