CONSTANTS
    Runs = {r1, r2}
    Callers = {c1, c2}
    MaxQuote = 2
    MaxBill = 3
    Budgets = {2}
    RunLimit = 3
    DayLimit = 3
    ProjectLimit = 4
    None = None
    MaxCalls = 3
    MaxCrashes = 1
    MaxFaults = 1
SPECIFICATION Spec
SYMMETRY Symmetry
INVARIANTS
    OverrunIsBounded
    BillIsTheLedger
    LittleAfterCancel
CHECK_DEADLOCK FALSE
