CONSTANTS
    Runs = {r1}
    NumStages = 2
    Drivers = {"in-process", "bullmq"}
    Registries = {{1, 2}}
    Payloads = {p1, p2}
    Requests = {q1, q2}
    Slots = {w1, w2}
    MaxAttempts = 2
    None = None
    MaxResumes = 2
    MaxCrashes = 1
    MaxEdits = 1
    MaxRefusals = 1
SPECIFICATION Spec
SYMMETRY Symmetry
INVARIANTS
    TypeOK
    OneJobPerRun
    CancelReachesWork
    SettledRunIsQuiet
    CheckpointsInOrder
    FinishedStageIsNotRerun
PROPERTIES
    FinalRunIsSealed
    ImplementsLifecycle
CHECK_DEADLOCK FALSE
