CONSTANTS
    Runs = {r1, r2}
    NumStages = 2
    Drivers = {"in-process", "bullmq"}
    Registries = {{1, 2}, {1}}
    Payloads = {p1}
    Requests = {q1}
    Slots = {w1}
    MaxAttempts = 2
    None = None
    MaxResumes = 1
    MaxCrashes = 1
    MaxEdits = 0
    MaxRefusals = 0
SPECIFICATION LiveSpec
PROPERTY EveryRunComesToRest
CHECK_DEADLOCK FALSE
