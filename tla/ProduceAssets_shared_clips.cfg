CONSTANTS
    r1 = r1
    r2 = r2
    Runs = {r1, r2}
    k1 = k1
    k2 = k2
    Keys = {k1, k2}
    Motion <- OneMotion
    Cost <- MCCost
    Demands <- MCDemands
    MaxStarts = 3
    MaxCrashes = 1
    MaxFaults = 1
SPECIFICATION Spec
INVARIANT TakenKeyIsRegistered
CHECK_DEADLOCK FALSE
