CONSTANTS
    Workers = {w1}
    NumFrames = 4
    Irs = {a, b}
    Sizes = {s}
    CheckpointEvery = 2
    Orders = {"api", "apiKeep", "cli", "shard"}
    ShardCounts = {2, 3}
    MaxStarts = 4
    MaxCrashes = 2
    MaxEdits = 1
    MaxFaults = 2
    None = None
    Torn = Torn
SPECIFICATION Spec
INVARIANTS
    CompletedFramesAreKept
    EncodingHasAllFrames
    ShardsPartition
    LittleIsRedrawn
    NoSplice
CHECK_DEADLOCK FALSE
