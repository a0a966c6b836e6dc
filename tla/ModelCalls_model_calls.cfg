CONSTANTS
    local = local
    cloud = cloud
    other = other
    Models = {local, cloud, other}
    NoModel = NoModel
    Catalogue = {local, cloud}
    Price <- MCPrice
    Dialect <- MCDialect
    Settings <- MCSettings
    Calls = 3
    MaxRepairs = 2
    MaxAttempts = 2
SPECIFICATION Spec
INVARIANTS
    RequestsAreBounded
    OnlyChosenModelsAreAsked
    CancelledStageIsSilent
    RowCountsEveryAnswer
    RepairsQuoteTheirModel
PROPERTY EveryStageEnds
CHECK_DEADLOCK FALSE
