SPECIFICATION Spec
CONSTANTS
    NaN = NaN
    IntOfNaN <- LeastInt
    NoForecast = NoForecast
    Metrics = {"conn"}
    Values = {1, 3, NaN}
    Forecasts = {0}
    Configs <- ReloadConfigs
    InitialInstances = {2}
    ForeignInstances = {4}
    LastGoodValueTTL = 0
    MaxHistory = 2
    MaxAge = 2
    MayReload = TRUE
    MayRestart = TRUE
INVARIANTS TypeOK ScaleDownJustified OldestFirst
PROPERTIES PatchWithinBounds CooldownHonoured
