SPECIFICATION Spec
CONSTANTS
    NaN = NaN
    IntOfNaN = 0
    NoForecast = NoForecast
    Metrics = {"conn"}
    Values = {2}
    Forecasts = {4}
    Configs <- SwitchConfigs
    InitialInstances = {2}
    ForeignInstances = {}
    LastGoodValueTTL = 1
    MaxHistory = 1
    MaxAge = 3
    MayReload = TRUE
    MayRestart = FALSE
INVARIANTS PredictiveFallsBackToCurrent
