SPECIFICATION FairSpec
CONSTANTS
    NaN = NaN
    IntOfNaN = 0
    NoForecast = NoForecast
    Metrics = {"conn"}
    Values = {0, 2, 4, NaN}
    Forecasts = {0, 4}
    Configs <- DemandConfigs
    InitialInstances = {2}
    ForeignInstances = {}
    LastGoodValueTTL = 1
    MaxHistory = 3
    MaxAge = 2
    MayReload = FALSE
    MayRestart = FALSE
PROPERTIES HighDemandReachesMax LowDemandReachesMin ZeroEventuallySeen PredictionBecomesReady
