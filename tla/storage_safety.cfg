SPECIFICATION Spec
CONSTANTS
    NaN = NaN
    GiB = 2
    Cfg <- BothVolumes
    Guards <- TwoGuards
    PollInterval = 1
    Signals <- Noisy
    Growths = {0, 2}
    Outages <- AnyOutage
    InitialSizes <- TwoVolumes
    ForeignSizes = {5}
    MaxAge = 2
    MayRestart = TRUE
PROPERTIES ResizeGrowsToMax CooldownUnlessCritical
