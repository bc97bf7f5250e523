SPECIFICATION FairSpec
CONSTANTS
    NaN = NaN
    GiB = 2
    Cfg <- SmallSteps
    Guards <- TwoGuards
    PollInterval = 1
    Signals <- Noisy
    Growths = {0}
    Outages <- NoOutage
    InitialSizes <- TwoVolumes
    ForeignSizes = {}
    MaxAge = 2
    MayRestart = TRUE
INVARIANTS OneStepAhead
PROPERTIES PressureRelieved
