SPECIFICATION FairSpec
CONSTANTS
    InitialSpecs <- SomeSpecs
    Targets = {1, 2}
    Sizes = {2}
    MaxInstances = 2
INVARIANTS ResetHolds
PROPERTIES WritesAsPromised BothSettle
