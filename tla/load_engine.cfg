SPECIFICATION FairSpec
CONSTANTS
    Scale = 2
    Workers = {w1, w2}
    Ips = {"a", "b", "u"}
    Unparsable = {"u"}
    Flags <- SomeFlags
    Waves <- SomeWaves
    MaxTicks = 2
CHECK_DEADLOCK FALSE
INVARIANTS PoolsListed SummaryCountsAll BurstlessOnlyAfterUnlimited
PROPERTIES RunReturns PodsFollowDNS
