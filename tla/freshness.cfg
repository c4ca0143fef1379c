SPECIFICATION MCSpec
CONSTANTS
    Observations <- Reports
    SourceInfos <- Descriptors
    Ticks = {0, 1}
    InitialEpoch = 1
    max_observations = 4
    dedup_capacity = 4
    sample_limit = 2
    stale_after_ns = 1
    expire_after_ns = 2
    MaxCalls = 3
    MaxLoads = 1
    MaxTime = 6
INVARIANTS LoadNeedsRevalidation
PROPERTIES FreshnessDecays SilenceNoticed
