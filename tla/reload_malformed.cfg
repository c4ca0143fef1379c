SPECIFICATION MCSpec
CONSTANTS
    Scenarios = {"malformed"}
    Observations <- MCObservations
    SourceInfos <- MCInfos
    Ticks = {0}
    InitialEpoch = 1
    max_observations = 3
    dedup_capacity = 1
    sample_limit = 1
INVARIANTS ReloadSucceeds
