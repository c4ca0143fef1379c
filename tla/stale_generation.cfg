SPECIFICATION MCSpec
CONSTANTS
    Scenarios = {"authority"}
    Observations <- MCObservations
    SourceInfos <- MCInfos
    Ticks = {0}
    InitialEpoch = 1
    max_observations = 2
    dedup_capacity = 2
    sample_limit = 1
PROPERTIES StaleGenerationRejected
