SPECIFICATION MCSpec
CONSTANTS
    Scenarios = {"authority", "generations", "window"}
    Observations <- MCObservations
    SourceInfos <- MCInfos
    Ticks = {0}
    InitialEpoch = 1
    max_observations = 2
    dedup_capacity = 1
    sample_limit = 1
INVARIANTS ReplayInv HistoryInGenerationOrder ReplayNeverStale LedgerBalances ReconnectsAccounted DedupConsistent ReloadSucceeds ReplayRebuildsPrefix
PROPERTIES LiveAuthorityKept
