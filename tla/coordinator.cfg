SPECIFICATION MCSpec
CONSTANTS
    Boots <- TwoBoots
    Probes <- OneProbe
    Strays <- OneStray
    Rounds = 1
    id_span = 10
    Observations <- BootObs
    SourceInfos <- BootInfos
    Ticks = {0}
    InitialEpoch = 1
    max_observations = 8
    dedup_capacity = 8
    sample_limit = 1
    MaxEvents = 3
INVARIANTS CoordinatorInv HistoryOnDisk NoPhantomSource RepliesInOrder
PROPERTIES ConnectionsEnd HistoryNeverShrinks OnlyAnotherBootCollides LedgerKept
