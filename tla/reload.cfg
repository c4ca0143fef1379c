SPECIFICATION ReloadSpec
CONSTANTS
    Scenarios = {"intervals", "evidence"}
    Observations <- MCObservations
    SourceInfos <- MCInfos
    Ticks = {0}
    InitialEpoch = 1
    max_observations = 4
    dedup_capacity = 2
    sample_limit = 1
INVARIANTS TypeOK SamplesBounded SpansMatchHistory CapacityMatchesHistory EvidenceInv
PROPERTIES ReloadRebuildsEvidence LedgerKept
