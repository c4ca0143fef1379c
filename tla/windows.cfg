SPECIFICATION MCSpec
CONSTANTS
    Devices = {1, 2}
    Ticks = {0, 1, 2, 3}
    Categories = {"UsefulExecution", "RetryExecution", "TransferActive"}
    MaxSpans = 3
    Spans <- MCSpans
INVARIANTS MergedDisjoint BusyIsMeasure OverlapIsMeasure WindowsAdd ContributorsComplete WorkloadMergesDevices TimelineCoversWindow
