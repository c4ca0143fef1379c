SPECIFICATION MCSpec
CONSTANTS
    Devices = {1}
    Ticks = {0, 1, 2}
    Categories = {"UsefulExecution", "NecessaryOverhead", "RetryExecution"}
    MaxSpans = 2
    Spans <- MCSpans
INVARIANTS ValidateState
