SPECIFICATION MCSpec
CONSTANTS
    Outboxes <- Streams
    kMaxFrame = 7
    chunk = 6
    FieldValues = {0, 1}
    kFields = 2
    kMaxRecord = 4
    MaxSaved = 2
    MaxDamages = 1
INVARIANTS RefusedOnlyNearLimit IntactOrRefused
PROPERTIES FramesInOrder Delivered
