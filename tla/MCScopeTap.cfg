SPECIFICATION TapSpec
CONSTANTS
    TapCap = 4
    MaxPush = 5
    MaxAsk = 5
    Attempts = 2
    MaxWritten = 10
INVARIANT
    SnapshotIsOneMoment
CHECK_DEADLOCK FALSE
