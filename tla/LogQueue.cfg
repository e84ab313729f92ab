SPECIFICATION FairSpec
CONSTANTS
    None = None
    log1 = log1
    log2 = log2
    long1 = long1
    Logs = {log1, log2, long1}
    TooLong = {long1}
    Attempts = 2
    MaxStalled = 1
    MaxCrashes = 2
INVARIANT TypeOK
INVARIANT DocumentsAreExplained
INVARIANT CompletedIsStored
INVARIANT FirstTriesInOrder
PROPERTY LogsAreDelivered
CHECK_DEADLOCK FALSE
