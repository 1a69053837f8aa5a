SPECIFICATION FairSpec
CONSTANTS
    Turn = {t1}
    RetryCount = 2
    Snapshotter = TRUE
    MaxLost = 2
    MaxRestarts = 0
    MaxDeltas = 1
    MaxJobs = 2
INVARIANT
    JobEventsInOrder
PROPERTY
    TurnEnds
CHECK_DEADLOCK FALSE
