SPECIFICATION Spec
CONSTANTS
    Turn = {t1, t2}
    RetryCount = 2
    Snapshotter = FALSE
    MaxLost = 1
    MaxRestarts = 1
    MaxDeltas = 0
    MaxJobs = 2
SYMMETRY TurnSymmetry
INVARIANTS
    OneJobAtATime
    JobEventsInOrder
    AnsweredIsJournaled
CHECK_DEADLOCK FALSE
