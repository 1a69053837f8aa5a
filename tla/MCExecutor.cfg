SPECIFICATION FairExecutor
CONSTANTS
    Worker = {w1, w2}
    First = w1
    None = None
    MaxTurns = 2
    MaxMoves = 2
    MaxExits = 1
    MaxFaults = 1
INVARIANTS ExecutorTypeOK KnowsThePast ReplyIsOfTurn SnapshotAtRest
PROPERTY JobEnds
CHECK_DEADLOCK FALSE
