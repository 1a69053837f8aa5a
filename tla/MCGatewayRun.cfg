SPECIFICATION FairSpec
CONSTANTS
    MaxTurns = 2
    MaxRuns = 2
    MaxUpsets = 1
INVARIANTS
    GatewayTypeOK
    ReplyOfItsTurn
    EndMeansSettled
PROPERTY
    TurnEndsOrAsks
CHECK_DEADLOCK FALSE
