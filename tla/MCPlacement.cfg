SPECIFICATION FairSpec
CONSTANTS
    Worker = {w1, w2, w3}
    NoWorker = NoWorker
    VNodes = 2
    MaxPoint = 1
    MaxLimit = 3
    MaxScore = 1
INVARIANTS
    PlacementTypeOK
    CandidatesAreNearest
    AffinityKept
    ChosenIsLightest
    PlacesAsRelied
PROPERTY
    PlacementEnds
CHECK_DEADLOCK FALSE
