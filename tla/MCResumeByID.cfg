SPECIFICATION StreamSpec
CONSTANTS
    Client = {c1}
    Stayer = c2
    Browser = c1
    Resume <- EachWay
    MaxEvents = 3
    MaxDrops = 1
INVARIANT
    ResumesFromLast
CHECK_DEADLOCK FALSE
