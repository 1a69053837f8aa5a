SPECIFICATION StreamSpec
CONSTANTS
    Client = {c1, c2, c3}
    Stayer = c3
    Browser = c2
    Resume <- EachWay
    MaxEvents = 3
    MaxDrops = 3
INVARIANTS
    NoGapNoRepeat
CHECK_DEADLOCK FALSE
