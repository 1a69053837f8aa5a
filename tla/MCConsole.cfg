SPECIFICATION FairConsole
CONSTANTS
    s1 = s1
    s2 = s2
    Session = {s1, s2}
    Existing = {s1}
    None = None
    MaxEvents = 2
    MaxClicks = 2
    MaxFaults = 1
INVARIANTS ConsoleTypeOK ScreenIsOfCurrent MissingOnlyInGap
PROPERTY StreamReturns
CHECK_DEADLOCK FALSE
