SPECIFICATION KeepAliveSpec
CONSTANTS
    Process = {p1}
    Timeout = 3
    Delay = 2
    MaxFaults = 4
INVARIANTS
    SweepSparesPunctual
PROPERTIES
    RowHeals
CHECK_DEADLOCK FALSE
