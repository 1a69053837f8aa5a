SPECIFICATION Spec
CONSTANTS
    Worker = {w1, w2}
    Session = {s1}
    User = {u1}
    Turn = {t1, t2}
    Key = {k1, k2}
    NoWorker = NoWorker
    NoUser = NoUser
    NoTurn = NoTurn
    PlainKind = {}
    MaxSessions = 0
    MaxUpsets = 2
    MaxCrashes = 1
SYMMETRY TurnSymmetry
INVARIANTS
    TurnTypeOK
    KeyAdmittedOnce
    OneActiveTurn
    TurnUnderGrant
    JournalFenced
    CompletedHasIdle
PROPERTIES
    SettledStays
    ImplementsFencedLog
CHECK_DEADLOCK FALSE
