SPECIFICATION FairSystem
CONSTANTS
    Worker = {w1, w2}
    Session = {s1}
    User = {u1}
    Turn = {t1}
    Key = {k1}
    NoWorker = NoWorker
    NoUser = NoUser
    NoTurn = NoTurn
    PlainKind = {}
    MaxSessions = 0
    MaxUpsets = 1
    MaxCrashes = 0
PROPERTIES
    LostTurnSettles
