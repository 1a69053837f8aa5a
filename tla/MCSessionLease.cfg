SPECIFICATION FairLeaseSpec
CONSTANTS
    Worker = {w1, w2}
    Session = {s1, s2}
    User = {u1, u2}
    NoWorker = NoWorker
    NoUser = NoUser
    MaxSessions = 1
    MaxUpsets = 3
    MaxCrashes = 1
INVARIANTS
    LeaseTypeOK
    OneWorkerPerEpoch
PROPERTIES
    EpochFencesOwner
    SessionsLeaveDeadWorker
