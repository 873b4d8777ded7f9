SPECIFICATION FairSpec
CONSTANTS
    u1 = u1
    u2 = u2
    Users <- MCUsers
    NoUser = NoUser
    Sagas <- MCSagas
    MaxLost = 3
    WaitMayEnd = TRUE
INVARIANT AbortFreesEverything
INVARIANT OrderComesLast
PROPERTY KeepsPromise
CHECK_DEADLOCK FALSE
