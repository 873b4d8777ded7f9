SPECIFICATION SpecOne
CONSTANTS
    Replicas = {p1, p2, p3}
    MaxFaults = 3
    a = a
    b = b
    c = c
    d = d
    Rows <- MCRows
    Main <- MCMain
    Limit = 2
    MaxRead = 4
    i1 = i1
    i2 = i2
    n1 = n1
    n2 = n2
    Malformed = Malformed
    NoName = NoName
    Ids <- MCIds
    Names <- MCNames
    Initially <- MCInitially
    Pages <- MCPages
    MaxChanges = 2
INVARIANT OneMigration
INVARIANT MissesAtMostGone
INVARIANT TwiceAtMostCome
INVARIANT AnswerIsOfItsTime
PROPERTY ComesUp
PROPERTY LoopEnds
CHECK_DEADLOCK FALSE
