SPECIFICATION Spec
CONSTANTS
    u1 = u1
    u2 = u2
    u3 = u3
    Updates <- MCUpdates
    Asks <- LockAsks
    Orders <- LockOrders
    NoUpdate = NoUpdate
    Interval = 6
    Margin = 2
    Distribution = 1
    Delay = 1
    StartTime = 8
    EndTime = 8
SYMMETRY UpdateSymmetry
INVARIANT LocksAreTheOrders
INVARIANT OneClawback
CHECK_DEADLOCK FALSE
