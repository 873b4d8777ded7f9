SPECIFICATION Spec
CONSTANTS
    u1 = u1
    u2 = u2
    u3 = u3
    Updates <- OneUpdate
    Asks <- TimedAsks
    Orders <- TimedOrders
    NoUpdate = NoUpdate
    Interval = 10
    Margin = 3
    Distribution = 1
    Delay = 2
    StartTime = 13
    EndTime = 24
INVARIANT CancelRulesKept
PROPERTY CanceledBeforeStart
PROPERTY CancelMissesBenefit
CHECK_DEADLOCK FALSE
