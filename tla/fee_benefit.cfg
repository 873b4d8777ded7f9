SPECIFICATION Spec
CONSTANTS
    u1 = u1
    u2 = u2
    u3 = u3
    Updates <- OneUpdate
    Asks <- TimedAsks
    Orders <- FeeOrders
    NoUpdate = NoUpdate
    Interval = 6
    Margin = 2
    Distribution = 1
    Delay = 1
    StartTime = 8
    EndTime = 15
INVARIANT UpperLayerChecksBenefit
CHECK_DEADLOCK FALSE
