SPECIFICATION SpecEither
CONSTANTS
    r1 = r1
    r2 = r2
    c1 = c1
    c2 = c2
    Requests <- MCRequests
    Asks <- MCAsks
    Limits = {0, 2}
    MaxLimit = 2
    Goods <- MCGoods
    MaxAmount = 1
    MaxUnits = 1
    MaxOrders = 2
    MaxWaiting = 6
    NoAsk = NoAsk
    Coins <- MCCoins
    Feeds <- MCFeeds
    CoinOf <- MCCoinOf
    TimedGoods <- MCTimedGoods
    MaxAge = 3
    Lead = 3
    Day = 10
    Delay = 2
    StartTime = 7
    EndTime = 11
SYMMETRY RequestSymmetry
INVARIANT UnpaidBound
INVARIANT UnitsBound
INVARIANT RewardsFollowOrders
INVARIANT PricesAreFresh
INVARIANT WrittenInTime
CHECK_DEADLOCK FALSE
