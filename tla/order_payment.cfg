SPECIFICATION Spec
CONSTANTS
    c1 = c1
    c2 = c2
    c3 = c3
    Coins <- MCCoins
    NoCoin = NoCoin
    Price <- MCPrice
    NoTransfer = NoTransfer
    Coupons <- MCCoupons
    Asks <- MCAsks
INVARIANT PaysTheAmount
INVARIANT SumIsTheAmount
INVARIANT ChargesWhatWasOffered
INVARIANT LocksMatchOrder
CHECK_DEADLOCK FALSE
