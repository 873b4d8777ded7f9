SPECIFICATION Spec
CONSTANTS
    f1 = f1
    f2 = f2
    f3 = f3
    f4 = f4
    hour = hour
    day = day
    Fees <- MCFees
    Main = Main
    Units <- MCUnits
    Seconds <- MCSeconds
    Fee <- MCFee
    NoDuration = NoDuration
    Wrap = 64
    Asks <- MCAsks
INVARIANT ValuesMatchDurations
INVARIANT TotalIsTheValues
INVARIANT RequiredFeesOrdered
INVARIANT FeesEndInTime
INVARIANT PromotionIsCheapest
CHECK_DEADLOCK FALSE
