SPECIFICATION Spec
CONSTANTS
    r1 = r1
    r2 = r2
    a1 = a1
    a2 = a2
    Requests <- MCRequests
    FeeCreations <- FeeRequest
    Accounts <- TwoAccounts
    Initial <- OneOfTwo
    NoRequest = NoRequest
    NoAccount = NoAccount
    ListLimit = 2
    NewBatch = 1
    MaxFunds = 1
    WaitMayEnd = FALSE
    FaultsHappen = TRUE
INVARIANT OneOrderPerAccount
INVARIANT OpenOrderKeepsRow
INVARIANT CreditedOnlyOwnDeposits
INVARIANT LockedRowHasUser
CHECK_DEADLOCK FALSE
