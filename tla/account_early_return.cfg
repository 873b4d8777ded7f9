SPECIFICATION FairSpec
CONSTANTS
    r1 = r1
    r2 = r2
    a1 = a1
    a2 = a2
    Requests <- MCRequests
    FeeCreations <- FeeRequest
    Accounts <- TwoAccounts
    Initial <- OneOfTwo
    NoRequest = NoRequest
    NoAccount = NoAccount
    ListLimit = 1
    NewBatch = 1
    MaxFunds = 0
    WaitMayEnd = TRUE
    FaultsHappen = FALSE
INVARIANT OneHolderPerAccount
PROPERTY RequestsEnd
PROPERTY MutexesComeBack
CHECK_DEADLOCK FALSE
