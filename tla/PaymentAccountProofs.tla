------------------------ MODULE PaymentAccountProofs ------------------------
(***************************************************************************)
(* Proofs about PaymentAccount, for any number of requests and accounts.   *)
(*                                                                         *)
(* TypeOK and HolderInv are inductive together and hold of every instance. *)
(* ExclusiveInv is inductive on top of them when a handler waits for its   *)
(* saga: then the mutex covers the saga's whole life, and the row, once    *)
(* locked, takes over from the mutex, until the order is settled or its    *)
(* own saga gives it away.                                                 *)
(***************************************************************************)
EXTENDS PaymentAccount, TLAPS

\* The steps of Next one by one, so that a proof by cases names an action.
Step ==
    \/ \E r \in Requests :
          \/ ListAccounts(r) \/ PeekEnds(r)
          \/ RecheckAccepts(r) \/ RecheckRejects(r) \/ RecheckErrs(r)
          \/ CreateAccountFails(r) \/ ReadStartAmount(r) \/ Abandon(r) \/ Submit(r)
          \/ SagaReturns(r) \/ Release(r) \/ StopWaiting(r) \/ Crash(r)
          \/ LockRow(r) \/ WriteOrder(r) \/ StepFails(r) \/ DeleteFees(r) \/ UnlockRow(r)
          \/ Deposit(r) \/ Settle(r)
    \/ \E r \in Requests, a \in Accounts :
          LockMutex(r, a) \/ MutexRefused(r, a) \/ CreateAccount(r, a)
    \/ \E a \in Accounts : LateDeposit(a) \/ SetUsable(a) \/ ClearMutex(a)

LEMMA NextIsStep == Next => Step
  BY DEF Next, Step, Handle, Peek, RunSaga, World

BaseInv == TypeOK /\ HolderInv

LEMMA BaseInit == Init => BaseInv
  BY SizesAssumption, SMTT(40)
  DEF Init, BaseInv, TypeOK, HolderInv, Places, SagaStates, OrderStates, Holding

LEMMA BaseStep == BaseInv /\ [Next]_vars => BaseInv'
<1> SUFFICES ASSUME BaseInv, [Next]_vars PROVE BaseInv'
  OBVIOUS
<1> USE SizesAssumption DEF BaseInv, TypeOK, HolderInv, Places, SagaStates, Holding, Running,
        Ended, Eligible, OrderStates, Written, GoTo, Unlock, PeekFails, LeaveScan,
        LeaveAcquire, poolVars, handlerVars, sagaVars
<1>1. CASE UNCHANGED vars
  BY <1>1 DEF vars
<1>2. ASSUME NEW r \in Requests, ListAccounts(r) PROVE BaseInv'
  BY <1>2 DEF ListAccounts
<1>3. ASSUME NEW r \in Requests, PeekEnds(r) PROVE BaseInv'
  BY <1>3 DEF PeekEnds
<1>4. ASSUME NEW r \in Requests, RecheckAccepts(r) PROVE BaseInv'
  BY <1>4 DEF RecheckAccepts
<1>5. ASSUME NEW r \in Requests, RecheckRejects(r) PROVE BaseInv'
  BY <1>5 DEF RecheckRejects
<1>6. ASSUME NEW r \in Requests, RecheckErrs(r) PROVE BaseInv'
  BY <1>6 DEF RecheckErrs
<1>7. ASSUME NEW r \in Requests, CreateAccountFails(r) PROVE BaseInv'
  BY <1>7 DEF CreateAccountFails
<1>8. ASSUME NEW r \in Requests, ReadStartAmount(r) PROVE BaseInv'
  BY <1>8 DEF ReadStartAmount
<1>9. ASSUME NEW r \in Requests, Abandon(r) PROVE BaseInv'
  BY <1>9 DEF Abandon
<1>10. ASSUME NEW r \in Requests, Submit(r) PROVE BaseInv'
  <2>1. transfer' \in [Requests -> BOOLEAN]
    <3>1. CASE transfer' = transfer
      BY <3>1
    <3>2. CASE transfer' = [transfer EXCEPT ![r] = TRUE]
      BY <3>2, Zenon
    <3>3. QED
      BY <1>10, <3>1, <3>2 DEF Submit
  <2>2. /\ saga' \in [Requests -> SagaStates]
        /\ pc' \in [Requests -> Places]
        /\ UNCHANGED <<poolVars, mutex, fresh, made, candidates, held, startAmount, order,
                       paid, stranded>>
    BY <1>10 DEF Submit
  <2>3. TypeOK'
    BY <2>1, <2>2
  <2>4. HolderInv'
    BY <1>10 DEF Submit
  <2>5. QED
    BY <2>3, <2>4
<1>11. ASSUME NEW r \in Requests, SagaReturns(r) PROVE BaseInv'
  BY <1>11 DEF SagaReturns
<1>12. ASSUME NEW r \in Requests, Release(r) PROVE BaseInv'
  BY <1>12 DEF Release
<1>13. ASSUME NEW r \in Requests, StopWaiting(r) PROVE BaseInv'
  BY <1>13 DEF StopWaiting
<1>14. ASSUME NEW r \in Requests, Crash(r) PROVE BaseInv'
  BY <1>14 DEF Crash
<1>15. ASSUME NEW r \in Requests, LockRow(r) PROVE BaseInv'
  BY <1>15 DEF LockRow
<1>16. ASSUME NEW r \in Requests, WriteOrder(r) PROVE BaseInv'
  BY <1>16 DEF WriteOrder
<1>17. ASSUME NEW r \in Requests, StepFails(r) PROVE BaseInv'
  BY <1>17 DEF StepFails
<1>18. ASSUME NEW r \in Requests, UnlockRow(r) PROVE BaseInv'
  BY <1>18 DEF UnlockRow
<1>19. ASSUME NEW r \in Requests, Deposit(r) PROVE BaseInv'
  BY <1>19 DEF Deposit
<1>20. ASSUME NEW r \in Requests, Settle(r) PROVE BaseInv'
  BY <1>20 DEF Settle
<1>21. ASSUME NEW r \in Requests, NEW a \in Accounts, LockMutex(r, a) PROVE BaseInv'
  BY <1>21 DEF LockMutex
<1>22. ASSUME NEW r \in Requests, NEW a \in Accounts, MutexRefused(r, a) PROVE BaseInv'
  BY <1>22 DEF MutexRefused
<1>23. ASSUME NEW r \in Requests, NEW a \in Accounts, CreateAccount(r, a) PROVE BaseInv'
  BY <1>23 DEF CreateAccount
<1>24. ASSUME NEW a \in Accounts, LateDeposit(a) PROVE BaseInv'
  BY <1>24 DEF LateDeposit
<1>25. ASSUME NEW a \in Accounts, SetUsable(a) PROVE BaseInv'
  BY <1>25 DEF SetUsable
<1>26. ASSUME NEW a \in Accounts, ClearMutex(a) PROVE BaseInv'
  BY <1>26 DEF ClearMutex
<1>27. ASSUME NEW r \in Requests, DeleteFees(r) PROVE BaseInv'
  BY <1>27 DEF DeleteFees
<1>28. QED
  BY <1>1, <1>2, <1>3, <1>4, <1>5, <1>6, <1>7, <1>8, <1>9, <1>10, <1>11, <1>12, <1>13,
     <1>14, <1>15, <1>16, <1>17, <1>18, <1>19, <1>20, <1>21, <1>22, <1>23, <1>24, <1>25,
     <1>26, <1>27, NextIsStep DEF Step

\* Every variable keeps to its values, and every account a request or a saga
\* works on is a row of the table (peekExistPaymentAccount lists rows only).
THEOREM TypeCorrect == Spec => []TypeOK
<1>1. BaseInv => TypeOK
  BY DEF BaseInv
<1>2. QED
  BY BaseInit, BaseStep, <1>1, PTL DEF Spec

\* Two handlers never hold one account, with crashes, failing unlocks and
\* handlers that stop waiting (accountlock.Lock and Release of op.go).
THEOREM HolderExclusion == Spec => []OneHolderPerAccount
<1>1. BaseInv => OneHolderPerAccount
  BY DEF BaseInv, TypeOK, HolderInv, OneHolderPerAccount
<1>2. QED
  BY BaseInit, BaseStep, <1>1, PTL DEF Spec

-----------------------------------------------------------------------------
AllInv == BaseInv /\ ExclusiveInv

LEMMA AllInit == Init => AllInv
  BY BaseInit, SizesAssumption
  DEF Init, AllInv, ExclusiveInv, SagaInv, SagasMeetNoOrder, OneOrderPerAccount,
      OpenOrderKeepsRow, CreditedOnlyOwnDeposits, Awaits, Given, Running

LEMMA AllStep == ~WaitMayEnd /\ AllInv /\ [Next]_vars => ExclusiveInv'
<1> SUFFICES ASSUME ~WaitMayEnd, AllInv, [Next]_vars PROVE ExclusiveInv'
  OBVIOUS
<1> USE SizesAssumption DEF AllInv, BaseInv, TypeOK, HolderInv, ExclusiveInv, SagaInv,
        SagasMeetNoOrder, OneOrderPerAccount, OpenOrderKeepsRow, CreditedOnlyOwnDeposits,
        Awaits, Given, Places, SagaStates, OrderStates, Written, Holding, Running, Ended,
        Eligible, GoTo, Unlock, PeekFails, LeaveScan, LeaveAcquire, poolVars, handlerVars, sagaVars
<1>1. CASE UNCHANGED vars
  BY <1>1 DEF vars
<1>2. ASSUME NEW r \in Requests, ListAccounts(r) PROVE ExclusiveInv'
  BY <1>2 DEF ListAccounts
<1>3. ASSUME NEW r \in Requests, PeekEnds(r) PROVE ExclusiveInv'
  BY <1>3 DEF PeekEnds
<1>4. ASSUME NEW r \in Requests, RecheckAccepts(r) PROVE ExclusiveInv'
  BY <1>4 DEF RecheckAccepts
<1>5. ASSUME NEW r \in Requests, RecheckRejects(r) PROVE ExclusiveInv'
  BY <1>5 DEF RecheckRejects
<1>6. ASSUME NEW r \in Requests, RecheckErrs(r) PROVE ExclusiveInv'
  BY <1>6 DEF RecheckErrs
<1>7. ASSUME NEW r \in Requests, CreateAccountFails(r) PROVE ExclusiveInv'
  BY <1>7 DEF CreateAccountFails
<1>8. ASSUME NEW r \in Requests, ReadStartAmount(r) PROVE ExclusiveInv'
  BY <1>8 DEF ReadStartAmount
<1>9. ASSUME NEW r \in Requests, Abandon(r) PROVE ExclusiveInv'
  BY <1>9 DEF Abandon
<1>10. ASSUME NEW r \in Requests, Submit(r) PROVE ExclusiveInv'
  <2>1. /\ pc[r] = "build"
        /\ saga' = [saga EXCEPT ![r] = "submitted"]
        /\ pc' = [pc EXCEPT ![r] = "wait"]
        /\ UNCHANGED <<poolVars, mutex, held, startAmount, order, paid, stranded>>
    BY <1>10 DEF Submit
  <2>2. \A q \in Requests : q # r => transfer'[q] = transfer[q]
    BY <1>10 DEF Submit
  \* an order that is not written yet awaits nothing
  <2>3. saga[r] = "none" /\ order[r] = "none"
    BY <2>1
  <2>4. \A q \in Requests : Awaits(q)' <=> Awaits(q)
    BY <2>1, <2>2, <2>3
  <2> HIDE DEF Awaits
  <2>5. SagaInv'
    BY <2>1, <2>3, <2>4
  <2>6. OneOrderPerAccount' /\ SagasMeetNoOrder'
    BY <2>1, <2>3, <2>4
  <2>7. OpenOrderKeepsRow' /\ CreditedOnlyOwnDeposits'
    BY <2>1, <2>3, <2>4
  <2>8. QED
    BY <2>5, <2>6, <2>7
<1>11. ASSUME NEW r \in Requests, SagaReturns(r) PROVE ExclusiveInv'
  BY <1>11 DEF SagaReturns
<1>12. ASSUME NEW r \in Requests, Release(r) PROVE ExclusiveInv'
  BY <1>12 DEF Release
<1>13. ASSUME NEW r \in Requests, StopWaiting(r) PROVE ExclusiveInv'
  BY <1>13 DEF StopWaiting
<1>14. ASSUME NEW r \in Requests, Crash(r) PROVE ExclusiveInv'
  BY <1>14 DEF Crash
<1>15. ASSUME NEW r \in Requests, LockRow(r) PROVE ExclusiveInv'
  BY <1>15 DEF LockRow
<1>16. ASSUME NEW r \in Requests, WriteOrder(r) PROVE ExclusiveInv'
  BY <1>16 DEF WriteOrder
<1>17. ASSUME NEW r \in Requests, StepFails(r) PROVE ExclusiveInv'
  BY <1>17 DEF StepFails
<1>18. ASSUME NEW r \in Requests, UnlockRow(r) PROVE ExclusiveInv'
  BY <1>18 DEF UnlockRow
<1>19. ASSUME NEW r \in Requests, Deposit(r) PROVE ExclusiveInv'
  <2>1. /\ Awaits(r)
        /\ funds' = [funds EXCEPT ![held[r]] = @ + 1]
        /\ paid' = [paid EXCEPT ![r] = @ + 1]
        /\ UNCHANGED <<known, locked, usable, mutex, handlerVars, saga, order, stranded>>
        /\ held[r] \in Accounts
    BY <1>19 DEF Deposit
  \* whoever is about to read or has read the balance works on another account
  <2>2. ASSUME NEW q \in Requests, ~Given(held[q]),
               pc[q] = "build" \/ (saga[q] \in Running /\ order[q] = "none")
        PROVE  held[q] # held[r]
    BY <2>1, <2>2
  <2>3. SagaInv'
    BY <2>1, <2>2
  <2>4. CreditedOnlyOwnDeposits'
    <3> SUFFICES ASSUME NEW q \in Requests, Awaits(q), ~Given(held[q])
                 PROVE  funds'[held[q]] = startAmount[q] + paid'[q]
      BY <2>1
    <3>1. CASE q = r
      BY <2>1, <3>1
    <3>2. CASE q # r
      <4>1. held[q] # held[r]
        BY <2>1, <3>2
      <4>2. QED
        BY <2>1, <3>2, <4>1
    <3>3. QED
      BY <3>1, <3>2
  <2>5. SagasMeetNoOrder'
    BY <2>1
  <2>6. OneOrderPerAccount'
    BY <2>1
  <2>7. OpenOrderKeepsRow'
    BY <2>1
  <2>8. QED
    BY <2>3, <2>4, <2>5, <2>6, <2>7
<1>20. ASSUME NEW r \in Requests, Settle(r) PROVE ExclusiveInv'
  BY <1>20 DEF Settle
<1>21. ASSUME NEW r \in Requests, NEW a \in Accounts, LockMutex(r, a) PROVE ExclusiveInv'
  BY <1>21 DEF LockMutex
<1>22. ASSUME NEW r \in Requests, NEW a \in Accounts, MutexRefused(r, a) PROVE ExclusiveInv'
  BY <1>22 DEF MutexRefused
<1>23. ASSUME NEW r \in Requests, NEW a \in Accounts, CreateAccount(r, a) PROVE ExclusiveInv'
  BY <1>23 DEF CreateAccount
<1>24. ASSUME NEW a \in Accounts, LateDeposit(a) PROVE ExclusiveInv'
  BY <1>24 DEF LateDeposit
<1>25. ASSUME NEW a \in Accounts, SetUsable(a) PROVE ExclusiveInv'
  BY <1>25 DEF SetUsable
<1>26. ASSUME NEW a \in Accounts, ClearMutex(a) PROVE ExclusiveInv'
  BY <1>26 DEF ClearMutex
<1>27. ASSUME NEW r \in Requests, DeleteFees(r) PROVE ExclusiveInv'
  BY <1>27 DEF DeleteFees
<1> HIDE SizesAssumption DEF AllInv, ExclusiveInv, HolderInv, TypeOK
<1>28. QED
  BY <1>1, <1>2, <1>3, <1>4, <1>5, <1>6, <1>7, <1>8, <1>9, <1>10, <1>11, <1>12, <1>13,
     <1>14, <1>15, <1>16, <1>17, <1>18, <1>19, <1>20, <1>21, <1>22, <1>23, <1>24, <1>25,
     <1>26, <1>27, NextIsStep DEF Step

\* As long as handlers wait for their sagas, two open orders share an address
\* only if one was left standing there by its own undone saga: crashes, failing
\* unlocks, lost answers, refused and undone sagas of others never bring it about.
THEOREM AccountExclusion ==
  ASSUME ~WaitMayEnd
  PROVE  Spec => []OneOrderPerAccount
<1>1. AllInv /\ [Next]_vars => AllInv'
  BY AllStep, BaseStep DEF AllInv
<1>2. AllInv => OneOrderPerAccount
  BY DEF AllInv, ExclusiveInv
<1>3. QED
  BY AllInit, <1>1, <1>2, PTL DEF Spec

\* ... the row of an open order is freed by no saga but its own, undone after
\* the order step took effect, and never where fee orders are created,
THEOREM RowKept ==
  ASSUME ~WaitMayEnd
  PROVE  Spec => []OpenOrderKeepsRow
<1>1. AllInv /\ [Next]_vars => AllInv'
  BY AllStep, BaseStep DEF AllInv
<1>2. AllInv => OpenOrderKeepsRow
  BY DEF AllInv, ExclusiveInv
<1>3. QED
  BY AllInit, <1>1, <1>2, PTL DEF Spec

\* ... and the difference to StartAmount is what the order's customer paid, on
\* every address that was not given away under an order that stands.
THEOREM CreditExact ==
  ASSUME ~WaitMayEnd
  PROVE  Spec => []CreditedOnlyOwnDeposits
<1>1. AllInv /\ [Next]_vars => AllInv'
  BY AllStep, BaseStep DEF AllInv
<1>2. AllInv => CreditedOnlyOwnDeposits
  BY DEF AllInv, ExclusiveInv
<1>3. QED
  BY AllInit, <1>1, <1>2, PTL DEF Spec

-----------------------------------------------------------------------------
\* No locked row outlives the sagas and orders it was locked for, waiting or
\* not, but for the orders that do not name it (the compensation of
\* WithLockPaymentTransferAccount and the scheduler).
THEOREM NoRowLeaks == Spec => []LockedRowHasUser
<1>1. Init => LockedRowHasUser
  BY DEF Init, LockedRowHasUser
<1>2. BaseInv /\ LockedRowHasUser /\ [Next]_vars => LockedRowHasUser'
  <2> SUFFICES ASSUME BaseInv, LockedRowHasUser, [Next]_vars,
                      NEW b \in locked'
               PROVE  \E r \in Requests : held'[r] = b /\ Keeps(r)'
    BY DEF LockedRowHasUser
  <2> DEFINE User(q) == held[q] = b /\ Keeps(q)
             UserNext(q) == held'[q] = b /\ Keeps(q)'
  <2> USE SizesAssumption DEF Keeps, BaseInv, TypeOK, HolderInv, SagaStates, OrderStates,
        Written, Holding, Places, LeaveScan, LeaveAcquire
  <2>1. CASE b \notin locked
    \* only LockAccount locks a row, and its saga is the user
    BY <2>1, NextIsStep
    DEF vars, poolVars, handlerVars, sagaVars, Step, ListAccounts, PeekEnds, RecheckAccepts,
        RecheckRejects, RecheckErrs, CreateAccountFails, ReadStartAmount, Abandon, Submit,
        SagaReturns, Release, StopWaiting, Crash, LockRow, WriteOrder, StepFails, DeleteFees,
        UnlockRow, Deposit, Settle, LockMutex, MutexRefused, CreateAccount, LateDeposit, SetUsable,
        ClearMutex
  <2>2. CASE b \in locked
    <3>1. PICK q \in Requests : User(q)
      BY <2>2 DEF LockedRowHasUser
    \* the user keeps the account and stays its user, or frees the row
    <3>2. ASSUME RunSaga(q) \/ Settle(q) PROVE UserNext(q)
      BY <3>1, <3>2
      DEF poolVars, handlerVars, RunSaga, LockRow, WriteOrder, StepFails, DeleteFees,
          UnlockRow, Settle
    <3>3. ASSUME ~RunSaga(q), ~Settle(q) PROVE UserNext(q)
      BY <3>1, <3>3, NextIsStep
      DEF vars, poolVars, handlerVars, sagaVars, GoTo, Step, ListAccounts, PeekEnds,
          PeekFails, RecheckAccepts, RecheckRejects, RecheckErrs, CreateAccountFails,
          ReadStartAmount, Abandon, Submit, SagaReturns, Release, StopWaiting, Crash,
          RunSaga, LockRow, WriteOrder, StepFails, DeleteFees, UnlockRow, Deposit, Settle,
          LockMutex, MutexRefused, CreateAccount, LateDeposit, SetUsable, ClearMutex
    <3>4. QED
      BY <3>2, <3>3
  <2>3. QED
    BY <2>1, <2>2
<1>3. QED
  BY BaseInit, BaseStep, <1>1, <1>2, PTL DEF Spec

=============================================================================
