--------------------------- MODULE PaymentAccount ---------------------------
(***************************************************************************)
(* How requests that pay by transfer share the pool of deposit accounts.   *)
(*                                                                         *)
(* Every request that names a transfer coin (create or update, of a power  *)
(* rental or of a fee) runs the same protocol of pkg/order/common/op.go:   *)
(* list eligible accounts, take the redis mutex of one of them, recheck    *)
(* its row, read the chain balance it starts from, submit a saga that      *)
(* locks the row and writes the order, wait, and give the mutex back.  The *)
(* saga is DTM's and outlives the handler; module OrderSaga opens it up,   *)
(* here it is the two steps that touch the account.  The order step has no *)
(* compensation but where fee orders are created: if the saga is undone    *)
(* after it has taken effect, the order stands and its account is given    *)
(* back (stranded).  The rows live in account-middleware, the balances on  *)
(* chain, the orders in order-middleware: what they do is taken from how   *)
(* the gateway uses them.                                                  *)
(***************************************************************************)
EXTENDS Integers, FiniteSets

CONSTANTS
    Requests,      \* gateway requests that name a transfer coin
    FeeCreations,  \* those that create fee orders, which a saga can undo
    Accounts,      \* every address the coin's wallet can ever hand out
    Initial,       \* the accounts that exist before any request
    NoRequest,     \* nobody holds the mutex
    NoAccount,     \* PaymentTransferAccount = nil
    ListLimit,     \* rows asked for by one listing (5 in the code)
    NewBatch,      \* accounts made when none could be taken (5 in the code)
    MaxFunds,      \* bound: deposits an account can receive
    WaitMayEnd,    \* the handler may stop waiting before the saga has ended
    FaultsHappen   \* crashes, redis errors and unlocks that fail silently

ASSUME SizesAssumption ==
    /\ FeeCreations \subseteq Requests
    /\ Initial \subseteq Accounts
    /\ NoRequest \notin Requests
    /\ NoAccount \notin Accounts
    /\ ListLimit \in Nat
    /\ NewBatch \in Nat \ {0}
    /\ MaxFunds \in Nat

ASSUME SwitchesAssumption == WaitMayEnd \in BOOLEAN /\ FaultsHappen \in BOOLEAN

VARIABLES
    \* other services
    known,        \* rows of the payment account table
    locked,       \* rows with Locked = TRUE
    usable,       \* rows Active, not Blocked and past AvailableAt
    funds,        \* chain balance of each address
    \* redis
    mutex,        \* who holds accountlock.Lock(account)
    \* the handler of each request
    pc, fresh, made, candidates, held, startAmount,
    transfer,     \* PaymentTransferReq # nil: the order names the account
    \* DTM and the order it writes
    saga, order, paid,
    stranded      \* history: orders whose own saga gave back the account they name

poolVars    == <<known, locked, usable, funds>>
handlerVars == <<pc, fresh, made, candidates, held, startAmount, transfer>>
sagaVars    == <<saga, order, paid, stranded>>
vars        == <<poolVars, mutex, handlerVars, sagaVars>>

Eligible == (known \ locked) \cap usable

\* Where a handler is.  "start" and "build" lie between taking the account
\* and submitting the saga; "release" is the deferred call.
Places == {"list", "scan", "recheck", "create", "start", "build", "wait",
           "release", "done", "crashed"}
SagaStates == {"none", "submitted", "locked", "undoing", "committed", "aborted"}
Running    == {"submitted", "locked", "undoing"}
Ended      == {"committed", "aborted"}
OrderStates == {"none", "open", "closed", "deleted"}

Init ==
    /\ known = Initial
    /\ locked = {}
    /\ usable = Initial
    /\ funds = [a \in Accounts |-> 0]
    /\ mutex = [a \in Accounts |-> NoRequest]
    /\ pc = [r \in Requests |-> "list"]
    /\ fresh = {}
    /\ made = [r \in Requests |-> 0]
    /\ candidates = [r \in Requests |-> {}]
    /\ held = [r \in Requests |-> NoAccount]
    /\ startAmount = [r \in Requests |-> 0]
    /\ transfer = [r \in Requests |-> FALSE]
    /\ saga = [r \in Requests |-> "none"]
    /\ order = [r \in Requests |-> "none"]
    /\ paid = [r \in Requests |-> 0]
    /\ stranded = {}

-----------------------------------------------------------------------------
\* The handler: AcquirePaymentTransferAccount.

GoTo(r, place) == pc' = [pc EXCEPT ![r] = place]

\* What a call keeps for itself is gone with it: the list of one round, and
\* the rounds and new accounts of the whole.
LeaveScan(r) == candidates' = [candidates EXCEPT ![r] = {}]
LeaveAcquire(r) ==
    /\ LeaveScan(r)
    /\ fresh' = fresh \ {r}
    /\ made' = [made EXCEPT ![r] = 0]

\* accountlock.Unlock: the code drops its error, so a failing call leaves the
\* mutex as it is and nobody notices.
Unlock(a) ==
    \/ mutex' = [mutex EXCEPT ![a] = NoRequest]
    \/ FaultsHappen /\ mutex' = mutex

\* Slip: peekNewPaymentAccount is tried again for ever.
PeekFails_Forever(r) ==
    /\ fresh' = fresh \cup {r}
    /\ GoTo(r, IF r \in fresh THEN "list" ELSE "create")

\* peekExistPaymentAccount failed: the first time the handler makes new
\* accounts, the second time the request is over and holds nothing.
PeekFails(r) ==
    /\ fresh' = fresh \cup {r}
    /\ GoTo(r, IF r \in fresh THEN "done" ELSE "create")

ListAccounts(r) ==
    /\ pc[r] = "list"
    /\ \E S \in SUBSET Eligible :
          /\ Cardinality(S) <= ListLimit
          /\ S = Eligible \/ Cardinality(S) = ListLimit
          /\ candidates' = [candidates EXCEPT ![r] = S]
    /\ GoTo(r, "scan")
    /\ UNCHANGED <<poolVars, mutex, fresh, made, held, startAmount, transfer, sagaVars>>

\* GetAccounts fails, or the loop over the listed accounts ends empty-handed.
PeekEnds(r) ==
    /\ \/ pc[r] = "list"
       \/ pc[r] = "scan" /\ candidates[r] = {}
    /\ PeekFails(r)
    /\ UNCHANGED <<poolVars, mutex, made, candidates, held, startAmount, transfer, sagaVars>>

\* Slip: the mutex is set without looking whether it is set.
LockMutex_Blind(r, a) ==
    /\ pc[r] = "scan"
    /\ a \in candidates[r]
    /\ mutex' = [mutex EXCEPT ![a] = r]
    /\ held' = [held EXCEPT ![r] = a]
    /\ candidates' = [candidates EXCEPT ![r] = @ \ {a}]
    /\ GoTo(r, "recheck")
    /\ UNCHANGED <<poolVars, fresh, made, startAmount, transfer, sagaVars>>

LockMutex(r, a) ==
    /\ pc[r] = "scan"
    /\ a \in candidates[r]
    /\ mutex[a] = NoRequest
    /\ mutex' = [mutex EXCEPT ![a] = r]
    /\ held' = [held EXCEPT ![r] = a]
    /\ candidates' = [candidates EXCEPT ![r] = @ \ {a}]
    /\ GoTo(r, "recheck")
    /\ UNCHANGED <<poolVars, fresh, made, startAmount, transfer, sagaVars>>

MutexRefused(r, a) ==
    /\ pc[r] = "scan"
    /\ a \in candidates[r]
    /\ mutex[a] # NoRequest \/ FaultsHappen
    /\ candidates' = [candidates EXCEPT ![r] = @ \ {a}]
    /\ UNCHANGED <<poolVars, mutex, pc, fresh, made, held, startAmount, transfer, sagaVars>>

\* Slip: the row listed earlier is trusted once the mutex is taken.
RecheckAccepts_Stale(r) ==
    /\ pc[r] = "recheck"
    /\ LeaveAcquire(r)
    /\ GoTo(r, "start")
    /\ UNCHANGED <<poolVars, mutex, held, startAmount, transfer, sagaVars>>

RecheckAccepts(r) ==
    /\ pc[r] = "recheck"
    /\ held[r] \in Eligible
    /\ LeaveAcquire(r)
    /\ GoTo(r, "start")
    /\ UNCHANGED <<poolVars, mutex, held, startAmount, transfer, sagaVars>>

RecheckRejects(r) ==
    /\ pc[r] = "recheck"
    /\ held[r] \notin Eligible
    /\ Unlock(held[r])
    /\ held' = [held EXCEPT ![r] = NoAccount]
    /\ GoTo(r, "scan")
    /\ UNCHANGED <<poolVars, fresh, made, candidates, startAmount, transfer, sagaVars>>

RecheckErrs(r) ==
    /\ pc[r] = "recheck"
    /\ Unlock(held[r])
    /\ held' = [held EXCEPT ![r] = NoAccount]
    /\ LeaveScan(r)
    /\ PeekFails(r)
    /\ UNCHANGED <<poolVars, made, startAmount, transfer, sagaVars>>

\* One address asked of sphinx-proxy and stored as a new, free account.
CreateAccount(r, a) ==
    /\ pc[r] = "create"
    /\ a \in Accounts \ known
    /\ known' = known \cup {a}
    /\ usable' = usable \cup {a}
    /\ made' = [made EXCEPT ![r] = @ + 1]
    /\ GoTo(r, IF made[r] + 1 = NewBatch THEN "list" ELSE "create")
    /\ UNCHANGED <<locked, funds, mutex, fresh, candidates, held, startAmount, transfer, sagaVars>>

CreateAccountFails(r) ==
    /\ pc[r] = "create"
    /\ GoTo(r, "done")
    /\ UNCHANGED <<poolVars, mutex, fresh, made, candidates, held, startAmount, transfer, sagaVars>>

-----------------------------------------------------------------------------
\* The handler: from the account to the saga and back.

\* Slip: the balance is read and its amount not kept.
ReadStartAmount_Dropped(r) ==
    /\ pc[r] = "start"
    /\ GoTo(r, "build")
    /\ UNCHANGED <<poolVars, mutex, fresh, made, candidates, held, startAmount, transfer, sagaVars>>

ReadStartAmount(r) ==
    /\ pc[r] = "start"
    /\ startAmount' = [startAmount EXCEPT ![r] = funds[held[r]]]
    /\ GoTo(r, "build")
    /\ UNCHANGED <<poolVars, mutex, fresh, made, candidates, held, transfer, sagaVars>>

\* Slip: an early return ahead of the deferred release.
Abandon_NoDefer(r) ==
    /\ pc[r] \in {"start", "build"}
    /\ GoTo(r, "done")
    /\ UNCHANGED <<poolVars, mutex, fresh, made, candidates, held, startAmount, transfer, sagaVars>>

\* A balance that cannot be read, a request refused while it is built, or a
\* simulated order, whose saga does nothing to the account.
Abandon(r) ==
    /\ pc[r] \in {"start", "build"}
    /\ GoTo(r, "release")
    /\ UNCHANGED <<poolVars, mutex, fresh, made, candidates, held, startAmount, transfer, sagaVars>>

\* Slip: the saga is submitted without WaitResult.
Submit_NoWait(r) ==
    /\ pc[r] = "build"
    /\ transfer' \in {transfer, [transfer EXCEPT ![r] = TRUE]}
    /\ saga' = [saga EXCEPT ![r] = "submitted"]
    /\ GoTo(r, "release")
    /\ UNCHANGED <<poolVars, mutex, fresh, made, candidates, held, startAmount, order, paid, stranded>>

\* The account is locked whether or not anything is left to be transferred:
\* with balances that cover the amount, or an offline or airdrop order, the
\* order carries no transfer and names no account (module OrderPayment).
Submit(r) ==
    /\ pc[r] = "build"
    /\ transfer' \in {transfer, [transfer EXCEPT ![r] = TRUE]}
    /\ saga' = [saga EXCEPT ![r] = "submitted"]
    /\ GoTo(r, "wait")
    /\ UNCHANGED <<poolVars, mutex, fresh, made, candidates, held, startAmount, order, paid, stranded>>

SagaReturns(r) ==
    /\ pc[r] = "wait"
    /\ saga[r] \in Ended
    /\ GoTo(r, "release")
    /\ UNCHANGED <<poolVars, mutex, fresh, made, candidates, held, startAmount, transfer, sagaVars>>

\* The context of the call ends (a client that hangs up) while DTM goes on.
StopWaiting(r) ==
    /\ WaitMayEnd
    /\ pc[r] = "wait"
    /\ saga[r] \in Running
    /\ GoTo(r, "release")
    /\ UNCHANGED <<poolVars, mutex, fresh, made, candidates, held, startAmount, transfer, sagaVars>>

Release(r) ==
    /\ pc[r] = "release"
    /\ Unlock(held[r])
    /\ GoTo(r, "done")
    /\ UNCHANGED <<poolVars, fresh, made, candidates, held, startAmount, transfer, sagaVars>>

Crash(r) ==
    /\ FaultsHappen
    /\ pc[r] \notin {"done", "crashed"}
    /\ LeaveAcquire(r)
    /\ GoTo(r, "crashed")
    /\ UNCHANGED <<poolVars, mutex, held, startAmount, transfer, sagaVars>>

\* A mutex left behind may be cleared (by expiry or by an operator), but never
\* under a saga that still runs: see "assumptions" in the README.
ClearMutex(a) ==
    /\ mutex[a] # NoRequest
    /\ pc[mutex[a]] \in {"done", "crashed"}
    /\ saga[mutex[a]] \notin Running
    /\ mutex' = [mutex EXCEPT ![a] = NoRequest]
    /\ UNCHANGED <<poolVars, handlerVars, sagaVars>>

-----------------------------------------------------------------------------
\* DTM, as far as the account is concerned.

\* LockAccount.  What account-middleware answers for a row that is locked
\* already is not the gateway's to say: it may accept or refuse.  A refused
\* step is compensated like any other that was tried.
LockRow(r) ==
    /\ saga[r] = "submitted"
    /\ locked' = locked \cup {held[r]}
    /\ \/ saga' = [saga EXCEPT ![r] = "locked"]
       \/ held[r] \in locked /\ saga' = [saga EXCEPT ![r] = "undoing"]
    /\ UNCHANGED <<known, usable, funds, mutex, handlerVars, order, paid, stranded>>

\* The order step, whose answer DTM may miss; it is sent again and has its
\* effect once.
WriteOrder(r) ==
    /\ saga[r] = "locked"
    /\ order' = IF order[r] = "none" THEN [order EXCEPT ![r] = "open"] ELSE order
    /\ saga' \in {saga, [saga EXCEPT ![r] = "committed"]}
    /\ UNCHANGED <<poolVars, mutex, handlerVars, paid, stranded>>

\* Before LockAccount is tried (stock or balances refused, or a timeout)
\* nothing of the account is to be undone; once it was tried, with effect or
\* without, UnlockAccount is called.  That a step fails, or TimeoutToFail
\* passes, says nothing of whether the order was written.
StepFails(r) ==
    /\ saga[r] \in {"submitted", "locked"}
    /\ \/ saga' = [saga EXCEPT ![r] = "undoing"]
       \/ saga[r] = "submitted" /\ saga' = [saga EXCEPT ![r] = "aborted"]
    /\ UNCHANGED <<poolVars, mutex, handlerVars, order, paid, stranded>>

\* Slip: WithLockPaymentTransferAccount adds LockAccount with "" to undo it.
UnlockRow_NoCompensation(r) ==
    /\ saga[r] = "undoing"
    /\ saga' = [saga EXCEPT ![r] = "aborted"]
    /\ UNCHANGED <<poolVars, mutex, handlerVars, order, paid, stranded>>

Written(r) == order[r] \in {"open", "closed"}

\* DeleteFeeOrders; the other flows add their order step with "" to undo it.
DeleteFees(r) ==
    /\ saga[r] = "undoing"
    /\ r \in FeeCreations /\ Written(r)
    /\ order' = [order EXCEPT ![r] = "deleted"]
    /\ UNCHANGED <<poolVars, mutex, handlerVars, saga, paid, stranded>>

\* The last step was undone first.  UnlockAccount carries the account's ID and
\* nothing of who locked it, nor whether an order stands that names it.
UnlockRow(r) ==
    /\ saga[r] = "undoing"
    /\ ~(r \in FeeCreations /\ Written(r))
    /\ locked' = locked \ {held[r]}
    /\ saga' = [saga EXCEPT ![r] = "aborted"]
    /\ stranded' = IF order[r] = "open" /\ transfer[r] THEN stranded \cup {r} ELSE stranded
    /\ UNCHANGED <<known, usable, funds, mutex, handlerVars, order, paid>>

-----------------------------------------------------------------------------
\* The world around: customers, the order scheduler, administrators.

Deposit(r) ==
    /\ order[r] = "open" /\ transfer[r]
    /\ funds[held[r]] < MaxFunds /\ paid[r] < MaxFunds
    /\ funds' = [funds EXCEPT ![held[r]] = @ + 1]
    /\ paid' = [paid EXCEPT ![r] = @ + 1]
    /\ UNCHANGED <<known, locked, usable, mutex, handlerVars, saga, order, stranded>>

\* Money for an order that is over, while nobody is using the account.
LateDeposit(a) ==
    /\ a \in known \ locked
    /\ mutex[a] = NoRequest
    /\ funds[a] < MaxFunds
    /\ funds' = [funds EXCEPT ![a] = @ + 1]
    /\ UNCHANGED <<known, locked, usable, mutex, handlerVars, sagaVars>>

\* The order is paid or given up: the account it names goes back to the pool,
\* with or without the money having been collected from it.
Settle(r) ==
    /\ order[r] = "open"
    /\ order' = [order EXCEPT ![r] = "closed"]
    /\ IF transfer[r]
       THEN /\ locked' = locked \ {held[r]}
            /\ \/ funds' = [funds EXCEPT ![held[r]] = 0]
               \/ funds' = funds
       ELSE UNCHANGED <<locked, funds>>
    /\ UNCHANGED <<known, usable, mutex, handlerVars, saga, paid, stranded>>

SetUsable(a) ==
    /\ a \in known
    /\ usable' \in {usable \cup {a}, usable \ {a}}
    /\ UNCHANGED <<known, locked, funds, mutex, handlerVars, sagaVars>>

-----------------------------------------------------------------------------
Peek(r) ==
    \/ ListAccounts(r) \/ PeekEnds(r)
    \/ \E a \in Accounts : LockMutex(r, a) \/ MutexRefused(r, a) \/ CreateAccount(r, a)
    \/ RecheckAccepts(r) \/ RecheckRejects(r) \/ RecheckErrs(r)
    \/ CreateAccountFails(r)

Handle(r) ==
    \/ Peek(r)
    \/ ReadStartAmount(r) \/ Abandon(r) \/ Submit(r)
    \/ SagaReturns(r) \/ Release(r)

RunSaga(r) == LockRow(r) \/ WriteOrder(r) \/ StepFails(r) \/ DeleteFees(r) \/ UnlockRow(r)

World ==
    \/ \E r \in Requests : Deposit(r) \/ Settle(r)
    \/ \E a \in Accounts : LateDeposit(a) \/ SetUsable(a) \/ ClearMutex(a)

Next ==
    \/ \E r \in Requests : Handle(r) \/ RunSaga(r) \/ StopWaiting(r) \/ Crash(r)
    \/ World

Spec == Init /\ [][Next]_vars

\* A handler that can take a step takes one, and DTM keeps driving a saga it
\* accepted until it has ended (it retries; TimeoutToFail ends the rest).
FairSpec == Spec /\ \A r \in Requests : WF_vars(Handle(r)) /\ WF_vars(RunSaga(r))

-----------------------------------------------------------------------------
\* The values of every variable; accounts in use are rows of the table.
TypeOK ==
    /\ known \subseteq Accounts
    /\ locked \subseteq known
    /\ usable \subseteq known
    /\ funds \in [Accounts -> 0..MaxFunds]
    /\ mutex \in [Accounts -> Requests \cup {NoRequest}]
    /\ pc \in [Requests -> Places]
    /\ fresh \subseteq Requests
    /\ made \in [Requests -> 0..NewBatch]
    /\ candidates \in [Requests -> SUBSET known]
    /\ held \in [Requests -> known \cup {NoAccount}]
    /\ startAmount \in [Requests -> 0..MaxFunds]
    /\ transfer \in [Requests -> BOOLEAN]
    /\ saga \in [Requests -> SagaStates]
    /\ order \in [Requests -> OrderStates]
    /\ paid \in [Requests -> 0..MaxFunds]
    /\ stranded \subseteq Requests

Holding == {"recheck", "start", "build", "wait", "release"}

\* Two handlers never work on the same account at once, whatever their sagas,
\* crashes and failing unlocks do (peekExistPaymentAccount, Release).
OneHolderPerAccount ==
    \A r1, r2 \in Requests :
        r1 # r2 /\ pc[r1] \in Holding /\ pc[r2] \in Holding => held[r1] # held[r2]

\* An open order that names its account: its customer pays to that address.
Awaits(r) == order[r] = "open" /\ transfer[r]

\* An order that stands was left without this account by its own saga, which
\* nothing in the gateway prevents or notices.
Given(a) == \E r \in stranded : held[r] = a

\* Two open orders are never paid to the same address: payments are told apart
\* by address, so this is what the mutex, the recheck and the row are for.  The
\* one way to it is an order that stands though its saga was undone.
OneOrderPerAccount ==
    \A r1, r2 \in Requests :
        r1 # r2 /\ Awaits(r1) /\ Awaits(r2) /\ held[r1] = held[r2] => Given(held[r1])

\* The row of an open order stays locked until that order is settled: no other
\* saga's UnlockAccount, which names only the account, ever frees it; its own
\* does, if it is undone after the order was written, and then the order is known
\* as one of these.  Fee orders are deleted before that.
OpenOrderKeepsRow ==
    /\ \A r \in Requests : Awaits(r) => held[r] \in locked \/ Given(held[r])
    /\ \A r \in stranded : saga[r] = "aborted" /\ Written(r) /\ r \notin FeeCreations

\* What came in on the address since the order's StartAmount is exactly what
\* its own customer paid (GetPaymentTransferStartAmount reads it early enough
\* and nobody else's money is counted), unless the address was given away under
\* an order that stands.
CreditedOnlyOwnDeposits ==
    \A r \in Requests :
        Awaits(r) => funds[held[r]] = startAmount[r] + paid[r] \/ Given(held[r])

\* What keeps a row locked: a saga at work on it or come through, until the
\* order it wrote is settled, if that order names the account at all.
Keeps(r) ==
    /\ saga[r] \in {"locked", "undoing", "committed"}
    /\ order[r] = "closed" => ~transfer[r]

\* No row is left locked for nothing, also when sagas failed and handlers died
\* on the way: the only accounts lost to the pool are those of orders that
\* took one and were paid without it.
LockedRowHasUser == \A a \in locked : \E r \in Requests : held[r] = a /\ Keeps(r)

\* Every request ends: the two rounds over finitely many accounts cannot loop,
\* whoever else takes and gives back accounts meanwhile.
RequestsEnd == \A r \in Requests : <>(pc[r] \in {"done", "crashed"})

\* Whoever takes an account's mutex gives it back, on every return path.
MutexesComeBack == \A a \in Accounts : mutex[a] # NoRequest ~> mutex[a] = NoRequest
-----------------------------------------------------------------------------
\* What the proofs carry along.  The first group holds whatever the saga and
\* the waiting do, the second needs a handler that waits for its saga.

HolderInv ==
    \A r \in Requests :
        /\ pc[r] \in Holding => held[r] # NoAccount /\ mutex[held[r]] = r
        /\ saga[r] # "none" => /\ held[r] # NoAccount
                               /\ pc[r] \in {"wait", "release", "done", "crashed"}
        /\ saga[r] = "committed" => Written(r)
        /\ order[r] # "none" => saga[r] \in {"locked", "undoing", "committed", "aborted"}
        /\ order[r] = "deleted" => saga[r] \in {"undoing", "aborted"}
        /\ pc[r] = "create" => made[r] < NewBatch
        /\ pc[r] = "create" => r \in fresh
        /\ pc[r] \in {"list", "scan", "recheck"} /\ r \notin fresh => made[r] = 0

SagaInv ==
    \A r \in Requests :
        /\ saga[r] \in Running => mutex[held[r]] = r /\ pc[r] \in {"wait", "crashed"}
        /\ order[r] = "none" => paid[r] = 0
        /\ ~Given(held[r]) =>
              /\ pc[r] \in {"start", "build"} \/ saga[r] = "submitted" => held[r] \notin locked
              /\ saga[r] = "locked" /\ order[r] # "closed" => held[r] \in locked
              /\ pc[r] = "build" \/ (saga[r] \in Running /\ order[r] = "none") =>
                    startAmount[r] = funds[held[r]]

\* A saga that touches a row meets no open order there but its own.
SagasMeetNoOrder ==
    \A r1, r2 \in Requests :
        r1 # r2 /\ saga[r1] \in {"locked", "undoing"} /\ Awaits(r2) /\ held[r1] = held[r2]
            => Given(held[r1])

ExclusiveInv ==
    /\ SagaInv
    /\ SagasMeetNoOrder
    /\ OneOrderPerAccount
    /\ OpenOrderKeepsRow
    /\ CreditedOnlyOwnDeposits

=============================================================================
