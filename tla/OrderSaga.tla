------------------------------ MODULE OrderSaga ------------------------------
(***************************************************************************)
(* The sagas the gateway composes and DTM runs for it.                     *)
(*                                                                         *)
(* The gateway decides the list of steps (createPowerRentalOrder,          *)
(* updatePowerRentalOrder, createFeeOrders, updateFeeOrder and the With... *)
(* functions they call).  DTM calls them one after the other, each with    *)
(* replies that may be lost, and when one fails or TimeoutToFail passes it *)
(* calls the compensations of every step it tried, the last one first,     *)
(* until they succeed.  A step with "" as compensation is left as it is.   *)
(***************************************************************************)
EXTENDS Integers, Sequences

CONSTANTS
    Users,        \* users who earned commissions on the order
    NoUser,
    Sagas,        \* the sagas asked for, of the shapes below
    MaxLost,      \* bound: messages lost between DTM and the middlewares
    WaitMayEnd    \* the handler may answer before the saga has ended

VARIABLES
    shape,     \* which saga: the flow and what the request pays with
    phase,     \* "acting", "undoing", "committed", "aborted"
    at,        \* the step DTM is at
    tried,     \* whether step at was sent
    done,      \* steps whose effect stands in a middleware
    lost,      \* messages lost so far
    answer     \* what the handler told its caller

vars == <<shape, phase, at, tried, done, lost, answer>>

-----------------------------------------------------------------------------
\* The step lists.

Flows == {"createPowerRental", "updatePowerRental", "createFees", "updateFee"}

\* A request: its flow, whether the order is simulated (only on creation of a
\* power rental), whether balances are paid with, whether a transfer account
\* was acquired, and the users whose commissions a cancellation claws back, in
\* the order the map iteration happened to produce.
Shapes == [flow : Flows, simulate : BOOLEAN, balances : BOOLEAN, account : BOOLEAN,
           users : Seq(Users)]

ASSUME SagaAssumption == Sagas \subseteq Shapes /\ MaxLost \in Nat /\ WaitMayEnd \in BOOLEAN

StepOf(kind, user) == [kind |-> kind, user |-> user]

WithLockBalances(s) == IF s.balances THEN <<StepOf("LockBalances", NoUser)>> ELSE <<>>
WithLockPaymentTransferAccount(s) == IF s.account THEN <<StepOf("LockAccount", NoUser)>> ELSE <<>>
WithLockStock(s) == <<StepOf("LockStock", NoUser)>>
WithOrder(s) == <<StepOf("WriteOrder", NoUser)>>

WithCommissions(s) ==
    IF s.users = <<>> THEN <<>>
    ELSE <<StepOf("CreateOrderLocks", NoUser)>>
             \o [i \in 1..Len(s.users) |-> StepOf("LockCommission", s.users[i])]

PaymentSteps(s) == WithLockBalances(s) \o WithLockPaymentTransferAccount(s)

CreatePowerRentalSteps(s) ==
    (IF s.simulate THEN <<>> ELSE WithLockStock(s) \o PaymentSteps(s)) \o WithOrder(s)
\* Slip: the fee orders are created ahead of the payment's locks.
CreateFeesSteps_OrderFirst(s) == WithOrder(s) \o PaymentSteps(s)
CreateFeesSteps(s) == PaymentSteps(s) \o WithOrder(s)
UpdateSteps(s) == WithCommissions(s) \o PaymentSteps(s) \o WithOrder(s)

SagaSteps(s) ==
    CASE s.flow = "createPowerRental" -> CreatePowerRentalSteps(s)
      [] s.flow = "createFees"        -> CreateFeesSteps(s)
      [] OTHER                        -> UpdateSteps(s)

Steps == SagaSteps(shape)
Last  == Len(Steps)

IsOrder(i) == Steps[i].kind = "WriteOrder"

\* CreateFeeOrders is undone by DeleteFeeOrders; the order step of every other
\* flow is added with "" as its compensation.
OrderUndone(s) == s.flow = "createFees"
\* Slip: LockAccount added with "" to undo it.
Undone_NotAccount(i) == Steps[i].kind # "LockAccount" /\ (IsOrder(i) => OrderUndone(shape))

\* Slip: CreateFeeOrders added with "" to undo it, as the order steps of the
\* other flows are.
Undone_NotOrder(i) == ~IsOrder(i)

\* What a step has done can be undone.
Undone(i) == IsOrder(i) => OrderUndone(shape)

\* The order change stands in order-middleware.
OrderStands == \E i \in done : IsOrder(i)

-----------------------------------------------------------------------------
\* DTM.

Init ==
    /\ shape \in Sagas
    /\ phase = "acting"
    /\ at = 1
    /\ tried = FALSE
    /\ done = {}
    /\ lost = 0
    /\ answer = "none"

\* The step is executed and DTM hears of it.  A step sent again after its reply
\* was lost is executed once only: every payload carries the IDs it works on.
Execute ==
    /\ phase = "acting"
    /\ done' = done \cup {at}
    /\ tried' = FALSE
    /\ IF at = Last THEN phase' = "committed" /\ UNCHANGED at
                    ELSE at' = at + 1 /\ UNCHANGED phase
    /\ UNCHANGED <<shape, lost, answer>>

\* The step is sent and DTM hears nothing within RequestTimeout: it may have
\* been executed, and DTM will send it again.
NoReply ==
    /\ phase = "acting"
    /\ lost < MaxLost
    /\ lost' = lost + 1
    /\ tried' = TRUE
    /\ done' \in {done, done \cup {at}}
    /\ UNCHANGED <<shape, phase, at, answer>>

\* The middleware refuses the step: it has no effect now, though an earlier
\* sending of it may have had one (a duplicate that is refused).
Refuse ==
    /\ phase = "acting"
    /\ phase' = "undoing"
    /\ UNCHANGED <<shape, at, tried, done, lost, answer>>

\* TimeoutToFail: the steps that were tried are undone.
Timeout ==
    /\ phase = "acting"
    /\ phase' = "undoing"
    /\ at' = IF tried THEN at ELSE at - 1
    /\ UNCHANGED <<shape, tried, done, lost, answer>>

Undo ==
    /\ phase = "undoing"
    /\ at > 0
    /\ done' = IF Undone(at) THEN done \ {at} ELSE done
    /\ at' = at - 1
    /\ UNCHANGED <<shape, phase, tried, lost, answer>>

UndoNoReply ==
    /\ phase = "undoing"
    /\ at > 0
    /\ Undone(at)
    /\ lost < MaxLost
    /\ lost' = lost + 1
    /\ done' \in {done, done \ {at}}
    /\ UNCHANGED <<shape, phase, at, tried, answer>>

Abort ==
    /\ phase = "undoing"
    /\ at = 0
    /\ phase' = "aborted"
    /\ UNCHANGED <<shape, at, tried, done, lost, answer>>

-----------------------------------------------------------------------------
\* The handler that waits for the saga (WaitResult).

\* Committed: a create still reads the event and the order back, and fails with
\* an error of its own if it cannot.
AnswerCommitted ==
    /\ answer = "none"
    /\ phase = "committed"
    /\ answer' \in {"ok", "error"}
    /\ UNCHANGED <<shape, phase, at, tried, done, lost>>

AnswerAborted ==
    /\ answer = "none"
    /\ phase = "aborted"
    /\ answer' = "error"
    /\ UNCHANGED <<shape, phase, at, tried, done, lost>>

AnswerEarly ==
    /\ WaitMayEnd
    /\ answer = "none"
    /\ phase \in {"acting", "undoing"}
    /\ answer' = "error"
    /\ UNCHANGED <<shape, phase, at, tried, done, lost>>

-----------------------------------------------------------------------------
RunStep == Execute \/ NoReply \/ Refuse \/ Timeout
RunUndo == Undo \/ UndoNoReply \/ Abort
Answer  == AnswerCommitted \/ AnswerAborted

Next == RunStep \/ RunUndo \/ Answer \/ AnswerEarly

Spec == Init /\ [][Next]_vars

\* DTM keeps calling, and the handler answers once it can.
FairSpec == Spec /\ WF_vars(RunStep) /\ WF_vars(RunUndo) /\ WF_vars(Answer)

-----------------------------------------------------------------------------
\* The values of every variable.
TypeOK ==
    /\ shape \in Sagas
    /\ phase \in {"acting", "undoing", "committed", "aborted"}
    /\ at \in 0..Last
    /\ tried \in BOOLEAN
    /\ done \subseteq 1..Last
    /\ lost \in 0..MaxLost
    /\ answer \in {"none", "ok", "error"}

\* A failed saga leaves no stock, balance, account or commission locked,
\* whichever replies were lost on the way there and back.
AbortFreesEverything == phase = "aborted" => \A i \in done : IsOrder(i)

\* An order change outlives its failed saga only in a flow whose last step has
\* no compensation; fee orders created by a failed saga are always deleted.
StandsOnlyWithoutUndo == phase = "aborted" /\ OrderStands => ~OrderUndone(shape)

\* While a saga goes forward its order is seen only with all its locks taken.
OrderComesLast == phase \in {"acting", "committed"} /\ OrderStands => done = 1..Last

\* The handler says ok only for an order that stands with everything locked.
OkMeansDone == answer = "ok" => phase = "committed" /\ done = 1..Last

-----------------------------------------------------------------------------
\* Refinement: what a caller and the books see of a saga that has ended.
outcome ==
    CASE phase = "committed"                  -> "made"
      [] phase = "aborted" /\ ~OrderStands    -> "refused"
      [] phase = "aborted" /\ OrderStands     -> "standing"
      [] OTHER                                 -> "pending"

Promise == INSTANCE AtomicOrder WITH mayStand <- ~OrderUndone(shape)

\* Creating fee orders is all or nothing; the other flows may leave the order
\* standing without its locks, and nothing worse; every saga is settled and
\* every caller answered.
KeepsPromise == Promise!Spec

=============================================================================
