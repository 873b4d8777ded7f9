--------------------------- MODULE OrderSagaProofs ---------------------------
(***************************************************************************)
(* Proofs about OrderSaga, for any shape of saga and any number of users   *)
(* and lost messages.  The strengthening says which steps stand for where  *)
(* DTM is: going forward, everything before the cursor and perhaps the     *)
(* cursor itself; going back, nothing beyond the cursor but an order that  *)
(* has no compensation.                                                    *)
(***************************************************************************)
EXTENDS OrderSaga, SequenceTheorems, TLAPS

\* Every saga has steps, exactly the last one of which writes the order.
LEMMA ShapeOfSteps ==
  ASSUME NEW s \in Shapes
  PROVE  /\ Len(SagaSteps(s)) \in Nat \ {0}
         /\ \A i \in 1..Len(SagaSteps(s)) :
               SagaSteps(s)[i].kind = "WriteOrder" <=> i = Len(SagaSteps(s))
<1> DEFINE Kinds == {"LockStock", "LockBalances", "LockAccount", "CreateOrderLocks",
                     "LockCommission", "WriteOrder"}
           Step == [kind : Kinds, user : Users \cup {NoUser}]
           Locks(q) == q \in Seq(Step) /\ \A i \in 1..Len(q) : q[i].kind # "WriteOrder"
<1>1. WithOrder(s) \in Seq(Step) /\ Len(WithOrder(s)) = 1 /\ WithOrder(s)[1].kind = "WriteOrder"
  BY DEF WithOrder, StepOf
<1>2. ASSUME NEW p, NEW q, Locks(p), Locks(q) PROVE Locks(p \o q)
  BY <1>2
<1>3. ASSUME NEW p, Locks(p)
      PROVE  /\ Len(p \o WithOrder(s)) \in Nat \ {0}
             /\ \A i \in 1..Len(p \o WithOrder(s)) :
                   (p \o WithOrder(s))[i].kind = "WriteOrder" <=> i = Len(p \o WithOrder(s))
  <2> DEFINE o == WithOrder(s)
             n == Len(p) + 1
  <2>1. p \in Seq(Step) /\ o \in Seq(Step) /\ Len(o) = 1 /\ o[1].kind = "WriteOrder"
    BY <1>1, <1>3
  <2>2. \A i \in 1..Len(p) : p[i].kind # "WriteOrder"
    BY <1>3
  <2> HIDE DEF o, Step
  <2> HIDE DEF n
  <2>3. Len(p) \in Nat /\ n \in Nat \ {0} /\ n = Len(p) + 1
    <3>1. Len(p) \in Nat
      BY <2>1, LenProperties
    <3>2. QED
      BY <3>1 DEF n
  <2>3a. Len(p \o o) = Len(p) + Len(o)
    BY <2>1, ConcatProperties
  <2>3b. Len(p \o o) = n
    BY <2>1, <2>3, <2>3a
  <2>4. \A i \in 1..Len(p) : (p \o o)[i] = p[i]
    BY <2>1, ConcatProperties
  <2>5. (p \o o)[n] = o[1]
    <3>1. (p \o o)[n] = o[n - Len(p)]
      BY <2>1, <2>3, <2>3a, <2>3b, ConcatProperties
    <3>2. QED
      BY <3>1, <2>3
  <2>6. \A i \in 1..n : (p \o o)[i].kind = "WriteOrder" <=> i = n
    <3> TAKE i \in 1..n
    <3>1. CASE i = n
      BY <3>1, <2>1, <2>5
    <3>2. CASE i # n
      <4>1. i \in 1..Len(p)
        BY <3>2, <2>3
      <4>2. QED
        BY <4>1, <3>2, <2>2, <2>4
    <3>3. QED
      BY <3>1, <3>2
  <2>7. QED
    BY <2>3, <2>3b, <2>6 DEF o
<1>4. Locks(<<>>) /\ Locks(WithLockStock(s)) /\ Locks(WithLockBalances(s))
        /\ Locks(WithLockPaymentTransferAccount(s))
  <2>1. Locks(<<>>)
    OBVIOUS
  <2>2. Locks(WithLockStock(s))
    BY DEF WithLockStock, StepOf
  <2>3. Locks(<<StepOf("LockBalances", NoUser)>>) /\ Locks(<<StepOf("LockAccount", NoUser)>>)
    BY DEF StepOf
  <2> HIDE DEF Locks
  <2>4. Locks(WithLockBalances(s)) /\ Locks(WithLockPaymentTransferAccount(s))
    BY <2>1, <2>3 DEF WithLockBalances, WithLockPaymentTransferAccount
  <2>5. QED
    BY <2>1, <2>2, <2>4
<1>5. Locks(WithCommissions(s))
  <2> DEFINE claw == [i \in 1..Len(s.users) |-> StepOf("LockCommission", s.users[i])]
  <2>1. s.users \in Seq(Users)
    BY DEF Shapes
  <2>2. Locks(claw)
    BY <2>1 DEF StepOf
  <2>3. Locks(<<StepOf("CreateOrderLocks", NoUser)>>)
    BY DEF StepOf
  <2>4. Locks(<<StepOf("CreateOrderLocks", NoUser)>> \o claw)
    BY <2>2, <2>3, <1>2
  <2>5. QED
    BY <2>4, <1>4 DEF WithCommissions
<1>6. Locks(PaymentSteps(s))
  BY <1>2, <1>4 DEF PaymentSteps
<1>7. Locks(WithLockStock(s) \o PaymentSteps(s)) /\ Locks(WithCommissions(s) \o PaymentSteps(s))
  BY <1>2, <1>4, <1>5, <1>6
<1>8. \E p : Locks(p) /\ SagaSteps(s) = p \o WithOrder(s)
  <2> HIDE DEF Locks
  <2>1. CASE s.flow = "createPowerRental" /\ s.simulate
    BY <2>1, <1>4 DEF SagaSteps, CreatePowerRentalSteps
  <2>2. CASE s.flow = "createPowerRental" /\ ~s.simulate
    BY <2>2, <1>7 DEF SagaSteps, CreatePowerRentalSteps
  <2>3. CASE s.flow = "createFees"
    BY <2>3, <1>6 DEF SagaSteps, CreateFeesSteps
  <2>4. CASE s.flow \notin {"createPowerRental", "createFees"}
    BY <2>4, <1>7 DEF SagaSteps, UpdateSteps
  <2>5. QED
    BY <2>1, <2>2, <2>3, <2>4
<1>9. QED
  BY <1>3, <1>8

-----------------------------------------------------------------------------
\* The invariants of the module hold of every state.
StepInv ==
    /\ TypeOK
    /\ phase = "acting" => /\ at \in 1..Last
                           /\ 1..(at - 1) \subseteq done
                           /\ done \subseteq 1..at
                           /\ ~tried => at \notin done
    /\ phase = "undoing" => \A i \in done : i <= at \/ (IsOrder(i) /\ ~OrderUndone(shape))
    /\ phase = "committed" => done = 1..Last
    /\ phase = "aborted" => \A i \in done : IsOrder(i) /\ ~OrderUndone(shape)
    /\ answer = "ok" => phase = "committed"

LEMMA StepInvInit == Init => StepInv
<1> SUFFICES ASSUME Init PROVE StepInv
  OBVIOUS
<1>1. Last \in Nat \ {0}
  BY ShapeOfSteps, SagaAssumption DEF Init, Last, Steps
<1>2. QED
  <2>1. TypeOK
    <3>1. at \in 0..Last /\ done \subseteq 1..Last
      BY <1>1 DEF Init
    <3>2. shape \in Sagas /\ lost \in 0..MaxLost
      BY SagaAssumption DEF Init
    <3>3. tried \in BOOLEAN /\ phase \in {"acting", "undoing", "committed", "aborted"}
      BY DEF Init
    <3>4. answer \in {"none", "ok", "error"}
      BY DEF Init
    <3>5. QED
      BY <3>1, <3>2, <3>3, <3>4 DEF TypeOK
  <2>2. at \in 1..Last /\ 1..(at - 1) \subseteq done
    BY <1>1 DEF Init
  <2>3. QED
    BY <2>1, <2>2 DEF Init, StepInv

LEMMA StepInvStep == StepInv /\ [Next]_vars => StepInv'
<1> SUFFICES ASSUME StepInv, [Next]_vars PROVE StepInv'
  OBVIOUS
<1>1. Last \in Nat \ {0}
  BY ShapeOfSteps, SagaAssumption DEF StepInv, TypeOK, Last, Steps
<1>2. shape' = shape
  BY DEF Next, RunStep, RunUndo, Answer, Execute, NoReply, Refuse, Timeout, Undo, UndoNoReply,
         Abort, AnswerCommitted, AnswerAborted, AnswerEarly, vars
<1>3. Last' = Last /\ (\A i : IsOrder(i)' <=> IsOrder(i)) /\ OrderUndone(shape)' = OrderUndone(shape)
  BY <1>2 DEF Last, Steps, IsOrder
<1> USE <1>1, <1>2, <1>3, SagaAssumption DEF StepInv, TypeOK
<1>4. CASE UNCHANGED vars
  BY <1>4 DEF vars
<1>5. CASE Execute
  <2>1. CASE at = Last
    <3>1. done' = 1..Last
      <4>1. 1..(Last - 1) \subseteq done /\ done \subseteq 1..Last /\ done' = done \cup {Last}
        BY <1>5, <2>1 DEF Execute
      <4>2. 1..Last = 1..(Last - 1) \cup {Last}
        OBVIOUS
      <4>3. QED
        BY <4>1, <4>2
    <3>2. QED
      BY <1>5, <2>1, <3>1 DEF Execute
  <2>2. CASE at # Last
    <3>1. at' \in 1..Last /\ at' = at + 1 /\ phase' = "acting"
      BY <1>5, <2>2 DEF Execute
    <3>2. 1..(at' - 1) \subseteq done' /\ done' \subseteq 1..at' /\ at' \notin done'
      BY <1>5, <3>1 DEF Execute
    <3>3. TypeOK'
      <4>1. at' \in 0..Last /\ done' \subseteq 1..Last
        BY <3>1, <3>2
      <4>2. shape' \in Sagas /\ lost' \in 0..MaxLost
        BY <1>5 DEF Execute
      <4>3. answer' \in {"none", "ok", "error"}
        BY <1>5 DEF Execute
      <4>4. tried' \in BOOLEAN
        BY <1>5 DEF Execute
      <4>5. QED
        BY <3>1, <4>1, <4>2, <4>3, <4>4
    <3>4. QED
      BY <1>5, <3>1, <3>2, <3>3 DEF Execute
  <2>3. QED
    BY <2>1, <2>2
<1>6. CASE NoReply
  BY <1>6 DEF NoReply
<1>7. CASE Refuse
  BY <1>7 DEF Refuse
<1>8. CASE Timeout
  BY <1>8 DEF Timeout
<1>9. CASE Undo
  BY <1>9 DEF Undo, Undone
<1>10. CASE UndoNoReply
  BY <1>10 DEF UndoNoReply
<1>11. CASE Abort
  BY <1>11 DEF Abort
<1>12. CASE AnswerCommitted
  BY <1>12 DEF AnswerCommitted
<1>13. CASE AnswerAborted
  BY <1>13 DEF AnswerAborted
<1>14. CASE AnswerEarly
  BY <1>14 DEF AnswerEarly
<1>15. QED
  BY <1>4, <1>5, <1>6, <1>7, <1>8, <1>9, <1>10, <1>11, <1>12, <1>13, <1>14
  DEF Next, RunStep, RunUndo, Answer

LEMMA StepInvAlways == Spec => []StepInv
  BY StepInvInit, StepInvStep, PTL DEF Spec

-----------------------------------------------------------------------------
\* DTM's cursor stays within the saga and only steps of the saga are done.
THEOREM TypeCorrect == Spec => []TypeOK
<1>1. StepInv => TypeOK
  BY DEF StepInv
<1>2. QED
  BY <1>1, StepInvAlways, PTL

\* A failed saga frees stock, balances, account and commissions, for any number
\* of commissions and of lost messages (the compensations of WithLock...).
THEOREM Freed == Spec => []AbortFreesEverything
<1>1. StepInv => AbortFreesEverything
  BY DEF StepInv, AbortFreesEverything
<1>2. QED
  BY <1>1, StepInvAlways, PTL

\* Fee orders of a failed saga are deleted (withCreateFeeOrders has a
\* compensation); only the other flows can leave an order standing.
THEOREM FeeOrdersUndone == Spec => []StandsOnlyWithoutUndo
<1>1. StepInv => StandsOnlyWithoutUndo
  BY DEF StepInv, StandsOnlyWithoutUndo, OrderStands
<1>2. QED
  BY <1>1, StepInvAlways, PTL

\* Going forward, an order that can be seen has all of its locks: every flow
\* adds the order step after all the others.
THEOREM OrderLast == Spec => []OrderComesLast
<1>1. StepInv => OrderComesLast
  <2> SUFFICES ASSUME StepInv, phase \in {"acting", "committed"}, OrderStands
               PROVE  done = 1..Last
    BY DEF OrderComesLast
  <2>1. CASE phase = "committed"
    BY <2>1 DEF StepInv
  <2>2. CASE phase = "acting"
    <3>1. PICK i \in done : IsOrder(i)
      BY DEF OrderStands
    <3>2. Last \in Nat \ {0} /\ (\A j \in 1..Last : IsOrder(j) <=> j = Last)
      BY ShapeOfSteps, SagaAssumption DEF StepInv, TypeOK, Last, Steps, IsOrder
    <3>3. i = Last /\ at = Last /\ Last \in done
      BY <2>2, <3>1, <3>2 DEF StepInv, TypeOK
    <3>4. 1..(Last - 1) \subseteq done /\ done \subseteq 1..Last
      BY <2>2, <3>3 DEF StepInv
    <3>5. 1..Last = 1..(Last - 1) \cup {Last}
      BY <3>2
    <3>6. QED
      BY <3>3, <3>4, <3>5
  <2>3. QED
    BY <2>1, <2>2
<1>2. QED
  BY <1>1, StepInvAlways, PTL

\* "ok" is answered only for a saga all of whose steps stand.
THEOREM OkIsDone == Spec => []OkMeansDone
<1>1. StepInv => OkMeansDone
  BY DEF StepInv, OkMeansDone
<1>2. QED
  BY <1>1, StepInvAlways, PTL

-----------------------------------------------------------------------------
\* Every saga is a step of the promise, or invisible to it (AtomicOrder without
\* its fairness): whatever is lost, an order is made whole, refused whole, or,
\* in the flows that may, left standing.
THEOREM KeepsPromiseSafely == Spec => Promise!Init /\ [][Promise!Next]_(Promise!vars)
<1>1. Init => Promise!Init
  BY SagaAssumption DEF Init, Promise!Init, outcome, OrderUndone
<1>2. StepInv /\ StepInv' /\ [Next]_vars => [Promise!Next]_(Promise!vars)
  <2> SUFFICES ASSUME StepInv, StepInv', [Next]_vars PROVE [Promise!Next]_(Promise!vars)
    OBVIOUS
  <2>1. shape' = shape /\ OrderUndone(shape)' = OrderUndone(shape)
    BY DEF Next, RunStep, RunUndo, Answer, Execute, NoReply, Refuse, Timeout, Undo, UndoNoReply,
           Abort, AnswerCommitted, AnswerAborted, AnswerEarly, vars
  <2>2. CASE outcome' = outcome /\ answer' = answer
    BY <2>1, <2>2 DEF Promise!vars
  <2>3. CASE Execute
    <3>1. CASE at = Last
      BY <2>1, <2>3, <3>1 DEF Execute, outcome, Promise!Next, Promise!Settle
    <3>2. CASE at # Last
      BY <2>2, <2>3, <3>2 DEF Execute, outcome
    <3>3. QED
      BY <3>1, <3>2
  <2>4. CASE Abort
    <3>1. OrderStands' => ~OrderUndone(shape)
      BY <2>1, <2>4 DEF Abort, StepInv, OrderStands
    <3>2. outcome = "pending" /\ outcome' = IF OrderStands' THEN "standing" ELSE "refused"
      BY <2>4 DEF Abort, outcome
    <3>3. QED
      BY <2>1, <2>4, <3>1, <3>2 DEF Abort, Promise!Next, Promise!Settle
  <2>5. CASE Answer \/ AnswerEarly
    BY <2>1, <2>5 DEF Answer, AnswerCommitted, AnswerAborted, AnswerEarly, outcome, OrderStands,
                      Steps, IsOrder, Promise!Next, Promise!AnswerOk, Promise!AnswerError
  <2>6. CASE NoReply \/ Refuse \/ Timeout \/ Undo \/ UndoNoReply
    BY <2>2, <2>6 DEF NoReply, Refuse, Timeout, Undo, UndoNoReply, outcome
  <2>7. CASE UNCHANGED vars
    BY <2>2, <2>7 DEF vars, outcome, OrderStands, Steps, IsOrder
  <2>8. QED
    BY <2>3, <2>4, <2>5, <2>6, <2>7 DEF Next, RunStep, RunUndo, Answer
<1>3. QED
  BY <1>1, <1>2, StepInvAlways, PTL DEF Spec

=============================================================================
