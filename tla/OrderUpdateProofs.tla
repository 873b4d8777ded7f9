-------------------------- MODULE OrderUpdateProofs --------------------------
(***************************************************************************)
(* Proofs about OrderUpdate, for any number of updates and any times that  *)
(* satisfy TimeAssumption.                                                 *)
(***************************************************************************)
EXTENDS OrderUpdate, TLAPS

\* Rules decided of a snapshot stay true of the order while it moves on: an
\* order never goes back to a state in which it was not yet paid.
RulesInv ==
    \A u \in Updates :
        /\ pc[u] \in InFlight /\ Cancels(u) => MayCancel(u) /\ ask[u].cancel = "yes"
        /\ u \in canceled => MayCancel(u)

\* Where the clock is between an update's snapshot, its check and its write.
TimeInv ==
    /\ lastBenefitAt <= now
    /\ lastBenefitAt # 0 => Booking(lastBenefitAt)
    /\ state \in {"InService", "Ended"} => order.startAt <= now
    /\ \A u \in Updates : pc[u] \in InFlight =>
          /\ readAt[u] <= now /\ now <= readAt[u] + Delay
          /\ seen[u].lastBenefitAt = 0 /\ lastBenefitAt # 0 => readAt[u] <= lastBenefitAt
          /\ pc[u] \in {"build", "lock", "write"} /\ Cancels(u) /\ order.kind = "powerRental" =>
                /\ readAt[u] <= checkedAt[u] /\ checkedAt[u] <= now
                /\ order.mode = "BeforeStart" => order.startAt - Margin > checkedAt[u]
                /\ order.mode = "BeforeBenefit" /\ goodSeen[u] =>
                      seen[u].lastBenefitAt = 0 /\ ~BenefitAtHand(checkedAt[u])

\* What each saga holds on its way, in which order updates were written, and
\* which of them the order is paid with.
LocksInv ==
    /\ \A u \in Updates :
          /\ pc[u] \in {"new", "good", "clock", "build", "lock", "refused"} => holds[u] = {}
          /\ pc[u] \in {"write", "done"} => holds[u] = Needs(u)
          /\ pc[u] \in InFlight \cup {"new"} => writtenAt[u] = 0
          /\ pc[u] = "done" => writtenAt[u] # 0
          /\ writtenAt[u] <= writes /\ seenWrites[u] <= writes
          /\ payer = u => ask[u].pays /\ writtenAt[u] # 0
          /\ ask[u].pays /\ writtenAt[u] # 0 => payer = u \/ PaidLater(u)
    /\ \A u1, u2 \in Updates :
          u1 # u2 /\ writtenAt[u1] = writtenAt[u2] => writtenAt[u1] = 0

\* Whoever got past the two flags did so when every cancellation written by then
\* had been taken back.
ClawInv ==
    /\ \A u \in canceled : ask[u].who \in canceledBy \/ Withdrawn(u, writes)
    /\ \A u1 \in canceled, u2 \in Updates :
          (pc[u2] \in InFlight /\ Cancels(u2)) \/ (u2 \in canceled /\ u1 # u2)
              => seenWrites[u2] < writtenAt[u1] \/ Withdrawn(u1, seenWrites[u2])

-----------------------------------------------------------------------------
\* A multiple of the interval orders the benefits: none is booked within Delay
\* of a clock that is not within the margin of a multiple.
LEMMA ProductOrder ==
  ASSUME NEW i \in Nat, NEW j \in Nat, i <= j
  PROVE  i * Interval <= j * Interval
<1>1. PICK d \in Nat : j = i + d
  BY SMT
<1>2. j * Interval = i * Interval + d * Interval
  BY <1>1, TimeAssumption, SMT
<1>3. d * Interval >= 0
  BY TimeAssumption, SMT
<1>4. i * Interval \in Nat /\ j * Interval \in Nat /\ d * Interval \in Nat
  BY TimeAssumption, SMT
<1>5. QED
  BY <1>2, <1>3, <1>4, SMT

LEMMA NoBookingNear ==
  ASSUME NEW c \in Nat, NEW b \in Nat, ~BenefitAtHand(c), Booking(b),
         c <= b + Delay, b <= c + Delay
  PROVE  FALSE
<1> DEFINE q == c \div Interval
           this == q * Interval
           next == (q + 1) * Interval
<1> USE TimeAssumption
<1>1. q \in Nat /\ this \in Nat /\ next \in Nat /\ next = this + Interval
  BY SMT
<1>2. this <= c /\ c < next
  BY SMT
<1>3. this + Margin < c /\ c < next - Margin
  <2>1. ~(this - Margin <= c /\ c <= this + Margin)
    BY DEF BenefitAtHand
  <2>2. ~(next - Margin <= c /\ c <= next + Margin)
    BY DEF BenefitAtHand
  <2> HIDE DEF q, this, next
  <2>3. QED
    BY <1>1, <1>2, <2>1, <2>2, SMT
<1>4. PICK k \in 0..b : k * Interval <= b /\ b <= k * Interval + Distribution
  BY DEF Booking
<1>5. k * Interval \in Nat /\ k \in Nat
  BY SMT
<1>6. CASE k <= q
  <2>1. k * Interval <= this
    BY <1>1, <1>5, <1>6, ProductOrder
  <2> HIDE DEF q, this, next
  <2>2. QED
    BY <1>1, <1>3, <1>4, <1>5, <2>1, SMT
<1>7. CASE q + 1 <= k
  <2>1. next <= k * Interval
    BY <1>1, <1>5, <1>7, ProductOrder
  <2> HIDE DEF q, this, next
  <2>2. QED
    BY <1>1, <1>3, <1>4, <1>5, <2>1, SMT
<1>8. QED
  BY <1>1, <1>5, <1>6, <1>7, SMT

-----------------------------------------------------------------------------
\* The steps of Next one by one.
Step ==
    \/ \E u \in Updates :
          \/ Read(u) \/ GiveUp(u) \/ ReadGood(u) \/ CheckClock(u) \/ Submit(u)
          \/ LockAll(u) \/ SagaFails(u) \/ Undo(u) \/ Write(u)
    \/ \E s \in States : Advance(s)
    \/ Benefit
    \/ Tick

LEMMA NextIsStep == Next => Step
  BY DEF Next, Step, Handle, RunSaga, World

LEMMA TypeInit == Init => TypeOK
  BY AskAssumption, TimeAssumption
  DEF Init, TypeOK, States, Places, Snapshot, Now, Needs, Order, Ask

LEMMA TypeStep == TypeOK /\ [Next]_vars => TypeOK'
<1> SUFFICES ASSUME TypeOK, [Next]_vars PROVE TypeOK'
  OBVIOUS
<1> USE AskAssumption, TimeAssumption
    DEF TypeOK, States, Places, Snapshot, Now, Needs, Clawback, Cancels, Order, Ask, GoTo,
        orderVars, worldVars, readVars
<1>1. CASE UNCHANGED vars
  BY <1>1 DEF vars
<1>2. ASSUME NEW u \in Updates, Read(u) PROVE TypeOK'
  BY <1>2 DEF Read
<1>3. ASSUME NEW u \in Updates, GiveUp(u) PROVE TypeOK'
  BY <1>3 DEF GiveUp
<1>4. ASSUME NEW u \in Updates, ReadGood(u) PROVE TypeOK'
  BY <1>4 DEF ReadGood
<1>5. ASSUME NEW u \in Updates, CheckClock(u) PROVE TypeOK'
  BY <1>5 DEF CheckClock
<1>6. ASSUME NEW u \in Updates, Submit(u) PROVE TypeOK'
  BY <1>6 DEF Submit
<1>7. ASSUME NEW u \in Updates, LockAll(u) PROVE TypeOK'
  BY <1>7 DEF LockAll
<1>8. ASSUME NEW u \in Updates, SagaFails(u) PROVE TypeOK'
  BY <1>8 DEF SagaFails
<1>9. ASSUME NEW u \in Updates, Undo(u) PROVE TypeOK'
  BY <1>9 DEF Undo
<1>10. ASSUME NEW u \in Updates, Write(u) PROVE TypeOK'
  <2>1. canceledBy' \subseteq {"user", "admin"}
    BY <1>10 DEF Write
  <2>2. payer' \in Updates \cup {NoUpdate}
    BY <1>10 DEF Write
  <2>3. pc' \in [Updates -> Places]
    BY <1>10 DEF Write
  <2>4. writes' \in Nat /\ writtenAt' \in [Updates -> Nat]
    BY <1>10 DEF Write
  <2>5. UNCHANGED <<order, state, lastBenefitAt, worldVars, readVars, holds>>
    BY <1>10 DEF Write
  <2>6. \A v \in Updates : holds'[v] \subseteq Needs(v)'
    BY <2>5
  <2> HIDE DEF Needs, Clawback, Cancels
  <2>7. QED
    BY <2>1, <2>2, <2>3, <2>4, <2>5, <2>6
<1>11. ASSUME NEW s \in States, Advance(s) PROVE TypeOK'
  BY <1>11 DEF Advance, Follows
<1>12. CASE Benefit
  BY <1>12 DEF Benefit
<1>13. CASE Tick
  BY <1>13 DEF Tick
<1>14. QED
  BY <1>1, <1>2, <1>3, <1>4, <1>5, <1>6, <1>7, <1>8, <1>9, <1>10, <1>11, <1>12, <1>13, NextIsStep DEF Step

\* Every variable keeps to its values, and a saga only locks what its update
\* asks for (WithLockBalances, WithLockCommissions).
THEOREM TypeCorrect == Spec => []TypeOK
  BY TypeInit, TypeStep, PTL DEF Spec

-----------------------------------------------------------------------------
LEMMA RulesInit == Init => RulesInv
  BY DEF Init, RulesInv, canceled, InFlight

LEMMA RulesStep == TypeOK /\ RulesInv /\ [Next]_vars => RulesInv'
<1> SUFFICES ASSUME TypeOK /\ RulesInv, [Next]_vars PROVE RulesInv'
  OBVIOUS
<1> USE AskAssumption
    DEF TypeOK, RulesInv, MayCancel, canceled, Settled, Unpaid, InFlight, Cancels, States, Places, Order,
        Ask, GoTo, orderVars, worldVars, readVars
<1>1. CASE UNCHANGED vars
  BY <1>1 DEF vars
<1>2. ASSUME NEW u \in Updates, Read(u) PROVE RulesInv'
  BY <1>2 DEF Read, ReadAccepts, UserCancelable, GoodCancelable
<1>3. ASSUME NEW u \in Updates, GiveUp(u) PROVE RulesInv'
  BY <1>3 DEF GiveUp
<1>4. ASSUME NEW u \in Updates, ReadGood(u) PROVE RulesInv'
  BY <1>4 DEF ReadGood
<1>5. ASSUME NEW u \in Updates, CheckClock(u) PROVE RulesInv'
  BY <1>5 DEF CheckClock
<1>6. ASSUME NEW u \in Updates, Submit(u) PROVE RulesInv'
  BY <1>6 DEF Submit
<1>7. ASSUME NEW u \in Updates, LockAll(u) PROVE RulesInv'
  BY <1>7 DEF LockAll
<1>8. ASSUME NEW u \in Updates, SagaFails(u) PROVE RulesInv'
  BY <1>8 DEF SagaFails
<1>9. ASSUME NEW u \in Updates, Undo(u) PROVE RulesInv'
  BY <1>9 DEF Undo
<1>10. ASSUME NEW u \in Updates, Write(u) PROVE RulesInv'
  BY <1>10 DEF Write
<1>11. ASSUME NEW s \in States, Advance(s) PROVE RulesInv'
  BY <1>11 DEF Advance, Follows
<1>12. CASE Benefit
  BY <1>12 DEF Benefit
<1>13. CASE Tick
  BY <1>13 DEF Tick
<1>14. QED
  BY <1>1, <1>2, <1>3, <1>4, <1>5, <1>6, <1>7, <1>8, <1>9, <1>10, <1>11, <1>12, <1>13, NextIsStep DEF Step

\* A cancellation is written within the rules, however late (UserCancelable and
\* GoodCancelable look at a snapshot only).
THEOREM RulesKept == Spec => []CancelRulesKept
<1>1. TypeOK /\ RulesInv => CancelRulesKept
  BY DEF TypeOK, RulesInv, CancelRulesKept, canceled
<1>2. QED
  BY TypeInit, TypeStep, RulesInit, RulesStep, <1>1, PTL DEF Spec

-----------------------------------------------------------------------------
LEMMA TimeInit == Init => TimeInv
  BY TimeAssumption DEF Init, TimeInv, InFlight

LEMMA TimeStep == TypeOK /\ TimeInv /\ [Next]_vars => TimeInv'
<1> SUFFICES ASSUME TypeOK /\ TimeInv, [Next]_vars PROVE TimeInv'
  OBVIOUS
<1> USE AskAssumption, TimeAssumption
    DEF TypeOK, TimeInv, InFlight, Cancels, States, Places, Snapshot, Now, Order, Ask, GoTo,
        orderVars, worldVars, readVars
<1>1. CASE UNCHANGED vars
  BY <1>1 DEF vars
<1>2. ASSUME NEW u \in Updates, Read(u) PROVE TimeInv'
  BY <1>2 DEF Read
<1>3. ASSUME NEW u \in Updates, GiveUp(u) PROVE TimeInv'
  BY <1>3 DEF GiveUp
<1>4. ASSUME NEW u \in Updates, ReadGood(u) PROVE TimeInv'
  BY <1>4 DEF ReadGood
<1>5. ASSUME NEW u \in Updates, CheckClock(u) PROVE TimeInv'
  BY <1>5 DEF CheckClock, ClockAccepts
<1>6. ASSUME NEW u \in Updates, Submit(u) PROVE TimeInv'
  BY <1>6 DEF Submit
<1>7. ASSUME NEW u \in Updates, LockAll(u) PROVE TimeInv'
  BY <1>7 DEF LockAll
<1>8. ASSUME NEW u \in Updates, SagaFails(u) PROVE TimeInv'
  BY <1>8 DEF SagaFails
<1>9. ASSUME NEW u \in Updates, Undo(u) PROVE TimeInv'
  BY <1>9 DEF Undo
<1>10. ASSUME NEW u \in Updates, Write(u) PROVE TimeInv'
  BY <1>10 DEF Write
<1>11. ASSUME NEW s \in States, Advance(s) PROVE TimeInv'
  BY <1>11 DEF Advance, Follows
<1>12. CASE Benefit
  BY <1>12 DEF Benefit
<1>13. CASE Tick
  BY <1>13 DEF Tick
<1>14. QED
  BY <1>1, <1>2, <1>3, <1>4, <1>5, <1>6, <1>7, <1>8, <1>9, <1>10, <1>11, <1>12, <1>13, NextIsStep DEF Step

\* No cancellation of a power rental that may be cancelled before its start is
\* written once it is in service (goodCancelable's margin covers the delay).
THEOREM BeforeStart == Spec => CanceledBeforeStart
<1> DEFINE Early ==
      \A u \in canceled' \ canceled :
          order.kind = "powerRental" /\ order.mode = "BeforeStart"
             => state \notin {"InService", "Ended"}
<1>1. TypeOK /\ TimeInv /\ [Next]_vars => Early
  <2> SUFFICES ASSUME TypeOK, TimeInv, [Next]_vars, NEW u \in canceled' \ canceled,
                      order.kind = "powerRental", order.mode = "BeforeStart",
                      state \in {"InService", "Ended"}
               PROVE  FALSE
    OBVIOUS
  <2>1. u \in Updates /\ Write(u) /\ Cancels(u)
    BY NextIsStep, ZenonT(40) DEF Step, Write, Read, GiveUp, ReadGood, CheckClock, Submit, LockAll, SagaFails,
       Undo, Advance, Benefit, Tick, vars, orderVars, readVars, canceled, Cancels, TypeOK
  <2>2. order.startAt - Margin > checkedAt[u] /\ now <= readAt[u] + Delay /\ readAt[u] <= checkedAt[u]
    BY <2>1 DEF Write, TimeInv, InFlight
  <2>3. order.startAt <= now
    BY DEF TimeInv
  <2>4. order.startAt \in Nat /\ checkedAt[u] \in Nat /\ readAt[u] \in Nat /\ now \in Nat
    BY <2>1, AskAssumption DEF TypeOK, Order
  <2>5. QED
    BY <2>2, <2>3, <2>4, TimeAssumption
<1>2. QED
  BY <1>1, TypeInit, TypeStep, TimeInit, TimeStep, PTL DEF Spec, CanceledBeforeStart

\* No cancellation of a power rental that may be cancelled before its benefit
\* is written after one was booked for it (goodCancelable's two windows).
THEOREM MissesBenefit == Spec => CancelMissesBenefit
<1> DEFINE Missed ==
      \A u \in canceled' \ canceled :
          order.kind = "powerRental" /\ order.mode = "BeforeBenefit" /\ goodSeen[u]
             => lastBenefitAt = 0
<1>1. TypeOK /\ TimeInv /\ [Next]_vars => Missed
  <2> SUFFICES ASSUME TypeOK, TimeInv, [Next]_vars, NEW u \in canceled' \ canceled,
                      order.kind = "powerRental", order.mode = "BeforeBenefit", goodSeen[u],
                      lastBenefitAt # 0
               PROVE  FALSE
    OBVIOUS
  <2>1. u \in Updates /\ Write(u) /\ Cancels(u)
    BY NextIsStep, ZenonT(40) DEF Step, Write, Read, GiveUp, ReadGood, CheckClock, Submit, LockAll, SagaFails,
       Undo, Advance, Benefit, Tick, vars, orderVars, readVars, canceled, Cancels, TypeOK
  <2>2. /\ readAt[u] <= lastBenefitAt /\ ~BenefitAtHand(checkedAt[u])
        /\ now <= readAt[u] + Delay
        /\ readAt[u] <= checkedAt[u] /\ checkedAt[u] <= now
    BY <2>1 DEF Write, TimeInv, InFlight
  <2>3. Booking(lastBenefitAt) /\ lastBenefitAt <= now
    BY DEF TimeInv
  <2>4. lastBenefitAt \in Nat /\ checkedAt[u] \in Nat /\ readAt[u] \in Nat /\ now \in Nat
    BY <2>1 DEF TypeOK
  <2>5. checkedAt[u] <= lastBenefitAt + Delay /\ lastBenefitAt <= checkedAt[u] + Delay
    BY <2>2, <2>3, <2>4, TimeAssumption
  <2>6. QED
    BY <2>2, <2>3, <2>4, <2>5, NoBookingNear
<1>2. QED
  BY <1>1, TypeInit, TypeStep, TimeInit, TimeStep, PTL DEF Spec, CancelMissesBenefit

-----------------------------------------------------------------------------
LEMMA LocksInit == Init => LocksInv /\ ClawInv
  BY AskAssumption DEF Init, LocksInv, ClawInv, canceled, InFlight

LEMMA LocksStep == TypeOK /\ LocksInv /\ [Next]_vars => LocksInv'
<1> SUFFICES ASSUME TypeOK /\ LocksInv, [Next]_vars PROVE LocksInv'
  OBVIOUS
<1> USE AskAssumption
    DEF TypeOK, LocksInv, InFlight, Clawback, Cancels, Needs, PaidLater, Places, Ask, GoTo,
        orderVars, worldVars, readVars
<1>1. CASE UNCHANGED vars
  BY <1>1 DEF vars
<1>2. ASSUME NEW u \in Updates, Read(u) PROVE LocksInv'
  BY <1>2 DEF Read
<1>3. ASSUME NEW u \in Updates, GiveUp(u) PROVE LocksInv'
  BY <1>3 DEF GiveUp
<1>4. ASSUME NEW u \in Updates, ReadGood(u) PROVE LocksInv'
  BY <1>4 DEF ReadGood
<1>5. ASSUME NEW u \in Updates, CheckClock(u) PROVE LocksInv'
  BY <1>5 DEF CheckClock
<1>6. ASSUME NEW u \in Updates, Submit(u) PROVE LocksInv'
  BY <1>6 DEF Submit
<1>7. ASSUME NEW u \in Updates, LockAll(u) PROVE LocksInv'
  BY <1>7 DEF LockAll
<1>8. ASSUME NEW u \in Updates, SagaFails(u) PROVE LocksInv'
  BY <1>8 DEF SagaFails
<1>9. ASSUME NEW u \in Updates, Undo(u) PROVE LocksInv'
  BY <1>9 DEF Undo
<1>10. ASSUME NEW u \in Updates, Write(u) PROVE LocksInv'
  BY <1>10 DEF Write
<1>11. ASSUME NEW s \in States, Advance(s) PROVE LocksInv'
  BY <1>11 DEF Advance, Follows
<1>12. CASE Benefit
  BY <1>12 DEF Benefit
<1>13. CASE Tick
  BY <1>13 DEF Tick
<1>14. QED
  BY <1>1, <1>2, <1>3, <1>4, <1>5, <1>6, <1>7, <1>8, <1>9, <1>10, <1>11, <1>12, <1>13, NextIsStep DEF Step

\* What stays locked after an update was written to the order, and the order
\* knows it unless a later payment took its place or its own saga was undone
\* after the write, whatever is refused, times out or gets lost.
THEOREM LocksMatch == Spec => []LocksAreTheOrders
<1>1. LocksInv /\ TypeOK => LocksAreTheOrders
  BY DEF LocksInv, LocksAreTheOrders, TypeOK, Needs, Clawback, canceled, InFlight
<1>2. QED
  BY TypeInit, TypeStep, LocksInit, LocksStep, <1>1, PTL DEF Spec

-----------------------------------------------------------------------------
LEMMA ClawStep == TypeOK /\ RulesInv /\ LocksInv /\ ClawInv /\ [Next]_vars => ClawInv'
<1> SUFFICES ASSUME TypeOK /\ RulesInv /\ LocksInv /\ ClawInv, [Next]_vars PROVE ClawInv'
  OBVIOUS
<1> USE AskAssumption
    DEF TypeOK, LocksInv, ClawInv, canceled, Withdrawn, InFlight, Cancels, Places, Ask, GoTo,
        orderVars, worldVars, readVars
<1>1. CASE UNCHANGED vars
  BY <1>1 DEF vars
<1>2. ASSUME NEW u \in Updates, Read(u) PROVE ClawInv'
  <2>1. /\ pc[u] = "new" /\ writtenAt[u] = 0
        /\ Cancels(u) => canceledBy = {}
        /\ seenWrites' = [seenWrites EXCEPT ![u] = writes]
        /\ pc' = [pc EXCEPT ![u] = IF Cancels(u) /\ order.kind = "powerRental" THEN "good" ELSE "build"]
        /\ UNCHANGED <<order, ask, canceledBy, writes, writtenAt>>
    BY <1>2 DEF Read, ReadAccepts
  <2>2. canceled' = canceled /\ \A v \in Updates : Cancels(v)' <=> Cancels(v)
    BY <2>1
  <2>3. \A v \in Updates, n \in Nat : Withdrawn(v, n)' <=> Withdrawn(v, n)
    BY <2>1
  <2>4. \A v \in canceled : ask'[v].who \in canceledBy' \/ Withdrawn(v, writes)'
    BY <2>1, <2>3
  <2>5. ASSUME NEW v \in canceled, NEW w \in Updates,
               (pc'[w] \in InFlight /\ Cancels(w)) \/ (w \in canceled /\ v # w)
        PROVE  seenWrites'[w] < writtenAt'[v] \/ Withdrawn(v, seenWrites[w])' \/ w = u
    <3>1. CASE w = u
      BY <3>1
    <3>2. CASE w # u
      <4>1. seenWrites'[w] = seenWrites[w] /\ pc'[w] = pc[w] /\ writtenAt'[v] = writtenAt[v]
        BY <2>1, <3>2
      <4>2. seenWrites[w] < writtenAt[v] \/ Withdrawn(v, seenWrites[w])
        BY <2>5, <4>1
      <4>3. v \in Updates /\ seenWrites[w] \in Nat
        OBVIOUS
      <4> HIDE DEF Withdrawn, canceled, LocksInv, ClawInv
      <4>4. QED
        BY <2>3, <4>1, <4>2, <4>3
    <3>3. QED
      BY <3>1, <3>2
  <2>6. ASSUME NEW v \in canceled, Cancels(u)
        PROVE  Withdrawn(v, writes)'
    BY <2>1, <2>3, <2>6
  <2>7. u \notin canceled
    BY <2>1
  <2>8. ASSUME NEW v \in canceled', NEW w \in Updates,
               (pc'[w] \in InFlight /\ Cancels(w)') \/ (w \in canceled' /\ v # w)
        PROVE  seenWrites'[w] < writtenAt'[v] \/ Withdrawn(v, seenWrites[w])'
    <3>1. CASE w = u
      <4>1. Cancels(u) /\ seenWrites'[w] = writes /\ v \in canceled
        BY <2>1, <2>2, <2>7, <2>8, <3>1
      <4>2. Withdrawn(v, writes)' /\ writes' = writes
        BY <2>1, <2>6, <4>1
      <4> HIDE DEF canceled, LocksInv, ClawInv
      <4>3. QED
        BY <4>1, <4>2
    <3>2. CASE w # u
      BY <2>1, <2>2, <2>5, <2>8, <3>2
    <3>3. QED
      BY <3>1, <3>2
  <2>9. QED
    BY <2>2, <2>4, <2>8
<1>3. ASSUME NEW u \in Updates, GiveUp(u) PROVE ClawInv'
  BY <1>3 DEF GiveUp
<1>4. ASSUME NEW u \in Updates, ReadGood(u) PROVE ClawInv'
  BY <1>4 DEF ReadGood
<1>5. ASSUME NEW u \in Updates, CheckClock(u) PROVE ClawInv'
  BY <1>5 DEF CheckClock
<1>6. ASSUME NEW u \in Updates, Submit(u) PROVE ClawInv'
  BY <1>6 DEF Submit
<1>7. ASSUME NEW u \in Updates, LockAll(u) PROVE ClawInv'
  BY <1>7 DEF LockAll
<1>8. ASSUME NEW u \in Updates, SagaFails(u) PROVE ClawInv'
  BY <1>8 DEF SagaFails
<1>9. ASSUME NEW u \in Updates, Undo(u) PROVE ClawInv'
  BY <1>9 DEF Undo
<1>10. ASSUME NEW u \in Updates, Write(u) PROVE ClawInv'
  <2>1. /\ pc[u] = "write" /\ writtenAt[u] = 0
        /\ Cancels(u) => ask[u].cancel = "yes"
        /\ ask[u].cancel # "no" => canceledBy \subseteq canceledBy'
        /\ canceledBy \ {ask[u].who} \subseteq canceledBy'
        /\ ask[u].cancel = "yes" => ask[u].who \in canceledBy'
        /\ writes' = writes + 1 /\ writtenAt' = [writtenAt EXCEPT ![u] = writes + 1]
        /\ pc' \in {[pc EXCEPT ![u] = "done"], [pc EXCEPT ![u] = "undo"]}
        /\ UNCHANGED <<order, ask, seenWrites>>
    BY <1>10 DEF Write, RulesInv
  <2>2. \A v \in Updates : v # u => writtenAt'[v] = writtenAt[v] /\ (v \in canceled' <=> v \in canceled)
    BY <2>1
  \* what was taken back before stays so
  <2>3. ASSUME NEW v \in Updates, NEW n \in Nat, v # u, n <= writes, Withdrawn(v, n)
        PROVE  Withdrawn(v, n)' /\ Withdrawn(v, writes)'
    <3>1. PICK w \in Updates : /\ ask[w].cancel = "no" /\ ask[w].who = ask[v].who
                               /\ writtenAt[v] < writtenAt[w] /\ writtenAt[w] <= n
      BY <2>3
    <3>2. w # u
      BY <2>1, <3>1
    <3>3. QED
      BY <2>1, <2>2, <2>3, <3>1, <3>2
  <2>4. ASSUME NEW v \in canceled' PROVE ask'[v].who \in canceledBy' \/ Withdrawn(v, writes)'
    <3>1. CASE v = u
      BY <2>1, <2>4, <3>1
    <3>2. CASE v # u /\ Withdrawn(v, writes)
      <4>1. v \in Updates /\ writes \in Nat /\ writes <= writes
        BY <2>4
      <4> HIDE DEF Withdrawn, canceled, LocksInv, ClawInv
      <4>2. QED
        BY <2>3, <3>2, <4>1
    <3>3. CASE v # u /\ ~Withdrawn(v, writes)
      <4>1. v \in canceled /\ ask[v].who \in canceledBy
        BY <2>2, <2>4, <3>3
      <4>2. CASE ask[u].cancel = "no" /\ ask[u].who = ask[v].who
        <5>1. /\ writtenAt'[v] = writtenAt[v] /\ writtenAt[v] <= writes
              /\ writtenAt'[u] = writes + 1 /\ writes' = writes + 1 /\ ask' = ask
              /\ writes \in Nat /\ writtenAt[v] \in Nat
          BY <2>1, <2>2, <3>3, <4>1
        <5> HIDE DEF canceled, LocksInv, ClawInv
        <5>2. Withdrawn(v, writes)'
          BY <4>2, <5>1
        <5>3. QED
          BY <5>2
      <4>3. CASE ~(ask[u].cancel = "no" /\ ask[u].who = ask[v].who)
        BY <2>1, <4>1, <4>3
      <4>4. QED
        BY <4>2, <4>3
    <3>4. QED
      BY <3>1, <3>2, <3>3
  <2>5. ASSUME NEW v \in canceled', NEW w \in Updates,
               (pc'[w] \in InFlight /\ Cancels(w)') \/ (w \in canceled' /\ v # w)
        PROVE  seenWrites'[w] < writtenAt'[v] \/ Withdrawn(v, seenWrites[w])'
    <3>1. CASE v = u
      BY <2>1, <3>1
    <3>2. CASE v # u
      <4>1. v \in canceled /\ writtenAt'[v] = writtenAt[v]
        BY <2>2, <2>5, <3>2
      <4>2. (pc[w] \in InFlight /\ Cancels(w)) \/ (w \in canceled /\ v # w)
        BY <2>1, <2>2, <2>5
      <4>3. seenWrites[w] < writtenAt[v] \/ Withdrawn(v, seenWrites[w])
        BY <4>1, <4>2
      <4>4. QED
        BY <2>1, <2>3, <3>2, <4>1, <4>3
    <3>3. QED
      BY <3>1, <3>2
  <2>6. QED
    BY <2>4, <2>5
<1>11. ASSUME NEW s \in States, Advance(s) PROVE ClawInv'
  BY <1>11 DEF Advance, Follows
<1>12. CASE Benefit
  BY <1>12 DEF Benefit
<1>13. CASE Tick
  BY <1>13 DEF Tick
<1>14. QED
  BY <1>1, <1>2, <1>3, <1>4, <1>5, <1>6, <1>7, <1>8, <1>9, <1>10, <1>11, <1>12, <1>13, NextIsStep DEF Step

\* Commissions are clawed back twice only by cancellations that could not know
\* of each other, for any number of updates and an order-middleware that refuses
\* nothing (the two flags in validateCancelParam).
THEOREM ClawedBackOnce == Spec => []OneClawback
<1>1. TypeOK /\ LocksInv /\ ClawInv => OneClawback
  <2> SUFFICES ASSUME TypeOK, LocksInv, ClawInv, NEW u1 \in Updates, NEW u2 \in Updates,
                      u1 # u2, pc[u1] = "done", pc[u2] = "done",
                      "commissions" \in holds[u1], "commissions" \in holds[u2]
               PROVE  Unaware(u2, u1) \/ Unaware(u1, u2)
    BY DEF OneClawback
  <2>1. u1 \in canceled /\ u2 \in canceled
    BY DEF LocksInv, canceled, Needs, Clawback
  <2>2. writtenAt[u1] < writtenAt[u2] \/ writtenAt[u2] < writtenAt[u1]
    BY DEF TypeOK, LocksInv
  <2>3. QED
    BY <2>1, <2>2 DEF ClawInv, Unaware
<1>2. QED
  BY TypeInit, TypeStep, RulesInit, RulesStep, LocksInit, LocksStep, ClawStep, <1>1, PTL DEF Spec

=============================================================================
