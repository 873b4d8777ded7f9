--------------------------- MODULE CreationProofs ---------------------------
(***************************************************************************)
(* Proofs about OrderLimits, for any number of requests under way, any     *)
(* orders and units they ask for and any limits, and about the instance of *)
(* CreationTimes, for any goods, prices, feeds and lengths of time.        *)
(*                                                                         *)
(* What bounds the orders that wait is what may still be written by the    *)
(* requests that have been let through (Passed) and by those that may be   *)
(* let through by the fees that will wait when they are counted: a         *)
(* request whose power rentals were counted long ago may pass once fees    *)
(* are paid.  So the bound is kept for every number of fees f up to those  *)
(* that wait (UnpaidInv).  For the units the last request let through      *)
(* leaves room for the others (UnitsInv).                                  *)
(*                                                                         *)
(* What a creation has read ages with the clock, which is never further    *)
(* than Delay from the creation's first call: everything is compared with  *)
(* that call (TimedInv).                                                   *)
(***************************************************************************)
EXTENDS Creation, FiniteSetTheorems, TLAPS

Passed == {r \in Requests : pc[r] \in {"counted", "working", "saga"} /\ Checked(ask[r])}
Eligible(f) == {r \in Requests : pc[r] = "counting" /\ seen[r] + f < limit[r]}
Pending(f) == Passed \cup Eligible(f)

\* MaxUnpaidOrders is set, as every request has read it, and only orders that
\* are limited are counted.
LimitInv ==
    /\ 0 \notin been => maxUnpaid # 0 /\ \A r \in Requests : pc[r] # "idle" => limit[r] # 0
    /\ \A r \in Requests :
            /\ pc[r] # "idle" => limit[r] \in Limits
            /\ pc[r] \in {"counting", "counted"} => Checked(ask[r])
            /\ pc[r] \in {"configured", "counted"} => ask[r].rentals = 1
            /\ pc[r] \in {"offered", "counting", "counted"} /\ ask[r].rentals = 1 => offer[r] \in Goods

UnpaidInv ==
    \A f \in 0..waitingFees :
        waitingRentals + f + MaxOrders * Cardinality(Pending(f))
            <= MaxLimit - 1 + MaxOrders * Cardinality(Requests)

Buyers == {r \in Requests : pc[r] \in {"working", "saga"} /\ Checked(ask[r]) /\ ask[r].rentals = 1}
Room == MaxAmount + MaxUnits * (Cardinality(Requests) - 1)

UnitsInv ==
    /\ \A r \in Buyers : ask[r].units <= MaxUnits
    /\ \/ Buyers = {} /\ bought <= Room
       \/ \E r \in Buyers :
             bought + ask[r].units + MaxUnits * (Cardinality(Buyers) - 1) <= Room

-----------------------------------------------------------------------------
\* The request that acts is the only one whose place changes.
LEMMA EndTypes ==
  ASSUME TypeOK, NEW r \in Requests, End(r)
  PROVE  /\ pc' \in [Requests -> Places]
         /\ ask' \in [Requests -> Asks \cup {NoAsk}]
         /\ \A q \in Requests : pc'[q] # "idle" => ask'[q] \in Asks
         /\ limit' \in [Requests -> Limits \cup {0}]
         /\ offer' \in [Requests -> Goods \cup {NoGood}]
         /\ seen' \in [Requests -> Nat]
         /\ wrote' \in [Requests -> BOOLEAN]
         /\ rewards' \in [Requests -> SUBSET {"purchase", "affiliatePurchase"}]
BY DEF TypeOK, End, GoTo, Places

\* Multiplication is monotone, and one more is one more times the factor.
LEMMA Multiples ==
  ASSUME NEW s \in Nat, NEW a \in Nat, NEW b \in Nat
  PROVE  /\ s * a \in Nat
         /\ a <= b => s * a <= s * b
         /\ s * (a + 1) = s * a + s
         /\ a # 0 => s * (a - 1) = s * a - s
<1>1. s * a \in Nat /\ s * (a + 1) = s * a + s /\ (a # 0 => s * (a - 1) = s * a - s)
  OBVIOUS
<1>2. ASSUME a <= b PROVE s * a <= s * b
  <2>1. b - a \in Nat /\ s * b = s * a + s * (b - a)
    BY <1>2
  <2>2. s * (b - a) \in Nat
    BY <2>1
  <2>3. QED
    BY <1>1, <2>1, <2>2
<1>3. QED
  BY <1>1, <1>2

LEMMA TypeStep ==
  ASSUME TypeOK, [Next]_vars
  PROVE  TypeOK'
<1> USE LimitsAssumption
<1>1. ASSUME NEW r \in Requests, Begin(r) PROVE TypeOK'
  BY <1>1 DEF TypeOK, Begin, GoTo, Places, books
<1>2. ASSUME NEW r \in Requests, ReadGood(r) PROVE TypeOK'
  BY <1>2 DEF TypeOK, ReadGood, GoTo, Places, books
<1>3. ASSUME NEW r \in Requests, PassUnchecked(r) PROVE TypeOK'
  BY <1>3 DEF TypeOK, PassUnchecked, GoTo, Places, books, request
<1>4. ASSUME NEW r \in Requests, PassUnlimited(r) PROVE TypeOK'
  BY <1>4 DEF TypeOK, PassUnlimited, Counted, GoTo, Places, books, request
<1>5. ASSUME NEW r \in Requests, CountPowerRentals(r) PROVE TypeOK'
  BY <1>5 DEF TypeOK, CountPowerRentals, GoTo, Places, books
<1>6. ASSUME NEW r \in Requests, CountFees(r) PROVE TypeOK'
  <2>1. CASE seen[r] + waitingFees < limit[r]
    BY <1>6, <2>1 DEF TypeOK, CountFees, Counted, GoTo, Places, books, request
  <2>2. CASE ~(seen[r] + waitingFees < limit[r])
    BY <1>6, <2>2, EndTypes DEF TypeOK, CountFees, books
  <2>3. QED
    BY <2>1, <2>2
<1>7. ASSUME NEW r \in Requests, CheckUnits(r) PROVE TypeOK'
  <2>1. CASE End(r)
    BY <1>7, <2>1, EndTypes DEF TypeOK, CheckUnits, books
  <2>2. CASE GoTo(r, "working") /\ UNCHANGED <<request, wrote, rewards>>
    BY <1>7, <2>2 DEF TypeOK, CheckUnits, GoTo, Places, books, request
  <2>3. QED
    BY <1>7, <2>1, <2>2 DEF CheckUnits
<1>8. ASSUME NEW r \in Requests, GiveUp(r) PROVE TypeOK'
  BY <1>8, EndTypes DEF TypeOK, GiveUp, books
<1>9. ASSUME NEW r \in Requests, Submit(r) PROVE TypeOK'
  BY <1>9 DEF TypeOK, Submit, GoTo, Places, books, request
<1>10. ASSUME NEW r \in Requests, Write(r) PROVE TypeOK'
  <2>1. PICK rentals \in 0..ask[r].rentals, fees \in 0..ask[r].fees :
           /\ waitingRentals' = waitingRentals + rentals
           /\ waitingFees' = waitingFees + fees
    BY <1>10 DEF Write
  <2>2. ask[r] \in Asks
    BY <1>10 DEF Write, TypeOK
  <2>3. ask[r] \in Ask
    BY <2>2
  <2>4. waitingRentals' \in Nat /\ waitingFees' \in Nat /\ bought' \in Nat
    BY <1>10, <2>1, <2>3 DEF TypeOK, Write, Ask
  <2>5. CASE End(r)
    BY <1>10, <2>4, <2>5, EndTypes DEF TypeOK, Write
  <2>6. CASE /\ GoTo(r, "committed")
             /\ wrote' = [wrote EXCEPT ![r] = TRUE]
             /\ UNCHANGED <<request, rewards>>
    BY <1>10, <2>4, <2>6 DEF TypeOK, Write, GoTo, Places, request
  <2>7. QED
    BY <1>10, <2>5, <2>6 DEF Write
<1>11. ASSUME NEW r \in Requests, SagaFails(r) PROVE TypeOK'
  BY <1>11, EndTypes DEF TypeOK, SagaFails, books
<1>12. ASSUME NEW r \in Requests, ReadEvent(r) PROVE TypeOK'
  <2>1. CASE End(r)
    BY <1>12, <2>1, EndTypes DEF TypeOK, ReadEvent, books
  <2>2. CASE GoTo(r, "rewarding") /\ UNCHANGED <<request, wrote, rewards>>
    BY <1>12, <2>2 DEF TypeOK, ReadEvent, GoTo, Places, books, request
  <2>3. QED
    BY <1>12, <2>1, <2>2 DEF ReadEvent
<1>13. ASSUME NEW r \in Requests, RewardPurchase(r) PROVE TypeOK'
  BY <1>13 DEF TypeOK, RewardPurchase, Publish, GoTo, Places, books, request
<1>14. ASSUME NEW r \in Requests, RewardAffiliatePurchase(r) PROVE TypeOK'
  BY <1>14 DEF TypeOK, RewardAffiliatePurchase, Publish, GoTo, Places, books, request
<1>15. ASSUME NEW r \in Requests, Answer(r) PROVE TypeOK'
  BY <1>15, EndTypes DEF TypeOK, Answer, books
<1>16. CASE World
  <2>1. CASE SettlePowerRental
    <3>1. waitingRentals' \in Nat
      BY <2>1 DEF SettlePowerRental, TypeOK
    <3>2. QED
      BY <2>1, <3>1 DEF SettlePowerRental, TypeOK, request
  <2>2. CASE SettleFee
    <3>1. waitingFees' \in Nat
      BY <2>2 DEF SettleFee, TypeOK
    <3>2. QED
      BY <2>2, <3>1 DEF SettleFee, TypeOK, request
  <2>3. CASE CancelPowerRental
    BY <2>3 DEF CancelPowerRental, TypeOK, request
  <2>4. CASE SetMaxUnpaidOrders
    <3>1. maxUnpaid' \in Limits /\ been' \in SUBSET Limits
      BY <2>4 DEF SetMaxUnpaidOrders, TypeOK
    <3>2. QED
      BY <2>4, <3>1 DEF SetMaxUnpaidOrders, TypeOK, request
  <2>5. CASE SetGood
    BY <2>5 DEF SetGood, TypeOK, request
  <2>6. QED
    BY <1>16, <2>1, <2>2, <2>3, <2>4, <2>5 DEF World
<1>17. CASE UNCHANGED vars
  BY <1>17 DEF TypeOK, vars, books, request
<1>18. QED
  BY <1>1, <1>2, <1>3, <1>4, <1>5, <1>6, <1>7, <1>8, <1>9, <1>10, <1>11, <1>12, <1>13,
     <1>14, <1>15, <1>16, <1>17 DEF Next, Handle, RunSaga

\* Every variable has its type.
THEOREM TypeCorrect == Spec => []TypeOK
<1>1. Init => TypeOK
  BY LimitsAssumption DEF Init, TypeOK, Places
<1>2. QED
  BY <1>1, TypeStep, PTL DEF Spec

-----------------------------------------------------------------------------
\* As long as nothing is written and nobody is let in, the bound is kept.
LEMMA Quiet ==
  ASSUME TypeOK, TypeOK', UnpaidInv,
         waitingRentals' <= waitingRentals, waitingFees' <= waitingFees,
         \A f \in 0..waitingFees' : Pending(f)' \subseteq Pending(f)
  PROVE  UnpaidInv'
<1> SUFFICES ASSUME NEW f \in 0..waitingFees'
             PROVE  waitingRentals' + f + MaxOrders * Cardinality(Pending(f)')
                      <= MaxLimit - 1 + MaxOrders * Cardinality(Requests)
  BY DEF UnpaidInv
<1>1. f \in 0..waitingFees /\ f \in Nat
  BY DEF TypeOK
<1>2. waitingRentals + f + MaxOrders * Cardinality(Pending(f))
        <= MaxLimit - 1 + MaxOrders * Cardinality(Requests)
  BY <1>1 DEF UnpaidInv
<1>3. IsFiniteSet(Pending(f)) /\ IsFiniteSet(Pending(f)')
        /\ Cardinality(Pending(f)') <= Cardinality(Pending(f))
  <2>1. Pending(f) \subseteq Requests /\ Pending(f)' \subseteq Pending(f)
    BY DEF Pending, Passed, Eligible
  <2>2. IsFiniteSet(Pending(f))
    BY <2>1, LimitsAssumption, FS_Subset
  <2>3. QED
    BY <2>1, <2>2, FS_Subset
<1>4. Cardinality(Pending(f)) \in Nat /\ Cardinality(Pending(f)') \in Nat /\ Cardinality(Requests) \in Nat
  BY <1>3, LimitsAssumption, FS_CardinalityType
<1>5. /\ MaxOrders * Cardinality(Pending(f)') <= MaxOrders * Cardinality(Pending(f))
      /\ MaxOrders * Cardinality(Pending(f)') \in Nat /\ MaxOrders * Cardinality(Pending(f)) \in Nat
      /\ MaxOrders * Cardinality(Requests) \in Nat
  BY <1>3, <1>4, LimitsAssumption, Multiples
<1>6. QED
  BY <1>1, <1>2, <1>5, LimitsAssumption DEF TypeOK

\* A request that ends, or goes on without being counted, is no longer
\* pending or was not.
LEMMA EndQuiet ==
  ASSUME TypeOK, NEW r \in Requests, End(r), UNCHANGED books
  PROVE  /\ waitingRentals' <= waitingRentals /\ waitingFees' <= waitingFees
         /\ \A f \in 0..waitingFees' : Pending(f)' \subseteq Pending(f)
BY DEF TypeOK, End, GoTo, Pending, Passed, Eligible, books

LEMMA LimitPreserved ==
  ASSUME TypeOK, LimitInv, [Next]_vars
  PROVE  LimitInv'
<1> USE LimitsAssumption
<1>1. ASSUME NEW r \in Requests, End(r), UNCHANGED <<maxUnpaid, been>> PROVE LimitInv'
  BY <1>1 DEF LimitInv, TypeOK, End, GoTo
<1>2. ASSUME NEW r \in Requests, Begin(r) PROVE LimitInv'
  <2>1. PICK a \in Asks :
           /\ ask' = [ask EXCEPT ![r] = a]
           /\ GoTo(r, IF a.rentals = 1 THEN "configured" ELSE "offered")
    BY <1>2 DEF Begin
  <2>2. QED
    BY <1>2, <2>1 DEF LimitInv, TypeOK, Begin, GoTo, books
<1>3. ASSUME NEW r \in Requests, ReadGood(r) PROVE LimitInv'
  BY <1>3 DEF LimitInv, TypeOK, ReadGood, GoTo, books
<1>4. ASSUME NEW r \in Requests, PassUnchecked(r) PROVE LimitInv'
  BY <1>4 DEF LimitInv, TypeOK, PassUnchecked, GoTo, books, request
<1>5. ASSUME NEW r \in Requests, PassUnlimited(r) PROVE LimitInv'
  BY <1>5 DEF LimitInv, TypeOK, PassUnlimited, Counted, GoTo, books, request
<1>6. ASSUME NEW r \in Requests, CountPowerRentals(r) PROVE LimitInv'
  BY <1>6 DEF LimitInv, TypeOK, CountPowerRentals, GoTo, books
<1>7. ASSUME NEW r \in Requests, CountFees(r) PROVE LimitInv'
  <2>1. CASE seen[r] + waitingFees < limit[r]
    BY <1>7, <2>1 DEF LimitInv, TypeOK, CountFees, Counted, GoTo, books, request
  <2>2. QED
    BY <1>1, <1>7, <2>1 DEF CountFees, books
<1>8. ASSUME NEW r \in Requests, CheckUnits(r) PROVE LimitInv'
  <2>1. CASE GoTo(r, "working") /\ UNCHANGED <<request, wrote, rewards>>
    BY <1>8, <2>1 DEF LimitInv, TypeOK, CheckUnits, GoTo, books, request
  <2>2. QED
    BY <1>1, <1>8, <2>1 DEF CheckUnits, books
<1>9. ASSUME NEW r \in Requests, GiveUp(r) \/ SagaFails(r) \/ Answer(r) PROVE LimitInv'
  BY <1>1, <1>9 DEF GiveUp, SagaFails, Answer, books
<1>10. ASSUME NEW r \in Requests, Submit(r) PROVE LimitInv'
  BY <1>10 DEF LimitInv, TypeOK, Submit, GoTo, books, request
<1>11. ASSUME NEW r \in Requests, Write(r) PROVE LimitInv'
  <2>1. CASE GoTo(r, "committed") /\ UNCHANGED <<request, rewards>>
    BY <1>11, <2>1 DEF LimitInv, TypeOK, Write, GoTo, request
  <2>2. QED
    BY <1>1, <1>11, <2>1 DEF Write
<1>12. ASSUME NEW r \in Requests, ReadEvent(r) PROVE LimitInv'
  <2>1. CASE GoTo(r, "rewarding") /\ UNCHANGED <<request, wrote, rewards>>
    BY <1>12, <2>1 DEF LimitInv, TypeOK, ReadEvent, GoTo, books, request
  <2>2. QED
    BY <1>1, <1>12, <2>1 DEF ReadEvent, books
<1>13. ASSUME NEW r \in Requests, RewardPurchase(r) \/ RewardAffiliatePurchase(r) PROVE LimitInv'
  BY <1>13 DEF LimitInv, TypeOK, RewardPurchase, RewardAffiliatePurchase, GoTo, books, request
<1>14. CASE World
  BY <1>14 DEF LimitInv, World, SettlePowerRental, SettleFee, CancelPowerRental,
               SetMaxUnpaidOrders, SetGood, request
<1>15. CASE UNCHANGED vars
  BY <1>15 DEF LimitInv, vars, books, request
<1>16. QED
  BY <1>2, <1>3, <1>4, <1>5, <1>6, <1>7, <1>8, <1>9, <1>10, <1>11, <1>12, <1>13, <1>14, <1>15
     DEF Next, Handle, RunSaga

-----------------------------------------------------------------------------
LEMMA LimitValues == \A n \in Limits : n \in Nat /\ n <= MaxLimit
<1> SUFFICES ASSUME NEW n \in Limits PROVE n \in Nat /\ n <= MaxLimit
  OBVIOUS
<1>1. n \in 0..MaxLimit /\ MaxLimit \in Nat
  BY LimitsAssumption
<1>2. QED
  BY <1>1

LEMMA Subsets ==
  ASSUME NEW S, NEW T, S \subseteq Requests, T \subseteq S
  PROVE  /\ IsFiniteSet(S) /\ IsFiniteSet(T)
         /\ Cardinality(S) \in Nat /\ Cardinality(T) \in Nat
         /\ Cardinality(T) <= Cardinality(S)
<1>1. IsFiniteSet(S) /\ IsFiniteSet(T)
  BY LimitsAssumption, FS_Subset
<1>2. QED
  BY <1>1, FS_Subset, FS_CardinalityType

\* Counting the power rentals.  If the request may pass with f fees, then that
\* few orders wait that all the requests may write theirs.
LEMMA CountKeeps ==
  ASSUME TypeOK, LimitInv, UnpaidInv, NEW r \in Requests, CountPowerRentals(r)
  PROVE  UnpaidInv'
<1> SUFFICES ASSUME NEW f \in 0..waitingFees'
             PROVE  waitingRentals' + f + MaxOrders * Cardinality(Pending(f)')
                      <= MaxLimit - 1 + MaxOrders * Cardinality(Requests)
  BY DEF UnpaidInv
<1>1. /\ waitingRentals' = waitingRentals /\ waitingFees' = waitingFees
      /\ f \in 0..waitingFees /\ f \in Nat /\ waitingRentals \in Nat
  BY DEF CountPowerRentals, books, TypeOK
<1>2. Pending(f) \subseteq Requests /\ Pending(f)' \subseteq Requests
  BY DEF Pending, Passed, Eligible
<1>3. CASE waitingRentals + f < limit[r]
  <2>1. limit[r] \in Limits /\ limit[r] <= MaxLimit /\ limit[r] \in Nat
    <3>1. limit[r] \in Limits
      BY DEF LimitInv, CountPowerRentals
    <3>2. QED
      BY <3>1, LimitValues
  <2>2. /\ Cardinality(Pending(f)') \in Nat /\ Cardinality(Requests) \in Nat
        /\ Cardinality(Pending(f)') <= Cardinality(Requests)
    BY <1>2, Subsets
  <2>3. /\ MaxOrders * Cardinality(Pending(f)') <= MaxOrders * Cardinality(Requests)
        /\ MaxOrders * Cardinality(Pending(f)') \in Nat /\ MaxOrders * Cardinality(Requests) \in Nat
    BY <2>2, LimitsAssumption, Multiples
  <2>4. QED
    BY <1>1, <1>3, <2>1, <2>3, LimitsAssumption
<1>4. CASE ~(waitingRentals + f < limit[r])
  <2>1. Pending(f)' \subseteq Pending(f)
    BY <1>1, <1>4 DEF Pending, Passed, Eligible, CountPowerRentals, GoTo, TypeOK
  <2>2. /\ Cardinality(Pending(f)') \in Nat /\ Cardinality(Pending(f)) \in Nat
        /\ Cardinality(Requests) \in Nat /\ Cardinality(Pending(f)') <= Cardinality(Pending(f))
    BY <1>2, <2>1, Subsets
  <2>3. /\ MaxOrders * Cardinality(Pending(f)') <= MaxOrders * Cardinality(Pending(f))
        /\ MaxOrders * Cardinality(Pending(f)') \in Nat /\ MaxOrders * Cardinality(Pending(f)) \in Nat
        /\ MaxOrders * Cardinality(Requests) \in Nat
    BY <2>2, LimitsAssumption, Multiples
  <2>4. waitingRentals + f + MaxOrders * Cardinality(Pending(f))
          <= MaxLimit - 1 + MaxOrders * Cardinality(Requests)
    BY <1>1 DEF UnpaidInv
  <2>5. QED
    BY <1>1, <2>3, <2>4, LimitsAssumption
<1>5. QED
  BY <1>3, <1>4

\* Writing the orders of a request that was let through: it leaves the
\* pending ones and adds no more than it had been left room for.
LEMMA WriteKeeps ==
  ASSUME TypeOK, TypeOK', UnpaidInv, NEW r \in Requests, Write(r), Checked(ask[r])
  PROVE  UnpaidInv'
<1> SUFFICES ASSUME NEW f \in 0..waitingFees'
             PROVE  waitingRentals' + f + MaxOrders * Cardinality(Pending(f)')
                      <= MaxLimit - 1 + MaxOrders * Cardinality(Requests)
  BY DEF UnpaidInv
<1> DEFINE g == IF f <= waitingFees THEN f ELSE waitingFees
<1>1. PICK rentals \in 0..ask[r].rentals, fees \in 0..ask[r].fees :
         waitingRentals' = waitingRentals + rentals /\ waitingFees' = waitingFees + fees
  BY DEF Write
<1>2. /\ ask[r] \in Ask /\ ask[r].rentals + ask[r].fees \in 1..MaxOrders
      /\ ask[r].rentals \in Nat /\ ask[r].fees \in Nat
  <2>1. ask[r] \in Asks
    BY DEF Write, TypeOK
  <2>2. QED
    BY <2>1, LimitsAssumption DEF Ask
<1>3. /\ rentals \in Nat /\ fees \in Nat /\ rentals + fees <= MaxOrders
      /\ waitingRentals \in Nat /\ waitingFees \in Nat /\ f \in Nat
  BY <1>1, <1>2, LimitsAssumption DEF TypeOK
<1>4. g \in 0..waitingFees /\ g \in Nat /\ g <= f /\ f <= g + fees
  BY <1>1, <1>3
<1> HIDE DEF g
<1>5. r \in Pending(g)
  BY DEF Pending, Passed, Write
<1>6. Pending(f)' \subseteq Pending(g) \ {r}
  <2>1. pc' = [pc EXCEPT ![r] = pc'[r]] /\ pc'[r] \in {"idle", "committed"}
    BY DEF Write, End, GoTo, TypeOK
  <2>2. \A q \in Requests \ {r} : ask'[q] = ask[q] /\ seen'[q] = seen[q] /\ limit'[q] = limit[q]
    BY DEF Write, End, TypeOK, request
  <2>3. \A q \in Requests \ {r} : pc'[q] = pc[q]
    BY <2>1 DEF TypeOK
  <2>4. Passed' \subseteq Passed \ {r}
    BY <2>1, <2>2, <2>3 DEF Passed, Checked
  <2>5. Eligible(f)' \subseteq Eligible(g) \ {r}
    <3>1. SUFFICES ASSUME NEW q \in Requests, pc'[q] = "counting", seen'[q] + f < limit'[q]
                   PROVE  q # r /\ pc[q] = "counting" /\ seen[q] + g < limit[q]
      BY DEF Eligible
    <3>2. q # r
      BY <2>1, <3>1
    <3>3. seen[q] \in Nat /\ limit[q] \in Nat
      BY LimitValues DEF TypeOK
    <3>4. QED
      BY <1>3, <1>4, <2>2, <2>3, <3>1, <3>2, <3>3
  <2>6. QED
    BY <2>4, <2>5 DEF Pending
<1>7. /\ Cardinality(Pending(f)') \in Nat /\ Cardinality(Pending(g)) \in Nat
      /\ Cardinality(Requests) \in Nat /\ Cardinality(Pending(g)) # 0
      /\ Cardinality(Pending(f)') <= Cardinality(Pending(g)) - 1
  <2>1. Pending(g) \subseteq Requests
    BY DEF Pending, Passed, Eligible
  <2>2. IsFiniteSet(Pending(g)) /\ Cardinality(Pending(g)) \in Nat /\ Cardinality(Requests) \in Nat
    BY <2>1, Subsets
  <2>3. Cardinality(Pending(g) \ {r}) = Cardinality(Pending(g)) - 1 /\ Cardinality(Pending(g)) # 0
    BY <1>5, <2>2, FS_RemoveElement, FS_EmptySet
  <2>4. Cardinality(Pending(f)') <= Cardinality(Pending(g) \ {r}) /\ Cardinality(Pending(f)') \in Nat
    BY <1>6, <2>1, Subsets
  <2>5. QED
    BY <2>2, <2>3, <2>4
<1>8. /\ MaxOrders * Cardinality(Pending(f)') <= MaxOrders * Cardinality(Pending(g)) - MaxOrders
      /\ MaxOrders * Cardinality(Pending(f)') \in Nat /\ MaxOrders * Cardinality(Pending(g)) \in Nat
      /\ MaxOrders * Cardinality(Requests) \in Nat
  <2>1. Cardinality(Pending(g)) - 1 \in Nat
    BY <1>7
  <2>2. MaxOrders * Cardinality(Pending(f)') <= MaxOrders * (Cardinality(Pending(g)) - 1)
    BY <1>7, <2>1, LimitsAssumption, Multiples
  <2>3. QED
    BY <1>7, <2>2, LimitsAssumption, Multiples
<1>9. waitingRentals + g + MaxOrders * Cardinality(Pending(g))
        <= MaxLimit - 1 + MaxOrders * Cardinality(Requests)
  BY <1>4 DEF UnpaidInv
<1>10. QED
  BY <1>1, <1>3, <1>4, <1>8, <1>9, LimitsAssumption

LEMMA UnpaidPreserved ==
  ASSUME TypeOK, LimitInv, UnpaidInv, 0 \notin been, [Next]_vars
  PROVE  UnpaidInv'
<1> USE DEF Pending, Passed, Eligible
<1>0. TypeOK'
  BY TypeStep
<1> DEFINE Still == /\ waitingRentals' <= waitingRentals /\ waitingFees' <= waitingFees
                    /\ \A f \in 0..waitingFees' : Pending(f)' \subseteq Pending(f)
<1>1. ASSUME NEW r \in Requests, End(r), UNCHANGED books PROVE Still
  BY <1>1, EndQuiet
<1>2. ASSUME NEW r \in Requests, Begin(r) PROVE Still
  <2>1. /\ pc' = [pc EXCEPT ![r] = pc'[r]] /\ pc'[r] \in {"configured", "offered"}
        /\ \A q \in Requests \ {r} : ask'[q] = ask[q] /\ seen'[q] = seen[q] /\ limit'[q] = limit[q]
    BY <1>2 DEF Begin, GoTo, TypeOK
  <2>2. QED
    BY <1>2, <2>1 DEF TypeOK, Begin, books
<1>3. ASSUME NEW r \in Requests, ReadGood(r) PROVE Still
  BY <1>3 DEF TypeOK, ReadGood, GoTo, books
<1>4. ASSUME NEW r \in Requests, PassUnchecked(r) PROVE Still
  BY <1>4 DEF TypeOK, PassUnchecked, GoTo, books, request
<1>5. ASSUME NEW r \in Requests, PassUnlimited(r) PROVE FALSE
  BY <1>5 DEF PassUnlimited, LimitInv
<1>6. ASSUME NEW r \in Requests, CountPowerRentals(r) PROVE UnpaidInv'
  BY <1>6, CountKeeps
<1>7. ASSUME NEW r \in Requests, CountFees(r) PROVE Still
  <2>1. CASE seen[r] + waitingFees < limit[r]
    <3>1. \A f \in 0..waitingFees : r \in Pending(f)
      BY <1>7, <2>1, LimitValues DEF TypeOK, CountFees
    <3>2. QED
      BY <1>7, <2>1, <3>1 DEF TypeOK, CountFees, Counted, GoTo, books, request
  <2>2. QED
    BY <1>1, <1>7, <2>1 DEF CountFees
<1>8. ASSUME NEW r \in Requests, CheckUnits(r) PROVE Still
  <2>1. CASE GoTo(r, "working") /\ UNCHANGED <<request, wrote, rewards>>
    BY <1>8, <2>1 DEF LimitInv, TypeOK, CheckUnits, GoTo, books, request
  <2>2. QED
    BY <1>1, <1>8, <2>1 DEF CheckUnits
<1>9. ASSUME NEW r \in Requests, GiveUp(r) \/ SagaFails(r) \/ Answer(r) PROVE Still
  BY <1>1, <1>9 DEF GiveUp, SagaFails, Answer
<1>10. ASSUME NEW r \in Requests, Submit(r) PROVE Still
  BY <1>10 DEF TypeOK, Submit, GoTo, books, request
<1>11. ASSUME NEW r \in Requests, Write(r) PROVE UnpaidInv'
  <2>1. CASE Checked(ask[r])
    BY <1>0, <1>11, <2>1, WriteKeeps
  <2>2. CASE ~Checked(ask[r])
    <3>1. PICK rentals \in 0..ask[r].rentals, fees \in 0..ask[r].fees :
             /\ rentals + fees = 0
             /\ waitingRentals' = waitingRentals + rentals /\ waitingFees' = waitingFees + fees
      BY <1>11, <2>2 DEF Write
    <3>2. rentals \in Int /\ fees \in Int /\ rentals >= 0 /\ fees >= 0
      OBVIOUS
    <3>3. waitingRentals' = waitingRentals /\ waitingFees' = waitingFees
      BY <3>1, <3>2 DEF TypeOK
    <3>4. CASE End(r)
      BY <3>3, <3>4, <1>0, Quiet DEF TypeOK, End, GoTo
    <3>5. CASE GoTo(r, "committed") /\ UNCHANGED <<request, rewards>>
      BY <3>3, <3>5, <1>0, Quiet DEF TypeOK, GoTo, request
    <3>6. QED
      BY <1>11, <3>4, <3>5 DEF Write
  <2>3. QED
    BY <2>1, <2>2
<1>12. ASSUME NEW r \in Requests, ReadEvent(r) PROVE Still
  <2>1. CASE GoTo(r, "rewarding") /\ UNCHANGED <<request, wrote, rewards>>
    BY <1>12, <2>1 DEF TypeOK, ReadEvent, GoTo, books, request
  <2>2. QED
    BY <1>1, <1>12, <2>1 DEF ReadEvent
<1>13. ASSUME NEW r \in Requests, RewardPurchase(r) \/ RewardAffiliatePurchase(r) PROVE Still
  BY <1>13 DEF TypeOK, RewardPurchase, RewardAffiliatePurchase, GoTo, books, request
<1>14. ASSUME World PROVE Still
  BY <1>14 DEF TypeOK, World, SettlePowerRental, SettleFee, CancelPowerRental,
               SetMaxUnpaidOrders, SetGood, request
<1>15. ASSUME UNCHANGED vars PROVE Still
  BY <1>15 DEF TypeOK, vars, books, request
<1>16. ASSUME Still PROVE UnpaidInv'
  BY <1>0, <1>16, Quiet
<1> HIDE DEF Still
<1>17. QED
  BY <1>2, <1>3, <1>4, <1>5, <1>6, <1>7, <1>8, <1>9, <1>10, <1>11, <1>12, <1>13, <1>14, <1>15,
     <1>16 DEF Next, Handle, RunSaga

-----------------------------------------------------------------------------
\* Nobody joins or leaves those who may still buy, and nothing more is bought.
LEMMA UnitsQuiet ==
  ASSUME TypeOK, TypeOK', UnitsInv, Buyers' = Buyers, bought' <= bought,
         \A q \in Buyers : ask'[q] = ask[q]
  PROVE  UnitsInv'
<1>1. bought \in Nat /\ bought' \in Nat /\ Room \in Int /\ Room' = Room
  <2>1. Cardinality(Requests) \in Nat
    BY LimitsAssumption, FS_CardinalityType
  <2>2. QED
    BY <2>1, LimitsAssumption DEF TypeOK, Room
<1>2. \A r \in Buyers : ask'[r].units = ask[r].units /\ ask[r].units \in Nat
  BY LimitsAssumption DEF TypeOK, Ask, Buyers
<1>3. Cardinality(Buyers) \in Nat
  BY Subsets DEF Buyers
<1>4. MaxUnits * (Cardinality(Buyers) - 1) \in Int
  BY <1>3, LimitsAssumption
<1>5. CASE Buyers = {} /\ bought <= Room
  BY <1>1, <1>5 DEF UnitsInv
<1>6. ASSUME NEW r \in Buyers, bought + ask[r].units + MaxUnits * (Cardinality(Buyers) - 1) <= Room
      PROVE  UnitsInv'
  <2>1. bought' + ask'[r].units + MaxUnits * (Cardinality(Buyers) - 1) <= Room
    BY <1>1, <1>2, <1>4, <1>6
  <2>2. \A q \in Buyers : ask'[q].units <= MaxUnits
    BY <1>2 DEF UnitsInv
  <2>3. QED
    BY <1>1, <2>1, <2>2 DEF UnitsInv
<1>7. QED
  BY <1>5, <1>6 DEF UnitsInv

\* One of them leaves, having bought what it asked for or not.
LEMMA UnitsLeave ==
  ASSUME TypeOK, TypeOK', UnitsInv, NEW r \in Buyers, Buyers' = Buyers \ {r},
         bought' \in {bought, bought + ask[r].units},
         \A q \in Buyers' : ask'[q] = ask[q]
  PROVE  UnitsInv'
<1> DEFINE n == Cardinality(Buyers)
<1>1. bought \in Nat /\ bought' \in Nat /\ Room \in Int /\ Room' = Room /\ MaxUnits \in Nat
  <2>1. Cardinality(Requests) \in Nat
    BY LimitsAssumption, FS_CardinalityType
  <2>2. QED
    BY <2>1, LimitsAssumption DEF TypeOK, Room
<1>2. \A q \in Buyers : ask[q].units \in Nat /\ ask[q].units <= MaxUnits
  BY LimitsAssumption DEF TypeOK, Ask, Buyers, UnitsInv
<1>3. \A q \in Buyers' : ask'[q].units = ask[q].units /\ q \in Buyers
  OBVIOUS
<1>4. n \in Nat /\ n # 0 /\ Cardinality(Buyers') = n - 1
  <2>1. IsFiniteSet(Buyers) /\ n \in Nat
    BY Subsets DEF Buyers
  <2>2. QED
    BY <2>1, FS_RemoveElement, FS_EmptySet
<1>5. bought' <= bought + ask[r].units /\ bought' <= bought + MaxUnits
  BY <1>1, <1>2
<1>6. PICK w \in Buyers : bought + ask[w].units + MaxUnits * (n - 1) <= Room
  BY DEF UnitsInv
<1> HIDE DEF n
<1>7. MaxUnits * (n - 1) \in Nat /\ (n # 1 => MaxUnits * (n - 2) = MaxUnits * (n - 1) - MaxUnits)
  BY <1>1, <1>4
<1>8. CASE Buyers' = {}
  <2>1. w = r
    BY <1>8
  <2>2. bought' <= Room
    BY <1>1, <1>2, <1>5, <1>6, <1>7, <2>1
  <2>3. QED
    BY <1>1, <1>8, <2>2 DEF UnitsInv
<1>9. CASE Buyers' # {}
  <2>1. n # 1
    <3>1. IsFiniteSet(Buyers')
      BY Subsets DEF Buyers
    <3>2. QED
      BY <1>4, <1>9, <3>1, FS_EmptySet
  <2>2. PICK q \in Buyers' : w # r => q = w
    BY <1>9
  <2>3. bought' + ask[q].units <= bought + ask[w].units + MaxUnits
    <3>1. CASE w = r
      BY <1>1, <1>2, <1>3, <1>5, <3>1
    <3>2. CASE w # r
      BY <1>1, <1>2, <1>3, <1>5, <2>2, <3>2
    <3>3. QED
      BY <3>1, <3>2
  <2>4. bought' + ask'[q].units + MaxUnits * (Cardinality(Buyers') - 1) <= Room'
    <3>1. n - 1 - 1 = n - 2
      BY <1>4
    <3>2. ask[q].units \in Nat /\ ask[w].units \in Nat /\ ask'[q].units = ask[q].units
      BY <1>2, <1>3
    <3>3. bought' + ask[q].units + MaxUnits * (n - 2) <= Room
      BY <1>1, <1>6, <1>7, <2>1, <2>3, <3>2
    <3>4. QED
      BY <1>1, <1>4, <3>1, <3>2, <3>3
  <2>5. QED
    BY <1>2, <1>3, <2>4 DEF UnitsInv
<1>10. QED
  BY <1>8, <1>9

\* One joins: what had been bought before leaves room for all of them.
LEMMA UnitsJoin ==
  ASSUME TypeOK, TypeOK', UnitsInv, NEW r \in Requests, r \notin Buyers, Buyers' = Buyers \cup {r},
         bought' = bought, ask' = ask, ask[r].units <= MaxUnits, ask[r].units + bought <= MaxAmount
  PROVE  UnitsInv'
<1>1. bought \in Nat /\ MaxUnits \in Nat /\ MaxAmount \in Nat /\ Room' = Room
  BY LimitsAssumption DEF TypeOK, Room
<1>2. /\ Cardinality(Buyers') \in Nat /\ Cardinality(Requests) \in Nat
      /\ Cardinality(Buyers') <= Cardinality(Requests) /\ Cardinality(Buyers') # 0
  <2>1. Buyers' \subseteq Requests
    BY DEF Buyers
  <2>2. IsFiniteSet(Buyers')
    BY <2>1, Subsets
  <2>3. QED
    BY <2>1, <2>2, Subsets, FS_EmptySet
<1>3. MaxUnits * (Cardinality(Buyers') - 1) <= MaxUnits * (Cardinality(Requests) - 1)
  <2>1. Cardinality(Buyers') - 1 \in Nat /\ Cardinality(Requests) - 1 \in Nat
    BY <1>2
  <2>2. QED
    BY <1>1, <1>2, <2>1, Multiples
<1>4. ask[r].units \in Nat
  BY LimitsAssumption DEF TypeOK, Ask, UnitsInv, Buyers
<1>5. bought' + ask'[r].units + MaxUnits * (Cardinality(Buyers') - 1) <= Room'
  <2>1. MaxUnits * (Cardinality(Buyers') - 1) \in Int /\ MaxUnits * (Cardinality(Requests) - 1) \in Int
    BY <1>1, <1>2
  <2>2. QED
    BY <1>1, <1>3, <1>4, <2>1 DEF Room
<1>6. QED
  BY <1>5 DEF UnitsInv

LEMMA UnitsPreserved ==
  ASSUME TypeOK, LimitInv, UnitsInv, [Next]_vars
  PROVE  UnitsInv'
<1>0. TypeOK'
  BY TypeStep
<1> DEFINE Same == Buyers' = Buyers /\ bought' <= bought /\ \A q \in Buyers : ask'[q] = ask[q]
<1>1. ASSUME NEW r \in Requests, pc'[r] \notin {"working", "saga"},
             \A q \in Requests \ {r} : pc'[q] = pc[q] /\ ask'[q] = ask[q],
             \/ bought' = bought
             \/ r \in Buyers /\ bought' = bought + ask[r].units
      PROVE  UnitsInv'
  <2>1. Buyers' = Buyers \ {r} /\ \A q \in Buyers' : ask'[q] = ask[q]
    BY <1>1 DEF Buyers, Checked
  <2>2. CASE r \in Buyers
    BY <1>0, <1>1, <2>1, <2>2, UnitsLeave
  <2>3. CASE r \notin Buyers
    <3>1. Buyers' = Buyers /\ bought' <= bought
      BY <1>1, <2>1, <2>3 DEF TypeOK
    <3>2. QED
      BY <1>0, <2>1, <3>1, UnitsQuiet
  <2>4. QED
    BY <2>2, <2>3
<1>2. ASSUME NEW r \in Requests, End(r), UNCHANGED books PROVE UnitsInv'
  <2>1. /\ pc'[r] = "idle" /\ bought' = bought
        /\ \A q \in Requests \ {r} : pc'[q] = pc[q] /\ ask'[q] = ask[q]
    BY <1>2 DEF End, GoTo, TypeOK, books
  <2>2. QED
    BY <1>1, <2>1
<1>3. ASSUME NEW r \in Requests, Begin(r) PROVE UnitsInv'
  <2>1. /\ pc'[r] \in {"configured", "offered"} /\ bought' = bought
        /\ \A q \in Requests \ {r} : pc'[q] = pc[q] /\ ask'[q] = ask[q]
    BY <1>3 DEF Begin, GoTo, TypeOK, books
  <2>2. QED
    BY <1>1, <2>1
<1>4. ASSUME NEW r \in Requests, ReadGood(r) \/ CountPowerRentals(r) PROVE Same
  BY <1>4 DEF ReadGood, CountPowerRentals, GoTo, TypeOK, books, Buyers
<1>5. ASSUME NEW r \in Requests, PassUnchecked(r) PROVE Same
  BY <1>5 DEF PassUnchecked, GoTo, TypeOK, books, request, Buyers
<1>6. ASSUME NEW r \in Requests, PassUnlimited(r) PROVE Same
  BY <1>6 DEF PassUnlimited, Counted, GoTo, TypeOK, books, request, Buyers
<1>7. ASSUME NEW r \in Requests, CountFees(r) PROVE UnitsInv'
  <2>1. CASE Counted(r) /\ UNCHANGED <<request, wrote, rewards>>
    <3>1. Same
      BY <1>7, <2>1 DEF CountFees, Counted, GoTo, TypeOK, books, request, Buyers
    <3>2. QED
      BY <1>0, <3>1, UnitsQuiet
  <2>2. QED
    BY <1>2, <1>7, <2>1 DEF CountFees
<1>8. ASSUME NEW r \in Requests, CheckUnits(r) PROVE UnitsInv'
  <2>1. CASE /\ ask[r].units <= offer[r].max /\ ask[r].units + bought <= offer[r].user
             /\ GoTo(r, "working") /\ UNCHANGED <<request, wrote, rewards>>
    <3>1. ask[r] \in Ask /\ offer[r] \in Good /\ Checked(ask[r]) /\ ask[r].rentals = 1
      BY <1>8, LimitsAssumption DEF CheckUnits, LimitInv, TypeOK
    <3>2. /\ ask[r].units \in Nat /\ offer[r].max \in 0..MaxUnits /\ offer[r].user \in 0..MaxAmount
          /\ MaxUnits \in Nat /\ MaxAmount \in Nat /\ bought \in Nat
      BY <3>1, LimitsAssumption DEF Ask, Good, TypeOK
    <3>3. ask[r].units <= MaxUnits /\ ask[r].units + bought <= MaxAmount
      BY <2>1, <3>2
    <3>4. /\ r \notin Buyers /\ Buyers' = Buyers \cup {r}
          /\ bought' = bought /\ ask' = ask
      BY <1>8, <2>1, <3>1 DEF CheckUnits, GoTo, TypeOK, books, request, Buyers
    <3>5. QED
      BY <1>0, <3>3, <3>4, UnitsJoin
  <2>2. QED
    BY <1>2, <1>8, <2>1 DEF CheckUnits
<1>9. ASSUME NEW r \in Requests, GiveUp(r) \/ SagaFails(r) \/ Answer(r) PROVE UnitsInv'
  BY <1>2, <1>9 DEF GiveUp, SagaFails, Answer
<1>10. ASSUME NEW r \in Requests, Submit(r) PROVE Same
  BY <1>10 DEF Submit, GoTo, TypeOK, books, request, Buyers
<1>11. ASSUME NEW r \in Requests, Write(r) PROVE UnitsInv'
  <2>1. /\ pc'[r] \in {"idle", "committed"}
        /\ \A q \in Requests \ {r} : pc'[q] = pc[q] /\ ask'[q] = ask[q]
    <3>1. CASE End(r)
      BY <3>1 DEF End, GoTo, TypeOK
    <3>2. CASE GoTo(r, "committed") /\ UNCHANGED <<request, rewards>>
      BY <3>2 DEF GoTo, TypeOK, request
    <3>3. QED
      BY <1>11, <3>1, <3>2 DEF Write
  <2>2. bought' = bought \/ (r \in Buyers /\ bought' = bought + ask[r].units)
    BY <1>11 DEF Write, Buyers
  <2>3. QED
    BY <1>1, <2>1, <2>2
<1>12. ASSUME NEW r \in Requests, ReadEvent(r) PROVE UnitsInv'
  <2>1. CASE GoTo(r, "rewarding") /\ UNCHANGED <<request, wrote, rewards>>
    <3>1. Same
      BY <1>12, <2>1 DEF ReadEvent, GoTo, TypeOK, books, request, Buyers
    <3>2. QED
      BY <1>0, <3>1, UnitsQuiet
  <2>2. QED
    BY <1>2, <1>12, <2>1 DEF ReadEvent
<1>13. ASSUME NEW r \in Requests, RewardPurchase(r) \/ RewardAffiliatePurchase(r) PROVE Same
  BY <1>13 DEF RewardPurchase, RewardAffiliatePurchase, GoTo, TypeOK, books, request, Buyers
<1>14. ASSUME World PROVE Same
  BY <1>14 DEF World, SettlePowerRental, SettleFee, CancelPowerRental, SetMaxUnpaidOrders,
               SetGood, TypeOK, request, Buyers, Checked
<1>15. ASSUME UNCHANGED vars PROVE Same
  BY <1>15 DEF vars, TypeOK, books, request, Buyers, Checked
<1>16. ASSUME Same PROVE UnitsInv'
  BY <1>0, <1>16, UnitsQuiet
<1> HIDE DEF Same
<1>17. QED
  BY <1>3, <1>4, <1>5, <1>6, <1>7, <1>8, <1>9, <1>10, <1>11, <1>12, <1>13, <1>14, <1>15, <1>16
     DEF Next, Handle, RunSaga

-----------------------------------------------------------------------------
\* An order is paid for when it is rewarded: what the messages follow from.
RewardInv ==
    \A r \in Requests :
        /\ pc[r] \in {"committed", "rewarding", "affiliate", "answering"} => wrote[r]
        /\ pc[r] \in {"rewarding", "affiliate", "answering"} => Rewarded(ask[r])
        /\ rewards[r] # {} => pc[r] \in {"affiliate", "answering"}

LEMMA RewardPreserved ==
  ASSUME TypeOK, RewardInv, [Next]_vars
  PROVE  RewardInv'
<1>1. ASSUME NEW r \in Requests, End(r) PROVE RewardInv'
  BY <1>1 DEF RewardInv, TypeOK, End, GoTo, Rewarded
<1>2. ASSUME NEW r \in Requests, pc[r] \in Places \ {"affiliate", "answering"},
             pc'[r] \in Places \ {"committed", "rewarding", "affiliate", "answering"},
             \A q \in Requests \ {r} : pc'[q] = pc[q] /\ ask'[q] = ask[q],
             wrote' = wrote, rewards' = rewards
      PROVE  RewardInv'
  BY <1>2 DEF RewardInv, Rewarded
<1>3. ASSUME NEW r \in Requests, Begin(r) PROVE RewardInv'
  <2>1. PICK a \in Asks :
           /\ ask' = [ask EXCEPT ![r] = a]
           /\ GoTo(r, IF a.rentals = 1 THEN "configured" ELSE "offered")
    BY <1>3 DEF Begin
  <2>2. QED
    BY <1>2, <1>3, <2>1 DEF TypeOK, Begin, GoTo, Places
<1>4. ASSUME NEW r \in Requests, ReadGood(r) \/ CountPowerRentals(r) PROVE RewardInv'
  BY <1>2, <1>4 DEF ReadGood, CountPowerRentals, GoTo, TypeOK, Places
<1>5. ASSUME NEW r \in Requests, PassUnchecked(r) \/ PassUnlimited(r) \/ Submit(r) PROVE RewardInv'
  BY <1>2, <1>5 DEF PassUnchecked, PassUnlimited, Submit, Counted, GoTo, TypeOK, Places, request
<1>6. ASSUME NEW r \in Requests, CountFees(r) PROVE RewardInv'
  <2>1. CASE Counted(r) /\ UNCHANGED <<request, wrote, rewards>>
    BY <1>2, <1>6, <2>1 DEF CountFees, Counted, GoTo, TypeOK, Places, request
  <2>2. QED
    BY <1>1, <1>6, <2>1 DEF CountFees
<1>7. ASSUME NEW r \in Requests, CheckUnits(r) PROVE RewardInv'
  <2>1. CASE GoTo(r, "working") /\ UNCHANGED <<request, wrote, rewards>>
    BY <1>2, <1>7, <2>1 DEF CheckUnits, GoTo, TypeOK, Places, request
  <2>2. QED
    BY <1>1, <1>7, <2>1 DEF CheckUnits
<1>8. ASSUME NEW r \in Requests, GiveUp(r) \/ SagaFails(r) \/ Answer(r) PROVE RewardInv'
  BY <1>1, <1>8 DEF GiveUp, SagaFails, Answer
<1>9. ASSUME NEW r \in Requests, Write(r) PROVE RewardInv'
  <2>1. CASE /\ GoTo(r, "committed")
             /\ wrote' = [wrote EXCEPT ![r] = TRUE]
             /\ UNCHANGED <<request, rewards>>
    BY <1>9, <2>1 DEF RewardInv, Write, GoTo, TypeOK, request, Rewarded
  <2>2. QED
    BY <1>1, <1>9, <2>1 DEF Write
<1>10. ASSUME NEW r \in Requests, ReadEvent(r) PROVE RewardInv'
  <2>1. CASE GoTo(r, "rewarding") /\ UNCHANGED <<request, wrote, rewards>>
    BY <1>10, <2>1 DEF RewardInv, ReadEvent, GoTo, TypeOK, request, Rewarded
  <2>2. QED
    BY <1>1, <1>10, <2>1 DEF ReadEvent
<1>11. ASSUME NEW r \in Requests, RewardPurchase(r) PROVE RewardInv'
  BY <1>11 DEF RewardInv, RewardPurchase, Publish, GoTo, TypeOK, request, Rewarded
<1>12. ASSUME NEW r \in Requests, RewardAffiliatePurchase(r) PROVE RewardInv'
  BY <1>12 DEF RewardInv, RewardAffiliatePurchase, Publish, GoTo, TypeOK, request, Rewarded
<1>13. CASE World
  BY <1>13 DEF RewardInv, World, SettlePowerRental, SettleFee, CancelPowerRental,
               SetMaxUnpaidOrders, SetGood, request, Rewarded
<1>14. CASE UNCHANGED vars
  BY <1>14 DEF RewardInv, vars, request, Rewarded
<1>15. QED
  BY <1>3, <1>4, <1>5, <1>6, <1>7, <1>8, <1>9, <1>10, <1>11, <1>12, <1>13, <1>14
     DEF Next, Handle, RunSaga

-----------------------------------------------------------------------------
LEMMA OnceNoLimit ==
  ASSUME 0 \in been, [Next]_vars
  PROVE  0 \in been'
BY DEF Next, Handle, RunSaga, World, vars, books, Begin, ReadGood, PassUnchecked, PassUnlimited,
       CountPowerRentals, CountFees, CheckUnits, GiveUp, Submit, Write, SagaFails, ReadEvent,
       RewardPurchase, RewardAffiliatePurchase, Answer, SettlePowerRental, SettleFee,
       CancelPowerRental, SetMaxUnpaidOrders, SetGood

LEMMA InitInv == Init => TypeOK /\ LimitInv /\ UnpaidInv /\ UnitsInv /\ RewardInv
<1> SUFFICES ASSUME Init PROVE TypeOK /\ LimitInv /\ UnpaidInv /\ UnitsInv /\ RewardInv
  OBVIOUS
<1>1. TypeOK
  BY LimitsAssumption DEF Init, TypeOK, Places
<1>2. LimitInv /\ RewardInv
  BY DEF Init, LimitInv, RewardInv
<1>3. Cardinality(Requests) \in Nat /\ Cardinality(Requests) # 0
  BY LimitsAssumption, FS_CardinalityType, FS_EmptySet
<1>4. UnpaidInv
  <2>1. SUFFICES ASSUME NEW f \in 0..0
                 PROVE  0 + f + MaxOrders * Cardinality(Pending(f))
                          <= MaxLimit - 1 + MaxOrders * Cardinality(Requests)
    BY DEF UnpaidInv, Init
  <2>2. Pending(f) = {}
    BY DEF Init, Pending, Passed, Eligible
  <2>3. Cardinality(Pending(f)) = 0
    BY <2>2, FS_EmptySet
  <2>4. MaxOrders * Cardinality(Requests) \in Nat /\ MaxLimit \in Nat \ {0} /\ MaxOrders \in Nat
    BY <1>3, LimitsAssumption
  <2>5. QED
    BY <2>3, <2>4
<1>5. UnitsInv
  <2>1. Buyers = {}
    BY DEF Init, Buyers
  <2>2. MaxUnits * (Cardinality(Requests) - 1) \in Nat /\ MaxAmount \in Nat
    <3>1. Cardinality(Requests) - 1 \in Nat
      BY <1>3
    <3>2. QED
      BY <3>1, LimitsAssumption, Multiples
  <2>3. QED
    BY <2>1, <2>2 DEF Init, UnitsInv, Room
<1>6. QED
  BY <1>1, <1>2, <1>4, <1>5

\* ValidateMaxUnpaidOrders limits the orders that wait: as long as the
\* configuration has always set a limit, no more wait than the largest limit
\* lets through and the requests under way at once create.
THEOREM UnpaidBounded == Spec => []UnpaidBound
<1> DEFINE IInv == TypeOK /\ LimitInv /\ (0 \in been \/ UnpaidInv)
<1>1. Init => IInv
  BY InitInv
<1>2. IInv /\ [Next]_vars => IInv'
  <2> SUFFICES ASSUME IInv, [Next]_vars PROVE IInv'
    OBVIOUS
  <2>1. TypeOK' /\ LimitInv'
    BY TypeStep, LimitPreserved
  <2>2. CASE 0 \notin been
    BY <2>1, <2>2, UnpaidPreserved
  <2>3. CASE 0 \in been
    BY <2>1, <2>3, OnceNoLimit
  <2>4. QED
    BY <2>2, <2>3
<1>3. IInv => UnpaidBound
  <2> SUFFICES ASSUME TypeOK, UnpaidInv PROVE UnpaidBound
    BY DEF UnpaidBound
  <2>1. waitingFees \in 0..waitingFees /\ waitingRentals \in Nat /\ waitingFees \in Nat
    BY DEF TypeOK
  <2>2. waitingRentals + waitingFees + MaxOrders * Cardinality(Pending(waitingFees))
          <= MaxLimit - 1 + MaxOrders * Cardinality(Requests)
    BY <2>1 DEF UnpaidInv
  <2>3. Pending(waitingFees) \subseteq Requests
    BY DEF Pending, Passed, Eligible
  <2>4. Cardinality(Pending(waitingFees)) \in Nat /\ Cardinality(Requests) \in Nat
    BY <2>3, Subsets
  <2>5. MaxOrders * Cardinality(Pending(waitingFees)) \in Nat
    BY <2>4, LimitsAssumption
  <2>6. MaxOrders * Cardinality(Requests) \in Nat
    BY <2>4, LimitsAssumption
  <2>7. QED
    BY <2>1, <2>2, <2>5, <2>6, LimitsAssumption DEF UnpaidBound
<1>4. QED
  <2> HIDE DEF IInv
  <2>1. QED
    BY <1>1, <1>2, <1>3, PTL DEF Spec

\* validateOrderUnits limits the units a user buys: beyond the largest
\* MaxUserAmount he has no more than what all but one of the requests under way
\* at once may ask for.
THEOREM UnitsBounded == Spec => []UnitsBound
<1>1. Init => TypeOK /\ LimitInv /\ UnitsInv
  BY InitInv
<1>2. TypeOK /\ LimitInv /\ UnitsInv /\ [Next]_vars => (TypeOK /\ LimitInv /\ UnitsInv)'
  BY TypeStep, LimitPreserved, UnitsPreserved
<1>3. TypeOK /\ UnitsInv => UnitsBound
  <2> SUFFICES ASSUME TypeOK, UnitsInv PROVE bought <= Room
    BY DEF UnitsBound, Room
  <2>1. CASE Buyers = {} /\ bought <= Room
    BY <2>1
  <2>2. ASSUME NEW r \in Buyers, bought + ask[r].units + MaxUnits * (Cardinality(Buyers) - 1) <= Room
        PROVE  bought <= Room
    <3>1. IsFiniteSet(Buyers) /\ Cardinality(Buyers) \in Nat /\ Cardinality(Requests) \in Nat
      BY Subsets DEF Buyers
    <3>2. Cardinality(Buyers) - 1 \in Nat
      BY <3>1, FS_EmptySet
    <3>3. MaxUnits * (Cardinality(Buyers) - 1) \in Nat
      BY <3>2, LimitsAssumption, Multiples
    <3>4. ask[r].units \in Nat /\ bought \in Nat /\ Room \in Int
      BY <3>1, LimitsAssumption DEF TypeOK, Ask, Buyers, Room
    <3>5. QED
      BY <2>2, <3>3, <3>4
  <2>3. QED
    BY <2>1, <2>2 DEF UnitsInv
<1>4. QED
  BY <1>1, <1>2, <1>3, PTL DEF Spec

\* What is published after the saga (rewardPurchase, rewardAffiliatePurchase)
\* is for an order that stands and that the limits applied to.
THEOREM RewardsAfterOrders == Spec => []RewardsFollowOrders
<1>1. Init => TypeOK /\ RewardInv
  BY InitInv
<1>2. TypeOK /\ RewardInv /\ [Next]_vars => (TypeOK /\ RewardInv)'
  BY TypeStep, RewardPreserved
<1>3. RewardInv => RewardsFollowOrders
  BY DEF RewardInv, RewardsFollowOrders, Rewarded, Checked
<1>4. QED
  BY <1>1, <1>2, <1>3, PTL DEF Spec

\* What is proved of OrderLimits holds in the company of a timed creation too:
\* each behaviour of the two is one of OrderLimits, which stands still while the
\* other goes on (getAppPowerRental and ValidateMaxUnpaidOrders do not depend on
\* prices and starts).
THEOREM LimitsKept == SpecEither => [](UnpaidBound /\ UnitsBound /\ RewardsFollowOrders)
<1>1. InitEither => Init
  BY DEF InitEither
<1>2. [NextEither]_<<vars, timedVars>> => [Next]_vars
  BY DEF NextEither
<1>3. SpecEither => Spec
  BY <1>1, <1>2, PTL DEF SpecEither, Spec
<1>4. QED
  BY <1>3, UnpaidBounded, UnitsBounded, RewardsAfterOrders, PTL

-----------------------------------------------------------------------------
\* The times of one creation.

TimedType ==
    /\ now \in Nat \ {0}
    /\ updatedAt \in [Feeds -> Int]
    /\ kind \in {"powerRental", "fee", "none"}
    /\ timedOffer \in Times!Good
    /\ leftAt \in Nat /\ begunAt \in Nat /\ startAt \in Nat /\ writtenAt \in Nat
    /\ kind = "none" => timedPc = "refused"

\* What has been read is not older than the creation's first call allows, and
\* what was to come after it was still to come when it was read.
TimedInv ==
    /\ timedPc \in Times!InFlight => begunAt <= now /\ now <= begunAt + Delay
    /\ timedPc = "written" => writtenAt <= begunAt + Delay
    /\ timedPc \in {"building", "paying", "saga", "written"} =>
          \A c \in DOMAIN priced : priced[c] \in Int /\ priced[c] + MaxAge >= begunAt
    /\ timedPc \in {"saga", "written"} => used \subseteq DOMAIN priced
    /\ timedPc \in Times!InFlight \cup {"written"} /\ kind = "fee" =>
          parent \in Times!Served \/ (leftAt > 0 /\ leftAt >= begunAt)
    /\ timedPc \in {"paying", "saga", "written"} /\ kind = "powerRental" =>
          /\ startAt >= begunAt /\ startAt >= timedOffer.serviceStartAt
          /\ timedOffer.mode = "Instantly" => startAt >= begunAt + Lead

LEMMA TimedInit == Times!Init \/ NoTimedCreation => TimedType /\ TimedInv
<1> USE TimesAssumption
<1>1. Times!NoGood \in Times!Good
  BY DEF Times!NoGood, Times!Good, Times!Modes
<1>2. ASSUME Times!Init PROVE TimedType /\ TimedInv
  <2>1. now \in Nat \ {0} /\ updatedAt \in [Feeds -> Int]
    BY <1>2 DEF Times!Init
  <2>2. TimedType
    BY <1>1, <1>2, <2>1 DEF Times!Init, TimedType
  <2>3. TimedInv
    BY <1>2 DEF Times!Init, TimedInv, Times!InFlight
  <2>4. QED
    BY <2>2, <2>3
<1>3. ASSUME NoTimedCreation PROVE TimedType /\ TimedInv
  <2>1. now \in Nat \ {0} /\ updatedAt \in [Feeds -> Int]
    BY <1>3 DEF NoTimedCreation
  <2>2. TimedType
    BY <1>1, <1>3, <2>1 DEF NoTimedCreation, TimedType
  <2>3. TimedInv
    BY <1>3 DEF NoTimedCreation, TimedInv, Times!InFlight
  <2>4. QED
    BY <2>2, <2>3
<1>4. QED
  BY <1>2, <1>3

\* A price that is kept is one of the rows that were found.
LEMMA KeptPrices ==
  ASSUME TimedType, NEW rows \in Times!Rows(coins), NEW p \in Times!Kept(rows), NEW c \in DOMAIN p
  PROVE  p[c] \in Int /\ \E f \in rows : p[c] = updatedAt[f]
<1>1. rows \subseteq Feeds
  BY DEF Times!Rows, Times!kSubset
<1>2. PICK f \in rows : updatedAt[f] = p[c]
  BY DEF Times!Kept
<1>3. QED
  BY <1>1, <1>2 DEF TimedType

\* A start is no earlier than the good's service nor than the next day or the
\* lead of an instant one.
LEMMA LaterOfTwo ==
  ASSUME NEW a \in Nat, NEW b \in Nat
  PROVE  Times!Max({a, b}) \in Nat /\ Times!Max({a, b}) >= a /\ Times!Max({a, b}) >= b
<1>1. \E x \in {a, b} : \A y \in {a, b} : x >= y
  OBVIOUS
<1>2. Times!Max({a, b}) \in {a, b} /\ \A y \in {a, b} : Times!Max({a, b}) >= y
  BY <1>1 DEF Times!Max
<1>3. QED
  BY <1>2

LEMMA EarliestType ==
  ASSUME TimedType
  PROVE  /\ Times!Earliest \in Nat
         /\ timedOffer.mode = "Instantly" => Times!Earliest = now + Lead
<1>1. timedOffer.serviceStartAt \in Nat /\ now \in Nat /\ now + Lead \in Nat
  BY TimesAssumption DEF TimedType, Times!Good
<1>2. Times!TomorrowStart \in Nat
  <2>1. now \div Day \in Nat
    BY <1>1, TimesAssumption
  <2>2. now \div Day + 1 \in Nat
    BY <2>1
  <2>3. QED
    BY <2>2, TimesAssumption, Multiples DEF Times!TomorrowStart
<1>3. QED
  BY <1>1, <1>2, Zenon DEF Times!Earliest

\* A step of the clock, of a feed or of the parent, which reads nothing.
LEMMA WorldStep ==
  ASSUME TimedType, TimedInv, Times!World
  PROVE  (TimedType /\ TimedInv)'
<1> USE TimesAssumption
<1>1. CASE Times!Tick
  <2>1. TimedType'
    BY <1>1 DEF Times!Tick, Times!readVars, TimedType
  <2>2. timedPc \in Times!InFlight => begunAt <= now' /\ now' <= begunAt + Delay
    BY <1>1 DEF Times!Tick, Times!InFlight, TimedType, TimedInv
  <2>3. TimedInv'
    BY <1>1, <2>2 DEF Times!Tick, Times!readVars, Times!InFlight, TimedInv
  <2>4. QED
    BY <2>1, <2>3
<1>2. CASE Times!Feed
  <2>1. TimedType'
    BY <1>2 DEF Times!Feed, Times!readVars, TimedType
  <2>2. TimedInv'
    BY <1>2 DEF Times!Feed, Times!readVars, Times!InFlight, TimedInv
  <2>3. QED
    BY <2>1, <2>2
<1>3. CASE Times!ParentMoves
  <2>1. TimedType'
    BY <1>3 DEF Times!ParentMoves, Times!readVars, TimedType
  <2>2. ASSUME timedPc \in Times!InFlight \cup {"written"}, kind = "fee"
        PROVE  parent' \in Times!Served \/ (leftAt' > 0 /\ leftAt' >= begunAt)
    <3>1. timedPc \in Times!InFlight /\ begunAt <= now
      BY <1>3, <2>2 DEF Times!ParentMoves, Times!Over, TimedInv
    <3>2. CASE parent \in Times!Served
      BY <1>3, <3>1, <3>2 DEF Times!ParentMoves, TimedType
    <3>3. CASE parent \notin Times!Served
      BY <1>3, <2>2, <3>3 DEF Times!ParentMoves, TimedInv
    <3>4. QED
      BY <3>2, <3>3
  <2>3. TimedInv'
    BY <1>3, <2>2 DEF Times!ParentMoves, Times!readVars, Times!InFlight, TimedInv
  <2>4. QED
    BY <2>1, <2>3
<1>4. QED
  BY <1>1, <1>2, <1>3 DEF Times!World

\* A step of the handler or of the saga.
LEMMA HandlerStep ==
  ASSUME TimedType, TimedInv, Times!Handle \/ Times!Write
  PROVE  (TimedType /\ TimedInv)'
<1> USE TimesAssumption DEF Times!worldVars
<1>1. CASE Times!ReadParent
  <2>1. TimedType'
    BY <1>1 DEF Times!ReadParent, TimedType
  <2>2. TimedInv'
    BY <1>1 DEF Times!ReadParent, Times!InFlight, TimedType, TimedInv
  <2>3. QED
    BY <2>1, <2>2
<1>2. CASE Times!ReadGood
  <2>1. TimedType'
    BY <1>2 DEF Times!ReadGood, TimedType
  <2>2. TimedInv'
    BY <1>2 DEF Times!ReadGood, Times!InFlight, TimedType, TimedInv
  <2>3. QED
    BY <2>1, <2>2
<1>3. CASE Times!ReadPrices
  <2>1. TimedType'
    BY <1>3 DEF Times!ReadPrices, TimedType
  <2>2. PICK rows \in Times!Rows(coins) :
           IF \A f \in rows : Times!Fresh(f)
           THEN priced' \in Times!Kept(rows) /\ timedPc' = "building"
           ELSE timedPc' = "refused" /\ UNCHANGED priced
    BY <1>3 DEF Times!ReadPrices
  <2>3. begunAt <= now
    BY <1>3 DEF Times!ReadPrices, Times!InFlight, TimedInv
  <2>4. ASSUME timedPc' # "refused", NEW c \in DOMAIN priced'
        PROVE  priced'[c] \in Int /\ priced'[c] + MaxAge >= begunAt
    <3>1. priced' \in Times!Kept(rows) /\ \A f \in rows : Times!Fresh(f)
      BY <2>2, <2>4
    <3>2. priced'[c] \in Int /\ \E f \in rows : priced'[c] = updatedAt[f]
      BY <3>1, KeptPrices
    <3>3. priced'[c] + MaxAge >= now
      BY <3>1, <3>2 DEF Times!Fresh
    <3>4. QED
      BY <2>3, <3>2, <3>3 DEF TimedType
  <2>5. timedPc' \in {"building", "refused"}
    BY <2>2
  <2>6. TimedInv'
    BY <1>3, <2>4, <2>5 DEF Times!ReadPrices, Times!InFlight, TimedInv
  <2>7. QED
    BY <2>1, <2>6
<1>4. CASE Times!ResolveStart
  <2>1. /\ startAt' \in Nat /\ startAt' >= timedOffer.serviceStartAt
        /\ timedOffer.mode = "Instantly" => startAt' >= now + Lead
    <3>1. timedOffer.serviceStartAt \in Nat /\ now + Lead \in Nat
      BY DEF TimedType, Times!Good
    <3>2. startAt' = Times!Max({Times!Earliest, timedOffer.serviceStartAt})
      BY <1>4 DEF Times!ResolveStart
    <3>3. QED
      BY <3>1, <3>2, EarliestType, LaterOfTwo
  <2>2. TimedType'
    BY <1>4, <2>1 DEF Times!ResolveStart, TimedType
  <2>3. begunAt <= now
    BY <1>4 DEF Times!ResolveStart, Times!InFlight, TimedInv
  <2>4. timedPc' = "paying" =>
           /\ startAt' >= begunAt
           /\ timedOffer.mode = "Instantly" => startAt' >= begunAt + Lead
    BY <1>4, <2>1, <2>3 DEF Times!ResolveStart, TimedType
  <2>5. TimedInv'
    BY <1>4, <2>1, <2>4 DEF Times!ResolveStart, Times!InFlight, TimedInv
  <2>6. QED
    BY <2>2, <2>5
<1>5. CASE Times!ConstructFee
  <2>1. TimedType'
    BY <1>5 DEF Times!ConstructFee, Times!readVars, TimedType
  <2>2. TimedInv'
    BY <1>5 DEF Times!ConstructFee, Times!readVars, Times!InFlight, TimedInv
  <2>3. QED
    BY <2>1, <2>2
<1>6. CASE Times!Pay
  <2>1. TimedType'
    BY <1>6 DEF Times!Pay, TimedType
  <2>2. TimedInv'
    BY <1>6 DEF Times!Pay, Times!InFlight, TimedInv
  <2>3. QED
    BY <2>1, <2>2
<1>7. CASE Times!GiveUp
  <2>1. TimedType'
    BY <1>7 DEF Times!GiveUp, Times!readVars, TimedType
  <2>2. TimedInv'
    BY <1>7 DEF Times!GiveUp, Times!InFlight, TimedInv
  <2>3. QED
    BY <2>1, <2>2
<1>8. CASE Times!Write
  <2>1. TimedType'
    BY <1>8 DEF Times!Write, Times!readVars, TimedType
  <2>2. TimedInv'
    BY <1>8 DEF Times!Write, Times!readVars, Times!InFlight, TimedInv
  <2>3. QED
    BY <2>1, <2>2
<1>9. QED
  BY <1>1, <1>2, <1>3, <1>4, <1>5, <1>6, <1>7, <1>8 DEF Times!Handle

LEMMA TimedStep ==
  TimedType /\ TimedInv /\ [NextEither]_<<vars, timedVars>> => (TimedType /\ TimedInv)'
<1> SUFFICES ASSUME TimedType, TimedInv, [NextEither]_<<vars, timedVars>>
             PROVE  (TimedType /\ TimedInv)'
  OBVIOUS
<1>1. CASE UNCHANGED timedVars
  BY <1>1 DEF timedVars, TimedType, TimedInv
<1>2. CASE Times!Next
  BY <1>2, WorldStep, HandlerStep DEF Times!Next
<1>3. QED
  BY <1>1, <1>2 DEF NextEither

LEMMA TimedInvariant == SpecEither => [](TimedType /\ TimedInv)
<1>1. InitEither => TimedType /\ TimedInv
  BY TimedInit DEF InitEither
<1>2. QED
  BY <1>1, TimedStep, PTL DEF SpecEither

\* No coin is paid at a price that is older than a price may be when it is read
\* (GetCoinUSDCurrencies) and a creation may take from then on.
THEOREM FreshPrices == SpecEither => []PricesAreFresh
<1>1. TimedType /\ TimedInv => PricesAreFresh
  <2> SUFFICES ASSUME TimedType, TimedInv, timedPc = "written", NEW c \in used
               PROVE  writtenAt - priced[c] <= MaxAge + Delay
    BY DEF PricesAreFresh, Times!PricesAreFresh
  <2>1. c \in DOMAIN priced /\ writtenAt <= begunAt + Delay
    BY DEF TimedInv
  <2>2. priced[c] \in Int /\ priced[c] + MaxAge >= begunAt
    BY <2>1 DEF TimedInv
  <2>3. QED
    BY <2>1, <2>2, TimesAssumption DEF TimedType
<1>2. QED
  BY <1>1, TimedInvariant, PTL

\* An order whose start or whose parent is read once (resolveStartAt,
\* validateParentOrder) is not written later than a creation may take after the
\* start or the parent's end; an instant start is still ahead.
THEOREM InTime == SpecEither => []WrittenInTime
<1>1. TimedType /\ TimedInv => WrittenInTime
  <2> SUFFICES ASSUME TimedType, TimedInv, timedPc = "written" PROVE WrittenInTime
    BY DEF WrittenInTime, Times!WrittenInTime
  <2>1. writtenAt <= begunAt + Delay /\ kind # "none"
    BY DEF TimedType, TimedInv
  <2>2. CASE kind = "fee"
    BY <2>1, <2>2, TimesAssumption DEF TimedType, TimedInv, WrittenInTime, Times!WrittenInTime
  <2>3. CASE kind = "powerRental"
    <3>1. /\ startAt >= begunAt /\ startAt >= timedOffer.serviceStartAt
          /\ timedOffer.mode = "Instantly" => startAt >= begunAt + Lead
      BY <2>3 DEF TimedInv
    <3>2. timedOffer.serviceStartAt \in Nat
      BY DEF TimedType, Times!Good
    <3>3. QED
      BY <2>1, <2>3, <3>1, <3>2, TimesAssumption
      DEF TimedType, WrittenInTime, Times!WrittenInTime
  <2>4. QED
    BY <2>1, <2>2, <2>3 DEF TimedType
<1>2. QED
  BY <1>1, TimedInvariant, PTL

=============================================================================
