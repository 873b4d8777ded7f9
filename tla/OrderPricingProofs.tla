------------------------- MODULE OrderPricingProofs -------------------------
(***************************************************************************)
(* Proofs about OrderPricing, for any fees, units, prices and requests     *)
(* that satisfy CatalogueAssumption and AsksAssumption.                    *)
(***************************************************************************)
EXTENDS OrderPricing, SequenceTheorems, WellFoundedInduction, TLAPS

\* Where the durations have been settled.
Settled == {"order", "build", "count", "counted", "submitted"}

\* Which durations there are, and who points to which.
CellInv ==
    /\ ask \in Asks
    /\ IF ask.flow = "fees" THEN feeCell = "main"
       ELSE IF ask.feeDuration = NoDuration
            THEN feeCell = "nil" \/ (feeCell = "main" /\ ask.packaged)
            ELSE feeCell = "own"
    /\ own = NoDuration <=> ask.feeDuration = NoDuration
    /\ pc \in {"check", "promote"} => main = ask.duration
    /\ pc \in Settled => main \in Nat /\ Given(ask, "main") \in Nat
    /\ pc = "order" => ask.flow = "powerRental"

\* The fees ordered and counted so far.
OrdersInv ==
    /\ pc \notin {"check", "refused"} => GoodsAccepted(ask)
    /\ Built \subseteq Chosen(ask)
    /\ pc \in {"count", "counted", "submitted"} => Built = Chosen(ask)
    /\ counted \subseteq Chosen(ask)
    /\ ask.flow = "fees" /\ counted = {} => total = 0
    /\ pc = "submitted" => ask.simulate \/ total # 0

\* A fee's duration only ever shrinks.
EndInv == ask.flow = "fees" /\ pc \in Settled => main <= Given(ask, "main")

\* The promotion of each good among the rows read.
Row(i) == ask.promotions[i]
PromotionInv ==
    /\ pc \in Settled => read = Len(ask.promotions)
    /\ \A g \in Goods :
          /\ promotion[g] = 0 => \A i \in 1..read : Row(i).good # g
          /\ promotion[g] # 0 => promotion[g] \in 1..read /\ Row(promotion[g]).good = g
          /\ (\A i \in 1..read : Row(i).good = g => Row(i).price # 0)
                => \A i \in 1..read : Row(i).good = g => Row(promotion[g]).price <= Row(i).price

-----------------------------------------------------------------------------
\* Rounding down to whole units.
LEMMA Quotient ==
  ASSUME NEW q \in Nat, NEW s \in Nat \ {0}
  PROVE  (s * q) \div s = q
  BY SMT

LEMMA Rounding ==
  ASSUME NEW d \in Nat, NEW u \in Units
  PROVE  /\ Count(d, u) \in Nat
         /\ Whole(d, u) \in Nat
         /\ Whole(d, u) <= d
         /\ Count(Whole(d, u), u) = Count(d, u)
         /\ Whole(Whole(d, u), u) = Whole(d, u)
<1> DEFINE s == Seconds[u]
           q == d \div s
<1>1. s \in Nat \ {0}
  BY CatalogueAssumption
<1>2. q \in Nat
  BY <1>1, SMT
<1>3. s * q \in Nat /\ s * q <= d
  BY <1>1, SMT
<1>4. (s * q) \div s = q
  BY <1>1, <1>2, Quotient
<1>5. QED
  BY <1>2, <1>3, <1>4 DEF Count, Whole

LEMMA Product ==
  ASSUME NEW a \in Nat, NEW b \in Nat
  PROVE  a * b \in Nat
  BY SMT

\* A request that is known is a request.
LEMMA AskFields ==
  ASSUME NEW k \in Asks
  PROVE  /\ k \in Ask
         /\ k.flow \in {"powerRental", "fees"}
         /\ k.fixed \in BOOLEAN /\ k.packaged \in BOOLEAN /\ k.simulate \in BOOLEAN
         /\ k.unit \in Units
         /\ k.price \in Nat /\ k.min \in Nat /\ k.max \in Nat /\ k.units \in Nat
         /\ k.duration \in Nat \cup {NoDuration}
         /\ k.feeDuration \in Nat \cup {NoDuration}
         /\ k.fees \subseteq Fees /\ k.known \subseteq Fees
         /\ k.required \subseteq Fees /\ k.must \subseteq k.required
         /\ k.endAt \in Nat /\ k.now \in Nat
         /\ k.promotions \in Seq([good : Goods, price : Nat])
         /\ k.flow = "fees" => /\ k.duration \in Nat /\ k.feeDuration = NoDuration
                               /\ ~k.simulate /\ ~k.fixed /\ ~k.packaged
         /\ Chosen(k) \subseteq Fees
  BY AsksAssumption DEF Ask, Chosen

\* What is left of the parent order is a duration, and no more than the truth
\* as long as the parent has not ended.
LEMMA LeftFacts ==
  ASSUME NEW k \in Asks
  PROVE  /\ Left(k) \in Nat
         /\ k.now <= k.endAt => Left(k) <= k.endAt - k.now
<1> DEFINE d == k.endAt - k.now
<1>1. d \in Int /\ Wrap \in Nat \ {0} /\ (k.now <= k.endAt => d \in Nat)
  BY AskFields, CatalogueAssumption, SMT
<1> HIDE DEF d
<1>2. d % Wrap \in Nat
  BY <1>1, SMT
<1>3. d \in Nat => d % Wrap <= d
  BY <1>1, SMT
<1>4. QED
  BY <1>1, <1>2, <1>3 DEF d, Left

LEMMA FeeFields ==
  ASSUME NEW f \in Fees
  PROVE  Fee[f].unit \in Units /\ Fee[f].value \in Nat /\ Fee[f].min \in Nat
  BY CatalogueAssumption

\* The values, once the durations are settled.
LEMMA OrderValueFacts ==
  ASSUME ask \in Asks, main \in Nat
  PROVE  OrderValue \in Nat /\ OrderDuration \in Nat
<1>1. ask.price * ask.units \in Nat
  BY AskFields, Product
<1>2. Count(main, ask.unit) \in Nat /\ Whole(main, ask.unit) \in Nat
  BY AskFields, Rounding
<1>3. ask.price * ask.units * (IF ask.fixed THEN 1 ELSE Count(main, ask.unit)) \in Nat
  BY <1>1, <1>2, Product
<1>4. QED
  BY <1>2, <1>3 DEF OrderValue, OrderDuration

\* What an order for a fee is worth, and the durations it leaves.
LEMMA FeeValueFacts ==
  ASSUME TypeOK, CellInv, pc \in Settled, NEW f \in Fees, ValueFee(f)
  PROVE  /\ FeeDuration \in Nat
         /\ FeeValue(f) \in Nat
         /\ main' \in Nat /\ main' <= main
         /\ own' \in Nat \cup {NoDuration}
         /\ own' = NoDuration <=> own = NoDuration
         /\ feeCell' = Cell /\ Cell \in {"own", "main"}
         /\ feeCell' # feeCell => feeCell = "nil" /\ feeCell' = "main" /\ ask.packaged
<1>1. ask \in Asks /\ main \in Nat /\ NoDuration \notin Nat
  BY CatalogueAssumption DEF CellInv
<1>2. feeCell = "own" => own \in Nat
  BY <1>1, AskFields DEF CellInv, TypeOK
<1>3. FeeDuration \in Nat /\ Cell \in {"own", "main"}
  BY <1>1, <1>2 DEF FeeDuration, Cell, TypeOK
<1>4. Count(FeeDuration, Fee[f].unit) \in Nat
  BY <1>3, FeeFields, Rounding
<1>5. Fee[f].value * ask.units \in Nat
  BY <1>1, FeeFields, AskFields, Product
<1>6. FeeValue(f) \in Nat
  BY <1>4, <1>5, Product DEF FeeValue
<1>7. Whole(main, Fee[f].unit) \in Nat /\ Whole(main, Fee[f].unit) <= main
  BY <1>1, FeeFields, Rounding
<1>8. Cell = "own" => own \in Nat /\ Whole(own, Fee[f].unit) \in Nat
  BY <1>2, FeeFields, Rounding DEF Cell
<1>9. main' \in Nat /\ main' <= main
  BY <1>1, <1>7 DEF ValueFee
<1>10. own' \in Nat \cup {NoDuration} /\ (own' = NoDuration <=> own = NoDuration)
  BY <1>1, <1>8 DEF ValueFee, TypeOK
<1>11. feeCell' = Cell /\ (feeCell' # feeCell => feeCell = "nil" /\ feeCell' = "main" /\ ask.packaged)
  BY DEF ValueFee, Cell
<1>12. QED
  BY <1>3, <1>6, <1>9, <1>10, <1>11

-----------------------------------------------------------------------------
LEMMA TypeInit == Init => TypeOK /\ CellInv
<1> SUFFICES ASSUME Init PROVE TypeOK /\ CellInv
  OBVIOUS
<1>1. ask \in Asks
  BY DEF Init
<1>2. TypeOK
  BY <1>1, AskFields DEF Init, TypeOK
<1>3. CellInv
  BY <1>1, AskFields, CatalogueAssumption DEF Init, CellInv, Settled
<1>4. QED
  BY <1>2, <1>3

\* Whatever is settled on is a duration, and the one the request gives.
LEMMA SettledDuration ==
  ASSUME CellInv, TypeOK, FormalizeDuration \/ ValidateDuration
  PROVE  main' \in Nat /\ Given(ask, "main") = main'
<1>1. ask \in Asks /\ main = ask.duration /\ NoDuration \notin Nat
  BY CatalogueAssumption DEF CellInv, FormalizeDuration, ValidateDuration
<1>2. CASE FormalizeDuration
  BY <1>1, <1>2, AskFields, LeftFacts DEF FormalizeDuration, Given
<1>3. CASE ValidateDuration
  BY <1>1, <1>3, AskFields DEF ValidateDuration, Given
<1>4. QED
  BY <1>2, <1>3

LEMMA TypeStep ==
  ASSUME TypeOK, CellInv, [Next]_vars
  PROVE  TypeOK' /\ CellInv'
<1>1. ask \in Asks
  BY DEF CellInv
<1>2. CASE CheckGoods \/ CountEnds \/ Submit \/ GiveUp \/ UNCHANGED vars
  <2>1. UNCHANGED <<ask, offers, durations, values>>
    BY <1>2 DEF CheckGoods, CountEnds, Submit, GiveUp, vars, offers, durations, values
  <2>2. /\ pc' \in {"promote", "counted", "submitted", "refused", pc}
        /\ pc' = "promote" => pc \in {"check", "promote"}
        /\ pc' \in Settled => pc \in Settled
        /\ pc' = "order" => pc = "order"
        /\ pc' = "check" => pc = "check"
    BY <1>2 DEF CheckGoods, CountEnds, Submit, GiveUp, vars, Settled
  <2>3. TypeOK'
    BY <2>1, <2>2 DEF TypeOK, offers, durations, values
  <2>4. CellInv'
    BY <2>1, <2>2 DEF CellInv, durations
  <2>5. QED
    BY <2>3, <2>4
<1>3. CASE ReadPromotion
  <2>1. ask.promotions[read + 1].good \in Goods
    <3>1. ask.promotions \in Seq([good : Goods, price : Nat])
      BY <1>1, AskFields
    <3>2. read \in 0..Len(ask.promotions) /\ read < Len(ask.promotions)
      BY <1>3 DEF ReadPromotion, TypeOK
    <3>3. read + 1 \in 1..Len(ask.promotions)
      BY <3>1, <3>2, SMT
    <3>4. ask.promotions[read + 1] \in [good : Goods, price : Nat]
      BY <3>1, <3>3, ElementOfSeq
    <3>5. QED
      BY <3>4
  <2>2. TypeOK'
    BY <1>3, <2>1 DEF ReadPromotion, TypeOK, durations, values
  <2>3. CellInv'
    BY <1>3 DEF ReadPromotion, CellInv, durations
  <2>4. QED
    BY <2>2, <2>3
<1>4. CASE FormalizeDuration \/ ValidateDuration
  <2>1. main' \in Nat /\ Given(ask, "main") = main'
    BY <1>4, SettledDuration
  <2>2. UNCHANGED <<ask, offers, own, feeCell, values>>
    BY <1>4 DEF FormalizeDuration, ValidateDuration, offers, values
  <2>3. pc' = IF ask.flow = "fees" THEN "build" ELSE "order"
    BY <1>4 DEF FormalizeDuration, ValidateDuration
  <2>4. TypeOK'
    BY <2>1, <2>2, <2>3 DEF TypeOK, offers, values
  <2>5. CellInv'
    BY <1>1, <2>1, <2>2, <2>3, AskFields DEF CellInv, Given
  <2>6. QED
    BY <2>4, <2>5
<1>5. CASE ConstructOrder
  <2>1. main \in Nat
    BY <1>5 DEF ConstructOrder, CellInv, Settled
  <2>2. OrderValue \in Nat /\ OrderDuration \in Nat
    BY <1>1, <2>1, OrderValueFacts
  <2>3. TypeOK'
    BY <1>5, <2>2 DEF ConstructOrder, TypeOK, offers
  <2>4. CellInv'
    BY <1>5, <2>2 DEF ConstructOrder, CellInv, Settled, Given
  <2>5. QED
    BY <2>3, <2>4
<1>6. CASE CountOrder
  <2>1. main \in Nat
    BY <1>6 DEF CountOrder, CellInv, Settled
  <2>2. OrderValue \in Nat /\ OrderDuration \in Nat
    BY <1>1, <2>1, OrderValueFacts
  <2>3. TypeOK'
    BY <1>6, <2>1, <2>2 DEF CountOrder, TypeOK, offers
  <2>4. CellInv'
    BY <1>6, <2>1, <2>2 DEF CountOrder, CellInv, Settled, Given
  <2>5. QED
    BY <2>3, <2>4
<1>7. ASSUME NEW f \in Fees, ConstructFeeOrder(f) \/ CountFee(f)
      PROVE  TypeOK' /\ CellInv'
  <2>1. ValueFee(f) /\ pc \in {"build", "count"} /\ UNCHANGED <<ask, pc, offers, value>>
    BY <1>7 DEF ConstructFeeOrder, CountFee
  <2>2. /\ FeeValue(f) \in Nat
        /\ main' \in Nat
        /\ own' \in Nat \cup {NoDuration}
        /\ own' = NoDuration <=> own = NoDuration
        /\ feeCell' = Cell /\ Cell \in {"own", "main"}
        /\ feeCell' # feeCell => feeCell = "nil" /\ feeCell' = "main" /\ ask.packaged
    BY <2>1, FeeValueFacts DEF Settled
  <2>3. built' \in Seq([fee : Fees, value : Nat])
    <3>1. CASE ConstructFeeOrder(f)
      <4>1. [fee |-> f, value |-> IF ask.packaged THEN 0 ELSE FeeValue(f)] \in [fee : Fees, value : Nat]
        BY <2>2
      <4>2. QED
        BY <3>1, <4>1 DEF ConstructFeeOrder, TypeOK
    <3>2. CASE CountFee(f)
      BY <3>2 DEF CountFee, TypeOK
    <3>3. QED
      BY <1>7, <3>1, <3>2
  <2>4. counted' \subseteq Fees /\ total' \in Nat
    BY <1>7, <2>2 DEF ConstructFeeOrder, CountFee, TypeOK
  <2>5. TypeOK'
    BY <2>1, <2>2, <2>3, <2>4 DEF TypeOK, offers
  <2>6. CellInv'
    BY <2>1, <2>2 DEF CellInv, Settled, Given
  <2>7. QED
    BY <2>5, <2>6
<1>8. QED
  BY <1>2, <1>3, <1>4, <1>5, <1>6, <1>7 DEF Next

\* Every variable keeps its type; in particular no duration ever is negative
\* or missing where it is read.
THEOREM TypeCorrect == Spec => [](TypeOK /\ CellInv)
<1>1. Init => TypeOK /\ CellInv
  BY TypeInit
<1>2. TypeOK /\ CellInv /\ [Next]_vars => (TypeOK /\ CellInv)'
  BY TypeStep
<1>3. QED
  BY <1>1, <1>2, PTL DEF Spec

-----------------------------------------------------------------------------
\* What holds of types and durations may be used for what else is to be shown.
LEMMA EndStep ==
  ASSUME TypeOK, CellInv, CellInv', EndInv, [Next]_vars
  PROVE  EndInv'
<1>1. ask \in Asks /\ ask' = ask
  BY DEF CellInv, Next, vars, CheckGoods, ReadPromotion, FormalizeDuration, ValidateDuration,
         ConstructOrder, CountOrder, CountEnds, Submit, GiveUp, ConstructFeeOrder, CountFee
<1>2. SUFFICES ASSUME ask.flow = "fees", pc' \in Settled
               PROVE  main' <= Given(ask, "main")
  BY <1>1 DEF EndInv
<1>3. CASE CheckGoods \/ ReadPromotion \/ CountEnds \/ Submit \/ GiveUp \/ UNCHANGED vars
  BY <1>2, <1>3 DEF EndInv, Settled, CheckGoods, ReadPromotion, CountEnds, Submit, GiveUp,
                    vars, durations
<1>4. CASE FormalizeDuration \/ ValidateDuration
  BY <1>4, SettledDuration
<1>5. CASE ConstructOrder
  BY <1>2, <1>5 DEF ConstructOrder, CellInv
<1>6. CASE CountOrder
  BY <1>2, <1>6 DEF CountOrder, EndInv, Settled
<1>7. ASSUME NEW f \in Fees, ConstructFeeOrder(f) \/ CountFee(f)
      PROVE  main' <= Given(ask, "main")
  <2>1. ValueFee(f) /\ pc \in Settled
    BY <1>7 DEF ConstructFeeOrder, CountFee, Settled
  <2>2. main' \in Nat /\ main' <= main
    BY <2>1, FeeValueFacts
  <2>3. main <= Given(ask, "main") /\ main \in Nat /\ Given(ask, "main") \in Nat
    BY <1>2, <2>1 DEF EndInv, CellInv
  <2>4. QED
    BY <2>2, <2>3
<1>8. QED
  BY <1>3, <1>4, <1>5, <1>6, <1>7 DEF Next

\* No fee lasts beyond its parent or longer than asked for: the duration is
\* clipped once and every valuation only rounds it down.
THEOREM FeesEnd == Spec => []FeesEndInTime
<1>1. Init => EndInv
  BY DEF Init, EndInv, Settled
<1>2. TypeOK /\ CellInv /\ CellInv' /\ EndInv /\ [Next]_vars => EndInv'
  BY EndStep
<1>3. TypeOK /\ CellInv /\ EndInv => FeesEndInTime
  <2> SUFFICES ASSUME TypeOK, CellInv, EndInv, pc = "submitted", ask.flow = "fees",
                      ask.now <= ask.endAt
               PROVE  FeeOrderDuration <= ask.endAt - ask.now /\ FeeOrderDuration <= ask.duration
    BY DEF FeesEndInTime
  <2>1. ask \in Asks /\ main \in Nat /\ feeCell = "main" /\ main <= Given(ask, "main")
    BY DEF CellInv, EndInv, Settled
  <2>2. FeeOrderDuration = main
    BY <2>1 DEF FeeOrderDuration, FeeDuration, Cell
  <2>3. /\ Left(ask) \in Nat /\ Left(ask) <= ask.endAt - ask.now
        /\ ask.duration \in Nat /\ ask.endAt \in Nat /\ ask.now \in Nat
    BY <2>1, AskFields, LeftFacts
  <2>4. Given(ask, "main") = IF ask.duration > Left(ask) THEN Left(ask) ELSE ask.duration
    BY DEF Given
  <2>5. QED
    BY <2>1, <2>2, <2>3, <2>4, SMT
<1>4. QED
  BY <1>1, <1>2, <1>3, TypeCorrect, PTL DEF Spec

-----------------------------------------------------------------------------
LEMMA BuiltAppend ==
  ASSUME NEW s \in Seq([fee : Fees, value : Nat]), NEW o \in [fee : Fees, value : Nat],
         built = s, built' = Append(s, o)
  PROVE  Built' = Built \cup {o.fee}
<1>1. /\ Len(built') = Len(s) + 1 /\ Len(s) \in Nat
      /\ \A i \in 1..Len(s) : built'[i] = s[i]
      /\ built'[Len(s) + 1] = o
  OBVIOUS
<1>2. Built' \subseteq Built \cup {o.fee}
  BY <1>1 DEF Built
<1>3. Built \subseteq Built'
  BY <1>1 DEF Built
<1>4. o.fee \in Built'
  BY <1>1 DEF Built
<1>5. QED
  BY <1>2, <1>3, <1>4

LEMMA OrdersStep ==
  ASSUME TypeOK, CellInv, OrdersInv, [Next]_vars
  PROVE  OrdersInv'
<1>1. ask \in Asks /\ Chosen(ask) \subseteq Fees
  BY AskFields DEF CellInv
<1>2. CASE CheckGoods \/ ReadPromotion \/ FormalizeDuration \/ ValidateDuration
           \/ ConstructOrder \/ CountEnds \/ Submit \/ GiveUp \/ UNCHANGED vars
  <2>1. UNCHANGED <<ask, built, counted, total>>
    BY <1>2 DEF CheckGoods, ReadPromotion, FormalizeDuration, ValidateDuration, ConstructOrder,
                CountEnds, Submit, GiveUp, vars, values
  <2>2. Built' = Built
    BY <2>1 DEF Built
  <2>3. /\ pc' \notin {"check", "refused"} => pc \notin {"check", "refused"} \/ GoodsAccepted(ask)
        /\ pc' \in {"count", "counted", "submitted"} => pc \in {"count", "counted", "submitted"}
        /\ pc' = "submitted" => pc = "submitted" \/ ask.simulate \/ total # 0
    BY <1>2 DEF CheckGoods, ReadPromotion, FormalizeDuration, ValidateDuration, ConstructOrder,
                CountEnds, Submit, GiveUp, vars
  <2>4. QED
    BY <2>1, <2>2, <2>3 DEF OrdersInv
<1>3. CASE CountOrder
  <2>1. Built' = Built
    BY <1>3 DEF CountOrder, Built
  <2>2. QED
    BY <1>3, <2>1 DEF CountOrder, OrdersInv
<1>4. ASSUME NEW f \in Fees, ConstructFeeOrder(f)
      PROVE  OrdersInv'
  <2>1. ValueFee(f) /\ pc \in Settled
    BY <1>4 DEF ConstructFeeOrder, Settled
  <2>2. [fee |-> f, value |-> IF ask.packaged THEN 0 ELSE FeeValue(f)] \in [fee : Fees, value : Nat]
    BY <2>1, FeeValueFacts
  <2>3. Built' = Built \cup {f}
    BY <1>4, <2>2, BuiltAppend DEF ConstructFeeOrder, TypeOK
  <2>4. QED
    BY <1>4, <2>3 DEF ConstructFeeOrder, OrdersInv
<1>5. ASSUME NEW f \in Fees, CountFee(f)
      PROVE  OrdersInv'
  <2>1. Built' = Built
    BY <1>5 DEF CountFee, Built
  <2>2. counted' = counted \cup {f} /\ f \in Chosen(ask) /\ pc' = pc /\ ask' = ask
    BY <1>5 DEF CountFee
  <2>3. pc' # "submitted"
    BY <1>5 DEF CountFee
  <2>4. QED
    BY <2>1, <2>2, <2>3 DEF OrdersInv
<1>6. QED
  BY <1>2, <1>3, <1>4, <1>5 DEF Next

LEMMA OrdersInvariant == Spec => []OrdersInv
<1>1. Init => OrdersInv
  <2> SUFFICES ASSUME Init PROVE OrdersInv
    OBVIOUS
  <2>1. Built = {}
    BY DEF Init, Built
  <2>2. QED
    BY <2>1 DEF Init, OrdersInv
<1>2. TypeOK /\ CellInv /\ OrdersInv /\ [Next]_vars => OrdersInv'
  BY OrdersStep
<1>3. QED
  BY <1>1, <1>2, TypeCorrect, PTL DEF Spec

\* Every order comes with the fees its good must have and no others: what is
\* checked of the request is true of the orders built from it.
THEOREM FeesRequired == Spec => []RequiredFeesOrdered
<1>1. TypeOK /\ CellInv /\ OrdersInv => RequiredFeesOrdered
  <2> SUFFICES ASSUME CellInv, OrdersInv, pc = "submitted", ask.required # {}
               PROVE  ask.must \cap ask.known \subseteq Built /\ Built \subseteq ask.required
    BY DEF RequiredFeesOrdered
  <2>1. ask \in Asks /\ Built = Chosen(ask) /\ GoodsAccepted(ask)
    BY DEF CellInv, OrdersInv
  <2>2. ask.must \subseteq ask.fees /\ ask.fees \subseteq ask.required
    BY <2>1 DEF GoodsAccepted
  <2>3. QED
    BY <2>1, <2>2 DEF Chosen
<1>2. QED
  BY <1>1, TypeCorrect, OrdersInvariant, PTL

\* formalizePayment always finds a first fee order.
THEOREM FirstOrder == Spec => []PaymentHasAnOrder
<1>1. TypeOK /\ CellInv /\ OrdersInv => PaymentHasAnOrder
  <2> SUFFICES ASSUME CellInv, OrdersInv, pc = "submitted", ask.flow = "fees"
               PROVE  built # <<>>
    BY DEF PaymentHasAnOrder
  <2>1. ask \in Asks /\ ~ask.simulate
    BY AskFields DEF CellInv
  <2>2. counted # {} /\ counted \subseteq Built
    BY <2>1 DEF OrdersInv
  <2>3. QED
    BY <2>2 DEF Built
<1>2. QED
  BY <1>1, TypeCorrect, OrdersInvariant, PTL

-----------------------------------------------------------------------------
LEMMA PromotionStep ==
  ASSUME TypeOK, CellInv, PromotionInv, [Next]_vars
  PROVE  PromotionInv'
<1>1. CASE UNCHANGED <<ask, offers>> /\ (pc' \in Settled => pc \in Settled)
  BY <1>1 DEF PromotionInv, Row, offers
<1>2. CASE FormalizeDuration \/ ValidateDuration
  <2>1. UNCHANGED <<ask, offers>> /\ read = Len(ask.promotions)
    BY <1>2 DEF FormalizeDuration, ValidateDuration
  <2>2. QED
    BY <2>1 DEF PromotionInv, Row, offers
<1>3. CASE ReadPromotion
  <2> DEFINE n == read + 1
             good == Row(n).good
             price == Row(n).price
             taken == Found(good) = 0 \/ price < Found(good)
  <2>1. ask.promotions \in Seq([good : Goods, price : Nat]) /\ ask' = ask
    BY <1>3, AskFields DEF CellInv, ReadPromotion
  <2>2. /\ read \in Nat /\ n <= Len(ask.promotions) /\ read' = n
        /\ 1..n = 1..read \cup {n} /\ n \notin 1..read
    BY <1>3, <2>1, SMT DEF ReadPromotion, TypeOK
  <2>3. \A i \in 1..n : Row(i) \in [good : Goods, price : Nat]
    <3>1. \A i \in 1..n : i \in 1..Len(ask.promotions)
      BY <2>1, <2>2, SMT
    <3>2. QED
      BY <2>1, <3>1, ElementOfSeq DEF Row
  <2>4. good \in Goods /\ price \in Nat /\ n \in 1..n
    BY <2>2, <2>3
  <2>5. promotion' = IF taken THEN [promotion EXCEPT ![good] = n] ELSE promotion
    BY <1>3 DEF ReadPromotion, Row
  <2>6. promotion \in [Goods -> 0..read]
    BY DEF TypeOK
  <2>7. pc' \notin Settled
    BY <1>3 DEF ReadPromotion, Settled
  <2>8. \A i : Row(i)' = Row(i)
    BY <2>1 DEF Row
  <2> HIDE DEF n, good, price
  <2>9. ASSUME NEW g \in Goods
        PROVE  /\ promotion'[g] = 0 => \A i \in 1..n : Row(i).good # g
               /\ promotion'[g] # 0 => promotion'[g] \in 1..n /\ Row(promotion'[g]).good = g
               /\ (\A i \in 1..n : Row(i).good = g => Row(i).price # 0)
                     => \A i \in 1..n : Row(i).good = g => Row(promotion'[g]).price <= Row(i).price
    <3>1. /\ promotion[g] = 0 => \A i \in 1..read : Row(i).good # g
          /\ promotion[g] # 0 => promotion[g] \in 1..read /\ Row(promotion[g]).good = g
          /\ (\A i \in 1..read : Row(i).good = g => Row(i).price # 0)
                => \A i \in 1..read : Row(i).good = g => Row(promotion[g]).price <= Row(i).price
      BY DEF PromotionInv
    <3>2. CASE g # good
      <4>1. promotion'[g] = promotion[g]
        BY <2>5, <2>6, <3>2
      <4>2. Row(n).good # g
        BY <3>2 DEF good
      <4>3. QED
        BY <2>2, <3>1, <4>1, <4>2
    <3>3. CASE g = good /\ ~taken
      <4>1. promotion'[g] = promotion[g] /\ Found(g) # 0 /\ Found(g) <= price
        <5>1. Found(g) \in Nat
          BY <2>2, <2>3, <3>1, <2>6 DEF Found, Row
        <5>2. QED
          BY <2>4, <2>5, <3>3, <5>1
      <4>2. promotion[g] # 0 /\ Found(g) = Row(promotion[g]).price
        BY <4>1 DEF Found, Row
      <4>3. Row(n).price = price
        BY DEF price
      <4>4. QED
        BY <2>2, <3>1, <4>1, <4>2, <4>3
    <3>4. CASE g = good /\ taken
      <4>1. promotion'[g] = n /\ Row(n).good = g /\ Row(n).price = price
        BY <2>5, <2>6, <3>4 DEF good, price
      <4>2. n # 0
        BY <2>2 DEF n
      <4>3. ASSUME \A i \in 1..n : Row(i).good = g => Row(i).price # 0
            PROVE  \A i \in 1..read : Row(i).good = g => price <= Row(i).price
        <5>1. CASE promotion[g] = 0
          BY <3>1, <5>1
        <5>2. CASE promotion[g] # 0
          <6>1. promotion[g] \in 1..read /\ Row(promotion[g]).good = g
            BY <3>1, <5>2
          <6>2. Found(g) = Row(promotion[g]).price /\ Found(g) # 0 /\ Found(g) \in Nat
            BY <2>2, <2>3, <4>3, <5>2, <6>1 DEF Found, Row
          <6>3. price < Found(g)
            BY <3>4, <6>2
          <6>4. \A i \in 1..read : Row(i).good = g => Found(g) <= Row(i).price
            BY <2>2, <3>1, <4>3, <6>2
          <6>5. \A i \in 1..read : Row(i).price \in Nat
            BY <2>2, <2>3
          <6>6. QED
            BY <2>4, <6>2, <6>3, <6>4, <6>5
        <5>3. QED
          BY <5>1, <5>2
      <4>4. QED
        BY <2>2, <2>4, <4>1, <4>2, <4>3
    <3>5. QED
      BY <3>2, <3>3, <3>4
  <2>10. QED
    BY <2>2, <2>7, <2>8, <2>9 DEF PromotionInv
<1>4. CASE CheckGoods \/ ConstructOrder \/ CountOrder \/ CountEnds \/ Submit \/ GiveUp
           \/ UNCHANGED vars \/ \E f \in Fees : ConstructFeeOrder(f) \/ CountFee(f)
  <2>1. UNCHANGED <<ask, offers>> /\ (pc' \in Settled => pc \in Settled)
    BY <1>4 DEF CheckGoods, ConstructOrder, CountOrder, CountEnds, Submit, GiveUp,
                ConstructFeeOrder, CountFee, vars, offers, Settled
  <2>2. QED
    BY <1>1, <2>1
<1>5. QED
  BY <1>2, <1>3, <1>4 DEF Next

\* The promotion put on an order is the cheapest one of its good, in whatever
\* order good-middleware lists them, as long as none is free.
THEOREM PromotionChosen == Spec => []PromotionIsCheapest
<1>1. Init => PromotionInv
  BY DEF Init, PromotionInv, Settled
<1>2. TypeOK /\ CellInv /\ PromotionInv /\ [Next]_vars => PromotionInv'
  BY PromotionStep
<1>3. TypeOK /\ CellInv /\ PromotionInv => PromotionIsCheapest
  <2> SUFFICES ASSUME PromotionInv, pc = "submitted", NEW g \in Goods
               PROVE  /\ promotion[g] = 0 <=> RowsOf(g) = {}
                      /\ promotion[g] # 0 => promotion[g] \in RowsOf(g)
                      /\ (\A i \in RowsOf(g) : ask.promotions[i].price # 0)
                            => \A i \in RowsOf(g) :
                                  ask.promotions[promotion[g]].price <= ask.promotions[i].price
    BY DEF PromotionIsCheapest
  <2>1. read = Len(ask.promotions)
    BY DEF PromotionInv, Settled
  <2>2. RowsOf(g) = {i \in 1..read : Row(i).good = g}
    BY <2>1 DEF RowsOf, Row
  <2>3. QED
    BY <2>2 DEF PromotionInv, Row
<1>4. QED
  BY <1>1, <1>2, <1>3, TypeCorrect, PTL DEF Spec

-----------------------------------------------------------------------------
\* In a regular request a duration is as given or rounded, and it does not
\* matter by whom, nor how often.
Harmless(c) == NothingToRound(ask, c) \/ OneUnit(ask, c)
Rounded(c, u) == Whole(Given(ask, c), u)
Kept(c, d) == d = Given(ask, c) \/ \E u \in UnitsOf(ask, c) : d = Rounded(c, u)

\* What the durations and the values are on the way.
OwnInv == own # NoDuration => Kept("own", own)
MainInv ==
    /\ pc \in Settled => Kept("main", main)
    /\ ask.flow = "powerRental" /\ ~ask.fixed /\ pc \in Settled \ {"order"} =>
          /\ main = Rounded("main", ask.unit)
          /\ value = ask.price * ask.units * Count(Given(ask, "main"), ask.unit)
Valued(o, c, d) ==
    /\ o.fee \in Chosen(ask)
    /\ d = Rounded(c, Fee[o.fee].unit)
    /\ o.value = Fee[o.fee].value * ask.units * Count(Given(ask, c), Fee[o.fee].unit)
BuiltInv ==
    /\ pc \in {"check", "promote", "order"} => built = <<>>
    /\ ~ask.packaged /\ built # <<>> =>
          feeCell # "nil" /\ \A i \in 1..Len(built) : Valued(built[i], Cell, FeeDuration)
ValuesInv == Regular(ask) => OwnInv /\ MainInv /\ BuiltInv

LEMMA UnitsFacts ==
  ASSUME ask \in Asks, NEW c, NEW u \in UnitsOf(ask, c)
  PROVE  u \in Units
  BY AskFields, FeeFields DEF UnitsOf

\* Rounding once more changes nothing of what has been rounded.
LEMMA RoundingKept ==
  ASSUME ask \in Asks, NEW c, Given(ask, c) \in Nat, Harmless(c),
         NEW d, Kept(c, d), NEW u \in UnitsOf(ask, c)
  PROVE  /\ d \in Nat
         /\ Whole(d, u) = Rounded(c, u)
         /\ Count(d, u) = Count(Given(ask, c), u)
         /\ Kept(c, Whole(d, u))
         /\ \A v \in UnitsOf(ask, c) : d = Rounded(c, v) => Whole(d, u) = d
<1>1. \A v \in UnitsOf(ask, c) :
        /\ v \in Units
        /\ Rounded(c, v) \in Nat
        /\ Whole(Rounded(c, v), v) = Rounded(c, v)
        /\ Count(Rounded(c, v), v) = Count(Given(ask, c), v)
  BY UnitsFacts, Rounding DEF Rounded
<1>2. CASE NothingToRound(ask, c)
  <2>1. \A v \in UnitsOf(ask, c) : Rounded(c, v) = Given(ask, c)
    BY <1>2 DEF NothingToRound, Rounded
  <2>2. d = Given(ask, c)
    BY <2>1 DEF Kept
  <2>3. QED
    BY <2>1, <2>2 DEF Kept, Rounded
<1>3. CASE OneUnit(ask, c)
  <2>1. \A v \in UnitsOf(ask, c) : v = u
    BY <1>3 DEF OneUnit
  <2>2. d = Given(ask, c) \/ d = Rounded(c, u)
    BY <2>1 DEF Kept
  <2>3. d \in Nat /\ Whole(d, u) = Rounded(c, u) /\ Count(d, u) = Count(Given(ask, c), u)
    BY <1>1, <2>2 DEF Rounded
  <2>4. QED
    BY <2>1, <2>2, <2>3 DEF Kept
<1>4. QED
  BY <1>2, <1>3 DEF Harmless

\* Who works on the power rental's duration.
LEMMA CellFacts ==
  ASSUME CellInv, feeCell = "nil" => ask.packaged
  PROVE  /\ SharesMain(ask) <=> Cell = "main"
         /\ Cell = "own" \/ Cell = "main"
         /\ Cell = "own" => own # NoDuration
  BY AskFields DEF CellInv, SharesMain, Cell

LEMMA GivenOwn ==
  ASSUME TypeOK, CellInv, Regular(ask), own # NoDuration
  PROVE  Given(ask, "own") \in Nat /\ Harmless("own")
<1>1. Given(ask, "own") = ask.feeDuration /\ ask.feeDuration # NoDuration
  BY DEF Given, CellInv
<1>2. QED
  BY <1>1, AskFields DEF CellInv, Regular, Harmless

LEMMA GivenMain ==
  ASSUME CellInv, Regular(ask), pc \in Settled
  PROVE  Given(ask, "main") \in Nat /\ Harmless("main")
  BY DEF CellInv, Regular, Harmless

\* A fee that is valued: the duration it leaves is the rounded one, and no
\* duration that has been rounded before is changed by it.
LEMMA ValuesOfFee ==
  ASSUME TypeOK, CellInv, pc \in Settled, Regular(ask), OwnInv, MainInv, BuiltInv,
         NEW f \in Chosen(ask), ValueFee(f), ask' = ask, pc' = pc, value' = value
  PROVE  /\ OwnInv' /\ MainInv'
         /\ Cell' = Cell /\ feeCell' # "nil"
         /\ FeeDuration' = Rounded(Cell, Fee[f].unit)
         /\ Count(FeeDuration, Fee[f].unit) = Count(Given(ask, Cell), Fee[f].unit)
         /\ \A v \in UnitsOf(ask, Cell) :
               FeeDuration = Rounded(Cell, v) => FeeDuration' = FeeDuration
<1> DEFINE u == Fee[f].unit
<1>1. ask \in Asks /\ f \in Fees
  BY AskFields DEF CellInv
<1>2. /\ SharesMain(ask) <=> Cell = "main"
      /\ Cell = "own" \/ Cell = "main"
      /\ Cell = "own" => own # NoDuration
  BY CellFacts DEF ValueFee
<1>3. u \in UnitsOf(ask, Cell)
  BY <1>1, <1>2 DEF UnitsOf
<1>4. Given(ask, Cell) \in Nat /\ Harmless(Cell) /\ Kept(Cell, FeeDuration)
  <2>1. CASE Cell = "own"
    BY <1>2, <2>1, GivenOwn DEF OwnInv, FeeDuration
  <2>2. CASE Cell = "main"
    BY <2>2, GivenMain DEF MainInv, FeeDuration
  <2>3. QED
    BY <1>2, <2>1, <2>2
<1>5. /\ Whole(FeeDuration, u) = Rounded(Cell, u)
      /\ Count(FeeDuration, u) = Count(Given(ask, Cell), u)
      /\ Kept(Cell, Whole(FeeDuration, u))
      /\ \A v \in UnitsOf(ask, Cell) :
            FeeDuration = Rounded(Cell, v) => Whole(FeeDuration, u) = FeeDuration
  BY <1>1, <1>3, <1>4, RoundingKept
<1>6. /\ feeCell' = Cell /\ Cell' = Cell
      /\ main' = IF Cell = "main" THEN Whole(main, u) ELSE main
      /\ own' = IF Cell = "own" THEN Whole(own, u) ELSE own
  BY <1>2 DEF ValueFee, Cell
<1>7. FeeDuration' = Whole(FeeDuration, u)
  BY <1>2, <1>6 DEF FeeDuration
<1>8. /\ OwnInv' <=> (own' # NoDuration => Kept("own", own'))
      /\ Kept("main", main)' <=> Kept("main", main')
      /\ Rounded("main", ask.unit)' = Rounded("main", ask.unit)
      /\ Given(ask, "main")' = Given(ask, "main")
  BY DEF OwnInv, Kept, Rounded, Given, UnitsOf, SharesMain, Chosen, Left, Whole
<1>9. OwnInv'
  <2>1. CASE Cell = "own"
    BY <1>2, <1>5, <1>6, <1>8, <2>1 DEF FeeDuration
  <2>2. CASE Cell = "main"
    BY <1>6, <1>8, <2>2 DEF OwnInv
  <2>3. QED
    BY <1>2, <2>1, <2>2
<1>10. MainInv'
  <2>1. CASE Cell = "own"
    <3>1. main' = main
      BY <1>6, <2>1
    <3>2. QED
      BY <1>8, <3>1 DEF MainInv, Count
  <2>2. CASE Cell = "main"
    <3>1. main' = Whole(main, u) /\ FeeDuration = main
      BY <1>6, <2>2 DEF FeeDuration
    <3>2. Kept("main", main')
      BY <1>5, <2>2, <3>1
    <3>3. ask.flow = "powerRental" /\ ~ask.fixed => ask.unit \in UnitsOf(ask, "main")
      BY DEF UnitsOf
    <3>4. ask.flow = "powerRental" /\ ~ask.fixed /\ main = Rounded("main", ask.unit)
            => main' = main
      BY <1>5, <2>2, <3>1, <3>3
    <3>5. QED
      BY <1>8, <3>2, <3>4 DEF MainInv, Count
  <2>3. QED
    BY <1>2, <2>1, <2>2
<1>11. QED
  BY <1>2, <1>5, <1>6, <1>7, <1>9, <1>10

\* Valuing one more fee changes nothing for an order that has been built.
LEMMA BuiltKept ==
  ASSUME TypeOK, CellInv, pc \in Settled, Regular(ask), OwnInv, MainInv, BuiltInv,
         NEW f \in Chosen(ask), ValueFee(f), ask' = ask, pc' = pc, value' = value,
         feeCell # "nil", NEW o, Valued(o, Cell, FeeDuration)
  PROVE  FeeDuration' = FeeDuration
<1>1. ask \in Asks /\ o.fee \in Chosen(ask)
  BY DEF CellInv, Valued
<1>2. SharesMain(ask) <=> Cell = "main"
  BY <1>1, CellFacts
<1>3. Fee[o.fee].unit \in UnitsOf(ask, Cell)
  BY <1>1, <1>2, CellFacts DEF UnitsOf
<1>4. FeeDuration = Rounded(Cell, Fee[o.fee].unit) => FeeDuration' = FeeDuration
  BY <1>3, ValuesOfFee
<1>5. QED
  BY <1>4 DEF Valued

LEMMA ValuesStep ==
  ASSUME TypeOK, CellInv, CellInv', ValuesInv, [Next]_vars
  PROVE  ValuesInv'
<1>1. ask \in Asks /\ ask' = ask
  BY DEF CellInv, Next, vars, CheckGoods, ReadPromotion, FormalizeDuration, ValidateDuration,
         ConstructOrder, CountOrder, CountEnds, Submit, GiveUp, ConstructFeeOrder, CountFee
<1>2. Regular(ask)' <=> Regular(ask)
  BY <1>1 DEF Regular, NothingToRound, OneUnit, Given, UnitsOf, SharesMain, Chosen, Left, Whole
<1> SUFFICES ASSUME Regular(ask), OwnInv, MainInv, BuiltInv
               PROVE  OwnInv' /\ MainInv' /\ BuiltInv'
  BY <1>2 DEF ValuesInv
<1>4. ASSUME UNCHANGED <<durations, value, built>>,
             pc' \in Settled => pc \in Settled,
             pc' \in Settled \ {"order"} => pc \in Settled \ {"order"} \/ ask.flow = "fees",
             pc' \in {"check", "promote", "order"} => pc \in {"check", "promote", "order"}
      PROVE  OwnInv' /\ MainInv' /\ BuiltInv'
  <2>1. UNCHANGED <<ask, main, own, feeCell, value, built>>
    BY <1>1, <1>4 DEF durations
  <2>2. OwnInv'
    BY <2>1 DEF OwnInv, Kept, Rounded, Given, UnitsOf, SharesMain, Chosen, Left, Whole
  <2>3. MainInv'
    BY <1>4, <2>1 DEF MainInv, Kept, Rounded, Given, UnitsOf, SharesMain, Chosen, Left, Whole, Count
  <2>4. BuiltInv'
    BY <1>4, <2>1 DEF BuiltInv, Valued, FeeDuration, Cell, Rounded, Given, Chosen, Left, Whole, Count
  <2>5. QED
    BY <2>2, <2>3, <2>4
<1>5. CASE CheckGoods \/ ReadPromotion \/ CountEnds \/ Submit \/ GiveUp \/ UNCHANGED vars
  BY <1>4, <1>5 DEF CheckGoods, ReadPromotion, CountEnds, Submit, GiveUp, vars, durations,
                    values, Settled
<1>6. CASE FormalizeDuration \/ ValidateDuration
  <2>1. main' = Given(ask, "main") /\ UNCHANGED <<own, feeCell, value, built>>
    BY <1>6, SettledDuration DEF FormalizeDuration, ValidateDuration, values
  <2>2. built = <<>> /\ built' = <<>> /\ (ask.flow = "powerRental" => pc' = "order")
    BY <1>6, <2>1 DEF FormalizeDuration, ValidateDuration, BuiltInv
  <2>3. OwnInv'
    BY <1>1, <2>1 DEF OwnInv, Kept, Rounded, Given, UnitsOf, SharesMain, Chosen, Left, Whole
  <2>4. Kept("main", main)'
    BY <1>1, <2>1 DEF Kept, Given, Left
  <2>5. QED
    BY <1>1, <2>2, <2>3, <2>4 DEF MainInv, BuiltInv
<1>7. CASE ConstructOrder
  <2>1. /\ ask.flow = "powerRental" /\ pc \in Settled /\ built = <<>>
        /\ UNCHANGED <<own, feeCell, built>>
    BY <1>7 DEF ConstructOrder, CellInv, BuiltInv, Settled
  <2>2. OwnInv'
    BY <1>1, <2>1 DEF OwnInv, Kept, Rounded, Given, UnitsOf, SharesMain, Chosen, Left, Whole
  <2>3. Kept("main", main) /\ Given(ask, "main") \in Nat /\ Harmless("main")
    BY <2>1, GivenMain DEF MainInv
  <2>4. CASE ask.fixed
    <3>1. main' = main
      BY <1>7, <2>4 DEF ConstructOrder, OrderDuration
    <3>2. Kept("main", main)'
      BY <1>1, <2>3, <3>1 DEF Kept, Rounded, Given, UnitsOf, SharesMain, Chosen, Left, Whole
    <3>3. QED
      BY <1>1, <2>1, <2>2, <2>4, <3>2 DEF MainInv, BuiltInv
  <2>5. CASE ~ask.fixed
    <3>1. ask.unit \in UnitsOf(ask, "main")
      BY <2>1, <2>5 DEF UnitsOf
    <3>2. /\ Whole(main, ask.unit) = Rounded("main", ask.unit)
          /\ Count(main, ask.unit) = Count(Given(ask, "main"), ask.unit)
          /\ Kept("main", Whole(main, ask.unit))
      BY <1>1, <2>3, <3>1, RoundingKept
    <3>3. /\ main' = Whole(main, ask.unit)
          /\ value' = ask.price * ask.units * Count(main, ask.unit)
      BY <1>7, <2>5 DEF ConstructOrder, OrderDuration, OrderValue
    <3>4. Kept("main", main)'
      BY <1>1, <3>2, <3>3 DEF Kept, Rounded, Given, UnitsOf, SharesMain, Chosen, Left, Whole
    <3>5. /\ main' = Rounded("main", ask.unit)'
          /\ value' = ask.price * ask.units * Count(Given(ask, "main"), ask.unit)'
      BY <1>1, <3>2, <3>3 DEF Rounded, Given, Left, Whole, Count
    <3>6. QED
      BY <1>1, <2>1, <2>2, <3>4, <3>5 DEF MainInv, BuiltInv
  <2>6. QED
    BY <1>1, <2>4, <2>5, AskFields
<1>8. CASE CountOrder
  <2>1. main' = main
    <3>1. CASE ask.flow = "fees" \/ ask.fixed
      BY <1>8, <3>1 DEF CountOrder, OrderDuration
    <3>2. CASE ask.flow # "fees" /\ ~ask.fixed
      <4>1. /\ ask.flow = "powerRental" /\ pc \in Settled
            /\ main = Rounded("main", ask.unit)
        BY <1>1, <1>8, <3>2, AskFields DEF CountOrder, MainInv, Settled
      <4>2. /\ Given(ask, "main") \in Nat /\ Harmless("main") /\ Kept("main", main)
            /\ ask.unit \in UnitsOf(ask, "main")
        BY <3>2, <4>1, GivenMain DEF MainInv, UnitsOf
      <4>3. Whole(main, ask.unit) = main
        BY <1>1, <4>1, <4>2, RoundingKept
      <4>4. QED
        BY <1>8, <3>2, <4>3 DEF CountOrder, OrderDuration
    <3>3. QED
      BY <3>1, <3>2
  <2>2. UNCHANGED <<durations, value, built>> /\ pc = "build" /\ pc' \in {"count", "counted"}
    BY <1>8, <2>1, SMTT(40) DEF CountOrder, durations
  <2>3. QED
    BY <1>4, <2>2 DEF Settled
<1>9. ASSUME NEW f \in Fees, ConstructFeeOrder(f) \/ CountFee(f)
      PROVE  OwnInv' /\ MainInv' /\ BuiltInv'
  <2> DEFINE o == [fee |-> f, value |-> IF ask.packaged THEN 0 ELSE FeeValue(f)]
  <2>1. /\ f \in Chosen(ask) /\ ValueFee(f) /\ pc' = pc /\ value' = value
        /\ pc \in {"build", "count"} /\ pc \in Settled
        /\ built' = built \/ built' = Append(built, o)
    BY <1>9 DEF ConstructFeeOrder, CountFee, Settled
  <2>2. /\ OwnInv' /\ MainInv'
        /\ Cell' = Cell /\ feeCell' # "nil"
        /\ FeeDuration' = Rounded(Cell, Fee[f].unit)
        /\ Count(FeeDuration, Fee[f].unit) = Count(Given(ask, Cell), Fee[f].unit)
    BY <1>1, <2>1, ValuesOfFee
  <2>3. ~ask.packaged => Valued(o, Cell, FeeDuration')
    BY <1>1, <2>1, <2>2 DEF Valued, FeeValue
  <2>4. ASSUME feeCell # "nil", NEW p, Valued(p, Cell, FeeDuration)
        PROVE  Valued(p, Cell, FeeDuration')
    BY <1>1, <2>1, <2>4, BuiltKept
  <2>5. built \in Seq([fee : Fees, value : Nat])
    BY DEF TypeOK
  <2> HIDE DEF o
  <2>6. \A i \in 1..Len(built') : built'[i] = o \/ \E j \in 1..Len(built) : built'[i] = built[j]
    BY <2>1, <2>5
  <2>7. built = <<>> \/ Len(built) # 0
    BY <2>5
  <2>8. ~ask.packaged => \A i \in 1..Len(built') : Valued(built'[i], Cell', FeeDuration')
    BY <2>2, <2>3, <2>4, <2>6, <2>7 DEF BuiltInv
  <2>9. QED
    BY <1>1, <2>1, <2>2, <2>8 DEF BuiltInv, Valued, Rounded, Given, Chosen, Left, Whole, Count
<1>10. QED
  BY <1>5, <1>6, <1>7, <1>8, <1>9 DEF Next

LEMMA Worth ==
  ASSUME NEW a \in Nat, NEW b \in Nat, NEW q \in Nat, NEW s \in Nat
  PROVE  (a * b * q) * s = a * b * (s * q)
  BY SMT

LEMMA ValuesInvariant == Spec => []ValuesInv
<1>1. Init => ValuesInv
  <2> SUFFICES ASSUME Init PROVE ValuesInv
    OBVIOUS
  <2>1. own = ask.feeDuration /\ built = <<>> /\ pc = "check"
    BY DEF Init
  <2>2. QED
    BY <2>1 DEF ValuesInv, OwnInv, MainInv, BuiltInv, Kept, Given, Settled
<1>2. TypeOK /\ CellInv /\ CellInv' /\ ValuesInv /\ [Next]_vars => ValuesInv'
  BY ValuesStep
<1>3. QED
  BY <1>1, <1>2, TypeCorrect, PTL DEF Spec

\* Every order is submitted with the duration it was valued for: in a regular
\* request all valuations of a duration agree, in whatever order they happen,
\* and the last one leaves what the first one found.
THEOREM ValuesMatch == Spec => []ValuesMatchDurations
<1>1. TypeOK /\ CellInv /\ ValuesInv => ValuesMatchDurations
  <2> SUFFICES ASSUME TypeOK, CellInv, OwnInv, MainInv, BuiltInv, pc = "submitted", Regular(ask)
               PROVE
        /\ ask.flow = "powerRental" =>
              IF ask.fixed THEN main = ask.min
              ELSE value * Seconds[ask.unit] = ask.price * ask.units * main
        /\ ~ask.packaged => \A i \in 1..Len(built) :
              built[i].value * Seconds[Fee[built[i].fee].unit]
                = Fee[built[i].fee].value * ask.units * FeeOrderDuration
    BY DEF ValuesMatchDurations, ValuesInv
  <2>1. /\ ask \in Asks /\ pc \in Settled /\ Kept("main", main)
        /\ Given(ask, "main") \in Nat /\ Harmless("main")
    BY GivenMain DEF CellInv, MainInv, Settled
  <2>2. ASSUME ask.flow = "powerRental", ask.fixed
        PROVE  main = ask.min
    <3>1. NothingToRound(ask, "main") /\ Given(ask, "main") = ask.min
      BY <2>2 DEF Regular, Given
    <3>2. QED
      BY <2>1, <3>1 DEF Kept, Rounded, NothingToRound
  <2>3. ASSUME ask.flow = "powerRental", ~ask.fixed
        PROVE  value * Seconds[ask.unit] = ask.price * ask.units * main
    <3> DEFINE q == Count(Given(ask, "main"), ask.unit)
               s == Seconds[ask.unit]
    <3>1. q \in Nat /\ s \in Nat /\ ask.price \in Nat /\ ask.units \in Nat
      BY <2>1, AskFields, Rounding, CatalogueAssumption
    <3>2. value = ask.price * ask.units * q /\ main = s * q
      BY <2>1, <2>3 DEF MainInv, Settled, Rounded, Whole
    <3> HIDE DEF q, s
    <3>3. value * s = ask.price * ask.units * main
      BY <3>1, <3>2, Worth
    <3>4. QED
      BY <3>3 DEF s
  <2>4. ASSUME ~ask.packaged, NEW i \in 1..Len(built)
        PROVE  built[i].value * Seconds[Fee[built[i].fee].unit]
                 = Fee[built[i].fee].value * ask.units * FeeOrderDuration
    <3> DEFINE f == built[i].fee
               c == Given(ask, Cell)
               q == Count(c, Fee[f].unit)
               s == Seconds[Fee[f].unit]
    <3>1. feeCell # "nil" /\ Valued(built[i], Cell, FeeDuration)
      BY <2>4 DEF BuiltInv
    <3>2. f \in Fees
      BY <2>1, <3>1, AskFields DEF Valued
    <3>3. c \in Nat
      BY <2>1, <3>1, CellFacts, GivenOwn
    <3>4. q \in Nat /\ s \in Nat /\ Fee[f].value \in Nat /\ ask.units \in Nat
      BY <2>1, <3>2, <3>3, AskFields, FeeFields, Rounding, CatalogueAssumption
    <3>5. built[i].value = Fee[f].value * ask.units * q /\ FeeDuration = s * q
      BY <3>1 DEF Valued, Rounded, Whole
    <3>6. FeeOrderDuration = FeeDuration
      BY <2>4 DEF FeeOrderDuration
    <3> HIDE DEF f, c, q, s
    <3>7. built[i].value * s = Fee[f].value * ask.units * FeeOrderDuration
      BY <3>4, <3>5, <3>6, Worth
    <3>8. QED
      BY <3>7 DEF f, s
  <2>5. QED
    BY <2>2, <2>3, <2>4
<1>2. QED
  BY <1>1, TypeCorrect, ValuesInvariant, PTL

-----------------------------------------------------------------------------
\* Sums, by induction for sets of numbers.

LEMMA LeastNumber ==
  ASSUME NEW T, T \subseteq Nat, T # {}
  PROVE  \E m \in T : \A n \in T : m <= n
<1> DEFINE R == {s \in Nat \X Nat : s[1] < s[2]}
<1>1. IsWellFoundedOn(R, Nat)
  BY NatLessThanWellFounded DEF OpToRel
<1>2. \E m \in T : \A n \in T : <<n, m>> \notin R
  <2> HIDE DEF R
  <2>1. QED
    BY <1>1, WFMin
<1>3. \A m, n \in T : <<n, m>> \notin R => m <= n
  OBVIOUS
<1>4. QED
  BY <1>2, <1>3

\* Induction, for a set of numbers.
LEMMA AllNumbers ==
  ASSUME NEW T, 0 \in T, \A n \in Nat : n \in T => n + 1 \in T
  PROVE  Nat \subseteq T
<1> DEFINE U == Nat \ T
<1>1. SUFFICES ASSUME U # {} PROVE FALSE
  OBVIOUS
<1>2. PICK m \in U : \A n \in U : m <= n
  <2>1. U \subseteq Nat
    OBVIOUS
  <2> HIDE DEF U
  <2>2. QED
    BY <1>1, <2>1, LeastNumber
<1>3. m # 0 /\ m - 1 \in Nat
  BY <1>2
<1>4. m - 1 \in T
  BY <1>2, <1>3
<1>5. QED
  BY <1>2, <1>3, <1>4

\* f sums up the first n numbers of w.
Sums(w, n, f) == f = [i \in 0..n |-> IF i = 0 THEN 0 ELSE f[i - 1] + w[i]]

LEMMA SumsExist ==
  ASSUME NEW w
  PROVE  \A n \in Nat : \E f : Sums(w, n, f)
<1> DEFINE T == {n \in Nat : \E f : Sums(w, n, f)}
<1>1. 0 \in T
  <2> DEFINE z == [i \in 0..0 |-> 0]
  <2>1. Sums(w, 0, z)
    BY DEF Sums
  <2>2. QED
    BY <2>1
<1>2. ASSUME NEW n \in Nat, n \in T PROVE n + 1 \in T
  <2>1. PICK f : Sums(w, n, f)
    BY <1>2
  <2> DEFINE g == [i \in 0..(n + 1) |-> IF i = n + 1 THEN f[n] + w[n + 1] ELSE f[i]]
  <2>2. \A i \in 0..(n + 1) : g[i] = IF i = 0 THEN 0 ELSE g[i - 1] + w[i]
    <3> TAKE i \in 0..(n + 1)
    <3>1. CASE i = n + 1
      BY <3>1
    <3>2. CASE i \in 0..n
      <4>1. f[i] = IF i = 0 THEN 0 ELSE f[i - 1] + w[i]
        BY <2>1, <3>2 DEF Sums
      <4>2. g[i] = f[i] /\ (i # 0 => g[i - 1] = f[i - 1])
        BY <3>2
      <4>3. QED
        BY <4>1, <4>2
    <3>3. QED
      BY <3>1, <3>2
  <2>3. g = [i \in 0..(n + 1) |-> g[i]]
    OBVIOUS
  <2> HIDE DEF g
  <2>4. Sums(w, n + 1, g)
    BY <2>2, <2>3 DEF Sums
  <2>5. n + 1 \in Nat /\ \E h : Sums(w, n + 1, h)
    BY <2>4
  <2>6. QED
    BY <2>5
<1> HIDE DEF T
<1>3. Nat \subseteq T
  BY <1>1, <1>2, AllNumbers
<1>4. QED
  BY <1>3 DEF T

LEMMA SumOfSums ==
  ASSUME NEW w, NEW n \in Nat
  PROVE  \E f : /\ f[0] = 0 /\ \A i \in 1..n : f[i] = f[i - 1] + w[i]
               /\ SumOf(w, n) = f[n]
<1> DEFINE sum[i \in 0..n] == IF i = 0 THEN 0 ELSE sum[i - 1] + w[i]
<1>1. \E f : Sums(w, n, f)
  BY SumsExist
<1>2. Sums(w, n, sum)
  BY <1>1, Zenon DEF Sums, sum
<1>3. SumOf(w, n) = sum[n]
  BY DEF SumOf
<1> HIDE DEF sum
<1>4. sum[0] = 0 /\ \A i \in 1..n : sum[i] = sum[i - 1] + w[i]
  BY <1>2 DEF Sums
<1>5. QED
  BY <1>3, <1>4

\* A sum of zeros.
LEMMA SumOfZeros ==
  ASSUME NEW w, NEW n \in Nat, \A i \in 1..n : w[i] = 0
  PROVE  SumOf(w, n) = 0
<1>1. PICK f : /\ f[0] = 0 /\ \A i \in 1..n : f[i] = f[i - 1] + w[i]
               /\ SumOf(w, n) = f[n]
  BY SumOfSums
<1> DEFINE T == {k \in Nat : k <= n => f[k] = 0}
<1>2. 0 \in T /\ \A k \in Nat : k \in T => k + 1 \in T
  BY <1>1
<1> HIDE DEF T
<1>3. n \in T
  BY <1>2, AllNumbers
<1>4. QED
  BY <1>1, <1>3 DEF T

LEMMA SumIsInt ==
  ASSUME NEW w, NEW n \in Nat, \A i \in 1..n : w[i] \in Int
  PROVE  SumOf(w, n) \in Int
<1>1. PICK f : /\ f[0] = 0 /\ \A i \in 1..n : f[i] = f[i - 1] + w[i]
               /\ SumOf(w, n) = f[n]
  BY SumOfSums
<1> DEFINE T == {k \in Nat : k <= n => f[k] \in Int}
<1>2. 0 \in T /\ \A k \in Nat : k \in T => k + 1 \in T
  BY <1>1
<1> HIDE DEF T
<1>3. n \in T
  BY <1>2, AllNumbers
<1>4. QED
  BY <1>1, <1>3 DEF T

\* A sum one number of which is larger by x, and which is a number.
LEMMA SumGrows ==
  ASSUME NEW n \in Nat, NEW w, NEW v, NEW j \in 1..n, NEW x \in Int,
         \A i \in 1..n : w[i] \in Int /\ v[i] = IF i = j THEN w[i] + x ELSE w[i]
  PROVE  SumOf(v, n) = SumOf(w, n) + x
<1>1. PICK f : /\ f[0] = 0 /\ \A i \in 1..n : f[i] = f[i - 1] + w[i]
               /\ SumOf(w, n) = f[n]
  BY SumOfSums
<1>2. PICK g : /\ g[0] = 0 /\ \A i \in 1..n : g[i] = g[i - 1] + v[i]
               /\ SumOf(v, n) = g[n]
  BY SumOfSums
<1> DEFINE T == {k \in Nat : k <= n => /\ f[k] \in Int
                                       /\ g[k] = f[k] + (IF k < j THEN 0 ELSE x)}
<1>3. 0 \in T
  BY <1>1, <1>2
<1>4. ASSUME NEW k \in Nat, k \in T PROVE k + 1 \in T
  <2>1. SUFFICES ASSUME k + 1 <= n
                 PROVE  /\ f[k + 1] \in Int
                        /\ g[k + 1] = f[k + 1] + (IF k + 1 < j THEN 0 ELSE x)
    OBVIOUS
  <2>2. k + 1 \in 1..n /\ k + 1 - 1 = k
    BY <2>1
  <2>3. f[k] \in Int /\ g[k] = f[k] + (IF k < j THEN 0 ELSE x)
    BY <1>4, <2>1
  <2>4. f[k + 1] = f[k] + w[k + 1] /\ g[k + 1] = g[k] + v[k + 1]
    BY <1>1, <1>2, <2>2
  <2>5. w[k + 1] \in Int /\ v[k + 1] = IF k + 1 = j THEN w[k + 1] + x ELSE w[k + 1]
    BY <2>2
  <2>6. QED
    BY <2>3, <2>4, <2>5
<1> HIDE DEF T
<1>5. n \in T
  BY <1>3, <1>4, AllNumbers
<1>6. QED
  BY <1>1, <1>2, <1>5 DEF T

\* What the fees in T are ordered at, place by place; and what all fees are.
Parts(T) == [i \in 1..Len(built) |-> IF built[i].fee \in T THEN built[i].value ELSE 0]
Values   == [i \in 1..Len(built) |-> built[i].value]

\* The second walk adds up what the first one has put on the orders, in its own
\* order: the total so far is the value of the orders counted so far.
TotalInv ==
    /\ \A i, j \in 1..Len(built) : built[i].fee = built[j].fee => i = j
    /\ ask.packaged => \A i \in 1..Len(built) : built[i].value = 0
    /\ pc = "count" => ~ask.packaged
    /\ pc \in {"check", "promote", "order", "build"} => counted = {}
    /\ ask.flow = "fees" => value = 0
    /\ ask.flow = "powerRental" /\ ask.fixed /\ pc \in Settled \ {"order"} =>
          value = ask.price * ask.units * 1
    /\ pc = "count" /\ Regular(ask) => total = value + SumOf(Parts(counted), Len(built))
    /\ pc \in {"counted", "submitted"} /\ Regular(ask) =>
          total = value + SumOf(Values, Len(built))

\* The order's own value in the total is the one it was ordered at.
LEMMA CountedOrder ==
  ASSUME CellInv, ValuesInv, TotalInv, Regular(ask), pc = "build"
  PROVE  (IF ask.flow = "fees" THEN 0 ELSE OrderValue) = value
<1>1. ask \in Asks /\ pc \in Settled \ {"order"}
  BY DEF CellInv, Settled
<1>2. CASE ask.flow = "fees"
  BY <1>2 DEF TotalInv
<1>3. CASE ask.flow = "powerRental" /\ ask.fixed
  BY <1>1, <1>3 DEF TotalInv, OrderValue
<1>4. CASE ask.flow = "powerRental" /\ ~ask.fixed
  <2>1. value = ask.price * ask.units * Count(Given(ask, "main"), ask.unit) /\ Kept("main", main)
    BY <1>1, <1>4 DEF ValuesInv, MainInv
  <2>2. ask.unit \in UnitsOf(ask, "main") /\ Given(ask, "main") \in Nat /\ Harmless("main")
    BY <1>1, <1>4, GivenMain DEF UnitsOf
  <2>3. Count(main, ask.unit) = Count(Given(ask, "main"), ask.unit)
    BY <1>1, <2>1, <2>2, RoundingKept
  <2>4. QED
    BY <1>4, <2>1, <2>3 DEF OrderValue
<1>5. QED
  BY <1>1, <1>2, <1>3, <1>4, AskFields

\* A fee is counted at what it was ordered at.
LEMMA CountedFee ==
  ASSUME TypeOK, CellInv, OrdersInv, ValuesInv, TotalInv, Regular(ask),
         NEW f \in Fees, CountFee(f)
  PROVE  \E j \in 1..Len(built) : built[j].fee = f /\ built[j].value = FeeValue(f)
<1>1. /\ f \in Chosen(ask) /\ ValueFee(f) /\ pc \in Settled /\ ask' = ask
      /\ pc' = pc /\ value' = value /\ built' = built
  BY DEF CountFee, Settled
<1>2. PICK j \in 1..Len(built) : built[j].fee = f
  BY <1>1 DEF OrdersInv, CountFee, Built
<1>3. ~ask.packaged /\ built # <<>>
  BY <1>2 DEF TotalInv, CountFee
<1>4. Valued(built[j], Cell, FeeDuration)
  BY <1>3 DEF ValuesInv, BuiltInv
<1>5. Count(FeeDuration, Fee[f].unit) = Count(Given(ask, Cell), Fee[f].unit)
  BY <1>1, ValuesOfFee DEF ValuesInv
<1>6. QED
  BY <1>2, <1>4, <1>5 DEF Valued, FeeValue

LEMMA TotalStep ==
  ASSUME TypeOK, CellInv, OrdersInv, ValuesInv, TotalInv, [Next]_vars
  PROVE  TotalInv'
<1>1. ask \in Asks /\ ask' = ask
  BY DEF CellInv, Next, vars, CheckGoods, ReadPromotion, FormalizeDuration, ValidateDuration,
         ConstructOrder, CountOrder, CountEnds, Submit, GiveUp, ConstructFeeOrder, CountFee
<1>2. Regular(ask)' <=> Regular(ask)
  BY <1>1 DEF Regular, NothingToRound, OneUnit, Given, UnitsOf, SharesMain, Chosen, Left, Whole
<1>3. built \in Seq([fee : Fees, value : Nat]) /\ Len(built) \in Nat /\ value \in Nat
  BY LenProperties DEF TypeOK
<1>4. \A i \in 1..Len(built) : built[i].fee \in Fees /\ built[i].value \in Nat
  <2>1. \A i \in 1..Len(built) : built[i] \in [fee : Fees, value : Nat]
    BY <1>3, ElementOfSeq
  <2>2. QED
    BY <2>1
<1>5. ASSUME UNCHANGED <<ask, value, built, counted, total>>, UNCHANGED pc
      PROVE  TotalInv'
  BY <1>2, <1>5 DEF TotalInv, Parts, Values, Settled
<1>6. CASE CheckGoods \/ ReadPromotion \/ FormalizeDuration \/ ValidateDuration
  <2>1. /\ UNCHANGED <<ask, value, built, counted, total>>
        /\ pc \in {"check", "promote"} /\ pc' \in {"promote", "order", "build"}
        /\ pc' = "build" => ask.flow = "fees"
    BY <1>6 DEF CheckGoods, ReadPromotion, FormalizeDuration, ValidateDuration, values
  <2>2. QED
    BY <2>1 DEF TotalInv, Settled
<1>7. CASE Submit \/ GiveUp
  <2>1. /\ UNCHANGED <<ask, value, built, counted, total>>
        /\ (pc = "counted" /\ pc' = "submitted") \/ pc' = "refused"
    BY <1>7 DEF Submit, GiveUp, values
  <2>2. QED
    BY <1>2, <2>1 DEF TotalInv, Values, Settled
<1>8. CASE UNCHANGED vars
  BY <1>5, <1>8 DEF vars
<1>9. CASE ConstructOrder
  <2>1. /\ UNCHANGED <<ask, built, counted>> /\ value' = OrderValue /\ pc' = "build"
        /\ pc = "order" /\ ask.flow = "powerRental"
    BY <1>9 DEF ConstructOrder, CellInv
  <2>2. ask.fixed => OrderValue = ask.price * ask.units * 1
    BY DEF OrderValue
  <2>3. QED
    BY <2>1, <2>2 DEF TotalInv
<1>10. CASE CountOrder
  <2>1. /\ UNCHANGED <<ask, value, built, counted>> /\ pc = "build" /\ counted = {}
        /\ pc' = IF ask.packaged THEN "counted" ELSE "count"
    BY <1>10 DEF CountOrder, TotalInv
  <2>2. Regular(ask) => total' = value
    BY <1>10, <2>1, CountedOrder DEF CountOrder
  <2>3. SumOf(Parts({}), Len(built)) = 0
    BY <1>3, SumOfZeros DEF Parts
  <2>4. ask.packaged => SumOf(Values, Len(built)) = 0
    BY <1>3, SumOfZeros DEF Values, TotalInv
  <2>5. /\ ask.packaged => \A i \in 1..Len(built) : built[i].value = 0
        /\ \A i, j \in 1..Len(built) : built[i].fee = built[j].fee => i = j
        /\ ask.flow = "fees" => value = 0
        /\ ask.flow = "powerRental" /\ ask.fixed => value = ask.price * ask.units * 1
    BY <2>1 DEF TotalInv, Settled
  <2>6. Parts(counted)' = Parts({}) /\ Values' = Values
    BY <2>1 DEF Parts, Values
  <2>7. /\ pc' = "count" /\ Regular(ask) => total' = value + SumOf(Parts({}), Len(built))
        /\ pc' = "counted" /\ Regular(ask) => total' = value + SumOf(Values, Len(built))
    BY <1>3, <2>1, <2>2, <2>3, <2>4
  <2>8. QED
    BY <1>2, <2>1, <2>5, <2>6, <2>7 DEF TotalInv
<1>11. ASSUME NEW f \in Fees, ConstructFeeOrder(f) PROVE TotalInv'
  <2> DEFINE o == [fee |-> f, value |-> IF ask.packaged THEN 0 ELSE FeeValue(f)]
  <2>1. /\ UNCHANGED <<ask, pc, value, counted, total>> /\ pc = "build" /\ pc \in Settled
        /\ f \notin Built /\ ValueFee(f) /\ built' = Append(built, o)
    BY <1>11 DEF ConstructFeeOrder, Settled
  <2>2. o \in [fee : Fees, value : Nat] /\ o.fee = f /\ (ask.packaged => o.value = 0)
    BY <2>1, FeeValueFacts
  <2> HIDE DEF o
  <2>3. /\ Len(built') = Len(built) + 1 /\ built'[Len(built) + 1] = o
        /\ \A i \in 1..Len(built) : built'[i] = built[i]
    BY <1>3, <2>1, <2>2, AppendProperties
  <2>4. \A i \in 1..Len(built') : i \in 1..Len(built) \/ i = Len(built) + 1
    BY <1>3, <2>3
  <2>5. \A i \in 1..Len(built) : built[i].fee # f
    BY <2>1 DEF Built
  <2>6. \A i, j \in 1..Len(built') : built'[i].fee = built'[j].fee => i = j
    BY <2>2, <2>3, <2>4, <2>5 DEF TotalInv
  <2>7. ask.packaged => \A i \in 1..Len(built') : built'[i].value = 0
    BY <2>2, <2>3, <2>4 DEF TotalInv
  <2>8. QED
    BY <2>1, <2>6, <2>7 DEF TotalInv
<1>12. ASSUME NEW f \in Fees, CountFee(f) PROVE TotalInv'
  <2>1. /\ UNCHANGED <<ask, pc, value, built>> /\ pc = "count" /\ pc \in Settled
        /\ f \notin counted /\ ValueFee(f) /\ counted' = counted \cup {f}
        /\ total' = total + FeeValue(f)
    BY <1>12 DEF CountFee, Settled
  <2>2. FeeValue(f) \in Nat
    BY <2>1, FeeValueFacts
  <2>3. ASSUME Regular(ask)
        PROVE  total' = value + SumOf(Parts(counted'), Len(built))
    <3>1. PICK j \in 1..Len(built) : built[j].fee = f /\ built[j].value = FeeValue(f)
      BY <1>12, <2>3, CountedFee
    <3>2. \A i \in 1..Len(built) :
             /\ Parts(counted)[i] \in Int
             /\ Parts(counted')[i] = IF i = j THEN Parts(counted)[i] + FeeValue(f)
                                              ELSE Parts(counted)[i]
      <4> TAKE i \in 1..Len(built)
      <4>1. /\ Parts(counted)[i] = IF built[i].fee \in counted THEN built[i].value ELSE 0
            /\ Parts(counted')[i] = IF built[i].fee \in counted' THEN built[i].value ELSE 0
        BY DEF Parts
      <4>2. CASE i = j
        BY <1>4, <2>1, <2>2, <3>1, <4>1, <4>2
      <4>3. CASE i # j
        <5>1. built[i].fee # f
          BY <3>1, <4>3 DEF TotalInv
        <5>2. QED
          BY <1>4, <2>1, <4>1, <4>3, <5>1
      <4>4. QED
        BY <4>2, <4>3
    <3>3. SumOf(Parts(counted'), Len(built)) = SumOf(Parts(counted), Len(built)) + FeeValue(f)
      <4> DEFINE w == Parts(counted)
                 v == Parts(counted')
      <4>1. \A i \in 1..Len(built) :
               w[i] \in Int /\ v[i] = IF i = j THEN w[i] + FeeValue(f) ELSE w[i]
        BY <3>2
      <4>2. FeeValue(f) \in Int
        BY <2>2
      <4> HIDE DEF w, v
      <4>3. SumOf(v, Len(built)) = SumOf(w, Len(built)) + FeeValue(f)
        BY <1>3, <4>1, <4>2, SumGrows
      <4>4. QED
        BY <4>3 DEF v, w
    <3>4. total = value + SumOf(Parts(counted), Len(built))
      BY <2>1, <2>3 DEF TotalInv
    <3>5. total \in Nat /\ SumOf(Parts(counted), Len(built)) \in Int
      BY <1>3, <3>2, SumIsInt DEF TypeOK
    <3>6. QED
      BY <1>3, <2>1, <2>2, <3>3, <3>4, <3>5
  <2>4. Parts(counted)' = Parts(counted')
    BY <2>1 DEF Parts
  <2>5. QED
    BY <1>2, <2>1, <2>3, <2>4 DEF TotalInv
<1>13. CASE CountEnds
  <2>1. /\ UNCHANGED <<ask, value, built, counted, total>> /\ pc = "count"
        /\ counted = Chosen(ask) /\ pc' = "counted"
    BY <1>13 DEF CountEnds, values
  <2>2. Parts(counted) = Values
    BY <2>1 DEF Parts, Values, OrdersInv, Built
  <2>3. Values' = Values
    BY <2>1 DEF Values
  <2>4. Regular(ask) => total' = value + SumOf(Values, Len(built))
    BY <2>1, <2>2 DEF TotalInv
  <2>5. QED
    BY <1>2, <2>1, <2>3, <2>4 DEF TotalInv, Settled
<1>14. QED
  BY <1>6, <1>7, <1>8, <1>9, <1>10, <1>11, <1>12, <1>13 DEF Next

\* The payment is for what is ordered: the second walk over the fees, in its own
\* order, adds up the values of the orders the first walk built, for any fees and
\* requests (calculateTotalGoodValueUSD, constructFeeOrderReqs).
THEOREM TotalMatches == Spec => []TotalIsTheValues
<1>1. Init => TotalInv
  <2> SUFFICES ASSUME Init PROVE TotalInv
    OBVIOUS
  <2>1. built = <<>> /\ pc = "check" /\ counted = {} /\ value = 0
    BY DEF Init
  <2>2. QED
    BY <2>1 DEF TotalInv, Settled
<1>2. TypeOK /\ CellInv /\ OrdersInv /\ ValuesInv /\ TotalInv /\ [Next]_vars => TotalInv'
  BY TotalStep
<1>3. TotalInv => TotalIsTheValues
  BY DEF TotalInv, TotalIsTheValues, Values
<1>4. QED
  BY <1>1, <1>2, <1>3, TypeCorrect, OrdersInvariant, ValuesInvariant, PTL DEF Spec

=============================================================================
