---------------------------- MODULE OrderPricing ----------------------------
(***************************************************************************)
(* What a creation orders, for how long and at what value, before anything *)
(* is paid: createPowerRental with the fees that come along, and fees for  *)
(* an order that exists (one or several).                                  *)
(*                                                                         *)
(* Durations are passed around as pointers.  Every valuation rounds the    *)
(* duration it was given down to whole units of its good and writes it     *)
(* back; the fees of a package may work on the power rental's own          *)
(* duration; and what the orders point to is only read when the saga is    *)
(* submitted.  The fees are in a map, walked twice, each time in any order.*)
(***************************************************************************)
EXTENDS Integers, Sequences

CONSTANTS
    Fees,         \* the fees an application sells
    Main,         \* the good of the power rental
    Units,        \* GoodDurationType
    Seconds,      \* the length of each unit
    Fee,          \* the fees' records
    NoDuration,   \* nil
    Wrap,         \* 2^32: durations are uint32
    Asks          \* the requests, see Ask

Goods == Fees \cup {Main}

\* fees are the goods asked for; required those good-middleware lists as
\* required by the main good when asked about them, must the ones of these that
\* have to come along; known those it has a fee of.  endAt is of the parent
\* order, units too; promotions are the rows of the top-most goods as listed.
Ask == [flow : {"powerRental", "fees"}, simulate : BOOLEAN,
        fixed : BOOLEAN, packaged : BOOLEAN, unit : Units, price : Nat,
        min : Nat, max : Nat, units : Nat,
        duration : Nat \cup {NoDuration}, feeDuration : Nat \cup {NoDuration},
        fees : SUBSET Fees, known : SUBSET Fees, required : SUBSET Fees,
        must : SUBSET Fees, endAt : Nat, now : Nat, promotions : Seq([good : Goods, price : Nat])]

ASSUME CatalogueAssumption ==
    /\ Seconds \in [Units -> Nat \ {0}]
    /\ Fee \in [Fees -> [unit : Units, value : Nat, min : Nat, settled : BOOLEAN]]
    /\ Main \notin Fees
    /\ NoDuration \notin Nat
    /\ Wrap \in Nat \ {0}

ASSUME AsksAssumption ==
    /\ Asks \subseteq Ask
    /\ \A k \in Asks :
          /\ k.must \subseteq k.required
          /\ k.flow = "fees" => /\ k.duration # NoDuration /\ k.feeDuration = NoDuration
                                /\ ~k.simulate /\ ~k.fixed /\ ~k.packaged

VARIABLES
    ask, pc,
    promotion,    \* TopMostAppGoods: the row chosen for a good, 0 for none
    read,         \* rows of the top-most goods read so far
    main,         \* *DurationSeconds
    own,          \* *FeeDurationSeconds, while it is a duration of its own
    feeCell,      \* what FeeDurationSeconds points to
    value,        \* GoodValueUSD of the power rental order
    built,        \* feeOrderReqs
    counted,      \* fees counted into the total so far
    total         \* TotalGoodValueUSD

vars == <<ask, pc, promotion, read, main, own, feeCell, value, built, counted, total>>

durations == <<main, own, feeCell>>
values    == <<value, built, counted, total>>
offers    == <<promotion, read>>

Init ==
    /\ ask \in Asks
    /\ pc = "check"
    /\ promotion = [g \in Goods |-> 0]
    /\ read = 0
    /\ main = ask.duration
    /\ own = ask.feeDuration
    /\ feeCell = IF ask.flow = "fees" THEN "main"
                 ELSE IF ask.feeDuration = NoDuration THEN "nil" ELSE "own"
    /\ value = 0
    /\ built = <<>>
    /\ counted = {}
    /\ total = 0

-----------------------------------------------------------------------------
\* The goods.

\* formalizeFeeAppGoodIDs: a package brings the fees it must come with.
\* GetAppFees: what is not a fee is not missed.
Chosen(k) == (k.fees \cup (IF k.packaged THEN k.must ELSE {})) \cap k.known

\* validateRequiredAppGoods.  A power rental of which no required good is known
\* is sold with whatever fees are asked for.
GoodsAccepted(k) ==
    \/ k.flow = "powerRental" /\ k.required = {}
    \/ k.required # {} /\ k.must \subseteq k.fees /\ k.fees \subseteq k.required

\* Slip: required goods are looked up, and not that they are there.
CheckGoods_Known ==
    /\ pc = "check"
    /\ ask.required = {} \/ ask.fees \subseteq ask.required
    /\ pc' = "promote"
    /\ UNCHANGED <<ask, offers, durations, values>>

CheckGoods ==
    /\ pc = "check"
    /\ GoodsAccepted(ask)
    /\ pc' = "promote"
    /\ UNCHANGED <<ask, offers, durations, values>>

\* The price of the promotion found so far, 0 if there is none.
Found(g) == IF promotion[g] = 0 THEN 0 ELSE ask.promotions[promotion[g]].price

\* Slip: a promotion found before is never looked at again.
ReadPromotion_First ==
    LET row == ask.promotions[read + 1]
    IN  /\ pc = "promote"
        /\ read < Len(ask.promotions)
        /\ read' = read + 1
        /\ promotion' = IF Found(row.good) = 0
                        THEN [promotion EXCEPT ![row.good] = read + 1] ELSE promotion
        /\ UNCHANGED <<ask, pc, durations, values>>

\* GetTopMostAppGoods.
ReadPromotion ==
    LET row == ask.promotions[read + 1]
    IN  /\ pc = "promote"
        /\ read < Len(ask.promotions)
        /\ read' = read + 1
        /\ promotion' = IF Found(row.good) = 0 \/ row.price < Found(row.good)
                        THEN [promotion EXCEPT ![row.good] = read + 1] ELSE promotion
        /\ UNCHANGED <<ask, pc, durations, values>>

\* What is left of the parent order, as the code's unsigned difference has it.
Left(k) == (k.endAt - k.now) % Wrap

\* Slip: the parent's end is not looked at.
FormalizeDuration_NoEnd ==
    /\ pc = "promote" /\ read = Len(ask.promotions)
    /\ ask.flow = "fees"
    /\ \A f \in Chosen(ask) : main >= Fee[f].min
    /\ pc' = "build"
    /\ UNCHANGED <<ask, offers, durations, values>>

\* formalizeDurationSeconds: a fee is not bought beyond the end of its order.
FormalizeDuration ==
    /\ pc = "promote" /\ read = Len(ask.promotions)
    /\ ask.flow = "fees"
    /\ \A f \in Chosen(ask) : main >= Fee[f].min
    /\ main' = IF main > Left(ask) THEN Left(ask) ELSE main
    /\ pc' = "build"
    /\ UNCHANGED <<ask, offers, own, feeCell, values>>

\* validateOrderDuration, in the code before the promotions are read; a fixed
\* duration replaces the one asked for.
ValidateDuration ==
    /\ pc = "promote" /\ read = Len(ask.promotions)
    /\ ask.flow = "powerRental"
    /\ ask.fixed \/ (ask.duration # NoDuration /\ ask.min <= main /\ main <= ask.max)
    /\ main' = IF ask.fixed THEN ask.min ELSE main
    /\ pc' = "order"
    /\ UNCHANGED <<ask, offers, own, feeCell, values>>

-----------------------------------------------------------------------------
\* The values.

\* GoodDurationDisplayType2Unit and, of that, GoodDurationDisplayType2Seconds.
Count(d, u) == d \div Seconds[u]
Whole(d, u) == Seconds[u] * Count(d, u)

\* calculatePowerRentalOrderValueUSD: the value and the duration it leaves.
OrderValue    == ask.price * ask.units * (IF ask.fixed THEN 1 ELSE Count(main, ask.unit))
OrderDuration == IF ask.fixed THEN main ELSE Whole(main, ask.unit)

\* The part of constructPowerRentalOrderReq that values the order.
ConstructOrder ==
    /\ pc = "order"
    /\ value' = OrderValue
    /\ main' = OrderDuration
    /\ pc' = "build"
    /\ UNCHANGED <<ask, offers, own, feeCell, built, counted, total>>

\* calculateFeeOrderValueUSD: without a duration of its own a fee of a package
\* takes over the pointer to the power rental's.
Cell == IF feeCell = "nil" THEN "main" ELSE feeCell
FeeDuration == IF Cell = "own" THEN own ELSE main
FeeValue(f) == Fee[f].value * ask.units * Count(FeeDuration, Fee[f].unit)

\* Slip: the duration stays what was asked for.
ValueFee_Unrounded(f) ==
    /\ feeCell = "nil" => ask.packaged
    /\ feeCell' = Cell
    /\ UNCHANGED <<main, own>>

ValueFee(f) ==
    /\ feeCell = "nil" => ask.packaged
    /\ feeCell' = Cell
    /\ main' = IF Cell = "main" THEN Whole(main, Fee[f].unit) ELSE main
    /\ own'  = IF Cell = "own" THEN Whole(own, Fee[f].unit) ELSE own

Built == {built[i].fee : i \in 1..Len(built)}

\* constructFeeOrderReqs: one fee of the map.
ConstructFeeOrder(f) ==
    /\ pc = "build"
    /\ f \in Chosen(ask) \ Built
    /\ ValueFee(f)
    /\ built' = Append(built, [fee |-> f, value |-> IF ask.packaged THEN 0 ELSE FeeValue(f)])
    /\ UNCHANGED <<ask, pc, offers, value, counted, total>>

\* Slip: the fees of a package are counted although their orders are free.
CountOrder_All ==
    /\ pc = "build"
    /\ Built = Chosen(ask)
    /\ total' = IF ask.flow = "fees" THEN 0 ELSE OrderValue
    /\ main' = IF ask.flow = "fees" THEN main ELSE OrderDuration
    /\ pc' = "count"
    /\ UNCHANGED <<ask, offers, own, feeCell, value, built, counted>>

\* calculateTotalGoodValueUSD, up to the loop: everything is valued once more.
CountOrder ==
    /\ pc = "build"
    /\ Built = Chosen(ask)
    /\ total' = IF ask.flow = "fees" THEN 0 ELSE OrderValue
    /\ main' = IF ask.flow = "fees" THEN main ELSE OrderDuration
    /\ pc' = IF ask.packaged THEN "counted" ELSE "count"
    /\ UNCHANGED <<ask, offers, own, feeCell, value, built, counted>>

\* calculateTotalGoodValueUSD: one fee of the map.
CountFee(f) ==
    /\ pc = "count"
    /\ f \in Chosen(ask) \ counted
    /\ Fee[f].settled
    /\ ValueFee(f)
    /\ total' = total + FeeValue(f)
    /\ counted' = counted \cup {f}
    /\ UNCHANGED <<ask, pc, offers, value, built>>

CountEnds ==
    /\ pc = "count"
    /\ counted = Chosen(ask)
    /\ pc' = "counted"
    /\ UNCHANGED <<ask, offers, durations, values>>

\* The payment is computed (module OrderPayment; goods of no value are refused
\* there) and put on the first order, and the saga is submitted.
Submit ==
    /\ pc = "counted"
    /\ ask.simulate \/ total # 0
    /\ pc' = "submitted"
    /\ UNCHANGED <<ask, offers, durations, values>>

\* Refused by a rule, or because something could not be read.
GiveUp ==
    /\ pc \notin {"submitted", "refused"}
    /\ pc' = "refused"
    /\ UNCHANGED <<ask, offers, durations, values>>

-----------------------------------------------------------------------------
Next ==
    \/ CheckGoods \/ ReadPromotion \/ FormalizeDuration \/ ValidateDuration
    \/ ConstructOrder \/ CountOrder \/ CountEnds \/ Submit \/ GiveUp
    \/ \E f \in Fees : ConstructFeeOrder(f) \/ CountFee(f)

Spec == Init /\ [][Next]_vars

-----------------------------------------------------------------------------
\* The values of every variable; no duration is negative.
TypeOK ==
    /\ ask \in Ask
    /\ pc \in {"check", "promote", "order", "build", "count", "counted", "submitted", "refused"}
    /\ promotion \in [Goods -> 0..read]
    /\ read \in 0..Len(ask.promotions)
    /\ main \in Nat \cup {NoDuration}
    /\ own \in Nat \cup {NoDuration}
    /\ feeCell \in {"nil", "own", "main"}
    /\ value \in Nat
    /\ built \in Seq([fee : Fees, value : Nat])
    /\ counted \subseteq Fees
    /\ total \in Nat

\* The duration a fee order points to when it is submitted.
FeeOrderDuration == IF ask.packaged THEN main ELSE FeeDuration

\* A catalogue with which rounding is harmless: whatever rounds a duration does
\* it to the same unit, or has nothing to round.
SharesMain(k) == k.flow = "fees" \/ (k.packaged /\ k.feeDuration = NoDuration)
UnitsOf(k, cell) ==
    (IF cell = "main" /\ k.flow = "powerRental" /\ ~k.fixed THEN {k.unit} ELSE {})
        \cup (IF SharesMain(k) <=> cell = "main" THEN {Fee[f].unit : f \in Chosen(k)} ELSE {})
Given(k, cell) ==
    IF cell = "own" THEN k.feeDuration
    ELSE IF k.flow = "fees" THEN (IF k.duration > Left(k) THEN Left(k) ELSE k.duration)
    ELSE IF k.fixed THEN k.min ELSE k.duration
NothingToRound(k, cell) == \A u \in UnitsOf(k, cell) : Whole(Given(k, cell), u) = Given(k, cell)
OneUnit(k, cell) == \A u, v \in UnitsOf(k, cell) : u = v
Regular(k) ==
    /\ NothingToRound(k, "main") \/ (~k.fixed /\ OneUnit(k, "main"))
    /\ Given(k, "own") = NoDuration \/ NothingToRound(k, "own") \/ OneUnit(k, "own")

\* Every order is submitted with the duration its value was computed for,
\* although that duration is rewritten by each valuation of each good, in the
\* order two maps happen to be walked, and read only at the end; with mixed
\* units this holds if nothing is rounded, see the README
\* (calculateFeeOrderValueUSD, calculatePowerRentalOrderValueUSD).
ValuesMatchDurations ==
    pc = "submitted" /\ Regular(ask) =>
        /\ ask.flow = "powerRental" =>
              IF ask.fixed THEN main = ask.min
              ELSE value * Seconds[ask.unit] = ask.price * ask.units * main
        /\ ~ask.packaged => \A i \in 1..Len(built) :
              LET f == built[i].fee
              IN  built[i].value * Seconds[Fee[f].unit] = Fee[f].value * ask.units * FeeOrderDuration

\* The sum of the first n numbers of w.
SumOf(w, n) ==
    LET sum[i \in 0..n] == IF i = 0 THEN 0 ELSE sum[i - 1] + w[i]
    IN  sum[n]

\* What is paid for is what is ordered: the total is the sum of the orders'
\* values, computed in a second walk over the fees (calculateTotalGoodValueUSD).
TotalIsTheValues ==
    pc = "submitted" /\ Regular(ask) =>
        total = value + SumOf([i \in 1..Len(built) |-> built[i].value], Len(built))

\* An order comes with every fee its good must have, as far as good-middleware
\* has a fee of it, and with none its good does not list, a package included
\* (validateRequiredAppGoods, formalizeFeeAppGoodIDs, constructFeeOrderReqs).
RequiredFeesOrdered ==
    pc = "submitted" /\ ask.required # {} =>
        ask.must \cap ask.known \subseteq Built /\ Built \subseteq ask.required

\* A request for fees has an order to carry its payment when it is submitted:
\* formalizePayment takes the first one without looking (the refusal is in
\* CalculateDeductAmountUSD).
PaymentHasAnOrder == pc = "submitted" /\ ask.flow = "fees" => built # <<>>

\* No fee lasts longer than was asked for, or than its parent order as long as
\* that has not ended (formalizeDurationSeconds).
FeesEndInTime ==
    pc = "submitted" /\ ask.flow = "fees" /\ ask.now <= ask.endAt =>
        FeeOrderDuration <= ask.endAt - ask.now /\ FeeOrderDuration <= ask.duration

\* The promotion of a good is the cheapest of its promotions, if none of them
\* is free (the fold of GetTopMostAppGoods takes 0 for absent).
RowsOf(g) == {i \in 1..Len(ask.promotions) : ask.promotions[i].good = g}
PromotionIsCheapest ==
    pc = "submitted" => \A g \in Goods :
        /\ promotion[g] = 0 <=> RowsOf(g) = {}
        /\ promotion[g] # 0 => promotion[g] \in RowsOf(g)
        /\ (\A i \in RowsOf(g) : ask.promotions[i].price # 0)
              => \A i \in RowsOf(g) : ask.promotions[promotion[g]].price <= ask.promotions[i].price

=============================================================================
