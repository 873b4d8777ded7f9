--------------------------- MODULE MCOrderPricing ---------------------------
(***************************************************************************)
(* OrderPricing for TLC: two daily fees, one by the hour and one that is   *)
(* not settled by the payment, in days of four hours; durations that       *)
(* divide by a day and that do not, parents that end earlier, later, and   *)
(* before now.                                                             *)
(***************************************************************************)
EXTENDS OrderPricing, TLC

CONSTANTS f1, f2, f3, f4, hour, day

MCFees == {f1, f2, f3, f4}
MCUnits == {hour, day}
MCSeconds == (hour :> 1) @@ (day :> 4)
MCFee == (f1 :> [unit |-> day, value |-> 2, min |-> 4, settled |-> TRUE])
         @@ (f2 :> [unit |-> day, value |-> 3, min |-> 0, settled |-> TRUE])
         @@ (f3 :> [unit |-> hour, value |-> 1, min |-> 0, settled |-> TRUE])
         @@ (f4 :> [unit |-> day, value |-> 4, min |-> 8, settled |-> FALSE])

\* What the good knows and must have.
Rules == {<<{}, {}>>, <<{f1, f2}, {f1}>>, <<MCFees, {f1, f3}>>, <<{f3}, {}>>}

\* One of the goods may not be a fee.
Known == {MCFees, MCFees \ {f1}}

PowerRentals ==
    {[flow |-> "powerRental", simulate |-> FALSE, fixed |-> x, packaged |-> p, unit |-> u,
      price |-> 5, min |-> m, max |-> 9, units |-> 2, duration |-> d, feeDuration |-> e,
      fees |-> F, known |-> n, required |-> r[1], must |-> r[2], endAt |-> 0, now |-> 0,
      promotions |-> <<>>] :
        x \in BOOLEAN, p \in BOOLEAN, u \in MCUnits, m \in {4, 6},
        d \in {NoDuration, 4, 7}, e \in {NoDuration, 3, 8},
        F \in SUBSET MCFees, n \in Known, r \in Rules}

FeeRequests ==
    {[flow |-> "fees", simulate |-> FALSE, fixed |-> FALSE, packaged |-> FALSE, unit |-> hour,
      price |-> 0, min |-> 0, max |-> 0, units |-> 2, duration |-> d, feeDuration |-> NoDuration,
      fees |-> F, known |-> n, required |-> r[1], must |-> r[2], endAt |-> e, now |-> 5,
      promotions |-> <<>>] :
        d \in {4, 7, 9}, F \in SUBSET MCFees, n \in Known, r \in Rules, e \in {3, 10, 13, 20}}

\* A power rental and promotions of it and of a fee, in any order.
Promotion == [good : {Main, f1}, price : 0..2]
Promotions ==
    {[flow |-> "powerRental", simulate |-> TRUE, fixed |-> FALSE, packaged |-> FALSE,
      unit |-> hour, price |-> 5, min |-> 1, max |-> 9, units |-> 2, duration |-> 4,
      feeDuration |-> NoDuration, fees |-> {}, known |-> {}, required |-> {}, must |-> {},
      endAt |-> 0, now |-> 0, promotions |-> p] :
        p \in UNION {[1..n -> Promotion] : n \in 0..3}}

MCAsks == PowerRentals \cup FeeRequests \cup Promotions

=============================================================================
