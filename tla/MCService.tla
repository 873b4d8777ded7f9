------------------------------ MODULE MCService ------------------------------
(***************************************************************************)
(* Values of the constants of Service for TLC.                             *)
(***************************************************************************)
EXTENDS Service

\* Four rows, of which one is a main coin, read two at a time.
CONSTANTS a, b, c, d

MCRows == {a, b, c, d}
MCMain == {a}

-----------------------------------------------------------------------------
\* Every table has two things; the names tell them apart.
CONSTANTS i1, i2, n1, n2

MCIds == {i1, i2}
MCNames == {n1, n2}
MCTables == {"apps", "users", "appGoods", "appPowerRentals", "appFees", "topMosts", "coins",
             "paymentAccounts", "allocatedCoupons"}
MCInitially == [t \in MCTables |-> [i \in MCIds |-> IF i = i1 THEN n1 ELSE n2]]

Single == [t \in MCTables |-> <<i1>>]
Several == {"coins", "paymentAccounts", "allocatedCoupons"}

\* An order paid with two coins and one transfer in one of them.
Paid == [t \in MCTables |-> CASE t = "coins" -> <<i1, i2, i1>>
                                [] t = "allocatedCoupons" -> <<i1, i2>>
                                [] t = "topMosts" -> <<Malformed>>
                                [] OTHER -> <<i1>>]
\* One not paid yet, of somebody else.
Unpaid == [t \in MCTables |-> CASE t \in Several \cup {"appFees"} -> <<>>
                                  [] t = "users" -> <<i2>>
                                  [] OTHER -> <<i1>>]
WithFees == [Paid EXCEPT !.appFees = <<i1, i2>>]
FeeUnpaid == [Unpaid EXCEPT !.appFees = <<i2>>]
NoParent == [FeeUnpaid EXCEPT !.appGoods = <<Malformed>>]
Other == [Single EXCEPT !.users = <<i2>>, !.appGoods = <<i2>>]

Row(id, of) == [id |-> id, of |-> of]

\* Pages of up to three rows that share some of the things they name, name one
\* twice, several or none.
MCPages ==
    [powerRentals |-> {<<>>, <<Row(1, WithFees)>>, <<Row(1, WithFees), Row(2, Unpaid)>>},
     fees |-> {<<Row(1, Paid), Row(2, FeeUnpaid)>>, <<Row(1, Paid), Row(2, NoParent)>>},
     orders |-> {<<Row(1, Single), Row(2, Other)>>},
     orderCoupons |-> {<<Row(1, Single), Row(2, Other)>>},
     records |-> {<<Row(1, Single), Row(2, Other), Row(3, Single)>>}]

=============================================================================
