--------------------------- MODULE MCOrderPayment ---------------------------
(***************************************************************************)
(* OrderPayment for TLC: two coins with a price and one without, up to two *)
(* balances (of the same coin, too), two coupons that can be worth more    *)
(* than the goods, and amounts that do not divide by the prices.           *)
(***************************************************************************)
EXTENDS OrderPayment, TLC

CONSTANTS c1, c2, c3

MCCoins == {c1, c2, c3}
MCPrice == (c1 :> [low |-> 70, settle |-> 0]) @@ (c2 :> [low |-> 90, settle |-> 40])
               @@ (c3 :> [low |-> 0, settle |-> 0])

Half   == [kind |-> "discount", denomination |-> 50, threshold |-> 0]
Voucher == [kind |-> "fixAmount", denomination |-> 130, threshold |-> 60]
MCCoupons == {Half, Voucher}

Amounts == {0, 1, 3}
MCBalances == [coin : MCCoins, amount : Amounts]
MCOffers == {<<>>} \cup {<<b>> : b \in MCBalances} \cup {<<b, d>> : b \in MCBalances, d \in MCBalances}

MCAsk == [flow : {"createPowerRental", "createFees", "update"},
          orderType : {"Normal", "Offline"}, simulate : BOOLEAN,
          goods : {0, 100, 300}, coupons : SUBSET MCCoupons,
          balances : MCOffers, transferCoin : {c2, c3, NoCoin}]

\* What a request may say: only power rentals are simulated, an update names no
\* coupons, and what an administrator creates offline names no payment.
MCAsks ==
    {k \in MCAsk :
        /\ k.simulate => k.flow = "createPowerRental" /\ k.orderType = "Normal"
        /\ k.flow = "update" => k.coupons = {}
        /\ k.orderType = "Offline" /\ k.flow # "update" =>
              k.balances = <<>> /\ k.transferCoin = NoCoin /\ k.coupons = {}}

=============================================================================
