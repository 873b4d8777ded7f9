---------------------------- MODULE OrderPayment ----------------------------
(***************************************************************************)
(* How a request is turned into what it pays with.                         *)
(*                                                                         *)
(* Coupons are deducted from the value of the goods, the balances the user *)
(* offers are used up in the order given, each at the coin's USD price,    *)
(* the last one in part, and what is still owed is left for a transfer.    *)
(* The outcome is the order's payment and what its saga locks.  A request  *)
(* is on its own here: it shares nothing while it computes.                *)
(*                                                                         *)
(* Amounts are integers in the smallest unit of shopspring/decimal's       *)
(* division (16 digits): products and differences are exact, a quotient is *)
(* rounded.  Values in USD are multiples of a unit that has hundredths.    *)
(***************************************************************************)
EXTENDS Integers, Sequences

CONSTANTS
    Coins,
    NoCoin,       \* PaymentTransferCoinTypeID = nil
    Price,        \* MarketValueLow of the currency and SettleValue of the app coin
    NoTransfer,   \* PaymentTransferReq = nil
    Coupons,      \* the coupons that can be allocated
    Asks          \* the requests asked, see Ask

\* A discount is in percent; threshold 0 stands for a coupon without one.
Coupon == [kind : {"discount", "fixAmount"}, denomination : Nat, threshold : Nat]

\* goods is the value of the goods of an order to be created, and the payment
\* amount of the order when it is updated (it was deducted when created).
Ask == [flow : {"createPowerRental", "createFees", "update"},
        orderType : {"Normal", "Offline", "Airdrop"}, simulate : BOOLEAN,
        goods : Nat, coupons : SUBSET Coupons,
        balances : Seq([coin : Coins, amount : Int]), transferCoin : Coins \cup {NoCoin}]

ASSUME PricesAssumption == Price \in [Coins -> [low : Nat, settle : Nat]]

ASSUME AsksAssumption ==
    /\ Coupons \subseteq Coupon
    /\ Asks \subseteq Ask
    /\ NoCoin \notin Coins
    /\ NoTransfer \notin [coin : Coins, amount : Nat, owed : Nat]
    /\ \A k \in Asks :
          /\ k.simulate => k.flow = "createPowerRental"
          /\ k.flow = "update" => k.coupons = {}
          /\ k.flow # "update" => k.goods % 100 = 0

VARIABLES
    ask,        \* the request
    pc,
    couponsLeft, deduct,    \* DeductAmountUSD so far
    amount,     \* PaymentAmountUSD
    next,       \* index of the next balance
    remain,     \* remainAmountUSD
    taken,      \* balanceReqs
    reqs,       \* PaymentBalanceReqs
    transfer,   \* PaymentTransferReq
    order,      \* the payment of the order as submitted
    locks       \* what its saga locks

vars == <<ask, pc, couponsLeft, deduct, amount, next, remain, taken, reqs, transfer, order, locks>>

counting == <<couponsLeft, deduct, amount>>
paying   == <<next, remain, taken, reqs, transfer>>
result   == <<order, locks>>

-----------------------------------------------------------------------------
\* Arithmetic.

\* Slip: a quotient is cut off.
Div_Cut(x, c) == x \div c

\* Div of two decimals: to the nearest unit, halves away from zero.
Div(x, c) == (2 * x + c) \div (2 * c)

\* getCoinUSDCurrency: the settle value if there is one, else the market value;
\* 0 stands for every way of having no price.
Currency(c) == IF Price[c].settle > 0 THEN Price[c].settle ELSE Price[c].low

Deduction(k, c) == IF c.kind = "discount" THEN (k.goods * c.denomination) \div 100
                                          ELSE c.denomination

\* An entry of a payment.  owed is history: the part of the amount that was
\* still owed when this entry was computed.
Entry(coin, a, owed) == [coin |-> coin, amount |-> a, owed |-> owed]
Entries == [coin : Coins, amount : Nat, owed : Nat]
Worth(e) == e.amount * Currency(e.coin)

\* The balances as they were offered.
Offered(k) == [i \in 1..Len(k.balances) |->
                  Entry(k.balances[i].coin, k.balances[i].amount, 0)]

Unpaid(k)  == k.orderType \in {"Offline", "Airdrop"}
NotAsked(k) == k.flow = "update" /\ k.balances = <<>> /\ k.transferCoin = NoCoin

\* Whether the request has to end up with a payment of its amount.
Pays(k) == ~k.simulate /\ ~Unpaid(k) /\ ~NotAsked(k)

NoOrder == [amount |-> 0, discount |-> 0, balances |-> <<>>, transfer |-> NoTransfer,
            type |-> "nil", lockID |-> FALSE, paymentID |-> FALSE]
NoLocks == [balances |-> <<>>, lockID |-> FALSE, account |-> FALSE]

-----------------------------------------------------------------------------
Init ==
    /\ ask \in Asks
    /\ pc = IF ask.simulate THEN "resolve"
            ELSE IF NotAsked(ask) THEN "submit"
            ELSE IF ask.flow = "update" THEN "pay" ELSE "coupons"
    /\ couponsLeft = ask.coupons
    /\ deduct = 0
    /\ amount = IF ask.flow = "update" THEN ask.goods ELSE 0
    /\ next = 1
    /\ remain = amount
    /\ taken = <<>>
    /\ reqs = Offered(ask)
    /\ transfer = NoTransfer
    /\ order = NoOrder
    /\ locks = NoLocks

Refuse == pc' = "refused" /\ UNCHANGED <<ask, counting, paying, result>>

-----------------------------------------------------------------------------
\* CalculateDeductAmountUSD and CalculatePaymentAmountUSD.

RefuseFreeGoods == pc = "coupons" /\ ask.goods = 0 /\ Refuse

\* The coupons are in a map: any of them comes next.
CountCoupon(c) ==
    /\ pc = "coupons"
    /\ ask.goods # 0
    /\ c \in couponsLeft
    /\ deduct' = deduct + Deduction(ask, c)
    /\ couponsLeft' = couponsLeft \ {c}
    /\ UNCHANGED <<ask, pc, amount, paying, result>>

PriceOrder ==
    /\ pc = "coupons"
    /\ ask.goods # 0
    /\ couponsLeft = {}
    /\ amount' = IF ask.goods - deduct < 0 THEN 0 ELSE ask.goods - deduct
    /\ remain' = amount'
    /\ pc' = "pay"
    /\ UNCHANGED <<ask, couponsLeft, deduct, next, taken, reqs, transfer, result>>

-----------------------------------------------------------------------------
\* ConstructOrderPayment.

\* Nothing is computed for an offline order or an airdrop: what was offered
\* stays as it is.
PayNothing ==
    /\ pc = "pay"
    /\ Unpaid(ask)
    /\ pc' = "resolve"
    /\ UNCHANGED <<ask, counting, paying, result>>

\* The next balance can be used: it is positive and its coin has a price.
Offer(b) ==
    /\ pc = "pay"
    /\ ~Unpaid(ask)
    /\ next <= Len(ask.balances)
    /\ b = ask.balances[next]
    /\ Currency(b.coin) > 0
    /\ b.amount > 0

RefuseBalance ==
    /\ pc = "pay"
    /\ ~Unpaid(ask)
    /\ next <= Len(ask.balances)
    /\ \/ Currency(ask.balances[next].coin) = 0
       \/ ask.balances[next].amount <= 0
    /\ Refuse

\* More is owed than this balance is worth: all of it is used.
TakeAll ==
    LET b == ask.balances[next]
        worth == b.amount * Currency(b.coin)
    IN  /\ Offer(b)
        /\ remain > worth
        /\ taken' = Append(taken, Entry(b.coin, b.amount, remain))
        /\ remain' = remain - worth
        /\ next' = next + 1
        /\ UNCHANGED <<ask, pc, counting, reqs, transfer, result>>

\* Slips: PaymentBalanceReqs keeps the balances that are not used; a balance is
\* taken for the last one without looking whether it is enough.
TakeRest_KeepsOffers ==
    LET b == ask.balances[next]
        cur == Currency(b.coin)
    IN  /\ Offer(b)
        /\ remain <= b.amount * cur
        /\ taken' = Append(taken, Entry(b.coin, Div(remain, cur), remain))
        /\ pc' = "resolve"
        /\ UNCHANGED <<ask, counting, next, remain, reqs, transfer, result>>

TakeRest_Anyway ==
    LET b == ask.balances[next]
        cur == Currency(b.coin)
    IN  /\ Offer(b)
        /\ taken' = Append(taken, Entry(b.coin, Div(remain, cur), remain))
        /\ reqs' = taken'
        /\ pc' = "resolve"
        /\ UNCHANGED <<ask, counting, next, remain, transfer, result>>

\* This balance covers what is owed: the balances after it are not used.
TakeRest ==
    LET b == ask.balances[next]
        cur == Currency(b.coin)
    IN  /\ Offer(b)
        /\ remain <= b.amount * cur
        /\ taken' = Append(taken, Entry(b.coin, Div(remain, cur), remain))
        /\ reqs' = taken'
        /\ pc' = "resolve"
        /\ UNCHANGED <<ask, counting, next, remain, transfer, result>>

\* The balances are used up, or there were none; they stay as they are.
TransferRest ==
    /\ pc = "pay"
    /\ ~Unpaid(ask)
    /\ next > Len(ask.balances)
    /\ ask.transferCoin # NoCoin
    /\ Currency(ask.transferCoin) > 0
    /\ transfer' = Entry(ask.transferCoin, Div(remain, Currency(ask.transferCoin)), remain)
    /\ reqs' = taken
    /\ pc' = "resolve"
    /\ UNCHANGED <<ask, counting, next, remain, taken, result>>

RefuseTransfer ==
    /\ pc = "pay"
    /\ ~Unpaid(ask)
    /\ next > Len(ask.balances)
    /\ ~(ask.transferCoin # NoCoin /\ Currency(ask.transferCoin) > 0)
    /\ Refuse

-----------------------------------------------------------------------------
\* ResolvePaymentType, the identifiers, ValidateCouponConstraint, the saga.

\* An order without any payment is first given "NoPayment" and then, having no
\* transfer, "BalanceOnly".
PaymentType ==
    IF transfer = NoTransfer THEN "BalanceOnly"
    ELSE IF reqs = <<>> THEN "TransferOnly"
    ELSE "TransferAndBalance"

Resolve ==
    /\ pc = "resolve"
    /\ pc' = IF transfer # NoTransfer \/ reqs # <<>> \/ ask.simulate \/ Unpaid(ask)
             THEN "submit" ELSE "refused"
    /\ UNCHANGED <<ask, counting, paying, result>>

RefuseThreshold ==
    /\ pc = "submit"
    /\ ~ask.simulate
    /\ \E c \in ask.coupons : amount < c.threshold
    /\ Refuse

\* Slip: the saga locks the balances as they were offered.
Submit_LocksOffers ==
    /\ pc = "submit"
    /\ ask.simulate \/ \A c \in ask.coupons : amount >= c.threshold
    /\ LET resolved == ~ask.simulate /\ ~NotAsked(ask)
           named == resolved /\ reqs # <<>>
       IN  /\ order' = [amount |-> amount, discount |-> deduct, balances |-> reqs,
                        transfer |-> transfer,
                        type |-> IF resolved THEN PaymentType ELSE "nil",
                        lockID |-> named, paymentID |-> named]
           /\ locks' = IF ask.simulate THEN NoLocks
                       ELSE [balances |-> Offered(ask), lockID |-> named,
                             account |-> ask.transferCoin # NoCoin]
    /\ pc' = "submitted"
    /\ UNCHANGED <<ask, counting, paying>>

\* A simulated order is written with the balances offered, no type and no
\* amount, and its saga locks nothing.  Fee orders get no PaymentID.
Submit ==
    /\ pc = "submit"
    /\ ask.simulate \/ \A c \in ask.coupons : amount >= c.threshold
    /\ LET resolved == ~ask.simulate /\ ~NotAsked(ask)
           named == resolved /\ reqs # <<>>
       IN  /\ order' = [amount |-> amount, discount |-> deduct, balances |-> reqs,
                        transfer |-> transfer,
                        type |-> IF resolved THEN PaymentType ELSE "nil",
                        lockID |-> named,
                        paymentID |-> /\ ask.flow # "createFees"
                                      /\ named \/ transfer # NoTransfer]
           /\ locks' = IF ask.simulate THEN NoLocks
                       ELSE [balances |-> reqs, lockID |-> named,
                             account |-> ask.transferCoin # NoCoin]
    /\ pc' = "submitted"
    /\ UNCHANGED <<ask, counting, paying>>

-----------------------------------------------------------------------------
Next ==
    \/ RefuseFreeGoods \/ (\E c \in Coupons : CountCoupon(c)) \/ PriceOrder
    \/ PayNothing \/ RefuseBalance \/ TakeAll \/ TakeRest \/ TransferRest \/ RefuseTransfer
    \/ Resolve \/ RefuseThreshold \/ Submit

Spec == Init /\ [][Next]_vars

-----------------------------------------------------------------------------
\* The values of every variable.
TypeOK ==
    /\ ask \in Asks
    /\ pc \in {"coupons", "pay", "resolve", "submit", "submitted", "refused"}
    /\ couponsLeft \subseteq ask.coupons
    /\ deduct \in Nat
    /\ amount \in Nat
    /\ next \in 1..(Len(ask.balances) + 1)
    /\ remain \in Nat
    /\ taken \in Seq(Entries)
    /\ reqs \in Seq([coin : Coins, amount : Int, owed : Nat])
    /\ transfer \in Entries \cup {NoTransfer}

\* The entries of a payment: the balances and then the transfer.
Entered(o) == IF o.transfer = NoTransfer THEN o.balances ELSE Append(o.balances, o.transfer)

\* The entries p settle a: each is owed what those before it left open, and
\* the last one is what is owed then to half a unit of its coin.
Settles(p, a) ==
    /\ Len(p) > 0
    /\ p[1].owed = a
    /\ \A i \in 1..(Len(p) - 1) : p[i + 1].owed = p[i].owed - Worth(p[i])
    /\ 2 * Worth(p[Len(p)]) <= 2 * p[Len(p)].owed + Currency(p[Len(p)].coin)
    /\ 2 * Worth(p[Len(p)]) >= 2 * p[Len(p)].owed - Currency(p[Len(p)].coin)

\* The payment of a submitted order settles its amount: nothing is charged
\* twice or left out, however many coins, prices and roundings are involved
\* (the loop of ConstructOrderPayment).
PaysTheAmount == pc = "submitted" /\ Pays(ask) => Settles(Entered(order), order.amount)

\* The sum of what the entries p are worth.
Total(p) ==
    LET sum[i \in 0..Len(p)] == IF i = 0 THEN 0 ELSE sum[i - 1] + Worth(p[i])
    IN  sum[Len(p)]

\* The sum of the entries is the amount, to half a unit of the last coin: what
\* PaysTheAmount says entry by entry, said of the whole (ConstructOrderPayment).
SumIsTheAmount ==
    pc = "submitted" /\ Pays(ask) =>
        LET p == Entered(order)
            off == 2 * (Total(p) - order.amount)
            unit == Currency(p[Len(p)].coin)
        IN  -unit <= off /\ off <= unit

\* No balance is charged more than its user offered, a transfer is only asked
\* for when every balance is used up, and the order is charged for no coin and
\* no balance that was not offered.
ChargesWhatWasOffered ==
    pc = "submitted" /\ Pays(ask) =>
        /\ Len(order.balances) <= Len(ask.balances)
        /\ \A i \in 1..Len(order.balances) :
              /\ order.balances[i].coin = ask.balances[i].coin
              /\ order.balances[i].amount <= ask.balances[i].amount
        /\ order.transfer # NoTransfer =>
              /\ order.transfer.coin = ask.transferCoin
              /\ Len(order.balances) = Len(ask.balances)
              /\ \A i \in 1..Len(ask.balances) :
                    order.balances[i].amount = ask.balances[i].amount

\* The saga locks in the ledger what the order says it is paid with, under the
\* lock the order knows, and has an account for every transfer.
LocksMatchOrder ==
    pc = "submitted" /\ ~ask.simulate =>
        /\ locks.balances = order.balances
        /\ locks.balances # <<>> => locks.lockID /\ order.lockID
        /\ order.transfer # NoTransfer => locks.account
        /\ order.type \in {"TransferOnly", "TransferAndBalance"} <=> order.transfer # NoTransfer
        /\ Pays(ask) /\ order.type # "TransferOnly" => order.balances # <<>>

-----------------------------------------------------------------------------
\* What the proofs carry along.

\* The entries q are the first balances offered, used in full, and each is
\* owed what those before it left open.
Trail(q) ==
    /\ Len(q) <= Len(ask.balances)
    /\ \A i \in 1..Len(q) :
          /\ q[i].coin = ask.balances[i].coin
          /\ q[i].amount = ask.balances[i].amount
    /\ Len(q) > 0 => q[1].owed = amount
    /\ \A i \in 1..(Len(q) - 1) : q[i + 1].owed = q[i].owed - Worth(q[i])

Left(q) == IF Len(q) = 0 THEN amount ELSE q[Len(q)].owed - Worth(q[Len(q)])

PayInv ==
    /\ pc = "coupons" => next = 1
    /\ pc \in {"coupons", "pay"} => ~ask.simulate /\ ~NotAsked(ask)
    /\ pc \in {"coupons", "pay"} =>
          /\ transfer = NoTransfer
          /\ Len(taken) = next - 1
          /\ Trail(taken)
          /\ remain = Left(taken)
    /\ pc \in {"resolve", "submit", "submitted"} /\ Pays(ask) =>
          /\ reqs = taken
          /\ Settles(IF transfer = NoTransfer THEN reqs ELSE Append(reqs, transfer), amount)
          /\ Len(reqs) <= Len(ask.balances)
          /\ \A i \in 1..Len(reqs) :
                /\ reqs[i].coin = ask.balances[i].coin
                /\ reqs[i].amount <= ask.balances[i].amount
          /\ transfer # NoTransfer =>
                /\ transfer.coin = ask.transferCoin
                /\ Len(reqs) = Len(ask.balances)
                /\ \A i \in 1..Len(reqs) : reqs[i].amount = ask.balances[i].amount
    /\ transfer # NoTransfer => ask.transferCoin # NoCoin /\ Pays(ask)
    /\ pc = "submitted" => order.amount = amount /\ order.balances = reqs /\ order.transfer = transfer

\* What Submit leaves behind, said of the state after it: the identifiers, the
\* type and the locks all follow from the payment computed, and an update that
\* asked for no payment has none.
SubmitInv ==
    /\ pc = "resolve" => ~NotAsked(ask)
    /\ NotAsked(ask) => reqs = <<>>
    /\ pc = "submitted" /\ ~ask.simulate =>
          /\ locks.balances = reqs
          /\ locks.lockID = (~NotAsked(ask) /\ reqs # <<>>)
          /\ order.lockID = (~NotAsked(ask) /\ reqs # <<>>)
          /\ locks.account = (ask.transferCoin # NoCoin)
          /\ order.type = IF NotAsked(ask) THEN "nil" ELSE PaymentType

=============================================================================
