------------------------- MODULE OrderPaymentProofs -------------------------
(***************************************************************************)
(* Proofs about OrderPayment, for any coins, prices and coupons and any    *)
(* number of balances.  The invariant follows the loop: what was taken so  *)
(* far are the first balances, in full, and remain is what they left open; *)
(* the last entry is then right by what Div does.                          *)
(***************************************************************************)
EXTENDS OrderPayment, SequenceTheorems, WellFoundedInduction, TLAPS

\* Div is off by at most half of the divisor.
LEMMA DivRounds ==
  ASSUME NEW x \in Nat, NEW c \in Nat \ {0}
  PROVE  /\ Div(x, c) \in Nat
         /\ 2 * (Div(x, c) * c) <= 2 * x + c
         /\ 2 * (Div(x, c) * c) >= 2 * x - c
<1> DEFINE n == 2 * x + c
           d == 2 * c
           q == n \div d
           r == n % d
<1>1. n \in Nat /\ d \in Nat \ {0}
  OBVIOUS
<1> HIDE DEF n, d
<1>2. q \in Nat /\ n = d * q + r /\ r \in 0..(d - 1)
  BY <1>1
<1>3. d * q = 2 * (q * c)
  BY <1>2 DEF d
<1>4. QED
  BY <1>2, <1>3 DEF n, d, Div

\* A quotient does not exceed what the dividend does not exceed the worth of.
LEMMA DivNotAbove ==
  ASSUME NEW x \in Nat, NEW c \in Nat \ {0}, NEW a \in Nat, x <= a * c
  PROVE  Div(x, c) <= a
<1> DEFINE q == Div(x, c)
<1>1. q \in Nat /\ 2 * (q * c) <= 2 * x + c
  BY DivRounds
<1> HIDE DEF q
<1>2. SUFFICES ASSUME q >= a + 1 PROVE FALSE
  BY <1>1 DEF q
<1>3. q * c >= (a + 1) * c
  BY <1>1, <1>2
<1>4. (a + 1) * c = a * c + c /\ a * c \in Nat /\ q * c \in Nat
  BY <1>1
<1>5. QED
  BY <1>1, <1>3, <1>4

LEMMA CurrencyType == \A c \in Coins : Currency(c) \in Nat
  BY PricesAssumption DEF Currency

LEMMA DeductionType ==
  ASSUME NEW k \in Asks, NEW c \in Coupons
  PROVE  Deduction(k, c) \in Nat
<1>1. k.goods \in Nat /\ c.denomination \in Nat
  BY AsksAssumption DEF Ask, Coupon
<1>2. k.goods * c.denomination \in Nat
  BY <1>1
<1> DEFINE v == k.goods * c.denomination
<1> HIDE DEF v
<1>3. v \div 100 \in Nat
  BY <1>2 DEF v
<1>4. QED
  BY <1>1, <1>3 DEF Deduction, v

LEMMA EntriesAreOffers == Seq(Entries) \subseteq Seq([coin : Coins, amount : Int, owed : Nat])
<1>1. Entries \subseteq [coin : Coins, amount : Int, owed : Nat]
  BY DEF Entries
<1>2. QED
  BY <1>1, SeqMonotonic

\* An entry for exactly what a trail left open completes a payment.
LEMMA LastEntry ==
  ASSUME NEW q \in Seq(Entries), NEW coin \in Coins, NEW a \in Nat, Currency(coin) > 0,
         amount \in Nat, Trail(q), Left(q) \in Nat, a = Div(Left(q), Currency(coin))
  PROVE  Settles(Append(q, Entry(coin, a, Left(q))), amount)
<1> DEFINE e == Entry(coin, a, Left(q))
           p == Append(q, e)
<1>1. e \in Entries /\ e.coin = coin /\ e.amount = a /\ e.owed = Left(q)
  BY DEF Entry, Entries
<1> HIDE DEF e
<1>2. Len(q) \in Nat
  BY LenProperties
<1>3. Len(p) = Len(q) + 1 /\ p[Len(q) + 1] = e /\ \A i \in 1..Len(q) : p[i] = q[i]
  BY <1>1, AppendProperties
<1> HIDE DEF p
<1>4. p[1].owed = amount
  BY <1>1, <1>2, <1>3 DEF Trail, Left
<1>5. \A i \in 1..(Len(p) - 1) : p[i + 1].owed = p[i].owed - Worth(p[i])
  <2> TAKE i \in 1..(Len(p) - 1)
  <2>1. CASE i = Len(q)
    BY <2>1, <1>1, <1>2, <1>3 DEF Left
  <2>2. CASE i < Len(q)
    <3>1. i \in 1..(Len(q) - 1) /\ p[i] = q[i] /\ p[i + 1] = q[i + 1]
      BY <2>2, <1>2, <1>3
    <3>2. q[i + 1].owed = q[i].owed - Worth(q[i])
      BY <3>1 DEF Trail
    <3>3. QED
      BY <3>1, <3>2
  <2>3. QED
    BY <2>1, <2>2, <1>2, <1>3
<1>6. /\ 2 * Worth(e) <= 2 * e.owed + Currency(e.coin)
      /\ 2 * Worth(e) >= 2 * e.owed - Currency(e.coin)
  <2> DEFINE cur == Currency(coin)
             x == Left(q)
  <2>1. cur \in Nat \ {0} /\ x \in Nat
    BY CurrencyType
  <2>2. Worth(e) = a * cur /\ e.owed = x /\ Currency(e.coin) = cur
    BY <1>1 DEF Worth
  <2> HIDE DEF cur, x
  <2>3. 2 * (Div(x, cur) * cur) <= 2 * x + cur /\ 2 * (Div(x, cur) * cur) >= 2 * x - cur
    BY <2>1, DivRounds
  <2>4. a = Div(x, cur)
    BY DEF x, cur
  <2>5. QED
    BY <2>2, <2>3, <2>4
<1>7. QED
  BY <1>2, <1>3, <1>4, <1>5, <1>6 DEF Settles, p, e

\* A balance used in full makes a trail longer.
LEMMA NextEntry ==
  ASSUME NEW q \in Seq(Entries), NEW coin \in Coins, NEW a \in Nat,
         amount \in Nat, Trail(q), Left(q) \in Nat, Len(ask.balances) \in Nat,
         Len(q) < Len(ask.balances),
         coin = ask.balances[Len(q) + 1].coin, a = ask.balances[Len(q) + 1].amount
  PROVE  LET p == Append(q, Entry(coin, a, Left(q))) IN
         /\ p \in Seq(Entries)
         /\ Len(p) = Len(q) + 1
         /\ Trail(p)
         /\ Left(p) = Left(q) - a * Currency(coin)
<1> DEFINE e == Entry(coin, a, Left(q))
           p == Append(q, e)
<1>1. e \in Entries /\ e.coin = coin /\ e.amount = a /\ e.owed = Left(q)
  BY DEF Entry, Entries
<1> HIDE DEF e
<1>2. Len(q) \in Nat
  BY LenProperties
<1>3. /\ p \in Seq(Entries)
      /\ Len(p) = Len(q) + 1 /\ p[Len(q) + 1] = e /\ \A i \in 1..Len(q) : p[i] = q[i]
  BY <1>1, AppendProperties
<1> HIDE DEF p
<1>4. Len(p) > 0 => p[1].owed = amount
  BY <1>1, <1>2, <1>3 DEF Trail, Left
<1>5. \A i \in 1..(Len(p) - 1) : p[i + 1].owed = p[i].owed - Worth(p[i])
  <2> TAKE i \in 1..(Len(p) - 1)
  <2>1. CASE i = Len(q)
    <3>1. p[i + 1] = e /\ p[i] = q[Len(q)] /\ Len(q) > 0
      BY <2>1, <1>2, <1>3
    <3>2. Left(q) = q[Len(q)].owed - Worth(q[Len(q)])
      BY <3>1, <1>2 DEF Left
    <3>3. QED
      BY <3>1, <3>2, <1>1
  <2>2. CASE i < Len(q)
    <3>1. i \in 1..(Len(q) - 1) /\ p[i] = q[i] /\ p[i + 1] = q[i + 1]
      BY <2>2, <1>2, <1>3
    <3>2. q[i + 1].owed = q[i].owed - Worth(q[i])
      BY <3>1 DEF Trail
    <3>3. QED
      BY <3>1, <3>2
  <2>3. QED
    BY <2>1, <2>2, <1>2, <1>3
<1>6. \A i \in 1..Len(p) : /\ p[i].coin = ask.balances[i].coin
                          /\ p[i].amount = ask.balances[i].amount
  <2> TAKE i \in 1..Len(p)
  <2>1. CASE i = Len(q) + 1
    BY <2>1, <1>1, <1>3
  <2>2. CASE i \in 1..Len(q)
    BY <2>2, <1>3 DEF Trail
  <2>3. QED
    BY <2>1, <2>2, <1>2, <1>3
<1>7. Trail(p)
  BY <1>2, <1>3, <1>4, <1>5, <1>6 DEF Trail
<1>8. Left(p) = Left(q) - a * Currency(coin)
  BY <1>1, <1>2, <1>3 DEF Left, Worth
<1>9. QED
  BY <1>3, <1>7, <1>8 DEF p, e

-----------------------------------------------------------------------------
\* Sums of a sequence.

LEMMA LeastNumber ==
  ASSUME NEW T, T \subseteq Nat, T # {}
  PROVE  \E m \in T : \A n \in T : m <= n
<1> DEFINE R == {s \in Nat \X Nat : s[1] < s[2]}
<1>1. IsWellFoundedOn(R, Nat)
  BY NatLessThanWellFounded DEF OpToRel
<1>2. \E m \in T : \A n \in T : <<n, m>> \notin R
  <2> HIDE DEF R
  <2>1. QED
    BY <1>1, WFMin
<1>3. \A m, n \in T : <<n, m>> \notin R => m <= n
  OBVIOUS
<1>4. QED
  BY <1>2, <1>3

\* Induction, for a set of numbers.
LEMMA AllNumbers ==
  ASSUME NEW T, 0 \in T, \A n \in Nat : n \in T => n + 1 \in T
  PROVE  Nat \subseteq T
<1> DEFINE U == Nat \ T
<1>1. SUFFICES ASSUME U # {} PROVE FALSE
  OBVIOUS
<1>2. PICK m \in U : \A n \in U : m <= n
  <2>1. U \subseteq Nat
    OBVIOUS
  <2> HIDE DEF U
  <2>2. QED
    BY <1>1, <2>1, LeastNumber
<1>3. m # 0 /\ m - 1 \in Nat
  BY <1>2
<1>4. m - 1 \in T
  BY <1>2, <1>3
<1>5. QED
  BY <1>2, <1>3, <1>4

\* f sums up the worths of the first n entries of p.
SumsUpTo(p, n, f) == f = [i \in 0..n |-> IF i = 0 THEN 0 ELSE f[i - 1] + Worth(p[i])]

LEMMA SumExists ==
  ASSUME NEW p
  PROVE  \A n \in Nat : \E f : SumsUpTo(p, n, f)
<1> DEFINE T == {n \in Nat : \E f : SumsUpTo(p, n, f)}
<1>1. 0 \in T
  <2> DEFINE z == [i \in 0..0 |-> 0]
  <2>1. SumsUpTo(p, 0, z)
    BY DEF SumsUpTo
  <2>2. QED
    BY <2>1
<1>2. ASSUME NEW n \in Nat, n \in T PROVE n + 1 \in T
  <2>1. PICK f : SumsUpTo(p, n, f)
    BY <1>2
  <2> DEFINE g == [i \in 0..(n + 1) |-> IF i = n + 1 THEN f[n] + Worth(p[n + 1]) ELSE f[i]]
  <2>2. \A i \in 0..(n + 1) : g[i] = IF i = 0 THEN 0 ELSE g[i - 1] + Worth(p[i])
    <3> TAKE i \in 0..(n + 1)
    <3>1. CASE i = n + 1
      BY <3>1
    <3>2. CASE i \in 0..n
      <4>1. f[i] = IF i = 0 THEN 0 ELSE f[i - 1] + Worth(p[i])
        BY <2>1, <3>2 DEF SumsUpTo
      <4>2. g[i] = f[i] /\ (i # 0 => g[i - 1] = f[i - 1])
        BY <3>2
      <4>3. QED
        BY <4>1, <4>2
    <3>3. QED
      BY <3>1, <3>2
  <2>3. g = [i \in 0..(n + 1) |-> g[i]]
    OBVIOUS
  <2> HIDE DEF g
  <2>4. SumsUpTo(p, n + 1, g)
    BY <2>2, <2>3 DEF SumsUpTo
  <2>5. n + 1 \in Nat /\ \E h : SumsUpTo(p, n + 1, h)
    BY <2>4
  <2>6. QED
    BY <2>5
<1> HIDE DEF T
<1>3. Nat \subseteq T
  BY <1>1, <1>2, AllNumbers
<1>4. QED
  BY <1>3 DEF T

LEMMA TotalSums ==
  ASSUME NEW S, NEW p \in Seq(S)
  PROVE  \E f : SumsUpTo(p, Len(p), f) /\ Total(p) = f[Len(p)]
<1> DEFINE sum[i \in 0..Len(p)] == IF i = 0 THEN 0 ELSE sum[i - 1] + Worth(p[i])
<1>1. \E f : SumsUpTo(p, Len(p), f)
  BY SumExists, LenProperties
<1>2. SumsUpTo(p, Len(p), sum)
  BY <1>1, Zenon DEF SumsUpTo, sum
<1>3. Total(p) = sum[Len(p)]
  BY DEF Total
<1> HIDE DEF sum
<1>4. QED
  BY <1>2, <1>3

LEMMA WorthType == \A e \in Entries : Worth(e) \in Nat
<1> TAKE e \in Entries
<1>1. e.amount \in Nat /\ Currency(e.coin) \in Nat
  BY CurrencyType DEF Entries
<1>2. QED
  BY <1>1 DEF Worth

\* What the entries of a payment are worth, each being owed what those before
\* it left open, is what the first was owed less what the last leaves open.
LEMMA SumTelescopes ==
  ASSUME NEW p \in Seq(Entries), NEW a \in Nat, Len(p) > 0, p[1].owed = a,
         \A i \in 1..(Len(p) - 1) : p[i + 1].owed = p[i].owed - Worth(p[i])
  PROVE  Total(p) = a - p[Len(p)].owed + Worth(p[Len(p)])
<1>1. Len(p) \in Nat /\ \A i \in 1..Len(p) : p[i] \in Entries
  BY LenProperties, ElementOfSeq
<1>2. \A i \in 1..Len(p) : p[i].owed \in Nat /\ Worth(p[i]) \in Nat
  BY <1>1, WorthType DEF Entries
<1>3. PICK f : SumsUpTo(p, Len(p), f) /\ Total(p) = f[Len(p)]
  BY TotalSums
<1>4. f[0] = 0 /\ \A i \in 1..Len(p) : f[i] = f[i - 1] + Worth(p[i])
  BY <1>1, <1>3 DEF SumsUpTo
<1> DEFINE T == {n \in Nat : n + 1 <= Len(p) => f[n + 1] = a - p[n + 1].owed + Worth(p[n + 1])}
<1>5. 0 \in T
  BY <1>1, <1>2, <1>4
<1>6. ASSUME NEW n \in Nat, n \in T PROVE n + 1 \in T
  <2>1. SUFFICES ASSUME n + 2 <= Len(p)
                 PROVE  f[n + 2] = a - p[n + 2].owed + Worth(p[n + 2])
    OBVIOUS
  <2>2. f[n + 1] = a - p[n + 1].owed + Worth(p[n + 1])
    BY <1>1, <1>6, <2>1
  <2>3. f[n + 2] = f[n + 1] + Worth(p[n + 2])
    <3>1. n + 2 \in 1..Len(p) /\ n + 2 - 1 = n + 1
      BY <1>1, <2>1
    <3>2. QED
      BY <3>1, <1>4
  <2>4. p[n + 2].owed = p[n + 1].owed - Worth(p[n + 1])
    <3>1. n + 1 \in 1..(Len(p) - 1) /\ n + 1 + 1 = n + 2
      BY <1>1, <2>1
    <3>2. QED
      BY <3>1
  <2>5. n + 1 \in 1..Len(p) /\ n + 2 \in 1..Len(p)
    BY <1>1, <2>1
  <2>6. /\ p[n + 1].owed \in Nat /\ Worth(p[n + 1]) \in Nat
        /\ p[n + 2].owed \in Nat /\ Worth(p[n + 2]) \in Nat
    BY <1>2, <2>5
  <2>7. QED
    BY <2>2, <2>3, <2>4, <2>6
<1> HIDE DEF T
<1>7. Len(p) - 1 \in T
  <2>1. Nat \subseteq T
    BY <1>5, <1>6, AllNumbers
  <2>2. Len(p) - 1 \in Nat
    BY <1>1
  <2>3. QED
    BY <2>1, <2>2
<1>8. Len(p) - 1 + 1 = Len(p)
  BY <1>1
<1>9. QED
  BY <1>1, <1>3, <1>7, <1>8 DEF T

\* Entries that settle an amount sum up to it, to half a unit of the last coin.
LEMMA SettledSum ==
  ASSUME NEW p \in Seq(Entries), NEW a \in Nat, Settles(p, a)
  PROVE  LET off == 2 * (Total(p) - a)
             unit == Currency(p[Len(p)].coin)
         IN  -unit <= off /\ off <= unit
<1> DEFINE last == p[Len(p)]
           owed == last.owed
           worth == Worth(last)
           unit == Currency(last.coin)
<1>1. Total(p) = a - owed + worth
  BY SumTelescopes DEF Settles
<1>2. last \in Entries
  BY LenProperties, ElementOfSeq DEF Settles
<1>3. owed \in Nat /\ worth \in Nat /\ unit \in Nat
  BY <1>2, WorthType, CurrencyType DEF Entries
<1>4. 2 * worth <= 2 * owed + unit /\ 2 * worth >= 2 * owed - unit
  BY DEF Settles
<1> HIDE DEF owed, worth, unit
<1>5. -unit <= 2 * (Total(p) - a) /\ 2 * (Total(p) - a) <= unit
  BY <1>1, <1>3, <1>4
<1>6. QED
  BY <1>5 DEF unit

-----------------------------------------------------------------------------
Inv == TypeOK /\ PayInv

\* What the other steps need of a request and of its next balance.
LEMMA AskType ==
  ASSUME NEW k \in Asks
  PROVE  /\ k.goods \in Nat
         /\ k.coupons \subseteq Coupons
         /\ k.balances \in Seq([coin : Coins, amount : Int])
         /\ Len(k.balances) \in Nat
         /\ k.transferCoin \in Coins \cup {NoCoin}
         /\ Offered(k) \in Seq([coin : Coins, amount : Int, owed : Nat])
<1>1. /\ k.goods \in Nat
      /\ k.coupons \subseteq Coupons
      /\ k.balances \in Seq([coin : Coins, amount : Int])
      /\ k.transferCoin \in Coins \cup {NoCoin}
  BY AsksAssumption DEF Ask
<1>2. Len(k.balances) \in Nat /\ \A i \in 1..Len(k.balances) :
         k.balances[i] \in [coin : Coins, amount : Int]
  BY <1>1, LenProperties, ElementOfSeq
<1>3. Offered(k) \in Seq([coin : Coins, amount : Int, owed : Nat])
  BY <1>2 DEF Offered, Entry
<1>4. QED
  BY <1>1, <1>2, <1>3

LEMMA InvInit == Init => Inv
<1> SUFFICES ASSUME Init PROVE Inv
  OBVIOUS
<1>1. ask \in Asks
  BY DEF Init
<1>2. TypeOK
  <2>1. amount \in Nat /\ remain \in Nat /\ deduct \in Nat
    BY <1>1, AskType DEF Init
  <2>2. taken \in Seq(Entries) /\ reqs \in Seq([coin : Coins, amount : Int, owed : Nat])
    <3>1. taken = <<>> /\ reqs = Offered(ask)
      BY DEF Init
    <3>2. taken \in Seq(Entries)
      BY <3>1, EmptySeq
    <3>3. QED
      BY <3>1, <3>2, <1>1, AskType
  <2>3. pc \in {"coupons", "pay", "resolve", "submit", "submitted", "refused"}
    BY DEF Init
  <2>4. next \in 1..(Len(ask.balances) + 1)
    BY <1>1, AskType DEF Init
  <2>5. couponsLeft \subseteq ask.coupons /\ transfer \in Entries \cup {NoTransfer}
    BY DEF Init
  <2>6. QED
    BY <1>1, <2>1, <2>2, <2>3, <2>4, <2>5 DEF TypeOK
<1>3. PayInv
  <2>1. transfer = NoTransfer /\ Len(taken) = 0 /\ next = 1 /\ remain = amount
    BY DEF Init
  <2>2. Trail(taken) /\ remain = Left(taken)
    BY <1>1, <2>1, AskType DEF Trail, Left
  <2>3. pc \in {"resolve", "submit"} => ~Pays(ask)
    BY DEF Init, Pays
  <2>4. pc # "submitted" /\ (pc \in {"coupons", "pay"} => ~ask.simulate /\ ~NotAsked(ask))
    BY DEF Init
  <2>5. QED
    BY <2>1, <2>2, <2>3, <2>4 DEF PayInv
<1>4. QED
  BY <1>2, <1>3 DEF Inv

LEMMA InvStep == Inv /\ [Next]_vars => Inv'
<1> SUFFICES ASSUME Inv, [Next]_vars PROVE Inv'
  OBVIOUS
<1> USE DEF Inv, counting, paying, result
<1>1. /\ ask \in Asks
      /\ ask.goods \in Nat
      /\ ask.coupons \subseteq Coupons
      /\ ask.balances \in Seq([coin : Coins, amount : Int])
      /\ Len(ask.balances) \in Nat
      /\ ask.transferCoin \in Coins \cup {NoCoin}
  BY AskType DEF TypeOK
<1>2. CASE UNCHANGED vars
  BY <1>2 DEF vars, TypeOK, PayInv, Trail, Left, Pays, Unpaid, NotAsked
<1>3. CASE Refuse
  BY <1>3 DEF Refuse, TypeOK, PayInv
<1>4. ASSUME NEW c \in Coupons, CountCoupon(c) PROVE Inv'
  <2>1. deduct' \in Nat
    BY <1>4, DeductionType DEF CountCoupon, TypeOK
  <2>2. TypeOK'
    BY <1>4, <2>1 DEF CountCoupon, TypeOK
  <2>3. PayInv'
    BY <1>4 DEF CountCoupon, PayInv, Trail, Left
  <2>4. QED
    BY <2>2, <2>3
<1>5. CASE PriceOrder
  <2>1. amount' \in Nat /\ remain' \in Nat
    BY <1>1, <1>5 DEF PriceOrder, TypeOK
  <2>2. TypeOK'
    BY <1>5, <2>1 DEF PriceOrder, TypeOK
  <2>3. Len(taken) = 0
    BY <1>5 DEF PriceOrder, PayInv
  <2>4. PayInv'
    BY <1>5, <2>1, <2>3 DEF PriceOrder, PayInv, Trail, Left
  <2>5. QED
    BY <2>2, <2>4
<1>6. CASE PayNothing
  BY <1>6 DEF PayNothing, TypeOK, PayInv, Pays
<1> DEFINE b == ask.balances[next]
           q == taken
<1>7. ASSUME Offer(b)
      PROVE  /\ b.coin \in Coins /\ b.amount \in Nat /\ Currency(b.coin) \in Nat \ {0}
             /\ pc = "pay" /\ next \in 1..Len(ask.balances)
             /\ q \in Seq(Entries) /\ amount \in Nat /\ Trail(q) /\ Len(q) = next - 1
             /\ remain = Left(q) /\ Left(q) \in Nat
             /\ transfer = NoTransfer
  <2>1. pc = "pay" /\ next \in 1..Len(ask.balances)
    BY <1>1, <1>7 DEF Offer, TypeOK
  <2>2. b \in [coin : Coins, amount : Int]
    BY <1>1, <2>1, ElementOfSeq
  <2>3. b.coin \in Coins /\ b.amount \in Nat /\ Currency(b.coin) \in Nat \ {0}
    BY <2>2, <1>7, CurrencyType DEF Offer
  <2>4. QED
    BY <2>1, <2>3 DEF TypeOK, PayInv
<1>8. CASE TakeAll
  <2> DEFINE e == Entry(b.coin, b.amount, Left(q))
  <2>1. Offer(b)
    BY <1>8 DEF TakeAll
  <2>2. /\ taken' = Append(q, e)
        /\ remain' = Left(q) - b.amount * Currency(b.coin) /\ Left(q) > b.amount * Currency(b.coin)
        /\ next' = next + 1
        /\ UNCHANGED <<ask, pc, couponsLeft, deduct, amount, reqs, transfer, order, locks>>
    BY <1>7, <2>1, <1>8 DEF TakeAll
  <2>3. /\ Append(q, e) \in Seq(Entries)
        /\ Len(Append(q, e)) = next
        /\ Trail(Append(q, e))
        /\ Left(Append(q, e)) = Left(q) - b.amount * Currency(b.coin)
    <3>1. Len(q) < Len(ask.balances) /\ Len(q) + 1 = next /\ b = ask.balances[Len(q) + 1]
      BY <1>1, <1>7, <2>1
    <3> HIDE DEF b
    <3>2. b.coin = ask.balances[Len(q) + 1].coin /\ b.amount = ask.balances[Len(q) + 1].amount
      BY <3>1
    <3>3. QED
      BY <1>1, <1>7, <2>1, <3>1, <3>2, NextEntry
  <2> HIDE DEF e, b
  <2>4. remain' \in Nat /\ next' \in 1..(Len(ask.balances) + 1)
    <3>1. b.amount * Currency(b.coin) \in Nat
      BY <1>7, <2>1
    <3>2. next' \in 1..(Len(ask.balances) + 1)
      <4>1. next \in 1..Len(ask.balances) /\ next' = next + 1
        BY <1>7, <2>1, <2>2
      <4>2. QED
        BY <4>1, <1>1
    <3> DEFINE worth == b.amount * Currency(b.coin)
    <3>3. worth \in Nat /\ remain' = Left(q) - worth /\ Left(q) > worth /\ Left(q) \in Nat
      BY <1>7, <2>1, <2>2, <3>1
    <3> HIDE DEF worth
    <3>4. remain' \in Nat
      BY <3>3
    <3>5. QED
      BY <3>2, <3>4
  <2>5. TypeOK'
    BY <2>2, <2>3, <2>4 DEF TypeOK
  <2>6. Trail(taken)' /\ remain' = Left(taken)' /\ Len(taken') = next' - 1
    <3> DEFINE r == Append(q, e)
    <3>1. taken' = r /\ ask' = ask /\ amount' = amount
      BY <2>2
    <3>2. Trail(r) /\ Len(r) = next /\ remain' = Left(r)
      BY <2>2, <2>3
    <3> HIDE DEF r, q
    <3>3. Trail(taken)'
      BY <3>1, <3>2 DEF Trail
    <3>4. remain' = Left(taken)'
      BY <3>1, <3>2 DEF Left
    <3>5. Len(taken') = next' - 1
      <4>1. next' = next + 1
        BY <2>2
      <4>2. next \in Nat
        BY <3>2, <2>3, LenProperties
      <4>3. QED
        BY <4>1, <4>2, <3>1, <3>2
    <3>6. QED
      BY <3>3, <3>4, <3>5
  <2>7. PayInv'
    BY <1>7, <2>1, <2>2, <2>6 DEF PayInv
  <2>8. QED
    BY <2>5, <2>7
<1>9. CASE TakeRest
  <2> DEFINE cur == Currency(b.coin)
             a == Div(Left(q), cur)
             e == Entry(b.coin, a, Left(q))
             p == Append(q, e)
  <2>1. Offer(b)
    BY <1>9 DEF TakeRest
  <2>2. /\ taken' = p /\ reqs' = p /\ pc' = "resolve" /\ Left(q) <= b.amount * cur
        /\ UNCHANGED <<ask, couponsLeft, deduct, amount, next, remain, transfer, order, locks>>
    BY <1>7, <2>1, <1>9 DEF TakeRest
  <2>3. a \in Nat /\ a <= b.amount
    BY <1>7, <2>1, <2>2, DivRounds, DivNotAbove
  <2>4. e \in Entries /\ e.coin = b.coin /\ e.amount = a
    BY <1>7, <2>1, <2>3 DEF Entry, Entries
  <2>5. Settles(p, amount)
    BY <1>7, <2>1, <2>3, LastEntry
  <2>6. /\ p \in Seq(Entries) /\ Len(p) = next
        /\ p[next] = e /\ \A i \in 1..(next - 1) : p[i] = q[i]
    <3> HIDE DEF e
    <3>1. QED
      BY <1>7, <2>1, <2>4, AppendProperties
  <2> HIDE DEF a, e, p
  <2>7. p \in Seq([coin : Coins, amount : Int, owed : Nat])
    BY <2>6, EntriesAreOffers
  <2>8. TypeOK'
    BY <2>2, <2>6, <2>7 DEF TypeOK
  <2>9. \A i \in 1..next : p[i].coin = ask.balances[i].coin /\ p[i].amount <= ask.balances[i].amount
    <3> TAKE i \in 1..next
    <3>1. CASE i = next
      BY <3>1, <2>3, <2>4, <2>6
    <3>2. CASE i \in 1..(next - 1)
      <4>1. q[i].coin = ask.balances[i].coin /\ q[i].amount = ask.balances[i].amount
        BY <3>2, <1>7, <2>1 DEF Trail
      <4>2. q[i] \in Entries
        BY <3>2, <1>7, <2>1, ElementOfSeq
      <4>2a. q[i].amount \in Nat
        BY <4>2 DEF Entries
      <4>3. QED
        BY <4>1, <4>2a, <3>2, <2>6
    <3>3. QED
      BY <3>1, <3>2, <1>7, <2>1
  <2>10. PayInv'
    BY <1>7, <2>1, <2>2, <2>5, <2>6, <2>9 DEF PayInv, Settles, Pays, Unpaid, NotAsked
  <2>11. QED
    BY <2>8, <2>10
<1>10. CASE TransferRest
  <2> DEFINE coin == ask.transferCoin
             a == Div(Left(q), Currency(coin))
             e == Entry(coin, a, Left(q))
  <2>1. /\ coin \in Coins /\ coin # NoCoin /\ Currency(coin) \in Nat \ {0}
        /\ pc = "pay" /\ q \in Seq(Entries) /\ amount \in Nat /\ Trail(q)
        /\ remain = Left(q) /\ Left(q) \in Nat /\ Len(q) = Len(ask.balances)
    <3>1. coin \in Coins /\ coin # NoCoin /\ Currency(coin) > 0 /\ pc = "pay"
      BY <1>1, <1>10 DEF TransferRest
    <3>2. Currency(coin) \in Nat \ {0}
      BY <3>1, CurrencyType
    <3>3. q \in Seq(Entries) /\ amount \in Nat /\ Trail(q) /\ remain = Left(q) /\ Left(q) \in Nat
      BY <3>1 DEF TypeOK, PayInv
    <3>4. Len(q) = Len(ask.balances)
      BY <1>1, <1>10, <3>1 DEF TransferRest, TypeOK, PayInv
    <3>5. QED
      BY <3>1, <3>2, <3>3, <3>4
  <2>2. /\ transfer' = e /\ reqs' = taken /\ pc' = "resolve"
        /\ UNCHANGED <<ask, couponsLeft, deduct, amount, next, remain, taken, order, locks>>
    BY <2>1, <1>10 DEF TransferRest
  <2>3. a \in Nat
    BY <2>1, DivRounds
  <2>4. e \in Entries /\ e.coin = coin
    BY <2>1, <2>3 DEF Entry, Entries
  <2>5. Settles(Append(q, e), amount)
    BY <2>1, <2>3, LastEntry
  <2> HIDE DEF a, e
  <2>6. e # NoTransfer
    BY <2>4, AsksAssumption DEF Entries
  <2>7. q \in Seq([coin : Coins, amount : Int, owed : Nat])
    BY <2>1, EntriesAreOffers
  <2>8. TypeOK'
    BY <2>2, <2>4, <2>7 DEF TypeOK
  <2>9. Pays(ask)
    BY <1>10 DEF TransferRest, Pays, PayInv
  <2>10. PayInv'
    <3>1. Settles(Append(reqs', transfer'), amount')
      BY <2>2, <2>5 DEF Settles
    <3>2. \A i \in 1..Len(reqs') : /\ reqs'[i].coin = ask'.balances[i].coin
                                   /\ reqs'[i].amount = ask'.balances[i].amount
      BY <2>1, <2>2 DEF Trail
    <3>3. \A i \in 1..Len(reqs') : reqs'[i].amount <= ask'.balances[i].amount
      <4>1. \A i \in 1..Len(q) : q[i] \in Entries
        BY <2>1, ElementOfSeq
      <4>2. QED
        BY <4>1, <3>2, <2>2 DEF Entries
    <3>4. /\ transfer' # NoTransfer /\ transfer'.coin = ask'.transferCoin
          /\ ask'.transferCoin # NoCoin /\ Len(reqs') = Len(ask'.balances)
          /\ Len(ask'.balances) \in Nat
      BY <1>1, <2>1, <2>2, <2>4, <2>6
    <3>5. Pays(ask') /\ pc' = "resolve" /\ reqs' = taken'
      BY <2>2, <2>9
    <3>6. QED
      BY <3>1, <3>2, <3>3, <3>4, <3>5 DEF PayInv
  <2>11. QED
    BY <2>8, <2>10
<1>11. CASE Resolve
  BY <1>11 DEF Resolve, TypeOK, PayInv, Pays
<1>12. CASE Submit
  BY <1>12 DEF Submit, TypeOK, PayInv, Pays
<1>13. QED
  BY <1>2, <1>3, <1>4, <1>5, <1>6, <1>8, <1>9, <1>10, <1>11, <1>12
  DEF Next, RefuseFreeGoods, RefuseBalance, RefuseTransfer, RefuseThreshold

LEMMA InvAlways == Spec => []Inv
  BY InvInit, InvStep, PTL DEF Spec

\* A simulated request is never taken for an update that asks for no payment.
LEMMA SimulatedIsCreated == ask \in Asks /\ ask.simulate => ~NotAsked(ask)
  BY AsksAssumption DEF NotAsked

LEMMA SubmitInit == Init => SubmitInv
<1> SUFFICES ASSUME Init PROVE SubmitInv
  OBVIOUS
<1>1. ask \in Asks /\ reqs = Offered(ask)
  BY DEF Init
<1>2. pc = "resolve" => ~NotAsked(ask)
  BY <1>1, SimulatedIsCreated DEF Init
<1>3. NotAsked(ask) => reqs = <<>>
  BY <1>1 DEF NotAsked, Offered
<1>4. pc # "submitted"
  BY DEF Init
<1>5. QED
  BY <1>2, <1>3, <1>4 DEF SubmitInv

LEMMA SubmitStep == Inv /\ SubmitInv /\ [Next]_vars => SubmitInv'
<1> SUFFICES ASSUME Inv, SubmitInv, [Next]_vars PROVE SubmitInv'
  OBVIOUS
<1> USE DEF counting, paying, result
<1>1. CASE UNCHANGED vars
  BY <1>1 DEF vars, SubmitInv, NotAsked, PaymentType
<1>2. CASE Refuse
  BY <1>2 DEF Refuse, SubmitInv, NotAsked
<1>3. ASSUME NEW c \in Coupons, CountCoupon(c) PROVE SubmitInv'
  BY <1>3 DEF CountCoupon, SubmitInv, NotAsked
<1>4. CASE PriceOrder
  BY <1>4 DEF PriceOrder, SubmitInv, NotAsked
<1>5. CASE PayNothing
  BY <1>5 DEF PayNothing, Inv, PayInv, SubmitInv, NotAsked
<1>6. CASE TakeAll
  BY <1>6 DEF TakeAll, Offer, SubmitInv, NotAsked
<1>7. CASE TakeRest
  BY <1>7 DEF TakeRest, Offer, Inv, PayInv, SubmitInv, NotAsked
<1>8. CASE TransferRest
  BY <1>8 DEF TransferRest, Inv, PayInv, SubmitInv, NotAsked
<1>9. CASE Resolve
  BY <1>9 DEF Resolve, SubmitInv, NotAsked
<1>10. CASE Submit
  <2>1. ask' = ask /\ reqs' = reqs /\ transfer' = transfer /\ pc' = "submitted"
    BY <1>10 DEF Submit
  <2>2. ASSUME ~ask.simulate
        PROVE  /\ locks'.balances = reqs
               /\ locks'.lockID = (~NotAsked(ask) /\ reqs # <<>>)
               /\ order'.lockID = (~NotAsked(ask) /\ reqs # <<>>)
               /\ locks'.account = (ask.transferCoin # NoCoin)
               /\ order'.type = IF NotAsked(ask) THEN "nil" ELSE PaymentType
    BY <1>10, <2>2 DEF Submit
  <2>3. PaymentType' = PaymentType /\ (NotAsked(ask) <=> NotAsked(ask)')
    BY <2>1 DEF PaymentType, NotAsked
  <2>4. QED
    BY <2>1, <2>2, <2>3 DEF SubmitInv
<1>11. QED
  BY <1>1, <1>2, <1>3, <1>4, <1>5, <1>6, <1>7, <1>8, <1>9, <1>10
  DEF Next, RefuseFreeGoods, RefuseBalance, RefuseTransfer, RefuseThreshold

-----------------------------------------------------------------------------
\* Every variable keeps to its values; in particular nothing is ever owed or
\* charged below zero (CalculatePaymentAmountUSD, ConstructOrderPayment).
THEOREM TypeCorrect == Spec => []TypeOK
<1>1. Inv => TypeOK
  BY DEF Inv
<1>2. QED
  BY <1>1, InvAlways, PTL

\* What an order is paid with settles its amount, for any number of balances,
\* prices and roundings (the loop of ConstructOrderPayment).
THEOREM AmountPaid == Spec => []PaysTheAmount
<1>1. Inv => PaysTheAmount
  BY DEF Inv, PayInv, PaysTheAmount, Entered
<1>2. QED
  BY <1>1, InvAlways, PTL

\* Nobody is charged more of a balance than was offered, and a transfer is
\* asked for only with all balances used up.
THEOREM OfferRespected == Spec => []ChargesWhatWasOffered
<1>1. Inv => ChargesWhatWasOffered
  BY DEF Inv, PayInv, ChargesWhatWasOffered
<1>2. QED
  BY <1>1, InvAlways, PTL

\* The entries an order is paid with sum up to its amount, to half a unit of the
\* last coin, for any number of balances and any prices: the telescoping of
\* PaysTheAmount, by induction over the entries (ConstructOrderPayment).
THEOREM SumPaid == Spec => []SumIsTheAmount
<1>1. Inv => SumIsTheAmount
  <2> SUFFICES ASSUME Inv, pc = "submitted", Pays(ask)
               PROVE  LET p == Entered(order)
                          off == 2 * (Total(p) - order.amount)
                          unit == Currency(p[Len(p)].coin)
                      IN  -unit <= off /\ off <= unit
    BY DEF SumIsTheAmount
  <2> DEFINE p == IF transfer = NoTransfer THEN reqs ELSE Append(reqs, transfer)
  <2>1. Entered(order) = p /\ order.amount = amount /\ Settles(p, amount)
    BY DEF Inv, PayInv, Entered
  <2>2. p \in Seq(Entries) /\ amount \in Nat
    BY AppendProperties DEF Inv, TypeOK, PayInv
  <2> HIDE DEF p
  <2>3. QED
    BY <2>1, <2>2, SettledSum
<1>2. QED
  BY <1>1, InvAlways, PTL

\* What the saga locks in the ledger, the lock, the account and the payment type
\* are those of the payment the order is submitted with, for any request
\* (ResolvePaymentType, the identifiers, the saga's steps).
THEOREM LocksAsPaid == Spec => []LocksMatchOrder
<1>1. Spec => []SubmitInv
  BY SubmitInit, SubmitStep, InvAlways, PTL DEF Spec
<1>2. Inv /\ SubmitInv => LocksMatchOrder
  <2> SUFFICES ASSUME Inv, SubmitInv, pc = "submitted", ~ask.simulate
               PROVE  /\ locks.balances = order.balances
                      /\ locks.balances # <<>> => locks.lockID /\ order.lockID
                      /\ order.transfer # NoTransfer => locks.account
                      /\ order.type \in {"TransferOnly", "TransferAndBalance"}
                            <=> order.transfer # NoTransfer
                      /\ Pays(ask) /\ order.type # "TransferOnly" => order.balances # <<>>
    BY DEF LocksMatchOrder
  <2>1. order.balances = reqs /\ order.transfer = transfer /\ locks.balances = reqs
    BY DEF Inv, PayInv, SubmitInv
  <2>2. transfer # NoTransfer => ask.transferCoin # NoCoin /\ Pays(ask)
    BY DEF Inv, PayInv
  <2>3. order.type = IF NotAsked(ask) THEN "nil" ELSE PaymentType
    BY DEF SubmitInv
  <2>4. reqs # <<>> => locks.lockID /\ order.lockID
    BY DEF SubmitInv
  <2>5. transfer # NoTransfer => locks.account
    BY <2>2 DEF SubmitInv
  <2>6. order.type \in {"TransferOnly", "TransferAndBalance"} <=> transfer # NoTransfer
    BY <2>2, <2>3 DEF Pays, PaymentType
  <2>7. ASSUME Pays(ask), order.type # "TransferOnly" PROVE reqs # <<>>
    <3>1. CASE transfer = NoTransfer
      <4>1. Len(reqs) > 0
        BY <2>7, <3>1 DEF Inv, PayInv, Settles
      <4>2. Len(<<>>) = 0
        OBVIOUS
      <4>3. QED
        BY <4>1, <4>2
    <3>2. CASE transfer # NoTransfer
      BY <2>3, <2>7, <3>2 DEF Pays, PaymentType
    <3>3. QED
      BY <3>1, <3>2
  <2>8. QED
    BY <2>1, <2>4, <2>5, <2>6, <2>7
<1>3. QED
  BY <1>1, <1>2, InvAlways, PTL

=============================================================================
