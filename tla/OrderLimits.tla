----------------------------- MODULE OrderLimits -----------------------------
(***************************************************************************)
(* How many orders a user may leave unpaid and how many units of a good he *)
(* may buy, against the creations he has under way at once.                *)
(*                                                                         *)
(* A creation reads the limits, counts (ValidateMaxUnpaidOrders, with two  *)
(* calls; validateOrderUnits, with one), and goes on to prices, accounts   *)
(* and payment; its orders are written by a saga long after.  Nothing is   *)
(* locked in between, so what a count said may be over by then.  When the  *)
(* saga has committed, the purchase is rewarded.                           *)
(*                                                                         *)
(* One user and one app-good: orders of others are counted by nobody here. *)
(***************************************************************************)
EXTENDS Integers, FiniteSets

CONSTANTS
    Requests,      \* bound: the user's requests under way at once
    Asks,          \* what they ask for, see Ask
    Limits,        \* values of MaxUnpaidOrders; 0, or no configuration, is no limit
    MaxLimit,      \* the largest of them
    Goods,         \* values of MinOrderAmount, MaxOrderAmount and MaxUserAmount
    MaxAmount,     \* the largest MaxUserAmount
    MaxUnits,      \* the largest MaxOrderAmount
    MaxOrders,     \* the most orders one request creates
    MaxWaiting,    \* bound: orders that wait for their payment
    NoAsk

\* A creation: of a power rental with its fees, or of fees for an order the
\* user has.
Ask == [rentals : 0..1, fees : 0..MaxOrders, type : {"Normal", "Offline", "Airdrop"},
        simulate : BOOLEAN, units : Nat]
Good == [min : Nat, max : 0..MaxUnits, user : 0..MaxAmount]

ASSUME LimitsAssumption ==
    /\ IsFiniteSet(Requests) /\ Requests # {}
    /\ MaxLimit \in Nat \ {0} /\ Limits \subseteq 0..MaxLimit
    /\ MaxAmount \in Nat /\ MaxUnits \in Nat /\ MaxOrders \in Nat \ {0} /\ MaxWaiting \in Nat
    /\ Goods \subseteq Good /\ NoAsk \notin Asks
    /\ \A a \in Asks : a \in Ask /\ a.rentals + a.fees \in 1..MaxOrders

VARIABLES
    maxUnpaid,       \* the application's MaxUnpaidOrders as it is now
    been,            \* history: what it has been
    good,            \* the good as it is now
    waitingRentals,  \* power rentals of type Normal that wait for their payment
    waitingFees,     \* fee orders of type Normal that do
    bought,          \* units of his Normal, real, not cancelled power rentals
    pc,              \* where each request is
    ask,             \* what it asks for
    limit,           \* OrderConfig.MaxUnpaidOrders as it was read
    offer,           \* appPowerRental as it was read
    seen,            \* the power rentals it has counted
    wrote,           \* history: its orders were written
    rewards          \* messages published for it

books == <<maxUnpaid, been, good, waitingRentals, waitingFees, bought>>
request == <<ask, limit, offer, seen>>
vars == <<books, pc, request, wrote, rewards>>

Places == {"idle", "configured", "offered", "counting", "counted", "working", "saga",
           "committed", "rewarding", "affiliate", "answering"}

\* Offline orders, airdrops and simulated ones are limited by nothing, and
\* nothing they leave behind is counted: the counts ask for type Normal, and
\* an order that has no payment does not wait for one.
Checked(a) == ~a.simulate /\ a.type \notin {"Offline", "Airdrop"}

NoGood == [min |-> 0, max |-> 0, user |-> 0]

GoTo(r, place) == pc' = [pc EXCEPT ![r] = place]

\* The handler is gone, and all it knew.
End(r) ==
    /\ GoTo(r, "idle")
    /\ ask' = [ask EXCEPT ![r] = NoAsk]
    /\ limit' = [limit EXCEPT ![r] = 0]
    /\ offer' = [offer EXCEPT ![r] = NoGood]
    /\ seen' = [seen EXCEPT ![r] = 0]
    /\ wrote' = [wrote EXCEPT ![r] = FALSE]
    /\ rewards' = [rewards EXCEPT ![r] = {}]

-----------------------------------------------------------------------------
Init ==
    /\ maxUnpaid \in Limits
    /\ been = {maxUnpaid}
    /\ good \in Goods
    /\ waitingRentals = 0 /\ waitingFees = 0 /\ bought = 0
    /\ pc = [r \in Requests |-> "idle"]
    /\ ask = [r \in Requests |-> NoAsk]
    /\ limit = [r \in Requests |-> 0]
    /\ offer = [r \in Requests |-> NoGood]
    /\ seen = [r \in Requests |-> 0]
    /\ wrote = [r \in Requests |-> FALSE]
    /\ rewards = [r \in Requests |-> {}]

\* GetAppConfig, among the first calls of every creation.
Begin(r) ==
    /\ pc[r] = "idle"
    /\ \E a \in Asks :
          /\ ask' = [ask EXCEPT ![r] = a]
          /\ GoTo(r, IF a.rentals = 1 THEN "configured" ELSE "offered")
    /\ limit' = [limit EXCEPT ![r] = maxUnpaid]
    /\ UNCHANGED <<books, offer, seen, wrote, rewards>>

\* getAppPowerRental, with the amounts the units are compared with later.
ReadGood(r) ==
    /\ pc[r] = "configured"
    /\ offer' = [offer EXCEPT ![r] = good]
    /\ GoTo(r, "offered")
    /\ UNCHANGED <<books, ask, limit, seen, wrote, rewards>>

\* An order that no limit applies to.
PassUnchecked(r) ==
    /\ pc[r] = "offered"
    /\ ~Checked(ask[r])
    /\ GoTo(r, "working")
    /\ UNCHANGED <<books, request, wrote, rewards>>

\* Power rentals have their units checked next, fees are done with limits.
Counted(r) == GoTo(r, IF ask[r].rentals = 1 THEN "counted" ELSE "working")

\* ValidateMaxUnpaidOrders without a configuration or a limit.
PassUnlimited(r) ==
    /\ pc[r] = "offered"
    /\ Checked(ask[r])
    /\ limit[r] = 0
    /\ Counted(r)
    /\ UNCHANGED <<books, request, wrote, rewards>>

\* Its first call, CountPowerRentalOrders,
CountPowerRentals(r) ==
    /\ pc[r] = "offered"
    /\ Checked(ask[r])
    /\ limit[r] # 0
    /\ seen' = [seen EXCEPT ![r] = waitingRentals]
    /\ GoTo(r, "counting")
    /\ UNCHANGED <<books, ask, limit, offer, wrote, rewards>>

\* Slip: as many as the limit are still accepted.
CountFees_AtLimit(r) ==
    /\ pc[r] = "counting"
    /\ IF seen[r] + waitingFees <= limit[r]
       THEN Counted(r) /\ UNCHANGED <<request, wrote, rewards>>
       ELSE End(r)
    /\ UNCHANGED books

\* and its second, CountFeeOrders; together they decide.
CountFees(r) ==
    /\ pc[r] = "counting"
    /\ IF seen[r] + waitingFees < limit[r]
       THEN Counted(r) /\ UNCHANGED <<request, wrote, rewards>>
       ELSE End(r)
    /\ UNCHANGED books

\* Slip: what was bought before is compared without what is asked for now.
CheckUnits_Bought(r) ==
    /\ pc[r] = "counted"
    /\ IF /\ ask[r].units >= offer[r].min
          /\ ask[r].units <= offer[r].max
          /\ bought <= offer[r].user
       THEN GoTo(r, "working") /\ UNCHANGED <<request, wrote, rewards>>
       ELSE End(r)
    /\ UNCHANGED books

\* validateOrderUnits, with SumPowerRentalOrderUnits.
CheckUnits(r) ==
    /\ pc[r] = "counted"
    /\ IF /\ ask[r].units >= offer[r].min
          /\ ask[r].units <= offer[r].max
          /\ ask[r].units + bought <= offer[r].user
       THEN GoTo(r, "working") /\ UNCHANGED <<request, wrote, rewards>>
       ELSE End(r)
    /\ UNCHANGED books

\* Any error of the many calls before the saga, or the end of the process.
GiveUp(r) ==
    /\ pc[r] \in {"configured", "offered", "counting", "counted", "working"}
    /\ End(r)
    /\ UNCHANGED books

Submit(r) ==
    /\ pc[r] = "working"
    /\ GoTo(r, "saga")
    /\ UNCHANGED <<books, request, wrote, rewards>>

-----------------------------------------------------------------------------
\* The saga: the orders are written last.  Which of them wait for a payment of
\* their own is for order-middleware to say.  The handler hears of it, or not,
\* if the saga fails after all, the wait ends or the process dies.
Write(r) ==
    /\ pc[r] = "saga"
    /\ \E rentals \in 0..ask[r].rentals, fees \in 0..ask[r].fees :
          /\ Checked(ask[r]) \/ rentals + fees = 0
          /\ waitingRentals + waitingFees + rentals + fees <= MaxWaiting
          /\ waitingRentals' = waitingRentals + rentals
          /\ waitingFees' = waitingFees + fees
    /\ bought' = IF Checked(ask[r]) /\ ask[r].rentals = 1 THEN bought + ask[r].units ELSE bought
    /\ \/ End(r)
       \/ /\ GoTo(r, "committed")
          /\ wrote' = [wrote EXCEPT ![r] = TRUE]
          /\ UNCHANGED <<request, rewards>>
    /\ UNCHANGED <<maxUnpaid, been, good>>

\* Slip: an error of the saga is dropped.
SagaFails_Ignored(r) ==
    /\ pc[r] = "saga"
    /\ GoTo(r, "committed")
    /\ UNCHANGED <<books, request, wrote, rewards>>

SagaFails(r) ==
    /\ pc[r] = "saga"
    /\ End(r)
    /\ UNCHANGED books

-----------------------------------------------------------------------------
\* After the saga.  Only the purchase of a power rental is rewarded.
Rewarded(a) == a.rentals = 1 /\ ~a.simulate /\ a.type = "Normal"

\* checkExistEventGood; an error is answered although the order stands.
ReadEvent(r) ==
    /\ pc[r] = "committed"
    /\ Rewarded(ask[r])
    /\ \/ GoTo(r, "rewarding") /\ UNCHANGED <<request, wrote, rewards>>
       \/ End(r)
    /\ UNCHANGED books

\* A message is published or lost; neither is told to anybody.
Publish(r, event) == rewards' \in {rewards, [rewards EXCEPT ![r] = @ \cup {event}]}

RewardPurchase(r) ==
    /\ pc[r] = "rewarding"
    /\ Publish(r, "purchase")
    /\ GoTo(r, "affiliate")
    /\ UNCHANGED <<books, request, wrote>>

RewardAffiliatePurchase(r) ==
    /\ pc[r] = "affiliate"
    /\ Publish(r, "affiliatePurchase")
    /\ GoTo(r, "answering")
    /\ UNCHANGED <<books, request, wrote>>

\* The order is read back and answered.
Answer(r) ==
    /\ pc[r] = "answering" \/ (pc[r] = "committed" /\ ~Rewarded(ask[r]))
    /\ End(r)
    /\ UNCHANGED books

-----------------------------------------------------------------------------
\* Others: orders are paid, time out, are cancelled or deleted; administrators
\* change the limits.
SettlePowerRental ==
    /\ waitingRentals > 0
    /\ waitingRentals' = waitingRentals - 1
    /\ UNCHANGED <<maxUnpaid, been, good, waitingFees, bought, pc, request, wrote, rewards>>

SettleFee ==
    /\ waitingFees > 0
    /\ waitingFees' = waitingFees - 1
    /\ UNCHANGED <<maxUnpaid, been, good, waitingRentals, bought, pc, request, wrote, rewards>>

CancelPowerRental ==
    /\ \E units \in 1..MaxUnits : units <= bought /\ bought' = bought - units
    /\ UNCHANGED <<maxUnpaid, been, good, waitingRentals, waitingFees, pc, request, wrote, rewards>>

SetMaxUnpaidOrders ==
    /\ maxUnpaid' \in Limits
    /\ been' = been \cup {maxUnpaid'}
    /\ UNCHANGED <<good, waitingRentals, waitingFees, bought, pc, request, wrote, rewards>>

SetGood ==
    /\ good' \in Goods
    /\ UNCHANGED <<maxUnpaid, been, waitingRentals, waitingFees, bought, pc, request, wrote, rewards>>

Handle(r) ==
    \/ Begin(r) \/ ReadGood(r)
    \/ PassUnchecked(r) \/ PassUnlimited(r) \/ CountPowerRentals(r) \/ CountFees(r)
    \/ CheckUnits(r) \/ GiveUp(r) \/ Submit(r)
    \/ ReadEvent(r) \/ RewardPurchase(r) \/ RewardAffiliatePurchase(r) \/ Answer(r)

RunSaga(r) == Write(r) \/ SagaFails(r)

World ==
    SettlePowerRental \/ SettleFee \/ CancelPowerRental \/ SetMaxUnpaidOrders \/ SetGood

Next == (\E r \in Requests : Handle(r) \/ RunSaga(r)) \/ World

Spec == Init /\ [][Next]_vars

-----------------------------------------------------------------------------
\* The values of every variable.
TypeOK ==
    /\ maxUnpaid \in Limits /\ been \in SUBSET Limits /\ good \in Goods
    /\ waitingRentals \in Nat /\ waitingFees \in Nat /\ bought \in Nat
    /\ pc \in [Requests -> Places]
    /\ ask \in [Requests -> Asks \cup {NoAsk}]
    /\ \A r \in Requests : pc[r] # "idle" => ask[r] \in Asks
    /\ limit \in [Requests -> Limits \cup {0}]
    /\ offer \in [Requests -> Goods \cup {NoGood}]
    /\ seen \in [Requests -> Nat]
    /\ wrote \in [Requests -> BOOLEAN]
    /\ rewards \in [Requests -> SUBSET {"purchase", "affiliatePurchase"}]

\* However many requests there have been, however the limit was changed and
\* whatever was paid between the two counts: as long as there always was a limit,
\* the orders that wait exceed the last one allowed by no more than the requests
\* under way at once can create.
UnpaidBound ==
    \/ 0 \in been
    \/ waitingRentals + waitingFees <= MaxLimit - 1 + MaxOrders * Cardinality(Requests)

\* The units bought exceed MaxUserAmount by no more than all the requests under
\* way at once but one can ask for.
UnitsBound ==
    bought <= MaxAmount + MaxUnits * (Cardinality(Requests) - 1)

\* A purchase is rewarded for an order that stands and that the limits applied
\* to, never for one that was refused, taken back or given away.
RewardsFollowOrders ==
    \A r \in Requests : rewards[r] # {} => wrote[r] /\ Checked(ask[r]) /\ ask[r].rentals = 1

=============================================================================
