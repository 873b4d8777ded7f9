---------------------------- MODULE CreationTimes ----------------------------
(***************************************************************************)
(* What a creation has read by the time its order is written: the prices   *)
(* of coins, when the good goes into service, the state of a fee's parent  *)
(* order, and the clock.                                                   *)
(*                                                                         *)
(* Each is read once and never again; prices are fed, the clock goes on    *)
(* and parents are cancelled or end meanwhile.  Delay bounds the time from *)
(* the first of these calls to the last step of the saga.                  *)
(***************************************************************************)
EXTENDS Integers, FiniteSetsExt

CONSTANTS
    Coins,
    Feeds,       \* rows of prices
    CoinOf,      \* the coin of each: a coin has one for every channel
    Goods,       \* start mode and start of service of a good, see Good
    MaxAge,      \* ten minutes: an older price is stale
    Lead,        \* ten minutes: how far ahead an instant start is
    Day,
    Delay,       \* less than Lead
    StartTime, EndTime   \* bounds of the clock

Modes == {"TBD", "Confirmed", "Instantly", "NextDay", "Preset", "Unset"}
Good == [mode : Modes, serviceStartAt : Nat]

VARIABLES
    now,
    updatedAt,    \* of each price
    parent,       \* OrderState of the parent order of a fee
    leftAt,       \* history: when the parent left the states fees are sold for
    kind,         \* what is created
    coins,        \* those of its balances and its transfer
    pc,
    begunAt,      \* when the first of the calls was made
    offer,        \* appPowerRental as it was read
    priced,       \* coinUSDCurrencies: UpdatedAt of the price of each coin found
    startAt,      \* orderStartAt
    used,         \* the coins the payment was computed with
    writtenAt

worldVars == <<now, updatedAt, parent, leftAt>>
readVars == <<kind, coins, begunAt, offer, priced, startAt, used>>
vars == <<worldVars, readVars, pc, writtenAt>>

ParentStates == {"WaitPayment", "Paid", "InService", "Canceled", "Expired"}
NoParent == "none"
NoGood == [mode |-> "Unset", serviceStartAt |-> 0]
Served == {"Paid", "InService"}
InFlight == {"reading", "building", "paying", "saga"}
Over == {"written", "refused"}

Init ==
    /\ now = StartTime
    /\ updatedAt \in [Feeds -> {StartTime - MaxAge - 1, StartTime - 1}]
    /\ \/ kind = "powerRental" /\ parent = NoParent
       \/ kind = "fee" /\ parent \in ParentStates
    /\ leftAt = 0
    /\ coins \in SUBSET Coins
    /\ pc = "begin" /\ begunAt = 0
    /\ offer = NoGood /\ priced = <<>> /\ startAt = 0 /\ used = {}
    /\ writtenAt = 0

-----------------------------------------------------------------------------
\* The handler.

\* Slip: any order that is not over can be a parent.
ReadParent_NotOver ==
    /\ pc = "begin" /\ kind = "fee"
    /\ pc' = IF parent \notin {"Canceled", "Expired"} THEN "reading" ELSE "refused"
    /\ begunAt' = now
    /\ UNCHANGED <<worldVars, kind, coins, offer, priced, startAt, used, writtenAt>>

\* getParentOrder, validateParentOrder.
ReadParent ==
    /\ pc = "begin" /\ kind = "fee"
    /\ pc' = IF parent \in Served THEN "reading" ELSE "refused"
    /\ begunAt' = now
    /\ UNCHANGED <<worldVars, kind, coins, offer, priced, startAt, used, writtenAt>>

\* getAppPowerRental, whatever the good is by then.
ReadGood ==
    /\ pc = "begin" /\ kind = "powerRental"
    /\ offer' \in Goods
    /\ pc' = "reading"
    /\ begunAt' = now
    /\ UNCHANGED <<worldVars, kind, coins, priced, startAt, used, writtenAt>>

Fresh(f) == updatedAt[f] + MaxAge >= now

\* Two rows for each coin are asked for, however many there are, in an order
\* that is not the gateway's.
Rows(S) ==
    LET of == {f \in Feeds : CoinOf[f] \in S}
    IN kSubset(Min({2 * Cardinality(S), Cardinality(of)}), of)

\* The row of a coin that came last is kept.
Kept(rows) ==
    {p \in [{CoinOf[f] : f \in rows} -> {updatedAt[f] : f \in rows}] :
        \A c \in DOMAIN p : \E f \in rows : CoinOf[f] = c /\ updatedAt[f] = p[c]}

\* Slip: one price that is fresh is enough.
ReadPrices_OneFresh ==
    /\ pc = "reading"
    /\ \E rows \in Rows(coins) :
          IF rows = {} \/ \E f \in rows : Fresh(f)
          THEN priced' \in Kept(rows) /\ pc' = "building"
          ELSE pc' = "refused" /\ UNCHANGED priced
    /\ UNCHANGED <<worldVars, kind, coins, begunAt, offer, startAt, used, writtenAt>>

\* GetCoinUSDCurrencies.
ReadPrices ==
    /\ pc = "reading"
    /\ \E rows \in Rows(coins) :
          IF \A f \in rows : Fresh(f)
          THEN priced' \in Kept(rows) /\ pc' = "building"
          ELSE pc' = "refused" /\ UNCHANGED priced
    /\ UNCHANGED <<worldVars, kind, coins, begunAt, offer, startAt, used, writtenAt>>

TomorrowStart == (now \div Day + 1) * Day

\* resolveStartMode and the first half of resolveStartAt: Confirmed is the next
\* day, too.
Earliest ==
    CASE offer.mode \in {"TBD", "Preset"} -> offer.serviceStartAt
      [] offer.mode = "Instantly" -> now + Lead
      [] OTHER -> TomorrowStart

\* Slip: a start that has passed is not refused.
ResolveStart_Passed ==
    /\ pc = "building" /\ kind = "powerRental"
    /\ startAt' = Max({Earliest, offer.serviceStartAt})
    /\ pc' = IF offer.mode # "Unset" THEN "paying" ELSE "refused"
    /\ UNCHANGED <<worldVars, kind, coins, begunAt, offer, priced, used, writtenAt>>

\* Its second half.
ResolveStart ==
    /\ pc = "building" /\ kind = "powerRental"
    /\ startAt' = Max({Earliest, offer.serviceStartAt})
    /\ pc' = IF offer.mode # "Unset" /\ startAt' >= now THEN "paying" ELSE "refused"
    /\ UNCHANGED <<worldVars, kind, coins, begunAt, offer, priced, used, writtenAt>>

\* A fee has the start of its parent.
ConstructFee ==
    /\ pc = "building" /\ kind = "fee"
    /\ pc' = "paying"
    /\ UNCHANGED <<worldVars, readVars, writtenAt>>

\* ConstructOrderPayment looks for the price of each coin until the amount is
\* covered, and refuses a coin without; then the saga is submitted.
Pay ==
    /\ pc = "paying"
    /\ used' \in SUBSET coins
    /\ pc' = IF used' \subseteq DOMAIN priced THEN "saga" ELSE "refused"
    /\ UNCHANGED <<worldVars, kind, coins, begunAt, offer, priced, startAt, writtenAt>>

\* An error, a refusal or a timeout, of the handler or of the saga.
GiveUp ==
    /\ pc \in InFlight
    /\ pc' = "refused"
    /\ UNCHANGED <<worldVars, readVars, writtenAt>>

\* The last step of the saga.
Write ==
    /\ pc = "saga"
    /\ pc' = "written"
    /\ writtenAt' = now
    /\ UNCHANGED <<worldVars, readVars>>

-----------------------------------------------------------------------------
\* The world, as long as the creation can still notice it.
Tick ==
    /\ now < EndTime /\ pc \notin Over
    /\ pc \in InFlight => now < begunAt + Delay
    /\ now' = now + 1
    /\ UNCHANGED <<updatedAt, parent, leftAt, readVars, pc, writtenAt>>

Feed ==
    /\ pc \in {"begin", "reading"}
    /\ \E f \in Feeds : updatedAt' = [updatedAt EXCEPT ![f] = now]
    /\ UNCHANGED <<now, parent, leftAt, readVars, pc, writtenAt>>

ParentMoves ==
    /\ pc \notin Over
    /\ \/ parent = "WaitPayment" /\ parent' \in {"Paid", "Canceled"}
       \/ parent = "Paid" /\ parent' \in {"InService", "Canceled"}
       \/ parent = "InService" /\ parent' \in {"Expired", "Canceled"}
    /\ leftAt' = IF parent \in Served /\ parent' \notin Served THEN now ELSE leftAt
    /\ UNCHANGED <<now, updatedAt, readVars, pc, writtenAt>>

Handle ==
    ReadParent \/ ReadGood \/ ReadPrices \/ ResolveStart \/ ConstructFee \/ Pay \/ GiveUp
World == Tick \/ Feed \/ ParentMoves
Next == Handle \/ Write \/ World

Spec == Init /\ [][Next]_vars

-----------------------------------------------------------------------------
\* Every coin an order is paid in was priced no longer ago than a price may be
\* old and a creation may last, whichever channel the price is of.
PricesAreFresh ==
    pc = "written" => \A c \in used : writtenAt - priced[c] <= MaxAge + Delay

\* An order is not written long after something that had to come later: its
\* start, or the end of the parent it is a fee of; an instant start is still
\* ahead, and none is before the good's service.
WrittenInTime ==
    pc = "written" =>
        IF kind = "fee"
        THEN parent \in Served \/ (leftAt > 0 /\ writtenAt <= leftAt + Delay)
        ELSE /\ writtenAt <= startAt + Delay
             /\ offer.serviceStartAt <= startAt
             /\ offer.mode = "Instantly" => writtenAt < startAt

=============================================================================
