----------------------------- MODULE OrderUpdate -----------------------------
(***************************************************************************)
(* Updates of one order: its user pays or cancels, administrators cancel,  *)
(* and the order goes through its life meanwhile.                          *)
(*                                                                         *)
(* UpdatePowerRentalOrder and UpdateFeeOrder read the order once, decide   *)
(* from that snapshot and from the clock whether it may be paid or         *)
(* cancelled, and submit a saga that locks the money and writes the order. *)
(* Whatever happens between the snapshot and the write is not looked at    *)
(* again by the gateway.  The order's life and its write belong to         *)
(* order-middleware and its schedulers and are external: it may refuse a   *)
(* write or take it, and DTM may miss the answer and undo the saga of a    *)
(* write that was made.  A saga is cut down to its locks and its write     *)
(* (module OrderSaga has the rest).                                        *)
(***************************************************************************)
EXTENDS Integers

CONSTANTS
    Updates,        \* update requests on the order
    Asks,           \* what they ask for, see Ask
    Orders,         \* the orders to start from, see Order
    NoUpdate,
    Interval,       \* BenefitIntervalHours: benefits come at its multiples
    Margin,         \* CancelableBeforeStartSeconds
    Distribution,   \* how long after the multiple benefits are still booked
    Delay,          \* the time from an update's snapshot to its write
    StartTime, EndTime    \* bounds of the clock

\* cancel is the flag UserSetCanceled or AdminSetCanceled of the request.
Ask == [who : {"user", "admin"}, cancel : {"unset", "yes", "no"}, pays : BOOLEAN]

Order == [kind : {"powerRental", "fee"}, type : {"Normal", "Offline", "Airdrop"},
          mode : {"Uncancellable", "BeforeStart", "BeforeBenefit", "BeforeUsed"},
          simulate : BOOLEAN, startAt : Nat]

\* Settling stands for the states between the payment and Paid; an order whose
\* payment never came is Expired.
States == {"Created", "WaitPayment", "Settling", "Paid", "InService", "Ended", "Expired"}

ASSUME AskAssumption ==
    /\ Asks \subseteq Ask
    /\ Orders \subseteq Order
    /\ NoUpdate \notin Updates
    /\ \A k \in Asks : k.who = "admin" => ~k.pays
    /\ \A o \in Orders : o.kind = "fee" => ~o.simulate

\* The margin is longer than what an update and a round of benefits can take;
\* the code's unsigned differences do not wrap.
ASSUME TimeAssumption ==
    /\ Interval \in Nat \ {0}
    /\ {Margin, Distribution, Delay, StartTime, EndTime} \subseteq Nat
    /\ Interval + Margin <= StartTime
    /\ \A o \in Orders : Margin <= o.startAt
    /\ Delay + Distribution <= Margin

VARIABLES
    order,            \* what never changes of the order
    state, canceledBy,   \* OrderState and the two flags
    lastBenefitAt,    \* of the power rental, or of the one a fee is for
    payer,            \* the update whose LedgerLockID and payment the order has
    goodBenefited,    \* the good has a statement: someone was paid a benefit
    now,
    ask, pc,          \* of each update
    seen, readAt,     \* its snapshot and when it was taken
    goodSeen, checkedAt,   \* goodBenefitedAt # 0, and when the clock was read
    holds,            \* what its saga has locked
    writes, writtenAt,   \* history: writes so far, and which of them each made
    seenWrites        \* history: how many there were at an update's snapshot

orderVars  == <<order, state, canceledBy, lastBenefitAt, payer, writes, writtenAt>>
worldVars  == <<goodBenefited, now>>
readVars   == <<ask, seen, readAt, goodSeen, checkedAt, seenWrites>>
vars == <<orderVars, worldVars, readVars, pc, holds>>

Places == {"new", "good", "clock", "build", "lock", "write", "undo", "done", "refused"}
InFlight == {"good", "clock", "build", "lock", "write"}

\* A snapshot, and none.
Snapshot == [state : States, canceled : BOOLEAN, lastBenefitAt : Nat]
Now == [state |-> state, canceled |-> canceledBy # {}, lastBenefitAt |-> lastBenefitAt]

Init ==
    /\ order \in Orders
    /\ state = "Created"
    /\ canceledBy = {}
    /\ lastBenefitAt = 0
    /\ payer = NoUpdate
    /\ goodBenefited \in BOOLEAN
    /\ now = StartTime
    /\ ask \in [Updates -> Asks]
    /\ pc = [u \in Updates |-> "new"]
    /\ seen = [u \in Updates |-> Now]
    /\ readAt = [u \in Updates |-> StartTime]
    /\ goodSeen = [u \in Updates |-> FALSE]
    /\ checkedAt = [u \in Updates |-> StartTime]
    /\ holds = [u \in Updates |-> {}]
    /\ writes = 0
    /\ writtenAt = [u \in Updates |-> 0]
    /\ seenWrites = [u \in Updates |-> 0]

GoTo(u, place) == pc' = [pc EXCEPT ![u] = place]

-----------------------------------------------------------------------------
\* The rules.

Unpaid == {"Created", "WaitPayment"}

\* PaymentUpdatable.
PaymentUpdatable(s) == s.state \in Unpaid

\* UserCancelable: the states in which an order of this type is cancelled by who.
UserCancelable(who, type) ==
    IF type = "Normal"
    THEN {"Paid", "InService"} \cup (IF who = "user" THEN {"WaitPayment"} ELSE {})
    ELSE IF who = "admin" THEN {"Paid", "InService"} ELSE {}

\* GoodCancelable: the states in which a good of this mode is.
GoodCancelable(mode) ==
    CASE mode = "Uncancellable" -> {}
      [] mode = "BeforeStart"   -> {"WaitPayment", "Paid"}
      [] mode = "BeforeBenefit" -> {"WaitPayment", "Paid", "InService"}
      [] mode = "BeforeUsed"    -> States

\* Slip: the margin is only kept ahead of a benefit.
BenefitAtHand_BeforeOnly(t) ==
    LET next == (t \div Interval + 1) * Interval
    IN  next - Margin <= t /\ t <= next + Margin

\* t is within the margin of the last or of the next multiple of the interval.
BenefitAtHand(t) ==
    LET this == (t \div Interval) * Interval
        next == (t \div Interval + 1) * Interval
    IN  \/ this - Margin <= t /\ t <= this + Margin
        \/ next - Margin <= t /\ t <= next + Margin

\* A power rental's "no" means nothing is to be cancelled; a fee's "no" is
\* refused.
Cancels(u) == IF order.kind = "fee" THEN ask[u].cancel # "unset" ELSE ask[u].cancel = "yes"

\* Slip: the order's cancel mode is left to the middlewares.
ReadAccepts_AnyMode(u) ==
    /\ ask[u].pays => PaymentUpdatable(Now)
    /\ Cancels(u) =>
          /\ ask[u].cancel # "no"
          /\ canceledBy = {}
          /\ state \in UserCancelable(ask[u].who, order.type)

\* Slip: the two flags of the order are not looked at.
ReadAccepts_Again(u) ==
    /\ ask[u].pays => PaymentUpdatable(Now)
    /\ Cancels(u) =>
          /\ ask[u].cancel # "no"
          /\ state \in UserCancelable(ask[u].who, order.type)
          /\ state \in GoodCancelable(order.mode)

\* What is decided of the snapshot.  The good's rule is asked for later than
\* the user's, of the same snapshot.
ReadAccepts(u) ==
    /\ ask[u].pays => PaymentUpdatable(Now)
    /\ Cancels(u) =>
          /\ ask[u].cancel # "no"
          /\ canceledBy = {}
          /\ state \in UserCancelable(ask[u].who, order.type)
          /\ state \in GoodCancelable(order.mode)

\* Slip: the margin before the start is taken from the wrong side.
ClockAccepts_LateStart(u) ==
    CASE order.mode = "BeforeStart"   -> order.startAt + Margin > now
      [] order.mode = "BeforeBenefit" ->
            goodSeen[u] => seen[u].lastBenefitAt = 0 /\ ~BenefitAtHand(now)
      [] OTHER -> TRUE

\* goodCancelable of a power rental, from the clock.
ClockAccepts(u) ==
    CASE order.mode = "BeforeStart"   -> order.startAt - Margin > now
      [] order.mode = "BeforeBenefit" ->
            goodSeen[u] => seen[u].lastBenefitAt = 0 /\ ~BenefitAtHand(now)
      [] OTHER -> TRUE

\* What the saga of u has to lock.
Clawback(u) == Cancels(u) /\ ~(order.kind = "powerRental" /\ order.simulate)
Needs(u) == (IF ask[u].pays THEN {"payment"} ELSE {})
               \cup (IF Clawback(u) THEN {"commissions"} ELSE {})

-----------------------------------------------------------------------------
\* The handler.

\* CheckOrder, GetPowerRentalOrder or GetFeeOrder, and the rules on it.
Read(u) ==
    /\ pc[u] = "new"
    /\ ReadAccepts(u)
    /\ seen' = [seen EXCEPT ![u] = Now]
    /\ readAt' = [readAt EXCEPT ![u] = now]
    /\ seenWrites' = [seenWrites EXCEPT ![u] = writes]
    /\ GoTo(u, IF Cancels(u) /\ order.kind = "powerRental" THEN "good" ELSE "build")
    /\ UNCHANGED <<orderVars, worldVars, ask, goodSeen, checkedAt, holds>>

\* Refused by a rule, or because something could not be read.
GiveUp(u) ==
    /\ pc[u] \in {"new", "good", "clock", "build"}
    /\ GoTo(u, "refused")
    /\ UNCHANGED <<orderVars, worldVars, readVars, holds>>

\* getGoodBenefitTime.
ReadGood(u) ==
    /\ pc[u] = "good"
    /\ goodSeen' = [goodSeen EXCEPT ![u] = goodBenefited]
    /\ GoTo(u, "clock")
    /\ UNCHANGED <<orderVars, worldVars, ask, seen, readAt, checkedAt, seenWrites, holds>>

\* goodCancelable, which reads the clock.
CheckClock(u) ==
    /\ pc[u] = "clock"
    /\ ClockAccepts(u)
    /\ checkedAt' = [checkedAt EXCEPT ![u] = now]
    /\ GoTo(u, "build")
    /\ UNCHANGED <<orderVars, worldVars, ask, seen, readAt, goodSeen, seenWrites, holds>>

\* The commissions are read, the account taken, the payment computed, the saga
\* submitted.
Submit(u) ==
    /\ pc[u] = "build"
    /\ GoTo(u, "lock")
    /\ UNCHANGED <<orderVars, worldVars, readVars, holds>>

-----------------------------------------------------------------------------
\* Its saga.

LockAll(u) ==
    /\ pc[u] = "lock"
    /\ holds' = [holds EXCEPT ![u] = Needs(u)]
    /\ GoTo(u, "write")
    /\ UNCHANGED <<orderVars, worldVars, readVars>>

\* A lock refused, the saga timed out, or the write refused.
SagaFails(u) ==
    /\ pc[u] \in {"lock", "write"}
    /\ GoTo(u, "undo")
    /\ UNCHANGED <<orderVars, worldVars, readVars, holds>>

\* Slip: the locks of a refused update are left to the ledger.
Undo_Nothing(u) ==
    /\ pc[u] = "undo"
    /\ GoTo(u, "refused")
    /\ UNCHANGED <<orderVars, worldVars, readVars, holds>>

Undo(u) ==
    /\ pc[u] = "undo"
    /\ holds' = [holds EXCEPT ![u] = {}]
    /\ GoTo(u, "refused")
    /\ UNCHANGED <<orderVars, worldVars, readVars>>

\* UpdatePowerRentalOrder or UpdateFeeOrder of order-middleware, which is not
\* known to look at anything.  DTM may miss the answer and undo the saga: the
\* write has no compensation and stays.
Write(u) ==
    /\ pc[u] = "write"
    /\ canceledBy' = CASE ask[u].cancel = "yes"   -> canceledBy \cup {ask[u].who}
                       [] ask[u].cancel = "no"    -> canceledBy \ {ask[u].who}
                       [] ask[u].cancel = "unset" -> canceledBy
    /\ payer' = IF ask[u].pays THEN u ELSE payer
    /\ writes' = writes + 1
    /\ writtenAt' = [writtenAt EXCEPT ![u] = writes + 1]
    /\ GoTo(u, "done") \/ GoTo(u, "undo")
    /\ UNCHANGED <<order, state, lastBenefitAt, worldVars, readVars, holds>>

-----------------------------------------------------------------------------
\* The world: the order's life, the benefits, the clock.

Follows == {<<"Created", "WaitPayment">>, <<"WaitPayment", "Settling">>,
            <<"WaitPayment", "Expired">>, <<"Settling", "Paid">>,
            <<"Paid", "InService">>, <<"InService", "Ended">>}

Advance(s) ==
    /\ canceledBy = {}
    /\ <<state, s>> \in Follows
    /\ s = "InService" => now >= order.startAt
    /\ state' = s
    /\ UNCHANGED <<order, canceledBy, lastBenefitAt, payer, writes, writtenAt>>
    /\ UNCHANGED <<worldVars, readVars, pc, holds>>

\* Benefits are booked from a multiple of the interval on.
Booking(t) == \E k \in 0..t : k * Interval <= t /\ t <= k * Interval + Distribution

Benefit ==
    /\ Booking(now)
    /\ goodBenefited' = TRUE
    /\ \/ state = "InService" /\ canceledBy = {} /\ lastBenefitAt' = now
       \/ lastBenefitAt' = lastBenefitAt
    /\ UNCHANGED <<order, state, canceledBy, payer, writes, writtenAt, now, readVars, pc, holds>>

\* No update is at work for longer than Delay.
Tick ==
    /\ now < EndTime
    /\ \A u \in Updates : pc[u] \in InFlight => now < readAt[u] + Delay
    /\ now' = now + 1
    /\ UNCHANGED <<orderVars, goodBenefited, readVars, pc, holds>>

-----------------------------------------------------------------------------
Handle(u) == Read(u) \/ GiveUp(u) \/ ReadGood(u) \/ CheckClock(u) \/ Submit(u)
RunSaga(u) == LockAll(u) \/ SagaFails(u) \/ Undo(u) \/ Write(u)
World == (\E s \in States : Advance(s)) \/ Benefit \/ Tick

Next == (\E u \in Updates : Handle(u) \/ RunSaga(u)) \/ World

Spec == Init /\ [][Next]_vars

-----------------------------------------------------------------------------
\* The values of every variable; nothing is locked that was not asked for.
TypeOK ==
    /\ order \in Orders
    /\ state \in States
    /\ canceledBy \subseteq {"user", "admin"}
    /\ lastBenefitAt \in Nat
    /\ payer \in Updates \cup {NoUpdate}
    /\ goodBenefited \in BOOLEAN
    /\ now \in Nat
    /\ ask \in [Updates -> Asks]
    /\ pc \in [Updates -> Places]
    /\ seen \in [Updates -> Snapshot]
    /\ readAt \in [Updates -> Nat]
    /\ goodSeen \in [Updates -> BOOLEAN]
    /\ checkedAt \in [Updates -> Nat]
    /\ holds \in [Updates -> SUBSET {"payment", "commissions"}]
    /\ \A u \in Updates : holds[u] \subseteq Needs(u)
    /\ writes \in Nat
    /\ writtenAt \in [Updates -> Nat]
    /\ seenWrites \in [Updates -> Nat]

\* The updates whose cancellation was written.
canceled == {u \in Updates : writtenAt[u] # 0 /\ Cancels(u)}

Settled == {"Paid", "InService", "Ended"}

\* The rules allow u to cancel the order as it is now.
MayCancel(u) ==
    /\ order.mode # "Uncancellable"
    /\ state # "Created"
    /\ ask[u].who = "admin" => state \in Settled
    /\ order.type # "Normal" => ask[u].who = "admin"

\* However late a cancellation is written after it was checked, it is one the
\* rules allow to its author on an order as it is by then: nothing that cannot
\* be cancelled is, an administrator does not cancel what a user has not paid,
\* a user cancels no offline order or airdrop (UserCancelable, GoodCancelable).
CancelRulesKept == \A u \in canceled : MayCancel(u)

\* A power rental that may be cancelled until it starts is never written as
\* cancelled once it is in service, whatever time the update took
\* (CancelableBeforeStartSeconds in goodCancelable).
CanceledBeforeStart ==
    [][\A u \in canceled' \ canceled :
          order.kind = "powerRental" /\ order.mode = "BeforeStart"
             => state \notin {"InService", "Ended"}]_vars

\* A power rental that may be cancelled until its benefit, of a good that had
\* paid benefits when it was looked at, is never written as cancelled after it
\* was paid one, also when benefits are booked while the update is at work
\* (the two windows of goodCancelable).
CancelMissesBenefit ==
    [][\A u \in canceled' \ canceled :
          order.kind = "powerRental" /\ order.mode = "BeforeBenefit" /\ goodSeen[u]
             => lastBenefitAt = 0]_vars

\* A later update paid for the order once more.
PaidLater(u) == \E w \in Updates : ask[w].pays /\ writtenAt[u] < writtenAt[w]

\* Nothing stays locked for an update that the order never saw, with locks
\* refused, sagas timed out and answers lost at any step; the order knows the
\* lock it is paid with, but for one that a later payment took the place of; and
\* what the order says is locked is locked, but for a write whose answer was lost
\* and whose saga was undone (WithLockBalances, WithLockCommissions, and the
\* write with "" to undo it).
LocksAreTheOrders ==
    \A u \in Updates : pc[u] \in {"done", "refused"} =>
        /\ "payment" \in holds[u] => writtenAt[u] # 0 /\ (payer = u \/ PaidLater(u))
        /\ payer = u => "payment" \in holds[u] \/ pc[u] = "refused"
        /\ "commissions" \in holds[u] => u \in canceled
        /\ u \in canceled /\ Clawback(u) => "commissions" \in holds[u] \/ pc[u] = "refused"

\* Whoever canceled with u took it back before the first n writes were over.
Withdrawn(u, n) ==
    \E w \in Updates :
        /\ ask[w].cancel = "no" /\ ask[w].who = ask[u].who
        /\ writtenAt[u] < writtenAt[w] /\ writtenAt[w] <= n

\* u2 could not know of u1's cancellation when it read the order.
Unaware(u2, u1) ==
    /\ writtenAt[u1] < writtenAt[u2]
    /\ seenWrites[u2] < writtenAt[u1] \/ Withdrawn(u1, seenWrites[u2])

\* Commissions are clawed back twice of one order only by cancellations that
\* were under way at once, or of which the first was taken back: an update that
\* comes after a cancellation refuses (the two flags in validateCancelParam, all
\* that stands in the way).
OneClawback ==
    \A u1, u2 \in Updates :
        u1 # u2 /\ pc[u1] = "done" /\ pc[u2] = "done"
        /\ "commissions" \in holds[u1] /\ "commissions" \in holds[u2]
            => Unaware(u2, u1) \/ Unaware(u1, u2)

\* "This should be checked by upper layer" (GoodCancelable): an order in service
\* that may be cancelled before its benefit is not cancelled by an update that
\* read it after a benefit.
UpperLayerChecksBenefit ==
    \A u \in canceled :
        order.mode = "BeforeBenefit" /\ seen[u].state = "InService"
            => seen[u].lastBenefitAt = 0

=============================================================================
