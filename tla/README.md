# order-gateway in TLA+

`order-gateway` is the gRPC gateway through which applications create, pay,
cancel and read orders: power rentals (mining capacity) and the fees that go
with them. The gateway keeps no state of its own. It reads from a dozen
middlewares, decides, and changes the world through distributed transactions
(sagas) that the DTM coordinator runs for it. What can go wrong is therefore in
what happens *between* a read and the saga that relies on it, in what a saga
leaves behind when it fails, and in the arithmetic in the middle.

The specifications here cover these parts, TLC checks them on small instances,
and TLAPS proves the most important results for every value of the constants.
File and line references are to `src/`.

## 1. Inventory

### Components

| Component | Where | State it touches | Operations |
|---|---|---|---|
| Payment account pool | `pkg/order/common/op.go:550-662, 703-716` | rows of account-middleware (known, locked, usable), redis mutex per account, chain balance | list, lock mutex, recheck, create, read start amount, lock row in the saga, release |
| Sagas | `op.go:678-716, 827-873`, `pkg/powerrental/basecreate.go:557-607`, `baseupdate.go:118-156`, `pkg/fee/basecreate.go:289-311`, `pkg/fee/baseupdate.go:79-115`, both `dtm.go` | step list; stock, balances, account, commissions, order in their middlewares | compose steps with compensations, submit, wait, answer |
| Payment computation | `op.go:366-545, 664-701` | amounts of one request | coupons, amount, balances, transfer, payment type, lock IDs |
| Updates and cancellation | `op.go:718-873`, `pkg/powerrental/update.go`, `baseupdate.go`, `pkg/fee/update.go`, `baseupdate.go` | an order's state and cancel flags, benefits, the clock | pay, cancel by user, cancel by administrator |
| Prices, durations, required goods | `pkg/powerrental/basecreate.go`, `pkg/fee/basecreate.go` | values of one request | durations, values in USD, top-most price, which fee order carries the payment |
| Limits | `op.go:272-298`, `pkg/powerrental/basecreate.go:275-316` | counts read from order-middleware | unpaid orders, units bought; rewards of what was bought |
| Prices and start times read by a creation | `op.go:157-182`, `pkg/powerrental/basecreate.go:444-482`, `pkg/fee/basecreate.go:45-65` | prices, the good, the parent order, the clock, as they were read | age of prices, start of an order, state of a parent |
| Request options and existence checks | `api/**`, `pkg/common`, `pkg/*/handler.go` | a request | parse, check that application, user, good, order exist |
| Queries | `pkg/*/query.go`, `pkg/order/coupon`; paging loops in `op.go`, `basecreate.go` and `pkg/common` | maps of one handler | lists with their joins; loops that read another service page by page |
| Compensation and out-of-gas records | `pkg/compensate`, `pkg/outofgas`, `pkg/powerrental/compensate`, `pkg/powerrental/outofgas` | records in order-middleware | create and delete a compensation, delete an out-of-gas record, read |
| Application configuration | `pkg/app/config` | records in order-middleware | create, update, delete, read |
| Migrator | `pkg/migrator/migrator.go`, `cmd/order-gateway/run.go` | a database, a redis lock that never expires | lock, pass, unlock, exit and restart, in every replica |
| Start-up | `cmd/**` | none | servers, configuration |

### How they interact

A create or update is one goroutine of one replica. Its handler

1. checks the application, user, goods and coupons and reads prices;
2. if it names a transfer coin, takes a *payment account*: a redis mutex that is
   held until the handler returns;
3. computes the payment: coupons, then balances, then a transfer to the account;
4. submits one saga with all the locks and, last, the order itself, and waits;
5. answers; a `defer` gives the mutex back.

Two handlers meet in the account pool (2), on the order they update, and in the
ledger. A handler and *its own* saga are two actors as well: the saga belongs to
DTM and goes on if the handler dies or stops waiting. Customers (transfers), the
order scheduler (payment, start, benefits, expiry) and administrators act
meanwhile on the same state.

### What is hard

- **Interleaving**: the listing of free accounts, the mutex, the recheck, the
  saga's row lock and the release by the order scheduler are five separate calls.
- **Stale state**: an update decides from one snapshot of the order; neither the
  snapshot nor the clock is looked at again.
- **Failure**: replies of saga steps are lost, steps are sent again, a saga is
  undone after its last step took effect, an unlock fails and its error is dropped.
- **Handlers with several copies of a field**: a handler embeds up to three check
  handlers that each have `AppID`, `UserID`, `GoodID` and `AppGoodID`; what a
  check reads depends on which copy an option stored into, and when.
- **Arithmetic**: quotients are rounded, coupons can exceed the value of the
  goods, unsigned subtraction wraps, maps are walked in any order.

### What makes each component correct

- *Pool*: no two handlers on one account; no two open orders on one address, the
  row of an open order locked and what is credited since `StartAmount` its
  customer's money, unless the order was left standing by its own undone saga; no
  row leaks; every request ends and gives its mutex back.
- *Sagas*: a failed saga frees all it locked; an order change is seen only with
  all its locks taken; "ok" is only said of a saga that committed in full.
- *Payment*: the entries settle the amount to one rounding; nothing is charged
  that was not offered; ledger locks are the order's balances.
- *Updates*: cancellations follow the rules at the time they are written; nothing
  stays locked in the ledger for an update that the order never saw; commissions
  are clawed back twice only by cancellations that could not know of each other.
- *Pricing*: an order lasts as long as its value was computed for, the total is
  the sum of the orders, a package brings what it must, a fee ends with its
  parent, whatever the order in which maps are walked.
- *Request options*: nothing is dereferenced that no option has set; an option
  refuses for a reason; what is accepted, shown or written is of the application,
  user, good and order the request named, whatever else is deleted meanwhile.
- *Limits*: no more orders are left unpaid, nor units bought, than the limits let
  through plus what the requests under way at once can add; only what was
  created is rewarded.
- *Prices and start times*: what was read is still good enough when the order is
  written.
- *Queries*: a list has for every row its own things, by names they had
  meanwhile; a loop misses and repeats no more than the table changed under it,
  and ends.
- *Migrator*: one replica migrates at a time, and all of them come up.

## 2. Modules

A component has a module, an `MC` module that gives TLC its instances, and a
`...Proofs` module. Small modules that share no state are composed: `Creation` is
`OrderLimits` with an instance of `CreationTimes`, `Service` is `Migrator` with
instances of `Paging` and `Listing`. A behaviour of these is a behaviour of one
of the parts, while the others stand still; `MCCreation` and `MCService` give the
values, `CreationProofs` and `ServiceProofs` hold what is proved of the parts.

### `PaymentAccount`: the pool of deposit accounts

| State | In the code |
|---|---|
| `known`, `locked`, `usable` | rows of payment accounts: existing, `Locked`, and (`Active`, not `Blocked`, `AvailableAt` past) |
| `funds` | chain balance of each address (sphinx-proxy `GetBalance`) |
| `mutex` | `accountlock.Lock(accountID)` in redis |
| `pc`, `held`, `candidates`, `fresh`, `made`, `startAmount`, `transfer` | the handler: where it is, `PaymentTransferAccount`, the rows listed and not yet tried, whether the second round has begun, accounts made in `peekNewPaymentAccount`, `PaymentTransferStartAmount`, whether the order carries a transfer |
| `saga`, `order` | the saga, cut down to what touches the account; the order |
| `paid`, `stranded` | history: the customer's deposits; the orders whose own saga gave back the account they name |

`ListAccounts`, `LockMutex`, `MutexRefused`, `RecheckAccepts/Rejects/Errs` and
`PeekEnds` are `peekExistPaymentAccount`; `CreateAccount(Fails)` is
`peekNewPaymentAccount`; `ReadStartAmount` is `GetPaymentTransferStartAmount`;
`Abandon` stands for every error return between the `defer` and the saga;
`Submit`, `SagaReturns`, `StopWaiting` and `Release` are the saga call and the
`defer`. `LockRow`, `WriteOrder`, `StepFails`, `DeleteFees`, `UnlockRow` are DTM;
`Deposit`, `LateDeposit`, `Settle`, `SetUsable`, `ClearMutex` are the world.

The order step is the last of its saga, and all flows but the creation of fees
(`FeeCreations`) add it with `""` to undo it. Its answer can be lost
(`WriteOrder` leaves the saga where it was), and the step can be given up then
(`StepFails`): the saga is undone, `UnlockAccount` frees the row, and the order
stands with its address. `stranded` keeps these orders. Another request can take
such an account, and its customer and the first pay to one address. That is what
the code does, so three of the properties say what is then still true: it is the
*only* way to two orders on one account, to an open order whose row is free, and
to money that is not the customer's. With `FeeCreations` the saga deletes the
orders first (`DeleteFees`) and strands none.

The listing returns every eligible row if there are at most `ListLimit`, and any
`ListLimit` of them otherwise: which, is account-middleware's choice.

### `OrderSaga` and `AtomicOrder`: sagas and what they promise

`SagaSteps` builds the step list of the four flows exactly in the code's order:
stock, balances, account, order (create power rental; a simulated one is only
the order); balances, account, orders (create fees); order locks, commissions
user by user, balances, account, order (updates). Only `CreateFeeOrders` gives
the order step a compensation. DTM is `Execute`, `NoReply`, `Refuse`, `Timeout`,
`Undo`, `UndoNoReply`, `Abort`; the handler that waits is `AnswerCommitted`,
`AnswerAborted`, `AnswerEarly`.

`AtomicOrder` is the abstract specification: an update is made with everything it
locks, or refused; a flow whose order step cannot be undone may also leave the
order *standing* with its locks given back; "ok" only of a change that was made.
`OrderSaga` implements it (`KeepsPromise`, with `outcome` as the refinement
mapping). That the promise has a third outcome for three of the four flows is
what the code does: the order step of these is added with `""` as compensation.

### `OrderPayment`: what an order is paid with

One request, step by step: `CountCoupon` (the coupons are a map, so any order),
`PriceOrder`, the loop of `ConstructOrderPayment` (`TakeAll`, `TakeRest`,
`TransferRest`, `PayNothing` and the refusals), `ResolvePaymentType`, the
identifiers and `ValidateCouponConstraint`. Amounts are integers in the smallest
unit of a decimal division, so products are exact and `Div` rounds to nearest.
An `Entry` records, as history, what was still owed when it was computed.

### `OrderUpdate`: paying and cancelling

Updates of one order race each other, the order's life (`Advance`), the
benefits (`Benefit`) and the clock (`Tick`). A handler is `Read` (snapshot and
all rules), `ReadGood`, `CheckClock`, `Submit`; its saga is `LockAll`, `Write`,
`SagaFails`, `Undo`. Nothing under `src/` says what order-middleware looks at
when it writes an update: `Write` takes any, at any time, and `SagaFails` refuses
any. The answer of a write can be lost and its saga undone, as in
`PaymentAccount`; the write then stays. What a cancellation writes is the flag of
its author, set or taken back. Three histories tell the properties what came
first: `writes` counts them, `writtenAt` has each update's own, `seenWrites` how
many there were at its snapshot. `UserCancelable`, `GoodCancelable`, `PaymentUpdatable`,
`BenefitAtHand` and `ClockAccepts` are the functions of these names (the last
two are `goodCancelable` of power rentals). A fee order is checked by
`GoodCancelable` only.

### `OrderPricing`: what is ordered, for how long, at what value

One creation, of a power rental with fees or of fees for an order that exists,
up to the submission: `CheckGoods` (`validateRequiredAppGoods`, both versions),
`ReadPromotion` (the fold of `GetTopMostAppGoods`), `FormalizeDuration` and
`ValidateDuration`, `ConstructOrder`, `ConstructFeeOrder` (the loop of
`constructFeeOrderReqs`), `CountOrder` and `CountFee`
(`calculateTotalGoodValueUSD`). Loops over the map of fees take them in any
order. Durations are what the module is about: `main` is `*DurationSeconds`,
`own` is `*FeeDurationSeconds` while that is a duration of its own, and `feeCell`
says what the pointer `FeeDurationSeconds` points to; `ValueFee` writes the
rounded duration back through it, as `calculateFeeOrderValueUSD` does. Orders
hold pointers, so their durations are those at submission
(`FeeOrderDuration`), while their values are those of the moment.

`Regular` names the catalogues for which rounding is harmless: whatever rounds a
duration has the same unit, or there is nothing to round. Outside of it the
values depend on the order of the walk (see section 6).

### `RequestOptions` and `Endpoints`: one request, option by option

Every gRPC handler is `NewHandler(options...)` followed by one operation.
`Endpoints` lists, for each of the 45 of them, the options in their order and
the steps of the operation; `RequestOptions` runs one such list.

| State | In the code |
|---|---|
| `call`, `pos` | the endpoint, and the option or step that comes next |
| `asked` | the fields of the request used so far, chosen when an option reads them |
| `handler` | the fields of the handler, one set per copy: `order` (`OrderCheckHandler` and the handler's own fields), `good` (`AppGoodCheckHandler`), `coupon` (`AllocatedCouponCheckHandler`) |
| `there` | what the other middlewares have: applications, users, goods, orders, rows, records |
| `info`, `written` | the rows read; those updated, deleted, inserted, or a compensation is derived from |
| `rejected`, `pc` | the argument that was refused; how the request ends: answered, refused, dereferenced an unset field (`unset`), read a field of a nil answer (`nil`), took the first of an empty list (`outOfRange`) |

`Apply` and `Refuse` are one turn of the loop of `NewHandler`: `Found` is what
`CheckOrderWithOrderID`, `CheckAppGoodWithAppGoodID` and their like ask (`Narrow`:
the check of an order is narrowed by whatever its own copy holds), `Deref` which
fields they dereference unasked, `StoresOf` where the argument goes. Steps carry
the fields they dereference (`keys`) and those they only use if they are set
(`ifSet`): `CheckOrder`, `CheckRow` (the `check.go` of each package), `Get`,
`List`, `Join` and `JoinOne` (`formalize` leaves out rows whose application, user
or good is gone), `Delete`, `DeleteRead`, `Update`, `Insert`, and `GetOrder` and
`GetMalfunction` of `CreateCompensate`. `Use` stands for what the other modules
model in full: it only asks whether the fields are set. `Vanish` is another
request that deletes something, between any two calls of this one.

What a list has to obey for the properties to hold is stated of one endpoint at a
time: `WellOrdered` (a field is set before it is used), `NamesFit` (a field goes
to one option, which stores it under its name), `OwnersFit` (an owner is known
before what belongs to him is looked up, and is compared), `ReadsFit` and
`WritesFit` (a step compares each field the request may have, or the order it
belongs to, or what identifies a row that was checked for it). `MCRequestOptions`
has TLC evaluate them on the lists of all 45 endpoints (`EndpointsFit`), and the
theorems have them as hypotheses: an endpoint that is added has to obey them.

### `OrderLimits`: limits and the creations that pass them together

| State | In the code |
|---|---|
| `maxUnpaid`, `good` | `MaxUnpaidOrders` of the application; minimum, maximum and user's maximum of the good, as they are now (`been`: all values of the first, history) |
| `waitingRentals`, `waitingFees`, `bought` | what `CountPowerRentalOrders`, `CountFeeOrders` and `SumPowerRentalOrderUnits` of order-middleware answer for the user |
| `ask`, `limit`, `offer`, `seen` | the handler: what it creates, `OrderConfig`, `appPowerRental`, the first of the two counts |
| `wrote`, `rewards` | history: the orders were written; the messages published |

`Begin` is `GetAppConfig`, `ReadGood` `getAppPowerRental`, `PassUnlimited`,
`CountPowerRentals` and `CountFees` are `ValidateMaxUnpaidOrders`, `CheckUnits` is
`validateOrderUnits`, `PassUnchecked` the orders that are limited by nothing.
After the saga: `ReadEvent`, `RewardPurchase`, `RewardAffiliatePurchase`,
`Answer`. Orders are paid or time out (`Settle...`), are cancelled, and
administrators change the limits, between any two calls.

### `CreationTimes`: what is read once and never again

One creation: `ReadParent` or `ReadGood`, `ReadPrices` (`GetCoinUSDCurrencies`:
two rows per coin are asked for, none may be older than ten minutes, the last
one of a coin is kept), `ResolveStart` (`resolveStartMode`, `resolveStartAt`),
`Pay` (which looks for the price of each coin it uses), and `Write` some time
later. Around it the clock, the feeds and the life of the parent order go on.

### `Paging` and `Listing`: reading other services

`Paging` is the loop that advances an offset until a page is empty, as
`GetOrderCommissions`, `GetTopMostAppGoods`, `getGoodCoins` and the like have it;
rows come and go anywhere in the table between its pages.

`Listing` is a list of power rentals, fees, orders, order coupons, compensations
or out-of-gas records: `ReadRows`, one `Join` per table in the order of the
code, `Formalize`. `Queries` says for each which tables are joined, of which a
missing record drops an entry, and of which it drops the row. Each join asks for
all rows at once and for as many records as identifiers were collected. `Kept` is
the loop that appends what passes a test, written as a recursive function so that
it can be proved about.

### `Migrator`: replicas that start

`Start` is the start of a process up to `db.Init`, `TryLock`, `Pass` and `Unlock`
are `Migrate` with its deferred unlock (`exiting` is the unlock after a pass that
failed); whoever does not get the lock exits and is started again. Calls fail,
answers are lost and processes die up to `MaxFaults` times; `lost` says that the
lock was left behind.

## 3. Runs

| Run | Instance | What it asks and shows |
|---|---|---|
| `account_exclusive` | 2 requests, one of which creates fees, 2 addresses of which 1 exists at first, crashes, redis errors, silent unlock failures and order steps whose answer is lost; handlers wait for their sagas | accounts are shared, rows of open orders freed and credits mixed only by an order that stands though its saga was undone; no row leaks |
| `account_early_return` | the same, listing one row at a time, no faults, handlers may stop waiting | two handlers never hold one account even then; every request ends; every mutex comes back |
| `order_saga` | every flow, with and without balances and account, 0-2 commission holders in either order, 3 lost messages | failed sagas free everything; order last; the refinement of `AtomicOrder` with its liveness (which has "ok" only of what was done) |
| `order_payment` | 3 coins (one without a price), up to 2 balances of 0, 1 or 3, two coupons that can exceed the goods | payments settle amounts to half a unit, both entry by entry and as a sum; locks match the order |
| `update_times` | 1 cancellation, all modes and types, the clock from 13 to 24 with benefits every 10, a margin of 3 and a start at 18, lost replies, an order-middleware that checks nothing | cancellations respect the rules, the start and the benefit windows however long the update takes |
| `update_locks` | 3 updates that pay, pay and cancel, cancel as administrator or take a cancellation back, of a power rental (simulated or not) or a fee before it starts; lost replies, an order-middleware that checks nothing | locks left are of updates the order saw; commissions are clawed back twice only by cancellations that could not know of each other |
| `order_pricing` | 20 000 requests over 4 fees in two units, of which one may not be a fee and one is not settled by payment; packages, fixed durations, durations that do and do not divide, parents that end before, in and after the time asked for, 3 promotions | orders have the durations of their values; the total is their sum; required fees; fees end in time; the cheapest promotion |
| `request_options` | all 45 endpoints; 2 applications, in one of them 2 users with an order, an app-good, a coupon and a row or record in every table each; any argument of the right kind, a malformed one, nil where it can be; one order, its app-good, rows and records vanish | no field is used unset; refusals have a reason; what is accepted, answered and written is what the request named; a compensation is for the order's own good |
| `creation` | 2 requests at once that create up to 2 orders each, of a kind that is limited, an airdrop or a simulated one, limits of 2 and of none, a good of which 1 unit or none may be bought; or 1 creation with a coin that has prices on two channels and one that has none, all six start modes, services that began, begin and will begin, a clock that passes midnight, a parent in any state | limits are exceeded by what is under way and by no more; rewards are for orders that stand; prices, starts and parents are good when the order is written |
| `service` | 3 replicas and 3 faults; or a table of up to 4 rows read 2 at a time; or lists of up to 3 rows over 9 tables of 2 things each, 2 of which are renamed or deleted meanwhile | one migration at a time, all replicas come up; loops miss and repeat no more than changed, and end; answers are of their time |
| `fee_benefit` | 1 cancellation of a fee | *violated*, see the findings below |
| `request_unshown` | as `request_options` | *violated*, see the findings below |

**Why the bounds are enough.** Conflicts in the pool are between two requests on
one account; the second address is there so that one can be refused, created and
taken while the other is at work, and `ListLimit = 1` makes the listing miss an
account that is free. A stranded order needs one request, its consequences a
second; that one of the two creates fees has the orders that can be deleted meet
those that cannot. In a saga every kind of step occurs, two commission steps
give compensation a middle, and three lost messages cover a loss on the step, on
its repetition and on its compensation. Two balances give the loop a first, a
last and a repeated coin, and the prices 70 and 40 do not divide the amounts 100
and 300. The clock runs from before one multiple of the interval to after the
next, and the update's delay is longer than one tick, so that starts and
benefits fall inside it. Of three updates two can cancel and one take back the
first cancellation between them, or two can pay and one cancel; these do not
depend on the clock, which stands still for them, but on states and flags. Options and steps look at single things and at pairs of
them, so one thing of one's own and one of somebody else's of each kind, one in
the same application and one application more, tell every condition from its
absence; lists have up to two elements. Two requests reach the bounds of
`OrderLimits` exactly, one of them between the two counts of the other, and
`MaxWaiting` leaves room for one order more. In `CreationTimes` the ten minutes a
price may be old, and those an instant start is ahead, are 3, a creation lasts
2, and midnight is at 10, between the beginning at 7 and the end at 11. A loop
over four rows has a first, a middle and an empty page; it is held to be endless
once it has read more rows than there are (`MaxRead`). Two changes rename one
thing between two joins and delete another before its own. Three replicas are one
that migrates, one that fails and one that waits, and three faults are enough to
lose the lock in every way there is. Types are not among TLC's invariants: they
are proved (section 5). With `WaitMayEnd = TRUE` the exclusion
of *orders* does not hold (the mutex is given back under a running saga, next
section), which is why the first two runs differ in it.

**Fairness.** `PaymentAccount`: a handler that can step does (`WF` on
`Handle(r)`: a goroutine is scheduled, its calls have timeouts), and DTM drives
each saga it accepted (`WF` on `RunSaga(r)`: it persists and retries them, and
`TimeoutToFail` ends the rest). Nothing is assumed of the world, of crashes or of
`StopWaiting`. `OrderSaga`: `WF` on DTM forward, DTM backward and the answer,
for the same reasons; messages may be lost `MaxLost` times. `Migrator`: `WF` on
`Run(p)`: a process runs, and one that ended is started again, as
`cmd/order-gateway/k8s/02-order-gateway.yaml` has it of a deployment; faults end after
`MaxFaults`. `Paging`: `WF` on the loop, whose calls are answered; one that fails
ends it. No strong fairness is used: mutex conflicts need none, because a refused
candidate is crossed off, and a replica that is refused the lock of `Migrator`
starts again, by which time whoever had it has gone on.

## 4. Assumptions

- The redis mutex of an account is not cleared, and does not expire, under a
  saga that still runs (`ClearMutex`). A key left by a crash may be cleared any
  time later.
- Handlers wait for their sagas (`WaitMayEnd = FALSE`) where the exclusion of
  orders is claimed. `WaitResult` makes them wait; a context that ends earlier
  (a client that hangs up) gives the mutex back while DTM continues, and then
  only the exclusion of handlers is left.
- Customers pay to an address only while their order is open, or else while
  nobody uses the account (`LateDeposit`). Money for a dead order that arrives in
  the middle of another one's would be credited to the latter; nothing in the
  gateway can tell.
- DTM compensates the steps it tried, a refused one included, last first, and a
  compensation is never overtaken by its own late action (DTM's barriers).
  Middlewares execute a repeated step once: each payload names its IDs. A step
  that DTM gives up without an answer has taken effect by then or never does: the
  deadline of a call travels with it. For the order step, which has no
  compensation, this is what keeps an order from being written after its saga has
  ended.
- What account-middleware answers to locking a locked row is unknown: both.
- In `OrderUpdate`, `Delay` bounds the time from a snapshot to its write
  (`TimeoutToFail` is 10 s, plus the reads before it) and with `Distribution`,
  the time benefits take to be booked, it fits into `Margin`
  (`CancelableBeforeStartSeconds`). Benefits are booked from multiples of the
  interval on. A cancelled order neither advances nor is paid benefits. The
  unsigned differences of `goodCancelable` do not wrap (`TimeAssumption`).
- In `RequestOptions` a field of the request that is passed by its address is not
  nil (`Needed`): it is a value in the protobuf structure. A middleware that is
  asked for a row that does not exist answers with nothing and not with an error,
  as the nil checks of the gateway expect. Requests that fail because a service
  cannot be reached are refusals like others. A row belongs to whom its order
  belongs to, and is identified by its `EntID`; a row of a power rental or of a
  fee by its order as well (`ThingsAssumption`): so order-middleware writes them.
- In `OrderPricing`, what a good requires is what good-middleware answers, and the
  goods it says must come along are among these (`AsksAssumption`).
- In `OrderLimits` there are one user and one good: nobody else's orders are
  counted. What order-middleware answers to a count is exact at that moment. An
  order without payment, or a simulated one, never waits for a payment, and
  which orders of a request wait for one of their own is order-middleware's
  choice.
- In `CreationTimes`, `Delay` bounds the time from the first reading to the write
  and is less than the ten minutes of an instant start (`TimesAssumption`). A parent's end is noticed
  by its state, and the states fees are sold for are left once.
- In `Listing` an identifier that is none (`Malformed`) is in a row only where a
  row can lack the thing: a promotion, or the app-good of a parent. A row names
  things of every table, and order-middleware answers a page that has no row
  twice (`ListingAssumption`). In `Paging` a row that is gone does not return.
- In `Migrator` unlocking deletes the key whoever set it, and a lock without a
  time to live never expires: this is how redis is used (`redis2.TryLock` with 0).

## 5. Proofs

All theorems hold for every number of requests, accounts, users, coins, updates,
rows and every length of a step list, under the `ASSUME`s of the modules. Every
invariant that a passing run checks is stated by one.

- **`PaymentAccountProofs`**. `HolderExclusion` follows from `HolderInv` (a
  handler between mutex and release holds a mutex that names it) alone, whatever
  faults happen. `AccountExclusion`, `RowKept` and `CreditExact` need
  `~WaitMayEnd` and `ExclusiveInv`: `SagaInv` relates saga, mutex, row and start
  amount of one request, `SagasMeetNoOrder` says a saga with its hand on a row
  meets no open order there. The second is what is needed because `UnlockAccount`
  names only the account. All of it is about accounts that are not `Given`, away
  from under an order that stands: an account becomes so in one step only
  (`UnlockRow` of that order's own saga) and stays so, and the proof of every
  other step shows that it cannot take the row from an open order.
  `NoRowLeaks` adds who keeps each row, stranded orders or not.
- **`OrderSagaProofs`**. `Freed`, `FeeOrdersUndone`, `OrderLast`, `OkIsDone`
  and `KeepsPromiseSafely` (every step of a saga is a step or a stutter of
  `AtomicOrder`). The invariant says that going forward `done` is everything
  before `at` (and possibly `at`, if it was tried), and going back nothing above
  `at` but what cannot be undone. `ShapeOfSteps` shows, from the step lists, that
  the order is the last step and there is only one.
- **`OrderPaymentProofs`**. `AmountPaid` and `OfferRespected`, from `PayInv`:
  the entries taken so far form a chain that starts at the amount and leaves
  exactly `remain`. The rounding of `Div` is a lemma. `SumPaid`: the sum of such a
  chain telescopes. No prover here takes an induction hypothesis as a parameter,
  so the induction over the entries is by the least one for which the claim
  fails. `LocksAsPaid`: what is submitted is what was resolved (`SubmitInv`).
- **`OrderUpdateProofs`**. `RulesKept` and the two time properties from an
  invariant that ages a snapshot: what an order could have become since it was
  read (rules), and how much time may have passed since (`Delay`). `NoBookingNear`
  is the arithmetic: a time outside both windows is further than the margin from
  any booking. `LocksMatch`, from `LocksInv`: a saga holds what it needs from
  its locks to its end or its undoing, and the payment the order knows was written
  last. `ClawedBackOnce`, from `ClawInv`: whoever got past the flags did so when
  every cancellation written until then had been taken back, and whoever did
  not see one had counted fewer writes. Neither assumes anything of
  order-middleware.
- **`OrderPricingProofs`**. `ValuesMatch` from `ValuesInv`: a duration is as it was
  given or rounded by one of those that round it (`Kept`), the orders already
  valued find it rounded by their own unit, and in a regular request rounding
  once more changes nothing (`RoundingKept`, from the arithmetic of `Rounding`).
  `FeesEnd`: a settled duration only shrinks. `FeesRequired` and `FirstOrder`:
  what has been built is what was chosen. `PromotionChosen`: the fold keeps the
  minimum of the rows read. `TotalMatches`, from `TotalInv`: the second walk over
  the fees, in an order of its own, adds up the values of those it has counted by
  their places among the orders, and when all are counted that is the whole sum;
  each adds what the first walk found, because in a regular request both round
  the duration to the same.
- **`CreationProofs`**. `UnpaidBounded`, as long as there always was a limit:
  what may still be written by those let through is bounded, but a request that
  has counted the power rentals may be let through or not, depending on the fees
  that wait when these are counted, and fees are paid meanwhile. The invariant
  (`UnpaidInv`) therefore has the bound for *every* number of fees up to those
  that wait now. `UnitsBounded`: whoever was let through last left room for all
  the others (`UnitsInv`). `RewardsAfterOrders`: a place after the saga is
  reached only by way of the write. `LimitsKept` says these three of a creation
  as a whole, of which each behaviour is one of `OrderLimits`. `FreshPrices` and
  `InTime`, from `TimedInv`: whatever was read is related to `begunAt`, when the
  first call was made, and the order is written no later than `Delay` after that.
- **`ServiceProofs`**. `MigrationsExclusive`: the lock is set for exactly one
  replica in its pass, or was lost and nobody migrates any more
  (`MigrationsStayExclusive`: of the service as a whole). `ReadsFewTwice` and
  `MissesFew` count the rows on either side of the offset: a row that is read and
  yet ahead was pushed there by one that came (`TwiceInv`), and one that stayed,
  is behind and was not read was drawn there by one that went (`MissesInv`); the
  last page is empty, so nothing is ahead any more. `AnswersInTime`: a table that
  was joined has for each identifier of the rows a record with a name of its
  time, or the thing was gone (`Looked`). The limit of a join is as many as
  identifiers were collected, and a sequence has no more elements than places,
  so the limit cuts nothing off; that `Kept` keeps what it should, in order, is by
  the least place where it does not.
- **`RequestOptionsProofs`**. `FieldsSet`: whatever the services answer and
  whatever vanishes, no endpoint uses an unset field, if its lists are
  `WellOrdered`. The property is not inductive, since it says nothing of the
  fields: what makes it so is `FilledSoFar` (each option passed that minds nil has
  left something in each cell it stores into) with types and `WellOrdered`.
  `Refusals` and `Acceptances`, of lists with `NamesFit` and `OwnersFit`: fields
  are asked by options that passed (`AskedInv`), every copy holds what was asked
  by that name (`HeldInv`), what is no list is one value (`SingleInv`), and what
  was accepted agrees with the owners asked (`AcceptedInv`). `Answers` and
  `Writes`, of lists with `ReadsFit` and `WritesFit` too: a row agrees with a
  field of the request because the step compares it, or because its order does,
  or because a row that agrees was checked before (`CheckedInv`) and is the same,
  having the same identifier; that remains true of the rows once they are read
  (`ReadInv`) and written (`WrittenInv`), whatever vanishes.

**Only model-checked**: liveness (`RequestsEnd`, `MutexesComeBack`, `ComesUp`,
`LoopEnds`, the fairness half of `KeepsPromise`). Its proofs need `ENABLED` of
actions under fairness, which the prover does not have.

## 6. Findings

**Fees and benefits.** `GoodCancelable` (`pkg/order/common/op.go:785`) lets an
order in service through when its good may be cancelled before its benefit and
says "This should be checked by upper layer". For power rentals the upper layer
does (`goodCancelable`, `LastBenefitAt`). For fees there is no such check
between `pkg/fee/update.go:67` and the saga: run `fee_benefit` cancels a fee
order after a benefit was paid.

**Records that cannot be shown.** `GetOutOfGas` (`pkg/outofgas/query.go:120`)
takes the first of the rows to be shown, though `formalize` leaves a row out
whose application, user or app-good is gone. `DeleteOutOfGas`, its only caller,
asks whether it was given nil (`pkg/powerrental/outofgas/delete.go:25`), and
`GetCompensate` answers nil in the same place (`pkg/compensate/query.go:122`).
Run `request_unshown` deletes a record whose app-good has just gone and takes
the first of none.

Observed while modelling, and modelled as they are:

- the saga of a power rental or of an update that is undone after its order step
  took effect (the answer is lost, `TimeoutToFail` passes) gives the account back
  while the order waits for money on it. The pool can hand the address to another
  order, and the payments of two customers are then counted from one balance
  (`stranded`, `Given`); balances and commissions of such an order are unlocked
  as well, though the order says they are locked;
- two cancellations that are under way at once both pass the flags, and both claw
  the commissions back (`Unaware`); two payments at once both lock, and the order
  knows only the later lock (`PaidLater`). What order-middleware may do against
  either is not to be seen from here;
- a user's create request always has order type `Normal`; offline orders and
  airdrops come from administrators and carry no payment when they are created.
  If such an order is *updated* with balances, these are kept and locked as they
  were offered;
- an update can pay and cancel at once, and an update of a simulated power
  rental locks money like any other (`Simulate` matters for creation only);
- an update of a power rental with `UserSetCanceled = false` passes none of the
  cancellation checks and the flag is written as given; a fee's is checked and
  refused;
- the account is locked in the saga whenever one was taken, also when balances
  cover the amount and no transfer is written: such a row is never given back by
  the order (`Keeps`);
- creating fee orders prepares no payment ID;
- `ResolvePaymentType` sets `PayWithNoPayment` and overwrites it with
  `PayWithBalanceOnly`;
- a power rental of which good-middleware lists no required good is sold with
  whatever fees are named; a good that must come along but is no fee is dropped
  silently (`GetAppFees`);
- every fee order of a package has value 0, the optional ones included;
- with mixed units the values depend on the walk: an hourly fee valued before a
  daily one is paid for hours the daily one then cuts off, and a fee of a
  package, which works on the power rental's own duration, may shorten that
  after the power rental was valued, so that `GoodValueUSD` and the total differ
  (`Regular` excludes both);
- `EndAt - now` is unsigned: fees for a parent that is over, but not yet in a
  state that says so, are not clipped at all (`FeesEndInTime` is about parents
  that are not over);
- among promotions, a free one is replaced by whichever is listed next;
- `GetMyOutOfGases` gives the order of the request to the option for goods
  (`api/outofgas/query.go`), so that it accepts an app-good only and refuses
  every order;
- `AdminDeleteOutOfGas` parses an `ID` and does not look at it: the record is
  named by `EntID` and order;
- `CreateCompensate` reads `GoodID` of an order that may have been deleted since
  its option found it, and does so only if no good was named;
- a compensation whose application, user or app-good is gone cannot be deleted:
  what is not shown is refused;
- an update reads its order back after the saga has committed, and answers an
  error if it is gone by then;
- a request can pass the limit on unpaid orders though at no moment the user was
  below it: power rentals and fees are counted by two calls, between which orders
  are paid and written. A request for several fees, or for a power rental with
  fees, is compared with the limit as if it were one order. No configuration and
  a limit of 0 are no limit;
- an order that starts the next day and is written after midnight has started
  already; the start mode `Confirmed` is treated as the next day;
- a coin's prices are asked for as two rows per coin in no order, so that with
  prices of more than two channels a coin can be left without one;
- one identifier in a page that is not well formed fails the whole list, and a
  record joined by nobody's fault but a deletion is left out of a list while the
  total counts it;
- a page without rows is answered with a total of 0 for orders and order coupons,
  and with the total there is for everything else;
- a migrator that dies under its lock, or whose unlock is lost, keeps every later
  start of every replica from coming up, until somebody deletes the key;
- two options of application configurations, `WithSimulateOrderUnits` and
  `WithSimulateOrderDurationSeconds`, are given by no endpoint.

## 7. Not modelled

Left out, and why:

- `cmd/` but for the start of `run.go`, configuration, version and constants: no
  state of their own;
- the scope and the number of coupons (`ValidateCouponScope`,
  `ValidateCouponCount`), whether the environments of coins and goods agree,
  whether a good is on sale: each is a read and a refusal without further state,
  for which `GiveUp` and `Abandon` stand in the modules that follow a request
  past its options;
- the wording of errors, and what is shown of a thing apart from its being there
  and its name (`Listing` has one column for all);
- the first benefit of a good (`goodCancelable` looks at no window before there
  is a statement) and goods whose benefit interval is 0: the code makes no
  promise about these, see the hazards in `PROJECT.json`.

What is proved is every invariant of the runs and the safety half of the
refinement; what is left to TLC is liveness (section 5). The conditions of
`RequestOptions` are evaluated by TLC on the lists of `Endpoints` rather than
proved of them: there is nothing to generalise, the lists are what they are.
