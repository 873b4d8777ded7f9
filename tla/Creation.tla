------------------------------ MODULE Creation ------------------------------
(***************************************************************************)
(* What has become, when an order is written, of that which its creation   *)
(* has read: OrderLimits, requests that are under way at once with limits  *)
(* that change, and an instance of CreationTimes, a single request with    *)
(* prices, a start and a parent.  They share no state: in each behaviour   *)
(* only one of the two has creations, the other stays as it is             *)
(* (NoRequests, NoTimedCreation).                                          *)
(***************************************************************************)
EXTENDS OrderLimits

CONSTANTS
    Coins, Feeds, CoinOf, TimedGoods, MaxAge, Lead, Day, Delay, StartTime, EndTime

VARIABLES now, updatedAt, parent, leftAt, kind, coins, timedPc, begunAt, timedOffer,
          priced, startAt, used, writtenAt

timedVars == <<now, updatedAt, parent, leftAt, kind, coins, timedPc, begunAt,
               timedOffer, priced, startAt, used, writtenAt>>

Times == INSTANCE CreationTimes WITH
    Goods <- TimedGoods, pc <- timedPc, offer <- timedOffer

\* An instant start is further ahead than a creation lasts; a time of 0 is
\* before the clock starts, and means that something has not happened.
ASSUME TimesAssumption ==
    /\ CoinOf \in [Feeds -> Coins]
    /\ TimedGoods \subseteq Times!Good
    /\ MaxAge \in Nat /\ Lead \in Nat /\ Delay \in Nat /\ Delay < Lead
    /\ Day \in Nat \ {0} /\ StartTime \in Nat \ {0} /\ EndTime \in Nat \ {0}

\* It is over, before anything was read.
NoTimedCreation ==
    /\ now = EndTime
    /\ updatedAt = [f \in Feeds |-> 0]
    /\ timedOffer = Times!NoGood
    /\ parent = Times!NoParent
    /\ kind = "none" /\ timedPc = "refused"
    /\ coins = {} /\ priced = <<>> /\ used = {}
    /\ leftAt = 0 /\ begunAt = 0 /\ startAt = 0 /\ writtenAt = 0

\* One configuration is enough while nothing is counted.
NoRequests == maxUnpaid = MaxLimit /\ \A g \in Goods : g.user <= good.user

InitEither ==
    \/ Init /\ NoTimedCreation
    \/ Init /\ NoRequests /\ Times!Init

NextEither ==
    \/ kind = "none" /\ Next /\ UNCHANGED timedVars
    \/ Times!Next /\ UNCHANGED vars

SpecEither == InitEither /\ [][NextEither]_<<vars, timedVars>>

\* The properties of CreationTimes, of this instance.  The prices an order is
\* paid at are no older than a price and a creation may be (GetCoinUSDCurrencies).
PricesAreFresh == Times!PricesAreFresh

\* An order is written in time for its start, or for its parent's end
\* (resolveStartAt, validateParentOrder).
WrittenInTime == Times!WrittenInTime

=============================================================================
