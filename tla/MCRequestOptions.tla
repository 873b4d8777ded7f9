-------------------------- MODULE MCRequestOptions --------------------------
(***************************************************************************)
(* All endpoints over two applications, of which one has two users with an *)
(* order, a record and a row in every table each; one order, one app-good  *)
(* and the rows and records of that order may vanish at any moment.        *)
(***************************************************************************)
EXTENDS RequestOptions, Endpoints

CONSTANTS none, fine, bad

Thing(kind, id, app, user, good, appGood, order) ==
    [kind |-> kind,
     of |-> [ID |-> id, EntID |-> id, AppID |-> app, UserID |-> user, GoodID |-> good,
             AppGoodID |-> appGood, OrderID |-> order]]

\* A row that belongs to the order of the first user, or of the second.
First(kind, id) == Thing(kind, id, "a1", "u1", "g1", "ag1", "o1")
Second(kind, id) == Thing(kind, id, "a1", "u2", "g2", "ag2", "o2")

World ==
    [a1 |-> Thing("app", "a1", "a1", none, none, none, none),
     a2 |-> Thing("app", "a2", "a2", none, none, none, none),
     u1 |-> Thing("user", "u1", "a1", "u1", none, none, none),
     u2 |-> Thing("user", "u2", "a1", "u2", none, none, none),
     g1 |-> Thing("good", "g1", none, none, "g1", none, none),
     g2 |-> Thing("good", "g2", none, none, "g2", none, none),
     ag1 |-> Thing("appGood", "ag1", "a1", none, "g1", "ag1", none),
     ag2 |-> Thing("appGood", "ag2", "a1", none, "g2", "ag2", none),
     o1 |-> First("order", "o1"), o2 |-> Second("order", "o2"),
     p1 |-> First("powerRental", "p1"), p2 |-> Second("powerRental", "p2"),
     f1 |-> First("fee", "f1"), f2 |-> Second("fee", "f2"),
     k1 |-> First("compensate", "k1"), k2 |-> Second("compensate", "k2"),
     x1 |-> First("outOfGas", "x1"), x2 |-> Second("outOfGas", "x2"),
     oc1 |-> First("orderCoupon", "oc1"), oc2 |-> Second("orderCoupon", "oc2"),
     c1 |-> Thing("coupon", "c1", "a1", "u1", none, none, none),
     c2 |-> Thing("coupon", "c2", "a1", "u2", none, none, none),
     usdt |-> Thing("coin", "usdt", none, none, none, none, none),
     m1 |-> Thing("malfunction", "m1", none, none, "g1", none, none),
     m2 |-> Thing("malfunction", "m2", none, none, "g2", none, none),
     cf1 |-> Thing("config", "cf1", "a1", none, none, none, none),
     cf2 |-> Thing("config", "cf2", "a2", none, none, none, none)]

MCThings == DOMAIN World
MCKind == [x \in MCThings |-> World[x].kind]
MCOf == [x \in MCThings |-> World[x].of]

\* cf2 is the configuration of an application that may have none.
MCFleeting == {"o1", "ag1", "p1", "f1", "k1", "x1", "oc1", "cf2"}

\* What the theorems ask of the endpoints: all of them obey it.
ASSUME EndpointsFit ==
    \A e \in AllEndpoints :
        WellOrdered(e) /\ NamesFit(e) /\ OwnersFit(e) /\ ReadsFit(e) /\ WritesFit(e)

MCOrderTypes == {"Normal", "Offline", "Airdrop"}
MCAdminTypes == {"Offline", "Airdrop"}

=============================================================================
