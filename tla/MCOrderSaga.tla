----------------------------- MODULE MCOrderSaga -----------------------------
(***************************************************************************)
(* OrderSaga for TLC: every flow with every way of paying, and updates     *)
(* that claw back the commissions of none, one or two users, in either     *)
(* order of the map iteration.                                             *)
(***************************************************************************)
EXTENDS OrderSaga

CONSTANTS u1, u2

MCUsers == {u1, u2}
Clawbacks == {<<>>, <<u1>>, <<u1, u2>>, <<u2, u1>>}

MCSagas ==
    {s \in [flow : Flows, simulate : BOOLEAN, balances : BOOLEAN, account : BOOLEAN,
            users : Clawbacks] :
        /\ s.simulate => s.flow = "createPowerRental"
        /\ s.users # <<>> => s.flow \in {"updatePowerRental", "updateFee"}}

=============================================================================
