-------------------------- MODULE MCPaymentAccount --------------------------
(***************************************************************************)
(* Instances of PaymentAccount for TLC: a small pool that two requests     *)
(* fight over, one of which creates fee orders, with room for each of them *)
(* to make a new account.                                                  *)
(***************************************************************************)
EXTENDS PaymentAccount, TLC

CONSTANTS r1, r2, a1, a2

MCRequests == {r1, r2}
FeeRequest == {r2}
OneOfTwo   == {a1}
TwoAccounts == {a1, a2}

=============================================================================
