----------------------------- MODULE MCCreation -----------------------------
(***************************************************************************)
(* Creation for TLC: two requests at once, of which airdrops and simulated *)
(* ones are not limited; and one request with prices on two channels, on a *)
(* clock that passes midnight.                                             *)
(***************************************************************************)
EXTENDS Creation, TLC

CONSTANTS r1, r2, c1, c2

MCRequests == {r1, r2}
RequestSymmetry == Permutations(MCRequests)

\* What is limited: both bounds can be reached exactly.  An airdrop and a
\* simulated order are not.
Real(rentals, fees, units) ==
    [rentals |-> rentals, fees |-> fees, type |-> "Normal", simulate |-> FALSE, units |-> units]

MCAsks == {Real(1, 1, 1), Real(0, 2, 0),
           [Real(1, 0, 1) EXCEPT !.type = "Airdrop"], [Real(1, 0, 1) EXCEPT !.simulate = TRUE]}
MCGoods == {[min |-> 1, max |-> 1, user |-> 1], [min |-> 1, max |-> 1, user |-> 0]}

\* A coin with prices on two channels, and one without.
MCCoins == {c1, c2}
MCCoinOf == <<c1, c1>>
MCFeeds == DOMAIN MCCoinOf

\* Services that began before, begin during and after the creation.
MCTimedGoods ==
    [mode : {"TBD", "Confirmed", "Instantly", "NextDay", "Preset", "Unset"},
     serviceStartAt : {5, 9, 16}]

=============================================================================
