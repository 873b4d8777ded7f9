---------------------------- MODULE MCOrderUpdate ----------------------------
(***************************************************************************)
(* Instances of OrderUpdate for TLC: one update against the clock and the  *)
(* benefits, and three updates against each other.  A day has six or ten   *)
(* ticks, benefits are booked for one tick and an update takes one or two  *)
(* at most: the shortest times in which a cancellation before a benefit is *)
(* accepted at all, and somewhat longer ones.                              *)
(***************************************************************************)
EXTENDS OrderUpdate, TLC

CONSTANTS u1, u2, u3

OneUpdate == {u1}
MCUpdates == {u1, u2, u3}
UpdateSymmetry == Permutations(MCUpdates)

Modes == {"Uncancellable", "BeforeStart", "BeforeBenefit", "BeforeUsed"}

\* Cancellations race the clock, of orders that start between two benefits.
TimedAsks ==
    {[who |-> w, cancel |-> c, pays |-> FALSE] : w \in {"user", "admin"}, c \in {"yes", "no"}}
TimedOrders ==
    {o \in [kind : {"powerRental", "fee"}, type : {"Normal", "Offline", "Airdrop"},
            mode : Modes, simulate : {FALSE}, startAt : {18}] :
        o.kind = "fee" => o.mode = "BeforeUsed"}

\* A payment, a cancellation with a payment, one by an administrator, and one
\* taken back, of orders that stay where they are in time.
LockAsks == {[who |-> "user", cancel |-> "unset", pays |-> TRUE],
             [who |-> "user", cancel |-> "yes", pays |-> TRUE],
             [who |-> "user", cancel |-> "no", pays |-> FALSE],
             [who |-> "admin", cancel |-> "yes", pays |-> FALSE]}
LockOrders == {o \in [kind : {"powerRental", "fee"}, type : {"Normal"},
                      mode : {"BeforeUsed"}, simulate : BOOLEAN, startAt : {9}] :
                  o.kind = "fee" => ~o.simulate}

FeeOrders == [kind : {"fee"}, type : {"Normal"}, mode : {"BeforeBenefit"},
              simulate : {FALSE}, startAt : {11}]

=============================================================================
