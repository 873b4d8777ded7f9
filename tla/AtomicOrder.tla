----------------------------- MODULE AtomicOrder -----------------------------
(***************************************************************************)
(* What the gateway promises of a create or update that moves money: the   *)
(* change is made together with everything it locks, or not at all, and    *)
(* "ok" is only answered for a change that was made.  mayStand says that   *)
(* the change may be left standing although its locks were given back: the *)
(* promise of the flows whose last saga step has no compensation.  An      *)
(* error answers nothing: the change may still be made after it.           *)
(***************************************************************************)
VARIABLES mayStand, outcome, answer

vars == <<mayStand, outcome, answer>>

Init == mayStand \in BOOLEAN /\ outcome = "pending" /\ answer = "none"

Settle ==
    /\ outcome = "pending"
    /\ outcome' \in {"made", "refused"} \cup (IF mayStand THEN {"standing"} ELSE {})
    /\ UNCHANGED <<mayStand, answer>>

AnswerOk    == /\ answer = "none" /\ outcome = "made"
               /\ answer' = "ok" /\ UNCHANGED <<mayStand, outcome>>
AnswerError == answer = "none" /\ answer' = "error" /\ UNCHANGED <<mayStand, outcome>>

Next == Settle \/ AnswerOk \/ AnswerError

Spec == Init /\ [][Next]_vars /\ WF_vars(Settle) /\ WF_vars(AnswerOk \/ AnswerError)

=============================================================================
