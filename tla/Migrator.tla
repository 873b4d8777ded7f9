------------------------------ MODULE Migrator ------------------------------
(***************************************************************************)
(* The start of the replicas of the service (cmd run, migrator.Migrate).   *)
(*                                                                         *)
(* Each connects to the database, takes a lock in redis that never         *)
(* expires, runs a transaction, gives the lock back and serves.  A replica *)
(* that cannot have the lock, or whose transaction fails, exits; the       *)
(* deployment starts it again.  What redis and the database answer, and    *)
(* when a process dies, is not for the code to choose: faults.             *)
(***************************************************************************)
EXTENDS Naturals, FiniteSets

CONSTANTS
    Replicas,    \* spec.replicas of the deployment
    MaxFaults    \* bound: calls that fail and processes that die

ASSUME ReplicasAssumption == IsFiniteSet(Replicas) /\ MaxFaults \in Nat

VARIABLES
    pc,       \* where each replica is
    key,      \* the lock is set in redis
    lost,     \* history: it was set and he who set it does not know or is gone
    faults    \* history: how many faults there were

vars == <<pc, key, lost, faults>>

Places == {"down", "locking", "migrating", "unlocking", "exiting", "serving"}

\* Between a TryLock that succeeded and its deferred Unlock, which is due after
\* a pass that failed too.
Holding == {"migrating", "unlocking", "exiting"}
Holders == {p \in Replicas : pc[p] \in Holding}

GoTo(p, place) == pc' = [pc EXCEPT ![p] = place]
Fault == faults < MaxFaults /\ faults' = faults + 1

Init ==
    /\ pc = [p \in Replicas |-> "down"]
    /\ key = FALSE
    /\ lost = FALSE
    /\ faults = 0

\* The process is started, and db.Init.
Start(p) ==
    /\ pc[p] = "down"
    /\ GoTo(p, "locking")
    /\ UNCHANGED <<key, lost, faults>>

StartFails(p) ==
    /\ pc[p] = "down"
    /\ Fault
    /\ UNCHANGED <<pc, key, lost>>

\* Slip: the deferred Unlock is there before TryLock has succeeded.
TryLock_UnlocksAnyway(p) ==
    /\ pc[p] = "locking"
    /\ key' = ~key
    /\ GoTo(p, IF key THEN "down" ELSE "migrating")
    /\ UNCHANGED <<lost, faults>>

\* Set if it is not set; an error otherwise, with which the process exits.
TryLock(p) ==
    /\ pc[p] = "locking"
    /\ key' = TRUE
    /\ GoTo(p, IF key THEN "down" ELSE "migrating")
    /\ UNCHANGED <<lost, faults>>

\* Redis is not reached, or its answer is lost.
TryLockFails(p) ==
    /\ pc[p] = "locking"
    /\ Fault
    /\ GoTo(p, "down")
    /\ key' \in {key, TRUE}
    /\ lost' = (lost \/ (key' /\ ~key))

\* WithTx.
Pass(p) ==
    /\ pc[p] = "migrating"
    /\ GoTo(p, "unlocking")
    /\ UNCHANGED <<key, lost, faults>>

PassFails(p) ==
    /\ pc[p] = "migrating"
    /\ Fault
    /\ GoTo(p, "exiting")
    /\ UNCHANGED <<key, lost>>

Leave(p) == GoTo(p, IF pc[p] = "unlocking" THEN "serving" ELSE "down")

\* Slip: only a pass that failed gives the lock back.
Unlock_OnError(p) ==
    /\ pc[p] \in {"unlocking", "exiting"}
    /\ key' = (key /\ pc[p] = "unlocking")
    /\ Leave(p)
    /\ UNCHANGED <<lost, faults>>

Unlock(p) ==
    /\ pc[p] \in {"unlocking", "exiting"}
    /\ key' = FALSE
    /\ Leave(p)
    /\ UNCHANGED <<lost, faults>>

\* The error is dropped.
UnlockFails(p) ==
    /\ pc[p] \in {"unlocking", "exiting"}
    /\ Fault
    /\ Leave(p)
    /\ key' \in {key, FALSE}
    /\ lost' = (lost \/ key')

\* A process dies, in a pass or when it is replaced.
Crash(p) ==
    /\ pc[p] # "down"
    /\ Fault
    /\ GoTo(p, "down")
    /\ lost' = (lost \/ pc[p] \in Holding)
    /\ UNCHANGED key

Run(p) == Start(p) \/ TryLock(p) \/ Pass(p) \/ Unlock(p)
Fail(p) == StartFails(p) \/ TryLockFails(p) \/ PassFails(p) \/ UnlockFails(p) \/ Crash(p)

Next == \E p \in Replicas : Run(p) \/ Fail(p)

\* A process that is started runs, and one that ended is started again.
Fairness == \A p \in Replicas : WF_vars(Run(p))

Spec == Init /\ [][Next]_vars /\ Fairness

-----------------------------------------------------------------------------
\* The values of every variable.
TypeOK ==
    /\ pc \in [Replicas -> Places]
    /\ key \in BOOLEAN
    /\ lost \in BOOLEAN
    /\ faults \in 0..MaxFaults

\* The lock is set for exactly one replica in its pass or, once lost, for none
\* at all: nobody migrates beside another, nor takes the lock of one who does.
OneMigration == Cardinality(Holders) = IF key /\ ~lost THEN 1 ELSE 0

\* Replicas that find the lock set exit and try again, and in the end all of
\* them serve, unless the lock was lost: it never expires and Migrate has no
\* other way to remove it.
ComesUp == <>[](lost \/ \A p \in Replicas : pc[p] = "serving")

=============================================================================
