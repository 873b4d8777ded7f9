---------------------------- MODULE ServiceProofs ----------------------------
(***************************************************************************)
(* Proofs about Migrator, for any number of replicas and of faults, about  *)
(* the instance of Paging, for any rows and any size of a page, and about  *)
(* that of Listing, for any pages, things and changes.                     *)
(*                                                                         *)
(* A row can only be missed once it is behind the offset, and only be read *)
(* twice as long as it is ahead: a row that goes moves one from ahead to   *)
(* behind, a row that comes moves one the other way.  So the rows behind   *)
(* that were not read are counted against those that are gone              *)
(* (MissesInv), the rows ahead that were read against those that came      *)
(* (TwiceInv).                                                             *)
(*                                                                         *)
(* Of a list, each join done (Looked) has found all that its rows name, or *)
(* that was gone: the limit of a call is no limit, because a sequence has  *)
(* no more elements than places.  The answer is what formalize makes of    *)
(* the page and the maps (Formal), and both are left alone from then on.   *)
(***************************************************************************)
EXTENDS Service, SequenceTheorems, FiniteSetTheorems, WellFoundedInduction, TLAPS

\* The lock is nobody's and set only if it was lost, or it is one replica's.
LockInv ==
    \/ Holders = {} /\ key = lost
    \/ \E h \in Replicas : Holders = {h} /\ key /\ ~lost

LEMMA InitTypes == Init => TypeOK
<1> SUFFICES ASSUME Init PROVE TypeOK
  OBVIOUS
<1>1. faults \in 0..MaxFaults
  BY ReplicasAssumption DEF Init
<1>2. QED
  BY <1>1 DEF Init, TypeOK, Places

LEMMA TypeStep ==
  ASSUME TypeOK, [Next]_vars
  PROVE  TypeOK'
<1> USE ReplicasAssumption DEF TypeOK, Places, GoTo
<1>1. ASSUME Fault PROVE faults' \in 0..MaxFaults
  BY <1>1 DEF Fault
<1>2. ASSUME NEW p \in Replicas, Run(p) PROVE TypeOK'
  <2>1. CASE Start(p) \/ Pass(p)
    BY <2>1 DEF Start, Pass
  <2>2. CASE TryLock(p)
    BY <2>2 DEF TryLock
  <2>3. CASE Unlock(p)
    BY <2>3 DEF Unlock, Leave
  <2>4. QED
    BY <1>2, <2>1, <2>2, <2>3 DEF Run
<1>3. ASSUME NEW p \in Replicas, Fail(p) PROVE TypeOK'
  <2>1. CASE StartFails(p) \/ PassFails(p)
    BY <1>1, <2>1 DEF StartFails, PassFails
  <2>2. CASE TryLockFails(p)
    BY <1>1, <2>2, Zenon DEF TryLockFails
  <2>3. CASE UnlockFails(p)
    BY <1>1, <2>3, Zenon DEF UnlockFails, Leave
  <2>4. CASE Crash(p)
    BY <1>1, <2>4, Zenon DEF Crash
  <2>5. QED
    BY <1>3, <2>1, <2>2, <2>3, <2>4 DEF Fail
<1>4. CASE UNCHANGED vars
  BY <1>4 DEF vars
<1>5. QED
  BY <1>2, <1>3, <1>4 DEF Next

\* A replica that steps without entering its pass or leaving it.
LEMMA Aside ==
  ASSUME LockInv, Holders' = Holders, UNCHANGED <<key, lost>>
  PROVE  LockInv'
BY DEF LockInv

\* The holder leaves: the lock is given back, or lost.
LEMMA Left ==
  ASSUME LockInv, NEW p \in Replicas, p \in Holders, Holders' = Holders \ {p}, key' = lost'
  PROVE  LockInv'
BY DEF LockInv

LEMMA LockStep ==
  ASSUME TypeOK, LockInv, [Next]_vars
  PROVE  LockInv'
<1> USE DEF TypeOK, GoTo, Holding
<1>1. ASSUME NEW p \in Replicas, Start(p) PROVE LockInv'
  BY <1>1, Aside DEF Start, Holders
<1>2. ASSUME NEW p \in Replicas, TryLock(p) PROVE LockInv'
  <2>1. CASE key
    BY <1>2, <2>1, Aside DEF TryLock, Holders
  <2>2. CASE ~key
    <3>1. Holders' = Holders \cup {p}
      BY <1>2, <2>2 DEF TryLock, Holders
    <3>2. Holders = {} /\ ~lost
      BY <2>2 DEF LockInv
    <3>3. QED
      BY <1>2, <3>1, <3>2 DEF TryLock, LockInv
  <2>3. QED
    BY <2>1, <2>2
<1>3. ASSUME NEW p \in Replicas, Pass(p) PROVE LockInv'
  BY <1>3, Aside DEF Pass, Holders
<1>4. ASSUME NEW p \in Replicas, Unlock(p) PROVE LockInv'
  <2>1. p \in Holders /\ Holders' = Holders \ {p}
    BY <1>4 DEF Unlock, Leave, Holders
  <2>2. ~lost
    BY <2>1 DEF LockInv
  <2>3. key' = lost'
    BY <1>4, <2>2 DEF Unlock
  <2>4. QED
    BY <2>1, <2>3, Left
<1>5. ASSUME NEW p \in Replicas, StartFails(p) PROVE LockInv'
  BY <1>5, Aside DEF StartFails, Holders
<1>6. ASSUME NEW p \in Replicas, TryLockFails(p) PROVE LockInv'
  <2>1. Holders' = Holders
    BY <1>6 DEF TryLockFails, Holders
  <2>2. CASE key' = key
    BY <1>6, <2>1, <2>2, Aside DEF TryLockFails
  <2>3. CASE ~key /\ key'
    BY <1>6, <2>1, <2>3 DEF TryLockFails, LockInv
  <2>4. QED
    BY <1>6, <2>2, <2>3 DEF TryLockFails
<1>7. ASSUME NEW p \in Replicas, PassFails(p) PROVE LockInv'
  BY <1>7, Aside DEF PassFails, Holders
<1>8. ASSUME NEW p \in Replicas, UnlockFails(p) PROVE LockInv'
  <2>1. p \in Holders /\ Holders' = Holders \ {p}
    BY <1>8 DEF UnlockFails, Leave, Holders
  <2>2. ~lost
    BY <2>1 DEF LockInv
  <2>3. key' = lost'
    <3>1. key' \in BOOLEAN /\ lost' \in BOOLEAN
      BY TypeStep
    <3>2. lost' <=> key'
      BY <1>8, <2>2 DEF UnlockFails
    <3>3. QED
      BY <3>1, <3>2
  <2>4. QED
    BY <2>1, <2>3, Left
<1>9. ASSUME NEW p \in Replicas, Crash(p) PROVE LockInv'
  <2>1. CASE p \in Holders
    <3>1. Holders' = Holders \ {p}
      BY <1>9, <2>1 DEF Crash, Holders
    <3>2. key
      BY <2>1 DEF LockInv
    <3>3. key' = lost'
      BY <1>9, <2>1, <3>2 DEF Crash, Holders
    <3>4. QED
      BY <2>1, <3>1, <3>3, Left
  <2>2. CASE p \notin Holders
    <3>1. Holders' = Holders /\ lost' = lost /\ key' = key
      BY <1>9, <2>2 DEF Crash, Holders
    <3>2. QED
      BY <3>1, Aside
  <2>3. QED
    BY <2>1, <2>2
<1>10. CASE UNCHANGED vars
  BY <1>10, Aside DEF vars, Holders
<1>11. QED
  BY <1>1, <1>2, <1>3, <1>4, <1>5, <1>6, <1>7, <1>8, <1>9, <1>10 DEF Next, Run, Fail

LEMMA LockExcludes ==
  ASSUME TypeOK, LockInv
  PROVE  OneMigration
<1>1. CASE Holders = {} /\ key = lost
  BY <1>1, FS_EmptySet DEF OneMigration
<1>2. ASSUME NEW h \in Replicas, Holders = {h}, key, ~lost PROVE OneMigration
  BY <1>2, FS_Singleton DEF OneMigration
<1>3. QED
  BY <1>1, <1>2 DEF LockInv

\* However the replicas start, fail and die: the lock of Migrate is set for
\* the one replica in its pass, or it was lost and none has one.
THEOREM MigrationsExclusive == Spec => []OneMigration
<1>1. Init => TypeOK /\ LockInv
  BY InitTypes DEF Init, LockInv, Holders, Holding
<1>2. TypeOK /\ LockInv /\ [Next]_vars => (TypeOK /\ LockInv)'
  BY TypeStep, LockStep
<1>3. TypeOK /\ LockInv => OneMigration
  BY LockExcludes
<1>4. QED
  BY <1>1, <1>2, <1>3, PTL DEF Spec

\* Every variable has its type.
THEOREM TypeCorrect == Spec => []TypeOK
BY InitTypes, TypeStep, PTL DEF Spec

\* The same of the whole service: once the replicas are up, no loop and no list
\* brings one of them back into Migrate.
THEOREM MigrationsStayExclusive == SpecOne => []OneMigration
<1> DEFINE Inv == TypeOK /\ LockInv
<1>1. Init => Inv
  BY InitTypes DEF Init, LockInv, Holders, Holding
<1>2. Up => Inv
  <2> SUFFICES ASSUME Up PROVE Inv
    OBVIOUS
  <2>1. faults \in 0..MaxFaults
    BY ReplicasAssumption DEF Up
  <2>2. TypeOK
    BY <2>1 DEF Up, TypeOK, Places
  <2>3. Holders = {} /\ key = lost
    BY DEF Up, Holders, Holding
  <2>4. QED
    BY <2>2, <2>3 DEF LockInv
<1>3. InitOne => Inv
  BY <1>1, <1>2 DEF InitOne
<1>4. [NextOne]_<<vars, loopVars, listVars>> => [Next]_vars
  BY DEF NextOne
<1>5. Inv /\ [Next]_vars => Inv'
  BY TypeStep, LockStep
<1>6. Inv => OneMigration
  BY LockExcludes
<1>7. QED
  BY <1>3, <1>4, <1>5, <1>6, PTL DEF SpecOne

-----------------------------------------------------------------------------
\* The loops.

There == Loop!ToSet(table)
Seen == Loop!ToSet(read)
Ahead == {table[i] : i \in {i \in DOMAIN table : offset < i}}
Behind == {table[i] : i \in {i \in DOMAIN table : i <= offset}}

PagingType ==
    /\ table \in Seq(Rows) /\ read \in Seq(Rows)
    /\ offset \in Nat
    /\ come \subseteq Rows /\ gone \subseteq Rows

\* A row is in the table once, and one that is gone does not come back.
TableInv ==
    /\ \A i, j \in DOMAIN table : table[i] = table[j] => i = j
    /\ come \subseteq There \cup gone
    /\ gone \cap There = {}
    /\ Loop!Ended => Len(table) <= offset

TwiceInv == Len(read) - Cardinality(Seen) + Cardinality(Ahead \cap Seen) <= Cardinality(come)
MissesInv == Cardinality((Behind \ come) \ Seen) <= Cardinality(gone)

\* The sequence operators, element by element.
LEMMA Concatenated ==
  ASSUME NEW s \in Seq(Rows), NEW t \in Seq(Rows)
  PROVE  s \o t \in Seq(Rows) /\ Loop!ToSet(s \o t) = Loop!ToSet(s) \cup Loop!ToSet(t)
<1>1. /\ s \o t \in Seq(Rows) /\ Len(s \o t) = Len(s) + Len(t)
      /\ \A i \in 1..Len(s) + Len(t) : (s \o t)[i] = IF i <= Len(s) THEN s[i] ELSE t[i - Len(s)]
  BY ConcatProperties
<1>2. Len(s) \in Nat /\ Len(t) \in Nat
  OBVIOUS
<1>3. ASSUME NEW j \in 1..Len(t) PROVE Len(s) + j \in 1..Len(s \o t) /\ (s \o t)[Len(s) + j] = t[j]
  BY <1>1, <1>2
<1>4. ASSUME NEW j \in 1..Len(s) PROVE j \in 1..Len(s \o t) /\ (s \o t)[j] = s[j]
  BY <1>1, <1>2
<1>5. ASSUME NEW j \in 1..Len(s \o t)
      PROVE  (s \o t)[j] \in Loop!ToSet(s) \cup Loop!ToSet(t)
  <2>1. CASE j <= Len(s)
    BY <1>1, <1>2, <2>1 DEF Loop!ToSet
  <2>2. CASE ~(j <= Len(s))
    <3>1. j - Len(s) \in 1..Len(t) /\ (s \o t)[j] = t[j - Len(s)]
      BY <1>1, <1>2, <2>2
    <3>2. QED
      BY <3>1 DEF Loop!ToSet
  <2>3. QED
    BY <2>1, <2>2
<1>6. DOMAIN s = 1..Len(s) /\ DOMAIN t = 1..Len(t) /\ DOMAIN (s \o t) = 1..Len(s \o t)
  BY <1>1
<1>7. Loop!ToSet(s) \cup Loop!ToSet(t) \subseteq Loop!ToSet(s \o t)
  BY <1>3, <1>4, <1>6, Zenon DEF Loop!ToSet
<1>8. Loop!ToSet(s \o t) \subseteq Loop!ToSet(s) \cup Loop!ToSet(t)
  <2> SUFFICES ASSUME NEW j \in 1..Len(s \o t)
               PROVE  (s \o t)[j] \in Loop!ToSet(s) \cup Loop!ToSet(t)
    BY <1>6, Zenon DEF Loop!ToSet
  <2>1. QED
    BY <1>5
<1>9. QED
  BY <1>1, <1>7, <1>8

\* t is s with e at i.
IsInserted(t, s, i, e) ==
    /\ t \in Seq(Rows) /\ Len(t) = Len(s) + 1
    /\ \A j \in 1..Len(s) + 1 : t[j] = IF j < i THEN s[j] ELSE IF j = i THEN e ELSE s[j - 1]

LEMMA Inserted ==
  ASSUME NEW s \in Seq(Rows), NEW i \in 1..Len(s) + 1, NEW e \in Rows
  PROVE  IsInserted(Loop!InsertAt(s, i, e), s, i, e)
<1> DEFINE p == SubSeq(s, 1, i - 1)
           q == SubSeq(s, i, Len(s))
<1>1. p \in Seq(Rows) /\ Len(p) = i - 1 /\ \A j \in 1..i - 1 : p[j] = s[j]
  BY SubSeqProperties
<1>2. q \in Seq(Rows) /\ Len(q) = Len(s) - i + 1 /\ \A j \in 1..Len(s) - i + 1 : q[j] = s[i + j - 1]
  BY SubSeqProperties
<1>3. <<e>> \in Seq(Rows) /\ Len(<<e>>) = 1 /\ <<e>>[1] = e
  OBVIOUS
<1> HIDE DEF p, q
<1>4. /\ p \o <<e>> \in Seq(Rows) /\ Len(p \o <<e>>) = i
      /\ \A j \in 1..i : (p \o <<e>>)[j] = IF j < i THEN s[j] ELSE e
  BY <1>1, <1>3, ConcatProperties
<1>5. Len(p \o <<e>>) + Len(q) = Len(s) + 1
  <2>1. i + (Len(s) - i + 1) = Len(s) + 1
    OBVIOUS
  <2>2. QED
    BY <1>2, <1>4, <2>1, Zenon
<1>6. /\ (p \o <<e>>) \o q \in Seq(Rows)
      /\ Len((p \o <<e>>) \o q) = Len(s) + 1
      /\ \A j \in 1..Len(s) + 1 : ((p \o <<e>>) \o q)[j] =
            IF j <= i THEN (p \o <<e>>)[j] ELSE q[j - i]
  <2> DEFINE t == p \o <<e>>
  <2>1. t \in Seq(Rows) /\ Len(t) = i /\ Len(t) + Len(q) = Len(s) + 1
    BY <1>4, <1>5
  <2> HIDE DEF t
  <2>2. /\ t \o q \in Seq(Rows) /\ Len(t \o q) = Len(t) + Len(q)
        /\ \A j \in 1..Len(t) + Len(q) : (t \o q)[j] = IF j <= Len(t) THEN t[j] ELSE q[j - Len(t)]
    BY <1>2, <2>1, ConcatProperties
  <2>3. /\ t \o q \in Seq(Rows) /\ Len(t \o q) = Len(s) + 1
        /\ \A j \in 1..Len(s) + 1 : (t \o q)[j] = IF j <= i THEN t[j] ELSE q[j - i]
    BY <2>1, <2>2, Zenon
  <2>4. QED
    BY <2>3 DEF t
<1>7. ASSUME NEW j \in 1..Len(s) + 1
      PROVE  ((p \o <<e>>) \o q)[j] = IF j < i THEN s[j] ELSE IF j = i THEN e ELSE s[j - 1]
  <2>1. CASE j <= i
    BY <1>4, <1>6, <2>1
  <2>2. CASE ~(j <= i)
    <3>1. j - i \in 1..Len(s) - i + 1 /\ i + (j - i) - 1 = j - 1
      BY <2>2
    <3>2. QED
      BY <1>2, <1>6, <2>2, <3>1
  <2>3. QED
    BY <2>1, <2>2
<1>8. QED
  BY <1>6, <1>7 DEF Loop!InsertAt, IsInserted, p, q

LEMMA Removed ==
  ASSUME NEW s \in Seq(Rows), NEW i \in 1..Len(s)
  PROVE  /\ Loop!RemoveAt(s, i) \in Seq(Rows)
         /\ Len(Loop!RemoveAt(s, i)) = Len(s) - 1
         /\ \A j \in 1..Len(s) - 1 : Loop!RemoveAt(s, i)[j] = IF j < i THEN s[j] ELSE s[j + 1]
<1> DEFINE p == SubSeq(s, 1, i - 1)
           q == SubSeq(s, i + 1, Len(s))
<1>1. p \in Seq(Rows) /\ Len(p) = i - 1 /\ \A j \in 1..i - 1 : p[j] = s[j]
  BY SubSeqProperties
<1>2. q \in Seq(Rows) /\ Len(q) = Len(s) - i /\ \A j \in 1..Len(s) - i : q[j] = s[i + j]
  BY SubSeqProperties
<1> HIDE DEF p, q
<1>3. Len(p) + Len(q) = Len(s) - 1
  BY <1>1, <1>2
<1>4. /\ p \o q \in Seq(Rows) /\ Len(p \o q) = Len(s) - 1
      /\ \A j \in 1..Len(s) - 1 : (p \o q)[j] = IF j <= i - 1 THEN p[j] ELSE q[j - (i - 1)]
  <2>1. /\ p \o q \in Seq(Rows) /\ Len(p \o q) = Len(p) + Len(q)
        /\ \A j \in 1..Len(p) + Len(q) : (p \o q)[j] = IF j <= Len(p) THEN p[j] ELSE q[j - Len(p)]
    BY <1>1, <1>2, ConcatProperties
  <2>2. QED
    BY <1>1, <1>3, <2>1, Zenon
<1>5. ASSUME NEW j \in 1..Len(s) - 1 PROVE (p \o q)[j] = IF j < i THEN s[j] ELSE s[j + 1]
  <2>1. CASE j < i
    BY <1>1, <1>4, <2>1
  <2>2. CASE ~(j < i)
    <3>1. j - (i - 1) \in 1..Len(s) - i /\ i + (j - (i - 1)) = j + 1
      BY <2>2
    <3>2. QED
      BY <1>2, <1>4, <2>2, <3>1
  <2>3. QED
    BY <2>1, <2>2
<1>6. QED
  BY <1>4, <1>5 DEF Loop!RemoveAt, p, q

\* A page has the rows from the offset on, each once, and is empty only at the
\* end of the table.
LEMMA PageRows ==
  ASSUME PagingType, TableInv
  PROVE  /\ Loop!Page \in Seq(Rows)
         /\ Loop!ToSet(Loop!Page) =
               {table[i] : i \in {i \in DOMAIN table : offset < i /\ i <= offset + Limit}}
         /\ IsFiniteSet(Loop!ToSet(Loop!Page))
         /\ Cardinality(Loop!ToSet(Loop!Page)) = Len(Loop!Page)
         /\ Loop!Page = <<>> => Len(table) <= offset
<1> DEFINE last == Loop!Min({offset + Limit, Len(table)})
           page == SubSeq(table, offset + 1, last)
<1>1. Len(table) \in Nat /\ DOMAIN table = 1..Len(table) /\ offset \in Nat /\ offset + Limit \in Nat
  BY PagingAssumption DEF PagingType
<1>2. /\ offset + Limit <= Len(table) => last = offset + Limit
      /\ Len(table) < offset + Limit => last = Len(table)
  <2>1. \E x \in {offset + Limit, Len(table)} : \A y \in {offset + Limit, Len(table)} : x =< y
    BY <1>1
  <2>2. last \in {offset + Limit, Len(table)} /\ \A y \in {offset + Limit, Len(table)} : last =< y
    BY <2>1 DEF Loop!Min
  <2>3. QED
    BY <1>1, <2>2
<1> HIDE DEF last
<1>3. last \in Nat /\ last <= Len(table) /\ last <= offset + Limit
  BY <1>1, <1>2, PagingAssumption
<1>4. \A i \in offset + 1..last : i \in 1..Len(table) /\ table[i] \in Rows
  BY <1>1, <1>3 DEF PagingType
<1>5. /\ page \in Seq(Rows)
      /\ Len(page) = IF offset + 1 <= last THEN last - (offset + 1) + 1 ELSE 0
      /\ \A k \in 1..last - (offset + 1) + 1 : page[k] = table[offset + 1 + k - 1]
  BY <1>1, <1>3, <1>4, SubSeqProperties
<1>6. Loop!Page = page
  BY DEF Loop!Page, last
<1> HIDE DEF page
<1>7. /\ Len(page) \in Nat /\ DOMAIN page = 1..Len(page)
      /\ \A k \in 1..Len(page) : offset + k \in 1..Len(table) /\ page[k] = table[offset + k]
                                 /\ offset + k <= last
      /\ \A i \in 1..Len(table) : offset < i /\ i <= offset + Limit => i - offset \in 1..Len(page)
  <2>1. Len(page) \in Nat /\ DOMAIN page = 1..Len(page)
    BY <1>5
  <2>2. ASSUME NEW k \in 1..Len(page)
        PROVE  offset + k \in 1..Len(table) /\ page[k] = table[offset + k] /\ offset + k <= last
    <3>1. k \in 1..last - (offset + 1) + 1 /\ offset + 1 + k - 1 = offset + k
      BY <1>1, <1>3, <1>5, <2>2
    <3>2. offset + k \in 1..Len(table) /\ offset + k <= last
      BY <1>1, <1>3, <1>5, <2>2
    <3>3. QED
      BY <1>5, <3>1, <3>2
  <2>3. ASSUME NEW i \in 1..Len(table), offset < i, i <= offset + Limit
        PROVE  i - offset \in 1..Len(page)
    <3>1. i <= last
      BY <1>1, <1>2, <2>3, PagingAssumption
    <3>2. Len(page) = last - offset
      BY <1>1, <1>3, <1>5, <2>3, <3>1
    <3>3. QED
      BY <1>1, <1>3, <2>3, <3>1, <3>2
  <2>4. QED
    BY <2>1, <2>2, <2>3
<1>8. Loop!ToSet(page) = {table[i] : i \in {i \in DOMAIN table : offset < i /\ i <= offset + Limit}}
  <2> DEFINE these == {i \in DOMAIN table : offset < i /\ i <= offset + Limit}
  <2>1. ASSUME NEW k \in 1..Len(page) PROVE offset + k \in these /\ page[k] = table[offset + k]
    BY <1>1, <1>3, <1>7, <2>1
  <2>2. ASSUME NEW i \in these PROVE i - offset \in 1..Len(page) /\ page[i - offset] = table[i]
    <3>1. i \in 1..Len(table) /\ offset < i /\ i <= offset + Limit
      BY <1>1
    <3>2. i - offset \in 1..Len(page) /\ offset + (i - offset) = i
      BY <1>1, <1>7, <3>1
    <3>3. QED
      BY <1>7, <3>2
  <2> HIDE DEF these
  <2>3. Loop!ToSet(page) = {table[i] : i \in these}
    BY <1>7, <2>1, <2>2, ZenonT(40) DEF Loop!ToSet
  <2>4. QED
    BY <2>3 DEF these
<1>9. IsFiniteSet(Loop!ToSet(page)) /\ Cardinality(Loop!ToSet(page)) = Len(page)
  <2>1. IsFiniteSet(1..Len(page)) /\ Cardinality(1..Len(page)) = Len(page)
    <3>1. Len(page) \in Nat
      BY <1>7
    <3>2. /\ IsFiniteSet(1..Len(page))
          /\ Cardinality(1..Len(page)) = IF 1 > Len(page) THEN 0 ELSE Len(page) - 1 + 1
      BY <3>1, FS_Interval
    <3>3. QED
      BY <3>1, <3>2
  <2>2. ASSUME NEW k \in 1..Len(page), NEW l \in 1..Len(page), page[k] = page[l] PROVE k = l
    <3>1. offset + k = offset + l
      BY <1>1, <1>7, <2>2 DEF TableInv
    <3>2. QED
      BY <1>1, <3>1
  <2>3. page \in Bijection(1..Len(page), Loop!ToSet(page))
    <3>1. page \in [1..Len(page) -> Loop!ToSet(page)]
      BY <1>5, <1>7 DEF Loop!ToSet
    <3>2. \A t \in Loop!ToSet(page) : \E k \in 1..Len(page) : page[k] = t
      BY <1>7 DEF Loop!ToSet
    <3>3. QED
      BY <2>2, <3>1, <3>2 DEF Bijection, Injection, Surjection, IsInjective
  <2>4. QED
    BY <2>1, <2>3, FS_Bijection DEF ExistsBijection
<1>10. page = <<>> => Len(table) <= offset
  <2> SUFFICES ASSUME page = <<>> PROVE Len(table) <= offset
    OBVIOUS
  <2>1. Len(page) = 0
    OBVIOUS
  <2>2. last <= offset
    BY <1>1, <1>3, <1>5, <2>1
  <2>3. QED
    BY <1>1, <1>2, <2>2, PagingAssumption
<1>11. QED
  BY <1>5, <1>6, <1>8, <1>9, <1>10

\* A row that comes moves one row, at most, ahead.
LEMMA Comes ==
  ASSUME PagingType, TableInv, Loop!RowComes
  PROVE  /\ table' \in Seq(Rows)
         /\ \A k, l \in DOMAIN table' : table'[k] = table'[l] => k = l
         /\ \E row \in Rows :
               /\ row \notin There \cup gone
               /\ There' = There \cup {row} /\ come' = come \cup {row}
               /\ Behind' \subseteq Behind \cup {row}
         /\ \E e : Ahead' \subseteq Ahead \cup {e}
<1>1. PICK row \in Rows \ (Loop!ToSet(table) \cup gone), i \in 1..Len(table) + 1 :
         table' = Loop!InsertAt(table, i, row) /\ come' = come \cup {row}
  BY DEF Loop!RowComes
<1>2. /\ Len(table) \in Nat /\ DOMAIN table = 1..Len(table) /\ table \in Seq(Rows)
      /\ offset \in Nat /\ offset' = offset /\ gone' = gone
  BY DEF PagingType, Loop!RowComes
<1>3. /\ table' \in Seq(Rows) /\ Len(table') = Len(table) + 1
      /\ \A j \in 1..Len(table) + 1 : table'[j] =
            IF j < i THEN table[j] ELSE IF j = i THEN row ELSE table[j - 1]
  <2>1. table \in Seq(Rows) /\ row \in Rows
    BY <1>2
  <2>2. IsInserted(Loop!InsertAt(table, i, row), table, i, row)
    BY <2>1, Inserted
  <2>3. QED
    BY <1>1, <2>2 DEF IsInserted
<1>4. DOMAIN table' = 1..Len(table) + 1
  BY <1>2, <1>3
<1>5. \A j \in 1..Len(table) : table[j] \in There
  BY <1>2 DEF There, Loop!ToSet
<1>6. row \notin There \cup gone
  BY <1>1 DEF There
\* Where the row at j was before.
<1> DEFINE from(j) == IF j < i THEN j ELSE j - 1
<1>7. ASSUME NEW j \in 1..Len(table) + 1, j # i
      PROVE  from(j) \in 1..Len(table) /\ table'[j] = table[from(j)]
  <2>1. from(j) \in 1..Len(table)
    BY <1>1, <1>2, <1>7
  <2>2. QED
    BY <1>3, <1>7, <2>1
<1>8. ASSUME NEW k \in 1..Len(table) + 1, NEW l \in 1..Len(table) + 1, table'[k] = table'[l]
      PROVE  k = l
  <2>1. CASE k = i \/ l = i
    BY <1>3, <1>5, <1>6, <1>7, <1>8, <2>1
  <2>2. CASE k # i /\ l # i
    <3>1. from(k) = from(l)
      BY <1>2, <1>7, <1>8, <2>2 DEF TableInv
    <3>2. QED
      BY <1>1, <1>2, <2>2, <3>1
  <2>3. QED
    BY <2>1, <2>2
<1>9. There' = There \cup {row}
  <2>1. There' \subseteq There \cup {row}
    <3> SUFFICES ASSUME NEW j \in 1..Len(table) + 1 PROVE table'[j] \in There \cup {row}
      BY <1>4 DEF There, Loop!ToSet
    <3>1. QED
      BY <1>3, <1>5, <1>7
  <2>2. row \in There'
    <3>1. i \in DOMAIN table' /\ table'[i] = row
      BY <1>1, <1>2, <1>3, <1>4
    <3>2. QED
      BY <3>1 DEF There, Loop!ToSet
  <2>3. ASSUME NEW k \in 1..Len(table) PROVE table[k] \in There'
    <3> DEFINE j == IF k < i THEN k ELSE k + 1
    <3>1. j \in 1..Len(table) + 1 /\ j # i /\ from(j) = k
      BY <1>1, <1>2
    <3>2. j \in DOMAIN table' /\ table'[j] = table[k]
      BY <1>4, <1>7, <3>1
    <3>3. QED
      BY <3>2 DEF There, Loop!ToSet
  <2>4. There \subseteq There'
    BY <1>2, <2>3 DEF There, Loop!ToSet
  <2>5. QED
    BY <2>1, <2>2, <2>4
<1>10. Behind' \subseteq Behind \cup {row}
  <2> SUFFICES ASSUME NEW j \in 1..Len(table) + 1, j <= offset PROVE table'[j] \in Behind \cup {row}
    BY <1>2, <1>4 DEF Behind
  <2>1. CASE j = i
    BY <1>3, <2>1
  <2>2. CASE j # i
    <3>1. from(j) <= offset
      BY <1>1, <1>2
    <3>2. QED
      BY <1>2, <1>7, <2>2, <3>1 DEF Behind
  <2>3. QED
    BY <2>1, <2>2
<1>11. Ahead' \subseteq Ahead \cup {IF offset < i THEN row ELSE table[offset]}
  <2> DEFINE e == IF offset < i THEN row ELSE table[offset]
  <2> SUFFICES ASSUME NEW j \in 1..Len(table) + 1, offset < j PROVE table'[j] \in Ahead \cup {e}
    BY <1>2, <1>4 DEF Ahead
  <2>1. CASE j = i
    BY <1>3, <2>1
  <2>2. CASE j # i /\ offset < from(j)
    BY <1>2, <1>7, <2>2 DEF Ahead
  <2>3. CASE j # i /\ ~(offset < from(j))
    <3>1. from(j) = offset /\ ~(offset < i)
      BY <1>1, <1>2, <2>3
    <3>2. QED
      BY <1>7, <2>3, <3>1
  <2>4. QED
    BY <2>1, <2>2, <2>3
<1>12. QED
  BY <1>1, <1>3, <1>4, <1>6, <1>8, <1>9, <1>10, <1>11

\* A row that goes moves one row, at most, behind.
LEMMA Goes ==
  ASSUME PagingType, TableInv, Loop!RowGoes
  PROVE  /\ table' \in Seq(Rows)
         /\ \A k, l \in DOMAIN table' : table'[k] = table'[l] => k = l
         /\ \E row \in Rows :
               /\ row \in There /\ There' = There \ {row}
               /\ gone' = gone \cup {row}
         /\ Ahead' \subseteq Ahead
         /\ \E e : Behind' \subseteq Behind \cup {e}
<1>1. PICK i \in 1..Len(table) :
         table' = Loop!RemoveAt(table, i) /\ gone' = gone \cup {table[i]}
  BY DEF Loop!RowGoes
<1>2. /\ Len(table) \in Nat /\ DOMAIN table = 1..Len(table) /\ table \in Seq(Rows)
      /\ offset \in Nat /\ offset' = offset
  BY SMTT(40) DEF PagingType, Loop!RowGoes
<1>3. /\ table' \in Seq(Rows) /\ Len(table') = Len(table) - 1
      /\ \A j \in 1..Len(table) - 1 : table'[j] = IF j < i THEN table[j] ELSE table[j + 1]
  BY <1>1, <1>2, Removed
<1>4. DOMAIN table' = 1..Len(table) - 1
  BY <1>2, <1>3
<1> DEFINE from(j) == IF j < i THEN j ELSE j + 1
<1>5. ASSUME NEW j \in 1..Len(table) - 1
      PROVE  from(j) \in 1..Len(table) /\ from(j) # i /\ table'[j] = table[from(j)]
  <2>1. from(j) \in 1..Len(table) /\ from(j) # i
    BY <1>1, <1>2
  <2>2. QED
    BY <1>3, <2>1
<1>6. ASSUME NEW k \in 1..Len(table) - 1, NEW l \in 1..Len(table) - 1, table'[k] = table'[l]
      PROVE  k = l
  <2>1. from(k) = from(l)
    BY <1>2, <1>5, <1>6 DEF TableInv
  <2>2. QED
    BY <1>1, <1>2, <2>1
<1>7. There' = There \ {table[i]}
  <2>1. There' \subseteq There \ {table[i]}
    <3> SUFFICES ASSUME NEW j \in 1..Len(table) - 1 PROVE table'[j] \in There \ {table[i]}
      BY <1>4 DEF There, Loop!ToSet
    <3>1. from(j) \in DOMAIN table /\ i \in DOMAIN table /\ from(j) # i /\ table'[j] = table[from(j)]
      BY <1>1, <1>2, <1>5
    <3>2. QED
      BY <3>1 DEF There, Loop!ToSet, TableInv
  <2>2. ASSUME NEW k \in 1..Len(table), k # i PROVE table[k] \in There'
    <3> DEFINE j == IF k < i THEN k ELSE k - 1
    <3>1. j \in 1..Len(table) - 1 /\ from(j) = k
      BY <1>1, <1>2, <2>2
    <3>2. j \in DOMAIN table' /\ table'[j] = table[k]
      BY <1>4, <1>5, <3>1
    <3>3. QED
      BY <3>2 DEF There, Loop!ToSet
  <2>3. There \ {table[i]} \subseteq There'
    BY <1>2, <2>2 DEF There, Loop!ToSet
  <2>4. QED
    BY <2>1, <2>3
<1>8. Ahead' \subseteq Ahead
  <2> SUFFICES ASSUME NEW j \in 1..Len(table) - 1, offset < j PROVE table'[j] \in Ahead
    BY <1>2, <1>4 DEF Ahead
  <2>1. offset < from(j)
    BY <1>1, <1>2
  <2>2. QED
    BY <1>2, <1>5, <2>1 DEF Ahead
<1>9. Behind' \subseteq Behind \cup {table[offset + 1]}
  <2> SUFFICES ASSUME NEW j \in 1..Len(table) - 1, j <= offset
               PROVE  table'[j] \in Behind \cup {table[offset + 1]}
    BY <1>2, <1>4 DEF Behind
  <2>1. CASE from(j) <= offset
    BY <1>2, <1>5, <2>1 DEF Behind
  <2>2. CASE ~(from(j) <= offset)
    <3>1. from(j) = offset + 1
      BY <1>1, <1>2, <2>2
    <3>2. QED
      BY <1>5, <3>1
  <2>3. QED
    BY <2>1, <2>2
<1>10. table[i] \in Rows /\ table[i] \in There
  BY <1>1, <1>2 DEF There, Loop!ToSet
<1>11. QED
  BY <1>1, <1>3, <1>4, <1>6, <1>7, <1>8, <1>9, <1>10

\* The instance counts as FiniteSets does.
LEMMA SameCount ==
  ASSUME NEW S
  PROVE  Loop!Cardinality(S) = Cardinality(S)
BY Zenon DEF Cardinality, Loop!Cardinality

LEMMA FiniteRows ==
  ASSUME NEW S \in SUBSET Rows
  PROVE  IsFiniteSet(S) /\ Cardinality(S) \in Nat
BY PagingAssumption, FS_Subset, FS_CardinalityType

LEMMA PagingSets ==
  ASSUME PagingType
  PROVE  There \subseteq Rows /\ Seen \subseteq Rows /\ Ahead \subseteq Rows /\ Behind \subseteq Rows
<1>1. ASSUME NEW s \in Seq(Rows), NEW i \in DOMAIN s PROVE s[i] \in Rows
  OBVIOUS
<1>2. There \subseteq Rows /\ Seen \subseteq Rows
  BY <1>1 DEF There, Seen, Loop!ToSet, PagingType
<1>3. QED
  BY <1>1, <1>2 DEF Ahead, Behind, PagingType

\* A set gains one element at most.
LEMMA OneMore ==
  ASSUME NEW S \in SUBSET Rows, NEW T \in SUBSET Rows, NEW e, T \subseteq S \cup {e}
  PROVE  Cardinality(T) <= Cardinality(S) + 1
<1>1. IsFiniteSet(S \cup {e}) /\ Cardinality(S \cup {e}) <= Cardinality(S) + 1
  BY FiniteRows, FS_AddElement
<1>2. Cardinality(T) <= Cardinality(S \cup {e})
  BY <1>1, FS_Subset
<1>3. Cardinality(T) \in Nat /\ Cardinality(S) \in Nat /\ Cardinality(S \cup {e}) \in Nat
  BY <1>1, FiniteRows, FS_CardinalityType
<1>4. QED
  BY <1>1, <1>2, <1>3

LEMMA PagingInit ==
  Loop!Init \/ NoLoop => PagingType /\ TableInv /\ TwiceInv /\ MissesInv
<1>1. ASSUME Loop!Init PROVE PagingType /\ TableInv
  <2>1. table \in Seq(Rows)
    BY <1>1 DEF Loop!Init, Loop!SeqOf
  <2>2. PagingType
    BY <1>1, <2>1 DEF Loop!Init, PagingType
  <2>3. TableInv
    BY <1>1 DEF Loop!Init, Loop!IsInjective, Loop!Ended, TableInv
  <2>4. QED
    BY <2>2, <2>3
<1>2. ASSUME NoLoop PROVE PagingType /\ TableInv
  BY <1>2 DEF NoLoop, PagingType, TableInv, There, Loop!ToSet
<1>3. ASSUME Loop!Init \/ NoLoop PROVE TwiceInv /\ MissesInv
  <2>1. read = <<>> /\ offset = 0 /\ come = {} /\ gone = {} /\ table \in Seq(Rows)
    BY <1>1, <1>2, <1>3 DEF Loop!Init, NoLoop, PagingType
  <2>2. Seen = {} /\ Behind = {}
    BY <2>1 DEF Seen, Behind, Loop!ToSet
  <2>3. Len(read) = 0 /\ Ahead \cap Seen = {} /\ (Behind \ come) \ Seen = {}
    BY <2>1, <2>2
  <2>4. QED
    BY <2>1, <2>2, <2>3, FS_EmptySet DEF TwiceInv, MissesInv
<1>4. QED
  BY <1>1, <1>2, <1>3

\* Steps that leave the table and what was read of it alone.
LEMMA PagingIdle ==
  ASSUME PagingType, TableInv, TwiceInv, MissesInv,
         UNCHANGED <<table, offset, read, come, gone>>,
         Loop!Ended' => Len(table) <= offset
  PROVE  (PagingType /\ TableInv /\ TwiceInv /\ MissesInv)'
<1>1. There' = There /\ Seen' = Seen /\ Ahead' = Ahead /\ Behind' = Behind
  BY DEF There, Seen, Ahead, Behind
<1>2. PagingType' /\ TwiceInv' /\ MissesInv'
  BY <1>1 DEF PagingType, TwiceInv, MissesInv
<1>3. TableInv'
  BY <1>1 DEF TableInv
<1>4. QED
  BY <1>2, <1>3

LEMMA ReadStep ==
  ASSUME PagingType, TableInv, TwiceInv, MissesInv, Loop!ReadPage
  PROVE  (PagingType /\ TableInv /\ TwiceInv /\ MissesInv)'
<1> DEFINE P == Loop!ToSet(Loop!Page)
<1>1. /\ read' = read \o Loop!Page /\ offset' = offset + Limit
      /\ UNCHANGED <<table, loopPc, come, gone>> /\ loopPc = "reading"
  BY DEF Loop!ReadPage
<1>2. /\ Loop!Page \in Seq(Rows) /\ Cardinality(P) = Len(Loop!Page)
      /\ P = {table[i] : i \in {i \in DOMAIN table : offset < i /\ i <= offset + Limit}}
  BY PageRows
<1>3. read' \in Seq(Rows) /\ Len(read') = Len(read) + Len(Loop!Page) /\ Seen' = Seen \cup P
  <2>1. read \o Loop!Page \in Seq(Rows) /\ Loop!ToSet(read \o Loop!Page) = Seen \cup P
    BY <1>2, Concatenated DEF PagingType, Seen
  <2>2. Len(read \o Loop!Page) = Len(read) + Len(Loop!Page)
    BY <1>2, ConcatProperties DEF PagingType
  <2>3. QED
    BY <1>1, <2>1, <2>2 DEF Seen
<1> HIDE DEF P
<1>4. PagingType'
  BY <1>1, <1>3, PagingAssumption DEF PagingType
<1>5. There' = There
  BY <1>1 DEF There
<1>6. TableInv'
  BY <1>1, <1>5 DEF TableInv, Loop!Ended
<1>7. DOMAIN table \subseteq Nat /\ offset \in Nat /\ Limit \in Nat
  BY PagingAssumption DEF PagingType
<1>8. Ahead' = Ahead \ P
  <2>1. \A i, j \in DOMAIN table : table[i] = table[j] => i = j
    BY DEF TableInv
  <2>2. Ahead' = {table[i] : i \in {i \in DOMAIN table : offset + Limit < i}}
    BY <1>1 DEF Ahead
  <2>3. ASSUME NEW i \in DOMAIN table, offset + Limit < i PROVE table[i] \in Ahead \ P
    <3>1. offset < i /\ ~(i <= offset + Limit)
      BY <1>7, <2>3
    <3>2. QED
      BY <1>2, <2>1, <3>1 DEF Ahead
  <2>4. ASSUME NEW i \in DOMAIN table, offset < i, table[i] \notin P PROVE offset + Limit < i
    <3>1. ~(i <= offset + Limit)
      BY <1>2, <2>4
    <3>2. QED
      BY <1>7, <3>1
  <2>5. QED
    BY <2>2, <2>3, <2>4 DEF Ahead
<1>9. P \subseteq Ahead
  BY <1>2 DEF Ahead
<1>10. Behind' \subseteq Behind \cup P
  BY <1>1, <1>2, <1>7 DEF Behind
<1>11. P \subseteq Rows /\ Seen \subseteq Rows /\ Ahead \subseteq Rows /\ Behind \subseteq Rows
  BY <1>9, PagingSets
<1>12. TwiceInv'
  <2>1. Cardinality(Seen \cup P) = Cardinality(Seen) + Cardinality(P) - Cardinality(Seen \cap P)
    BY <1>11, FiniteRows, FS_Union
  <2>2. Ahead' \cap Seen' = (Ahead \cap Seen) \ P
    BY <1>3, <1>8
  <2>3. Cardinality((Ahead \cap Seen) \ P) =
           Cardinality(Ahead \cap Seen) - Cardinality((Ahead \cap Seen) \cap P)
    BY <1>11, FiniteRows, FS_Difference
  <2>4. (Ahead \cap Seen) \cap P = Seen \cap P
    BY <1>9
  <2>5. /\ Cardinality(Seen) \in Nat /\ Cardinality(P) \in Nat /\ Cardinality(Seen \cap P) \in Nat
        /\ Cardinality(Ahead \cap Seen) \in Nat /\ Cardinality(come) \in Nat /\ Len(read) \in Nat
    BY <1>11, FiniteRows DEF PagingType
  <2> DEFINE a == Cardinality(Ahead \cap Seen)
             o == Cardinality(Seen \cap P)
             seen == Cardinality(Seen)
  <2>6. /\ Cardinality(Ahead' \cap Seen') = a - o
        /\ Cardinality(Seen') = seen + Cardinality(P) - o
        /\ Len(read') = Len(read) + Cardinality(P) /\ come' = come
    BY <1>1, <1>2, <1>3, <2>1, <2>2, <2>3, <2>4
  <2>7. Len(read) - seen + a <= Cardinality(come)
    BY DEF TwiceInv
  <2>8. Len(read') - Cardinality(Seen') + Cardinality(Ahead' \cap Seen') <= Cardinality(come')
    <3> HIDE DEF a, o, seen
    <3>1. a \in Nat /\ o \in Nat /\ seen \in Nat
      BY <2>5 DEF a, o, seen
    <3>2. QED
      BY <2>5, <2>6, <2>7, <3>1
  <2>9. QED
    BY <2>8 DEF TwiceInv
<1>13. MissesInv'
  <2>1. ((Behind \ come) \ Seen)' \subseteq (Behind \ come) \ Seen
    BY <1>1, <1>3, <1>10
  <2>2. Cardinality(((Behind \ come) \ Seen)') <= Cardinality((Behind \ come) \ Seen)
    BY <1>11, <2>1, FiniteRows, FS_Subset
  <2>3. /\ Cardinality(((Behind \ come) \ Seen)') \in Nat
        /\ Cardinality((Behind \ come) \ Seen) \in Nat /\ Cardinality(gone) \in Nat
    BY <1>11, <2>1, FiniteRows DEF PagingType
  <2>4. QED
    BY <1>1, <2>2, <2>3 DEF MissesInv
<1>14. QED
  BY <1>4, <1>6, <1>12, <1>13

LEMMA ComesStep ==
  ASSUME PagingType, TableInv, TwiceInv, MissesInv, Loop!RowComes
  PROVE  (PagingType /\ TableInv /\ TwiceInv /\ MissesInv)'
<1>1. UNCHANGED <<loopPc, offset, read, gone>> /\ loopPc = "reading" /\ Seen' = Seen
  BY DEF Loop!RowComes, Seen
<1>2. /\ table' \in Seq(Rows)
      /\ \A k, l \in DOMAIN table' : table'[k] = table'[l] => k = l
  BY Comes
<1>3. PICK row \in Rows :
         /\ row \notin There \cup gone
         /\ There' = There \cup {row} /\ come' = come \cup {row}
         /\ Behind' \subseteq Behind \cup {row}
  BY Comes
<1>4. PICK e : Ahead' \subseteq Ahead \cup {e}
  BY Comes
<1>5. PagingType'
  BY <1>1, <1>2, <1>3 DEF PagingType
<1>6. TableInv'
  BY <1>1, <1>2, <1>3 DEF TableInv, Loop!Ended
<1>7. Seen \subseteq Rows /\ Ahead \subseteq Rows /\ Behind \subseteq Rows
  BY PagingSets
<1>8. TwiceInv'
  <2>1. Cardinality(come') = Cardinality(come) + 1
    <3>1. row \notin come
      BY <1>3 DEF TableInv
    <3>2. QED
      BY <1>3, <3>1, FiniteRows, FS_AddElement DEF PagingType
  <2>2. Ahead' \cap Seen' \subseteq (Ahead \cap Seen) \cup {e}
    BY <1>1, <1>4
  <2>3. Ahead' \cap Seen' \subseteq Rows
    BY <1>1, <1>7
  <2>4. Cardinality(Ahead' \cap Seen') <= Cardinality(Ahead \cap Seen) + 1
    BY <1>7, <2>2, <2>3, OneMore
  <2>5. /\ Cardinality(Seen) \in Nat /\ Cardinality(Ahead \cap Seen) \in Nat
        /\ Cardinality(Ahead' \cap Seen') \in Nat /\ Cardinality(come) \in Nat /\ Len(read) \in Nat
    BY <1>7, <2>3, FiniteRows DEF PagingType
  <2>6. Len(read') = Len(read) /\ Cardinality(Seen') = Cardinality(Seen)
    BY <1>1
  <2>7. Len(read) - Cardinality(Seen) + Cardinality(Ahead' \cap Seen') <= Cardinality(come) + 1
    BY <2>4, <2>5 DEF TwiceInv
  <2>8. QED
    BY <2>1, <2>6, <2>7 DEF TwiceInv
<1>9. MissesInv'
  <2>1. ((Behind \ come) \ Seen)' \subseteq (Behind \ come) \ Seen
    BY <1>1, <1>3
  <2>2. Cardinality(((Behind \ come) \ Seen)') <= Cardinality((Behind \ come) \ Seen)
    BY <1>7, <2>1, FiniteRows, FS_Subset
  <2>3. /\ Cardinality(((Behind \ come) \ Seen)') \in Nat
        /\ Cardinality((Behind \ come) \ Seen) \in Nat /\ Cardinality(gone) \in Nat
    BY <1>7, <2>1, FiniteRows DEF PagingType
  <2>4. QED
    BY <1>1, <2>2, <2>3 DEF MissesInv
<1>10. QED
  BY <1>5, <1>6, <1>8, <1>9

LEMMA GoesStep ==
  ASSUME PagingType, TableInv, TwiceInv, MissesInv, Loop!RowGoes
  PROVE  (PagingType /\ TableInv /\ TwiceInv /\ MissesInv)'
<1>1. UNCHANGED <<loopPc, offset, read, come>> /\ loopPc = "reading" /\ Seen' = Seen
  BY DEF Loop!RowGoes, Seen
<1>2. /\ table' \in Seq(Rows) /\ Ahead' \subseteq Ahead
      /\ \A k, l \in DOMAIN table' : table'[k] = table'[l] => k = l
  BY Goes
<1>3. PICK row \in Rows : row \in There /\ There' = There \ {row} /\ gone' = gone \cup {row}
  BY Goes
<1>4. PICK e : Behind' \subseteq Behind \cup {e}
  BY Goes
<1>5. PagingType'
  BY <1>1, <1>2, <1>3 DEF PagingType
<1>6. TableInv'
  BY <1>1, <1>2, <1>3 DEF TableInv, Loop!Ended
<1>7. Seen \subseteq Rows /\ Ahead \subseteq Rows /\ Behind \subseteq Rows /\ Behind' \subseteq Rows
  <2>1. Behind' \subseteq Rows
    <3>1. \A i \in DOMAIN table' : table'[i] \in Rows
      BY <1>2
    <3>2. QED
      BY <3>1 DEF Behind
  <2>2. QED
    BY <2>1, PagingSets
<1>8. TwiceInv'
  <2>1. Ahead' \cap Seen' \subseteq Ahead \cap Seen
    BY <1>1, <1>2
  <2>2. Cardinality(Ahead' \cap Seen') <= Cardinality(Ahead \cap Seen)
    BY <1>7, <2>1, FiniteRows, FS_Subset
  <2>3. /\ Cardinality(Seen) \in Nat /\ Cardinality(Ahead \cap Seen) \in Nat
        /\ Cardinality(Ahead' \cap Seen') \in Nat /\ Cardinality(come) \in Nat /\ Len(read) \in Nat
    BY <1>7, <2>1, FiniteRows DEF PagingType
  <2>4. Len(read) - Cardinality(Seen) + Cardinality(Ahead' \cap Seen') <= Cardinality(come)
    BY <2>2, <2>3 DEF TwiceInv
  <2>5. QED
    BY <1>1, <2>4 DEF TwiceInv
<1>9. MissesInv'
  <2>1. Cardinality(gone') = Cardinality(gone) + 1
    <3>1. row \notin gone
      BY <1>3 DEF TableInv
    <3>2. QED
      BY <1>3, <3>1, FiniteRows, FS_AddElement DEF PagingType
  <2>2. ((Behind \ come) \ Seen)' \subseteq ((Behind \ come) \ Seen) \cup {e}
    BY <1>1, <1>4
  <2>3. Cardinality(((Behind \ come) \ Seen)') <= Cardinality((Behind \ come) \ Seen) + 1
    BY <1>7, <2>2, OneMore
  <2>4. /\ Cardinality(((Behind \ come) \ Seen)') \in Nat
        /\ Cardinality((Behind \ come) \ Seen) \in Nat /\ Cardinality(gone) \in Nat
    BY <1>7, FiniteRows DEF PagingType
  <2>5. QED
    BY <2>1, <2>3, <2>4 DEF MissesInv
<1>10. QED
  BY <1>5, <1>6, <1>8, <1>9

LEMMA PagingStep ==
  ASSUME PagingType, TableInv, TwiceInv, MissesInv, [NextOne]_<<vars, loopVars, listVars>>
  PROVE  (PagingType /\ TableInv /\ TwiceInv /\ MissesInv)'
<1>1. CASE UNCHANGED loopVars
  BY <1>1, PagingIdle DEF loopVars, TableInv, Loop!Ended
<1>2. CASE Loop!PageEmpty
  <2>1. Len(table) <= offset
    BY <1>2, PageRows DEF Loop!PageEmpty
  <2>2. QED
    BY <1>2, <2>1, PagingIdle DEF Loop!PageEmpty
<1>3. CASE Loop!PageFails
  BY <1>3, PagingIdle DEF Loop!PageFails, Loop!Ended
<1>4. CASE Loop!ReadPage
  BY <1>4, ReadStep
<1>5. CASE Loop!RowComes
  BY <1>5, ComesStep
<1>6. CASE Loop!RowGoes
  BY <1>6, GoesStep
<1>7. QED
  BY <1>1, <1>2, <1>3, <1>4, <1>5, <1>6
  DEF NextOne, loopVars, Loop!Next, Loop!Loop, Loop!World

LEMMA PagingInvariant == SpecOne => [](PagingType /\ TableInv /\ TwiceInv /\ MissesInv)
<1> DEFINE Inv == PagingType /\ TableInv /\ TwiceInv /\ MissesInv
<1>1. InitOne => Inv
  BY PagingInit DEF InitOne
<1>2. Inv /\ [NextOne]_<<vars, loopVars, listVars>> => Inv'
  BY PagingStep
<1> HIDE DEF Inv
<1>3. SpecOne => []Inv
  BY <1>1, <1>2, PTL DEF SpecOne
<1>4. QED
  BY <1>3 DEF Inv

\* A loop over the pages of another service (GetOrderCommissions,
\* GetTopMostAppGoods) reads no more rows twice than came under it.
THEOREM ReadsFewTwice == SpecOne => []TwiceAtMostCome
<1>1. PagingType /\ TwiceInv => TwiceAtMostCome
  <2> SUFFICES ASSUME PagingType, TwiceInv
               PROVE  Len(read) - Cardinality(Seen) <= Cardinality(come)
    BY SameCount DEF TwiceAtMostCome, Loop!TwiceAtMostCome, Seen
  <2>1. /\ Cardinality(Ahead \cap Seen) \in Nat /\ Cardinality(Seen) \in Nat
        /\ Cardinality(come) \in Nat /\ Len(read) \in Nat
    BY PagingSets, FiniteRows DEF PagingType
  <2>2. QED
    BY <2>1 DEF TwiceInv
<1>2. QED
  BY <1>1, PagingInvariant, PTL

\* And it misses no more rows that were there all the while than rows that went.
THEOREM MissesFew == SpecOne => []MissesAtMostGone
<1>1. PagingType /\ TableInv /\ MissesInv => MissesAtMostGone
  <2> SUFFICES ASSUME PagingType, TableInv, MissesInv, Loop!Ended
               PROVE  Cardinality((There \ come) \ Seen) <= Cardinality(gone)
    BY SameCount DEF MissesAtMostGone, Loop!MissesAtMostGone, Loop!Stayed, There, Seen
  <2>1. DOMAIN table = 1..Len(table) /\ Len(table) \in Nat /\ Len(table) <= offset /\ offset \in Nat
    BY DEF PagingType, TableInv
  <2>2. There = Behind
    BY <2>1 DEF There, Behind, Loop!ToSet
  <2>3. QED
    BY <2>2 DEF MissesInv
<1>2. QED
  BY <1>1, PagingInvariant, PTL

-----------------------------------------------------------------------------
\* What a loop keeps of a sequence.

LEMMA LeastNumber ==
  ASSUME NEW T, T \subseteq Nat, T # {}
  PROVE  \E m \in T : \A n \in T : m <= n
<1> DEFINE R == {s \in Nat \X Nat : s[1] < s[2]}
<1>1. IsWellFoundedOn(R, Nat)
  BY NatLessThanWellFounded DEF OpToRel
<1>2. \E m \in T : \A n \in T : <<n, m>> \notin R
  <2> HIDE DEF R
  <2>1. QED
    BY <1>1, WFMin
<1>3. \A m, n \in T : <<n, m>> \notin R => m <= n
  OBVIOUS
<1>4. QED
  BY <1>2, <1>3

\* Induction, for a set of numbers.
LEMMA AllNumbers ==
  ASSUME NEW T, 0 \in T, \A n \in Nat : n \in T => n + 1 \in T
  PROVE  Nat \subseteq T
<1> DEFINE U == Nat \ T
<1>1. SUFFICES ASSUME U # {} PROVE FALSE
  OBVIOUS
<1>2. PICK m \in U : \A n \in U : m <= n
  <2>1. U \subseteq Nat
    OBVIOUS
  <2> HIDE DEF U
  <2>2. QED
    BY <1>1, <2>1, LeastNumber
<1>3. m # 0 /\ m - 1 \in Nat
  BY <1>2
<1>4. m - 1 \in T
  BY <1>2, <1>3
<1>5. QED
  BY <1>2, <1>3, <1>4

\* f[i] is what is kept of the first i elements of s.
KeptUpTo(s, S, n, f) ==
    f = [i \in 0..n |->
            IF i = 0 THEN <<>> ELSE IF s[i] \in S THEN Append(f[i - 1], s[i]) ELSE f[i - 1]]

LEMMA KeptExists ==
  ASSUME NEW s, NEW S
  PROVE  \A n \in Nat : \E f : KeptUpTo(s, S, n, f)
<1> DEFINE T == {n \in Nat : \E f : KeptUpTo(s, S, n, f)}
<1>1. 0 \in T
  <2> DEFINE z == [i \in 0..0 |-> <<>>]
  <2>1. KeptUpTo(s, S, 0, z)
    BY DEF KeptUpTo
  <2>2. QED
    BY <2>1
<1>2. ASSUME NEW n \in Nat, n \in T PROVE n + 1 \in T
  <2>1. PICK f : KeptUpTo(s, S, n, f)
    BY <1>2
  <2> DEFINE last == IF s[n + 1] \in S THEN Append(f[n], s[n + 1]) ELSE f[n]
             g == [i \in 0..(n + 1) |-> IF i = n + 1 THEN last ELSE f[i]]
  <2>2. \A i \in 0..(n + 1) : g[i] =
           IF i = 0 THEN <<>> ELSE IF s[i] \in S THEN Append(g[i - 1], s[i]) ELSE g[i - 1]
    <3> TAKE i \in 0..(n + 1)
    <3>1. CASE i = n + 1
      <4>1. g[i] = last /\ g[i - 1] = f[n] /\ i # 0
        BY <3>1
      <4>2. QED
        BY <3>1, <4>1
    <3>2. CASE i \in 0..n
      <4>1. f[i] = IF i = 0 THEN <<>> ELSE IF s[i] \in S THEN Append(f[i - 1], s[i]) ELSE f[i - 1]
        BY <2>1, <3>2 DEF KeptUpTo
      <4>2. g[i] = f[i] /\ (i # 0 => g[i - 1] = f[i - 1])
        BY <3>2
      <4>3. QED
        BY <4>1, <4>2
    <3>3. QED
      BY <3>1, <3>2
  <2>3. g = [i \in 0..(n + 1) |-> g[i]]
    OBVIOUS
  <2> HIDE DEF g
  <2>4. KeptUpTo(s, S, n + 1, g)
    BY <2>2, <2>3 DEF KeptUpTo
  <2>5. n + 1 \in Nat /\ \E h : KeptUpTo(s, S, n + 1, h)
    BY <2>4
  <2>6. QED
    BY <2>5
<1> HIDE DEF T
<1>3. Nat \subseteq T
  BY <1>1, <1>2, AllNumbers
<1>4. QED
  BY <1>3 DEF T

LEMMA KeptIs ==
  ASSUME NEW A, NEW s \in Seq(A), NEW S
  PROVE  \E f : KeptUpTo(s, S, Len(s), f) /\ List!Kept(s, S) = f[Len(s)]
<1> DEFINE kept[n \in 0..Len(s)] ==
        IF n = 0 THEN <<>> ELSE IF s[n] \in S THEN Append(kept[n - 1], s[n]) ELSE kept[n - 1]
<1>1. \E f : KeptUpTo(s, S, Len(s), f)
  BY KeptExists, LenProperties
<1>2. KeptUpTo(s, S, Len(s), kept)
  BY <1>1, Zenon DEF KeptUpTo, kept
<1>3. List!Kept(s, S) = kept[Len(s)]
  BY DEF List!Kept
<1> HIDE DEF kept
<1>4. QED
  BY <1>2, <1>3

\* What is kept of a sequence is at some places e of it, and these only depend on
\* which elements are kept.
Together(A, s, S, B, u, U) ==
    \E e \in Seq(1..Len(s)) :
       /\ List!Kept(s, S) \in Seq(A) /\ List!Kept(u, U) \in Seq(B)
       /\ Len(List!Kept(s, S)) = Len(e) /\ Len(List!Kept(u, U)) = Len(e)
       /\ \A j \in 1..Len(e) : /\ s[e[j]] \in S
                               /\ List!Kept(s, S)[j] = s[e[j]]
                               /\ List!Kept(u, U)[j] = u[e[j]]
       /\ \A k \in 1..Len(s) : s[k] \in S => \E j \in 1..Len(e) : e[j] = k

LEMMA KeptTogether ==
  ASSUME NEW A, NEW B, NEW s \in Seq(A), NEW u \in Seq(B), NEW S, NEW U,
         Len(u) = Len(s), \A k \in 1..Len(s) : s[k] \in S <=> u[k] \in U
  PROVE  Together(A, s, S, B, u, U)
<1>1. PICK f : KeptUpTo(s, S, Len(s), f) /\ List!Kept(s, S) = f[Len(s)]
  BY KeptIs
<1>2. PICK g : KeptUpTo(u, U, Len(u), g) /\ List!Kept(u, U) = g[Len(u)]
  BY KeptIs
<1>3. Len(s) \in Nat
  OBVIOUS
<1> DEFINE P(n, e) ==
              /\ f[n] \in Seq(A) /\ g[n] \in Seq(B) /\ Len(f[n]) = Len(e) /\ Len(g[n]) = Len(e)
              /\ \A j \in 1..Len(e) : s[e[j]] \in S /\ f[n][j] = s[e[j]] /\ g[n][j] = u[e[j]]
              /\ \A k \in 1..n : s[k] \in S => \E j \in 1..Len(e) : e[j] = k
           Q(n) == n <= Len(s) => \E e \in Seq(1..Len(s)) : P(n, e)
           T == {n \in Nat : Q(n)}
<1>4. 0 \in T
  <2>1. f[0] = <<>> /\ g[0] = <<>>
    BY <1>1, <1>2, <1>3 DEF KeptUpTo
  <2>2. <<>> \in Seq(1..Len(s)) /\ P(0, <<>>)
    BY <2>1
  <2>3. QED
    BY <2>2
<1>5. ASSUME NEW n \in Nat, n \in T PROVE n + 1 \in T
  <2> SUFFICES ASSUME n + 1 <= Len(s) PROVE \E e \in Seq(1..Len(s)) : P(n + 1, e)
    <3> HIDE DEF P
    <3>1. QED
      OBVIOUS
  <2>1. PICK e \in Seq(1..Len(s)) : P(n, e)
    <3>1. Q(n) /\ n <= Len(s)
      <4> HIDE DEF Q
      <4>1. QED
        BY <1>3, <1>5
    <3> HIDE DEF P
    <3>2. QED
      BY <3>1
  <2>2. n + 1 \in 1..Len(s) /\ s[n + 1] \in A /\ u[n + 1] \in B
    BY <1>3
  <2>3. /\ f[n + 1] = IF s[n + 1] \in S THEN Append(f[n], s[n + 1]) ELSE f[n]
        /\ g[n + 1] = IF u[n + 1] \in U THEN Append(g[n], u[n + 1]) ELSE g[n]
    <3>1. n + 1 \in 0..Len(s) /\ n + 1 # 0 /\ (n + 1) - 1 = n
      BY <1>3
    <3> HIDE DEF P, Q, T
    <3>2. f[n + 1] = IF s[n + 1] \in S THEN Append(f[n], s[n + 1]) ELSE f[n]
      BY <1>1, <3>1, Zenon DEF KeptUpTo
    <3>3. g[n + 1] = IF u[n + 1] \in U THEN Append(g[n], u[n + 1]) ELSE g[n]
      BY <1>2, <3>1, Zenon DEF KeptUpTo
    <3>4. QED
      BY <3>2, <3>3
  <2>4. CASE s[n + 1] \in S
    <3> DEFINE d == Append(e, n + 1)
    <3>1. f[n + 1] = Append(f[n], s[n + 1]) /\ g[n + 1] = Append(g[n], u[n + 1])
      BY <2>2, <2>3, <2>4
    <3>2. /\ d \in Seq(1..Len(s)) /\ Len(d) = Len(e) + 1 /\ d[Len(e) + 1] = n + 1
          /\ \A j \in 1..Len(e) : d[j] = e[j]
      BY <2>2, AppendProperties
    <3>3. /\ f[n + 1] \in Seq(A) /\ Len(f[n + 1]) = Len(e) + 1 /\ f[n + 1][Len(e) + 1] = s[n + 1]
          /\ \A j \in 1..Len(e) : f[n + 1][j] = f[n][j]
      BY <2>1, <2>2, <3>1, AppendProperties
    <3>4. /\ g[n + 1] \in Seq(B) /\ Len(g[n + 1]) = Len(e) + 1 /\ g[n + 1][Len(e) + 1] = u[n + 1]
          /\ \A j \in 1..Len(e) : g[n + 1][j] = g[n][j]
      BY <2>1, <2>2, <3>1, AppendProperties
    <3>5. Len(e) \in Nat
      OBVIOUS
    <3> HIDE DEF d
    <3>6. ASSUME NEW j \in 1..Len(d)
          PROVE  s[d[j]] \in S /\ f[n + 1][j] = s[d[j]] /\ g[n + 1][j] = u[d[j]]
      <4>1. CASE j \in 1..Len(e)
        BY <2>1, <3>2, <3>3, <3>4, <4>1
      <4>2. CASE j = Len(e) + 1
        BY <2>4, <3>2, <3>3, <3>4, <4>2
      <4>3. QED
        BY <3>2, <3>5, <4>1, <4>2
    <3>7. ASSUME NEW k \in 1..(n + 1), s[k] \in S PROVE \E j \in 1..Len(d) : d[j] = k
      <4>1. CASE k = n + 1
        BY <3>2, <3>5, <4>1
      <4>2. CASE k \in 1..n
        <5>1. PICK j \in 1..Len(e) : e[j] = k
          BY <2>1, <3>7, <4>2
        <5>2. j \in 1..Len(d) /\ d[j] = k
          BY <3>2, <3>5, <5>1
        <5>3. QED
          BY <5>2
      <4>3. QED
        BY <4>1, <4>2
    <3>8. P(n + 1, d)
      BY <3>2, <3>3, <3>4, <3>6, <3>7
    <3>9. QED
      BY <3>2, <3>8
  <2>5. CASE s[n + 1] \notin S
    <3>1. f[n + 1] = f[n] /\ g[n + 1] = g[n]
      BY <2>2, <2>3, <2>5
    <3>2. ASSUME NEW k \in 1..(n + 1), s[k] \in S PROVE \E j \in 1..Len(e) : e[j] = k
      <4>1. k \in 1..n
        BY <2>5, <3>2
      <4>2. QED
        BY <2>1, <3>2, <4>1
    <3>3. P(n + 1, e)
      BY <2>1, <3>1, <3>2
    <3>4. QED
      BY <3>3
  <2>6. QED
    BY <2>4, <2>5
<1> HIDE DEF T
<1>6. Nat \subseteq T
  BY <1>4, <1>5, AllNumbers
<1>7. PICK e \in Seq(1..Len(s)) : P(Len(s), e)
  <2>1. Q(Len(s))
    <3> HIDE DEF Q
    <3>1. QED
      BY <1>3, <1>6 DEF T
  <2> HIDE DEF P
  <2>2. QED
    BY <1>3, <2>1
<1>8. QED
  BY <1>1, <1>2, <1>7 DEF Together

\* Two sequences of one length with the same elements in the same places.
LEMMA SameSequence ==
  ASSUME NEW A, NEW s \in Seq(A), NEW u \in Seq(A), Len(s) = Len(u),
         \A i \in 1..Len(s) : s[i] = u[i]
  PROVE  s = u
OBVIOUS

\* Keeping what was kept keeps it; what is kept is all that is in S.
LEMMA KeptSelf ==
  ASSUME NEW A, NEW s \in Seq(A), NEW S
  PROVE  /\ List!Kept(s, S) \in Seq(A)
         /\ List!ToSet(List!Kept(s, S)) = List!ToSet(s) \cap S
         /\ List!Kept(s, List!ToSet(List!Kept(s, S))) = List!Kept(s, S)
<1> DEFINE kept == List!Kept(s, S)
           U == List!ToSet(kept)
           again == List!Kept(s, U)
<1>1. PICK e \in Seq(1..Len(s)) :
         /\ kept \in Seq(A) /\ Len(kept) = Len(e)
         /\ \A j \in 1..Len(e) : s[e[j]] \in S /\ kept[j] = s[e[j]]
         /\ \A k \in 1..Len(s) : s[k] \in S => \E j \in 1..Len(e) : e[j] = k
  <2>1. \A k \in 1..Len(s) : s[k] \in S <=> s[k] \in S
    OBVIOUS
  <2>2. Together(A, s, S, A, s, S)
    BY <2>1, KeptTogether
  <2>3. QED
    BY <2>2 DEF Together
<1>2. DOMAIN s = 1..Len(s) /\ DOMAIN kept = 1..Len(e)
  <2> HIDE DEF kept
  <2>1. QED
    BY <1>1
<1>3. U = List!ToSet(s) \cap S
  <2> HIDE DEF kept
  <2>1. ASSUME NEW j \in 1..Len(e) PROVE kept[j] \in List!ToSet(s) \cap S
    <3>1. e[j] \in DOMAIN s
      BY <1>2
    <3>2. QED
      BY <1>1, <3>1 DEF List!ToSet
  <2>2. ASSUME NEW k \in 1..Len(s), s[k] \in S PROVE s[k] \in U
    <3>1. PICK j \in 1..Len(e) : e[j] = k
      BY <1>1, <2>2
    <3>2. j \in DOMAIN kept /\ kept[j] = s[k]
      BY <1>1, <1>2, <3>1
    <3>3. QED
      BY <3>2 DEF List!ToSet
  <2>3. U \subseteq List!ToSet(s) \cap S
    BY <1>2, <2>1 DEF List!ToSet
  <2>4. List!ToSet(s) \cap S \subseteq U
    <3> HIDE DEF U
    <3>1. QED
      BY <1>2, <2>2 DEF List!ToSet
  <2>5. QED
    BY <2>3, <2>4
<1>4. \A k \in 1..Len(s) : s[k] \in S <=> s[k] \in U
  <2>1. \A k \in 1..Len(s) : s[k] \in List!ToSet(s)
    BY <1>2 DEF List!ToSet
  <2> HIDE DEF U
  <2>2. QED
    BY <1>3, <2>1
<1>5. again = kept
  <2> HIDE DEF U
  <2>1. PICK d \in Seq(1..Len(s)) :
           /\ kept \in Seq(A) /\ again \in Seq(A) /\ Len(kept) = Len(d) /\ Len(again) = Len(d)
           /\ \A j \in 1..Len(d) : kept[j] = s[d[j]] /\ again[j] = s[d[j]]
    <3>1. Together(A, s, S, A, s, U)
      BY <1>4, KeptTogether
    <3>2. QED
      BY <3>1 DEF Together
  <2> HIDE DEF kept, again
  <2>2. QED
    BY <2>1, SameSequence
<1>6. QED
  BY <1>1, <1>3, <1>5

\* Keeping everything changes nothing.
LEMMA KeptAll ==
  ASSUME NEW A, NEW s \in Seq(A)
  PROVE  List!Kept(s, List!ToSet(s)) = s
<1> DEFINE S == List!ToSet(s)
<1>1. PICK f : KeptUpTo(s, S, Len(s), f) /\ List!Kept(s, S) = f[Len(s)]
  BY KeptIs
<1>2. Len(s) \in Nat /\ \A k \in 1..Len(s) : s[k] \in S /\ s[k] \in A
  <2>1. DOMAIN s = 1..Len(s)
    OBVIOUS
  <2>2. QED
    BY <2>1 DEF List!ToSet
<1> HIDE DEF S
<1> DEFINE Same(n) == f[n] \in Seq(A) /\ Len(f[n]) = n /\ \A j \in 1..n : f[n][j] = s[j]
           Q(n) == n <= Len(s) => Same(n)
           T == {n \in Nat : Q(n)}
<1>3. 0 \in T
  BY <1>1, <1>2 DEF KeptUpTo
<1>4. ASSUME NEW n \in Nat, n \in T PROVE n + 1 \in T
  <2> SUFFICES ASSUME n + 1 <= Len(s) PROVE Same(n + 1)
    <3> HIDE DEF Same
    <3>1. QED
      OBVIOUS
  <2>1. Same(n) /\ s[n + 1] \in A
    BY <1>2, <1>4
  <2>2. f[n + 1] = Append(f[n], s[n + 1])
    <3>1. n + 1 \in 0..Len(s) /\ n + 1 # 0 /\ (n + 1) - 1 = n /\ s[n + 1] \in S
      BY <1>2
    <3>2. QED
      BY <1>1, <3>1 DEF KeptUpTo
  <2>3. /\ f[n + 1] \in Seq(A) /\ Len(f[n + 1]) = n + 1 /\ f[n + 1][n + 1] = s[n + 1]
        /\ \A j \in 1..n : f[n + 1][j] = f[n][j]
    BY <2>1, <2>2, AppendProperties
  <2>4. QED
    BY <2>1, <2>3
<1>5. Nat \subseteq T
  <2> HIDE DEF T
  <2>1. QED
    BY <1>3, <1>4, AllNumbers
<1>6. Same(Len(s))
  <2>1. Q(Len(s))
    <3> HIDE DEF Q
    <3>1. QED
      BY <1>2, <1>5
  <2> HIDE DEF Same
  <2>2. QED
    BY <1>2, <2>1
<1>7. QED
  BY <1>1, <1>6, SameSequence DEF S

-----------------------------------------------------------------------------
\* All the elements of a sequence of sequences.

ConcatenatedUpTo(q, n, f) ==
    f = [i \in 1..n |-> IF i = 1 THEN q[i] ELSE f[i - 1] \o q[i]]

LEMMA FlattenExists ==
  ASSUME NEW q
  PROVE  \A n \in Nat : \E f : ConcatenatedUpTo(q, n, f)
<1> DEFINE T == {n \in Nat : \E f : ConcatenatedUpTo(q, n, f)}
<1>1. 0 \in T
  <2> DEFINE z == [i \in 1..0 |-> <<>>]
  <2>1. ConcatenatedUpTo(q, 0, z)
    BY DEF ConcatenatedUpTo
  <2>2. QED
    BY <2>1
<1>2. ASSUME NEW n \in Nat, n \in T PROVE n + 1 \in T
  <2>1. PICK f : ConcatenatedUpTo(q, n, f)
    BY <1>2
  <2> DEFINE last == IF n = 0 THEN q[1] ELSE f[n] \o q[n + 1]
             g == [i \in 1..(n + 1) |-> IF i = n + 1 THEN last ELSE f[i]]
  <2>2. \A i \in 1..(n + 1) : g[i] = IF i = 1 THEN q[i] ELSE g[i - 1] \o q[i]
    <3> TAKE i \in 1..(n + 1)
    <3>1. CASE i = n + 1
      <4>1. g[i] = last /\ (i # 1 => g[i - 1] = f[n] /\ n # 0)
        BY <3>1
      <4>2. QED
        BY <3>1, <4>1
    <3>2. CASE i \in 1..n
      <4>1. f[i] = IF i = 1 THEN q[i] ELSE f[i - 1] \o q[i]
        BY <2>1, <3>2 DEF ConcatenatedUpTo
      <4>2. g[i] = f[i] /\ (i # 1 => g[i - 1] = f[i - 1])
        BY <3>2
      <4>3. QED
        BY <4>1, <4>2
    <3>3. QED
      BY <3>1, <3>2
  <2>3. g = [i \in 1..(n + 1) |-> g[i]]
    OBVIOUS
  <2> HIDE DEF g
  <2>4. ConcatenatedUpTo(q, n + 1, g)
    BY <2>2, <2>3 DEF ConcatenatedUpTo
  <2>5. n + 1 \in Nat /\ \E h : ConcatenatedUpTo(q, n + 1, h)
    BY <2>4
  <2>6. QED
    BY <2>5
<1> HIDE DEF T
<1>3. Nat \subseteq T
  BY <1>1, <1>2, AllNumbers
<1>4. QED
  BY <1>3 DEF T

\* FlattenSeq has the elements of every sequence.
LEMMA Flattened ==
  ASSUME NEW A, NEW q \in Seq(Seq(A)), Len(q) # 0
  PROVE  /\ List!FlattenSeq(q) \in Seq(A)
         /\ \A k \in 1..Len(q) : \A l \in 1..Len(q[k]) :
               \E m \in 1..Len(List!FlattenSeq(q)) : List!FlattenSeq(q)[m] = q[k][l]
<1> DEFINE flatten[i \in 1..Len(q)] == IF i = 1 THEN q[i] ELSE flatten[i - 1] \o q[i]
<1>1. \E f : ConcatenatedUpTo(q, Len(q), f)
  BY FlattenExists, LenProperties
<1>2. ConcatenatedUpTo(q, Len(q), flatten)
  BY <1>1, Zenon DEF ConcatenatedUpTo, flatten
<1>3. List!FlattenSeq(q) = flatten[Len(q)]
  BY DEF List!FlattenSeq
<1> HIDE DEF flatten
<1>4. Len(q) \in Nat
  OBVIOUS
<1> DEFINE Has(f, n) == /\ f \in Seq(A)
                        /\ \A k \in 1..n : \A l \in 1..Len(q[k]) :
                              \E m \in 1..Len(f) : f[m] = q[k][l]
           Q(n) == n + 1 <= Len(q) => Has(flatten[n + 1], n + 1)
           T == {n \in Nat : Q(n)}
<1>5. 0 \in T
  <2>1. 1 <= Len(q) => flatten[1] = q[1] /\ q[1] \in Seq(A)
    BY <1>2, <1>4 DEF ConcatenatedUpTo
  <2>2. QED
    BY <2>1
<1>6. ASSUME NEW n \in Nat, n \in T PROVE n + 1 \in T
  <2> DEFINE f == flatten[n + 1]
             g == flatten[n + 2]
             r == q[n + 2]
  <2>1. ASSUME n + 2 <= Len(q) PROVE Has(g, n + 2)
    <3>1. Has(f, n + 1)
      <4> HIDE DEF Has
      <4>1. QED
        BY <1>4, <1>6, <2>1
    <3>2. r \in Seq(A)
      BY <1>4, <2>1
    <3>3. g = f \o r
      <4>1. n + 2 \in 1..Len(q) /\ n + 2 # 1 /\ (n + 2) - 1 = n + 1
        BY <1>4, <2>1
      <4>2. QED
        BY <1>2, <4>1 DEF ConcatenatedUpTo
    <3> HIDE DEF f, g, r
    <3>4. /\ f \o r \in Seq(A) /\ Len(f \o r) = Len(f) + Len(r)
          /\ \A m \in 1..Len(f) + Len(r) : (f \o r)[m] = IF m <= Len(f) THEN f[m] ELSE r[m - Len(f)]
      BY <3>1, <3>2, ConcatProperties
    <3>5. Len(f) \in Nat /\ Len(r) \in Nat
      BY <3>1, <3>2
    <3>6. ASSUME NEW k \in 1..(n + 2), NEW l \in 1..Len(q[k])
          PROVE  \E m \in 1..Len(g) : g[m] = q[k][l]
      <4>1. CASE k \in 1..(n + 1)
        <5>1. PICK m \in 1..Len(f) : f[m] = q[k][l]
          BY <3>1, <4>1
        <5>2. m \in 1..Len(g) /\ g[m] = f[m]
          BY <3>3, <3>4, <3>5
        <5>3. QED
          BY <5>1, <5>2
      <4>2. CASE k = n + 2
        <5>1. l \in 1..Len(r) /\ q[k][l] = r[l]
          BY <4>2 DEF r
        <5>2. Len(f) + l \in 1..Len(g) /\ g[Len(f) + l] = r[l]
          BY <3>3, <3>4, <3>5, <5>1
        <5>3. QED
          BY <5>1, <5>2
      <4>3. QED
        BY <4>1, <4>2
    <3>7. QED
      BY <3>3, <3>4, <3>6
  <2>2. (n + 1) + 1 = n + 2
    OBVIOUS
  <2> HIDE DEF Has
  <2>3. QED
    BY <2>1, <2>2
<1>7. Nat \subseteq T
  <2> HIDE DEF T
  <2>1. QED
    BY <1>5, <1>6, AllNumbers
<1>8. Has(flatten[Len(q)], Len(q))
  <2>1. Len(q) - 1 \in Nat /\ (Len(q) - 1) + 1 = Len(q)
    BY <1>4
  <2> DEFINE n == Len(q) - 1
  <2>2. n \in T
    <3> HIDE DEF n, T
    <3>1. QED
      BY <1>7, <2>1 DEF n
  <2>3. Q(n)
    <3> HIDE DEF Q
    <3>1. QED
      BY <2>2
  <2> HIDE DEF Has
  <2>4. QED
    BY <1>4, <2>1, <2>3
<1>9. QED
  BY <1>3, <1>8

\* A sequence has no more elements than places.
LEMMA FewElements ==
  ASSUME NEW A, NEW s \in Seq(A)
  PROVE  /\ IsFiniteSet(List!ToSet(s)) /\ Cardinality(List!ToSet(s)) \in Nat
         /\ Cardinality(List!ToSet(s)) <= Len(s)
<1> DEFINE D == 1..Len(s)
           S == List!ToSet(s)
<1>1. Len(s) \in Nat /\ DOMAIN s = D
  OBVIOUS
<1>2. IsFiniteSet(D) /\ Cardinality(D) = Len(s)
  <2>1. /\ IsFiniteSet(1..Len(s))
        /\ Cardinality(1..Len(s)) = IF 1 > Len(s) THEN 0 ELSE Len(s) - 1 + 1
    BY <1>1, FS_Interval
  <2>2. QED
    BY <1>1, <2>1
<1>3. s \in Surjection(D, S)
  <2>1. \A i \in D : s[i] \in S
    BY <1>1 DEF List!ToSet
  <2>2. s \in [D -> S]
    BY <1>1, <2>1
  <2>3. \A x \in S : \E i \in D : s[i] = x
    BY <1>1 DEF List!ToSet
  <2> HIDE DEF D, S
  <2>4. QED
    BY <2>2, <2>3 DEF Surjection
<1> HIDE DEF D, S
<1>4. IsFiniteSet(S) /\ Cardinality(S) <= Cardinality(D)
  BY <1>2, <1>3, FS_Surjection
<1>5. Cardinality(S) \in Nat
  BY <1>4, FS_CardinalityType
<1>6. QED
  BY <1>2, <1>4, <1>5 DEF S

-----------------------------------------------------------------------------
\* The lists.

Maps == UNION {[S -> Names] : S \in SUBSET Ids}

ListType ==
    /\ query \in DOMAIN List!Queries
    /\ at \in Nat \ {0}
    /\ rows \in Seq(PageRow)
    /\ \A k, l \in DOMAIN rows : rows[k].id = rows[l].id => k = l
    /\ things \in [List!Tables -> [Ids -> Names \cup {NoName}]]
    /\ since \in [List!Tables -> [Ids -> SUBSET (Names \cup {NoName})]]
    /\ found \in [List!Tables -> Maps]

\* What the rows name in table t was found by a name of its time, or was gone;
\* one that is no identifier would have been refused.
Looked(t) ==
    /\ \A i \in DOMAIN found[t] : found[t][i] \in since[t][i]
    /\ \A k \in DOMAIN rows : \A l \in DOMAIN rows[k].of[t] :
          /\ t # "topMosts" => rows[k].of[t][l] \in Ids
          /\ rows[k].of[t][l] \in DOMAIN found[t] \/ List!WasGone(t, rows[k].of[t][l])

LookedBefore(t) == \E j \in DOMAIN List!Joins : j < at /\ List!Joins[j] = t

\* What formalize makes of the rows.
Formal ==
    LET shown == List!Kept(rows, {row \in List!ToSet(rows) : List!Shown(row)})
    IN [k \in DOMAIN shown |-> List!Info(shown[k])]

ListInv ==
    /\ listPc \in {"asking", "joining"} =>
          \A t \in List!Tables : \A i \in Ids : things[t][i] \in since[t][i]
    /\ listPc = "asking" => at = 1 /\ answer = <<>>
    /\ listPc = "joining" =>
          rows # <<>> /\ \A t \in List!Tables : LookedBefore(t) => Looked(t)
    /\ listPc = "answered" =>
          \/ rows = <<>> /\ answer = <<>>
          \/ answer = Formal /\ \A t \in List!Joined : Looked(t)

LEMMA MapFacts ==
  /\ <<>> \in Maps
  /\ \A m \in Maps : DOMAIN m \subseteq Ids /\ \A i \in DOMAIN m : m[i] \in Names
  /\ \A S \in SUBSET Ids : \A m \in [S -> Names] : m \in Maps
<1>1. <<>> \in [{} -> Names]
  OBVIOUS
<1>2. QED
  BY <1>1 DEF Maps

\* Joins are of tables, and what a row must have is joined and is no promotion.
LEMMA JoinsAre ==
  ASSUME NEW q \in DOMAIN List!Queries
  PROVE  /\ List!Queries[q].joins \in Seq(List!Tables)
         /\ List!Queries[q].needs \subseteq List!ToSet(List!Queries[q].joins)
         /\ "topMosts" \notin List!Queries[q].needs
<1>1. DOMAIN List!Queries = {"powerRentals", "fees", "orders", "orderCoupons", "records"}
  BY DEF List!Queries
<1>2. /\ List!PowerRentals.joins \in Seq(List!Tables) /\ List!Fees.joins \in Seq(List!Tables)
      /\ List!Orders.joins \in Seq(List!Tables) /\ List!OrderCoupons.joins \in Seq(List!Tables)
      /\ List!Records.joins \in Seq(List!Tables)
  BY DEF List!PowerRentals, List!Fees, List!Orders, List!OrderCoupons, List!Records, List!Tables
<1>3. /\ List!PowerRentals.needs = {} /\ List!Fees.needs = {}
      /\ List!Orders.needs = {} /\ List!OrderCoupons.needs = {}
  BY DEF List!PowerRentals, List!Fees, List!Orders, List!OrderCoupons
<1>4. /\ List!Records.needs = {"apps", "users", "appGoods"}
      /\ List!Records.joins = <<"apps", "users", "appGoods">>
  BY DEF List!Records
<1>5. List!Records.needs \subseteq List!ToSet(List!Records.joins)
  <2> DEFINE j == <<"apps", "users", "appGoods">>
  <2>1. DOMAIN j = 1..3 /\ j[1] = "apps" /\ j[2] = "users" /\ j[3] = "appGoods"
    OBVIOUS
  <2>2. QED
    BY <1>4, <2>1 DEF List!ToSet
<1>6. /\ List!Queries["powerRentals"] = List!PowerRentals /\ List!Queries["fees"] = List!Fees
      /\ List!Queries["orders"] = List!Orders /\ List!Queries["orderCoupons"] = List!OrderCoupons
      /\ List!Queries["records"] = List!Records
  BY DEF List!Queries
<1>7. CASE q = "records"
  <2>1. List!Queries[q] = List!Records
    BY <1>6, <1>7
  <2>2. "topMosts" \notin List!Records.needs
    BY <1>4
  <2>3. QED
    BY <1>2, <1>5, <2>1, <2>2, Zenon
<1>8. CASE q # "records"
  <2>1. List!Queries[q].joins \in Seq(List!Tables)
    BY <1>1, <1>2, <1>6, <1>8
  <2>2. List!Queries[q].needs = {}
    BY <1>1, <1>3, <1>6, <1>8
  <2>3. QED
    BY <2>1, <2>2
<1>9. QED
  BY <1>7, <1>8

LEMMA ListInit ==
  NoList \/ List!Init => ListType /\ ListInv
<1>1. ASSUME NoList PROVE ListType /\ ListInv
  <2>1. "orders" \in DOMAIN List!Queries
    BY DEF List!Queries
  <2>2. ListType
    BY <1>1, <2>1, MapFacts, ListingAssumption DEF NoList, ListType
  <2>3. ListInv
    BY <1>1 DEF NoList, ListInv
  <2>4. QED
    BY <2>2, <2>3
<1>2. ASSUME List!Init PROVE ListType /\ ListInv
  <2>1. things = Initially /\ since = [t \in List!Tables |-> [i \in Ids |-> {things[t][i]}]]
    BY <1>2 DEF List!Init
  <2>2. things \in [List!Tables -> [Ids -> Names \cup {NoName}]]
    BY <2>1, ListingAssumption
  <2>3. since \in [List!Tables -> [Ids -> SUBSET (Names \cup {NoName})]]
    BY <2>1, <2>2
  <2>4. \A t \in List!Tables : \A i \in Ids : things[t][i] \in since[t][i]
    BY <2>1
  <2>5. ListType
    BY <1>2, <2>2, <2>3, MapFacts DEF List!Init, ListType
  <2>6. ListInv
    BY <1>2, <2>4 DEF List!Init, ListInv
  <2>7. QED
    BY <2>5, <2>6
<1>3. QED
  BY <1>1, <1>2

\* Steps that leave the page, the maps and what was shown of them alone.
LEMMA ListIdle ==
  ASSUME ListType, ListInv, UNCHANGED <<things, since, query, rows, at, found, answer>>,
         listPc' \in {listPc, "failed", "refused"}
  PROVE  (ListType /\ ListInv)'
<1>1. ListType'
  BY DEF ListType
<1>2. /\ \A t : Looked(t) <=> Looked(t)'
      /\ \A t : LookedBefore(t) <=> LookedBefore(t)'
  BY DEF Looked, LookedBefore, List!WasGone, List!Joins
<1>3. Formal' = Formal /\ List!Joined' = List!Joined
  BY DEF Formal, List!Shown, List!Info, List!Entries, List!NameOf, List!Joined, List!Joins
<1>4. ListInv'
  BY <1>2, <1>3 DEF ListInv
<1>5. QED
  BY <1>1, <1>4

LEMMA ReadRowsStep ==
  ASSUME ListType, ListInv, List!ReadRows
  PROVE  (ListType /\ ListInv)'
<1>1. /\ rows' \in Pages[query] /\ listPc = "asking"
      /\ listPc' = IF rows' = <<>> THEN "answered" ELSE "joining"
      /\ UNCHANGED <<things, since, changes, query, at, found, answer>>
  BY DEF List!ReadRows
<1>2. ListType'
  BY <1>1, ListingAssumption DEF ListType
<1>3. answer' = <<>>
  BY <1>1 DEF ListInv
<1>4. ~\E j \in DOMAIN List!Joins' : j < at'
  <2>1. List!Joins' \in Seq(List!Tables) /\ at' = 1
    BY <1>1, JoinsAre DEF List!Joins, ListType, ListInv
  <2>2. DOMAIN List!Joins' = 1..Len(List!Joins')
    BY <2>1
  <2>3. QED
    BY <2>1, <2>2
<1>5. ListInv'
  BY <1>1, <1>3, <1>4 DEF ListInv, LookedBefore
<1>6. QED
  BY <1>2, <1>5

\* What is collected are identifiers, all those that the rows name.
LEMMA CollectedAll ==
  ASSUME ListType, NEW t \in List!Tables, rows # <<>>,
         Malformed \notin List!ToSet(List!Collected(t))
  PROVE  /\ List!Collected(t) \in Seq(Ids \cup {Malformed})
         /\ List!ToSet(List!Collected(t)) \subseteq Ids
         /\ \A k \in DOMAIN rows : \A l \in DOMAIN rows[k].of[t] :
               \/ rows[k].of[t][l] \in List!ToSet(List!Collected(t))
               \/ t = "topMosts" /\ rows[k].of[t][l] = Malformed
<1> DEFINE A == Ids \cup {Malformed}
           q == [k \in DOMAIN rows |-> rows[k].of[t]]
           flat == List!FlattenSeq(q)
           ids == List!Collected(t)
<1>1. rows \in Seq(PageRow) /\ DOMAIN rows = 1..Len(rows) /\ Len(rows) \in Nat /\ Len(rows) # 0
  BY DEF ListType
<1>2. \A k \in 1..Len(rows) : rows[k].of[t] \in Seq(A)
  <2> TAKE k \in 1..Len(rows)
  <2>1. rows[k] \in PageRow
    BY <1>1
  <2>2. rows[k].of \in [List!Tables -> Seq(A)]
    BY <2>1 DEF PageRow
  <2> HIDE DEF A
  <2>3. QED
    BY <2>2
<1> HIDE DEF A
<1>3. q \in Seq(Seq(A)) /\ Len(q) = Len(rows) /\ \A k \in 1..Len(rows) : q[k] = rows[k].of[t]
  BY <1>1, <1>2
<1> HIDE DEF q
<1>4. /\ flat \in Seq(A)
      /\ \A k \in 1..Len(q) : \A l \in 1..Len(q[k]) : \E m \in 1..Len(flat) : flat[m] = q[k][l]
  <2>1. Len(q) # 0
    BY <1>1, <1>3
  <2>2. QED
    BY <1>3, <2>1, Flattened DEF flat
<1> HIDE DEF flat
<1>5. \A k \in DOMAIN rows : \A l \in DOMAIN rows[k].of[t] : rows[k].of[t][l] \in List!ToSet(flat)
  <2> TAKE k \in DOMAIN rows
  <2> TAKE l \in DOMAIN rows[k].of[t]
  <2>1. k \in 1..Len(q) /\ l \in 1..Len(q[k]) /\ q[k][l] = rows[k].of[t][l]
    BY <1>1, <1>2, <1>3
  <2>2. PICK m \in 1..Len(flat) : flat[m] = q[k][l]
    BY <1>4, <2>1
  <2>3. DOMAIN flat = 1..Len(flat)
    BY <1>4
  <2>4. QED
    BY <2>1, <2>2, <2>3 DEF List!ToSet
<1>6. ids = IF t = "topMosts" THEN List!Kept(flat, Ids) ELSE flat
  BY DEF List!Collected, flat, q
<1> HIDE DEF ids
<1>7. /\ ids \in Seq(A)
      /\ \A x \in List!ToSet(flat) : x \in List!ToSet(ids) \/ (t = "topMosts" /\ x \notin Ids)
  <2>1. CASE t # "topMosts"
    BY <1>4, <1>6, <2>1
  <2>2. CASE t = "topMosts"
    <3>1. ids = List!Kept(flat, Ids)
      BY <1>6, <2>2
    <3>2. PICK e \in Seq(1..Len(flat)) :
            /\ List!Kept(flat, Ids) \in Seq(A) /\ Len(List!Kept(flat, Ids)) = Len(e)
            /\ \A j \in 1..Len(e) : List!Kept(flat, Ids)[j] = flat[e[j]]
            /\ \A k \in 1..Len(flat) : flat[k] \in Ids => \E j \in 1..Len(e) : e[j] = k
      <4>1. Together(A, flat, Ids, A, flat, Ids)
        BY <1>4, KeptTogether
      <4>2. QED
        BY <4>1 DEF Together
    <3>3. ASSUME NEW k \in 1..Len(flat), flat[k] \in Ids PROVE flat[k] \in List!ToSet(ids)
      <4>1. PICK j \in 1..Len(e) : e[j] = k
        BY <3>2, <3>3
      <4>2. j \in DOMAIN ids /\ ids[j] = flat[k]
        BY <3>1, <3>2, <4>1
      <4>3. QED
        BY <4>2 DEF List!ToSet
    <3>4. DOMAIN flat = 1..Len(flat)
      BY <1>4
    <3>5. \A x \in List!ToSet(flat) : x \in List!ToSet(ids) \/ x \notin Ids
      BY <3>3, <3>4 DEF List!ToSet
    <3>6. QED
      BY <2>2, <3>1, <3>2, <3>5
  <2>3. QED
    BY <2>1, <2>2
<1>8. List!ToSet(ids) \subseteq A
  <2>1. \A j \in DOMAIN ids : ids[j] \in A
    BY <1>7
  <2>2. QED
    BY <2>1 DEF List!ToSet
<1>9. List!ToSet(ids) \subseteq Ids
  BY <1>8 DEF A, ids
<1>10. List!ToSet(flat) \subseteq A
  <2>1. \A j \in DOMAIN flat : flat[j] \in A
    BY <1>4
  <2>2. QED
    BY <2>1 DEF List!ToSet
<1>11. QED
  BY <1>5, <1>7, <1>9, <1>10 DEF A, ids

\* A limit of as many as were collected is none.
LEMMA LookupsAll ==
  ASSUME ListType, NEW t \in List!Tables, NEW s \in Seq(Ids \cup {Malformed}),
         List!ToSet(s) \subseteq Ids, NEW map \in List!Lookups(t, s, Len(s))
  PROVE  /\ map \in Maps
         /\ DOMAIN map = {i \in List!ToSet(s) : things[t][i] # NoName}
         /\ \A i \in DOMAIN map : map[i] = things[t][i]
<1> DEFINE there == {i \in List!ToSet(s) : things[t][i] # NoName}
           count == List!Cardinality(there)
           limit == List!Min({Len(s), count})
<1>1. PICK S \in List!kSubset(limit, there) : map = [i \in S |-> things[t][i]]
  BY DEF List!Lookups
<1>2. count = Cardinality(there)
  BY Zenon DEF Cardinality, List!Cardinality
<1>3. IsFiniteSet(there) /\ count \in Nat /\ count <= Len(s)
  <2>1. /\ IsFiniteSet(List!ToSet(s)) /\ Cardinality(List!ToSet(s)) \in Nat
        /\ Cardinality(List!ToSet(s)) <= Len(s)
    BY FewElements
  <2>2. there \subseteq List!ToSet(s)
    OBVIOUS
  <2> HIDE DEF there
  <2>3. IsFiniteSet(there) /\ Cardinality(there) <= Cardinality(List!ToSet(s))
    BY <2>1, <2>2, FS_Subset
  <2>4. Cardinality(there) \in Nat
    BY <2>3, FS_CardinalityType
  <2> HIDE DEF count
  <2>5. QED
    BY <1>2, <2>1, <2>3, <2>4
<1>4. limit = count
  <2> HIDE DEF count, there
  <2>1. Len(s) \in Nat
    OBVIOUS
  <2>2. \E x \in {Len(s), count} : \A y \in {Len(s), count} : x =< y
    BY <1>3, <2>1
  <2>3. limit \in {Len(s), count} /\ \A y \in {Len(s), count} : limit =< y
    BY <2>2 DEF List!Min
  <2>4. QED
    BY <1>3, <2>1, <2>3
<1>5. S \subseteq there /\ Cardinality(S) = Cardinality(there)
  <2>1. S \subseteq there /\ List!Cardinality(S) = limit
    BY <1>1 DEF List!kSubset
  <2>2. List!Cardinality(S) = Cardinality(S)
    BY Zenon DEF Cardinality, List!Cardinality
  <2> HIDE DEF count, there, limit
  <2>3. QED
    BY <1>2, <1>4, <2>1, <2>2
<1>6. S = there
  <2> HIDE DEF there
  <2>1. QED
    BY <1>3, <1>5, FS_Subset
<1>7. map = [i \in there |-> things[t][i]]
  BY <1>1, <1>6
<1>8. map \in [there -> Names] /\ there \subseteq Ids
  <2>1. \A i \in there : i \in Ids /\ things[t][i] \in Names
    BY DEF ListType
  <2> HIDE DEF there
  <2>2. QED
    BY <1>7, <2>1
<1>9. map \in Maps
  BY <1>8, MapFacts
<1>10. QED
  BY <1>7, <1>9

LEMMA JoinStep ==
  ASSUME ListType, ListInv, List!Join
  PROVE  (ListType /\ ListInv)'
<1>1. /\ listPc = "joining" /\ at <= Len(List!Joins) /\ at' = at + 1
      /\ UNCHANGED <<things, since, changes, query, listPc, rows, answer>>
  BY DEF List!Join
<1>2. List!Joins \in Seq(List!Tables) /\ List!Joins' = List!Joins
  BY <1>1, JoinsAre DEF List!Joins, ListType
<1>3. at \in 1..Len(List!Joins) /\ List!Joins[at] \in List!Tables /\ rows # <<>>
  BY <1>1, <1>2 DEF ListType, ListInv
<1> PICK t \in List!Tables : t = List!Joins[at]
  BY <1>3
<1> DEFINE s == List!Collected(t)
<1>4. Malformed \notin List!ToSet(s)
  BY DEF List!Join
<1>5. PICK map \in List!Lookups(t, s, Len(s)) : found' = [found EXCEPT ![t] = map]
  BY DEF List!Join
<1>6. /\ s \in Seq(Ids \cup {Malformed}) /\ List!ToSet(s) \subseteq Ids
      /\ \A k \in DOMAIN rows : \A l \in DOMAIN rows[k].of[t] :
            \/ rows[k].of[t][l] \in List!ToSet(s)
            \/ t = "topMosts" /\ rows[k].of[t][l] = Malformed
  BY <1>3, <1>4, CollectedAll
<1> HIDE DEF s
<1>7. /\ map \in Maps
      /\ DOMAIN map = {i \in List!ToSet(s) : things[t][i] # NoName}
      /\ \A i \in DOMAIN map : map[i] = things[t][i]
  BY <1>3, <1>5, <1>6, LookupsAll
<1>8. found' \in [List!Tables -> Maps] /\ found'[t] = map
      /\ \A u \in List!Tables : u # t => found'[u] = found[u]
  BY <1>3, <1>5, <1>7 DEF ListType
<1>9. ListType'
  BY <1>1, <1>8 DEF ListType
<1>10. \A i \in Ids : things[t][i] \in since[t][i]
  BY <1>1, <1>3 DEF ListInv
<1>11. Looked(t)'
  <2>1. ASSUME NEW i \in DOMAIN map PROVE map[i] \in since[t][i]
    BY <1>6, <1>7, <1>10
  <2>2. ASSUME NEW k \in DOMAIN rows, NEW l \in DOMAIN rows[k].of[t]
        PROVE  /\ t # "topMosts" => rows[k].of[t][l] \in Ids
               /\ \/ rows[k].of[t][l] \in DOMAIN map
                  \/ rows[k].of[t][l] = Malformed
                  \/ NoName \in since[t][rows[k].of[t][l]]
    <3> DEFINE i == rows[k].of[t][l]
    <3>1. i \in List!ToSet(s) \/ (t = "topMosts" /\ i = Malformed)
      BY <1>6
    <3> HIDE DEF i
    <3>2. i \in List!ToSet(s) => i \in Ids /\ (i \notin DOMAIN map => NoName \in since[t][i])
      BY <1>6, <1>7, <1>10
    <3>3. (t # "topMosts" => i \in Ids)
          /\ (i \in DOMAIN map \/ i = Malformed \/ NoName \in since[t][i])
      BY <3>1, <3>2
    <3>4. QED
      BY <3>3 DEF i
  <2>3. QED
    BY <1>1, <1>8, <2>1, <2>2 DEF Looked, List!WasGone
<1>12. ASSUME NEW u \in List!Tables, u # t, Looked(u) PROVE Looked(u)'
  BY <1>1, <1>8, <1>12 DEF Looked, List!WasGone
<1>13. ASSUME NEW u \in List!Tables, u # t, LookedBefore(u)' PROVE LookedBefore(u)
  <2>1. PICK j \in DOMAIN List!Joins : j < at + 1 /\ List!Joins[j] = u
    BY <1>1, <1>2, <1>13 DEF LookedBefore
  <2>2. j # at
    BY <1>13, <2>1
  <2>3. j \in 1..Len(List!Joins) /\ at \in Nat
    BY <1>2, <1>3
  <2>4. j < at
    BY <2>1, <2>2, <2>3
  <2>5. QED
    BY <2>1, <2>4 DEF LookedBefore
<1>14. ASSUME NEW u \in List!Tables, LookedBefore(u)' PROVE Looked(u)'
  <2>1. CASE u = t
    BY <1>11, <2>1
  <2>2. CASE u # t
    <3>1. Looked(u)
      BY <1>1, <1>13, <1>14, <2>2 DEF ListInv
    <3>2. QED
      BY <1>12, <2>2, <3>1
  <2>3. QED
    BY <2>1, <2>2
<1>15. ListInv'
  <2>1. \A v \in List!Tables : \A i \in Ids : things'[v][i] \in since'[v][i]
    BY <1>1 DEF ListInv
  <2>2. QED
    BY <1>1, <1>3, <1>14, <2>1 DEF ListInv
<1>16. QED
  BY <1>9, <1>15

\* What is gone stays so, and a name once had was had.
LEMMA ChangeStep ==
  ASSUME ListType, ListInv, List!Change
  PROVE  (ListType /\ ListInv)'
<1>1. PICK t \in List!Tables, i \in Ids, name \in Names \cup {NoName} :
         /\ things' = [things EXCEPT ![t][i] = name]
         /\ since' = [since EXCEPT ![t][i] = @ \cup {name}]
  BY DEF List!Change
<1>2. listPc \in {"asking", "joining"} /\ UNCHANGED <<query, listPc, rows, at, found, answer>>
  BY DEF List!Change
<1>3. /\ things' \in [List!Tables -> [Ids -> Names \cup {NoName}]]
      /\ since' \in [List!Tables -> [Ids -> SUBSET (Names \cup {NoName})]]
  BY <1>1 DEF ListType
<1>4. ListType'
  BY <1>2, <1>3 DEF ListType
<1>5. ASSUME NEW u \in List!Tables, NEW j \in Ids
      PROVE  since[u][j] \subseteq since'[u][j] /\ things'[u][j] \in since'[u][j]
  <2>1. things[u][j] \in since[u][j]
    BY <1>2 DEF ListInv
  <2>2. CASE u = t /\ j = i
    BY <1>1, <2>2 DEF ListType
  <2>3. CASE u = t /\ j # i
    <3>1. things'[u][j] = things[u][j] /\ since'[u][j] = since[u][j]
      BY <1>1, <2>3 DEF ListType
    <3>2. QED
      BY <2>1, <3>1
  <2>4. CASE u # t
    <3>1. things'[u][j] = things[u][j] /\ since'[u][j] = since[u][j]
      BY <1>1, <2>4 DEF ListType
    <3>2. QED
      BY <2>1, <3>1
  <2>5. QED
    BY <2>2, <2>3, <2>4
<1>6. ASSUME NEW u \in List!Tables, Looked(u) PROVE Looked(u)'
  <2>1. DOMAIN found[u] \subseteq Ids
    BY MapFacts DEF ListType
  <2>2. \A j \in DOMAIN found[u] : found[u][j] \in since'[u][j]
    BY <1>5, <1>6, <2>1 DEF Looked
  <2>3. ASSUME NEW k \in DOMAIN rows, NEW l \in DOMAIN rows[k].of[u]
        PROVE  rows[k].of[u][l] \in Ids \cup {Malformed}
    <3>1. rows[k] \in PageRow
      BY DEF ListType
    <3>2. rows[k].of[u] \in Seq(Ids \cup {Malformed})
      BY <3>1 DEF PageRow
    <3>3. QED
      BY <3>2
  <2>4. ASSUME NEW j \in Ids \cup {Malformed}, List!WasGone(u, j)
        PROVE  j = Malformed \/ NoName \in since'[u][j]
    BY <1>5, <2>4 DEF List!WasGone
  <2>5. QED
    BY <1>2, <1>6, <2>2, <2>3, <2>4 DEF Looked, List!WasGone
<1>7. \A u \in List!Tables : LookedBefore(u)' => LookedBefore(u)
  BY <1>2 DEF LookedBefore, List!Joins
<1>8. ListInv'
  <2>1. \A u \in List!Tables : \A j \in Ids : things'[u][j] \in since'[u][j]
    BY <1>5
  <2>2. listPc' = "asking" => at' = 1 /\ answer' = <<>>
    BY <1>2 DEF ListInv
  <2>3. listPc' = "joining" =>
           rows' # <<>> /\ \A u \in List!Tables : LookedBefore(u)' => Looked(u)'
    BY <1>2, <1>6, <1>7 DEF ListInv
  <2>4. QED
    BY <1>2, <2>1, <2>2, <2>3 DEF ListInv
<1>9. QED
  BY <1>4, <1>8

LEMMA FormalizeStep ==
  ASSUME ListType, ListInv, List!Formalize
  PROVE  (ListType /\ ListInv)'
<1>1. /\ listPc = "joining" /\ at > Len(List!Joins) /\ listPc' = "answered" /\ answer' = Formal
      /\ UNCHANGED <<things, since, changes, query, rows, at, found>>
  BY DEF List!Formalize, Formal
<1>2. ListType'
  BY <1>1 DEF ListType
<1>3. Formal' = Formal /\ List!Joined' = List!Joined
  <2>1. UNCHANGED <<query, rows, found>>
    BY <1>1
  <2>2. QED
    BY <2>1 DEF Formal, List!Shown, List!Info, List!Entries, List!NameOf, List!Joined, List!Joins
<1>4. ASSUME NEW t \in List!Joined PROVE t \in List!Tables /\ LookedBefore(t)
  <2>1. List!Joins \in Seq(List!Tables)
    BY JoinsAre DEF List!Joins, ListType
  <2>2. PICK j \in DOMAIN List!Joins : List!Joins[j] = t
    BY DEF List!Joined, List!ToSet
  <2>3. t \in List!Tables /\ j < at
    BY <1>1, <2>1, <2>2 DEF ListType
  <2>4. QED
    BY <2>2, <2>3 DEF LookedBefore
<1>5. \A t \in List!Joined : Looked(t)'
  <2>1. \A t \in List!Joined : Looked(t)
    BY <1>1, <1>4 DEF ListInv
  <2>2. \A t : Looked(t) => Looked(t)'
    BY <1>1 DEF Looked, List!WasGone
  <2>3. QED
    BY <2>1, <2>2
<1>6. ListInv'
  BY <1>1, <1>3, <1>5 DEF ListInv
<1>7. QED
  BY <1>2, <1>6

LEMMA ListStep ==
  ASSUME ListType, ListInv, [NextOne]_<<vars, loopVars, listVars>>
  PROVE  (ListType /\ ListInv)'
<1>1. CASE UNCHANGED listVars
  BY <1>1, ListIdle DEF listVars
<1>2. CASE List!ReadRows
  BY <1>2, ReadRowsStep
<1>3. CASE List!Join
  BY <1>3, JoinStep
<1>4. CASE List!RefuseRow \/ List!ServiceFails
  BY <1>4, ListIdle DEF List!RefuseRow, List!ServiceFails
<1>5. CASE List!Formalize
  BY <1>5, FormalizeStep
<1>6. CASE List!Change
  BY <1>6, ChangeStep
<1>7. QED
  BY <1>1, <1>2, <1>3, <1>4, <1>5, <1>6 DEF NextOne, listVars, List!Next, List!Handle

LEMMA ListInvariant == SpecOne => [](ListType /\ ListInv)
<1>1. InitOne => ListType /\ ListInv
  BY ListInit DEF InitOne
<1>2. ListType /\ ListInv /\ [NextOne]_<<vars, loopVars, listVars>> => (ListType /\ ListInv)'
  BY ListStep
<1>3. QED
  BY <1>1, <1>2, PTL DEF SpecOne

\* What is shown of a row fits it, if its tables were looked up.
LEMMA InfoFits ==
  ASSUME ListType, \A t \in List!Joined : Looked(t), NEW k \in DOMAIN rows
  PROVE  List!Fits(List!Info(rows[k]), rows[k])
<1> DEFINE A == Ids \cup {Malformed}
           info == List!Info(rows[k])
<1>1. ASSUME NEW t \in List!Joined
      PROVE  LET shown == [m \in DOMAIN info.of[t] |-> info.of[t][m].id]
             IN /\ shown = List!Kept(rows[k].of[t], List!ToSet(shown))
                /\ \A i \in List!ToSet(rows[k].of[t]) \ List!ToSet(shown) : List!WasGone(t, i)
                /\ \A m \in DOMAIN info.of[t] :
                      LET entry == info.of[t][m]
                      IN IF entry.name = NoName THEN List!WasGone(t, entry.id)
                         ELSE entry.name \in since[t][entry.id]
  <2> DEFINE ids == rows[k].of[t]
             kept == IF t \in List!Queries[query].entries
                     THEN List!Kept(ids, DOMAIN found[t]) ELSE ids
             shown == [m \in DOMAIN info.of[t] |-> info.of[t][m].id]
  <2>1. t \in List!Tables
    <3>1. List!Joins \in Seq(List!Tables)
      BY JoinsAre DEF List!Joins, ListType
    <3>2. QED
      BY <3>1 DEF List!Joined, List!ToSet
  <2>2. ids \in Seq(A) /\ DOMAIN ids = 1..Len(ids)
    <3>1. rows[k] \in PageRow
      BY DEF ListType
    <3>2. QED
      BY <2>1, <3>1 DEF PageRow
  <2>3. info.of[t] = [m \in DOMAIN kept |-> [id |-> kept[m], name |-> List!NameOf(t, kept[m])]]
    BY DEF List!Info, List!Entries
  <2> HIDE DEF info, A
  <2>4. /\ kept \in Seq(A) /\ kept = List!Kept(ids, List!ToSet(kept))
        /\ List!ToSet(kept) \subseteq List!ToSet(ids)
        /\ \A i \in List!ToSet(ids) \ List!ToSet(kept) : i \notin DOMAIN found[t]
    <3>1. CASE t \in List!Queries[query].entries
      <4>1. kept = List!Kept(ids, DOMAIN found[t])
        BY <3>1
      <4> HIDE DEF kept, ids
      <4>2. /\ kept \in Seq(A) /\ List!ToSet(kept) = List!ToSet(ids) \cap DOMAIN found[t]
            /\ List!Kept(ids, List!ToSet(kept)) = kept
        BY <2>2, <4>1, KeptSelf
      <4>3. QED
        BY <4>2
    <3>2. CASE t \notin List!Queries[query].entries
      <4>1. kept = ids
        BY <3>2
      <4> HIDE DEF kept, ids
      <4>2. List!Kept(ids, List!ToSet(ids)) = ids
        BY <2>2, KeptAll
      <4>3. QED
        BY <2>2, <4>1, <4>2
    <3>3. QED
      BY <3>1, <3>2
  <2>5. /\ DOMAIN info.of[t] = DOMAIN kept
        /\ \A m \in DOMAIN kept : /\ info.of[t][m].id = kept[m]
                                  /\ info.of[t][m].name = List!NameOf(t, kept[m])
    <3> HIDE DEF kept
    <3>1. QED
      BY <2>3
  <2>6. shown = kept
    <3> HIDE DEF kept
    <3>1. shown = [m \in DOMAIN kept |-> kept[m]]
      BY <2>5
    <3>2. QED
      BY <2>4, <3>1
  <2>7. \A i \in List!ToSet(ids) : i \in DOMAIN found[t] \/ List!WasGone(t, i)
    <3>1. \A l \in DOMAIN ids : ids[l] \in DOMAIN found[t] \/ List!WasGone(t, ids[l])
      BY DEF Looked
    <3> HIDE DEF ids
    <3>2. QED
      BY <3>1 DEF List!ToSet
  <2>8. ASSUME NEW m \in DOMAIN kept
        PROVE  /\ List!NameOf(t, kept[m]) = NoName => List!WasGone(t, kept[m])
               /\ List!NameOf(t, kept[m]) # NoName => List!NameOf(t, kept[m]) \in since[t][kept[m]]
    <3> HIDE DEF kept, ids
    <3>1. kept[m] \in List!ToSet(ids)
      BY <2>4 DEF List!ToSet
    <3>2. CASE kept[m] \in DOMAIN found[t]
      <4>1. List!NameOf(t, kept[m]) = found[t][kept[m]]
        BY <3>2 DEF List!NameOf
      <4>2. found[t][kept[m]] \in Names
        BY <2>1, <3>2, MapFacts DEF ListType
      <4>3. found[t][kept[m]] \in since[t][kept[m]]
        BY <3>2 DEF Looked
      <4>4. QED
        BY <4>1, <4>2, <4>3, ListingAssumption
    <3>3. CASE kept[m] \notin DOMAIN found[t]
      <4>1. List!NameOf(t, kept[m]) = NoName
        BY <3>3 DEF List!NameOf
      <4>2. QED
        BY <2>7, <3>1, <3>3, <4>1
    <3>4. QED
      BY <3>2, <3>3
  <2>9. \A i \in List!ToSet(ids) \ List!ToSet(kept) : List!WasGone(t, i)
    <3> HIDE DEF kept, ids
    <3>1. QED
      BY <2>4, <2>7
  <2>10. \A m \in DOMAIN info.of[t] :
            IF info.of[t][m].name = NoName THEN List!WasGone(t, info.of[t][m].id)
            ELSE info.of[t][m].name \in since[t][info.of[t][m].id]
    <3> HIDE DEF kept, ids
    <3>1. QED
      BY <2>5, <2>8
  <2>11. shown = List!Kept(ids, List!ToSet(shown))
    <3> HIDE DEF kept, ids, shown
    <3>1. QED
      BY <2>4, <2>6
  <2>12. \A i \in List!ToSet(ids) \ List!ToSet(shown) : List!WasGone(t, i)
    <3> HIDE DEF kept, ids, shown
    <3>1. QED
      BY <2>6, <2>9
  <2>13. QED
    BY <2>10, <2>11, <2>12
<1> HIDE DEF info
<1>2. List!Fits(info, rows[k])
  BY <1>1, Zenon DEF List!Fits
<1>3. QED
  BY <1>2 DEF info

OfItsTime ==
    LET ids == [k \in DOMAIN answer |-> answer[k].id]
    IN /\ ids = List!Kept([k \in DOMAIN rows |-> rows[k].id], List!ToSet(ids))
       /\ \A row \in List!ToSet(rows) :
             \/ \E k \in DOMAIN answer : answer[k].id = row.id /\ List!Fits(answer[k], row)
             \/ /\ row.id \notin List!ToSet(ids)
                /\ \E t \in List!Queries[query].needs, i \in Ids :
                      i \in List!ToSet(row.of[t]) /\ List!WasGone(t, i)

\* A page without rows is answered with none.
LEMMA NoneFits ==
  ASSUME rows = <<>>, answer = <<>>
  PROVE  OfItsTime
<1> DEFINE none == [k \in DOMAIN rows |-> rows[k].id]
           ids == [k \in DOMAIN answer |-> answer[k].id]
<1>1. none = <<>> /\ ids = <<>> /\ <<>> \in Seq({}) /\ Len(<<>>) = 0
  OBVIOUS
<1> HIDE DEF none, ids
<1>2. List!Kept(none, List!ToSet(ids)) = ids
  <2>1. none \in Seq({}) /\ List!ToSet(none) = {} /\ List!ToSet(ids) = {}
    BY <1>1 DEF List!ToSet
  <2>2. List!Kept(none, List!ToSet(none)) = none
    BY <2>1, KeptAll
  <2>3. QED
    BY <1>1, <2>1, <2>2
<1>3. List!ToSet(rows) = {}
  BY DEF List!ToSet
<1>4. QED
  BY <1>2, <1>3 DEF OfItsTime, none, ids

LEMMA FormalFits ==
  ASSUME ListType, \A t \in List!Joined : Looked(t), answer = Formal
  PROVE  OfItsTime
<1> DEFINE S == {row \in List!ToSet(rows) : List!Shown(row)}
           shown == List!Kept(rows, S)
           ids == [k \in DOMAIN answer |-> answer[k].id]
           names == [k \in DOMAIN rows |-> rows[k].id]
           U == List!ToSet(ids)
           kept == List!Kept(names, U)
<1>1. /\ rows \in Seq(PageRow) /\ DOMAIN rows = 1..Len(rows)
      /\ \A k \in DOMAIN rows : rows[k] \in PageRow /\ rows[k].id \in Nat
  <2>1. rows \in Seq(PageRow)
    BY DEF ListType
  <2>2. DOMAIN rows = 1..Len(rows) /\ \A k \in DOMAIN rows : rows[k] \in PageRow
    BY <2>1
  <2>3. \A row \in PageRow : row.id \in Nat
    BY DEF PageRow
  <2>4. QED
    BY <2>1, <2>2, <2>3
<1>2. answer = [k \in DOMAIN shown |-> List!Info(shown[k])]
  BY DEF Formal
<1>3. shown \in Seq(PageRow) /\ List!ToSet(shown) = List!ToSet(rows) \cap S
  <2> HIDE DEF S
  <2>1. QED
    BY <1>1, KeptSelf
<1>4. \A row : List!Info(row).id = row.id
  BY DEF List!Info
<1>5. /\ DOMAIN answer = DOMAIN shown /\ DOMAIN shown = 1..Len(shown)
      /\ \A k \in DOMAIN shown : /\ answer[k] = List!Info(shown[k])
                                 /\ shown[k] \in PageRow /\ shown[k].id \in Nat
  <2> HIDE DEF shown
  <2>1. \A k \in DOMAIN shown : shown[k] \in PageRow
    BY <1>3
  <2>2. QED
    BY <1>2, <1>3, <2>1 DEF PageRow
<1>6. ids \in Seq(Nat) /\ Len(ids) = Len(shown) /\ \A k \in 1..Len(shown) : ids[k] = shown[k].id
  <2> HIDE DEF shown
  <2>1. ids = [k \in 1..Len(shown) |-> shown[k].id]
    BY <1>4, <1>5
  <2>2. Len(shown) \in Nat
    BY <1>3
  <2> HIDE DEF ids
  <2>3. QED
    BY <1>5, <2>1, <2>2
<1>7. names \in Seq(Nat) /\ Len(names) = Len(rows) /\ \A k \in 1..Len(rows) : names[k] = rows[k].id
  BY <1>1
\* An ID is answered if its row is shown.
<1>8. \A k \in 1..Len(rows) : rows[k] \in S <=> names[k] \in U
  <2> TAKE k \in 1..Len(rows)
  <2>1. rows[k] \in List!ToSet(rows)
    BY <1>1 DEF List!ToSet
  <2>2. ASSUME rows[k] \in S PROVE names[k] \in U
    <3> HIDE DEF S, ids, names
    <3>1. rows[k] \in List!ToSet(shown)
      BY <1>3, <2>1, <2>2
    <3> HIDE DEF shown
    <3>2. PICK j \in DOMAIN shown : shown[j] = rows[k]
      BY <3>1 DEF List!ToSet
    <3>3. j \in DOMAIN ids /\ ids[j] = names[k]
      BY <1>5, <1>6, <1>7, <3>2
    <3>4. QED
      BY <3>3 DEF List!ToSet
  <2>3. ASSUME names[k] \in U PROVE rows[k] \in S
    <3> HIDE DEF S, ids, names
    <3>1. PICK j \in DOMAIN ids : ids[j] = names[k]
      BY <2>3 DEF List!ToSet
    <3>2. j \in 1..Len(shown) /\ shown[j].id = rows[k].id
      BY <1>6, <1>7, <3>1
    <3>3. shown[j] \in List!ToSet(rows) /\ shown[j] \in S
      BY <1>3, <1>5, <3>2 DEF List!ToSet
    <3>4. PICK m \in DOMAIN rows : rows[m] = shown[j]
      BY <3>3 DEF List!ToSet
    <3>5. m = k
      BY <1>1, <3>2, <3>4 DEF ListType
    <3>6. QED
      BY <3>3, <3>4, <3>5
  <2>4. QED
    BY <2>2, <2>3
<1>9. ids = kept
  <2> HIDE DEF S, ids, names, U
  <2>1. Together(PageRow, rows, S, Nat, names, U)
    BY <1>1, <1>7, <1>8, KeptTogether
  <2>2. PICK e \in Seq(1..Len(rows)) :
           /\ kept \in Seq(Nat) /\ Len(shown) = Len(e) /\ Len(kept) = Len(e)
           /\ \A j \in 1..Len(e) : shown[j] = rows[e[j]] /\ kept[j] = names[e[j]]
    BY <2>1 DEF Together
  <2> HIDE DEF shown, kept
  <2>3. \A j \in 1..Len(e) : kept[j] = ids[j]
    <3> TAKE j \in 1..Len(e)
    <3>1. e[j] \in 1..Len(rows)
      OBVIOUS
    <3>2. names[e[j]] = rows[e[j]].id /\ ids[j] = shown[j].id
      BY <1>6, <1>7, <2>2, <3>1
    <3>3. QED
      BY <2>2, <3>2
  <2>4. QED
    BY <1>6, <2>2, <2>3, SameSequence
<1>10. ASSUME NEW k \in 1..Len(rows)
       PROVE  \/ \E j \in DOMAIN answer : answer[j].id = rows[k].id /\ List!Fits(answer[j], rows[k])
              \/ /\ rows[k].id \notin U
                 /\ \E t \in List!Queries[query].needs, i \in Ids :
                       i \in List!ToSet(rows[k].of[t]) /\ List!WasGone(t, i)
  <2>1. rows[k] \in List!ToSet(rows)
    BY <1>1 DEF List!ToSet
  <2>2. CASE rows[k] \in S
    <3> HIDE DEF S
    <3>1. rows[k] \in List!ToSet(shown)
      BY <1>3, <2>1, <2>2
    <3> HIDE DEF shown
    <3>2. PICK j \in DOMAIN shown : shown[j] = rows[k]
      BY <3>1 DEF List!ToSet
    <3>3. j \in DOMAIN answer /\ answer[j] = List!Info(rows[k])
      BY <1>5, <3>2
    <3>4. List!Fits(List!Info(rows[k]), rows[k])
      BY <1>1, InfoFits
    <3>5. QED
      BY <1>4, <3>3, <3>4
  <2>3. CASE rows[k] \notin S
    <3>1. ~List!Shown(rows[k])
      BY <2>1, <2>3
    <3> PICK t \in List!Queries[query].needs : ~(List!ToSet(rows[k].of[t]) \subseteq DOMAIN found[t])
      BY <3>1 DEF List!Shown
    <3>2. PICK i \in List!ToSet(rows[k].of[t]) : i \notin DOMAIN found[t]
      OBVIOUS
    <3>3. PICK l \in DOMAIN rows[k].of[t] : rows[k].of[t][l] = i
      BY <3>2 DEF List!ToSet
    <3>4. t # "topMosts" /\ Looked(t)
      BY JoinsAre DEF ListType, List!Joined, List!Joins
    <3>5. i \in Ids /\ List!WasGone(t, i)
      BY <1>1, <3>2, <3>3, <3>4 DEF Looked
    <3>6. names[k] \notin U
      <4> HIDE DEF S, names, U
      <4>1. QED
        BY <1>8, <2>3
    <3>7. rows[k].id \notin U
      <4> HIDE DEF U, names
      <4>1. QED
        BY <1>7, <3>6
    <3>8. QED
      BY <3>2, <3>5, <3>7
  <2>4. QED
    BY <2>2, <2>3
<1>11. \A row \in List!ToSet(rows) : \E k \in 1..Len(rows) : rows[k] = row
  BY <1>1 DEF List!ToSet
<1>12. QED
  <2>1. \A row \in List!ToSet(rows) :
           \/ \E k \in DOMAIN answer : answer[k].id = row.id /\ List!Fits(answer[k], row)
           \/ /\ row.id \notin U
              /\ \E t \in List!Queries[query].needs, i \in Ids :
                    i \in List!ToSet(row.of[t]) /\ List!WasGone(t, i)
    <3> HIDE DEF U
    <3>1. QED
      BY <1>10, <1>11
  <2>2. QED
    BY <1>9, <2>1, Zenon DEF OfItsTime

\* Whatever is renamed or deleted between the calls of a query, its answer has
\* the rows of the page in their order, each with things of its own, by names
\* they had meanwhile, and misses only what was gone by then (formalize).
THEOREM AnswersInTime == SpecOne => []AnswerIsOfItsTime
<1>1. ListType /\ ListInv => AnswerIsOfItsTime
  <2> SUFFICES ASSUME ListType, ListInv, listPc = "answered" PROVE OfItsTime
    BY DEF AnswerIsOfItsTime, List!AnswerIsOfItsTime, OfItsTime
  <2>1. CASE rows = <<>> /\ answer = <<>>
    BY <2>1, NoneFits
  <2>2. CASE answer = Formal /\ \A t \in List!Joined : Looked(t)
    BY <2>2, FormalFits
  <2>3. QED
    BY <2>1, <2>2 DEF ListInv
<1>2. QED
  BY <1>1, ListInvariant, PTL

=============================================================================
