------------------------------- MODULE Listing -------------------------------
(***************************************************************************)
(* How orders and what belongs to them are answered: a page of rows from   *)
(* order-middleware, then one call per table for the things the rows name, *)
(* then formalize, which puts the names beside the rows.                   *)
(*                                                                         *)
(* Each call is made for all rows at once and limited to as many records   *)
(* as identifiers were collected, repetitions included.  Between the calls *)
(* things are renamed and deleted.  A query of one row is the same with a  *)
(* page of one.                                                            *)
(***************************************************************************)
EXTENDS Naturals, SequencesExt, FiniteSetsExt

CONSTANTS
    Ids,         \* of things, in each table
    Malformed,   \* what is in a row where no identifier is: not a UUID
    Names,       \* what a thing can be called; all its columns that are shown
    NoName,      \* of a thing that is not there
    Initially,   \* what things are called when a query begins
    Pages,       \* the pages each query can be answered with
    MaxChanges   \* bound: things renamed or deleted during a query

Tables == {"apps", "users", "appGoods", "appPowerRentals", "appFees", "topMosts", "coins",
           "paymentAccounts", "allocatedCoupons"}

\* The joins in their order; the tables without a record of which an entry, or
\* the row, is left out.
PowerRentals ==
    [joins |-> <<"apps", "users", "appPowerRentals", "appFees", "topMosts", "coins",
                 "paymentAccounts", "allocatedCoupons">>,
     entries |-> {"appFees"}, needs |-> {}]
Fees ==
    [joins |-> <<"apps", "users", "appGoods", "appFees", "topMosts", "coins",
                 "paymentAccounts", "allocatedCoupons">>,
     entries |-> {}, needs |-> {}]
Orders == [joins |-> <<"users", "appGoods">>, entries |-> {}, needs |-> {}]
OrderCoupons ==
    [joins |-> <<"apps", "users", "appGoods", "allocatedCoupons">>, entries |-> {}, needs |-> {}]
Records ==   \* compensations and out-of-gas records
    [joins |-> <<"apps", "users", "appGoods">>, entries |-> {},
     needs |-> {"apps", "users", "appGoods"}]

Queries == [powerRentals |-> PowerRentals, fees |-> Fees, orders |-> Orders,
            orderCoupons |-> OrderCoupons, records |-> Records]

VARIABLES
    things,   \* what the other services have
    since,    \* history: what each has been called since the query began
    changes,  \* history: how often anything changed
    query,
    pc,
    rows,     \* the page that was read
    at,       \* the join that comes next
    found,    \* the maps of the handler
    answer

vars == <<things, since, changes, query, pc, rows, at, found, answer>>

Joins == Queries[query].joins
Joined == ToSet(Joins)

Init ==
    /\ things = Initially
    /\ since = [t \in Tables |-> [i \in Ids |-> {things[t][i]}]]
    /\ changes = 0
    /\ query \in DOMAIN Queries
    /\ pc = "asking"
    /\ rows = <<>>
    /\ at = 1
    /\ found = [t \in Tables |-> <<>>]
    /\ answer = <<>>

\* GetPowerRentalOrders and its like.
ReadRows ==
    /\ pc = "asking"
    /\ rows' \in Pages[query]
    /\ pc' = IF rows' = <<>> THEN "answered" ELSE "joining"
    /\ UNCHANGED <<things, since, changes, query, at, found, answer>>

\* The elements of s that are in S, in their order: a loop that appends them.
Kept(s, S) ==
    LET kept[n \in 0..Len(s)] ==
            IF n = 0 THEN <<>> ELSE IF s[n] \in S THEN Append(kept[n - 1], s[n]) ELSE kept[n - 1]
    IN kept[Len(s)]

\* What getX collects for a table, row by row; a promotion that is none is
\* left out.
Collected(t) ==
    LET ids == FlattenSeq([k \in DOMAIN rows |-> rows[k].of[t]])
    IN IF t = "topMosts" THEN Kept(ids, Ids) ELSE ids

\* At most limit of the things with these identifiers.
Lookups(t, ids, limit) ==
    LET there == {i \in ToSet(ids) : things[t][i] # NoName}
        Found(S) == [i \in S |-> things[t][i]]
    IN {Found(S) : S \in kSubset(Min({limit, Cardinality(there)}), there)}

\* Slip: as many as there are rows, although a row names several.
Join_AsManyAsRows ==
    /\ pc = "joining" /\ at <= Len(Joins)
    /\ LET t == Joins[at] ids == Collected(t)
       IN /\ Malformed \notin ToSet(ids)
          /\ \E map \in Lookups(t, ids, Len(rows)) : found' = [found EXCEPT ![t] = map]
    /\ at' = at + 1
    /\ UNCHANGED <<things, since, changes, query, pc, rows, answer>>

\* GetApps, GetUsers, ...  If no row names anything the limit is 0; what comes
\* back then is not looked up.
Join ==
    /\ pc = "joining" /\ at <= Len(Joins)
    /\ LET t == Joins[at] ids == Collected(t)
       IN /\ Malformed \notin ToSet(ids)
          /\ \E map \in Lookups(t, ids, Len(ids)) : found' = [found EXCEPT ![t] = map]
    /\ at' = at + 1
    /\ UNCHANGED <<things, since, changes, query, pc, rows, answer>>

\* One row with something that is no identifier, and no row is answered.
RefuseRow ==
    /\ pc = "joining" /\ at <= Len(Joins)
    /\ Malformed \in ToSet(Collected(Joins[at]))
    /\ pc' = "refused"
    /\ UNCHANGED <<things, since, changes, query, rows, at, found, answer>>

ServiceFails ==
    /\ pc = "asking" \/ (pc = "joining" /\ at <= Len(Joins))
    /\ pc' = "failed"
    /\ UNCHANGED <<things, since, changes, query, rows, at, found, answer>>

\* formalize.
NameOf(t, i) == IF i \in DOMAIN found[t] THEN found[t][i] ELSE NoName
Entries(t, ids) ==
    LET kept == IF t \in Queries[query].entries THEN Kept(ids, DOMAIN found[t]) ELSE ids
    IN [k \in DOMAIN kept |-> [id |-> kept[k], name |-> NameOf(t, kept[k])]]
Info(row) == [id |-> row.id, of |-> [t \in Joined |-> Entries(t, row.of[t])]]
Shown(row) == \A t \in Queries[query].needs : ToSet(row.of[t]) \subseteq DOMAIN found[t]

Formalize ==
    /\ pc = "joining" /\ at > Len(Joins)
    /\ answer' = LET shown == Kept(rows, {row \in ToSet(rows) : Shown(row)})
                 IN [k \in DOMAIN shown |-> Info(shown[k])]
    /\ pc' = "answered"
    /\ UNCHANGED <<things, since, changes, query, rows, at, found>>

-----------------------------------------------------------------------------
\* Others rename things and delete them.
Change ==
    /\ pc \in {"asking", "joining"} /\ changes < MaxChanges
    /\ \E t \in Tables, i \in Ids, name \in Names \cup {NoName} :
          /\ things[t][i] \notin {name, NoName}
          /\ things' = [things EXCEPT ![t][i] = name]
          /\ since' = [since EXCEPT ![t][i] = @ \cup {name}]
    /\ changes' = changes + 1
    /\ UNCHANGED <<query, pc, rows, at, found, answer>>

Handle == ReadRows \/ Join \/ RefuseRow \/ ServiceFails \/ Formalize
Next == Handle \/ Change

Spec == Init /\ [][Next]_vars

-----------------------------------------------------------------------------
\* A thing may be missing from the answer if it was, at some moment.
WasGone(t, i) == i = Malformed \/ NoName \in since[t][i]

\* The answer has for each row its own things, all of them, in their order, by
\* names they had while the query ran.
Fits(info, row) ==
    \A t \in Joined :
        LET shown == [k \in DOMAIN info.of[t] |-> info.of[t][k].id]
        IN /\ shown = Kept(row.of[t], ToSet(shown))
           /\ \A i \in ToSet(row.of[t]) \ ToSet(shown) : WasGone(t, i)
           /\ \A k \in DOMAIN info.of[t] :
                 LET entry == info.of[t][k]
                 IN IF entry.name = NoName THEN WasGone(t, entry.id)
                    ELSE entry.name \in since[t][entry.id]

\* Whatever is renamed or deleted between the calls, an answer has the rows of
\* the page in their order, each with things of its own and nobody else's, by
\* names they had during the query, and only misses what was gone by then.
AnswerIsOfItsTime ==
    pc = "answered" =>
        LET ids == [k \in DOMAIN answer |-> answer[k].id]
        IN /\ ids = Kept([k \in DOMAIN rows |-> rows[k].id], ToSet(ids))
           /\ \A row \in ToSet(rows) :
                 \/ \E k \in DOMAIN answer : answer[k].id = row.id /\ Fits(answer[k], row)
                 \/ /\ row.id \notin ToSet(ids)
                    /\ \E t \in Queries[query].needs, i \in Ids :
                          i \in ToSet(row.of[t]) /\ WasGone(t, i)

=============================================================================
