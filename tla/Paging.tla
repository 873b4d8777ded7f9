------------------------------- MODULE Paging -------------------------------
(***************************************************************************)
(* The loops that read a table of another service page by page: an offset  *)
(* advances by the limit until a page is empty.                            *)
(*                                                                         *)
(* Each page is a call of its own, and rows come and go between the calls: *)
(* commissions are booked while they are read to be locked, promotions and *)
(* required goods are changed by administrators.  A row that goes moves    *)
(* the rows behind it to the front, past the offset; one that comes moves  *)
(* them to the back, to be read again.                                     *)
(***************************************************************************)
EXTENDS Integers, SequencesExt

CONSTANTS
    Rows,        \* bound: the rows there ever are
    Main,        \* the good's main coin, when the rows are coins of a good
    Limit,       \* constant.DefaultRowLimit
    MaxRead      \* bound: rows read, beyond which a loop is held to be endless

VARIABLES
    table,     \* the rows there are, as the service orders them
    wantsMain, \* the caller needs a main row (getGoodCoins)
    pc,
    offset,
    read,      \* what was appended, page by page
    come,      \* history: rows that came since the loop began
    gone       \* history: rows that are gone since then

vars == <<table, wantsMain, pc, offset, read, come, gone>>

Init ==
    /\ table \in {s \in SeqOf(Rows, Cardinality(Rows)) : IsInjective(s)}
    /\ wantsMain \in BOOLEAN
    /\ pc = "reading"
    /\ offset = 0
    /\ read = <<>>
    /\ come = {} /\ gone = {}

Page == SubSeq(table, offset + 1, Min({offset + Limit, Len(table)}))

\* Slip: the last row of a page counts as the first of the next one.
ReadPage_Overlap ==
    /\ pc = "reading"
    /\ Page # <<>>
    /\ Len(read) <= MaxRead
    /\ read' = read \o Page
    /\ offset' = offset + Limit - 1
    /\ UNCHANGED <<table, wantsMain, pc, come, gone>>

\* Slip: a row is skipped between pages.
ReadPage_Skips ==
    /\ pc = "reading"
    /\ Page # <<>>
    /\ read' = read \o Page
    /\ offset' = offset + Limit + 1
    /\ UNCHANGED <<table, wantsMain, pc, come, gone>>

\* Slip: the offset stays.
ReadPage_NoOffset ==
    /\ pc = "reading"
    /\ Page # <<>>
    /\ Len(read) <= MaxRead
    /\ read' = read \o Page
    /\ UNCHANGED <<offset, table, wantsMain, pc, come, gone>>

\* One turn of the loop.
ReadPage ==
    /\ pc = "reading"
    /\ Page # <<>>
    /\ Len(read) <= MaxRead
    /\ read' = read \o Page
    /\ offset' = offset + Limit
    /\ UNCHANGED <<table, wantsMain, pc, come, gone>>

\* Its last one, and what getGoodCoins asks of what was found.
PageEmpty ==
    /\ pc = "reading"
    /\ Page = <<>>
    /\ pc' = IF wantsMain /\ ToSet(read) \cap Main = {} THEN "refused" ELSE "done"
    /\ UNCHANGED <<table, wantsMain, offset, read, come, gone>>

PageFails ==
    /\ pc = "reading"
    /\ pc' = "failed"
    /\ UNCHANGED <<table, wantsMain, offset, read, come, gone>>

-----------------------------------------------------------------------------
\* Others.  Where a row comes is for the service's order to say.
RowComes ==
    /\ pc = "reading"
    /\ \E row \in Rows \ (ToSet(table) \cup gone), i \in 1..Len(table) + 1 :
          /\ table' = InsertAt(table, i, row)
          /\ come' = come \cup {row}
    /\ UNCHANGED <<wantsMain, pc, offset, read, gone>>

RowGoes ==
    /\ pc = "reading"
    /\ \E i \in 1..Len(table) :
          /\ table' = RemoveAt(table, i)
          /\ gone' = gone \cup {table[i]}
    /\ UNCHANGED <<wantsMain, pc, offset, read, come>>

Loop == ReadPage \/ PageEmpty
World == RowComes \/ RowGoes
Next == Loop \/ PageFails \/ World

\* Calls are answered; nothing is assumed of those that fail.
Spec == Init /\ [][Next]_vars /\ WF_vars(Loop)

-----------------------------------------------------------------------------
Ended == pc \in {"done", "refused"}

\* The rows that were there all the while.
Stayed == ToSet(table) \ come

\* A loop misses no more rows that were there all the while than rows that were
\* removed under it: none, if none was.
MissesAtMostGone == Ended => Cardinality(Stayed \ ToSet(read)) <= Cardinality(gone)

\* It reads, and GetOrderCommissions then locks, no more rows twice than came
\* under it.
TwiceAtMostCome == Len(read) - Cardinality(ToSet(read)) <= Cardinality(come)

\* It ends, as long as no more than so many rows come.
LoopEnds == <>(pc # "reading")

=============================================================================
