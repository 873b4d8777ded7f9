------------------------------ MODULE Service -------------------------------
(***************************************************************************)
(* What the service does besides orders: its replicas come up (Migrator),  *)
(* or they are up (Up) and one of them reads another service page by page  *)
(* (Loop, an instance of Paging), or answers a list (List, an instance of  *)
(* Listing).  The three share no state: each behaviour is of one of them,  *)
(* the others stay as they are (NoLoop, NoList).                           *)
(***************************************************************************)
EXTENDS Migrator, Sequences

\* All replicas serve, and nothing else will happen to them.
Up ==
    /\ pc = [p \in Replicas |-> "serving"]
    /\ key = FALSE /\ lost = FALSE
    /\ faults = MaxFaults

-----------------------------------------------------------------------------
CONSTANTS Rows, Main, Limit, MaxRead

VARIABLES table, wantsMain, loopPc, offset, read, come, gone

loopVars == <<table, wantsMain, loopPc, offset, read, come, gone>>

Loop == INSTANCE Paging WITH pc <- loopPc

\* A page is not empty.
ASSUME PagingAssumption == IsFiniteSet(Rows) /\ Limit \in Nat \ {0} /\ MaxRead \in Nat

NoLoop ==
    /\ table = <<>> /\ wantsMain = FALSE
    /\ loopPc = "done" /\ offset = 0
    /\ read = <<>> /\ come = {} /\ gone = {}

-----------------------------------------------------------------------------
CONSTANTS Ids, Malformed, Names, NoName, Initially, Pages, MaxChanges

VARIABLES things, since, changes, query, listPc, rows, at, found, answer

listVars == <<things, since, changes, query, listPc, rows, at, found, answer>>

List == INSTANCE Listing WITH pc <- listPc

\* A row has an ID of its own and names things in every table; the middleware
\* answers a page that has no row twice.
PageRow == [id : Nat, of : [List!Tables -> Seq(Ids \cup {Malformed})]]

ASSUME ListingAssumption ==
    /\ Malformed \notin Ids /\ NoName \notin Names
    /\ Initially \in [List!Tables -> [Ids -> Names \cup {NoName}]]
    /\ \A q \in DOMAIN List!Queries : \A page \in Pages[q] :
          /\ page \in Seq(PageRow)
          /\ \A k, l \in DOMAIN page : page[k].id = page[l].id => k = l

NoList ==
    /\ things = Initially
    /\ since = [t \in List!Tables |-> [i \in Ids |-> {}]]
    /\ changes = 0
    /\ query = "orders" /\ listPc = "answered"
    /\ rows = <<>> /\ at = 1 /\ answer = <<>>
    /\ found = [t \in List!Tables |-> <<>>]

-----------------------------------------------------------------------------
InitOne ==
    \/ Init /\ NoLoop /\ NoList
    \/ Up /\ Loop!Init /\ NoList
    \/ Up /\ NoLoop /\ List!Init

NextOne ==
    \/ Next /\ UNCHANGED <<loopVars, listVars>>
    \/ Loop!Next /\ UNCHANGED <<vars, listVars>>
    \/ List!Next /\ UNCHANGED <<vars, loopVars>>

\* What Migrator and Paging assume.
FairnessOne == Fairness /\ WF_loopVars(Loop!Loop)

SpecOne == InitOne /\ [][NextOne]_<<vars, loopVars, listVars>> /\ FairnessOne

-----------------------------------------------------------------------------
\* The properties of Paging, of this instance.  A loop misses no more rows than
\* were removed under it (GetOrderCommissions, GetTopMostAppGoods).
MissesAtMostGone == Loop!MissesAtMostGone

\* It reads, and GetOrderCommissions locks, no more rows twice than came under it.
TwiceAtMostCome == Loop!TwiceAtMostCome

\* It comes to an empty page, as long as no more than so many rows come.
LoopEnds == Loop!LoopEnds

\* The property of Listing, of this instance: an answer has the things of its
\* rows, by names of its time (formalize).
AnswerIsOfItsTime == List!AnswerIsOfItsTime

=============================================================================
