--------------------------- MODULE RequestOptions ---------------------------
(***************************************************************************)
(* One request to the gateway: the options that fill the handler, one      *)
(* after the other, and the steps of the operation that then uses it.      *)
(*                                                                         *)
(* An option looks its argument up in another middleware and stores it;    *)
(* later options and the operation dereference what earlier ones stored.   *)
(* Handlers embed several check handlers which each have fields AppID,     *)
(* UserID, GoodID and AppGoodID of their own: an option has to store into  *)
(* every copy that is read later, and into no other, because the check of  *)
(* an order is narrowed by whatever its own copy holds.  Meanwhile other   *)
(* requests delete orders, records and goods.                              *)
(*                                                                         *)
(* Arguments and fields are sets of values: {} is nil, {x} a value, larger *)
(* sets are lists.                                                         *)
(***************************************************************************)
EXTENDS Integers, Sequences

CONSTANTS
    Things,       \* what other services know: applications, users, goods, orders, records
    Kind,         \* the kind of each
    Of,           \* its attributes: what its own row says
    None,         \* the value of an attribute it does not have
    Fine, Bad,    \* any value an option accepts; one that is malformed or names nothing
    OrderTypes, AdminTypes,  \* values of OrderType; those for orders made by administrators
    Fleeting,     \* the things other requests delete or add while this one runs
    Calls         \* what each endpoint does: see module Endpoints

Copies == {"order", "good", "coupon"}   \* OrderCheckHandler, AppGoodCheckHandler, AllocatedCouponCheckHandler
Fields == {"ID", "EntID", "AppID", "UserID", "GoodID", "AppGoodID", "OrderID", "ParentOrderID",
           "AppGoodIDs", "FeeAppGoodIDs", "CouponIDs", "CompensateFromID", "CompensateType",
           "OrderType"}
Args == Things \cup OrderTypes \cup {Fine, Bad}
Cells == Copies \X Fields

\* What an option looks up; the options not named only look at the value.
Looked == [AppID |-> "app", UserID |-> "user", GoodID |-> "good", AppGoodID |-> "appGood",
           AppGoodIDs |-> "appGood", FeeAppGoodIDs |-> "appGood", OrderID |-> "order",
           ParentOrderID |-> "order", CouponIDs |-> "coupon", PaymentBalances |-> "coin",
           PaymentTransferCoinTypeID |-> "coin"]

\* Lists, and values taken as they come: nil passes, whatever must says, but
\* as an ID.
Lists == {"AppGoodIDs", "FeeAppGoodIDs", "CouponIDs", "PaymentBalances"}
Taken == {"ID", "UserSetPaid", "UserSetCanceled", "AdminSetCanceled", "FeeAutoDeduction", "Simulate",
          "EnableSimulateOrder"}

Options == [opt : STRING, field : STRING, must : BOOLEAN, given : BOOLEAN]
Steps == [do : STRING, copy : Copies, keys : SUBSET Fields, ifSet : SUBSET Fields]

\* An endpoint is a list of options, which store into fields of its handler,
\* and a list of steps.
ASSUME CallsAssumption ==
    \A e \in Calls :
       /\ e.options \in Seq(Options) /\ e.steps \in Seq(Steps)
       /\ \A opt \in DOMAIN e.handler.stores : e.handler.stores[opt] \subseteq Cells
ASSUME FleetingAssumption == Fleeting \subseteq Things

\* What a thing has of these attributes: its own identifier and those of what
\* it belongs to.
Whose == {"AppID", "UserID", "GoodID", "AppGoodID", "OrderID"}
Has == [app |-> {"AppID"}, user |-> {"AppID", "UserID"}, coupon |-> {"AppID", "UserID"},
        good |-> {"GoodID"}, malfunction |-> {"GoodID"},
        appGood |-> {"AppID", "GoodID", "AppGoodID"},
        coin |-> {}, config |-> {"AppID"},
        order |-> Whose, powerRental |-> Whose, fee |-> Whose, compensate |-> Whose,
        outOfGas |-> Whose, orderCoupon |-> Whose]

\* What identifies a row of a table: an order has one row of its own.
Identifiers(kind) == {"EntID"} \cup (IF kind \in {"powerRental", "fee"} THEN {"OrderID"} ELSE {})

ASSUME ThingsAssumption ==
    /\ None \notin Things /\ Fine \notin Things /\ Bad \notin Things
    /\ OrderTypes \cap Things = {}
    /\ \A x \in Things :
          /\ Kind[x] \in DOMAIN Has
          /\ \A f \in Whose : Of[x][f] = None <=> f \notin Has[Kind[x]]
          /\ \A f \in Whose : Kind[x] = Looked[f] => Of[x][f] = x
          \* A row belongs to whom its order belongs to.
          /\ "OrderID" \in Has[Kind[x]] =>
                \A f \in Whose : Of[x][f] = Of[Of[x]["OrderID"]][f]
    /\ \A x, y \in Things : Kind[x] = Kind[y] =>
          \A f \in Identifiers(Kind[x]) : Of[x][f] = Of[y][f] => x = y

VARIABLES
    call,         \* which endpoint was called: its handler, options and steps
    pos,          \* the next option, then the next step
    asked,        \* the fields of the request that were used so far
    handler,      \* the handler's fields, copy by copy
    there,        \* what the other services have
    info,         \* the rows read
    written,      \* the rows written or deleted, or what a new one is derived from
    rejected,     \* the argument an option refused
    pc

vars == <<call, pos, asked, handler, there, info, written, rejected, pc>>
Table == call.handler.table

TypeOK ==
    /\ call \in Calls
    /\ pos \in 1..(Len(call.options) + Len(call.steps) + 1)
    /\ asked \in [Fields -> SUBSET Args]
    /\ handler \in [Cells -> SUBSET Args]
    /\ there \subseteq Things
    /\ info \subseteq Things
    /\ written \subseteq Things
    /\ rejected \subseteq Args
    /\ pc \in {"running", "answered", "refused", "unset", "nil", "outOfRange"}

Init ==
    /\ call \in Calls
    /\ pos = 1
    /\ asked = [f \in Fields |-> {}]
    /\ handler = [c \in Cells |-> {}]
    /\ there \in {Things, Things \ Fleeting}
    /\ info = {}
    /\ written = {}
    /\ rejected = {}
    /\ pc = "running"

-----------------------------------------------------------------------------
(* Options. *)

\* What a client can pass in a field of the request: also what is of no use to
\* the call, as what belongs to others, what is gone, and no order type.
OfKind(kind) == {x \in Things : Kind[x] = kind}
Candidates(o) ==
    CASE o.opt \in DOMAIN Looked -> OfKind(IF o.field \in DOMAIN Looked THEN Looked[o.field] ELSE Looked[o.opt])
      [] o.opt = "ID" -> OfKind(Table) \cup {Fine}
      [] o.opt = "EntID" -> OfKind(Table)
      [] o.opt = "CompensateFromID" -> OfKind("malfunction")
      [] o.field = "OrderType" -> OrderTypes
      [] OTHER -> {Fine}

Arguments(o) ==
    IF o.field \in Fields /\ asked[o.field] # {} THEN {asked[o.field]}
    ELSE (IF o.given THEN {} ELSE {{}})
         \cup {{x} : x \in Candidates(o) \cup (IF o.opt \in Taken THEN {} ELSE {Bad})}
         \cup (IF o.opt \in Lists THEN {{x, y} : x, y \in Candidates(o)} ELSE {})

\* The copy whose fields a check reads.
Copy(opt) == IF opt = "CouponIDs" THEN "coupon" ELSE "order"

\* The fields a check dereferences without asking whether they are set.
Deref(opt) ==
    IF opt = "CouponIDs" THEN {"AppID", "UserID"}
    ELSE IF opt \in {"UserID", "AppGoodID", "AppGoodIDs", "FeeAppGoodIDs"} THEN {"AppID"}
    ELSE {}

\* The fields that narrow the check of an order, if they are set.
Narrow == {"AppID", "UserID", "GoodID", "AppGoodID"}

\* Slip: the field of any of the embedded handlers.
Held_AnyCopy(copy, f) == UNION {handler[<<c, f>>] : c \in Copies}

\* What a field of a copy holds.
Held(copy, f) == handler[<<copy, f>>]

\* A thing is not of anybody else than these fields say.
Agrees(x, copy, fields) ==
    \A f \in fields : Held(copy, f) = {} \/ Of[x][f] \in Held(copy, f)

\* Slip: a check that is not narrowed by the user and the goods.
Found_AnyOnesOrder(opt, x) == x \in there /\ Kind[x] = Looked[opt] /\ Agrees(x, Copy(opt), Deref(opt))

\* An order is narrowed by what its copy holds, whatever that check needs.
Compared(opt) == IF Looked[opt] = "order" THEN Narrow ELSE Deref(opt)
Found(opt, x) == x \in there /\ Kind[x] = Looked[opt] /\ Agrees(x, Copy(opt), Compared(opt))

Accepts(o, a) ==
    IF a = {} THEN ~o.must \/ o.opt \in Lists \cup (Taken \ {"ID"})
    ELSE IF o.opt \in DOMAIN Looked THEN \A x \in a : Found(o.opt, x)
    ELSE IF o.opt = "AdminOrderType" THEN a \subseteq AdminTypes
    ELSE Bad \notin a

\* A field is dereferenced that no option has set.
Unset(copy, fields) == \E f \in fields : Held(copy, f) = {}
Missing(o, a) == a # {} /\ Unset(Copy(o.opt), Deref(o.opt))

\* Where an option of an endpoint's handler stores its argument.
StoresOf(e, opt) ==
    IF opt \in DOMAIN e.handler.stores THEN e.handler.stores[opt] ELSE {<<"order", opt>>} \cap Cells
\* Slip: an option stores into the handler that did its check only.
Stores_OneCopy(opt) == {c \in StoresOf(call, opt) : c[1] = "order"}

Stores(opt) == StoresOf(call, opt)

InOptionList == pos <= Len(call.options)
InOptions == pc = "running" /\ InOptionList

Apply ==
    /\ InOptions
    /\ LET o == call.options[pos] IN
       \E a \in Arguments(o) :
          /\ ~Missing(o, a) /\ Accepts(o, a)
          /\ asked' = [f \in Fields |-> IF f = o.field THEN a ELSE asked[f]]
          /\ handler' = [c \in Cells |-> IF c \in Stores(o.opt) /\ a # {} THEN a ELSE handler[c]]
    /\ pos' = pos + 1
    /\ UNCHANGED <<call, there, info, written, rejected, pc>>

\* An error ends the request, and so does the dereference of nil.
Refuse ==
    /\ InOptions
    /\ LET o == call.options[pos] IN
       \E a \in Arguments(o) :
          /\ Missing(o, a) \/ ~Accepts(o, a)
          /\ rejected' = a
          /\ pc' = IF Missing(o, a) THEN "unset" ELSE "refused"
    /\ UNCHANGED <<call, pos, asked, handler, there, info, written>>

-----------------------------------------------------------------------------
(* Steps.  A step record has the name of what it does, the fields it       *)
(* dereferences and those it only looks at if they are set.                *)

InSteps == pc = "running" /\ ~InOptionList /\ pos <= Len(call.options) + Len(call.steps)
Current == call.steps[pos - Len(call.options)]
Bound == Current.copy   \* the copy the step takes its fields from
Keys == Current.keys
IfSet == Current.ifSet
Step(do) == InSteps /\ Current.do = do /\ ~Unset(Bound, Keys)

\* The table's rows, or the orders, that have the values of all these fields.
Rows(kind, copy, fields) == {x \in there : Kind[x] = kind /\ Agrees(x, copy, fields)}

Proceed == pos' = pos + 1 /\ pc' = pc
Stop(how) == pos' = pos /\ pc' = how
KeepRequest == UNCHANGED <<call, asked, handler, rejected>>

\* The fields an operation takes from one of the copies; also the end of any
\* other step that dereferences nil.
Use ==
    /\ InSteps
    /\ Current.do = "use" \/ Unset(Bound, Keys)
    /\ IF Unset(Bound, Keys) THEN Stop("unset") ELSE Proceed
    /\ KeepRequest /\ UNCHANGED <<there, info, written>>

\* CheckOrder, once more: the order may be gone by now.
CheckOrder ==
    /\ Step("checkOrder")
    /\ IF Rows("order", Bound, Keys \cup IfSet) # {} THEN Proceed ELSE Stop("refused")
    /\ KeepRequest /\ UNCHANGED <<there, info, written>>

\* The row with all the identifiers of the request exists.
CheckRow ==
    /\ Step("checkRow")
    /\ IF Rows(Table, Bound, Keys) # {} THEN Proceed ELSE Stop("refused")
    /\ KeepRequest /\ UNCHANGED <<there, info, written>>

\* Slip: what need not be set is not compared when it is.
Get_KeysOnly ==
    /\ Step("get")
    /\ LET rows == Rows(Table, Bound, Keys) IN
       IF \E r \in rows : rows = {r}
       THEN info' = rows /\ Proceed
       ELSE info' = info /\ Stop("refused")
    /\ KeepRequest /\ UNCHANGED <<there, written>>

\* Reads one row; nothing, or more than one where only one may be, is refused.
Get ==
    /\ Step("get")
    /\ LET rows == Rows(Table, Bound, Keys \cup IfSet) IN
       IF \E r \in rows : rows = {r}
       THEN info' = rows /\ Proceed
       ELSE info' = info /\ Stop("refused")
    /\ KeepRequest /\ UNCHANGED <<there, written>>

\* Slip: the rows are not narrowed by the user.
List_AnyUser ==
    /\ Step("list")
    /\ info' \in SUBSET {x \in Rows(Table, "order", {"AppID", "OrderID"}) :
                            Agrees(x, Bound, {"GoodID", "AppGoodID"})}
    /\ Proceed
    /\ KeepRequest /\ UNCHANGED <<there, written>>

\* A page of the rows that agree with the fields that are set.
List ==
    /\ Step("list")
    /\ info' \in SUBSET {x \in Rows(Table, "order", {"AppID", "UserID", "OrderID"}) :
                            Agrees(x, Bound, {"GoodID", "AppGoodID"})}
    /\ Proceed
    /\ KeepRequest /\ UNCHANGED <<there, written>>

\* Rows whose application, user or good is gone are left out.
Shown == {r \in info : {Of[r].AppID, Of[r].UserID, Of[r].AppGoodID} \subseteq there}

Join ==
    /\ Step("join")
    /\ info' = Shown
    /\ Proceed
    /\ KeepRequest /\ UNCHANGED <<there, written>>

\* Of a single row: one caller asks whether it was left out, one takes the
\* first of none.
JoinOne ==
    /\ Step("joinOne")
    /\ info' = Shown
    /\ IF Shown # {} THEN Proceed
       ELSE Stop(IF Table = "outOfGas" THEN "outOfRange" ELSE "refused")
    /\ KeepRequest /\ UNCHANGED <<there, written>>

\* The middleware deletes or updates the row that all identifiers name.
Delete ==
    /\ Step("delete")
    /\ LET rows == Rows(Table, Bound, Keys) IN
       IF rows # {} THEN written' = rows /\ there' = there \ rows /\ Proceed
       ELSE UNCHANGED <<written, there>> /\ Stop("refused")
    /\ KeepRequest /\ UNCHANGED info

\* Records are deleted by the identifiers that were read.
DeleteRead ==
    /\ Step("deleteRead")
    /\ IF info \subseteq there THEN written' = info /\ there' = there \ info /\ Proceed
       ELSE UNCHANGED <<written, there>> /\ Stop("refused")
    /\ KeepRequest /\ UNCHANGED info

\* The update of an order is OrderUpdate's matter: it is refused or done.
Update ==
    /\ Step("update")
    /\ LET rows == Rows(Table, Bound, Keys) IN
       \/ rows # {} /\ written' = rows /\ Proceed
       \/ written' = written /\ Stop("refused")
    /\ KeepRequest /\ UNCHANGED <<there, info>>

\* A configuration for an application that has none.
Insert ==
    /\ Step("insert")
    /\ \/ \E r \in Fleeting \ there :
             /\ Kind[r] = Table /\ Agrees(r, Bound, Keys) /\ Rows(Table, Bound, Keys) = {}
             /\ written' = {r} /\ there' = there \cup {r} /\ Proceed
       \/ UNCHANGED <<written, there>> /\ Stop("refused")
    /\ KeepRequest /\ UNCHANGED info

\* The order to compensate; one that is gone is nil.
GetOrder ==
    /\ Step("getOrder")
    /\ info' = Held("order", "OrderID") \cap there
    /\ IF Held("order", "OrderID") \cup Held("order", "GoodID") = {}
       THEN Stop("refused") ELSE Proceed
    /\ KeepRequest /\ UNCHANGED <<there, written>>

\* Slip: the malfunction may be of any good.
GetMalfunction_AnyGood ==
    /\ Step("getMalfunction")
    /\ LET found == Held("order", "CompensateFromID") \cap there
       IN \/ found # {} /\ written' = found /\ Proceed
          \/ Stop("refused") /\ UNCHANGED written
    /\ KeepRequest /\ UNCHANGED <<there, info>>

\* The malfunction is looked up with the good that was named, or else with the
\* order's; other types of compensation are not implemented.
GetMalfunction ==
    /\ Step("getMalfunction")
    /\ LET goods == IF Held("order", "GoodID") # {} THEN Held("order", "GoodID")
                    ELSE {Of[o].GoodID : o \in info}
           found == {m \in Held("order", "CompensateFromID") \cap there : Of[m].GoodID \in goods}
       IN \/ goods = {} /\ Stop("nil") /\ UNCHANGED written
          \/ goods # {} /\ found # {} /\ written' = found /\ Proceed
          \/ Stop("refused") /\ UNCHANGED written
    /\ KeepRequest /\ UNCHANGED <<there, info>>

Answer ==
    /\ pc = "running"
    /\ pos = Len(call.options) + Len(call.steps) + 1
    /\ pc' = "answered"
    /\ UNCHANGED <<call, pos, asked, handler, there, info, written, rejected>>

\* Another request, or another service, deletes something this one may look at.
Vanish ==
    /\ pc = "running"
    /\ \E x \in Fleeting \cap there :
          /\ Kind[x] \in {Table, "order", "appGood"}
          /\ there' = there \ {x}
    /\ UNCHANGED <<call, pos, asked, handler, info, written, rejected, pc>>

Next ==
    \/ Apply \/ Refuse
    \/ Use \/ CheckOrder \/ CheckRow \/ Get \/ List \/ Join \/ JoinOne
    \/ Delete \/ DeleteRead \/ Update \/ Insert \/ GetOrder \/ GetMalfunction
    \/ Answer \/ Vanish

Spec == Init /\ [][Next]_vars

-----------------------------------------------------------------------------
(* Properties. *)

\* No endpoint dereferences a field of a handler that none of its options has
\* set: neither an option one that comes later, nor an operation one that only
\* another of the embedded handlers has.
NoFieldMissing == pc # "unset"

\* What an endpoint has to obey for that: every field dereferenced is stored,
\* into the copy it is read from, by an option before that minds nil.
Fills(o) == (o.must \/ o.given) /\ o.opt \notin Lists \cup (Taken \ {"ID"})
Filled(e, i, copy, field) ==
    \E j \in 1..(i - 1) : Fills(e.options[j]) /\ <<copy, field>> \in StoresOf(e, e.options[j].opt)
WellOrdered(e) ==
    /\ \A i \in DOMAIN e.options : \A f \in Deref(e.options[i].opt) :
          Filled(e, i, Copy(e.options[i].opt), f)
    /\ \A i \in DOMAIN e.steps : \A f \in e.steps[i].keys :
          Filled(e, Len(e.options) + 1, e.steps[i].copy, f)

-----------------------------------------------------------------------------
(* What belongs to whom. *)

\* Whose something may be for an option to accept it: of the application, user
\* and good the request named.  An order has to be of the app-good it named
\* too, but the parent of a fee is not: it has one of its own.
Owners(opt) == {"AppID", "UserID", "GoodID"} \cup (IF opt = "OrderID" THEN {"AppGoodID"} ELSE {})
Fits(x, fields) == \A f \in fields : asked[f] = {} \/ Of[x][f] \in asked[f] \cup {None}

\* An option only refuses what is absent, malformed, gone, of another kind, or
\* somebody else's: an order is never turned down because of a field that
\* belongs to another of the checks embedded in the handler.
RefusedForAReason ==
    pc = "refused" /\ InOptionList =>
        LET o == call.options[pos] IN
        \/ rejected = {} \/ Bad \in rejected
        \/ o.opt = "AdminOrderType" /\ rejected \cap AdminTypes = {}
        \/ \E x \in rejected : \/ x \notin there \/ Kind[x] # Looked[o.opt]
                               \/ ~Fits(x, Owners(o.opt))

\* Whatever an option has accepted is of the application, the user and the good
\* the request named, whichever endpoint it is and however its options are ordered.
AcceptedFits ==
    \A i \in DOMAIN call.options :
       LET o == call.options[i] IN
       i < pos /\ o.opt \in DOMAIN Looked /\ o.field \in Fields =>
          \A x \in asked[o.field] : Kind[x] = Looked[o.opt] /\ Fits(x, Owners(o.opt))

\* The rows answered, listed or alone, agree with every field by which the
\* request asked for them.
AnswerFits ==
    pc = "answered" =>
        \A r \in info : Fits(r, {"AppID", "UserID", "GoodID", "AppGoodID", "OrderID"})

\* A row is only updated or deleted if it is the application's, the user's and
\* the order's that the request named, and has the identifiers it named; of
\* records of running out of gas the ID is not looked at.
RowsFit ==
    \A r \in written : Kind[r] = Table =>
        Fits(r, {"AppID", "UserID", "OrderID", "EntID"} \cup (IF Table = "outOfGas" THEN {} ELSE {"ID"}))

\* An order is only compensated for a malfunction of its own good, whether the
\* request names the good, the order, or both.
MalfunctionFits ==
    pc = "answered" =>
        \A m \in written, o \in asked["OrderID"] :
            Kind[m] = "malfunction" => Of[m].GoodID = Of[o].GoodID

\* Whatever is written is of what the request named: the rows updated and
\* deleted, and the malfunction an order is compensated for.
WrittenFits == RowsFit /\ MalfunctionFits

\* What DeleteOutOfGas says of GetOutOfGas: a record that cannot be shown is
\* answered with nil, and refused.
UnshownIsRefused == pc # "outOfRange"

-----------------------------------------------------------------------------
(* What an endpoint has to obey for that. *)

\* The fields that say what a request is about.
Named == Whose \cup {"ID", "EntID", "CompensateFromID"}

Asks(e, f) == \E i \in DOMAIN e.options : e.options[i].field = f

\* The request names something of another kind than the option looks up: it
\* accepts nothing.
Vain(o) == o.opt \in DOMAIN Looked /\ o.field \in DOMAIN Looked /\ Looked[o.opt] # Looked[o.field]

\* Whatever the request names as f is in that copy.
Stored(e, copy, f) ==
    \A i \in DOMAIN e.options : e.options[i].field = f =>
        Vain(e.options[i]) \/ <<copy, f>> \in StoresOf(e, e.options[i].opt)

\* A field is given to one option, which stores it under its name.
NamesFit(e) ==
    \A i \in DOMAIN e.options :
       LET o == e.options[i] IN
       /\ o.field \in Fields \ {"OrderType"} =>
             \A j \in DOMAIN e.options : e.options[j].field = o.field => j = i
       /\ \A c \in StoresOf(e, o.opt) : c[2] \in Named => c[2] = o.field \/ Vain(o)
       /\ o.opt \in Lists => o.field = o.opt
       /\ o.opt = "AdminOrderType" => o.field = "OrderType"
       /\ o.opt \in DOMAIN Looked => o.field # "OrderType"

\* Whose something has to be is known before it is looked up, and is compared
\* or has no other; what need not agree is not compared.
OwnersFit(e) ==
    \A i \in DOMAIN e.options :
       LET o == e.options[i] IN
       o.opt \in DOMAIN Looked =>
          /\ \A f \in Compared(o.opt) \ Owners(o.opt), j \in DOMAIN e.options :
                <<Copy(o.opt), f>> \notin StoresOf(e, e.options[j].opt)
          /\ o.field \in Fields =>
                /\ \A j \in DOMAIN e.options : i < j =>
                      e.options[j].field \notin Owners(o.opt) \cap Has[Looked[o.opt]]
                /\ \A f \in Owners(o.opt) \cap Compared(o.opt) : Stored(e, Copy(o.opt), f)
                /\ \A f \in (Owners(o.opt) \ Compared(o.opt)) \cap Has[Looked[o.opt]] :
                      f = o.field \/ ~Asks(e, f)

\* A step that takes these fields from that copy only finds rows that agree with
\* f: it compares f, or the order that belongs to whom the request named, or
\* what identifies the one row that was checked for f before.
End(e) == Len(e.options) + 1
Finds(e, k, copy, keys, f) ==
    \/ ~Asks(e, f)
    \/ f \in keys /\ Stored(e, copy, f)
    \/ /\ f \in Narrow /\ "OrderID" \in keys
       /\ Stored(e, copy, "OrderID") /\ Filled(e, End(e), copy, "OrderID")
       /\ "OrderID" \in Has[e.handler.table]
       /\ \A i \in DOMAIN e.options : e.options[i].field = "OrderID" => e.options[i].opt = "OrderID"
    \/ \E l \in 1..(k - 1), u \in Identifiers(e.handler.table) :
          LET s == e.steps[l] IN
          /\ s.do = "checkRow" /\ f \in s.keys /\ Stored(e, s.copy, f)
          /\ u \in keys /\ Filled(e, End(e), copy, u)
          /\ u \in s.keys /\ Filled(e, End(e), s.copy, u)

IDs(e) == {"EntID"} \cup (IF e.handler.table = "outOfGas" THEN {} ELSE {"ID"})
Does(e, do) == \E k \in DOMAIN e.steps : e.steps[k].do = do

\* The rows read agree with what the request named, by their identifiers too if
\* they are deleted then.
ReadsFit(e) ==
    LET fields == Whose \cup (IF Does(e, "deleteRead") THEN IDs(e) ELSE {}) IN
    \A k \in DOMAIN e.steps :
       LET s == e.steps[k] IN
       /\ s.do = "get" => \A f \in fields : Finds(e, k, s.copy, s.keys \cup s.ifSet, f)
       /\ s.do = "list" =>
             /\ \A f \in {"AppID", "UserID", "OrderID"} : Stored(e, "order", f)
             /\ \A f \in {"GoodID", "AppGoodID"} : Stored(e, s.copy, f)
             /\ \A f \in fields \ Whose : ~Asks(e, f)
       /\ s.do = "getOrder" =>
             /\ \A i \in DOMAIN e.options : e.options[i].field = "OrderID" => e.options[i].opt = "OrderID"
             /\ e.handler.table # "order"

\* So do the rows written.
WritesFit(e) ==
    /\ e.handler.table # "malfunction"
    /\ \A k \in DOMAIN e.steps :
          LET s == e.steps[k] IN
          s.do \in {"delete", "update", "insert"} =>
             \A f \in {"AppID", "UserID", "OrderID"} \cup IDs(e) : Finds(e, k, s.copy, s.keys, f)
    /\ Does(e, "getMalfunction") =>
          /\ \A do \in {"get", "list", "delete", "deleteRead", "update", "insert"} : ~Does(e, do)
          /\ \A i \in DOMAIN e.options :
                LET o == e.options[i] IN
                /\ o.field = "OrderID" => o.opt = "OrderID"
                /\ o.field = "CompensateFromID" => o.opt = "CompensateFromID"

=============================================================================
