------------------------ MODULE RequestOptionsProofs ------------------------
(***************************************************************************)
(* Proofs about RequestOptions, for any endpoints that CallsAssumption     *)
(* describes and anything the other services may have.                     *)
(***************************************************************************)
EXTENDS RequestOptions, TLAPS

\* What the options passed so far have filled.
FilledSoFar ==
    \A i \in 1..Len(call.options) :
       i < pos /\ Fills(call.options[i]) => \A c \in Stores(call.options[i].opt) : handler[c] # {}

\* The lengths of the lists and what is in them.
LEMMA CallShape ==
    ASSUME NEW e \in Calls
    PROVE  /\ Len(e.options) \in Nat /\ Len(e.steps) \in Nat
           /\ DOMAIN e.options = 1..Len(e.options) /\ DOMAIN e.steps = 1..Len(e.steps)
           /\ \A i \in 1..Len(e.options) : e.options[i] \in Options
           /\ \A i \in 1..Len(e.steps) : e.steps[i] \in Steps
<1> DEFINE o == e.options
           s == e.steps
<1>1. o \in Seq(Options) /\ s \in Seq(Steps)
  BY CallsAssumption
<1> HIDE DEF o, s
<1>2. /\ Len(o) \in Nat /\ Len(s) \in Nat /\ DOMAIN o = 1..Len(o) /\ DOMAIN s = 1..Len(s)
      /\ \A i \in 1..Len(o) : o[i] \in Options
      /\ \A i \in 1..Len(s) : s[i] \in Steps
  BY <1>1
<1>3. QED
  BY <1>2 DEF o, s

\* Options store into fields there are.
LEMMA StoresInCells ==
    ASSUME NEW e \in Calls, NEW opt
    PROVE  StoresOf(e, opt) \subseteq Cells
BY CallsAssumption DEF StoresOf

\* Arguments are values there are.
LEMMA ArgumentsAreArgs ==
    ASSUME TypeOK, NEW o, NEW a \in Arguments(o)
    PROVE  a \subseteq Args
<1>1. Candidates(o) \subseteq Args
  BY DEF Candidates, OfKind, Args
<1>2. Bad \in Args
  BY DEF Args
<1>3. CASE o.field \in Fields /\ asked[o.field] # {}
  BY <1>3 DEF Arguments, TypeOK
<1>4. CASE ~(o.field \in Fields /\ asked[o.field] # {})
  <2>1. \/ a = {}
        \/ \E x \in Candidates(o) \cup {Bad} : a = {x}
        \/ \E x, y \in Candidates(o) : a = {x, y}
    BY <1>4 DEF Arguments
  <2>2. QED
    BY <2>1, <1>1, <1>2
<1>5. QED
  BY <1>3, <1>4

\* An option that minds nil has passed with something to store.
LEMMA PassedIsSomething ==
    ASSUME NEW o, Fills(o), NEW a \in Arguments(o), Accepts(o, a)
    PROVE  a # {}
<1>1. CASE o.must
  BY <1>1 DEF Accepts, Fills
<1>2. CASE o.given
  <2>1. CASE o.field \in Fields /\ asked[o.field] # {}
    BY <2>1 DEF Arguments
  <2>2. CASE ~(o.field \in Fields /\ asked[o.field] # {})
    <3>1. \/ \E x \in Candidates(o) \cup {Bad} : a = {x}
          \/ \E x, y \in Candidates(o) : a = {x, y}
      BY <2>2, <1>2 DEF Arguments
    <3>2. QED
      BY <3>1
  <2>3. QED
    BY <2>1, <2>2
<1>3. QED
  BY <1>1, <1>2 DEF Fills

-----------------------------------------------------------------------------
(* Types. *)

\* A request starts with every variable of its type.
THEOREM InitType == Init => TypeOK
<1> SUFFICES ASSUME Init PROVE TypeOK
  OBVIOUS
<1> DEFINE m == Len(call.options)
           n == Len(call.steps)
<1>1. m \in Nat /\ n \in Nat
  BY CallShape DEF Init
<1>2. 1 \in 1..(m + n + 1)
  <2> HIDE DEF m, n
  <2>1. QED
    BY <1>1
<1>3. QED
  BY <1>2 DEF Init, TypeOK, Args

\* Where the request is.
LEMMA PosType ==
    ASSUME TypeOK
    PROVE  /\ Len(call.options) \in Nat /\ Len(call.steps) \in Nat /\ pos \in Nat
           /\ InOptions => pos + 1 \in 1..(Len(call.options) + Len(call.steps) + 1)
           /\ InSteps => pos + 1 \in 1..(Len(call.options) + Len(call.steps) + 1)
<1> DEFINE m == Len(call.options)
           n == Len(call.steps)
<1>1. m \in Nat /\ n \in Nat
  BY CallShape DEF TypeOK
<1>2. /\ pos \in 1..(m + n + 1)
      /\ InOptions => pos <= m
      /\ InSteps => pos <= m + n
  BY DEF TypeOK, InOptions, InSteps, InOptionList
<1> HIDE DEF m, n
<1>3. /\ m \in Nat /\ n \in Nat /\ pos \in Nat
      /\ InOptions => pos + 1 \in 1..(m + n + 1)
      /\ InSteps => pos + 1 \in 1..(m + n + 1)
  BY <1>1, <1>2
<1>4. QED
  BY <1>3 DEF m, n

\* A step of the operation goes on or stops, and leaves the request alone.
LEMMA StepType ==
    ASSUME TypeOK, InSteps, KeepRequest,
           Proceed \/ \E how \in {"refused", "unset", "nil", "outOfRange"} : Stop(how),
           info' \subseteq Things, written' \subseteq Things, there' \subseteq Things
    PROVE  TypeOK'
<1>1. pos' \in 1..(Len(call.options) + Len(call.steps) + 1)
  BY PosType DEF Proceed, Stop, TypeOK
<1>2. pc' \in {"running", "answered", "refused", "unset", "nil", "outOfRange"}
  BY DEF Proceed, Stop, TypeOK
<1>3. QED
  BY <1>1, <1>2 DEF TypeOK, KeepRequest

\* Every option and every step of an operation keeps the types, and so does
\* whatever vanishes.
THEOREM StepKeepsType == TypeOK /\ [Next]_vars => TypeOK'
<1> SUFFICES ASSUME TypeOK, [Next]_vars PROVE TypeOK'
  OBVIOUS
<1>t. info \subseteq Things /\ written \subseteq Things /\ there \subseteq Things
  BY DEF TypeOK
<1>1. CASE Apply
  <2> DEFINE o == call.options[pos]
  <2>1. PICK a \in Arguments(o) :
           /\ asked' = [f \in Fields |-> IF f = o.field THEN a ELSE asked[f]]
           /\ handler' = [c \in Cells |-> IF c \in Stores(o.opt) /\ a # {} THEN a ELSE handler[c]]
    BY <1>1 DEF Apply
  <2>2. a \in SUBSET Args
    BY ArgumentsAreArgs
  <2>3. asked' \in [Fields -> SUBSET Args]
    <3>1. asked \in [Fields -> SUBSET Args]
      BY DEF TypeOK
    <3> HIDE DEF o
    <3>2. QED
      BY <2>1, <2>2, <3>1
  <2>4. handler' \in [Cells -> SUBSET Args]
    <3>1. handler \in [Cells -> SUBSET Args]
      BY DEF TypeOK
    <3> DEFINE S == Stores(o.opt)
    <3>2. handler' = [c \in Cells |-> IF c \in S /\ a # {} THEN a ELSE handler[c]]
      BY <2>1
    <3> HIDE DEF o, S
    <3>3. QED
      BY <2>2, <3>1, <3>2
  <2>5. pos' \in 1..(Len(call.options) + Len(call.steps) + 1)
    BY <1>1, PosType DEF Apply
  <2>6. QED
    BY <1>1, <2>3, <2>4, <2>5 DEF Apply, TypeOK
<1>2. CASE Refuse
  <2>1. rejected' \subseteq Args
    BY <1>2, ArgumentsAreArgs DEF Refuse
  <2>2. QED
    BY <1>2, <2>1 DEF Refuse, TypeOK
<1>3. CASE Use
  BY <1>3, <1>t, StepType DEF Use
<1>4. CASE CheckOrder
  BY <1>4, <1>t, StepType DEF CheckOrder, Step
<1>5. CASE CheckRow
  BY <1>5, <1>t, StepType DEF CheckRow, Step
<1>6. CASE Get
  BY <1>6, <1>t, StepType DEF Get, Step, Rows
<1>7. CASE List
  <2>1. info' \subseteq Things
    BY <1>7, <1>t DEF List, Rows
  <2>2. QED
    BY <1>7, <1>t, <2>1, StepType DEF List, Step
<1>8. CASE Join
  BY <1>8, <1>t, StepType DEF Join, Step, Shown
<1>9. CASE JoinOne
  BY <1>9, <1>t, StepType DEF JoinOne, Step, Shown
<1>10. CASE Delete
  BY <1>10, <1>t, StepType DEF Delete, Step, Rows
<1>11. CASE DeleteRead
  BY <1>11, <1>t, StepType DEF DeleteRead, Step
<1>12. CASE Update
  BY <1>12, <1>t, StepType DEF Update, Step, Rows
<1>13. CASE Insert
  BY <1>13, <1>t, StepType, FleetingAssumption DEF Insert, Step
<1>14. CASE GetOrder
  BY <1>14, <1>t, StepType DEF GetOrder, Step
<1>15. CASE GetMalfunction
  BY <1>15, <1>t, StepType DEF GetMalfunction, Step
<1>16. CASE Answer
  BY <1>16 DEF Answer, TypeOK
<1>17. CASE Vanish
  BY <1>17 DEF Vanish, TypeOK
<1>18. CASE UNCHANGED vars
  BY <1>18 DEF vars, TypeOK
<1>19. QED
  BY <1>1, <1>2, <1>3, <1>4, <1>5, <1>6, <1>7, <1>8, <1>9, <1>10, <1>11, <1>12, <1>13,
     <1>14, <1>15, <1>16, <1>17, <1>18 DEF Next

\* Every variable keeps its type, whatever a client asks for and whatever
\* vanishes meanwhile (TypeOK).
THEOREM TypeCorrect == Spec => []TypeOK
<1>1. Init => TypeOK
  BY InitType
<1>2. TypeOK /\ [Next]_vars => TypeOK'
  BY StepKeepsType
<1>3. QED
  BY <1>1, <1>2, PTL DEF Spec

-----------------------------------------------------------------------------
(* Fields are set before they are dereferenced. *)

\* The options have passed that fill a field, if they come before.
LEMMA FilledIsSet ==
    ASSUME TypeOK, FilledSoFar, NEW i \in Nat, i <= pos, i <= Len(call.options) + 1,
           NEW copy, NEW f, Filled(call, i, copy, f)
    PROVE  Held(copy, f) # {}
<1>1. PICK j \in 1..(i - 1) :
         Fills(call.options[j]) /\ <<copy, f>> \in StoresOf(call, call.options[j].opt)
  BY DEF Filled
<1>2. j \in 1..Len(call.options) /\ j < pos
  <2> DEFINE m == Len(call.options)
  <2>1. m \in Nat /\ pos \in Nat /\ i <= m + 1
    BY PosType
  <2> HIDE DEF m
  <2>2. j \in 1..m /\ j < pos
    BY <2>1, <1>1
  <2>3. QED
    BY <2>2 DEF m
<1>3. \A c \in Stores(call.options[j].opt) : handler[c] # {}
  BY <1>1, <1>2 DEF FilledSoFar
<1>4. <<copy, f>> \in Stores(call.options[j].opt)
  BY <1>1 DEF Stores
<1>5. handler[<<copy, f>>] # {}
  BY <1>3, <1>4
<1>6. QED
  BY <1>5 DEF Held

\* No option dereferences what is not set.
LEMMA OptionsFindAll ==
    ASSUME TypeOK, FilledSoFar, WellOrdered(call), InOptions, NEW a
    PROVE  ~Missing(call.options[pos], a)
<1> DEFINE o == call.options[pos]
<1>1. pos \in DOMAIN call.options /\ pos \in Nat /\ pos <= Len(call.options) + 1
  BY CallShape, PosType DEF TypeOK, InOptions, InOptionList
<1>2. \A f \in Deref(o.opt) : Filled(call, pos, Copy(o.opt), f)
  BY <1>1 DEF WellOrdered
<1>3. ASSUME NEW f \in Deref(o.opt) PROVE Held(Copy(o.opt), f) # {}
  <2> DEFINE copy == Copy(o.opt)
  <2>1. Filled(call, pos, copy, f)
    BY <1>2
  <2> HIDE DEF copy, o
  <2>2. Held(copy, f) # {}
    BY <1>1, <2>1, FilledIsSet
  <2>3. QED
    BY <2>2 DEF copy
<1>4. QED
  BY <1>3 DEF Missing, Unset

\* No step does.
LEMMA StepsFindAll ==
    ASSUME TypeOK, FilledSoFar, WellOrdered(call), InSteps
    PROVE  ~Unset(Bound, Keys)
<1> DEFINE n == Len(call.options) + 1
<1>1. Len(call.options) \in Nat /\ Len(call.steps) \in Nat /\ pos \in Nat
  BY PosType
<1>2. pos - Len(call.options) \in DOMAIN call.steps /\ n \in Nat /\ n <= pos
  <2> DEFINE m == Len(call.options)
             k == Len(call.steps)
  <2>1. ~(pos <= m) /\ pos <= m + k
    BY DEF InSteps, InOptionList
  <2>2. DOMAIN call.steps = 1..k /\ m \in Nat /\ k \in Nat
    BY CallShape DEF TypeOK
  <2>3. n = m + 1
    OBVIOUS
  <2> HIDE DEF m, k, n
  <2>4. pos - m \in 1..k /\ n \in Nat /\ n <= pos
    BY <1>1, <2>1, <2>2, <2>3
  <2>5. QED
    BY <2>2, <2>4 DEF m
<1>3. \A f \in Keys : Filled(call, n, Bound, f)
  BY <1>2 DEF WellOrdered, Keys, Bound, Current
<1>4. ASSUME NEW f \in Keys PROVE Held(Bound, f) # {}
  <2>1. Filled(call, n, Bound, f) /\ n \in Nat /\ n <= pos /\ n <= Len(call.options) + 1
    BY <1>1, <1>2, <1>3
  <2> HIDE DEF n
  <2>2. QED
    BY <2>1, FilledIsSet
<1>5. QED
  BY <1>4 DEF Unset

\* What is filled stays filled while the operation runs.
LEMMA StepKeepsFilled ==
    ASSUME TypeOK, FilledSoFar, KeepRequest, InSteps, Proceed \/ pos' = pos
    PROVE  FilledSoFar'
<1>1. pos \in Nat /\ Len(call.options) \in Nat
  BY PosType
<1>2. \A i \in 1..Len(call.options) : i < pos
  BY <1>1 DEF InSteps, InOptionList
<1>3. call' = call /\ handler' = handler
  BY DEF KeepRequest
<1>4. QED
  BY <1>2, <1>3 DEF FilledSoFar, Stores

\* The inductive invariant.
SetInv == TypeOK /\ WellOrdered(call) /\ FilledSoFar /\ NoFieldMissing

THEOREM InitSet == (\A e \in Calls : WellOrdered(e)) /\ Init => SetInv
<1> SUFFICES ASSUME \A e \in Calls : WellOrdered(e), Init PROVE SetInv
  OBVIOUS
<1>1. TypeOK
  BY InitType
<1>2. FilledSoFar
  BY PosType, <1>1 DEF FilledSoFar, Init
<1>3. QED
  BY <1>1, <1>2 DEF SetInv, Init, NoFieldMissing

THEOREM StepKeepsSet == SetInv /\ [Next]_vars => SetInv'
<1> SUFFICES ASSUME SetInv, [Next]_vars PROVE SetInv'
  OBVIOUS
<1>t. TypeOK /\ TypeOK' /\ WellOrdered(call) /\ FilledSoFar /\ pc # "unset"
  BY StepKeepsType DEF SetInv, NoFieldMissing
<1>s. ASSUME InSteps PROVE ~Unset(Bound, Keys)
  BY <1>s, <1>t, StepsFindAll
<1>q. ASSUME call' = call, FilledSoFar', pc' # "unset" PROVE SetInv'
  BY <1>q, <1>t DEF SetInv, WellOrdered, NoFieldMissing
<1>p. ASSUME InSteps, KeepRequest, Proceed \/ \E how \in {"refused", "nil", "outOfRange"} : Stop(how)
      PROVE  SetInv'
  <2>1. FilledSoFar'
    BY <1>p, <1>t, StepKeepsFilled DEF Stop
  <2>2. QED
    BY <1>p, <1>q, <1>t, <2>1 DEF KeepRequest, Proceed, Stop
<1>1. CASE Apply
  <2> DEFINE o == call.options[pos]
  <2>1. PICK a \in Arguments(o) :
           /\ Accepts(o, a)
           /\ handler' = [c \in Cells |-> IF c \in Stores(o.opt) /\ a # {} THEN a ELSE handler[c]]
    BY <1>1 DEF Apply
  <2>2. call' = call /\ pos' = pos + 1 /\ pc' = pc
    BY <1>1 DEF Apply
  <2>3. ASSUME NEW i \in 1..Len(call.options), i < pos + 1, Fills(call.options[i]),
               NEW c \in Stores(call.options[i].opt)
        PROVE  handler'[c] # {}
    <3>1. c \in Cells
      BY <1>t, StoresInCells DEF Stores, TypeOK
    <3>2. CASE i = pos
      BY <2>1, <2>3, <3>1, <3>2, PassedIsSomething
    <3>3. CASE i < pos
      BY <1>t, <2>1, <2>3, <3>1, <3>3 DEF FilledSoFar
    <3>4. QED
      BY <1>t, PosType, <2>3, <3>2, <3>3
  <2>4. FilledSoFar'
    BY <2>2, <2>3 DEF FilledSoFar, Stores
  <2>5. QED
    BY <1>q, <1>t, <2>2, <2>4
<1>2. CASE Refuse
  <2>1. pc' = "refused"
    BY <1>2, <1>t, OptionsFindAll DEF Refuse
  <2>2. FilledSoFar'
    BY <1>2, <1>t DEF Refuse, FilledSoFar, Stores
  <2>3. QED
    BY <1>2, <1>q, <2>1, <2>2 DEF Refuse
<1>3. CASE Use
  BY <1>3, <1>s, <1>p DEF Use
<1>4. CASE CheckOrder
  BY <1>4, <1>p DEF CheckOrder, Step
<1>5. CASE CheckRow
  BY <1>5, <1>p DEF CheckRow, Step
<1>6. CASE Get
  BY <1>6, <1>p DEF Get, Step
<1>7. CASE List
  BY <1>7, <1>p DEF List, Step
<1>8. CASE Join
  BY <1>8, <1>p DEF Join, Step
<1>9. CASE JoinOne
  BY <1>9, <1>p DEF JoinOne, Step
<1>10. CASE Delete
  BY <1>10, <1>p DEF Delete, Step
<1>11. CASE DeleteRead
  BY <1>11, <1>p DEF DeleteRead, Step
<1>12. CASE Update
  BY <1>12, <1>p DEF Update, Step
<1>13. CASE Insert
  BY <1>13, <1>p DEF Insert, Step
<1>14. CASE GetOrder
  BY <1>14, <1>p DEF GetOrder, Step
<1>15. CASE GetMalfunction
  BY <1>15, <1>p DEF GetMalfunction, Step
<1>16. CASE Answer
  BY <1>16, <1>q, <1>t DEF Answer, FilledSoFar, Stores
<1>17. CASE Vanish
  BY <1>17, <1>q, <1>t DEF Vanish, FilledSoFar, Stores
<1>18. CASE UNCHANGED vars
  BY <1>18, <1>q, <1>t DEF vars, FilledSoFar, Stores
<1>19. QED
  BY <1>1, <1>2, <1>3, <1>4, <1>5, <1>6, <1>7, <1>8, <1>9, <1>10, <1>11, <1>12, <1>13,
     <1>14, <1>15, <1>16, <1>17, <1>18 DEF Next

\* If every endpoint fills what it uses, no field is dereferenced unset
\* (NoFieldMissing), for any arguments, nil or not, and whatever vanishes.
THEOREM FieldsSet == (\A e \in Calls : WellOrdered(e)) => (Spec => []NoFieldMissing)
<1> SUFFICES ASSUME \A e \in Calls : WellOrdered(e) PROVE Spec => []NoFieldMissing
  OBVIOUS
<1>1. Init => SetInv
  BY InitSet
<1>2. SetInv /\ [Next]_vars => SetInv'
  BY StepKeepsSet
<1>3. SetInv => NoFieldMissing
  BY DEF SetInv
<1>4. QED
  BY <1>1, <1>2, <1>3, PTL DEF Spec

-----------------------------------------------------------------------------
(* What options accept and refuse. *)

\* What has been asked and stored comes of an option that has passed.
AskedInv ==
    /\ \A f \in Fields : asked[f] # {} =>
          \E j \in DOMAIN call.options : j < pos /\ call.options[j].field = f
    /\ \A copy \in Copies, f \in Fields : Held(copy, f) # {} =>
          \E j \in DOMAIN call.options : j < pos /\ <<copy, f>> \in Stores(call.options[j].opt)

\* The copies hold what was asked for by the name of the field.
HeldInv ==
    /\ \A copy \in Copies, f \in Named : Held(copy, f) # {} => Held(copy, f) = asked[f]
    /\ \A j \in DOMAIN call.options :
          LET o == call.options[j] IN
          j < pos /\ o.field \in Named =>
             IF Vain(o) THEN asked[o.field] = {}
             ELSE \A copy \in Copies : <<copy, o.field>> \in Stores(o.opt) =>
                     Held(copy, o.field) = asked[o.field]

\* What is no list is one value.
SingleInv == \A f \in Fields \ Lists : \A x, y \in asked[f] : x = y

\* What has been accepted is there, and is whose the request said.
AcceptedInv ==
    /\ \A i \in DOMAIN call.options :
          LET o == call.options[i] IN
          i < pos /\ o.opt \in DOMAIN Looked /\ o.field \in Fields =>
             \A x \in asked[o.field] :
                x \in Things /\ Kind[x] = Looked[o.opt] /\ Fits(x, Owners(o.opt))
    /\ \A i \in DOMAIN call.options :
          LET o == call.options[i] IN
          i < pos /\ o.opt = "CompensateFromID" /\ o.field = o.opt =>
             \A x \in asked[o.field] \cap Things : Kind[x] = "malfunction"

\* The inductive invariant.
OptionInv ==
    /\ TypeOK /\ NamesFit(call) /\ OwnersFit(call)
    /\ AskedInv /\ HeldInv /\ SingleInv /\ AcceptedInv

\* An argument passes the next option.
Passes(a) ==
    LET o == call.options[pos] IN
    /\ InOptions /\ a \in Arguments(o) /\ Accepts(o, a)
    /\ asked' = [f \in Fields |-> IF f = o.field THEN a ELSE asked[f]]
    /\ handler' = [c \in Cells |-> IF c \in Stores(o.opt) /\ a # {} THEN a ELSE handler[c]]
    /\ pos' = pos + 1 /\ call' = call

\* The fields by which a request says whose something is.
LEMMA NamedFields ==
    /\ Named \subseteq Fields \ ({"OrderType"} \cup Lists)
    /\ Whose \subseteq Named /\ Whose \subseteq DOMAIN Looked
    /\ \A opt : Owners(opt) \subseteq Whose /\ Compared(opt) \subseteq Whose
    /\ Owners("OrderID") = Narrow
BY DEF Named, Whose, Fields, Lists, Looked, Owners, Compared, Deref, Narrow

\* Whatever is compared of something is what such a thing has.
LEMMA ComparedHas ==
    ASSUME NEW opt \in DOMAIN Looked
    PROVE  Compared(opt) \subseteq Has[Looked[opt]]
BY DEF Looked, Compared, Deref, Narrow, Has, Whose

\* The next option, and those before.
LEMMA NextOption ==
    ASSUME TypeOK, InOptions
    PROVE  /\ pos \in DOMAIN call.options /\ pos \in Nat
           /\ \A j \in DOMAIN call.options : j \in Nat
           /\ \A j \in DOMAIN call.options : j < pos + 1 <=> j < pos \/ j = pos
<1> DEFINE m == Len(call.options)
<1>1. m \in Nat /\ DOMAIN call.options = 1..m /\ pos \in Nat
  BY CallShape, PosType DEF TypeOK
<1>2. pos \in 1..m
  BY <1>1 DEF TypeOK, InOptions, InOptionList
<1> HIDE DEF m
<1>3. QED
  BY <1>1, <1>2

\* What a client passes in a field that it has not used yet.
LEMMA ArgumentShape ==
    ASSUME NEW o, NEW a \in Arguments(o), o.field \in Fields => asked[o.field] = {}
    PROVE  \/ a = {}
           \/ \E x \in Candidates(o) \cup {Bad} : a = {x}
           \/ o.opt \in Lists /\ \E x, y \in Candidates(o) : a = {x, y}
BY DEF Arguments

\* An option accepts nothing of another kind than it looks up.
LEMMA VainPassesNothing ==
    ASSUME TypeOK, NEW o, Vain(o), NEW a \in Arguments(o), Accepts(o, a),
           o.field \in Fields => asked[o.field] = {}
    PROVE  a = {}
<1> SUFFICES ASSUME NEW x \in a PROVE FALSE
  OBVIOUS
<1>1. x \in there /\ Kind[x] = Looked[o.opt] /\ x \in Things
  BY DEF Accepts, Found, Vain, TypeOK
<1>2. x # Bad
  BY <1>1, ThingsAssumption
<1>3. x \in Candidates(o)
  BY <1>2, ArgumentShape
<1>4. Candidates(o) = OfKind(Looked[o.field])
  <2>1. o.opt \in DOMAIN Looked /\ o.field \in DOMAIN Looked
    BY DEF Vain
  <2>2. /\ o.field # "OrderType"
        /\ o.opt # "ID" /\ o.opt # "EntID" /\ o.opt # "CompensateFromID"
    BY <2>1 DEF Looked
  <2>3. QED
    BY <2>1, <2>2 DEF Candidates
<1>5. QED
  BY <1>1, <1>3, <1>4 DEF OfKind, Vain

\* What the option that an argument passes leaves behind.
LEMMA Passing ==
    ASSUME OptionInv, NEW a, Passes(a)
    PROVE  LET o == call.options[pos] IN
           /\ pos \in DOMAIN call.options
           /\ \A f \in Fields : f # o.field => asked'[f] = asked[f]
           /\ o.field \in Fields => asked'[o.field] = a
           /\ \A c \in Cells : c \in Stores(o.opt) /\ a # {} => handler'[c] = a
           /\ \A c \in Cells : c \notin Stores(o.opt) \/ a = {} => handler'[c] = handler[c]
           /\ o.field \in Fields \ {"OrderType"} => asked[o.field] = {}
           /\ \A j \in DOMAIN call.options :
                 j < pos /\ call.options[j].field \in Fields \ {"OrderType"} =>
                    call.options[j].field # o.field
           /\ Vain(o) => a = {}
           /\ \A j \in DOMAIN call.options : j < pos' <=> j < pos \/ j = pos
<1> DEFINE o == call.options[pos]
<1>1. /\ pos \in DOMAIN call.options /\ pos \in Nat
      /\ \A j \in DOMAIN call.options : j < pos' <=> j < pos \/ j = pos
      /\ \A j \in DOMAIN call.options : j \in Nat
  BY NextOption DEF OptionInv, Passes
<1>2. \A j \in DOMAIN call.options :
         j < pos /\ call.options[j].field \in Fields \ {"OrderType"} => call.options[j].field # o.field
  BY <1>1 DEF OptionInv, NamesFit
<1>3. o.field \in Fields \ {"OrderType"} => asked[o.field] = {}
  BY <1>2 DEF OptionInv, AskedInv
<1>4. Vain(o) => a = {}
  <2>1. ASSUME Vain(o) PROVE o.field # "OrderType"
    BY <2>1 DEF Vain, Looked
  <2>2. QED
    BY <1>3, <2>1, VainPassesNothing DEF OptionInv, Passes
<1>5. /\ \A f \in Fields : f # o.field => asked'[f] = asked[f]
      /\ o.field \in Fields => asked'[o.field] = a
  BY DEF Passes
<1>6. /\ \A c \in Cells : c \in Stores(o.opt) /\ a # {} => handler'[c] = a
      /\ \A c \in Cells : c \notin Stores(o.opt) \/ a = {} => handler'[c] = handler[c]
  <2> DEFINE S == Stores(o.opt)
  <2>1. handler' = [c \in Cells |-> IF c \in S /\ a # {} THEN a ELSE handler[c]]
    BY DEF Passes
  <2> HIDE DEF S
  <2>2. /\ \A c \in Cells : c \in S /\ a # {} => handler'[c] = a
        /\ \A c \in Cells : c \notin S \/ a = {} => handler'[c] = handler[c]
    BY <2>1
  <2>3. QED
    BY <2>2 DEF S
<1>7. QED
  BY <1>1, <1>2, <1>3, <1>4, <1>5, <1>6

\* Whatever the request named is in the copies that are compared.
LEMMA HeldIsAsked ==
    ASSUME AskedInv, HeldInv, NEW copy \in Copies, NEW f \in Named, Stored(call, copy, f), asked[f] # {}
    PROVE  Held(copy, f) = asked[f]
<1>1. PICK j \in DOMAIN call.options : j < pos /\ call.options[j].field = f
  BY NamedFields DEF AskedInv
<1> DEFINE o == call.options[j]
<1>2. o.field \in Named /\ j < pos
  BY <1>1
<1>3. ~Vain(o)
  BY <1>1, <1>2 DEF HeldInv
<1>4. <<copy, f>> \in Stores(o.opt)
  BY <1>1, <1>3 DEF Stored, Stores
<1>5. QED
  BY <1>1, <1>2, <1>3, <1>4 DEF HeldInv

\* What an option accepts belongs to whom the request named.
LEMMA AcceptedOne ==
    ASSUME OptionInv, NEW a, Passes(a), call.options[pos].opt \in DOMAIN Looked,
           call.options[pos].field \in Fields, NEW x \in a
    PROVE  LET o == call.options[pos] IN
           /\ x \in Things /\ Kind[x] = Looked[o.opt]
           /\ \A f \in Owners(o.opt) : asked'[f] = {} \/ Of[x][f] \in asked'[f] \cup {None}
<1> DEFINE o == call.options[pos]
<1>1. Found(o.opt, x)
  BY DEF Passes, Accepts
<1>2. x \in Things /\ Kind[x] = Looked[o.opt]
  BY <1>1 DEF Found, OptionInv, TypeOK
<1>3. ~Vain(o)
  BY Passing
<1>4. pos \in DOMAIN call.options
  BY Passing
<1>5. /\ asked'[o.field] = a
      /\ \A f \in Fields : f # o.field => asked'[f] = asked[f]
  BY Passing
<1>6. ASSUME NEW f \in Owners(o.opt), asked'[f] # {}
      PROVE  Of[x][f] \in asked'[f] \cup {None}
  <2>1. f \in Whose /\ f \in Named /\ f \in Fields /\ f \in DOMAIN Looked
    BY NamedFields
  <2>2. CASE f \notin Has[Kind[x]]
    BY <1>2, <2>1, <2>2, ThingsAssumption
  <2>3. CASE f = o.field
    <3>1. Kind[x] = Looked[f]
      BY <1>2, <1>3, <2>1, <2>3 DEF Vain
    <3>2. Of[x][f] = x
      BY <1>2, <2>1, <3>1, ThingsAssumption
    <3>3. QED
      BY <1>5, <2>3, <3>2
  <2>4. CASE f # o.field /\ f \in Has[Kind[x]]
    <3>1. asked'[f] = asked[f] /\ asked[f] # {}
      BY <1>5, <1>6, <2>1, <2>4
    <3>2. f \in Compared(o.opt)
      <4>1. Asks(call, f)
        BY <2>1, <3>1 DEF Asks, OptionInv, AskedInv
      <4>2. QED
        BY <1>2, <1>4, <2>4, <4>1 DEF OptionInv, OwnersFit
    <3>3. Stored(call, Copy(o.opt), f) /\ Copy(o.opt) \in Copies
      BY <1>4, <3>2 DEF OptionInv, OwnersFit, Copy, Copies
    <3>4. Held(Copy(o.opt), f) = asked[f]
      BY <2>1, <3>1, <3>3, HeldIsAsked DEF OptionInv
    <3>5. Of[x][f] \in Held(Copy(o.opt), f)
      BY <1>1, <3>1, <3>2, <3>4 DEF Found, Agrees
    <3>6. QED
      BY <3>1, <3>4, <3>5
  <2>5. QED
    BY <2>2, <2>3, <2>4
<1>7. QED
  BY <1>2, <1>6

\* An option that is passed keeps all that.
LEMMA PassingKeeps ==
    ASSUME OptionInv, TypeOK', NEW a, Passes(a)
    PROVE  OptionInv'
<1> DEFINE o == call.options[pos]
<1>c. call' = call /\ o = call'.options[pos]
  BY DEF Passes
<1>1. /\ pos \in DOMAIN call.options
      /\ \A f \in Fields : f # o.field => asked'[f] = asked[f]
      /\ o.field \in Fields => asked'[o.field] = a
      /\ \A j \in DOMAIN call.options : j < pos' <=> j < pos \/ j = pos
  BY Passing
<1>2. /\ \A c \in Cells : c \in Stores(o.opt) /\ a # {} => handler'[c] = a
      /\ \A c \in Cells : c \notin Stores(o.opt) \/ a = {} => handler'[c] = handler[c]
  BY Passing
<1>3. /\ o.field \in Fields \ {"OrderType"} => asked[o.field] = {}
      /\ \A j \in DOMAIN call.options :
            j < pos /\ call.options[j].field \in Fields \ {"OrderType"} => call.options[j].field # o.field
      /\ Vain(o) => a = {}
  BY Passing
<1>cells. \A copy \in Copies, f \in Fields : <<copy, f>> \in Cells
  BY DEF Cells
<1>4. AskedInv'
  <2>1. ASSUME NEW f \in Fields, asked'[f] # {}
        PROVE  \E j \in DOMAIN call.options : j < pos' /\ call.options[j].field = f
    <3>1. CASE f = o.field
      BY <1>1, <3>1
    <3>2. CASE f # o.field
      BY <1>1, <2>1, <3>2 DEF OptionInv, AskedInv
    <3>3. QED
      BY <3>1, <3>2
  <2>2. ASSUME NEW copy \in Copies, NEW f \in Fields, handler'[<<copy, f>>] # {}
        PROVE  \E j \in DOMAIN call.options : j < pos' /\ <<copy, f>> \in Stores(call.options[j].opt)
    <3>1. CASE <<copy, f>> \in Stores(o.opt)
      BY <1>1, <3>1
    <3>2. CASE <<copy, f>> \notin Stores(o.opt)
      <4>1. Held(copy, f) # {}
        BY <1>2, <1>cells, <2>2, <3>2 DEF Held
      <4>2. QED
        BY <1>1, <4>1 DEF OptionInv, AskedInv
    <3>3. QED
      BY <3>1, <3>2
  <2>3. QED
    BY <1>c, <2>1, <2>2 DEF AskedInv, Held, Stores
<1>5. ASSUME NEW c \in Stores(o.opt), c[2] \in Named, a # {}
      PROVE  c[2] = o.field
  BY <1>1, <1>3, <1>5 DEF OptionInv, NamesFit, Stores
<1>6. HeldInv'
  <2>1. ASSUME NEW copy \in Copies, NEW f \in Named, handler'[<<copy, f>>] # {}
        PROVE  handler'[<<copy, f>>] = asked'[f]
    <3>0. f \in Fields \ {"OrderType"} /\ <<copy, f>> \in Cells /\ <<copy, f>>[2] = f
      BY NamedFields, <1>cells
    <3>1. CASE <<copy, f>> \in Stores(o.opt) /\ a # {}
      BY <1>1, <1>2, <1>5, <3>0, <3>1
    <3>2. CASE ~(<<copy, f>> \in Stores(o.opt) /\ a # {})
      <4>1. handler'[<<copy, f>>] = Held(copy, f)
        BY <1>2, <3>0, <3>2 DEF Held
      <4>2. Held(copy, f) = asked[f] /\ asked[f] # {}
        BY <2>1, <4>1 DEF OptionInv, HeldInv
      <4>3. f # o.field
        BY <1>3, <3>0, <4>2
      <4>4. QED
        BY <1>1, <3>0, <4>1, <4>2, <4>3
    <3>3. QED
      BY <3>1, <3>2
  <2>2. ASSUME NEW j \in DOMAIN call.options, j < pos', call.options[j].field \in Named
        PROVE  LET p == call.options[j] IN
               IF Vain(p) THEN asked'[p.field] = {}
               ELSE \A copy \in Copies : <<copy, p.field>> \in Stores(p.opt) =>
                       handler'[<<copy, p.field>>] = asked'[p.field]
    <3> DEFINE p == call.options[j]
               f == p.field
    <3>0. f \in Fields \ {"OrderType"} /\ f \in Named
      BY <2>2, NamedFields
    <3>1. CASE j = pos
      <4>1. asked'[f] = a /\ asked[f] = {} /\ (Vain(p) => a = {})
        BY <1>1, <1>3, <3>0, <3>1
      <4>2. ASSUME NEW copy \in Copies, <<copy, f>> \in Stores(p.opt)
            PROVE  handler'[<<copy, f>>] = a
        <5>1. <<copy, f>> \in Cells
          BY <1>cells, <3>0
        <5>2. CASE a # {}
          BY <1>2, <3>1, <4>2, <5>1, <5>2
        <5>3. CASE a = {}
          <6>1. handler'[<<copy, f>>] = Held(copy, f)
            BY <1>2, <5>1, <5>3 DEF Held
          <6>2. Held(copy, f) = {}
            BY <3>0, <4>1 DEF OptionInv, HeldInv
          <6>3. QED
            BY <5>3, <6>1, <6>2
        <5>4. QED
          BY <5>2, <5>3
      <4>3. QED
        BY <4>1, <4>2
    <3>2. CASE j # pos
      <4>1. j < pos
        BY <1>1, <2>2, <3>2
      <4>2. f # o.field /\ asked'[f] = asked[f]
        BY <1>1, <1>3, <3>0, <4>1
      <4>3. ASSUME NEW copy \in Copies PROVE handler'[<<copy, f>>] = Held(copy, f)
        <5>1. <<copy, f>> \in Cells /\ <<copy, f>>[2] = f
          BY <1>cells, <3>0
        <5>2. ~(<<copy, f>> \in Stores(o.opt) /\ a # {})
          BY <1>5, <3>0, <4>2, <5>1
        <5>3. QED
          BY <1>2, <5>1, <5>2 DEF Held
      <4>4. QED
        BY <3>0, <4>1, <4>2, <4>3 DEF OptionInv, HeldInv
    <3>3. QED
      BY <3>1, <3>2
  <2>3. QED
    BY <1>c, <2>1, <2>2 DEF HeldInv, Held, Stores
<1>7. SingleInv'
  <2>1. ASSUME NEW f \in Fields \ Lists, NEW x \in asked'[f], NEW y \in asked'[f]
        PROVE  x = y
    <3>1. CASE f # o.field \/ asked'[f] = asked[f]
      BY <1>1, <2>1, <3>1 DEF OptionInv, SingleInv
    <3>2. CASE f = o.field /\ asked'[f] # asked[f]
      <4>1. asked'[f] = a /\ a \in Arguments(o)
        BY <1>1, <3>2 DEF Passes
      <4>2. asked[o.field] = {}
        BY <3>2, <4>1 DEF Arguments
      <4>3. o.opt \notin Lists
        BY <1>1, <3>2 DEF OptionInv, NamesFit
      <4>4. a = {} \/ \E z \in Candidates(o) \cup {Bad} : a = {z}
        BY <4>1, <4>2, <4>3, ArgumentShape
      <4>5. QED
        BY <2>1, <4>1, <4>4
    <3>3. QED
      BY <3>1, <3>2
  <2>2. QED
    BY <2>1 DEF SingleInv
<1>8. AcceptedInv'
  <2>1. ASSUME NEW i \in DOMAIN call.options, i < pos', call.options[i].opt \in DOMAIN Looked,
               call.options[i].field \in Fields, NEW x \in asked'[call.options[i].field]
        PROVE  LET p == call.options[i] IN
               /\ x \in Things /\ Kind[x] = Looked[p.opt]
               /\ \A f \in Owners(p.opt) : asked'[f] = {} \/ Of[x][f] \in asked'[f] \cup {None}
    <3> DEFINE p == call.options[i]
    <3>1. CASE i = pos
      <4>1. x \in a
        BY <1>1, <2>1, <3>1
      <4>2. o.opt \in DOMAIN Looked /\ o.field \in Fields
        BY <2>1, <3>1
      <4>3. /\ x \in Things /\ Kind[x] = Looked[o.opt]
            /\ \A f \in Owners(o.opt) : asked'[f] = {} \/ Of[x][f] \in asked'[f] \cup {None}
        BY <4>1, <4>2, AcceptedOne
      <4>4. QED
        BY <3>1, <4>3
    <3>2. CASE i # pos
      <4>1. i < pos
        BY <1>1, <2>1, <3>2
      <4>2. p.field \in Fields \ {"OrderType"}
        BY <2>1 DEF OptionInv, NamesFit
      <4>3. x \in asked[p.field]
        BY <1>1, <1>3, <2>1, <4>1, <4>2
      <4>4. x \in Things /\ Kind[x] = Looked[p.opt] /\ Fits(x, Owners(p.opt))
        BY <2>1, <4>1, <4>3 DEF OptionInv, AcceptedInv
      <4>5. ASSUME NEW f \in Owners(p.opt), asked'[f] # {}
            PROVE  Of[x][f] \in asked'[f] \cup {None}
        <5>1. f \in Fields /\ f \in Whose
          BY NamedFields
        <5>2. CASE f # o.field
          BY <1>1, <4>4, <4>5, <5>1, <5>2 DEF Fits
        <5>3. CASE f = o.field
          <6>1. i < pos /\ pos \in DOMAIN call.options
            BY <1>1, <4>1
          <6>2. f \notin Has[Looked[p.opt]]
            BY <2>1, <5>3, <6>1 DEF OptionInv, OwnersFit
          <6>3. QED
            BY <4>4, <5>1, <6>2, ThingsAssumption
        <5>4. QED
          BY <5>2, <5>3
      <4>6. QED
        BY <4>4, <4>5
    <3>3. QED
      BY <3>1, <3>2
  <2>2. ASSUME NEW i \in DOMAIN call.options, i < pos', call.options[i].opt = "CompensateFromID",
               call.options[i].field = call.options[i].opt, NEW x \in asked'["CompensateFromID"] \cap Things
        PROVE  Kind[x] = "malfunction"
    <3>0. "CompensateFromID" \in Fields \ {"OrderType"}
      BY DEF Fields
    <3>1. CASE i = pos
      <4>1. x \in a /\ a \in Arguments(o) /\ o.opt = "CompensateFromID" /\ o.field \in Fields
        BY <1>1, <2>2, <3>0, <3>1 DEF Passes
      <4>2. asked[o.field] = {}
        BY <1>3, <2>2, <3>0, <3>1
      <4>3. o.opt \notin Lists /\ Bad \notin Things
        BY <4>1, ThingsAssumption DEF Lists
      <4>4. x \in Candidates(o)
        BY <4>1, <4>2, <4>3, ArgumentShape
      <4>5. Candidates(o) = OfKind("malfunction")
        BY <2>2, <3>1 DEF Candidates, Looked
      <4>6. QED
        BY <4>4, <4>5 DEF OfKind
    <3>2. CASE i # pos
      <4>1. i < pos
        BY <1>1, <2>2, <3>2
      <4>2. x \in asked["CompensateFromID"]
        BY <1>1, <1>3, <2>2, <3>0, <4>1
      <4>3. QED
        BY <2>2, <4>1, <4>2 DEF OptionInv, AcceptedInv
    <3>3. QED
      BY <3>1, <3>2
  <2>3. QED
    BY <1>c, <2>1, <2>2 DEF AcceptedInv, Fits
<1>9. QED
  BY <1>c, <1>4, <1>6, <1>7, <1>8 DEF OptionInv, NamesFit, OwnersFit

\* An argument is refused for a reason.
LEMMA RefusalsHaveReasons ==
    ASSUME OptionInv, InOptions, NEW a \in Arguments(call.options[pos]),
           ~Missing(call.options[pos], a), ~Accepts(call.options[pos], a)
    PROVE  LET o == call.options[pos] IN
           \/ a = {} \/ Bad \in a
           \/ o.opt = "AdminOrderType" /\ a \cap AdminTypes = {}
           \/ \E x \in a : x \notin there \/ Kind[x] # Looked[o.opt] \/ ~Fits(x, Owners(o.opt))
<1> DEFINE o == call.options[pos]
<1>0. pos \in DOMAIN call.options
  BY NextOption DEF OptionInv
<1>1. CASE a # {} /\ o.opt \in DOMAIN Looked
  <2>1. PICK x \in a : ~Found(o.opt, x)
    BY <1>1 DEF Accepts
  <2>2. CASE x \in there /\ Kind[x] = Looked[o.opt]
    <3>1. PICK f \in Compared(o.opt) :
             Held(Copy(o.opt), f) # {} /\ Of[x][f] \notin Held(Copy(o.opt), f)
      BY <2>1, <2>2 DEF Found, Agrees
    <3>2. f \in Whose /\ f \in Named /\ f \in Fields /\ Copy(o.opt) \in Copies
      BY NamedFields DEF Copy, Copies
    <3>3. f \in Owners(o.opt)
      <4>1. \E j \in DOMAIN call.options : <<Copy(o.opt), f>> \in Stores(call.options[j].opt)
        BY <3>1, <3>2 DEF OptionInv, AskedInv
      <4>2. QED
        BY <1>0, <1>1, <3>1, <4>1 DEF OptionInv, OwnersFit, Stores
    <3>4. Held(Copy(o.opt), f) = asked[f]
      BY <3>1, <3>2 DEF OptionInv, HeldInv
    <3>5. Of[x][f] # None
      <4>1. f \in Has[Kind[x]]
        BY <1>1, <2>2, ComparedHas
      <4>2. x \in Things
        BY <2>2 DEF OptionInv, TypeOK
      <4>3. QED
        BY <3>2, <4>1, <4>2, ThingsAssumption
    <3>6. ~Fits(x, Owners(o.opt))
      BY <3>1, <3>3, <3>4, <3>5 DEF Fits
    <3>7. QED
      BY <3>6
  <2>3. QED
    BY <2>2
<1>2. CASE a # {} /\ o.opt = "AdminOrderType"
  <2>1. o.field = "OrderType" /\ o.opt \notin DOMAIN Looked /\ o.opt \notin Lists
    BY <1>0, <1>2 DEF OptionInv, NamesFit, Looked, Lists
  <2>2. ~(a \subseteq AdminTypes)
    BY <1>2, <2>1 DEF Accepts
  <2>3. \A x, y \in a : x = y
    <3>1. CASE asked[o.field] # {}
      <4>1. a = asked["OrderType"] /\ "OrderType" \in Fields \ Lists
        BY <2>1, <3>1 DEF Arguments, Fields, Lists
      <4>2. QED
        BY <4>1 DEF OptionInv, SingleInv
    <3>2. CASE asked[o.field] = {}
      BY <1>2, <2>1, <3>2, ArgumentShape
    <3>3. QED
      BY <3>1, <3>2
  <2>4. a \cap AdminTypes = {}
    BY <2>2, <2>3
  <2>5. QED
    BY <1>2, <2>4
<1>3. CASE a # {} /\ o.opt \notin DOMAIN Looked /\ o.opt # "AdminOrderType"
  BY <1>3 DEF Accepts
<1>4. QED
  BY <1>1, <1>2, <1>3

\* The operation's steps do not disturb what was asked, stored and accepted.
LEMMA QuietKeeps ==
    ASSUME OptionInv, TypeOK', call' = call, asked' = asked, handler' = handler,
           pos' = pos \/ (~InOptionList /\ pos' = pos + 1)
    PROVE  OptionInv'
<1> DEFINE m == Len(call.options)
<1>1. \A j \in DOMAIN call.options : j < pos' <=> j < pos
  <2>1. m \in Nat /\ DOMAIN call.options = 1..m /\ pos \in Nat
    BY CallShape, PosType DEF OptionInv, TypeOK
  <2>2. pos' = pos \/ (~(pos <= m) /\ pos' = pos + 1)
    BY DEF InOptionList
  <2> HIDE DEF m
  <2>3. QED
    BY <2>1, <2>2
<1>2. AskedInv'
  <2>1. AskedInv
    BY DEF OptionInv
  <2>2. QED
    BY <1>1, <2>1 DEF AskedInv, Held, Stores
<1>3. HeldInv'
  <2>1. HeldInv
    BY DEF OptionInv
  <2>2. QED
    BY <1>1, <2>1 DEF HeldInv, Held, Stores
<1>4. SingleInv'
  BY DEF OptionInv, SingleInv
<1>5. AcceptedInv'
  <2>1. AcceptedInv
    BY DEF OptionInv
  <2>2. QED
    BY <1>1, <2>1 DEF AcceptedInv, Fits
<1>6. QED
  BY <1>2, <1>3, <1>4, <1>5 DEF OptionInv, NamesFit, OwnersFit

\* Each step of the operation, whatever it reads or writes.
OperationStep ==
    \/ Use \/ CheckOrder \/ CheckRow \/ Get \/ List \/ Join \/ JoinOne
    \/ Delete \/ DeleteRead \/ Update \/ Insert \/ GetOrder \/ GetMalfunction

\* Steps leave the request alone.
LEMMA StepKeepsRequest ==
    ASSUME OperationStep
    PROVE  InSteps /\ KeepRequest /\ (Proceed \/ pos' = pos)
<1>1. CASE Use
  BY <1>1 DEF Use, Stop
<1>2. CASE CheckOrder \/ CheckRow \/ Get \/ List \/ Join \/ JoinOne
  BY <1>2 DEF CheckOrder, CheckRow, Get, List, Join, JoinOne, Step, Stop
<1>3. CASE Delete \/ DeleteRead \/ Update \/ Insert
  BY <1>3 DEF Delete, DeleteRead, Update, Insert, Step, Stop
<1>4. CASE GetOrder \/ GetMalfunction
  BY <1>4 DEF GetOrder, GetMalfunction, Step, Stop
<1>5. QED
  BY <1>1, <1>2, <1>3, <1>4 DEF OperationStep

\* Every step keeps the invariant, and no option refuses without a reason.
LEMMA StepKeepsOptions ==
    ASSUME OptionInv, RefusedForAReason, [Next]_vars
    PROVE  OptionInv' /\ RefusedForAReason'
<1>t. TypeOK'
  BY StepKeepsType DEF OptionInv
<1>1. CASE Apply
  <2>1. PICK a : Passes(a)
    BY <1>1 DEF Apply, Passes
  <2>2. OptionInv'
    BY <1>t, <2>1, PassingKeeps
  <2>3. pc' = "running"
    BY <1>1 DEF Apply, InOptions
  <2>4. QED
    BY <2>2, <2>3 DEF RefusedForAReason
<1>2. CASE Refuse
  <2> DEFINE o == call.options[pos]
  <2>1. OptionInv'
    BY <1>2, <1>t, QuietKeeps DEF Refuse
  <2>2. PICK a \in Arguments(o) :
           /\ Missing(o, a) \/ ~Accepts(o, a)
           /\ rejected' = a
           /\ pc' = IF Missing(o, a) THEN "unset" ELSE "refused"
    BY <1>2 DEF Refuse
  <2>3. ASSUME pc' = "refused"
        PROVE  \/ a = {} \/ Bad \in a
               \/ o.opt = "AdminOrderType" /\ a \cap AdminTypes = {}
               \/ \E x \in a : x \notin there \/ Kind[x] # Looked[o.opt] \/ ~Fits(x, Owners(o.opt))
    <3>1. ~Missing(o, a) /\ ~Accepts(o, a)
      BY <2>2, <2>3
    <3>2. QED
      BY <1>2, <3>1, RefusalsHaveReasons DEF Refuse
  <2>4. /\ call' = call /\ pos' = pos /\ there' = there /\ asked' = asked
    BY <1>2 DEF Refuse
  <2>5. RefusedForAReason'
    BY <2>2, <2>3, <2>4 DEF RefusedForAReason, Fits
  <2>6. QED
    BY <2>1, <2>5
<1>3. CASE OperationStep
  <2>1. InSteps /\ KeepRequest /\ (Proceed \/ pos' = pos)
    BY <1>3, StepKeepsRequest
  <2>2. OptionInv'
    BY <1>t, <2>1, QuietKeeps DEF KeepRequest, Proceed, InSteps
  <2>3. ~InOptionList'
    <3>1. pos \in Nat /\ Len(call.options) \in Nat
      BY PosType DEF OptionInv
    <3>2. QED
      BY <2>1, <3>1 DEF InSteps, InOptionList, KeepRequest, Proceed
  <2>4. QED
    BY <2>2, <2>3 DEF RefusedForAReason
<1>4. CASE Answer
  <2>1. OptionInv'
    BY <1>4, <1>t, QuietKeeps DEF Answer
  <2>2. QED
    BY <1>4, <2>1 DEF Answer, RefusedForAReason
<1>5. CASE Vanish
  <2>1. OptionInv'
    BY <1>5, <1>t, QuietKeeps DEF Vanish
  <2>2. QED
    BY <1>5, <2>1 DEF Vanish, RefusedForAReason
<1>6. CASE UNCHANGED vars
  <2>1. OptionInv'
    BY <1>6, <1>t, QuietKeeps DEF vars
  <2>2. RefusedForAReason'
    BY <1>6 DEF vars, RefusedForAReason, InOptionList, Fits
  <2>3. QED
    BY <2>1, <2>2
<1>7. QED
  BY <1>1, <1>2, <1>3, <1>4, <1>5, <1>6 DEF Next, OperationStep

\* A request starts with nothing asked and nothing stored.
LEMMA OptionInit ==
    ASSUME Init, \A e \in Calls : NamesFit(e) /\ OwnersFit(e)
    PROVE  OptionInv /\ RefusedForAReason
<1>1. TypeOK
  BY InitType
<1>2. /\ call \in Calls /\ pos = 1 /\ pc = "running"
      /\ \A f \in Fields : asked[f] = {}
      /\ \A copy \in Copies, f \in Fields : Held(copy, f) = {}
  BY DEF Init, Held, Cells
<1>3. \A j \in DOMAIN call.options : ~(j < pos)
  <2> DEFINE m == Len(call.options)
  <2>1. DOMAIN call.options = 1..m /\ m \in Nat
    BY <1>2, CallShape
  <2> HIDE DEF m
  <2>2. QED
    BY <1>2, <2>1
<1>4. AskedInv /\ HeldInv /\ AcceptedInv
  BY <1>2, <1>3, NamedFields DEF AskedInv, HeldInv, AcceptedInv
<1>5. SingleInv
  BY <1>2 DEF SingleInv
<1>6. QED
  BY <1>1, <1>2, <1>4, <1>5 DEF OptionInv, RefusedForAReason

\* What holds of the options of any request.
THEOREM OptionInvariant ==
    (\A e \in Calls : NamesFit(e) /\ OwnersFit(e)) => (Spec => [](OptionInv /\ RefusedForAReason))
<1> SUFFICES ASSUME \A e \in Calls : NamesFit(e) /\ OwnersFit(e)
             PROVE  Spec => [](OptionInv /\ RefusedForAReason)
  OBVIOUS
<1>1. Init => OptionInv /\ RefusedForAReason
  BY OptionInit
<1>2. OptionInv /\ RefusedForAReason /\ [Next]_vars => (OptionInv /\ RefusedForAReason)'
  BY StepKeepsOptions
<1>3. QED
  BY <1>1, <1>2, PTL DEF Spec

\* If every endpoint names and stores its fields as NamesFit and OwnersFit
\* say, no option refuses what the request may have (RefusedForAReason): no
\* check is narrowed by a field that is another check's.
THEOREM Refusals ==
    (\A e \in Calls : NamesFit(e) /\ OwnersFit(e)) => (Spec => []RefusedForAReason)
<1> SUFFICES ASSUME \A e \in Calls : NamesFit(e) /\ OwnersFit(e) PROVE Spec => []RefusedForAReason
  OBVIOUS
<1>1. Spec => [](OptionInv /\ RefusedForAReason)
  BY OptionInvariant
<1>2. QED
  BY <1>1, PTL

\* Nor does it accept what is somebody else's (AcceptedFits), in whatever
\* order the options come.
THEOREM Acceptances ==
    (\A e \in Calls : NamesFit(e) /\ OwnersFit(e)) => (Spec => []AcceptedFits)
<1> SUFFICES ASSUME \A e \in Calls : NamesFit(e) /\ OwnersFit(e) PROVE Spec => []AcceptedFits
  OBVIOUS
<1>1. Spec => [](OptionInv /\ RefusedForAReason)
  BY OptionInvariant
<1>2. OptionInv => AcceptedFits
  BY DEF OptionInv, AcceptedInv, AcceptedFits
<1>3. QED
  BY <1>1, <1>2, PTL

-----------------------------------------------------------------------------
(* What the steps of an operation read and write. *)

\* The request when its options are over.
RequestInv == SetInv /\ OptionInv

\* The rows that were checked for.
CheckedInv ==
    \A l \in DOMAIN call.steps :
       LET s == call.steps[l] IN
       s.do = "checkRow" /\ Len(call.options) + l < pos =>
          \E x \in Things : Kind[x] = Table /\ Agrees(x, s.copy, s.keys)

\* The rows that were read, orders or rows of the table.
ReadFields == Whose \cup (IF Does(call, "deleteRead") THEN IDs(call) ELSE {})
Readable(r) ==
    /\ Kind[r] = "order" \/ Kind[r] = Table
    /\ Fits(r, Whose)
    /\ Kind[r] = Table => Fits(r, ReadFields)
ReadInv == (InOptionList => info = {}) /\ \A r \in info : Readable(r)

\* Where the operation is.
LEMMA NextStep ==
    ASSUME TypeOK, InSteps
    PROVE  /\ pos - Len(call.options) \in DOMAIN call.steps
           /\ Current \in Steps /\ Bound \in Copies
           /\ End(call) \in Nat /\ End(call) <= pos /\ End(call) <= Len(call.options) + 1
           /\ \A l \in 1..(pos - Len(call.options) - 1) :
                 l \in DOMAIN call.steps /\ Len(call.options) + l < pos
           /\ \A l \in DOMAIN call.steps : Len(call.options) + l < pos + 1 =>
                 Len(call.options) + l < pos \/ l = pos - Len(call.options)
<1> DEFINE m == Len(call.options)
           n == Len(call.steps)
<1>1. m \in Nat /\ n \in Nat /\ pos \in Nat /\ DOMAIN call.steps = 1..n
  BY CallShape, PosType DEF TypeOK
<1>2. ~(pos <= m) /\ pos <= m + n
  BY DEF InSteps, InOptionList
<1>3. End(call) = m + 1
  BY DEF End
<1>4. \A i \in 1..n : call.steps[i] \in Steps
  BY CallShape DEF TypeOK
<1> HIDE DEF m, n
<1>5. /\ pos - m \in 1..n
      /\ End(call) \in Nat /\ End(call) <= pos /\ End(call) <= m + 1
      /\ \A l \in 1..(pos - m - 1) : l \in 1..n /\ m + l < pos
      /\ \A l \in 1..n : m + l < pos + 1 => m + l < pos \/ l = pos - m
  BY <1>1, <1>2, <1>3
<1>6. Current \in Steps
  BY <1>4, <1>5 DEF Current, m
<1>7. Bound \in Copies
  BY <1>6 DEF Bound, Steps
<1>8. QED
  BY <1>1, <1>5, <1>6, <1>7 DEF m

\* What every request of the endpoint fills holds what was asked for.
LEMMA FilledIsAsked ==
    ASSUME RequestInv, InSteps, NEW copy \in Copies, NEW u \in Named, Filled(call, End(call), copy, u)
    PROVE  Held(copy, u) = asked[u] /\ asked[u] # {}
<1>1. End(call) \in Nat /\ End(call) <= pos /\ End(call) <= Len(call.options) + 1
  BY NextStep DEF RequestInv, OptionInv
<1>2. Held(copy, u) # {}
  BY <1>1, FilledIsSet DEF RequestInv, SetInv
<1>3. QED
  BY <1>2 DEF RequestInv, OptionInv, HeldInv

\* The order a request names is of whom the request named.
LEMMA OrderIsAsked ==
    ASSUME OptionInv, NEW q \in asked["OrderID"],
           \A i \in DOMAIN call.options : call.options[i].field = "OrderID" => call.options[i].opt = "OrderID"
    PROVE  q \in Things /\ Kind[q] = "order" /\ Fits(q, Whose)
<1>1. "OrderID" \in Fields /\ "OrderID" \in DOMAIN Looked /\ Looked["OrderID"] = "order"
  BY DEF Fields, Looked
<1>2. PICK i \in DOMAIN call.options : i < pos /\ call.options[i].field = "OrderID"
  BY <1>1 DEF OptionInv, AskedInv
<1>3. call.options[i].opt = "OrderID"
  BY <1>2
<1>4. q \in Things /\ Kind[q] = "order" /\ Fits(q, Owners("OrderID"))
  BY <1>1, <1>2, <1>3 DEF OptionInv, AcceptedInv
<1>5. Of[q]["OrderID"] = q
  BY <1>1, <1>4, ThingsAssumption DEF Whose
<1>6. Whose = Owners("OrderID") \cup {"OrderID"}
  BY DEF Whose, Owners
<1>7. QED
  BY <1>4, <1>5, <1>6 DEF Fits

\* What a step finds agrees with what the request asked for.
LEMMA FindsFit ==
    ASSUME RequestInv, CheckedInv, InSteps, NEW copy \in Copies, NEW keys, NEW f \in Named,
           Finds(call, pos - Len(call.options), copy, keys, f),
           NEW x \in Things, Kind[x] = Table, Agrees(x, copy, keys), asked[f] # {}
    PROVE  Of[x][f] \in asked[f] \cup {None}
<1> DEFINE e == call
           k == pos - Len(call.options)
<1>0. f \in Fields
  BY NamedFields
<1>1. CASE ~Asks(e, f)
  BY <1>0, <1>1 DEF RequestInv, OptionInv, AskedInv, Asks
<1>2. CASE f \in keys /\ Stored(e, copy, f)
  <2>1. Held(copy, f) = asked[f]
    BY <1>2, HeldIsAsked DEF RequestInv, OptionInv
  <2>2. QED
    BY <1>2, <2>1 DEF Agrees
<1>3. CASE /\ f \in Narrow /\ "OrderID" \in keys
           /\ Stored(e, copy, "OrderID") /\ Filled(e, End(e), copy, "OrderID")
           /\ "OrderID" \in Has[e.handler.table]
           /\ \A i \in DOMAIN e.options : e.options[i].field = "OrderID" => e.options[i].opt = "OrderID"
  <2> DEFINE q == Of[x]["OrderID"]
  <2>0. "OrderID" \in Named /\ f \in Whose
    BY <1>3 DEF Named, Whose, Narrow
  <2>1. Held(copy, "OrderID") = asked["OrderID"] /\ asked["OrderID"] # {}
    BY <1>3, <2>0, FilledIsAsked
  <2>2. q \in asked["OrderID"]
    BY <1>3, <2>1 DEF Agrees
  <2>3. Fits(q, Whose)
    BY <1>3, <2>2, OrderIsAsked DEF RequestInv
  <2>4. Of[x][f] = Of[q][f]
    BY <1>3, <2>0, ThingsAssumption DEF Table
  <2>5. QED
    BY <2>0, <2>3, <2>4 DEF Fits
<1>4. CASE \E l \in 1..(k - 1), u \in Identifiers(e.handler.table) :
             LET s == e.steps[l] IN
             /\ s.do = "checkRow" /\ f \in s.keys /\ Stored(e, s.copy, f)
             /\ u \in keys /\ Filled(e, End(e), copy, u)
             /\ u \in s.keys /\ Filled(e, End(e), s.copy, u)
  <2>1. PICK l \in 1..(k - 1), u \in Identifiers(e.handler.table) :
             LET s == e.steps[l] IN
             /\ s.do = "checkRow" /\ f \in s.keys /\ Stored(e, s.copy, f)
             /\ u \in keys /\ Filled(e, End(e), copy, u)
             /\ u \in s.keys /\ Filled(e, End(e), s.copy, u)
    BY <1>4
  <2> DEFINE s == call.steps[l]
  <2>2. l \in DOMAIN call.steps /\ Len(call.options) + l < pos
    BY NextStep DEF RequestInv, OptionInv
  <2>3. s.copy \in Copies
    <3>1. s \in Steps
      BY <2>2, CallShape DEF RequestInv, OptionInv, TypeOK
    <3>2. QED
      BY <3>1 DEF Steps
  <2>4. PICK y \in Things : Kind[y] = Table /\ Agrees(y, s.copy, s.keys)
    BY <2>1, <2>2 DEF CheckedInv
  <2>5. u \in Named /\ u \in Fields \ Lists
    BY NamedFields DEF Identifiers, Named, Whose
  <2>6. /\ Held(copy, u) = asked[u] /\ asked[u] # {}
        /\ Held(s.copy, u) = asked[u]
    BY <2>1, <2>3, <2>5, FilledIsAsked
  <2>7. Of[x][u] \in asked[u] /\ Of[y][u] \in asked[u]
    BY <2>1, <2>4, <2>6 DEF Agrees
  <2>8. Of[x][u] = Of[y][u]
    BY <2>5, <2>7 DEF RequestInv, OptionInv, SingleInv
  <2>9. x = y
    BY <2>4, <2>8, ThingsAssumption DEF Table
  <2>10. Held(s.copy, f) = asked[f]
    BY <2>1, <2>3, HeldIsAsked DEF RequestInv, OptionInv
  <2>11. QED
    BY <2>1, <2>4, <2>9, <2>10 DEF Agrees
<1>5. QED
  BY <1>1, <1>2, <1>3, <1>4 DEF Finds

\* A step that goes on from a check has found the row.
LEMMA CheckedStep ==
    ASSUME RequestInv, CheckedInv, [Next]_vars
    PROVE  CheckedInv'
<1>t. TypeOK
  BY DEF RequestInv, OptionInv
<1>q. ASSUME call' = call, handler' = handler, pos' = pos PROVE CheckedInv'
  BY <1>q DEF CheckedInv, Agrees, Held, Table
<1>1. CASE Apply
  <2>1. pos' = pos + 1 /\ call' = call /\ pos <= Len(call.options)
    BY <1>1 DEF Apply, InOptions, InOptionList
  <2>2. pos \in Nat /\ Len(call.options) \in Nat /\ \A l \in DOMAIN call.steps : l >= 1 /\ l \in Nat
    BY <1>t, PosType, CallShape DEF TypeOK
  <2>3. \A l \in DOMAIN call.steps : ~(Len(call.options) + l < pos')
    BY <2>1, <2>2
  <2>4. QED
    BY <2>1, <2>3 DEF CheckedInv
<1>2. CASE Refuse \/ Answer \/ Vanish \/ UNCHANGED vars
  BY <1>2, <1>q DEF Refuse, Answer, Vanish, vars
<1>3. CASE OperationStep
  <2> DEFINE k == pos - Len(call.options)
  <2>1. InSteps /\ call' = call /\ handler' = handler /\ (pos' = pos + 1 \/ pos' = pos)
    BY <1>3, StepKeepsRequest DEF KeepRequest, Proceed
  <2>2. ASSUME pos' # pos, Current.do = "checkRow"
        PROVE  \E x \in Things : Kind[x] = Table /\ Agrees(x, Bound, Keys)
    <3>1. CheckRow
      <4>1. ~Use
        BY <2>2 DEF Use, Stop
      <4>2. ~CheckOrder /\ ~Get /\ ~List /\ ~Join /\ ~JoinOne
        BY <2>2 DEF CheckOrder, Get, List, Join, JoinOne, Step
      <4>3. ~Delete /\ ~DeleteRead /\ ~Update /\ ~Insert /\ ~GetOrder /\ ~GetMalfunction
        BY <2>2 DEF Delete, DeleteRead, Update, Insert, GetOrder, GetMalfunction, Step
      <4>4. QED
        BY <1>3, <4>1, <4>2, <4>3 DEF OperationStep
    <3>2. Rows(Table, Bound, Keys) # {}
      BY <2>2, <3>1 DEF CheckRow, Stop
    <3>3. QED
      BY <1>t, <3>2 DEF Rows, TypeOK
  <2>3. CASE pos' = pos + 1
    <3>1. ASSUME NEW l \in DOMAIN call.steps, call.steps[l].do = "checkRow", Len(call.options) + l < pos + 1
          PROVE  \E x \in Things : Kind[x] = Table /\ Agrees(x, call.steps[l].copy, call.steps[l].keys)
      <4>1. CASE Len(call.options) + l < pos
        BY <3>1, <4>1 DEF CheckedInv
      <4>2. CASE l = k
        <5>1. Current = call.steps[l] /\ pos' # pos
          BY <1>t, <2>3, <4>2, PosType DEF Current
        <5>2. QED
          BY <2>2, <3>1, <5>1 DEF Bound, Keys
      <4>3. QED
        BY <1>t, <2>1, <3>1, <4>1, <4>2, NextStep
    <3>2. QED
      BY <2>1, <2>3, <3>1 DEF CheckedInv, Agrees, Held, Table
  <2>4. QED
    BY <1>q, <2>1, <2>3
<1>4. QED
  BY <1>1, <1>2, <1>3 DEF Next, OperationStep

\* The rows of a table that a step gets are those the request asked for.
LEMMA GotIsReadable ==
    ASSUME RequestInv, CheckedInv, ReadsFit(call), Step("get"),
           NEW r \in Rows(Table, Bound, Keys \cup IfSet)
    PROVE  Readable(r)
<1> DEFINE k == pos - Len(call.options)
<1>1. k \in DOMAIN call.steps /\ Bound \in Copies /\ Current = call.steps[k]
  BY NextStep DEF RequestInv, OptionInv, Step, Current
<1>2. \A f \in ReadFields : Finds(call, k, Bound, Keys \cup IfSet, f)
  BY <1>1 DEF ReadsFit, ReadFields, Step, Bound, Keys, IfSet
<1>3. r \in Things /\ Kind[r] = Table /\ Agrees(r, Bound, Keys \cup IfSet)
  BY DEF Rows, RequestInv, OptionInv, TypeOK
<1>4. ReadFields \subseteq Named /\ Whose \subseteq ReadFields
  BY DEF ReadFields, Named, IDs
<1>5. ASSUME NEW f \in ReadFields, asked[f] # {}
      PROVE  Of[r][f] \in asked[f] \cup {None}
  <2>1. InSteps /\ f \in Named
    BY <1>4 DEF Step
  <2>2. QED
    BY <1>1, <1>2, <1>3, <1>5, <2>1, FindsFit
<1>6. QED
  BY <1>3, <1>4, <1>5 DEF Readable, Fits

\* So are those it lists.
LEMMA ListedIsReadable ==
    ASSUME RequestInv, ReadsFit(call), Step("list"),
           NEW r \in Rows(Table, "order", {"AppID", "UserID", "OrderID"}),
           Agrees(r, Bound, {"GoodID", "AppGoodID"})
    PROVE  Readable(r)
<1> DEFINE k == pos - Len(call.options)
<1>1. k \in DOMAIN call.steps /\ Bound \in Copies /\ Current = call.steps[k] /\ "order" \in Copies
  BY NextStep DEF RequestInv, OptionInv, Step, Current, Copies
<1>2. /\ \A f \in {"AppID", "UserID", "OrderID"} : Stored(call, "order", f)
      /\ \A f \in {"GoodID", "AppGoodID"} : Stored(call, Bound, f)
      /\ \A f \in ReadFields \ Whose : ~Asks(call, f)
  BY <1>1 DEF ReadsFit, ReadFields, Step, Bound
<1>3. Kind[r] = Table /\ Agrees(r, "order", {"AppID", "UserID", "OrderID"})
  BY DEF Rows
<1>4. ASSUME NEW f \in ReadFields, asked[f] # {}
      PROVE  Of[r][f] \in asked[f] \cup {None}
  <2>1. f \in Whose /\ f \in Named
    <3>1. f \in Named /\ f \in Fields
      BY NamedFields DEF ReadFields, Named, IDs
    <3>2. Asks(call, f)
      BY <1>4, <3>1 DEF RequestInv, OptionInv, AskedInv, Asks
    <3>3. QED
      BY <1>2, <3>1, <3>2
  <2>2. CASE f \in {"AppID", "UserID", "OrderID"}
    <3>1. Held("order", f) = asked[f]
      BY <1>1, <1>2, <1>4, <2>1, <2>2, HeldIsAsked DEF RequestInv, OptionInv
    <3>2. QED
      BY <1>3, <1>4, <2>2, <3>1 DEF Agrees
  <2>3. CASE f \in {"GoodID", "AppGoodID"}
    <3>1. Held(Bound, f) = asked[f]
      BY <1>1, <1>2, <1>4, <2>1, <2>3, HeldIsAsked DEF RequestInv, OptionInv
    <3>2. QED
      BY <1>4, <2>3, <3>1 DEF Agrees
  <2>4. QED
    BY <2>1, <2>2, <2>3 DEF Whose
<1>5. Whose \subseteq ReadFields
  BY DEF ReadFields
<1>6. QED
  BY <1>3, <1>4, <1>5 DEF Readable, Fits

\* So is the order it asks to compensate.
LEMMA OrderIsReadable ==
    ASSUME RequestInv, ReadsFit(call), Step("getOrder"), NEW r \in Held("order", "OrderID")
    PROVE  Readable(r) /\ r \in asked["OrderID"]
<1>1. "order" \in Copies /\ "OrderID" \in Named
  BY DEF Copies, Named, Whose
<1>2. r \in asked["OrderID"]
  BY <1>1 DEF RequestInv, OptionInv, HeldInv
<1>3. pos - Len(call.options) \in DOMAIN call.steps
  BY NextStep DEF RequestInv, OptionInv, Step
<1>4. /\ \A i \in DOMAIN call.options :
            call.options[i].field = "OrderID" => call.options[i].opt = "OrderID"
      /\ Table # "order"
  BY <1>3 DEF ReadsFit, Step, Current, Table
<1>5. r \in Things /\ Kind[r] = "order" /\ Fits(r, Whose)
  BY <1>2, <1>4, OrderIsAsked DEF RequestInv
<1>6. QED
  BY <1>2, <1>4, <1>5 DEF Readable

\* Whatever is read is the request's.
LEMMA ReadStep ==
    ASSUME RequestInv, CheckedInv, ReadInv, ReadsFit(call), [Next]_vars
    PROVE  ReadInv'
<1>s. ASSUME OperationStep, \A r \in info' : Readable(r) PROVE ReadInv'
  <2>1. InSteps /\ call' = call /\ asked' = asked /\ (pos' = pos + 1 \/ pos' = pos)
    BY <1>s, StepKeepsRequest DEF KeepRequest, Proceed
  <2>2. ~InOptionList'
    <3>1. pos \in Nat /\ Len(call.options) \in Nat
      BY PosType DEF RequestInv, OptionInv
    <3>2. QED
      BY <2>1, <3>1 DEF InSteps, InOptionList
  <2>3. \A r \in info' : Readable(r)'
    BY <1>s, <2>1 DEF Readable, ReadFields, Fits, Table
  <2>4. QED
    BY <2>2, <2>3 DEF ReadInv
<1>i. \A r \in info : Readable(r)
  BY DEF ReadInv
<1>1. CASE Apply
  <2>1. info' = {}
    BY <1>1 DEF Apply, InOptions, ReadInv
  <2>2. QED
    BY <2>1 DEF ReadInv
<1>2. CASE Refuse \/ Answer \/ Vanish \/ UNCHANGED vars
  <2>1. call' = call /\ asked' = asked /\ info' = info /\ pos' = pos
    BY <1>2 DEF Refuse, Answer, Vanish, vars
  <2>2. QED
    BY <2>1 DEF ReadInv, Readable, ReadFields, Fits, Table, InOptionList
<1>3. CASE Use
  BY <1>3, <1>s, <1>i DEF Use, OperationStep
<1>4. CASE CheckOrder
  BY <1>4, <1>s, <1>i DEF CheckOrder, OperationStep
<1>5. CASE CheckRow
  BY <1>5, <1>s, <1>i DEF CheckRow, OperationStep
<1>6. CASE Get
  <2>1. Step("get") /\ (info' = Rows(Table, Bound, Keys \cup IfSet) \/ info' = info)
    BY <1>6 DEF Get
  <2>2. \A r \in info' : Readable(r)
    BY <1>i, <2>1, GotIsReadable
  <2>3. QED
    BY <1>6, <1>s, <2>2 DEF OperationStep
<1>7. CASE List
  <2>1. /\ Step("list")
        /\ \A r \in info' : /\ r \in Rows(Table, "order", {"AppID", "UserID", "OrderID"})
                             /\ Agrees(r, Bound, {"GoodID", "AppGoodID"})
    BY <1>7 DEF List
  <2>2. \A r \in info' : Readable(r)
    BY <2>1, ListedIsReadable
  <2>3. QED
    BY <1>7, <1>s, <2>2 DEF OperationStep
<1>8. CASE Join
  BY <1>8, <1>s, <1>i DEF Join, Shown, OperationStep
<1>9. CASE JoinOne
  BY <1>9, <1>s, <1>i DEF JoinOne, Shown, OperationStep
<1>10. CASE Delete
  BY <1>10, <1>s, <1>i DEF Delete, OperationStep
<1>11. CASE DeleteRead
  BY <1>11, <1>s, <1>i DEF DeleteRead, OperationStep
<1>12. CASE Update
  BY <1>12, <1>s, <1>i DEF Update, OperationStep
<1>13. CASE Insert
  BY <1>13, <1>s, <1>i DEF Insert, OperationStep
<1>14. CASE GetOrder
  <2>1. Step("getOrder") /\ info' \subseteq Held("order", "OrderID")
    BY <1>14 DEF GetOrder
  <2>2. \A r \in info' : Readable(r)
    BY <2>1, OrderIsReadable
  <2>3. QED
    BY <1>14, <1>s, <2>2 DEF OperationStep
<1>15. CASE GetMalfunction
  BY <1>15, <1>s, <1>i DEF GetMalfunction, OperationStep
<1>16. QED
  BY <1>1, <1>2, <1>3, <1>4, <1>5, <1>6, <1>7, <1>8, <1>9, <1>10, <1>11, <1>12, <1>13,
     <1>14, <1>15 DEF Next

\* The answer of any endpoint.
THEOREM ReadInvariant ==
    (\A e \in Calls : WellOrdered(e) /\ NamesFit(e) /\ OwnersFit(e) /\ ReadsFit(e)) =>
        (Spec => [](RequestInv /\ CheckedInv /\ ReadInv))
<1> SUFFICES ASSUME \A e \in Calls : WellOrdered(e) /\ NamesFit(e) /\ OwnersFit(e) /\ ReadsFit(e)
             PROVE  Spec => [](RequestInv /\ CheckedInv /\ ReadInv)
  OBVIOUS
<1> DEFINE Inv == RequestInv /\ RefusedForAReason /\ CheckedInv /\ ReadInv
<1>1. Init => Inv
  <2> SUFFICES ASSUME Init PROVE Inv
    OBVIOUS
  <2>1. RequestInv /\ RefusedForAReason
    BY InitSet, OptionInit DEF RequestInv
  <2>2. \A l \in DOMAIN call.steps : ~(Len(call.options) + l < pos)
    <3>1. /\ Len(call.options) \in Nat /\ pos = 1
          /\ \A l \in DOMAIN call.steps : l \in Nat /\ l >= 1
      BY CallShape DEF Init
    <3>2. QED
      BY <3>1
  <2>3. QED
    BY <2>1, <2>2 DEF CheckedInv, ReadInv, Init
<1>2. Inv /\ [Next]_vars => Inv'
  <2> SUFFICES ASSUME Inv, [Next]_vars PROVE Inv'
    OBVIOUS
  <2>1. RequestInv' /\ RefusedForAReason'
    BY StepKeepsSet, StepKeepsOptions DEF RequestInv
  <2>2. ReadsFit(call)
    BY DEF RequestInv, OptionInv, TypeOK
  <2>3. CheckedInv' /\ ReadInv'
    BY <2>2, CheckedStep, ReadStep
  <2>4. QED
    BY <2>1, <2>3
<1>3. Inv => RequestInv /\ CheckedInv /\ ReadInv
  OBVIOUS
<1> HIDE DEF Inv
<1>4. QED
  BY <1>1, <1>2, <1>3, PTL DEF Spec

\* If every endpoint that reads rows compares them with what the request names
\* (ReadsFit), itself or by the order or by a row it checked before, the rows
\* answered agree with all of it (AnswerFits), whatever was deleted meanwhile.
THEOREM Answers ==
    (\A e \in Calls : WellOrdered(e) /\ NamesFit(e) /\ OwnersFit(e) /\ ReadsFit(e)) =>
        (Spec => []AnswerFits)
<1> SUFFICES ASSUME \A e \in Calls : WellOrdered(e) /\ NamesFit(e) /\ OwnersFit(e) /\ ReadsFit(e)
             PROVE  Spec => []AnswerFits
  OBVIOUS
<1>1. Spec => [](RequestInv /\ CheckedInv /\ ReadInv)
  BY ReadInvariant
<1>2. ReadInv => AnswerFits
  BY DEF ReadInv, Readable, AnswerFits, Whose
<1>3. QED
  BY <1>1, <1>2, PTL

\* The rows that were written; what a compensation is derived from.
WrittenFields == {"AppID", "UserID", "OrderID"} \cup IDs(call)
Writable(r) ==
    /\ Kind[r] = Table => Fits(r, WrittenFields)
    /\ Kind[r] = "malfunction" => \A o \in asked["OrderID"] : Of[r].GoodID = Of[o].GoodID
WrittenInv ==
    /\ InOptionList => written = {}
    /\ \A r \in written : Writable(r)
    /\ Does(call, "getMalfunction") => info \subseteq asked["OrderID"]

\* The rows that a step writes are those the request named.
LEMMA MatchedIsWritable ==
    ASSUME RequestInv, CheckedInv, WritesFit(call), InSteps, Current.do \in {"delete", "update", "insert"},
           NEW r \in Things, Kind[r] = Table, Agrees(r, Bound, Keys)
    PROVE  Writable(r)
<1> DEFINE k == pos - Len(call.options)
<1>1. k \in DOMAIN call.steps /\ Bound \in Copies /\ Current = call.steps[k]
  BY NextStep DEF RequestInv, OptionInv, Current
<1>2. \A f \in WrittenFields : Finds(call, k, Bound, Keys, f)
  BY <1>1 DEF WritesFit, WrittenFields, Bound, Keys
<1>3. WrittenFields \subseteq Named
  BY DEF WrittenFields, Named, Whose, IDs
<1>4. ASSUME NEW f \in WrittenFields, asked[f] # {}
      PROVE  Of[r][f] \in asked[f] \cup {None}
  <2>1. f \in Named
    BY <1>3
  <2>2. QED
    BY <1>1, <1>2, <1>4, <2>1, FindsFit
<1>5. Kind[r] # "malfunction"
  BY DEF WritesFit, Table
<1>6. QED
  BY <1>4, <1>5 DEF Writable, Fits

\* So are the records it has read.
LEMMA ReadIsWritable ==
    ASSUME ReadInv, WritesFit(call), Does(call, "deleteRead"), NEW r \in info
    PROVE  Writable(r)
<1>1. Readable(r)
  BY DEF ReadInv
<1>2. WrittenFields \subseteq ReadFields
  BY DEF WrittenFields, ReadFields, Whose
<1>3. Kind[r] # "malfunction"
  BY <1>1 DEF Readable, WritesFit, Table
<1>4. QED
  BY <1>1, <1>2, <1>3 DEF Readable, Writable, Fits

\* And the malfunction is one of the order's good.
LEMMA MalfunctionIsWritable ==
    ASSUME RequestInv, WrittenInv, WritesFit(call), Does(call, "getMalfunction"), NEW goods,
           goods = IF Held("order", "GoodID") # {} THEN Held("order", "GoodID") ELSE {Of[o].GoodID : o \in info},
           NEW m \in Held("order", "CompensateFromID"), m \in Things, Of[m].GoodID \in goods
    PROVE  Writable(m)
<1>1. /\ "order" \in Copies /\ {"CompensateFromID", "GoodID"} \subseteq Named
      /\ {"CompensateFromID", "GoodID", "OrderID"} \subseteq Fields \ Lists
  BY DEF Copies, Named, Whose, Fields, Lists
<1>2. m \in asked["CompensateFromID"]
  BY <1>1 DEF RequestInv, OptionInv, HeldInv
<1>3. Kind[m] = "malfunction"
  <2>1. PICK i \in DOMAIN call.options : i < pos /\ call.options[i].field = "CompensateFromID"
    BY <1>1, <1>2 DEF RequestInv, OptionInv, AskedInv
  <2>2. call.options[i].opt = "CompensateFromID"
    BY <2>1 DEF WritesFit
  <2>3. QED
    BY <1>2, <2>1, <2>2 DEF RequestInv, OptionInv, AcceptedInv
<1>4. ASSUME NEW o \in asked["OrderID"]
      PROVE  Of[m]["GoodID"] = Of[o]["GoodID"]
  <2>1. o \in Things /\ Kind[o] = "order" /\ Fits(o, Whose)
    BY OrderIsAsked DEF RequestInv, WritesFit
  <2>2. Of[o]["GoodID"] # None
    BY <2>1, ThingsAssumption DEF Has, Whose
  <2>3. CASE Held("order", "GoodID") # {}
    <3>1. goods = asked["GoodID"] /\ asked["GoodID"] # {}
      BY <1>1, <2>3 DEF RequestInv, OptionInv, HeldInv
    <3>2. Of[o]["GoodID"] \in asked["GoodID"] /\ Of[m]["GoodID"] \in asked["GoodID"]
      BY <2>1, <2>2, <3>1 DEF Fits, Whose
    <3>3. QED
      BY <1>1, <3>2 DEF RequestInv, OptionInv, SingleInv
  <2>4. CASE Held("order", "GoodID") = {}
    <3>1. PICK p \in info : Of[m]["GoodID"] = Of[p]["GoodID"]
      BY <2>4
    <3>2. p \in asked["OrderID"]
      BY <3>1 DEF WrittenInv
    <3>3. p = o
      BY <1>1, <3>2 DEF RequestInv, OptionInv, SingleInv
    <3>4. QED
      BY <3>1, <3>3
  <2>5. QED
    BY <2>3, <2>4
<1>5. Kind[m] # Table
  BY <1>3 DEF WritesFit, Table
<1>6. QED
  BY <1>4, <1>5 DEF Writable

\* The endpoint has the step it takes.
LEMMA StepIsDone ==
    ASSUME RequestInv, NEW do, Step(do)
    PROVE  Does(call, do)
BY NextStep DEF RequestInv, OptionInv, Step, Current, Does

\* Whatever is written is what the request named.
LEMMA WrittenStep ==
    ASSUME RequestInv, CheckedInv, ReadInv, WrittenInv, ReadsFit(call), WritesFit(call), [Next]_vars
    PROVE  WrittenInv'
<1>t. written \subseteq Things /\ there \subseteq Things
  BY DEF RequestInv, OptionInv, TypeOK
<1>w. \A r \in written : Writable(r)
  BY DEF WrittenInv
<1>i. Does(call, "getMalfunction") => info \subseteq asked["OrderID"]
  BY DEF WrittenInv
<1>s. ASSUME OperationStep, \A r \in written' : Writable(r),
             Does(call, "getMalfunction") => info' \subseteq asked["OrderID"]
      PROVE  WrittenInv'
  <2>1. InSteps /\ call' = call /\ asked' = asked /\ (pos' = pos + 1 \/ pos' = pos)
    BY <1>s, StepKeepsRequest DEF KeepRequest, Proceed
  <2>2. ~InOptionList'
    <3>1. pos \in Nat /\ Len(call.options) \in Nat
      BY PosType DEF RequestInv, OptionInv
    <3>2. QED
      BY <2>1, <3>1 DEF InSteps, InOptionList
  <2>3. \A r \in written' : Writable(r)'
    BY <1>s, <2>1 DEF Writable, WrittenFields, Fits, Table
  <2>4. Does(call, "getMalfunction")' <=> Does(call, "getMalfunction")
    BY <2>1
  <2>5. QED
    BY <1>s, <2>1, <2>2, <2>3, <2>4 DEF WrittenInv
<1>d. ASSUME NEW do \in {"get", "list", "delete", "deleteRead", "update", "insert"}, Step(do)
      PROVE  ~Does(call, "getMalfunction")
  BY <1>d, StepIsDone DEF WritesFit
<1>m. ASSUME NEW do \in {"delete", "update", "insert"}, Step(do),
             NEW r \in Things, Kind[r] = Table, Agrees(r, Bound, Keys)
      PROVE  Writable(r)
  BY <1>m, MatchedIsWritable DEF Step
<1>1. CASE Apply
  <2>1. /\ call' = call /\ info' = {} /\ written' = {}
    BY <1>1 DEF Apply, InOptions, ReadInv, WrittenInv
  <2>2. QED
    BY <2>1 DEF WrittenInv
<1>2. CASE Refuse \/ Answer \/ Vanish \/ UNCHANGED vars
  <2>1. /\ call' = call /\ asked' = asked /\ info' = info /\ written' = written /\ pos' = pos
    BY <1>2 DEF Refuse, Answer, Vanish, vars
  <2>2. QED
    BY <2>1 DEF WrittenInv, Writable, WrittenFields, Fits, Table, InOptionList
<1>3. CASE Use
  BY <1>3, <1>s, <1>w, <1>i DEF Use, OperationStep
<1>4. CASE CheckOrder
  BY <1>4, <1>s, <1>w, <1>i DEF CheckOrder, OperationStep
<1>5. CASE CheckRow
  BY <1>5, <1>s, <1>w, <1>i DEF CheckRow, OperationStep
<1>6. CASE Get
  <2>1. ~Does(call, "getMalfunction") /\ written' = written
    BY <1>6, <1>d DEF Get
  <2>2. QED
    BY <1>6, <1>s, <1>w, <2>1 DEF OperationStep
<1>7. CASE List
  <2>1. ~Does(call, "getMalfunction") /\ written' = written
    BY <1>7, <1>d DEF List
  <2>2. QED
    BY <1>7, <1>s, <1>w, <2>1 DEF OperationStep
<1>8. CASE Join
  BY <1>8, <1>s, <1>w, <1>i DEF Join, Shown, OperationStep
<1>9. CASE JoinOne
  BY <1>9, <1>s, <1>w, <1>i DEF JoinOne, Shown, OperationStep
<1>10. CASE Delete
  <2>1. Step("delete") /\ (written' = Rows(Table, Bound, Keys) \/ written' = written)
    BY <1>10 DEF Delete
  <2>2. \A r \in written' : Writable(r)
    BY <1>t, <1>w, <1>m, <2>1 DEF Rows
  <2>3. QED
    BY <1>10, <1>d, <1>s, <2>1, <2>2 DEF OperationStep
<1>11. CASE DeleteRead
  <2>1. Step("deleteRead") /\ (written' = info \/ written' = written)
    BY <1>11 DEF DeleteRead
  <2>2. \A r \in written' : Writable(r)
    BY <1>w, <2>1, StepIsDone, ReadIsWritable
  <2>3. QED
    BY <1>11, <1>d, <1>s, <2>1, <2>2 DEF OperationStep
<1>12. CASE Update
  <2>1. Step("update") /\ (written' = Rows(Table, Bound, Keys) \/ written' = written)
    BY <1>12 DEF Update
  <2>2. \A r \in written' : Writable(r)
    BY <1>t, <1>w, <1>m, <2>1 DEF Rows
  <2>3. QED
    BY <1>12, <1>d, <1>s, <2>1, <2>2 DEF OperationStep
<1>13. CASE Insert
  <2>1. /\ Step("insert")
        /\ \/ \E r \in Fleeting : Kind[r] = Table /\ Agrees(r, Bound, Keys) /\ written' = {r}
           \/ written' = written
    BY <1>13 DEF Insert
  <2>2. \A r \in written' : Writable(r)
    BY <1>w, <1>m, <2>1, FleetingAssumption
  <2>3. QED
    BY <1>13, <1>d, <1>s, <2>1, <2>2 DEF OperationStep
<1>14. CASE GetOrder
  <2>1. Step("getOrder") /\ info' \subseteq Held("order", "OrderID") /\ written' = written
    BY <1>14 DEF GetOrder
  <2>2. info' \subseteq asked["OrderID"]
    BY <2>1, OrderIsReadable
  <2>3. QED
    BY <1>14, <1>s, <1>w, <2>1, <2>2 DEF OperationStep
<1>15. CASE GetMalfunction
  <2> DEFINE goods == IF Held("order", "GoodID") # {} THEN Held("order", "GoodID")
                      ELSE {Of[o].GoodID : o \in info}
             found == {m \in Held("order", "CompensateFromID") \cap there : Of[m].GoodID \in goods}
  <2>1. Step("getMalfunction") /\ (written' = found \/ written' = written)
    BY <1>15 DEF GetMalfunction
  <2>2. \A m \in found : Writable(m)
    <3>1. Does(call, "getMalfunction")
      BY <2>1, StepIsDone
    <3>2. goods = IF Held("order", "GoodID") # {} THEN Held("order", "GoodID")
                  ELSE {Of[o].GoodID : o \in info}
      OBVIOUS
    <3>3. \A m \in found : /\ m \in Held("order", "CompensateFromID") /\ m \in Things
                           /\ Of[m].GoodID \in goods
      BY <1>t
    <3> HIDE DEF goods, found
    <3>4. QED
      BY <3>1, <3>2, <3>3, MalfunctionIsWritable
  <2>3. \A r \in written' : Writable(r)
    BY <1>w, <2>1, <2>2
  <2>4. QED
    BY <1>15, <1>s, <1>i, <2>3 DEF GetMalfunction, OperationStep
<1>16. QED
  BY <1>1, <1>2, <1>3, <1>4, <1>5, <1>6, <1>7, <1>8, <1>9, <1>10, <1>11, <1>12, <1>13,
     <1>14, <1>15 DEF Next

\* If every endpoint that writes rows compares them with what the request names
\* (WritesFit), whatever it updates, deletes or compensates is the application's,
\* the user's and the order's that the request named (WrittenFits).
THEOREM Writes ==
    (\A e \in Calls : WellOrdered(e) /\ NamesFit(e) /\ OwnersFit(e) /\ ReadsFit(e) /\ WritesFit(e)) =>
        (Spec => []WrittenFits)
<1> SUFFICES ASSUME \A e \in Calls : /\ WellOrdered(e) /\ NamesFit(e) /\ OwnersFit(e)
                                    /\ ReadsFit(e) /\ WritesFit(e)
             PROVE  Spec => []WrittenFits
  OBVIOUS
<1> DEFINE Inv == RequestInv /\ CheckedInv /\ ReadInv
<1>1. Spec => []Inv
  BY ReadInvariant
<1>2. Init => WrittenInv
  BY CallShape DEF Init, WrittenInv
<1>3. Inv /\ WrittenInv /\ [Next]_vars => WrittenInv'
  <2> SUFFICES ASSUME Inv, WrittenInv, [Next]_vars PROVE WrittenInv'
    OBVIOUS
  <2>1. ReadsFit(call) /\ WritesFit(call)
    BY DEF RequestInv, OptionInv, TypeOK
  <2>2. QED
    BY <2>1, WrittenStep
<1>4. WrittenInv => WrittenFits
  <2> SUFFICES ASSUME WrittenInv PROVE WrittenFits
    OBVIOUS
  <2>1. RowsFit
    <3>1. WrittenFields = {"AppID", "UserID", "OrderID", "EntID"} \cup (IF Table = "outOfGas" THEN {} ELSE {"ID"})
      BY DEF WrittenFields, IDs, Table
    <3>2. \A r \in written : Kind[r] = Table => Fits(r, WrittenFields)
      BY DEF WrittenInv, Writable
    <3>3. QED
      BY <3>1, <3>2 DEF RowsFit
  <2>2. MalfunctionFits
    BY DEF WrittenInv, Writable, MalfunctionFits
  <2>3. QED
    BY <2>1, <2>2 DEF WrittenFits
<1> HIDE DEF Inv
<1>5. QED
  BY <1>1, <1>2, <1>3, <1>4, PTL DEF Spec

=============================================================================
