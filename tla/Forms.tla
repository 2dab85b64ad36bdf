-------------------------------- MODULE Forms --------------------------------
(***************************************************************************)
(* The tree of controls of packages/forms/src/model.ts: classes             *)
(* AbstractControl, FormControl and FormGroup, with asynchronous            *)
(* validators that answer while the application goes on.                    *)
(*                                                                         *)
(* A call of the application is synchronous and one action: what it does    *)
(* below the control, at it and at all its ancestors.  So is the answer of  *)
(* an asynchronous validator.  Calls have neither onlySelf (the recursion   *)
(* inside the classes has) nor emitEvent: false (the constructors have),    *)
(* the form is not bound to directives, and validators decide as they like. *)
(***************************************************************************)
EXTENDS Naturals, Sequences

CONSTANTS Leaf, Group,   \* the FormControls and the FormGroups
          BottomUp,      \* all of them, each after those it may contain
          Children,      \* of each group, as constructed
          Movable,       \* the leaves that are added and removed later
          Sync, Async,   \* the controls with a validator, with an asyncValidator
          Value,         \* of a leaf
          NoControl

Control == Leaf \cup Group
Position == 1..Len(BottomUp)

ASSUME FormsAssumption ==
  /\ Leaf \cap Group = {} /\ NoControl \notin Control
  /\ BottomUp \in Seq(Control) /\ Control = {BottomUp[i] : i \in Position}
  /\ Children \in [Group -> SUBSET Control] /\ Movable \subseteq Leaf
  /\ \A g, h \in Group : g # h => Children[g] \cap Children[h] = {}
  /\ \A i, j \in Position :
       /\ BottomUp[i] = BottomUp[j] => i = j
       /\ BottomUp[j] \in Group /\ BottomUp[i] \in Children[BottomUp[j]] \cup Movable => i < j
  /\ Sync \subseteq Control /\ Async \subseteq Control

Status == {"VALID", "INVALID", "PENDING", "DISABLED"}

VARIABLES form,      \* the fields of each control
          approved,  \* history: the value was approved by an asynchronous answer
          manual     \* history: the application has called setErrors()
vars == <<form, approved, manual>>

------------------------------------------------------------------------------
(* The tree.  A removed control keeps its _parent. *)

Below(f, c) ==
  LET closed == {S \in SUBSET Control : c \in S /\ \A j \in S : f[j].children \subseteq S}
  IN  {k \in Control : \A S \in closed : k \in S}
Up(f, c) ==
  LET closed == {S \in SUBSET Control :
                   c \in S /\ \A j \in S : f[j].parent \in S \cup {NoControl}}
  IN  {k \in Control : \A S \in closed : k \in S}

------------------------------------------------------------------------------
(* What a call does to one control, which has the fields n, when the form is *)
(* f: the controls below it are done.                                       *)

Enabled(n) == n.status # "DISABLED"

AllControlsDisabled(f, n) ==
  /\ \A k \in n.children : ~Enabled(f[k])
  /\ n.children = {} => ~Enabled(n)

CalculateStatus(f, n) ==
  LET AnyControlsHave(s) == \E k \in n.children : f[k].status = s
  IN  IF AllControlsDisabled(f, n)                   THEN "DISABLED"
      ELSE IF n.errors                               THEN "INVALID"
      ELSE IF n.own \/ AnyControlsHave("PENDING")    THEN "PENDING"
      ELSE IF AnyControlsHave("INVALID")             THEN "INVALID"
      ELSE "VALID"

\* An object, as the set of its entries.
ReduceValue(f, n) ==
  {<<k, f[k].value>> : k \in {j \in n.children : Enabled(f[j]) \/ ~Enabled(n)}}

WithValue(f, c, n) ==
  IF c \in Leaf THEN n ELSE [n EXCEPT !.value = ReduceValue(f, n)]

Emitted(n) == [n EXCEPT !.told = n.status]

\* Fault: a subscription is only ever replaced by the next one.
CancelledNever(n) == n

Cancelled(n) == [n EXCEPT !.run = {}, !.own = FALSE]

\* A subscription for each run, which answers later: the only one there is.
AsyncStarted(c, n, emit) ==
  IF c \notin Async THEN n
  ELSE [n EXCEPT !.status = "PENDING", !.own = TRUE,
                 !.run = {[value |-> n.value, emit |-> emit]}]

Validated(f, c, n, bad, emit) ==
  LET checked == [Cancelled(n) EXCEPT !.errors = c \in bad]
      known   == [checked EXCEPT !.status = CalculateStatus(f, checked)]
  IN  IF known.status \in {"VALID", "PENDING"} THEN AsyncStarted(c, known, emit) ELSE known

\* updateValueAndValidity().  bad: the controls whose synchronous validators
\* find an error in this call.
UpdatedSelf(f, c, n, bad, emit) ==
  LET initial == [n EXCEPT !.status = IF AllControlsDisabled(f, n) THEN "DISABLED" ELSE "VALID"]
      valued  == WithValue(f, c, initial)
      updated == IF Enabled(valued) THEN Validated(f, c, valued, bad, emit) ELSE valued
  IN  IF emit THEN Emitted(updated) ELSE updated

\* Fault: a control does not tell that it was disabled.
DisabledQuietly(f, c, n) ==
  WithValue(f, c, [n EXCEPT !.status = "DISABLED", !.errors = FALSE])

DisabledSelf(f, c, n) ==
  Emitted(WithValue(f, c, [n EXCEPT !.status = "DISABLED", !.errors = FALSE]))

\* _updateControlsErrors()
RecalculatedSelf(f, n, emit) ==
  LET known == [n EXCEPT !.status = CalculateStatus(f, n)]
  IN  IF emit THEN Emitted(known) ELSE known

Done(f, c, n, call) ==
  CASE call.name = "update"      -> UpdatedSelf(f, c, n, call.bad, call.emit)
    [] call.name = "disable"     -> DisabledSelf(f, c, n)
    [] call.name = "recalculate" -> RecalculatedSelf(f, n, call.emit)

------------------------------------------------------------------------------
(* What it does to each of a set of controls, children before parents.       *)

Cascade(f, S, call) ==
  LET after[i \in 0..Len(BottomUp)] ==
        IF i = 0 THEN f
        ELSE LET g == after[i - 1]
             IN  IF BottomUp[i] \notin S THEN g
                 ELSE [g EXCEPT ![BottomUp[i]] = Done(g, BottomUp[i], @, call)]
  IN  after[Len(BottomUp)]

Updated(f, S, bad, emit) == Cascade(f, S, [name |-> "update", bad |-> bad, emit |-> emit])
Disabled(f, S) == Cascade(f, S, [name |-> "disable"])
Recalculated(f, S, emit) == Cascade(f, S, [name |-> "recalculate", emit |-> emit])

\* Fault: the ancestors keep their status.
WithErrorsHere(f, c, found, emit) ==
  Recalculated([f EXCEPT ![c].errors = found], {c}, emit)

WithErrors(f, c, found, emit) ==
  Recalculated([f EXCEPT ![c].errors = found], Up(f, c), emit)

------------------------------------------------------------------------------
\* The types of the variables and of the fields of each control (model.ts:152-345).
TypeOK ==
  /\ approved \in [Async -> BOOLEAN] /\ manual \in BOOLEAN
  /\ DOMAIN form = Control
  /\ \A c \in Control :
       /\ form[c].parent \in Group \cup {NoControl}
       /\ form[c].status \in Status
       /\ form[c].told \in Status \cup {"nothing"}
       /\ form[c].errors \in BOOLEAN /\ form[c].own \in BOOLEAN
       /\ form[c].run # {} => c \in Async
       /\ \A r \in form[c].run : r.emit \in BOOLEAN
       /\ IF c \in Leaf THEN form[c].children = {} /\ form[c].value \in Value
          ELSE form[c].children \subseteq Control

\* The constructors, from the leaves up: each validates itself, silently.
Constructed(bad, vals) ==
  Updated([c \in Control |->
             [children |-> IF c \in Group THEN Children[c] ELSE {},
              parent   |-> IF \E g \in Group : c \in Children[g]
                           THEN CHOOSE g \in Group : c \in Children[g] ELSE NoControl,
              value    |-> IF c \in Leaf THEN vals[c] ELSE {},
              status   |-> "VALID", errors |-> FALSE,
              own      |-> FALSE, run |-> {}, told |-> "nothing"]],
          Control, bad, FALSE)

Init ==
  /\ approved = [c \in Async |-> FALSE] /\ manual = FALSE
  /\ \E bad \in SUBSET Sync, vals \in [Leaf -> Value] : form = Constructed(bad, vals)

\* The form after a call; a value that has changed is not approved.
Become(f) ==
  /\ form' = f
  /\ approved' = [c \in Async |-> approved[c] /\ f[c].value = form[c].value]

------------------------------------------------------------------------------
(* setValue() and reset() give a value to each leaf below, patchValue() to   *)
(* those it names; groups it does not name are left alone.  With the values  *)
(* they have these are calls of updateValueAndValidity().                   *)

Named(c) ==
  {S \in SUBSET Below(form, c) : c \in S /\ \A k \in S \ {c} : form[k].parent \in S}

Patched(vals) ==
  [k \in Control |-> IF k \in DOMAIN vals THEN [form[k] EXCEPT !.value = vals[k]] ELSE form[k]]

PatchValue(c) ==
  /\ LET up == Up(form, c)
     IN  \E S \in Named(c), bad \in SUBSET Sync :
           \E vals \in [S \cap Leaf -> Value] :
             Become(Updated(Patched(vals), S \cup up, bad, TRUE))
  /\ UNCHANGED manual

\* The subtree first; its subscriptions go on.
Disable(c) ==
  /\ LET off == Disabled(form, Below(form, c))
     IN  \E bad \in SUBSET Sync : Become(Updated(off, Up(form, c) \ {c}, bad, TRUE))
  /\ UNCHANGED manual

\* Each control is VALID before it is updated, and a child before its parent.
Enabling(S) ==
  [k \in Control |-> IF k \in S THEN [form[k] EXCEPT !.status = "VALID"] ELSE form[k]]

Enable(c) ==
  /\ LET below == Below(form, c)
     IN  \E bad \in SUBSET Sync :
           Become(Updated(Enabling(below), below \cup Up(form, c), bad, TRUE))
  /\ UNCHANGED manual

SetErrors(c) ==
  /\ \E found \in BOOLEAN : Become(WithErrors(form, c, found, TRUE))
  /\ manual' = TRUE

------------------------------------------------------------------------------
(* Leaves come and go. *)

Without(f, g, c) == [f EXCEPT ![g].children = @ \ {c}]
With(f, g, c) == [f EXCEPT ![g].children = @ \cup {c}, ![c].parent = g]
Free(c) == \A g \in Group : c \notin form[g].children

AddControl(g, c) ==
  /\ Free(c)
  /\ \E bad \in SUBSET Sync : Become(Updated(With(form, g, c), Up(form, g), bad, TRUE))
  /\ UNCHANGED manual

RemoveControl(g, c) ==
  /\ c \in form[g].children
  /\ \E bad \in SUBSET Sync : Become(Updated(Without(form, g, c), Up(form, g), bad, TRUE))
  /\ UNCHANGED manual

SetControl(g, old, c) ==
  /\ old \in form[g].children /\ Free(c)
  /\ \E bad \in SUBSET Sync :
       Become(Updated(With(Without(form, g, old), g, c), Up(form, g), bad, TRUE))
  /\ UNCHANGED manual

------------------------------------------------------------------------------
(* An asynchronous validator answers: the flag is reset before setErrors(). *)

\* Fault: the flag is still set when the status is calculated.
AnsweredFlagKept(f, c) == [f EXCEPT ![c].run = {}]

Answered(f, c) == [f EXCEPT ![c].own = FALSE, ![c].run = {}]

Answer(c) ==
  /\ \E r \in form[c].run, found \in BOOLEAN :
       /\ form' = WithErrors(Answered(form, c), c, found, r.emit)
       /\ approved' = [approved EXCEPT ![c] = ~found /\ r.value = form[c].value]
  /\ UNCHANGED manual

------------------------------------------------------------------------------
Call ==
  \/ \E c \in Control : PatchValue(c) \/ Disable(c) \/ Enable(c) \/ SetErrors(c)
  \/ \E g \in Group, c \in Movable :
       \/ AddControl(g, c)
       \/ RemoveControl(g, c)
       \/ \E old \in Leaf : SetControl(g, old, c)
Next == Call \/ \E c \in Async : Answer(c)
Spec == Init /\ [][Next]_vars

------------------------------------------------------------------------------
\* model.ts:852-858 and 1620-1628: however calls and answers come, at each control
\* of the tree the status and the value are those computed from its children, its
\* errors and its validation as they are now.  Calls recompute the path to the
\* root, and other parts of the tree only if they have changed them.
TreeInSync ==
  \A c \in Control :
    /\ form[c].status = CalculateStatus(form, form[c])
    /\ c \in Group => form[c].value = ReduceValue(form, form[c])

\* A control with an asynchronous validator is VALID only if the validator has
\* accepted the value it has now (model.ts:649, 653-655: older runs are cancelled,
\* and VALID and PENDING are validated again), until the application sets errors.
ApprovedIfValid == \A c \in Async : form[c].status = "VALID" => approved[c]
ValidIsApproved == ~manual => ApprovedIfValid

\* model.ts:682-702: nobody waits for nothing.  While a control is PENDING
\* some validator at or below it still runs, so that its answer will change that; a
\* flag that outlives its subscription would leave the form PENDING for ever.
PendingAwaits ==
  \A c \in Control :
    form[c].status = "PENDING" => \E k \in Below(form, c) : form[k].run # {}

\* model.ts:324-325, 'emits an event every time the validation `status` of the
\* control recalculates': whoever listens to the events of a control knows its
\* status, unless a validation that was started without events is under way.
Silent == \E c \in Async : \E r \in form[c].run : ~r.emit
Informed(c) == form[c].told = form[c].status
StatusIsTold == [][\A c \in Control : Informed(c) /\ ~Silent => Informed(c)']_vars

\* The same without the exception: who was told that a control is PENDING can
\* still be told what becomes of it.
ToldPendingAwaits ==
  \A c \in Control :
    form[c].told = "PENDING" => \E k \in Below(form, c) : form[k].run # {}
===============================================================================
