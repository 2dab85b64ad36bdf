----------------------------- MODULE FormsProofs ------------------------------
(***************************************************************************)
(* Proofs about Forms, for any tree of controls, values and validators: the *)
(* status and the value of every control agree with those below it, VALID  *)
(* means that the present value was accepted, PENDING that an answer will   *)
(* come, and listeners are told.                                           *)
(***************************************************************************)
EXTENDS Forms, SequenceTheorems, NaturalsInduction, WellFoundedInduction, TLAPS

-------------------------------------------------------------------------------
(***************************************************************************)
(* The fields of one control, and what a call does to them.                *)
(***************************************************************************)
IsNode(n) ==
  /\ n = [children |-> n.children, parent |-> n.parent, value |-> n.value,
          status |-> n.status, errors |-> n.errors, own |-> n.own, run |-> n.run,
          told |-> n.told]
  /\ n.errors \in BOOLEAN /\ n.own \in BOOLEAN
  /\ n.status \in Status /\ n.told \in Status \cup {"nothing"}
  /\ \A r \in n.run : r.emit \in BOOLEAN
  /\ n.own <=> n.run # {}

\* The status and the value of a control are those that follow from the form.
InSync(f, c, n) ==
  /\ n.status = CalculateStatus(f, n)
  /\ c \in Group => n.value = ReduceValue(f, n)

\* An asynchronous validator is asked about the value the control has.
Asked(n) == n.status # "DISABLED" /\ n.own => ~n.errors /\ \A r \in n.run : r.value = n.value

LEMMA StatusCases ==
  ASSUME NEW f, NEW n
  PROVE  /\ CalculateStatus(f, n) \in Status
         /\ CalculateStatus(f, n) = "DISABLED" <=> AllControlsDisabled(f, n)
BY DEF CalculateStatus, Status

\* What a status follows from.
LEMMA SameStatus ==
  ASSUME NEW f, NEW g, NEW m, NEW n, m.children = n.children,
         \A k \in n.children : f[k].status = g[k].status,
         n.children = {} => (Enabled(m) <=> Enabled(n))
  PROVE  /\ AllControlsDisabled(f, m) <=> AllControlsDisabled(g, n)
         /\ (m.errors <=> n.errors) /\ (m.own <=> n.own) => CalculateStatus(f, m) = CalculateStatus(g, n)
<1>1. AllControlsDisabled(f, m) <=> AllControlsDisabled(g, n)
  BY DEF AllControlsDisabled, Enabled
<1>2. \A s : (\E k \in m.children : f[k].status = s) <=> (\E k \in n.children : g[k].status = s)
  OBVIOUS
<1> QED
  BY <1>1, <1>2 DEF CalculateStatus

\* What a value follows from.
LEMMA SameValue ==
  ASSUME NEW f, NEW g, NEW m, NEW n, m.children = n.children,
         \A k \in n.children : f[k].value = g[k].value /\ (Enabled(f[k]) <=> Enabled(g[k])),
         Enabled(m) <=> Enabled(n)
  PROVE  ReduceValue(f, m) = ReduceValue(g, n)
BY DEF ReduceValue

\* updateValueAndValidity() at a control.
LEMMA UpdatedNode ==
  ASSUME NEW f, NEW c \in Control, NEW n, IsNode(n), n.run # {} => c \in Async,
         NEW bad, NEW emit \in BOOLEAN
  PROVE  LET m == UpdatedSelf(f, c, n, bad, emit)
         IN  /\ IsNode(m) /\ m.children = n.children /\ m.parent = n.parent
             /\ c \in Leaf => m.value = n.value
             /\ m.run # {} => c \in Async
             /\ m.told = IF emit THEN m.status ELSE n.told
             /\ c \in Async => m.status # "VALID" /\ (m.status = "PENDING" => m.own)
             /\ Asked(m)
             /\ InSync(f, c, m)
<1>1. PICK e \in {TRUE, FALSE} : e <=> (c \in bad)
  OBVIOUS
<1> DEFINE initial == [n EXCEPT !.status = IF AllControlsDisabled(f, n) THEN "DISABLED" ELSE "VALID"]
           valued  == WithValue(f, c, initial)
           checked == [Cancelled(valued) EXCEPT !.errors = e]
           known   == [checked EXCEPT !.status = CalculateStatus(f, checked)]
           started == AsyncStarted(c, known, emit)
           last    == IF ~Enabled(valued) THEN valued
                      ELSE IF known.status \in {"VALID", "PENDING"} THEN started ELSE known
           m       == IF emit THEN Emitted(last) ELSE last
<1>2. m = UpdatedSelf(f, c, n, bad, emit)
  BY <1>1 DEF UpdatedSelf, Validated
<1>3. /\ IsNode(initial) /\ initial.children = n.children /\ initial.parent = n.parent
      /\ initial.run = n.run /\ initial.told = n.told /\ initial.errors = n.errors
      /\ initial.own = n.own /\ initial.value = n.value
      /\ initial.status = IF AllControlsDisabled(f, n) THEN "DISABLED" ELSE "VALID"
  BY DEF IsNode, Status
<1> HIDE DEF initial
<1>4. /\ IsNode(valued) /\ valued.children = n.children /\ valued.parent = n.parent
      /\ valued.run = n.run /\ valued.told = n.told /\ valued.errors = n.errors /\ valued.own = n.own
      /\ valued.status = IF AllControlsDisabled(f, n) THEN "DISABLED" ELSE "VALID"
      /\ c \in Leaf => valued.value = n.value
      /\ c \in Group => valued.value = ReduceValue(f, valued)
  <2>1. CASE c \in Leaf
    BY <1>3, <2>1, FormsAssumption DEF WithValue
  <2>2. CASE c \notin Leaf
    <3>1. valued = [initial EXCEPT !.value = ReduceValue(f, initial)]
      BY <2>2 DEF WithValue
    <3> HIDE DEF valued
    <3>2. /\ IsNode(valued) /\ valued.children = n.children /\ valued.parent = n.parent
          /\ valued.run = n.run /\ valued.told = n.told /\ valued.errors = n.errors
          /\ valued.own = n.own /\ valued.status = initial.status
          /\ valued.value = ReduceValue(f, initial)
      BY <1>3, <3>1 DEF IsNode
    <3>3. ReduceValue(f, valued) = ReduceValue(f, initial)
      BY <1>3, <3>2, SameValue DEF Enabled
    <3> QED
      BY <1>3, <2>2, <3>2, <3>3
  <2> QED
    BY <2>1, <2>2
<1> HIDE DEF valued
<1>5. /\ IsNode(last) /\ last.children = n.children /\ last.parent = n.parent
      /\ c \in Leaf => last.value = n.value
      /\ last.run # {} => c \in Async
      /\ last.told = n.told
      /\ c \in Async => last.status # "VALID" /\ (last.status = "PENDING" => last.own)
      /\ Asked(last)
      /\ InSync(f, c, last)
  <2>1. CASE ~Enabled(valued)
    <3>1. AllControlsDisabled(f, n) /\ valued.status = "DISABLED" /\ last = valued
      BY <1>4, <2>1 DEF Enabled
    <3>2. AllControlsDisabled(f, valued)
      BY <1>4, <3>1 DEF AllControlsDisabled, Enabled
    <3>3. CalculateStatus(f, valued) = "DISABLED"
      BY <3>2, StatusCases
    <3> QED
      BY <1>4, <3>1, <3>3 DEF Asked, InSync
  <2>2. CASE Enabled(valued)
    <3>1. valued.status = "VALID" /\ ~AllControlsDisabled(f, n)
      BY <1>4, <2>2 DEF Enabled
    <3>2. /\ IsNode(checked) /\ checked.children = n.children /\ checked.parent = n.parent
          /\ checked.value = valued.value /\ checked.run = {} /\ checked.own = FALSE
          /\ checked.errors = e /\ checked.status = "VALID" /\ checked.told = n.told
      <4>1. checked = [children |-> n.children, parent |-> n.parent, value |-> valued.value,
                       status |-> "VALID", errors |-> e, own |-> FALSE, run |-> {},
                       told |-> n.told]
        <5>1. PICK x : x = Cancelled(valued)
          OBVIOUS
        <5>2. valued = [children |-> n.children, parent |-> n.parent, value |-> valued.value,
                        status |-> "VALID", errors |-> n.errors, own |-> n.own, run |-> n.run,
                        told |-> n.told]
          BY <1>4, <3>1 DEF IsNode
        <5>3. PICK y : y = [valued EXCEPT !.run = {}]
          OBVIOUS
        <5>4. x = [y EXCEPT !.own = FALSE]
          BY <5>1, <5>3 DEF Cancelled
        <5>5. checked = [x EXCEPT !.errors = e]
          BY <5>1
        <5> HIDE DEF checked
        <5>6. y = [children |-> n.children, parent |-> n.parent, value |-> valued.value,
                   status |-> "VALID", errors |-> n.errors, own |-> n.own, run |-> {},
                   told |-> n.told]
          BY <5>2, <5>3
        <5>7. x = [children |-> n.children, parent |-> n.parent, value |-> valued.value,
                   status |-> "VALID", errors |-> n.errors, own |-> FALSE, run |-> {},
                   told |-> n.told]
          BY <5>4, <5>6
        <5> QED
          BY <5>5, <5>7
      <4> HIDE DEF checked
      <4>2. /\ checked.children = n.children /\ checked.parent = n.parent
            /\ checked.value = valued.value /\ checked.run = {} /\ checked.own = FALSE
            /\ checked.errors = e /\ checked.status = "VALID" /\ checked.told = n.told
        BY <4>1
      <4>3. checked = [children |-> checked.children, parent |-> checked.parent,
                       value |-> checked.value, status |-> checked.status,
                       errors |-> checked.errors, own |-> checked.own, run |-> checked.run,
                       told |-> checked.told]
        BY <4>1
      <4>4. n.told \in Status \cup {"nothing"}
        BY DEF IsNode
      <4>5. IsNode(checked)
        BY <4>2, <4>3, <4>4 DEF IsNode, Status
      <4> QED
        BY <4>2, <4>5
    <3> HIDE DEF checked
    <3>3. ~AllControlsDisabled(f, checked)
      BY <1>3, <3>1, <3>2 DEF AllControlsDisabled, Enabled
    <3>4. CalculateStatus(f, checked) \in Status \ {"DISABLED"}
      BY <3>3, StatusCases
    <3>5. /\ IsNode(known) /\ known.children = n.children /\ known.parent = n.parent
          /\ known.value = valued.value /\ known.run = {} /\ known.own = FALSE
          /\ known.errors = e /\ known.told = n.told
          /\ known.status = CalculateStatus(f, checked)
      BY <3>2, <3>4 DEF IsNode
    <3> HIDE DEF known
    <3>6. CalculateStatus(f, known) = known.status
      BY <3>2, <3>4, <3>5, SameStatus DEF Enabled
    <3>7. c \in Group => known.value = ReduceValue(f, known)
      BY <1>4, <3>1, <3>4, <3>5, SameValue DEF Enabled
    <3>8. CASE known.status \notin {"VALID", "PENDING"} \/ c \notin Async
      <4>1. last = known
        BY <2>2, <3>8 DEF AsyncStarted
      <4> QED
        BY <1>4, <3>5, <3>6, <3>7, <3>8, <4>1 DEF Asked, InSync
    <3>9. CASE known.status \in {"VALID", "PENDING"} /\ c \in Async
      <4>1. last = [known EXCEPT !.status = "PENDING", !.own = TRUE,
                                 !.run = {[value |-> known.value, emit |-> emit]}]
        BY <2>2, <3>9 DEF AsyncStarted
      <4> HIDE DEF last
      <4>2. /\ IsNode(last) /\ last.children = n.children /\ last.parent = n.parent
            /\ last.value = known.value /\ last.run = {[value |-> known.value, emit |-> emit]}
            /\ last.own = TRUE /\ last.errors = known.errors /\ last.told = n.told
            /\ last.status = "PENDING"
        <5>1. last = [children |-> n.children, parent |-> n.parent, value |-> known.value,
                      status |-> "PENDING", errors |-> known.errors, own |-> TRUE,
                      run |-> {[value |-> known.value, emit |-> emit]}, told |-> n.told]
          BY <3>5, <4>1 DEF IsNode
        <5>2. n.told \in Status \cup {"nothing"} /\ known.errors \in BOOLEAN
          BY <3>5 DEF IsNode
        <5>3. \A r \in {[value |-> known.value, emit |-> emit]} : r.emit \in BOOLEAN
          OBVIOUS
        <5>4. IsNode(last)
          <6>1. /\ last.own = TRUE /\ last.errors \in BOOLEAN
                /\ last.status = "PENDING" /\ last.told \in Status \cup {"nothing"}
            BY <5>1, <5>2
          <6>2. last.run = {[value |-> known.value, emit |-> emit]}
            BY <5>1
          <6>3. last.run # {} /\ \A r \in last.run : r.emit \in BOOLEAN
            BY <5>3, <6>2
          <6>4. last = [children |-> last.children, parent |-> last.parent, value |-> last.value,
                        status |-> last.status, errors |-> last.errors, own |-> last.own,
                        run |-> last.run, told |-> last.told]
            BY <5>1
          <6> QED
            BY <6>1, <6>3, <6>4 DEF IsNode, Status
        <5> QED
          BY <5>1, <5>4
      <4>3. known.errors = FALSE /\ ~AllControlsDisabled(f, known)
        BY <3>5, <3>6, <3>9 DEF CalculateStatus
      <4>4. ~AllControlsDisabled(f, last)
        BY <3>5, <4>2, <4>3 DEF AllControlsDisabled, Enabled
      <4>5. CalculateStatus(f, last) = "PENDING"
        BY <4>2, <4>3, <4>4 DEF CalculateStatus
      <4>6. c \in Group => last.value = ReduceValue(f, last)
        BY <3>5, <3>7, <3>9, <4>2, SameValue DEF Enabled
      <4> QED
        BY <1>4, <3>5, <3>9, <4>2, <4>3, <4>5, <4>6 DEF Asked, InSync
    <3> QED
      BY <3>8, <3>9
  <2> QED
    BY <2>1, <2>2
<1> HIDE DEF last
<1>6. CASE emit = FALSE
  BY <1>2, <1>5, <1>6
<1>7. CASE emit = TRUE
  <2>1. m = [last EXCEPT !.told = last.status]
    BY <1>7 DEF Emitted
  <2> HIDE DEF m
  <2>2. /\ IsNode(m) /\ m.children = last.children /\ m.parent = last.parent
        /\ m.value = last.value /\ m.run = last.run /\ m.own = last.own
        /\ m.errors = last.errors /\ m.told = last.status /\ m.status = last.status
    BY <1>5, <2>1 DEF IsNode
  <2>3. CalculateStatus(f, m) = CalculateStatus(f, last) /\ ReduceValue(f, m) = ReduceValue(f, last)
    BY <2>2, SameStatus, SameValue DEF Enabled
  <2> QED
    BY <1>2, <1>5, <1>7, <2>2, <2>3 DEF Asked, InSync
<1> QED
  BY <1>6, <1>7

\* disable() at a control.
LEMMA DisabledNode ==
  ASSUME NEW f, NEW c \in Control, NEW n, IsNode(n)
  PROVE  LET m == DisabledSelf(f, c, n)
         IN  /\ IsNode(m) /\ m.children = n.children /\ m.parent = n.parent
             /\ c \in Leaf => m.value = n.value
             /\ m.run = n.run /\ m.status = "DISABLED" /\ m.told = "DISABLED"
             /\ (\A k \in n.children : f[k].status = "DISABLED") => InSync(f, c, m)
<1>1. PICK off : off = [n EXCEPT !.status = "DISABLED", !.errors = FALSE]
  OBVIOUS
<1>2. PICK valued : valued = WithValue(f, c, off)
  OBVIOUS
<1>3. PICK m : m = Emitted(valued)
  OBVIOUS
<1>4. m = DisabledSelf(f, c, n)
  BY <1>1, <1>2, <1>3 DEF DisabledSelf
<1>5. off = [children |-> n.children, parent |-> n.parent, value |-> n.value, status |-> "DISABLED",
             errors |-> FALSE, own |-> n.own, run |-> n.run, told |-> n.told]
  BY <1>1 DEF IsNode
<1>6. PICK v : /\ valued = [children |-> n.children, parent |-> n.parent, value |-> v,
                            status |-> "DISABLED", errors |-> FALSE, own |-> n.own, run |-> n.run,
                            told |-> n.told]
               /\ IF c \in Leaf THEN v = n.value ELSE v = ReduceValue(f, off)
  <2>1. CASE c \in Leaf
    BY <1>2, <1>5, <2>1 DEF WithValue
  <2>2. CASE c \notin Leaf
    <3>1. valued = [off EXCEPT !.value = ReduceValue(f, off)]
      BY <1>2, <2>2 DEF WithValue
    <3> QED
      BY <1>5, <2>2, <3>1
  <2> QED
    BY <2>1, <2>2
<1>7. m = [children |-> n.children, parent |-> n.parent, value |-> v, status |-> "DISABLED",
           errors |-> FALSE, own |-> n.own, run |-> n.run, told |-> "DISABLED"]
  BY <1>3, <1>6 DEF Emitted
<1>8. IsNode(m)
  <2>1. n.own \in BOOLEAN /\ (\A r \in n.run : r.emit \in BOOLEAN) /\ (n.own = TRUE <=> n.run # {})
    BY DEF IsNode
  <2> QED
    <3>1. /\ m.status = "DISABLED" /\ m.told = "DISABLED" /\ m.errors = FALSE
          /\ m.own = n.own /\ m.run = n.run
      BY <1>7
    <3>2. m = [children |-> m.children, parent |-> m.parent, value |-> m.value, status |-> m.status,
               errors |-> m.errors, own |-> m.own, run |-> m.run, told |-> m.told]
      BY <1>7
    <3> QED
      BY <2>1, <3>1, <3>2 DEF IsNode, Status
<1>9. (\A k \in n.children : f[k].status = "DISABLED") => InSync(f, c, m)
  <2> SUFFICES ASSUME \A k \in n.children : f[k].status = "DISABLED"  PROVE InSync(f, c, m)
    OBVIOUS
  <2>1. AllControlsDisabled(f, m)
    BY <1>7 DEF AllControlsDisabled, Enabled
  <2>2. CalculateStatus(f, m) = "DISABLED"
    BY <2>1, StatusCases
  <2>3. ReduceValue(f, m) = ReduceValue(f, off)
    BY <1>5, <1>7, SameValue DEF Enabled
  <2>4. c \in Group => c \notin Leaf
    BY FormsAssumption
  <2> QED
    BY <1>6, <1>7, <2>2, <2>3, <2>4 DEF InSync
<1> QED
  BY <1>4, <1>6, <1>7, <1>8, <1>9

\* _updateControlsErrors() at a control.
LEMMA RecalculatedNode ==
  ASSUME NEW f, NEW n, IsNode(n), NEW emit \in BOOLEAN
  PROVE  LET m == RecalculatedSelf(f, n, emit)
         IN  /\ IsNode(m) /\ m.children = n.children /\ m.parent = n.parent /\ m.value = n.value
             /\ m.run = n.run /\ m.own = n.own /\ m.errors = n.errors
             /\ m.told = IF emit THEN m.status ELSE n.told
             /\ m.status = CalculateStatus(f, n) /\ m.status = CalculateStatus(f, m)
<1> DEFINE known == [n EXCEPT !.status = CalculateStatus(f, n)]
           m     == IF emit THEN Emitted(known) ELSE known
<1>1. m = RecalculatedSelf(f, n, emit)
  BY DEF RecalculatedSelf
<1>2. PICK s \in Status : s = CalculateStatus(f, n)
  BY StatusCases
<1>3. known = [n EXCEPT !.status = s]
  BY <1>2
<1> HIDE DEF known
<1>4. /\ IsNode(known) /\ known.children = n.children /\ known.parent = n.parent
      /\ known.value = n.value /\ known.run = n.run /\ known.own = n.own
      /\ known.errors = n.errors /\ known.status = s /\ known.told = n.told
  BY <1>3 DEF IsNode
<1>5. /\ IsNode(m) /\ m.children = n.children /\ m.parent = n.parent /\ m.value = n.value
      /\ m.run = n.run /\ m.own = n.own /\ m.errors = n.errors
      /\ m.told = (IF emit THEN m.status ELSE n.told) /\ m.status = s
  <2>1. CASE emit = FALSE
    BY <1>4, <2>1
  <2>2. CASE emit = TRUE
    <3>1. m = [known EXCEPT !.told = known.status]
      BY <2>2 DEF Emitted
    <3> HIDE DEF m
    <3>2. /\ IsNode(m) /\ m.children = known.children /\ m.parent = known.parent
          /\ m.value = known.value /\ m.run = known.run /\ m.own = known.own
          /\ m.errors = known.errors /\ m.told = known.status /\ m.status = known.status
      BY <1>4, <3>1 DEF IsNode
    <3> QED
      BY <1>4, <2>2, <3>2
  <2> QED
    BY <2>1, <2>2
<1> HIDE DEF m
<1>6. CalculateStatus(f, m) = s
  <2>1. n.children = {} => (Enabled(m) <=> Enabled(n))
    <3>1. s = "DISABLED" <=> AllControlsDisabled(f, n)
      BY <1>2, StatusCases
    <3> QED
      BY <1>5, <3>1 DEF AllControlsDisabled, Enabled
  <2> QED
    BY <1>2, <1>5, <2>1, SameStatus
<1> QED
  BY <1>1, <1>2, <1>5, <1>6

\* What a call does to a control depends on those below it only.
LEMMA DoneSame ==
  ASSUME NEW f, NEW g, NEW c, NEW n, IsNode(n), NEW call,
         \A k \in n.children : f[k].status = g[k].status /\ f[k].value = g[k].value
  PROVE  Done(f, c, n, call) = Done(g, c, n, call)
<1>1. ASSUME NEW x, x.children = n.children
      PROVE  /\ CalculateStatus(f, x) = CalculateStatus(g, x)
             /\ ReduceValue(f, x) = ReduceValue(g, x)
             /\ AllControlsDisabled(f, x) <=> AllControlsDisabled(g, x)
  BY <1>1, SameStatus, SameValue DEF Enabled
<1>2. ASSUME NEW x, IsNode(x), x.children = n.children PROVE WithValue(f, c, x) = WithValue(g, c, x)
  BY <1>1, <1>2 DEF WithValue
<1>3. RecalculatedSelf(f, n, call.emit) = RecalculatedSelf(g, n, call.emit)
  BY <1>1 DEF RecalculatedSelf
<1>4. DisabledSelf(f, c, n) = DisabledSelf(g, c, n)
  <2>1. PICK x : x = [n EXCEPT !.status = "DISABLED", !.errors = FALSE]
    OBVIOUS
  <2>2. IsNode(x) /\ x.children = n.children
    BY <2>1 DEF IsNode, Status
  <2>3. WithValue(f, c, x) = WithValue(g, c, x)
    BY <1>2, <2>2
  <2> QED
    BY <2>1, <2>3 DEF DisabledSelf
<1>5. UpdatedSelf(f, c, n, call.bad, call.emit) = UpdatedSelf(g, c, n, call.bad, call.emit)
  <2>1. PICK x : x = [n EXCEPT !.status = IF AllControlsDisabled(f, n) THEN "DISABLED" ELSE "VALID"]
    OBVIOUS
  <2>2. x = [n EXCEPT !.status = IF AllControlsDisabled(g, n) THEN "DISABLED" ELSE "VALID"]
    BY <1>1, <2>1
  <2>3. IsNode(x) /\ x.children = n.children
    BY <2>1 DEF IsNode, Status
  <2>4. PICK y : y = WithValue(f, c, x)
    OBVIOUS
  <2>5. y = WithValue(g, c, x)
    BY <1>2, <2>3, <2>4
  <2>6. /\ y.children = n.children
        /\ y = [children |-> n.children, parent |-> y.parent, value |-> y.value, status |-> y.status,
                errors |-> y.errors, own |-> y.own, run |-> y.run, told |-> y.told]
    BY <2>3, <2>4 DEF WithValue, IsNode
  <2>7. Validated(f, c, y, call.bad, call.emit) = Validated(g, c, y, call.bad, call.emit)
    <3>1. PICK z : z = [Cancelled(y) EXCEPT !.errors = c \in call.bad]
      OBVIOUS
    <3>2. z.children = n.children
      BY <2>6, <3>1 DEF Cancelled
    <3>3. CalculateStatus(f, z) = CalculateStatus(g, z)
      BY <1>1, <3>2
    <3> QED
      BY <3>1, <3>3 DEF Validated
  <2> QED
    BY <2>1, <2>2, <2>4, <2>5, <2>7 DEF UpdatedSelf
<1> QED
  BY <1>3, <1>4, <1>5 DEF Done

-------------------------------------------------------------------------------
(***************************************************************************)
(* What a call does to a set of controls.  By the order in which they are   *)
(* done, each is done when those below it are, and is then left alone.      *)
(***************************************************************************)
\* A set of natural numbers that is not empty has a least element.
LEMMA LeastNat ==
  ASSUME NEW T \in SUBSET Nat, T # {}
  PROVE  \E k \in T : \A j \in T : k <= j
<1>1. PICK k \in T : \A y \in T : ~(<<y, k>> \in OpToRel(<, Nat))
  BY NatLessThanWellFounded, WFMin
<1>2. \A y \in T : ~(y < k)
  BY <1>1 DEF OpToRel
<1> QED
  BY <1>2

LEMMA Positions ==
  /\ Len(BottomUp) \in Nat /\ Position = 1..Len(BottomUp)
  /\ \A i \in Position : BottomUp[i] \in Control
  /\ \A c \in Control : \E i \in Position : BottomUp[i] = c
BY FormsAssumption DEF Position

\* The form when the first i controls are done, given the one before.
After(g, i, S, call) ==
  IF BottomUp[i] \notin S THEN g
  ELSE [g EXCEPT ![BottomUp[i]] = Done(g, BottomUp[i], g[BottomUp[i]], call)]

\* The forms during a call, up to the position m.
IsCascade(s, m, f, S, call) == s = [i \in 0..m |-> IF i = 0 THEN f ELSE After(s[i - 1], i, S, call)]

LEMMA CascadeStages ==
  ASSUME NEW f, NEW S, NEW call
  PROVE  \E s : IsCascade(s, Len(BottomUp), f, S, call) /\ Cascade(f, S, call) = s[Len(BottomUp)]
<1> DEFINE Fails == {m \in Nat : ~\E s : IsCascade(s, m, f, S, call)}
<1>1. Fails = {}
  <2> SUFFICES ASSUME Fails # {} PROVE FALSE
    OBVIOUS
  <2>1. PICK m \in Fails : \A k \in Fails : m <= k
    BY LeastNat
  <2>2. m # 0
    <3>1. PICK s : s = [i \in 0..0 |-> f]
      OBVIOUS
    <3>2. [i \in 0..0 |-> IF i = 0 THEN f ELSE After(s[i - 1], i, S, call)] = [i \in 0..0 |-> f]
      OBVIOUS
    <3>3. IsCascade(s, 0, f, S, call)
      BY <3>1, <3>2 DEF IsCascade
    <3> QED
      BY <3>3
  <2>3. m - 1 \in Nat /\ m - 1 \notin Fails
    BY <2>1, <2>2
  <2>4. PICK s : IsCascade(s, m - 1, f, S, call)
    BY <2>3
  <2>5. PICK t : t = [i \in 0..m |-> IF i = m THEN After(s[m - 1], m, S, call) ELSE s[i]]
    OBVIOUS
  <2>6. DOMAIN t = 0..m /\ t[m] = After(s[m - 1], m, S, call) /\ \A i \in 0..(m - 1) : t[i] = s[i]
    BY <2>5, <2>3
  <2>7. \A i \in 0..m : t[i] = IF i = 0 THEN f ELSE After(t[i - 1], i, S, call)
    <3> TAKE i \in 0..m
    <3>1. CASE i = m
      <4>1. t[m - 1] = s[m - 1]
        BY <2>3, <2>6
      <4> QED
        BY <2>2, <2>6, <3>1, <4>1
    <3>2. CASE i # m
      <4>1. i \in 0..(m - 1) /\ (i # 0 => i - 1 \in 0..(m - 1))
        BY <2>3, <3>2
      <4>2. s[i] = IF i = 0 THEN f ELSE After(s[i - 1], i, S, call)
        BY <2>4, <4>1 DEF IsCascade
      <4> QED
        BY <2>6, <4>1, <4>2
    <3> QED
      BY <3>1, <3>2
  <2>8. t = [i \in 0..m |-> IF i = 0 THEN f ELSE After(t[i - 1], i, S, call)]
    BY <2>5, <2>7
  <2>9. IsCascade(t, m, f, S, call)
    BY <2>8 DEF IsCascade
  <2> QED
    BY <2>1, <2>9
<1>2. \E s : IsCascade(s, Len(BottomUp), f, S, call)
  BY <1>1, Positions
<1>3. IsCascade(CHOOSE s : IsCascade(s, Len(BottomUp), f, S, call), Len(BottomUp), f, S, call)
  BY <1>2
<1>4. Cascade(f, S, call) = (CHOOSE s : IsCascade(s, Len(BottomUp), f, S, call))[Len(BottomUp)]
  BY DEF Cascade, IsCascade, After
<1> QED
  BY <1>3, <1>4

\* A form that the application can have made.
IsForm(f) ==
  /\ DOMAIN f = Control
  /\ \A c \in Control :
       /\ IsNode(f[c])
       /\ f[c].parent \in Group \cup {NoControl}
       /\ f[c].run # {} => c \in Async
       /\ c \in Leaf => f[c].children = {} /\ f[c].value \in Value
       /\ c \in Group =>
            /\ f[c].children \subseteq Children[c] \cup Movable
            /\ \A k \in f[c].children : f[k].parent = c
            /\ f[c].parent \in Group => c \in f[f[c].parent].children

\* What a call needs to know of a form: who is above whom.
IsTree(f) ==
  /\ DOMAIN f = Control
  /\ \A c \in Control : IsNode(f[c])
  /\ \A i, j \in Position : BottomUp[i] \in f[BottomUp[j]].children => i < j
  /\ \A c \in Control : f[c].children \subseteq Control

LEMMA FormIsTree ==
  ASSUME NEW f, IsForm(f)
  PROVE  IsTree(f)
<1>1. \A c \in Control : f[c].children \subseteq Control
  BY FormsAssumption DEF IsForm, Control
<1>2. ASSUME NEW i \in Position, NEW j \in Position, BottomUp[i] \in f[BottomUp[j]].children
      PROVE  i < j
  <2>1. BottomUp[j] \in Group /\ BottomUp[i] \in Children[BottomUp[j]] \cup Movable
    BY <1>2, Positions DEF IsForm, Control
  <2> QED
    BY <2>1, FormsAssumption
<1> QED
  BY <1>1, <1>2 DEF IsForm, IsTree

\* A call is done at each control of the set once, given those below it as they
\* are in the end.
LEMMA CascadeNodes ==
  ASSUME NEW f, NEW S, NEW call, IsTree(f)
  PROVE  /\ DOMAIN Cascade(f, S, call) = Control
         /\ \A c \in Control :
              Cascade(f, S, call)[c] =
                IF c \in S THEN Done(Cascade(f, S, call), c, f[c], call) ELSE f[c]
<1>1. PICK m : m = Len(BottomUp)
  OBVIOUS
<1>2. PICK s : IsCascade(s, m, f, S, call) /\ Cascade(f, S, call) = s[m]
  BY <1>1, CascadeStages
<1>3. m \in Nat /\ Position = 1..m
  BY <1>1, Positions
<1>4. s[0] = f /\ \A i \in Position : s[i] = After(s[i - 1], i, S, call)
  BY <1>2, <1>3 DEF IsCascade
<1>5. \A i, j \in Position : BottomUp[i] = BottomUp[j] => i = j
  BY FormsAssumption
<1> DEFINE Stage(i) ==
             /\ DOMAIN s[i] = Control
             /\ \A j \in Position : IF i < j THEN s[i][BottomUp[j]] = f[BottomUp[j]]
                                    ELSE s[i][BottomUp[j]] = s[j][BottomUp[j]]
           Fails == {i \in 0..m : ~Stage(i)}
<1>6. \A i \in 0..m : Stage(i)
  <2> SUFFICES ASSUME Fails # {} PROVE FALSE
    OBVIOUS
  <2>1. Fails \in SUBSET Nat
    BY <1>3
  <2>2. PICK i \in Fails : \A j \in Fails : i <= j
    BY <2>1, LeastNat
  <2>3. CASE i = 0
    <3>1. Stage(0)
      BY <1>3, <1>4 DEF IsTree
    <3> QED
      BY <2>2, <2>3, <3>1
  <2>4. CASE i # 0
    <3>1. i \in Position /\ i - 1 \in 0..m /\ i - 1 \notin Fails
      BY <1>3, <2>2, <2>4
    <3>2. Stage(i - 1)
      BY <3>1
    <3>3. DOMAIN s[i] = Control
      BY <1>4, <3>1, <3>2 DEF After
    <3>4. ASSUME NEW j \in Position, j # i PROVE s[i][BottomUp[j]] = s[i - 1][BottomUp[j]]
      <4>1. BottomUp[j] # BottomUp[i] /\ BottomUp[j] \in Control /\ BottomUp[i] \in Control
        BY <1>5, <3>1, <3>4, Positions
      <4>2. \/ s[i] = s[i - 1]
            \/ \E v : s[i] = [s[i - 1] EXCEPT ![BottomUp[i]] = v]
        BY <1>4, <3>1 DEF After
      <4> QED
        BY <3>2, <4>1, <4>2
    <3>5. Stage(i)
      <4>1. ASSUME NEW j \in Position
            PROVE  IF i < j THEN s[i][BottomUp[j]] = f[BottomUp[j]]
                   ELSE s[i][BottomUp[j]] = s[j][BottomUp[j]]
        <5>1. CASE j = i
          BY <1>3, <3>1, <5>1
        <5>2. CASE j # i
          BY <1>3, <3>1, <3>2, <3>4, <5>2
        <5> QED
          BY <5>1, <5>2
      <4> QED
        BY <3>3, <4>1
    <3> QED
      BY <2>2, <3>5
  <2> QED
    BY <2>3, <2>4
<1>7. DOMAIN s[m] = Control /\ \A j \in Position : s[m][BottomUp[j]] = s[j][BottomUp[j]]
  BY <1>3, <1>6
<1>8. ASSUME NEW j \in Position
      PROVE  s[m][BottomUp[j]] = IF BottomUp[j] \in S
                                 THEN Done(s[m], BottomUp[j], f[BottomUp[j]], call)
                                 ELSE f[BottomUp[j]]
  <2>1. PICK c \in Control : c = BottomUp[j]
    BY Positions
  <2>2. j - 1 \in 0..m /\ j - 1 < j
    BY <1>3
  <2>3. s[j - 1][c] = f[c] /\ DOMAIN s[j - 1] = Control
    BY <1>6, <2>1, <2>2
  <2>4. s[m][c] = IF c \in S THEN Done(s[j - 1], c, f[c], call) ELSE f[c]
    BY <1>4, <1>7, <2>1, <2>3 DEF After
  <2>5. \A k \in f[c].children : s[j - 1][k] = s[m][k]
    <3> TAKE k \in f[c].children
    <3>1. PICK i \in Position : k = BottomUp[i]
      BY Positions DEF IsTree
    <3>2. i < j
      BY <2>1, <3>1 DEF IsTree
    <3>3. s[j - 1][BottomUp[i]] = s[i][BottomUp[i]]
      BY <1>3, <1>6, <2>2, <3>2
    <3> QED
      BY <1>7, <3>1, <3>3
  <2>6. Done(s[j - 1], c, f[c], call) = Done(s[m], c, f[c], call)
    BY <2>5, DoneSame DEF IsTree
  <2> QED
    BY <2>1, <2>4, <2>6
<1> QED
  BY <1>2, <1>7, <1>8, Positions

-------------------------------------------------------------------------------
(***************************************************************************)
(* The controls above and below a control.                                  *)
(***************************************************************************)
\* In every set of controls there is one with none of the others below it.
LEMMA Lowest ==
  ASSUME NEW f, IsTree(f), NEW T \in SUBSET Control, T # {}
  PROVE  \E c \in T : f[c].children \cap T = {}
<1> DEFINE Places == {i \in Position : BottomUp[i] \in T}
<1>1. Places \in SUBSET Nat /\ Places # {}
  BY Positions
<1>2. PICK i \in Places : \A j \in Places : i <= j
  BY <1>1, LeastNat
<1>3. ASSUME NEW k \in f[BottomUp[i]].children, k \in T PROVE FALSE
  <2>1. PICK j \in Places : k = BottomUp[j]
    BY <1>3, Positions
  <2>2. j < i /\ i <= j
    BY <1>2, <1>3, <2>1 DEF IsTree
  <2> QED
    BY <1>1, <2>2
<1> QED
  BY <1>2, <1>3

LEMMA BelowClosed ==
  ASSUME NEW f, IsTree(f), NEW c \in Control
  PROVE  /\ Below(f, c) \subseteq Control /\ c \in Below(f, c)
         /\ \A j \in Below(f, c) : f[j].children \subseteq Below(f, c)
         /\ \A k \in Below(f, c) \ {c} : \E j \in Below(f, c) : k \in f[j].children
<1> DEFINE closed == {S \in SUBSET Control : c \in S /\ \A j \in S : f[j].children \subseteq S}
<1>1. Below(f, c) = {k \in Control : \A S \in closed : k \in S}
  BY DEF Below
<1>2. PICK B : B = Below(f, c)
  OBVIOUS
<1>3. B \subseteq Control /\ c \in B
  BY <1>1, <1>2
<1>4. \A j \in B : f[j].children \subseteq B
  BY <1>1, <1>2 DEF IsTree
<1>5. ASSUME NEW k \in B \ {c}, \A j \in B : k \notin f[j].children PROVE FALSE
  <2>1. B \ {k} \in closed
    BY <1>3, <1>4, <1>5
  <2> QED
    BY <1>1, <1>2, <2>1
<1> QED
  BY <1>2, <1>3, <1>4, <1>5

LEMMA UpClosed ==
  ASSUME NEW f, NEW c \in Control, \A j \in Control : f[j].parent \in Group \cup {NoControl}
  PROVE  /\ Up(f, c) \subseteq Control /\ c \in Up(f, c)
         /\ \A j \in Up(f, c) : f[j].parent \in Up(f, c) \cup {NoControl}
         /\ \A S \in SUBSET Control :
              c \in S /\ (\A j \in S : f[j].parent \in S \cup {NoControl}) => Up(f, c) \subseteq S
<1> DEFINE closed == {S \in SUBSET Control :
                        c \in S /\ \A j \in S : f[j].parent \in S \cup {NoControl}}
<1>1. Up(f, c) = {k \in Control : \A S \in closed : k \in S}
  BY DEF Up
<1>2. PICK U : U = Up(f, c)
  OBVIOUS
<1>3. U \subseteq Control /\ c \in U
  BY <1>1, <1>2
<1>4. ASSUME NEW j \in U, f[j].parent # NoControl PROVE f[j].parent \in U
  <2>1. f[j].parent \in Control
    BY <1>3, <1>4 DEF Control
  <2>2. \A S \in closed : f[j].parent \in S
    BY <1>1, <1>2, <1>4
  <2> QED
    BY <1>1, <1>2, <2>1, <2>2
<1>5. \A S \in closed : U \subseteq S
  BY <1>1, <1>2
<1> QED
  BY <1>2, <1>3, <1>4, <1>5

\* No control above another is one of its children.
LEMMA UpNotBelow ==
  ASSUME NEW f, IsForm(f), NEW c \in Control, NEW k \in Up(f, c)
  PROVE  k \notin f[c].children
<1> SUFFICES ASSUME k \in f[c].children PROVE FALSE
  OBVIOUS
<1>1. c \in Group /\ IsTree(f)
  BY FormIsTree DEF IsForm, Control
<1>2. PICK i \in Position : c = BottomUp[i]
  BY Positions
<1> DEFINE T == {g \in Group : \A j \in Position : g = BottomUp[j] => i <= j}
<1>3. c \in T
  <2>1. ASSUME NEW j \in Position, c = BottomUp[j] PROVE i <= j
    <3>1. i = j
      BY <1>2, <2>1, FormsAssumption
    <3> QED
      BY <3>1, Positions
  <2> QED
    BY <1>1, <2>1
<1>4. ASSUME NEW g \in T PROVE f[g].parent \in T \cup {NoControl}
  <2> SUFFICES ASSUME f[g].parent \in Group PROVE f[g].parent \in T
    BY DEF IsForm, Control
  <2>1. PICK h \in Group : h = f[g].parent
    OBVIOUS
  <2>2. g \in f[h].children
    BY <2>1 DEF IsForm, Control
  <2>3. ASSUME NEW j \in Position, h = BottomUp[j] PROVE i <= j
    <3>1. PICK l \in Position : g = BottomUp[l]
      BY Positions DEF Control
    <3>2. l < j /\ i <= l
      BY <1>1, <2>2, <2>3, <3>1 DEF IsTree
    <3> QED
      BY <3>2, Positions
  <2> QED
    BY <2>1, <2>3
<1>5. k \in T
  <2>1. T \in SUBSET Control
    BY DEF Control
  <2>2. \A j \in Control : f[j].parent \in Group \cup {NoControl}
    BY DEF IsForm
  <2>3. Up(f, c) \subseteq T
    BY <1>3, <1>4, <2>1, <2>2, UpClosed
  <2> QED
    BY <2>3
<1>6. PICK l \in Position : k = BottomUp[l]
  BY <1>5, Positions DEF Control
<1>7. l < i /\ i <= l
  BY <1>1, <1>2, <1>5, <1>6 DEF IsTree
<1> QED
  BY <1>7, Positions

-------------------------------------------------------------------------------
(***************************************************************************)
(* What the three calls do to a form.                                      *)
(***************************************************************************)
\* The same controls in the same places.
SameTree(f, g) ==
  \A c \in Control : g[c].children = f[c].children /\ g[c].parent = f[c].parent

LEMMA KeptForm ==
  ASSUME NEW f, NEW g, IsForm(f), SameTree(f, g), DOMAIN g = Control,
         \A c \in Control : IsNode(g[c]) /\ (g[c].run # {} => c \in Async),
         \A c \in Leaf : g[c].value \in Value
  PROVE  IsForm(g)
<1>1. ASSUME NEW c \in Control
      PROVE  /\ IsNode(g[c])
             /\ g[c].parent \in Group \cup {NoControl}
             /\ g[c].run # {} => c \in Async
             /\ c \in Leaf => g[c].children = {} /\ g[c].value \in Value
  BY DEF IsForm, SameTree
<1>2. ASSUME NEW c \in Group
      PROVE  /\ g[c].children \subseteq Children[c] \cup Movable
             /\ \A k \in g[c].children : g[k].parent = c
             /\ g[c].parent \in Group => c \in g[g[c].parent].children
  <2>1. c \in Control /\ g[c].children = f[c].children /\ g[c].parent = f[c].parent
    BY DEF SameTree, Control
  <2>2. /\ f[c].children \subseteq Children[c] \cup Movable
        /\ \A k \in f[c].children : f[k].parent = c
        /\ f[c].parent \in Group => c \in f[f[c].parent].children
    BY <2>1 DEF IsForm
  <2>3. f[c].children \subseteq Control
    BY <2>1, FormIsTree DEF IsTree
  <2>4. \A k \in f[c].children : g[k].parent = c
    BY <2>2, <2>3 DEF SameTree
  <2>5. f[c].parent \in Group => g[f[c].parent].children = f[f[c].parent].children
    BY DEF SameTree, Control
  <2> QED
    BY <2>1, <2>2, <2>4, <2>5
<1> QED
  BY <1>1, <1>2 DEF IsForm

LEMMA UpdatedForm ==
  ASSUME NEW f, IsForm(f), NEW S, NEW bad, NEW emit \in BOOLEAN
  PROVE  /\ IsForm(Updated(f, S, bad, emit)) /\ SameTree(f, Updated(f, S, bad, emit))
         /\ \A c \in Control \ S : Updated(f, S, bad, emit)[c] = f[c]
         /\ \A c \in Control \cap S :
              LET m == Updated(f, S, bad, emit)[c]
              IN  /\ emit => m.told = m.status
                  /\ c \in Async => m.status # "VALID" /\ (m.status = "PENDING" => m.own)
                  /\ Asked(m)
                  /\ InSync(Updated(f, S, bad, emit), c, m)
<1>1. PICK u : u = Updated(f, S, bad, emit)
  OBVIOUS
<1>2. PICK call : call = [name |-> "update", bad |-> bad, emit |-> emit]
  OBVIOUS
<1>3. u = Cascade(f, S, call)
  BY <1>1, <1>2 DEF Updated
<1>4. /\ DOMAIN u = Control
      /\ \A c \in Control : u[c] = IF c \in S THEN Done(u, c, f[c], call) ELSE f[c]
  BY <1>3, FormIsTree, CascadeNodes
<1>5. \A c \in Control : Done(u, c, f[c], call) = UpdatedSelf(u, c, f[c], bad, emit)
  BY <1>2 DEF Done
<1>6. ASSUME NEW c \in Control \cap S
      PROVE  LET m == u[c]
             IN  /\ IsNode(m) /\ m.children = f[c].children /\ m.parent = f[c].parent
                 /\ c \in Leaf => m.value = f[c].value
                 /\ m.run # {} => c \in Async
                 /\ emit => m.told = m.status
                 /\ c \in Async => m.status # "VALID" /\ (m.status = "PENDING" => m.own)
                 /\ Asked(m)
                 /\ InSync(u, c, m)
  <2>1. IsNode(f[c]) /\ (f[c].run # {} => c \in Async)
    BY DEF IsForm
  <2>2. u[c] = UpdatedSelf(u, c, f[c], bad, emit)
    BY <1>4, <1>5
  <2> QED
    BY <2>1, <2>2, UpdatedNode
<1>7. \A c \in Control \ S : u[c] = f[c]
  BY <1>4
<1>8. /\ SameTree(f, u)
      /\ \A c \in Control : IsNode(u[c]) /\ (u[c].run # {} => c \in Async)
      /\ \A c \in Leaf : u[c].value \in Value
  <2>1. \A c \in Control :
          /\ IsNode(f[c]) /\ (f[c].run # {} => c \in Async)
          /\ c \in Leaf => f[c].value \in Value
    BY DEF IsForm
  <2>2. ASSUME NEW c \in Control
        PROVE  /\ u[c].children = f[c].children /\ u[c].parent = f[c].parent
               /\ IsNode(u[c]) /\ (u[c].run # {} => c \in Async)
               /\ c \in Leaf => u[c].value \in Value
    <3>1. CASE c \in S
      BY <1>6, <2>1, <3>1
    <3>2. CASE c \notin S
      BY <1>7, <2>1, <3>2
    <3> QED
      BY <3>1, <3>2
  <2> QED
    BY <2>2 DEF SameTree, Control
<1>9. IsForm(u)
  BY <1>4, <1>8, KeptForm
<1> QED
  BY <1>1, <1>6, <1>7, <1>8, <1>9

\* A set of controls with all that is below them.
LEMMA DisabledForm ==
  ASSUME NEW f, IsForm(f), NEW S \in SUBSET Control, \A c \in S : f[c].children \subseteq S
  PROVE  /\ IsForm(Disabled(f, S)) /\ SameTree(f, Disabled(f, S))
         /\ \A c \in Control \ S : Disabled(f, S)[c] = f[c]
         /\ \A c \in S : LET m == Disabled(f, S)[c]
                         IN  m.status = "DISABLED" /\ m.told = "DISABLED" /\ InSync(Disabled(f, S), c, m)
<1>1. PICK u : u = Disabled(f, S)
  OBVIOUS
<1>2. PICK call : call = [name |-> "disable"]
  OBVIOUS
<1>3. u = Cascade(f, S, call)
  BY <1>1, <1>2 DEF Disabled
<1>4. /\ DOMAIN u = Control
      /\ \A c \in Control : u[c] = IF c \in S THEN Done(u, c, f[c], call) ELSE f[c]
  BY <1>3, FormIsTree, CascadeNodes
<1>5. \A c \in Control : Done(u, c, f[c], call) = DisabledSelf(u, c, f[c])
  BY <1>2 DEF Done
<1>6. ASSUME NEW c \in S
      PROVE  LET m == u[c]
             IN  /\ IsNode(m) /\ m.children = f[c].children /\ m.parent = f[c].parent
                 /\ c \in Leaf => m.value = f[c].value
                 /\ m.run = f[c].run /\ m.status = "DISABLED" /\ m.told = "DISABLED"
                 /\ (\A k \in f[c].children : u[k].status = "DISABLED") => InSync(u, c, m)
  <2>1. IsNode(f[c])
    BY DEF IsForm
  <2>2. u[c] = DisabledSelf(u, c, f[c])
    BY <1>4, <1>5
  <2> QED
    BY <2>1, <2>2, DisabledNode
<1>7. \A c \in Control \ S : u[c] = f[c]
  BY <1>4
<1>8. /\ SameTree(f, u)
      /\ \A c \in Control : IsNode(u[c]) /\ (u[c].run # {} => c \in Async)
      /\ \A c \in Leaf : u[c].value \in Value
  <2>1. \A c \in Control :
          /\ IsNode(f[c]) /\ (f[c].run # {} => c \in Async)
          /\ c \in Leaf => f[c].value \in Value
    BY DEF IsForm
  <2>2. ASSUME NEW c \in Control
        PROVE  /\ u[c].children = f[c].children /\ u[c].parent = f[c].parent
               /\ IsNode(u[c]) /\ (u[c].run # {} => c \in Async)
               /\ c \in Leaf => u[c].value \in Value
    <3>1. CASE c \in S
      BY <1>6, <2>1, <3>1
    <3>2. CASE c \notin S
      BY <1>7, <2>1, <3>2
    <3> QED
      BY <3>1, <3>2
  <2> QED
    BY <2>2 DEF SameTree, Control
<1>9. IsForm(u)
  BY <1>4, <1>8, KeptForm
<1>10. \A c \in S : InSync(u, c, u[c])
  BY <1>6
<1> QED
  BY <1>1, <1>6, <1>7, <1>8, <1>9, <1>10

LEMMA RecalculatedForm ==
  ASSUME NEW f, IsForm(f), NEW S, NEW emit \in BOOLEAN
  PROVE  /\ IsForm(Recalculated(f, S, emit)) /\ SameTree(f, Recalculated(f, S, emit))
         /\ \A c \in Control \ S : Recalculated(f, S, emit)[c] = f[c]
         /\ \A c \in Control \cap S :
              LET m == Recalculated(f, S, emit)[c]
              IN  /\ m.value = f[c].value /\ m.run = f[c].run /\ m.own = f[c].own
                  /\ m.errors = f[c].errors /\ (emit => m.told = m.status)
                  /\ m.status = CalculateStatus(Recalculated(f, S, emit), f[c])
                  /\ m.status = CalculateStatus(Recalculated(f, S, emit), m)
<1>1. PICK u : u = Recalculated(f, S, emit)
  OBVIOUS
<1>2. PICK call : call = [name |-> "recalculate", emit |-> emit]
  OBVIOUS
<1>3. u = Cascade(f, S, call)
  BY <1>1, <1>2 DEF Recalculated
<1>4. /\ DOMAIN u = Control
      /\ \A c \in Control : u[c] = IF c \in S THEN Done(u, c, f[c], call) ELSE f[c]
  BY <1>3, FormIsTree, CascadeNodes
<1>5. \A c \in Control : Done(u, c, f[c], call) = RecalculatedSelf(u, f[c], emit)
  BY <1>2 DEF Done
<1>6. ASSUME NEW c \in Control \cap S
      PROVE  LET m == u[c]
             IN  /\ IsNode(m) /\ m.children = f[c].children /\ m.parent = f[c].parent
                 /\ m.value = f[c].value /\ m.run = f[c].run /\ m.own = f[c].own
                 /\ m.errors = f[c].errors /\ (emit => m.told = m.status)
                 /\ m.status = CalculateStatus(u, f[c]) /\ m.status = CalculateStatus(u, m)
  <2>1. IsNode(f[c])
    BY DEF IsForm
  <2>2. u[c] = RecalculatedSelf(u, f[c], emit)
    BY <1>4, <1>5
  <2> QED
    BY <2>1, <2>2, RecalculatedNode
<1>7. \A c \in Control \ S : u[c] = f[c]
  BY <1>4
<1>8. /\ SameTree(f, u)
      /\ \A c \in Control : IsNode(u[c]) /\ (u[c].run # {} => c \in Async)
      /\ \A c \in Leaf : u[c].value \in Value
  <2>1. \A c \in Control :
          /\ IsNode(f[c]) /\ (f[c].run # {} => c \in Async)
          /\ c \in Leaf => f[c].value \in Value
    BY DEF IsForm
  <2>2. ASSUME NEW c \in Control
        PROVE  /\ u[c].children = f[c].children /\ u[c].parent = f[c].parent
               /\ IsNode(u[c]) /\ (u[c].run # {} => c \in Async)
               /\ c \in Leaf => u[c].value \in Value
    <3>1. CASE c \in S
      BY <1>6, <2>1, <3>1
    <3>2. CASE c \notin S
      BY <1>7, <2>1, <3>2
    <3> QED
      BY <3>1, <3>2
  <2> QED
    BY <2>2 DEF SameTree, Control
<1>9. IsForm(u)
  BY <1>4, <1>8, KeptForm
<1> QED
  BY <1>1, <1>6, <1>7, <1>8, <1>9

-------------------------------------------------------------------------------
(***************************************************************************)
(* Statuses and values that agree with those below them.                    *)
(***************************************************************************)
SyncForm(f) == \A c \in Control : InSync(f, c, f[c])

\* A set of controls with those they are children of.
Upward(f, S) == \A g \in Control : \A k \in f[g].children : k \in S => g \in S

LEMMA InSyncSame ==
  ASSUME NEW f, NEW g, NEW c, NEW n, \A k \in n.children : f[k] = g[k], InSync(f, c, n)
  PROVE  InSync(g, c, n)
<1>1. CalculateStatus(f, n) = CalculateStatus(g, n)
  BY SameStatus
<1>2. ReduceValue(f, n) = ReduceValue(g, n)
  BY SameValue
<1> QED
  BY <1>1, <1>2 DEF InSync

LEMMA UpUpward ==
  ASSUME NEW f, IsForm(f), NEW c \in Control
  PROVE  Upward(f, Up(f, c))
<1>1. \A j \in Up(f, c) : f[j].parent \in Up(f, c) \cup {NoControl}
  BY UpClosed DEF IsForm
<1>2. ASSUME NEW g \in Control, NEW k \in f[g].children, k \in Up(f, c) PROVE g \in Up(f, c)
  <2>1. g \in Group /\ f[k].parent = g
    BY DEF IsForm, Control
  <2>2. g # NoControl
    BY FormsAssumption
  <2> QED
    BY <1>1, <1>2, <2>1, <2>2
<1> QED
  BY <1>2 DEF Upward

\* The path to the root and what the call has changed are recomputed, the others
\* have nothing below them that has changed.
LEMMA UpdatedSync ==
  ASSUME NEW f, IsForm(f), NEW S, Upward(f, S), NEW bad, NEW emit \in BOOLEAN,
         \A c \in Control \ S : InSync(f, c, f[c])
  PROVE  SyncForm(Updated(f, S, bad, emit))
<1>1. PICK u : u = Updated(f, S, bad, emit)
  OBVIOUS
<1>2. \A c \in Control \cap S : InSync(u, c, u[c])
  BY <1>1, UpdatedForm
<1>3. ASSUME NEW c \in Control \ S PROVE InSync(u, c, u[c])
  <2>1. \A k \in Control \ S : u[k] = f[k]
    BY <1>1, UpdatedForm
  <2>2. \A k \in f[c].children : k \in Control \ S
    BY FormIsTree DEF IsTree, Upward
  <2>3. InSync(u, c, f[c])
    BY <2>1, <2>2, InSyncSame
  <2> QED
    BY <2>1, <2>3
<1> QED
  BY <1>1, <1>2, <1>3 DEF SyncForm

\* The form g has the errors and the runs of some controls in S changed.
LEMMA RecalculatedSync ==
  ASSUME NEW f, IsForm(f), SyncForm(f), NEW g, IsForm(g), SameTree(f, g),
         \A c \in Control : g[c].value = f[c].value /\ g[c].status = f[c].status,
         NEW S, Upward(f, S), \A c \in Control \ S : g[c] = f[c], NEW emit \in BOOLEAN
  PROVE  /\ SyncForm(Recalculated(g, S, emit))
         /\ \A c \in Control : Enabled(Recalculated(g, S, emit)[c]) <=> Enabled(f[c])
<1>1. PICK r : r = Recalculated(g, S, emit)
  OBVIOUS
<1>2. /\ IsForm(r) /\ SameTree(g, r)
      /\ \A c \in Control \ S : r[c] = f[c]
      /\ \A c \in Control \cap S : /\ r[c].value = g[c].value
                                   /\ r[c].status = CalculateStatus(r, g[c])
                                   /\ r[c].status = CalculateStatus(r, r[c])
  BY <1>1, RecalculatedForm
<1>3. \A c \in Control : r[c].value = f[c].value /\ r[c].children = f[c].children
  BY <1>2 DEF SameTree
<1>4. \A c \in Control : f[c].children \subseteq Control
  BY FormIsTree DEF IsTree
<1> DEFINE T == {c \in Control : ~(Enabled(r[c]) <=> Enabled(f[c]))}
<1>5. T = {}
  <2> SUFFICES ASSUME T # {} PROVE FALSE
    OBVIOUS
  <2>1. T \in SUBSET Control
    OBVIOUS
  <2>2. PICK c \in T : f[c].children \cap T = {}
    BY <2>1, FormIsTree, Lowest
  <2>3. c \in S
    BY <1>2, <2>2
  <2>4. \A k \in f[c].children : Enabled(r[k]) <=> Enabled(f[k])
    BY <1>4, <2>2
  <2>5. g[c].children = f[c].children /\ (Enabled(g[c]) <=> Enabled(f[c]))
    BY <2>2 DEF SameTree, Enabled
  <2>6. AllControlsDisabled(r, g[c]) <=> AllControlsDisabled(f, f[c])
    BY <2>4, <2>5 DEF AllControlsDisabled
  <2>7. ~Enabled(r[c]) <=> AllControlsDisabled(r, g[c])
    BY <1>2, <2>2, <2>3, StatusCases DEF Enabled
  <2>8. ~Enabled(f[c]) <=> AllControlsDisabled(f, f[c])
    BY <2>2, StatusCases DEF SyncForm, InSync, Enabled
  <2> QED
    BY <2>2, <2>6, <2>7, <2>8
<1>6. \A c \in Control : Enabled(r[c]) <=> Enabled(f[c])
  BY <1>5
<1>7. ASSUME NEW c \in Control PROVE InSync(r, c, r[c])
  <2>1. CASE c \in S
    <3>1. r[c].status = CalculateStatus(r, r[c])
      BY <1>2, <2>1
    <3>2. ReduceValue(r, r[c]) = ReduceValue(f, f[c])
      BY <1>3, <1>4, <1>6, SameValue
    <3> QED
      BY <1>3, <3>1, <3>2 DEF InSync, SyncForm
  <2>2. CASE c \notin S
    <3>1. \A k \in f[c].children : k \in Control \ S
      BY <1>4, <2>2 DEF Upward
    <3>2. InSync(r, c, f[c])
      BY <1>2, <3>1, InSyncSame DEF SyncForm
    <3> QED
      BY <1>2, <2>2, <3>2
  <2> QED
    BY <2>1, <2>2
<1> QED
  BY <1>1, <1>6, <1>7 DEF SyncForm

\* Only those that were PENDING get another status by an answer.
LEMMA AnswerKeeps ==
  ASSUME NEW f, IsForm(f), SyncForm(f), NEW g, IsForm(g), SameTree(f, g),
         \A c \in Control : g[c].value = f[c].value /\ g[c].status = f[c].status,
         NEW S, Upward(f, S), \A c \in Control \ S : g[c] = f[c], NEW emit \in BOOLEAN,
         \A c \in Control : g[c] = f[c] \/ f[c].status \in {"PENDING", "DISABLED"}
  PROVE  \A c \in Control :
           f[c].status # "PENDING" => Recalculated(g, S, emit)[c].status = f[c].status
<1>1. PICK r : r = Recalculated(g, S, emit)
  OBVIOUS
<1>2. /\ \A c \in Control \ S : r[c] = f[c]
      /\ \A c \in Control \cap S : r[c].status = CalculateStatus(r, g[c])
  BY <1>1, RecalculatedForm
<1>3. \A c \in Control : Enabled(r[c]) <=> Enabled(f[c])
  BY <1>1, RecalculatedSync
<1> DEFINE T == {c \in Control : f[c].status # "PENDING" /\ r[c].status # f[c].status}
<1>4. T = {}
  <2> SUFFICES ASSUME T # {} PROVE FALSE
    OBVIOUS
  <2>1. T \in SUBSET Control
    OBVIOUS
  <2>2. PICK c \in T : f[c].children \cap T = {}
    BY <2>1, FormIsTree, Lowest
  <2>3. c \in S /\ r[c].status = CalculateStatus(r, g[c])
    BY <1>2, <2>2
  <2>4. f[c].status \notin {"PENDING", "DISABLED"} /\ g[c] = f[c]
    BY <1>3, <2>2 DEF Enabled
  <2>5. f[c].children \subseteq Control
    BY FormIsTree DEF IsTree
  <2>6. \A k \in f[c].children : f[k].status = "PENDING" \/ r[k].status = f[k].status
    BY <2>2, <2>5
  <2>7. f[c].status = CalculateStatus(f, f[c])
    BY DEF SyncForm, InSync
  <2>8. AllControlsDisabled(r, f[c]) <=> AllControlsDisabled(f, f[c])
    BY <1>3, <2>5 DEF AllControlsDisabled
  <2>9. ~AllControlsDisabled(f, f[c])
    BY <2>4, <2>7, StatusCases
  <2>10. CASE f[c].errors
    BY <2>2, <2>3, <2>4, <2>7, <2>8, <2>9, <2>10 DEF CalculateStatus
  <2>11. CASE ~f[c].errors
    <3>1. \A k \in f[c].children : f[k].status # "PENDING"
      BY <2>4, <2>7, <2>9, <2>11 DEF CalculateStatus
    <3>2. CalculateStatus(r, f[c]) = CalculateStatus(f, f[c])
      BY <2>6, <3>1, SameStatus
    <3> QED
      BY <2>2, <2>3, <2>4, <2>7, <3>2
  <2> QED
    BY <2>10, <2>11
<1> QED
  BY <1>1, <1>4

-------------------------------------------------------------------------------
(***************************************************************************)
(* The invariant.  Until the application sets errors, a control that may    *)
(* become VALID without being validated again has been accepted.           *)
(***************************************************************************)
Approving(f, a) ==
  \A c \in Async :
    /\ f[c].status = "VALID" => a[c]
    /\ f[c].status = "PENDING" /\ ~f[c].own => a[c]
    /\ Asked(f[c])

StateInv(f, a, m) ==
  /\ IsForm(f) /\ SyncForm(f)
  /\ a \in [Async -> BOOLEAN] /\ m \in BOOLEAN
  /\ ~m => Approving(f, a)

FormsInv == StateInv(form, approved, manual)

\* Who knew the status of a control still does.
ToldKept(f, h) == \A c \in Control : f[c].told = f[c].status => h[c].told = h[c].status

\* The fields of a control, but for its place in the tree.
SameSelf(n, m) ==
  /\ m.value = n.value /\ m.status = n.status /\ m.errors = n.errors
  /\ m.own = n.own /\ m.run = n.run /\ m.told = n.told

ApprovedAfter(f, a, h) == [c \in Async |-> a[c] /\ h[c].value = f[c].value]

\* A call that ends with the update of S and has left the others alone, or has
\* disabled them.
LEMMA UpdateKeeps ==
  ASSUME NEW f, NEW a, NEW m, StateInv(f, a, m), NEW g, IsForm(g), NEW S, Upward(g, S),
         \A c \in Control \ S :
           /\ InSync(g, c, g[c])
           /\ SameSelf(f[c], g[c]) \/ (g[c].status = "DISABLED" /\ g[c].told = "DISABLED"),
         NEW bad
  PROVE  /\ StateInv(Updated(g, S, bad, TRUE), ApprovedAfter(f, a, Updated(g, S, bad, TRUE)), m)
         /\ ToldKept(f, Updated(g, S, bad, TRUE))
<1>1. PICK h : h = Updated(g, S, bad, TRUE)
  OBVIOUS
<1>2. PICK b : b = ApprovedAfter(f, a, h)
  OBVIOUS
<1>3. /\ IsForm(h)
      /\ \A c \in Control \ S : h[c] = g[c]
      /\ \A c \in Control \cap S :
           /\ h[c].told = h[c].status
           /\ c \in Async => h[c].status # "VALID" /\ (h[c].status = "PENDING" => h[c].own)
           /\ Asked(h[c])
  <2>1. PICK emit \in BOOLEAN : emit = TRUE
    OBVIOUS
  <2>2. h = Updated(g, S, bad, emit)
    BY <1>1, <2>1
  <2>3. IsForm(h) /\ \A c \in Control \ S : h[c] = g[c]
    BY <2>2, UpdatedForm
  <2>4. ASSUME NEW c \in Control \cap S
        PROVE  /\ emit => h[c].told = h[c].status
               /\ c \in Async => h[c].status # "VALID" /\ (h[c].status = "PENDING" => h[c].own)
               /\ Asked(h[c])
    BY <2>2, UpdatedForm
  <2> QED
    BY <2>1, <2>3, <2>4
<1>4. SyncForm(h)
  BY <1>1, UpdatedSync
<1>5. b \in [Async -> BOOLEAN] /\ \A c \in Async : b[c] <=> (a[c] /\ h[c].value = f[c].value)
  BY <1>2 DEF ApprovedAfter, StateInv
<1>6. ASSUME ~m, NEW c \in Async
      PROVE  /\ h[c].status = "VALID" => b[c]
             /\ h[c].status = "PENDING" /\ ~h[c].own => b[c]
             /\ Asked(h[c])
  <2>1. c \in Control
    BY FormsAssumption
  <2>2. CASE c \in S
    BY <1>3, <2>1, <2>2
  <2>3. CASE c \notin S /\ SameSelf(f[c], g[c])
    <3>1. /\ f[c].status = "VALID" => a[c]
          /\ f[c].status = "PENDING" /\ ~f[c].own => a[c]
          /\ Asked(f[c])
      BY <1>6 DEF StateInv, Approving
    <3>2. h[c] = g[c]
      BY <1>3, <2>1, <2>3
    <3>3. b[c] <=> a[c]
      BY <1>5, <2>3, <3>2 DEF SameSelf
    <3> QED
      BY <2>3, <3>1, <3>2, <3>3 DEF SameSelf, Asked
  <2>4. CASE c \notin S /\ g[c].status = "DISABLED"
    BY <1>3, <2>1, <2>4 DEF Asked
  <2> QED
    BY <2>1, <2>2, <2>3, <2>4
<1>7. StateInv(h, b, m)
  BY <1>3, <1>4, <1>5, <1>6 DEF StateInv, Approving
<1>8. ToldKept(f, h)
  BY <1>3 DEF ToldKept, SameSelf
<1> QED
  BY <1>1, <1>2, <1>7, <1>8

LEMMA Becomes ==
  ASSUME NEW h, Become(h), UNCHANGED manual,
         StateInv(h, ApprovedAfter(form, approved, h), manual), ToldKept(form, h)
  PROVE  FormsInv' /\ ToldKept(form, form')
<1>1. form' = h /\ approved' = ApprovedAfter(form, approved, h) /\ manual' = manual
  BY DEF Become, ApprovedAfter
<1> QED
  BY <1>1 DEF FormsInv

\* The form with other values or statuses at some controls, in the same tree.
LEMMA ChangedForm ==
  ASSUME NEW f, IsForm(f), SyncForm(f), NEW g, DOMAIN g = Control, SameTree(f, g),
         NEW S, Upward(f, S), \A c \in Control \ S : g[c] = f[c],
         \A c \in Control : IsNode(g[c]) /\ g[c].run = f[c].run,
         \A c \in Leaf : g[c].value \in Value
  PROVE  /\ IsForm(g) /\ Upward(g, S)
         /\ \A c \in Control \ S : InSync(g, c, g[c]) /\ SameSelf(f[c], g[c])
<1>1. IsForm(g)
  <2>1. \A c \in Control : f[c].run # {} => c \in Async
    BY DEF IsForm
  <2> QED
    BY <2>1, KeptForm
<1>2. Upward(g, S)
  BY DEF Upward, SameTree
<1>3. ASSUME NEW c \in Control \ S PROVE InSync(g, c, g[c])
  <2>1. \A k \in f[c].children : k \in Control \ S
    BY FormIsTree DEF IsTree, Upward
  <2>2. InSync(g, c, f[c])
    BY <2>1, InSyncSame DEF SyncForm
  <2> QED
    BY <2>2
<1> QED
  BY <1>1, <1>2, <1>3 DEF SameSelf

LEMMA PatchValueKeeps ==
  ASSUME FormsInv, NEW c \in Control, PatchValue(c)
  PROVE  FormsInv' /\ ToldKept(form, form')
<1>1. PICK N \in Named(c), bad \in SUBSET Sync :
        \E vals \in [N \cap Leaf -> Value] :
          Become(Updated(Patched(vals), N \cup Up(form, c), bad, TRUE))
  BY DEF PatchValue
<1>2. PICK vals \in [N \cap Leaf -> Value] :
        Become(Updated(Patched(vals), N \cup Up(form, c), bad, TRUE))
  BY <1>1
<1>3. PICK S : S = N \cup Up(form, c)
  OBVIOUS
<1>4. PICK g : g = Patched(vals)
  OBVIOUS
<1>5. IsForm(form) /\ SyncForm(form)
  BY DEF FormsInv, StateInv
<1>6. Upward(form, S)
  <2>1. Upward(form, Up(form, c)) /\ c \in Up(form, c)
    BY <1>5, UpUpward, UpClosed DEF IsForm
  <2>2. ASSUME NEW h \in Control, NEW k \in form[h].children, k \in N PROVE h \in S
    <3>1. form[k].parent = h
      BY <1>5, <2>2 DEF IsForm, Control
    <3>2. k = c \/ form[k].parent \in N
      BY <1>1, <2>2 DEF Named
    <3> QED
      BY <1>3, <2>1, <2>2, <3>1, <3>2 DEF Upward
  <2> QED
    BY <1>3, <2>1, <2>2 DEF Upward
<1>7. /\ DOMAIN g = Control /\ SameTree(form, g)
      /\ \A k \in Control \ S : g[k] = form[k]
      /\ \A k \in Control : IsNode(g[k]) /\ g[k].run = form[k].run
      /\ \A k \in Leaf : g[k].value \in Value
  <2>1. DOMAIN g = Control
    BY <1>4 DEF Patched
  <2>2. ASSUME NEW k \in Control
        PROVE  /\ g[k].children = form[k].children /\ g[k].parent = form[k].parent
               /\ k \notin S => g[k] = form[k]
               /\ IsNode(g[k]) /\ g[k].run = form[k].run
               /\ k \in Leaf => g[k].value \in Value
    <3>1. IsNode(form[k]) /\ (k \in Leaf => form[k].value \in Value)
      BY <1>5 DEF IsForm
    <3>2. CASE k \in N \cap Leaf
      <4>1. vals[k] \in Value /\ g[k] = [form[k] EXCEPT !.value = vals[k]]
        BY <1>4, <3>2 DEF Patched
      <4> QED
        BY <1>3, <3>1, <3>2, <4>1 DEF IsNode
    <3>3. CASE k \notin N \cap Leaf
      BY <1>4, <3>1, <3>3 DEF Patched
    <3> QED
      BY <3>2, <3>3
  <2> QED
    BY <2>1, <2>2 DEF SameTree, Control
<1>8. /\ IsForm(g) /\ Upward(g, S)
      /\ \A k \in Control \ S : InSync(g, k, g[k]) /\ SameSelf(form[k], g[k])
  BY <1>5, <1>6, <1>7, ChangedForm
<1>9. PICK h : h = Updated(g, S, bad, TRUE)
  OBVIOUS
<1>10. StateInv(h, ApprovedAfter(form, approved, h), manual) /\ ToldKept(form, h)
  BY <1>8, <1>9, UpdateKeeps DEF FormsInv
<1>11. Become(h) /\ UNCHANGED manual
  BY <1>2, <1>3, <1>4, <1>9 DEF PatchValue
<1> QED
  BY <1>10, <1>11, Becomes

LEMMA DisableKeeps ==
  ASSUME FormsInv, NEW c \in Control, Disable(c)
  PROVE  FormsInv' /\ ToldKept(form, form')
<1>1. PICK g : g = Disabled(form, Below(form, c))
  OBVIOUS
<1>2. PICK S : S = Up(form, c) \ {c}
  OBVIOUS
<1>3. PICK bad : Become(Updated(g, S, bad, TRUE))
  BY <1>1, <1>2 DEF Disable
<1>4. PICK B : B = Below(form, c)
  OBVIOUS
<1>5. IsForm(form) /\ SyncForm(form) /\ IsTree(form)
  BY FormIsTree DEF FormsInv, StateInv
<1>6. /\ B \in SUBSET Control /\ c \in B
      /\ \A j \in B : form[j].children \subseteq B
      /\ \A k \in B \ {c} : \E j \in B : k \in form[j].children
  BY <1>4, <1>5, BelowClosed
<1>7. /\ IsForm(g) /\ SameTree(form, g)
      /\ \A k \in Control \ B : g[k] = form[k]
      /\ \A k \in B : g[k].status = "DISABLED" /\ g[k].told = "DISABLED" /\ InSync(g, k, g[k])
  BY <1>1, <1>4, <1>5, <1>6, DisabledForm
<1>8. Upward(form, Up(form, c)) /\ \A k \in Up(form, c) : k \notin form[c].children
  BY <1>5, UpUpward, UpNotBelow
<1>9. Upward(g, S)
  <2>1. ASSUME NEW h \in Control, NEW k \in form[h].children, k \in S PROVE h \in S
    BY <1>2, <1>8, <2>1 DEF Upward
  <2> QED
    BY <1>7, <2>1 DEF Upward, SameTree
<1>10. ASSUME NEW k \in Control \ S
       PROVE  /\ InSync(g, k, g[k])
              /\ SameSelf(form[k], g[k]) \/ (g[k].status = "DISABLED" /\ g[k].told = "DISABLED")
  <2>1. CASE k \in B
    BY <1>7, <2>1
  <2>2. CASE k \notin B
    <3>1. ASSUME NEW j \in form[k].children, j \in B PROVE FALSE
      <4>1. form[j].parent = k /\ k \in Group
        BY <1>5, <3>1 DEF IsForm, Control
      <4>2. CASE j = c
        <5>1. c \in Up(form, c)
          BY <1>5, UpClosed DEF IsForm
        <5>2. k \in Up(form, c)
          BY <1>8, <3>1, <4>2, <5>1 DEF Upward
        <5> QED
          BY <1>2, <1>6, <2>2, <5>2
      <4>3. CASE j # c
        <5>1. PICK i \in B : j \in form[i].children
          BY <1>6, <3>1, <4>3
        <5>2. form[j].parent = i
          BY <1>5, <1>6, <5>1 DEF IsForm, Control
        <5> QED
          BY <2>2, <4>1, <5>2
      <4> QED
        BY <4>2, <4>3
    <3>2. \A j \in form[k].children : form[j] = g[j]
      BY <1>5, <1>7, <3>1 DEF IsTree
    <3>3. InSync(g, k, form[k])
      BY <1>5, <3>2, InSyncSame DEF SyncForm
    <3> QED
      BY <1>7, <2>2, <3>3 DEF SameSelf
  <2> QED
    BY <2>1, <2>2
<1>11. PICK h : h = Updated(g, S, bad, TRUE)
  OBVIOUS
<1>12. StateInv(h, ApprovedAfter(form, approved, h), manual) /\ ToldKept(form, h)
  BY <1>7, <1>9, <1>10, <1>11, UpdateKeeps DEF FormsInv
<1>13. Become(h) /\ UNCHANGED manual
  BY <1>3, <1>11 DEF Disable
<1> QED
  BY <1>12, <1>13, Becomes

LEMMA EnableKeeps ==
  ASSUME FormsInv, NEW c \in Control, Enable(c)
  PROVE  FormsInv' /\ ToldKept(form, form')
<1>1. PICK B : B = Below(form, c)
  OBVIOUS
<1>2. PICK S : S = B \cup Up(form, c)
  OBVIOUS
<1>3. PICK g : g = Enabling(B)
  OBVIOUS
<1>4. PICK bad : Become(Updated(g, S, bad, TRUE))
  BY <1>1, <1>2, <1>3 DEF Enable
<1>5. IsForm(form) /\ SyncForm(form) /\ IsTree(form)
  BY FormIsTree DEF FormsInv, StateInv
<1>6. /\ B \in SUBSET Control /\ c \in B
      /\ \A k \in B \ {c} : \E j \in B : k \in form[j].children
  BY <1>1, <1>5, BelowClosed
<1>7. Upward(form, S)
  <2>1. Upward(form, Up(form, c)) /\ c \in Up(form, c)
    BY <1>5, UpUpward, UpClosed DEF IsForm
  <2>2. ASSUME NEW h \in Control, NEW k \in form[h].children, k \in B \ {c} PROVE h \in S
    <3>1. form[k].parent = h
      BY <1>5, <2>2 DEF IsForm, Control
    <3>2. PICK j \in B : k \in form[j].children
      BY <1>6, <2>2
    <3>3. form[k].parent = j
      BY <1>5, <1>6, <3>2 DEF IsForm, Control
    <3> QED
      BY <1>2, <3>1, <3>3
  <2> QED
    BY <1>2, <2>1, <2>2 DEF Upward
<1>8. /\ DOMAIN g = Control /\ SameTree(form, g)
      /\ \A k \in Control \ S : g[k] = form[k]
      /\ \A k \in Control : IsNode(g[k]) /\ g[k].run = form[k].run
      /\ \A k \in Leaf : g[k].value \in Value
  <2>1. DOMAIN g = Control
    BY <1>3 DEF Enabling
  <2>2. ASSUME NEW k \in Control
        PROVE  /\ g[k].children = form[k].children /\ g[k].parent = form[k].parent
               /\ k \notin S => g[k] = form[k]
               /\ IsNode(g[k]) /\ g[k].run = form[k].run
               /\ k \in Leaf => g[k].value \in Value
    <3>1. IsNode(form[k]) /\ (k \in Leaf => form[k].value \in Value)
      BY <1>5 DEF IsForm
    <3>2. CASE k \in B
      <4>1. g[k] = [form[k] EXCEPT !.status = "VALID"]
        BY <1>3, <3>2 DEF Enabling
      <4> QED
        BY <1>2, <3>1, <3>2, <4>1 DEF IsNode, Status
    <3>3. CASE k \notin B
      BY <1>3, <3>1, <3>3 DEF Enabling
    <3> QED
      BY <3>2, <3>3
  <2> QED
    BY <2>1, <2>2 DEF SameTree, Control
<1>9. /\ IsForm(g) /\ Upward(g, S)
      /\ \A k \in Control \ S : InSync(g, k, g[k]) /\ SameSelf(form[k], g[k])
  BY <1>5, <1>7, <1>8, ChangedForm
<1>10. PICK h : h = Updated(g, S, bad, TRUE)
  OBVIOUS
<1>11. StateInv(h, ApprovedAfter(form, approved, h), manual) /\ ToldKept(form, h)
  BY <1>9, <1>10, UpdateKeeps DEF FormsInv
<1>12. Become(h) /\ UNCHANGED manual
  BY <1>4, <1>10 DEF Enable
<1> QED
  BY <1>11, <1>12, Becomes

-------------------------------------------------------------------------------
(* Leaves come and go. *)

\* Other children at one control of S.
LEMMA MovedForm ==
  ASSUME NEW f, IsForm(f), NEW S, Upward(f, S), \A k \in Control \ S : InSync(f, k, f[k]),
         NEW t, IsForm(t), Upward(t, S), \A k \in Control : SameSelf(f[k], t[k]),
         \A k \in Control \ S : t[k].children = f[k].children
  PROVE  \A k \in Control \ S : InSync(t, k, t[k])
<1> TAKE k \in Control \ S
<1>1. InSync(f, k, f[k]) /\ SameSelf(f[k], t[k]) /\ t[k].children = f[k].children
  OBVIOUS
<1>2. \A j \in f[k].children : SameSelf(f[j], t[j])
  BY FormIsTree DEF IsTree
<1>3. CalculateStatus(t, t[k]) = CalculateStatus(f, f[k])
  BY <1>1, <1>2, SameStatus DEF SameSelf, Enabled
<1>4. ReduceValue(t, t[k]) = ReduceValue(f, f[k])
  BY <1>1, <1>2, SameValue DEF SameSelf, Enabled
<1> QED
  BY <1>1, <1>3, <1>4 DEF InSync, SameSelf

LEMMA WithoutForm ==
  ASSUME NEW f, IsForm(f), NEW S, Upward(f, S), \A k \in Control \ S : InSync(f, k, f[k]),
         NEW g \in Group, g \in S, NEW c \in Leaf
  PROVE  /\ IsForm(Without(f, g, c)) /\ Upward(Without(f, g, c), S)
         /\ \A k \in Control \ S : InSync(Without(f, g, c), k, Without(f, g, c)[k])
         /\ \A k \in Control : SameSelf(f[k], Without(f, g, c)[k])
         /\ \A h \in Group : Without(f, g, c)[h].children \subseteq f[h].children
<1>1. PICK t : t = Without(f, g, c)
  OBVIOUS
<1>2. g \in Control /\ c \in Control /\ g # c /\ c \notin Group
  BY FormsAssumption DEF Control
<1>3. DOMAIN t = Control
  BY <1>1, <1>2 DEF Without, IsForm
<1>4. \A k \in Control \ {g} : t[k] = f[k]
  BY <1>1, <1>2 DEF Without, IsForm
<1>5. /\ IsNode(t[g]) /\ t[g].children = f[g].children \ {c} /\ t[g].parent = f[g].parent
      /\ t[g].run = f[g].run /\ SameSelf(f[g], t[g])
  <2>1. IsNode(f[g])
    BY <1>2 DEF IsForm
  <2>2. t[g] = [f[g] EXCEPT !.children = f[g].children \ {c}]
    BY <1>1, <1>2 DEF Without, IsForm
  <2> QED
    BY <2>1, <2>2 DEF IsNode, SameSelf
<1>6. ASSUME NEW k \in Control
      PROVE  /\ IsNode(t[k]) /\ SameSelf(f[k], t[k])
             /\ t[k].parent = f[k].parent /\ t[k].run = f[k].run /\ t[k].value = f[k].value
             /\ t[k].children \subseteq f[k].children /\ f[k].children \subseteq t[k].children \cup {c}
  <2>1. CASE k = g
    BY <1>5, <2>1 DEF SameSelf
  <2>2. CASE k # g
    BY <1>4, <2>2 DEF IsForm, SameSelf
  <2> QED
    BY <2>1, <2>2
<1>7. IsForm(t)
  <2>1. ASSUME NEW k \in Control
        PROVE  /\ t[k].parent \in Group \cup {NoControl}
               /\ t[k].run # {} => k \in Async
               /\ k \in Leaf => t[k].children = {} /\ t[k].value \in Value
    BY <1>6 DEF IsForm
  <2>2. ASSUME NEW k \in Group
        PROVE  /\ t[k].children \subseteq Children[k] \cup Movable
               /\ \A j \in t[k].children : t[j].parent = k
               /\ t[k].parent \in Group => k \in t[t[k].parent].children
    <3>1. k \in Control /\ f[k].children \subseteq Control
      BY FormIsTree DEF IsTree, Control
    <3>2. /\ f[k].children \subseteq Children[k] \cup Movable
          /\ \A j \in f[k].children : f[j].parent = k
          /\ f[k].parent \in Group => k \in f[f[k].parent].children
      BY <3>1 DEF IsForm
    <3>3. t[k].parent \in Group => k \in t[t[k].parent].children
      BY <1>2, <1>6, <3>1, <3>2 DEF Control
    <3> QED
      BY <1>6, <3>1, <3>2, <3>3
  <2> QED
    BY <1>3, <1>6, <2>1, <2>2 DEF IsForm
<1>8. Upward(t, S)
  BY <1>6 DEF Upward
<1>9. \A k \in Control \ S : t[k].children = f[k].children
  BY <1>4
<1>10. \A k \in Control \ S : InSync(t, k, t[k])
  BY <1>6, <1>7, <1>8, <1>9, MovedForm
<1> QED
  BY <1>1, <1>6, <1>7, <1>8, <1>10 DEF Control

LEMMA WithForm ==
  ASSUME NEW f, IsForm(f), NEW S, Upward(f, S), \A k \in Control \ S : InSync(f, k, f[k]),
         NEW g \in Group, g \in S, NEW c \in Movable, \A h \in Group : c \notin f[h].children
  PROVE  /\ IsForm(With(f, g, c)) /\ Upward(With(f, g, c), S)
         /\ \A k \in Control \ S : InSync(With(f, g, c), k, With(f, g, c)[k])
         /\ \A k \in Control : SameSelf(f[k], With(f, g, c)[k])
<1>1. PICK t : t = With(f, g, c)
  OBVIOUS
<1>2. g \in Control /\ c \in Control /\ g # c /\ c \in Leaf /\ c \notin Group
  BY FormsAssumption DEF Control
<1>3. DOMAIN t = Control
  BY <1>1, <1>2 DEF With, IsForm
<1>4. \A k \in Control \ {g, c} : t[k] = f[k]
  BY <1>1, <1>2 DEF With, IsForm
<1>5. /\ IsNode(t[g]) /\ t[g].children = f[g].children \cup {c} /\ t[g].parent = f[g].parent
      /\ t[g].run = f[g].run /\ SameSelf(f[g], t[g])
  <2>1. IsNode(f[g])
    BY <1>2 DEF IsForm
  <2>2. t[g] = [f[g] EXCEPT !.children = f[g].children \cup {c}]
    BY <1>1, <1>2 DEF With, IsForm
  <2> QED
    BY <2>1, <2>2 DEF IsNode, SameSelf
<1>6. /\ IsNode(t[c]) /\ t[c].children = {} /\ t[c].parent = g
      /\ t[c].run = f[c].run /\ SameSelf(f[c], t[c])
  <2>1. IsNode(f[c]) /\ f[c].children = {}
    BY <1>2 DEF IsForm
  <2>2. t[c] = [f[c] EXCEPT !.parent = g]
    BY <1>1, <1>2 DEF With, IsForm
  <2> QED
    BY <2>1, <2>2 DEF IsNode, SameSelf
<1>7. ASSUME NEW k \in Control
      PROVE  /\ IsNode(t[k]) /\ SameSelf(f[k], t[k])
             /\ t[k].run = f[k].run /\ t[k].value = f[k].value
             /\ k # c => t[k].parent = f[k].parent
             /\ k # g => t[k].children = f[k].children
             /\ f[k].children \subseteq t[k].children
             /\ t[k].children \subseteq f[k].children \cup {c}
  <2>1. CASE k = g
    BY <1>2, <1>5, <2>1 DEF SameSelf
  <2>2. CASE k = c
    BY <1>2, <1>6, <2>2 DEF IsForm, SameSelf
  <2>3. CASE k \notin {g, c}
    BY <1>4, <2>3 DEF IsForm, SameSelf
  <2> QED
    BY <2>1, <2>2, <2>3
<1>8. IsForm(t)
  <2>1. ASSUME NEW k \in Control
        PROVE  /\ t[k].parent \in Group \cup {NoControl}
               /\ t[k].run # {} => k \in Async
               /\ k \in Leaf => t[k].children = {} /\ t[k].value \in Value
    <3>1. k \in Leaf => k # g
      BY FormsAssumption
    <3> QED
      BY <1>6, <1>7, <3>1 DEF IsForm
  <2>2. ASSUME NEW k \in Group
        PROVE  /\ t[k].children \subseteq Children[k] \cup Movable
               /\ \A j \in t[k].children : t[j].parent = k
               /\ t[k].parent \in Group => k \in t[t[k].parent].children
    <3>1. k \in Control /\ k # c /\ f[k].children \subseteq Control
      BY <1>2, FormIsTree DEF IsTree, Control
    <3>2. /\ f[k].children \subseteq Children[k] \cup Movable
          /\ \A j \in f[k].children : f[j].parent = k
          /\ f[k].parent \in Group => k \in f[f[k].parent].children
      BY <3>1 DEF IsForm
    <3>3. t[k].parent \in Group => k \in t[t[k].parent].children
      BY <1>7, <3>1, <3>2 DEF Control
    <3>4. ASSUME NEW j \in t[k].children PROVE t[j].parent = k
      <4>1. CASE j = c
        <5>1. k = g
          BY <1>7, <3>1, <3>4, <4>1
        <5> QED
          BY <1>6, <4>1, <5>1
      <4>2. CASE j # c
        BY <1>7, <3>1, <3>2, <4>2
      <4> QED
        BY <4>1, <4>2
    <3>5. t[k].children \subseteq Children[k] \cup Movable
      BY <1>7, <3>1, <3>2
    <3> QED
      BY <3>3, <3>4, <3>5
  <2> QED
    BY <1>3, <1>7, <2>1, <2>2 DEF IsForm
<1>9. Upward(t, S)
  BY <1>7 DEF Upward
<1>10. \A k \in Control \ S : t[k].children = f[k].children
  BY <1>7
<1>11. \A k \in Control \ S : InSync(t, k, t[k])
  BY <1>7, <1>8, <1>9, <1>10, MovedForm
<1> QED
  BY <1>1, <1>7, <1>8, <1>9, <1>11

LEMMA MoveKeeps ==
  ASSUME FormsInv, NEW g \in Group, NEW c \in Movable,
         AddControl(g, c) \/ RemoveControl(g, c) \/ \E old \in Leaf : SetControl(g, old, c)
  PROVE  FormsInv' /\ ToldKept(form, form')
<1>1. PICK S : S = Up(form, g)
  OBVIOUS
<1>2. IsForm(form) /\ SyncForm(form)
  BY DEF FormsInv, StateInv
<1>3. Upward(form, S) /\ g \in S /\ \A k \in Control \ S : InSync(form, k, form[k])
  <2>1. g \in Control
    BY DEF Control
  <2>2. g \in Up(form, g)
    BY <1>2, <2>1, UpClosed DEF IsForm
  <2> QED
    BY <1>1, <1>2, <2>1, <2>2, UpUpward DEF SyncForm
<1>4. ASSUME NEW t, IsForm(t), Upward(t, S), \A k \in Control \ S : InSync(t, k, t[k]),
             \A k \in Control : SameSelf(form[k], t[k]), UNCHANGED manual,
             NEW bad, Become(Updated(t, S, bad, TRUE))
      PROVE  FormsInv' /\ ToldKept(form, form')
  <2>1. PICK h : h = Updated(t, S, bad, TRUE)
    OBVIOUS
  <2>2. StateInv(h, ApprovedAfter(form, approved, h), manual) /\ ToldKept(form, h)
    BY <1>4, <2>1, UpdateKeeps DEF FormsInv
  <2>3. Become(h)
    BY <1>4, <2>1
  <2> QED
    BY <1>4, <2>2, <2>3, Becomes
<1>5. CASE AddControl(g, c)
  <2>1. PICK bad : Become(Updated(With(form, g, c), S, bad, TRUE))
    BY <1>1, <1>5 DEF AddControl
  <2>2. \A h \in Group : c \notin form[h].children
    BY <1>5 DEF AddControl, Free
  <2>3. PICK t : t = With(form, g, c)
    OBVIOUS
  <2>4. /\ IsForm(t) /\ Upward(t, S) /\ \A k \in Control \ S : InSync(t, k, t[k])
        /\ \A k \in Control : SameSelf(form[k], t[k])
    BY <1>2, <1>3, <2>2, <2>3, WithForm
  <2> QED
    BY <1>4, <1>5, <2>1, <2>3, <2>4 DEF AddControl
<1>6. CASE RemoveControl(g, c)
  <2>1. PICK bad : Become(Updated(Without(form, g, c), S, bad, TRUE))
    BY <1>1, <1>6 DEF RemoveControl
  <2>2. c \in Leaf
    BY FormsAssumption
  <2>3. PICK t : t = Without(form, g, c)
    OBVIOUS
  <2>4. /\ IsForm(t) /\ Upward(t, S) /\ \A k \in Control \ S : InSync(t, k, t[k])
        /\ \A k \in Control : SameSelf(form[k], t[k])
    BY <1>2, <1>3, <2>2, <2>3, WithoutForm
  <2> QED
    BY <1>4, <1>6, <2>1, <2>3, <2>4 DEF RemoveControl
<1>7. ASSUME NEW old \in Leaf, SetControl(g, old, c) PROVE FormsInv' /\ ToldKept(form, form')
  <2>1. PICK bad : Become(Updated(With(Without(form, g, old), g, c), S, bad, TRUE))
    BY <1>1, <1>7 DEF SetControl
  <2>2. \A h \in Group : c \notin form[h].children
    BY <1>7 DEF SetControl, Free
  <2>3. PICK s : s = Without(form, g, old)
    OBVIOUS
  <2>4. /\ IsForm(s) /\ Upward(s, S) /\ \A k \in Control \ S : InSync(s, k, s[k])
        /\ \A k \in Control : SameSelf(form[k], s[k])
        /\ \A h \in Group : s[h].children \subseteq form[h].children
    BY <1>2, <1>3, <2>3, WithoutForm
  <2>5. \A h \in Group : c \notin s[h].children
    BY <2>2, <2>4
  <2>6. PICK t : t = With(s, g, c)
    OBVIOUS
  <2>7. /\ IsForm(t) /\ Upward(t, S) /\ \A k \in Control \ S : InSync(t, k, t[k])
        /\ \A k \in Control : SameSelf(s[k], t[k])
    BY <1>3, <2>4, <2>5, <2>6, WithForm
  <2>8. \A k \in Control : SameSelf(form[k], t[k])
    BY <2>4, <2>7 DEF SameSelf
  <2>9. Become(Updated(t, S, bad, TRUE)) /\ UNCHANGED manual
    BY <1>7, <2>1, <2>3, <2>6 DEF SetControl
  <2> QED
    BY <1>4, <2>7, <2>8, <2>9
<1> QED
  BY <1>5, <1>6, <1>7

-------------------------------------------------------------------------------
(* Errors that the application or an asynchronous validator sets. *)

Errored(f, c, found) == [f EXCEPT ![c].errors = found]

LEMMA ErroredForm ==
  ASSUME NEW f, IsForm(f), NEW c \in Control, NEW found \in BOOLEAN,
         NEW g, g = Errored(f, c, found)
  PROVE  /\ IsForm(g) /\ SameTree(f, g)
         /\ \A k \in Control \ {c} : g[k] = f[k]
         /\ g[c].errors = found
         /\ \A k \in Control : /\ g[k].value = f[k].value /\ g[k].status = f[k].status
                               /\ g[k].own = f[k].own /\ g[k].run = f[k].run
                               /\ g[k].told = f[k].told
<1>1. DOMAIN g = Control /\ \A k \in Control \ {c} : g[k] = f[k]
  BY DEF IsForm, Errored
<1>2. /\ IsNode(g[c]) /\ g[c].children = f[c].children /\ g[c].parent = f[c].parent
      /\ g[c].value = f[c].value /\ g[c].status = f[c].status
      /\ g[c].own = f[c].own /\ g[c].run = f[c].run /\ g[c].told = f[c].told
      /\ g[c].errors = found
  <2>1. IsNode(f[c])
    BY DEF IsForm
  <2>2. g[c] = [f[c] EXCEPT !.errors = found]
    BY DEF IsForm, Errored
  <2>3. PICK n : n = f[c]
    OBVIOUS
  <2>4. g[c] = [children |-> n.children, parent |-> n.parent, value |-> n.value,
                status |-> n.status, errors |-> found, own |-> n.own, run |-> n.run,
                told |-> n.told]
    BY <2>1, <2>2, <2>3 DEF IsNode
  <2>5. /\ n.status \in Status /\ n.told \in Status \cup {"nothing"} /\ n.own \in BOOLEAN
        /\ \A r \in n.run : r.emit \in BOOLEAN
        /\ n.own = TRUE <=> n.run # {}
    BY <2>1, <2>3 DEF IsNode
  <2>6. IsNode(g[c])
    <3>1. /\ g[c].status = n.status /\ g[c].told = n.told /\ g[c].errors = found
          /\ g[c].own = n.own /\ g[c].run = n.run
      BY <2>4
    <3>2. g[c] = [children |-> g[c].children, parent |-> g[c].parent, value |-> g[c].value,
                  status |-> g[c].status, errors |-> g[c].errors, own |-> g[c].own,
                  run |-> g[c].run, told |-> g[c].told]
      BY <2>4
    <3> QED
      BY <2>5, <3>1, <3>2 DEF IsNode
  <2> QED
    BY <2>3, <2>4, <2>6
<1>3. ASSUME NEW k \in Control
      PROVE  /\ IsNode(g[k]) /\ (g[k].run # {} => k \in Async)
             /\ g[k].children = f[k].children /\ g[k].parent = f[k].parent
             /\ g[k].value = f[k].value /\ g[k].status = f[k].status
             /\ g[k].own = f[k].own /\ g[k].run = f[k].run /\ g[k].told = f[k].told
             /\ k \in Leaf => g[k].value \in Value
  <2>1. IsNode(f[k]) /\ (f[k].run # {} => k \in Async) /\ (k \in Leaf => f[k].value \in Value)
    BY DEF IsForm
  <2> QED
    BY <1>1, <1>2, <2>1
<1>4. SameTree(f, g) /\ \A k \in Leaf : g[k].value \in Value
  BY <1>3 DEF SameTree, Control
<1>5. IsForm(g)
  BY <1>1, <1>3, <1>4, KeptForm
<1> QED
  BY <1>1, <1>2, <1>3, <1>4, <1>5

LEMMA AnsweredForm ==
  ASSUME NEW f, IsForm(f), NEW c \in Control
  PROVE  /\ IsForm(Answered(f, c)) /\ SameTree(f, Answered(f, c))
         /\ \A k \in Control \ {c} : Answered(f, c)[k] = f[k]
         /\ Answered(f, c)[c].own = FALSE
         /\ \A k \in Control : /\ Answered(f, c)[k].value = f[k].value
                               /\ Answered(f, c)[k].status = f[k].status
                               /\ Answered(f, c)[k].told = f[k].told
<1>1. PICK g : g = Answered(f, c)
  OBVIOUS
<1>2. DOMAIN g = Control /\ \A k \in Control \ {c} : g[k] = f[k]
  BY <1>1 DEF Answered, IsForm
<1>3. /\ IsNode(g[c]) /\ g[c].children = f[c].children /\ g[c].parent = f[c].parent
      /\ g[c].value = f[c].value /\ g[c].status = f[c].status
      /\ g[c].own = FALSE /\ g[c].run = {} /\ g[c].told = f[c].told
  <2>1. IsNode(f[c])
    BY DEF IsForm
  <2>2. PICK n : n = f[c]
    OBVIOUS
  <2>3. PICK x : x = [n EXCEPT !.own = FALSE]
    OBVIOUS
  <2>4. x = [children |-> n.children, parent |-> n.parent, value |-> n.value,
             status |-> n.status, errors |-> n.errors, own |-> FALSE, run |-> n.run,
             told |-> n.told]
    BY <2>1, <2>2, <2>3 DEF IsNode
  <2>5. g[c] = [x EXCEPT !.run = {}]
    BY <1>1, <2>2, <2>3 DEF Answered, IsForm
  <2>6. g[c] = [children |-> n.children, parent |-> n.parent, value |-> n.value,
                status |-> n.status, errors |-> n.errors, own |-> FALSE, run |-> {},
                told |-> n.told]
    BY <2>4, <2>5
  <2>7. n.status \in Status /\ n.told \in Status \cup {"nothing"} /\ n.errors \in BOOLEAN
    BY <2>1, <2>2 DEF IsNode
  <2>8. IsNode(g[c])
    <3>1. /\ g[c].status = n.status /\ g[c].told = n.told /\ g[c].errors = n.errors
          /\ g[c].own = FALSE /\ g[c].run = {}
      BY <2>6
    <3>2. g[c] = [children |-> g[c].children, parent |-> g[c].parent, value |-> g[c].value,
                  status |-> g[c].status, errors |-> g[c].errors, own |-> g[c].own,
                  run |-> g[c].run, told |-> g[c].told]
      BY <2>6
    <3> QED
      BY <2>7, <3>1, <3>2 DEF IsNode
  <2> QED
    BY <2>2, <2>6, <2>8
<1>4. ASSUME NEW k \in Control
      PROVE  /\ IsNode(g[k]) /\ (g[k].run # {} => k \in Async)
             /\ g[k].children = f[k].children /\ g[k].parent = f[k].parent
             /\ g[k].value = f[k].value /\ g[k].status = f[k].status
             /\ g[k].told = f[k].told
             /\ k \in Leaf => g[k].value \in Value
  <2>1. IsNode(f[k]) /\ (f[k].run # {} => k \in Async) /\ (k \in Leaf => f[k].value \in Value)
    BY DEF IsForm
  <2> QED
    BY <1>2, <1>3, <2>1
<1>5. SameTree(f, g) /\ \A k \in Leaf : g[k].value \in Value
  BY <1>4 DEF SameTree, Control
<1>6. IsForm(g)
  BY <1>2, <1>4, <1>5, KeptForm
<1> QED
  BY <1>1, <1>2, <1>3, <1>4, <1>5, <1>6

LEMMA SetErrorsKeeps ==
  ASSUME FormsInv, NEW c \in Control, SetErrors(c)
  PROVE  FormsInv' /\ ToldKept(form, form')
<1>1. PICK found \in BOOLEAN : Become(WithErrors(form, c, found, TRUE))
  BY DEF SetErrors
<1>2. PICK S : S = Up(form, c)
  OBVIOUS
<1>3. PICK g : g = Errored(form, c, found)
  OBVIOUS
<1>4. PICK emit \in BOOLEAN : emit = TRUE
  OBVIOUS
<1>5. PICK r : r = Recalculated(g, S, emit)
  OBVIOUS
<1>6. IsForm(form) /\ SyncForm(form)
  BY DEF FormsInv, StateInv
<1>7. /\ IsForm(g) /\ SameTree(form, g)
      /\ \A k \in Control \ {c} : g[k] = form[k]
      /\ \A k \in Control : g[k].value = form[k].value /\ g[k].status = form[k].status
  BY <1>3, <1>6, ErroredForm
<1>8. Upward(form, S) /\ c \in S
  BY <1>2, <1>6, UpUpward, UpClosed DEF IsForm
<1>9. \A k \in Control \ S : g[k] = form[k]
  BY <1>7, <1>8
<1>10. SyncForm(r)
  BY <1>5, <1>6, <1>7, <1>8, <1>9, RecalculatedSync
<1>11. IsForm(r) /\ \A k \in Control \ S : r[k] = form[k]
  BY <1>5, <1>7, <1>9, RecalculatedForm
<1>12. ASSUME NEW k \in Control \cap S
       PROVE  /\ r[k].value = g[k].value
              /\ emit => r[k].told = r[k].status
  BY <1>5, <1>7, RecalculatedForm
<1>13. ToldKept(form, r)
  BY <1>4, <1>11, <1>12 DEF ToldKept
<1>14. /\ form' = r /\ manual' = TRUE
       /\ approved' = [k \in Async |-> approved[k] /\ r[k].value = form[k].value]
  BY <1>1, <1>2, <1>3, <1>4, <1>5 DEF Become, WithErrors, SetErrors, Errored
<1>15. approved' \in [Async -> BOOLEAN]
  BY <1>14
<1>16. FormsInv'
  BY <1>10, <1>11, <1>14, <1>15 DEF FormsInv, StateInv
<1> QED
  BY <1>13, <1>14, <1>16

\* The form g has the errors that the asynchronous validator of c has found.
AnswerGives(f, a, c, answer, found, g, b) ==
  /\ StateInv(f, a, FALSE) /\ IsForm(g) /\ SameTree(f, g)
  /\ \A k \in Control : g[k].value = f[k].value /\ g[k].status = f[k].status
  /\ \A k \in Control \ {c} : g[k] = f[k]
  /\ answer \in f[c].run
  /\ g[c].own = FALSE /\ g[c].errors = found
  /\ b[c] <=> (~found /\ answer.value = f[c].value)
  /\ \A d \in Async \ {c} : b[d] = a[d]

\* The answer is about the value that the control has, since a run is cancelled
\* when there is another value to validate.
LEMMA AnswerApproves ==
  ASSUME NEW f, NEW a, NEW c \in Async, NEW answer, NEW found \in BOOLEAN, NEW g, NEW b,
         AnswerGives(f, a, c, answer, found, g, b),
         NEW S, Upward(f, S), c \in S, NEW emit \in BOOLEAN
  PROVE  Approving(Recalculated(g, S, emit), b)
<1>1. /\ StateInv(f, a, FALSE) /\ IsForm(g) /\ SameTree(f, g)
      /\ \A k \in Control : g[k].value = f[k].value /\ g[k].status = f[k].status
      /\ \A k \in Control \ {c} : g[k] = f[k]
      /\ answer \in f[c].run
      /\ g[c].own = FALSE /\ g[c].errors = found
      /\ b[c] <=> (~found /\ answer.value = f[c].value)
      /\ \A d \in Async \ {c} : b[d] = a[d]
  BY DEF AnswerGives
<1>2. PICK r : r = Recalculated(g, S, emit)
  OBVIOUS
<1>3. /\ IsForm(f) /\ SyncForm(f) /\ a \in [Async -> BOOLEAN] /\ Approving(f, a)
      /\ c \in Control
  BY <1>1, FormsAssumption DEF StateInv
<1>4. /\ \A k \in Control \ S : r[k] = f[k]
      /\ \A k \in Control \cap S :
           /\ r[k].value = g[k].value /\ r[k].run = g[k].run /\ r[k].own = g[k].own
           /\ r[k].errors = g[k].errors
  <2>1. \A k \in Control \ S : g[k] = f[k]
    BY <1>1
  <2> QED
    BY <1>2, <1>1, <2>1, RecalculatedForm
<1>5. SyncForm(r) /\ \A k \in Control : Enabled(r[k]) <=> Enabled(f[k])
  <2>1. \A k \in Control \ S : g[k] = f[k]
    BY <1>1
  <2> QED
    BY <1>2, <1>1, <1>3, <2>1, RecalculatedSync
<1>6. f[c].status \in {"PENDING", "DISABLED"}
  <2>1. f[c].own /\ Asked(f[c]) /\ f[c].status = CalculateStatus(f, f[c])
    BY <1>1, <1>3 DEF Approving, SyncForm, InSync, IsForm, IsNode
  <2>2. CASE f[c].status # "DISABLED"
    <3>1. ~f[c].errors
      BY <2>1, <2>2 DEF Asked
    <3>2. ~AllControlsDisabled(f, f[c])
      BY <2>1, <2>2, StatusCases
    <3> QED
      BY <2>1, <3>1, <3>2 DEF CalculateStatus
  <2> QED
    BY <2>2
<1>7. \A k \in Control : f[k].status # "PENDING" => r[k].status = f[k].status
  <2>1. \A k \in Control : g[k] = f[k] \/ f[k].status \in {"PENDING", "DISABLED"}
    BY <1>1, <1>6
  <2>2. \A k \in Control \ S : g[k] = f[k]
    BY <1>1
  <2> QED
    BY <1>2, <1>1, <1>3, <2>1, <2>2, AnswerKeeps
<1>8. ASSUME NEW d \in Control, r[d].status \in {"VALID", "PENDING"} PROVE ~r[d].errors
  <2>1. r[d].status = CalculateStatus(r, r[d])
    BY <1>5 DEF SyncForm, InSync
  <2> QED
    BY <1>8, <2>1 DEF CalculateStatus
<1>9. ASSUME NEW d \in Control, r[d].status = "VALID" PROVE ~r[d].own
  <2>1. r[d].status = CalculateStatus(r, r[d])
    BY <1>5 DEF SyncForm, InSync
  <2> QED
    BY <1>9, <2>1 DEF CalculateStatus
<1>10. /\ r[c].own = FALSE /\ r[c].errors = found
  BY <1>1, <1>3, <1>4
<1>11. ASSUME r[c].status \in {"VALID", "PENDING"} PROVE b[c]
  <2>1. ~found
    BY <1>3, <1>8, <1>10, <1>11
  <2>2. f[c].status # "DISABLED" /\ f[c].own
    BY <1>1, <1>3, <1>5, <1>11 DEF Enabled, IsForm, IsNode
  <2>3. answer.value = f[c].value
    BY <1>1, <1>3, <2>2 DEF Approving, Asked
  <2> QED
    BY <1>1, <2>1, <2>3
<1>12. ASSUME NEW d \in Async \ {c}
       PROVE  /\ r[d].status = "VALID" => a[d]
              /\ r[d].status = "PENDING" /\ ~r[d].own => a[d]
              /\ Asked(r[d])
  <2>1. d \in Control
    BY FormsAssumption
  <2>2. r[d].value = f[d].value /\ r[d].run = f[d].run /\ r[d].own = f[d].own /\ r[d].errors = f[d].errors
    BY <1>1, <1>4, <2>1
  <2>3. /\ f[d].status = "VALID" => a[d]
        /\ f[d].status = "PENDING" /\ ~f[d].own => a[d]
        /\ Asked(f[d])
    BY <1>3 DEF Approving
  <2>4. f[d].status # "PENDING" => r[d].status = f[d].status
    BY <1>7, <2>1
  <2>5. r[d].status = "VALID" => ~r[d].own
    BY <1>9, <2>1
  <2>6. Asked(r[d])
    BY <1>5, <2>1, <2>2, <2>3 DEF Asked, Enabled
  <2> QED
    BY <2>2, <2>3, <2>4, <2>5, <2>6
<1>13. Asked(r[c])
  BY <1>10 DEF Asked
<1>14. Approving(r, b)
  BY <1>1, <1>11, <1>12, <1>13 DEF Approving
<1> QED
  BY <1>2, <1>14

LEMMA AnswerKeepsInv ==
  ASSUME FormsInv, NEW c \in Async, Answer(c)
  PROVE  FormsInv' /\ (~Silent => ToldKept(form, form'))
<1>1. PICK answer \in form[c].run, found \in BOOLEAN :
        /\ form' = WithErrors(Answered(form, c), c, found, answer.emit)
        /\ approved' = [approved EXCEPT ![c] = ~found /\ answer.value = form[c].value]
  BY DEF Answer
<1>2. c \in Control /\ IsForm(form) /\ SyncForm(form) /\ StateInv(form, approved, manual)
  BY FormsAssumption DEF FormsInv, StateInv
<1>3. PICK s : s = Answered(form, c)
  OBVIOUS
<1>4. PICK g : g = Errored(s, c, found)
  OBVIOUS
<1>5. PICK S : S = Up(s, c)
  OBVIOUS
<1>6. PICK emit \in BOOLEAN : emit = answer.emit
  BY <1>1, <1>2 DEF IsForm, IsNode
<1>7. PICK r : r = Recalculated(g, S, emit)
  OBVIOUS
<1>8. /\ IsForm(s) /\ SameTree(form, s) /\ s[c].own = FALSE
      /\ \A k \in Control \ {c} : s[k] = form[k]
  BY <1>2, <1>3, AnsweredForm
<1>9. ASSUME NEW k \in Control
      PROVE  /\ s[k].value = form[k].value /\ s[k].status = form[k].status
             /\ s[k].told = form[k].told
  BY <1>2, <1>3, AnsweredForm
<1>10. /\ IsForm(g) /\ SameTree(s, g) /\ g[c].errors = found
       /\ \A k \in Control \ {c} : g[k] = s[k]
  BY <1>2, <1>4, <1>8, ErroredForm
<1>11. ASSUME NEW k \in Control
       PROVE  /\ g[k].value = s[k].value /\ g[k].status = s[k].status
              /\ g[k].own = s[k].own /\ g[k].told = s[k].told
  BY <1>2, <1>4, <1>8, ErroredForm
<1>12. /\ SameTree(form, g)
       /\ \A k \in Control : g[k].value = form[k].value /\ g[k].status = form[k].status
       /\ \A k \in Control \ {c} : g[k] = form[k]
       /\ g[c].own = FALSE
  BY <1>2, <1>8, <1>9, <1>10, <1>11 DEF SameTree
<1>13. Upward(form, S) /\ c \in S
  <2>1. Upward(s, S) /\ c \in S
    BY <1>2, <1>5, <1>8, UpUpward, UpClosed DEF IsForm
  <2> QED
    BY <1>8, <2>1 DEF Upward, SameTree
<1>14. \A k \in Control \ S : g[k] = form[k]
  BY <1>12, <1>13
<1>15. SyncForm(r)
  BY <1>2, <1>7, <1>10, <1>12, <1>13, <1>14, RecalculatedSync
<1>16. IsForm(r) /\ \A k \in Control \ S : r[k] = form[k]
  BY <1>7, <1>10, <1>14, RecalculatedForm
<1>17. form' = r /\ manual' = manual
  BY <1>1, <1>3, <1>4, <1>5, <1>6, <1>7 DEF WithErrors, Errored, Answer
<1>18. approved' \in [Async -> BOOLEAN]
  BY <1>1, <1>2 DEF StateInv
<1>19. ~manual => Approving(r, approved')
  <2> SUFFICES ASSUME ~manual PROVE Approving(r, approved')
    OBVIOUS
  <2>1. PICK f : f = form
    OBVIOUS
  <2>2. PICK a : a = approved
    OBVIOUS
  <2>3. StateInv(f, a, FALSE)
    BY <1>2, <2>1, <2>2 DEF StateInv
  <2>4. /\ SameTree(f, g)
        /\ \A k \in Control : g[k].value = f[k].value /\ g[k].status = f[k].status
        /\ \A k \in Control \ {c} : g[k] = f[k]
        /\ Upward(f, S) /\ answer \in f[c].run
    BY <1>1, <1>12, <1>13, <2>1
  <2>5. PICK b : b = approved'
    OBVIOUS
  <2>6. /\ b[c] <=> (~found /\ answer.value = f[c].value)
        /\ \A d \in Async \ {c} : b[d] = a[d]
    BY <1>1, <1>2, <2>1, <2>2, <2>5 DEF StateInv
  <2>7. AnswerGives(f, a, c, answer, found, g, b)
    BY <1>10, <1>12, <2>3, <2>4, <2>6 DEF AnswerGives
  <2>8. Approving(Recalculated(g, S, emit), b)
    BY <1>13, <2>4, <2>7, AnswerApproves
  <2> QED
    BY <1>7, <2>5, <2>8
<1>20. FormsInv'
  <2>1. manual \in BOOLEAN
    BY <1>2 DEF StateInv
  <2> QED
    BY <1>15, <1>16, <1>17, <1>18, <1>19, <2>1 DEF FormsInv, StateInv
<1>21. ASSUME ~Silent PROVE ToldKept(form, form')
  <2>1. emit = TRUE
    BY <1>1, <1>2, <1>6, <1>21 DEF Silent
  <2>2. ASSUME NEW k \in Control \cap S
        PROVE  /\ r[k].value = g[k].value
               /\ emit => r[k].told = r[k].status
    BY <1>7, <1>10, RecalculatedForm
  <2> QED
    BY <1>16, <1>17, <2>1, <2>2 DEF ToldKept
<1> QED
  BY <1>20, <1>21

LEMMA ConstructedForm ==
  ASSUME NEW bad, NEW vals \in [Leaf -> Value], NEW a, a = [c \in Async |-> FALSE]
  PROVE  StateInv(Constructed(bad, vals), a, FALSE)
<1> DEFINE Parent(c) == IF \E g \in Group : c \in Children[g]
                        THEN CHOOSE g \in Group : c \in Children[g] ELSE NoControl
<1>1. PICK f : f = [c \in Control |->
                      [children |-> IF c \in Group THEN Children[c] ELSE {},
                       parent   |-> Parent(c),
                       value    |-> IF c \in Leaf THEN vals[c] ELSE {},
                       status   |-> "VALID", errors |-> FALSE,
                       own      |-> FALSE, run |-> {}, told |-> "nothing"]]
  OBVIOUS
<1>2. PICK emit \in BOOLEAN : emit = FALSE
  OBVIOUS
<1>3. PICK u : u = Updated(f, Control, bad, emit)
  OBVIOUS
<1>4. u = Constructed(bad, vals)
  BY <1>1, <1>2, <1>3 DEF Constructed
<1>5. \A c \in Control :
        /\ Parent(c) \in Group \cup {NoControl}
        /\ Parent(c) \in Group => c \in Children[Parent(c)]
        /\ \A g \in Group : c \in Children[g] => Parent(c) = g
  <2> TAKE c \in Control
  <2>1. CASE \E g \in Group : c \in Children[g]
    <3>1. Parent(c) \in Group /\ c \in Children[Parent(c)]
      BY <2>1
    <3>2. \A g \in Group : c \in Children[g] => Parent(c) = g
      BY <3>1, FormsAssumption
    <3> QED
      BY <3>1, <3>2
  <2>2. CASE ~\E g \in Group : c \in Children[g]
    <3>1. Parent(c) = NoControl /\ NoControl \notin Group
      BY <2>2, FormsAssumption DEF Control
    <3> QED
      BY <2>2, <3>1
  <2> QED
    BY <2>1, <2>2
<1> HIDE DEF Parent
<1>6. DOMAIN f = Control
  BY <1>1
<1>7. ASSUME NEW c \in Control
      PROVE  f[c] = [children |-> IF c \in Group THEN Children[c] ELSE {},
                     parent   |-> Parent(c),
                     value    |-> IF c \in Leaf THEN vals[c] ELSE {},
                     status   |-> "VALID", errors |-> FALSE,
                     own      |-> FALSE, run |-> {}, told |-> "nothing"]
  BY <1>1
<1>8. ASSUME NEW c \in Control
      PROVE  /\ IsNode(f[c]) /\ f[c].run = {} /\ f[c].parent = Parent(c)
             /\ f[c].children = IF c \in Group THEN Children[c] ELSE {}
             /\ c \in Leaf => f[c].value \in Value
  <2>1. PICK children, parent, value :
          /\ children = IF c \in Group THEN Children[c] ELSE {}
          /\ parent = Parent(c)
          /\ value = IF c \in Leaf THEN vals[c] ELSE {}
    OBVIOUS
  <2>2. f[c] = [children |-> children, parent |-> parent, value |-> value, status |-> "VALID",
                errors |-> FALSE, own |-> FALSE, run |-> {}, told |-> "nothing"]
    BY <1>7, <2>1
  <2>3. c \in Leaf => value \in Value
    BY <2>1
  <2>4. /\ f[c].run = {} /\ f[c].own = FALSE /\ f[c].errors = FALSE
        /\ f[c].status = "VALID" /\ f[c].told = "nothing" /\ f[c].parent = parent
        /\ f[c].children = children /\ f[c].value = value
    BY <2>2
  <2>5. f[c] = [children |-> f[c].children, parent |-> f[c].parent, value |-> f[c].value,
                status |-> f[c].status, errors |-> f[c].errors, own |-> f[c].own,
                run |-> f[c].run, told |-> f[c].told]
    BY <2>2
  <2>6. IsNode(f[c])
    BY <2>4, <2>5 DEF IsNode, Status
  <2> QED
    BY <2>1, <2>4, <2>6, <2>3
<1>9. IsForm(f)
  <2>1. ASSUME NEW c \in Control
        PROVE  /\ IsNode(f[c])
               /\ f[c].parent \in Group \cup {NoControl}
               /\ f[c].run # {} => c \in Async
               /\ c \in Leaf => f[c].children = {} /\ f[c].value \in Value
    <3>1. c \in Leaf => c \notin Group
      BY FormsAssumption
    <3> QED
      BY <1>5, <1>8, <3>1
  <2>2. ASSUME NEW c \in Group
        PROVE  /\ f[c].children \subseteq Children[c] \cup Movable
               /\ \A k \in f[c].children : f[k].parent = c
               /\ f[c].parent \in Group => c \in f[f[c].parent].children
    <3>1. c \in Control /\ f[c].children = Children[c] /\ Children[c] \subseteq Control
      BY <1>8, FormsAssumption DEF Control
    <3>2. \A k \in Children[c] : f[k].parent = c
      BY <1>5, <1>8, <3>1
    <3>3. f[c].parent \in Group => c \in f[f[c].parent].children
      BY <1>5, <1>8, <3>1 DEF Control
    <3> QED
      BY <3>1, <3>2, <3>3
  <2> QED
    BY <1>6, <2>1, <2>2 DEF IsForm
<1>10. Upward(f, Control)
  BY DEF Upward
<1>11. SyncForm(u)
  BY <1>3, <1>9, <1>10, UpdatedSync
<1>12. IsForm(u)
  BY <1>3, <1>9, UpdatedForm
<1>13. ASSUME NEW c \in Control \cap Control
       PROVE  /\ emit => u[c].told = u[c].status
              /\ c \in Async => u[c].status # "VALID" /\ (u[c].status = "PENDING" => u[c].own)
              /\ Asked(u[c])
  BY <1>3, <1>9, UpdatedForm
<1>14. Approving(u, a)
  BY <1>13, FormsAssumption DEF Approving
<1> QED
  BY <1>4, <1>11, <1>12, <1>14 DEF StateInv

-------------------------------------------------------------------------------
LEMMA Invariance == Spec => []FormsInv
<1>1. Init => FormsInv
  <2> SUFFICES ASSUME Init PROVE FormsInv
    OBVIOUS
  <2>1. PICK bad \in SUBSET Sync, vals \in [Leaf -> Value] : form = Constructed(bad, vals)
    BY DEF Init
  <2>2. PICK a : a = approved
    OBVIOUS
  <2>3. a = [c \in Async |-> FALSE] /\ manual = FALSE
    BY <2>2 DEF Init
  <2>4. StateInv(Constructed(bad, vals), a, FALSE)
    BY <2>3, ConstructedForm
  <2> QED
    BY <2>1, <2>2, <2>3, <2>4 DEF FormsInv
<1>2. FormsInv /\ [Next]_vars => FormsInv'
  <2> SUFFICES ASSUME FormsInv, [Next]_vars PROVE FormsInv'
    OBVIOUS
  <2>1. ASSUME NEW c \in Control, PatchValue(c) PROVE FormsInv'
    BY <2>1, PatchValueKeeps
  <2>2. ASSUME NEW c \in Control, Disable(c) PROVE FormsInv'
    BY <2>2, DisableKeeps
  <2>3. ASSUME NEW c \in Control, Enable(c) PROVE FormsInv'
    BY <2>3, EnableKeeps
  <2>4. ASSUME NEW c \in Control, SetErrors(c) PROVE FormsInv'
    BY <2>4, SetErrorsKeeps
  <2>5. ASSUME NEW g \in Group, NEW c \in Movable,
               AddControl(g, c) \/ RemoveControl(g, c) \/ \E old \in Leaf : SetControl(g, old, c)
        PROVE  FormsInv'
    BY <2>5, MoveKeeps
  <2>6. ASSUME NEW c \in Async, Answer(c) PROVE FormsInv'
    BY <2>6, AnswerKeepsInv
  <2>7. CASE UNCHANGED vars
    BY <2>7 DEF FormsInv, vars
  <2> QED
    BY <2>1, <2>2, <2>3, <2>4, <2>5, <2>6, <2>7 DEF Next, Call
<1> QED
  BY <1>1, <1>2, PTL DEF Spec

\* The variables and the fields of every control have their types.
THEOREM TypeCorrect == Spec => []TypeOK
<1>1. FormsInv => TypeOK
  <2> SUFFICES ASSUME FormsInv PROVE TypeOK
    OBVIOUS
  <2>1. IsForm(form) /\ approved \in [Async -> BOOLEAN] /\ manual \in BOOLEAN
    BY DEF FormsInv, StateInv
  <2>2. ASSUME NEW c \in Control
        PROVE  /\ form[c].parent \in Group \cup {NoControl}
               /\ form[c].status \in Status
               /\ form[c].told \in Status \cup {"nothing"}
               /\ form[c].errors \in BOOLEAN /\ form[c].own \in BOOLEAN
               /\ form[c].run # {} => c \in Async
               /\ \A r \in form[c].run : r.emit \in BOOLEAN
    BY <2>1 DEF IsForm, IsNode
  <2>3. ASSUME NEW c \in Control
        PROVE  IF c \in Leaf THEN form[c].children = {} /\ form[c].value \in Value
               ELSE form[c].children \subseteq Control
    BY <2>1, FormIsTree DEF IsForm, IsTree
  <2> QED
    BY <2>1, <2>2, <2>3 DEF TypeOK, IsForm
<1> QED
  BY <1>1, Invariance, PTL

\* At each control of the tree the status and the value are those computed from
\* what is below it, however calls and answers come (model.ts:852-858, 1620-1628).
THEOREM SyncCorrect == Spec => []TreeInSync
<1>1. FormsInv => TreeInSync
  BY DEF FormsInv, StateInv, SyncForm, InSync, TreeInSync
<1> QED
  BY <1>1, Invariance, PTL

\* A control is VALID only with a value that its asynchronous validator has
\* accepted, until the application sets errors (model.ts:649, 653-655).
THEOREM ApprovalCorrect == Spec => []ValidIsApproved
<1>1. FormsInv => ValidIsApproved
  BY DEF FormsInv, StateInv, Approving, ValidIsApproved, ApprovedIfValid
<1> QED
  BY <1>1, Invariance, PTL

\* While a control is PENDING, a validator at or below it runs (model.ts:682-702):
\* the lowest control below it that is PENDING waits for its own.
THEOREM PendingCorrect == Spec => []PendingAwaits
<1>1. FormsInv => PendingAwaits
  <2> SUFFICES ASSUME FormsInv, NEW c \in Control, form[c].status = "PENDING"
               PROVE  \E k \in Below(form, c) : form[k].run # {}
    BY DEF PendingAwaits
  <2>1. IsForm(form) /\ SyncForm(form) /\ IsTree(form)
    BY FormIsTree DEF FormsInv, StateInv
  <2>2. PICK B : B = Below(form, c)
    OBVIOUS
  <2>3. /\ B \in SUBSET Control /\ c \in B
        /\ \A j \in B : form[j].children \subseteq B
    BY <2>1, <2>2, BelowClosed
  <2>4. PICK T : T = {k \in B : form[k].status = "PENDING"}
    OBVIOUS
  <2>5. T \in SUBSET Control /\ T # {}
    BY <2>3, <2>4
  <2>6. PICK k \in T : form[k].children \cap T = {}
    BY <2>1, <2>5, Lowest
  <2>7. k \in B /\ k \in Control /\ form[k].status = "PENDING"
    BY <2>3, <2>4, <2>6
  <2>8. \A j \in form[k].children : form[j].status # "PENDING"
    BY <2>3, <2>4, <2>6, <2>7
  <2>9. form[k].status = CalculateStatus(form, form[k])
    BY <2>1, <2>7 DEF SyncForm, InSync
  <2>10. form[k].own
    BY <2>7, <2>8, <2>9 DEF CalculateStatus
  <2>11. form[k].run # {}
    BY <2>1, <2>7, <2>10 DEF IsForm, IsNode
  <2> QED
    BY <2>2, <2>7, <2>11
<1> QED
  BY <1>1, Invariance, PTL

\* Whoever knows the status of a control from its events goes on knowing it,
\* unless a validation started without events is under way (model.ts:324-325).
THEOREM ToldCorrect == Spec => StatusIsTold
<1>1. FormsInv /\ [Next]_vars
      => [\A c \in Control : Informed(c) /\ ~Silent => Informed(c)']_vars
  <2> SUFFICES ASSUME FormsInv, Next, ~Silent PROVE \A c \in Control : Informed(c) => Informed(c)'
    OBVIOUS
  <2>1. ASSUME NEW c \in Control, PatchValue(c) PROVE ToldKept(form, form')
    BY <2>1, PatchValueKeeps
  <2>2. ASSUME NEW c \in Control, Disable(c) PROVE ToldKept(form, form')
    BY <2>2, DisableKeeps
  <2>3. ASSUME NEW c \in Control, Enable(c) PROVE ToldKept(form, form')
    BY <2>3, EnableKeeps
  <2>4. ASSUME NEW c \in Control, SetErrors(c) PROVE ToldKept(form, form')
    BY <2>4, SetErrorsKeeps
  <2>5. ASSUME NEW g \in Group, NEW c \in Movable,
               AddControl(g, c) \/ RemoveControl(g, c) \/ \E old \in Leaf : SetControl(g, old, c)
        PROVE  ToldKept(form, form')
    BY <2>5, MoveKeeps
  <2>6. ASSUME NEW c \in Async, Answer(c) PROVE ToldKept(form, form')
    BY <2>6, AnswerKeepsInv
  <2>7. ToldKept(form, form')
    BY <2>1, <2>2, <2>3, <2>4, <2>5, <2>6 DEF Next, Call
  <2> QED
    BY <2>7 DEF ToldKept, Informed
<1> QED
  BY <1>1, Invariance, PTL DEF Spec, StatusIsTold
===============================================================================
