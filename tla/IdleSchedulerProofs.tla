-------------------------- MODULE IdleSchedulerProofs --------------------------
(***************************************************************************)
(* IdleScheduler for any number of tasks, invocations of trigger() and any  *)
(* threshold: at most one suspended invocation will execute, it is the one  *)
(* in `scheduled`, and it starts a full threshold after the last call that  *)
(* found work queued; and no task is lost or run twice.                    *)
(*                                                                         *)
(* The threshold needs a relation between the timer of the scheduled run    *)
(* and the time since then.  That only one run is left uncancelled needs,   *)
(* in turn, that an invocation not yet made carries no flag.  The tasks are *)
(* followed through the queue and the batches in a section of their own.    *)
(***************************************************************************)
EXTENDS IdleScheduler, FiniteSetTheorems, TLAPS

\* The scheduled run's timer and the time since it was armed make up Threshold.
InStep == \A c \in Call : scheduled = c => left[c] + quiet.armed = Threshold

\* An invocation that was not made has not been cancelled.
FlagsFresh == \A c \in Call : phase[c] = "uncalled" => ~cancel[c]

IInv == TypeOK /\ OneRunScheduled /\ FlagsFresh /\ QueuedMeansNotEmpty /\ InStep

-------------------------------------------------------------------------------
LEMMA InitIInv == Init => IInv
<1> SUFFICES ASSUME Init PROVE IInv
  OBVIOUS
<1> USE DEF Init
<1>1. TypeOK
  <2>1. quiet \in [called : 0..Threshold, armed : 0..Threshold]
    BY ThresholdAssumption
  <2>2. queue \in Seq(Task) /\ batch \in [Call -> Seq(Task)]
    OBVIOUS
  <2>3. left \in [Call -> 0..Threshold]
    BY ThresholdAssumption
  <2>4. /\ scheduled \in Call \cup {NoCall} /\ emptyPending \in BOOLEAN
        /\ phase \in [Call -> {"uncalled", "waiting", "executing", "done"}]
        /\ cancel \in [Call -> BOOLEAN]
        /\ outcome \in [Task -> {"new", "scheduled", "ok", "failed"}]
    OBVIOUS
  <2>5. QED
    BY <2>1, <2>2, <2>3, <2>4 DEF TypeOK
<1>2. OneRunScheduled
  BY NoCallAssumption DEF OneRunScheduled
<1>3. QueuedMeansNotEmpty
  BY DEF QueuedMeansNotEmpty
<1>4. InStep
  BY NoCallAssumption DEF InStep
<1>5. FlagsFresh
  BY DEF FlagsFresh
<1>6. QED
  BY <1>1, <1>2, <1>3, <1>4, <1>5 DEF IInv

\* The clock moves by at most one tick and stays within its bounds.
LEMMA TickBounds ==
  ASSUME NEW n \in 0..Threshold
  PROVE  Earlier(n) \in 0..Threshold /\ Later(n) \in 0..Threshold
BY ThresholdAssumption DEF Earlier, Later

-------------------------------------------------------------------------------
LEMMA TypePreserved == TypeOK /\ [Next]_vars => TypeOK'
<1> SUFFICES ASSUME TypeOK, [Next]_vars PROVE TypeOK'
  OBVIOUS
<1> USE ThresholdAssumption DEF TypeOK
<1>1. ASSUME NEW t \in Task, Schedule(t) PROVE TypeOK'
  BY <1>1 DEF Schedule
<1>2. ASSUME NEW c \in Call, TriggerIdle(c) PROVE TypeOK'
  <2>1. quiet' \in [called : 0..Threshold, armed : 0..Threshold]
    <3>1. quiet' = [quiet EXCEPT !.called = 0]
      BY <1>2 DEF TriggerIdle
    <3>2. quiet \in [called : 0..Threshold, armed : 0..Threshold] /\ 0 \in 0..Threshold
      OBVIOUS
    <3>3. QED
      BY <3>1, <3>2
  <2>2. phase' \in [Call -> {"uncalled", "waiting", "executing", "done"}]
    BY <1>2 DEF TriggerIdle
  <2>3. UNCHANGED <<queue, scheduled, emptyPending, cancel, left, batch, outcome>>
    BY <1>2 DEF TriggerIdle
  <2>4. QED
    BY <2>1, <2>2, <2>3
<1>3. ASSUME NEW c \in Call, TriggerArmed(c) PROVE TypeOK'
  BY <1>3 DEF TriggerArmed
<1>4. ASSUME NEW c \in Call, TimeoutCancelled(c) PROVE TypeOK'
  BY <1>4 DEF TimeoutCancelled
<1>5. ASSUME NEW c \in Call, TimeoutExecutes(c) PROVE TypeOK'
  BY <1>5 DEF TimeoutExecutes, TakeQueue
<1>6. ASSUME NEW c \in Call, TaskSettles(c) PROVE TypeOK'
  <2>1. PICK o \in {"ok", "failed"} : outcome' = [outcome EXCEPT ![Head(batch[c])] = o]
    BY <1>6 DEF TaskSettles
  <2>2. outcome' \in [Task -> {"new", "scheduled", "ok", "failed"}]
    BY <2>1
  <2>3. CASE Len(batch[c]) > 1
    <3>1. batch[c] \in Seq(Task) /\ batch[c] # <<>>
      BY <2>3
    <3>2. Tail(batch[c]) \in Seq(Task)
      BY <3>1
    <3>3. batch' = [batch EXCEPT ![c] = Tail(batch[c])]
      BY <1>6, <2>3 DEF TaskSettles
    <3>4. batch' \in [Call -> Seq(Task)]
      BY <3>2, <3>3
    <3>5. UNCHANGED <<queue, emptyPending, phase, scheduled, cancel, left, quiet>>
      BY <1>6, <2>3 DEF TaskSettles
    <3>6. QED
      BY <2>2, <3>4, <3>5
  <2>4. CASE ~(Len(batch[c]) > 1)
    <3>1. /\ queue' = <<>> /\ batch' = [batch EXCEPT ![c] = queue]
          /\ phase' = [phase EXCEPT ![c] = IF queue = <<>> THEN "done" ELSE "executing"]
          /\ emptyPending' = (emptyPending /\ queue # <<>>)
          /\ UNCHANGED <<scheduled, cancel, left, quiet>>
      BY <1>6, <2>4 DEF TaskSettles, TakeQueue
    <3>2. emptyPending' \in BOOLEAN
      BY <3>1
    <3>3. phase' \in [Call -> {"uncalled", "waiting", "executing", "done"}]
      BY <3>1
    <3>4. queue' \in Seq(Task) /\ batch' \in [Call -> Seq(Task)]
      BY <3>1
    <3>5. QED
      BY <2>2, <3>1, <3>2, <3>3, <3>4
  <2>5. QED
    BY <2>3, <2>4
<1>7. ASSUME Tick PROVE TypeOK'
  BY <1>7, TickBounds DEF Tick
<1>8. CASE UNCHANGED vars
  BY <1>8 DEF vars
<1>9. QED
  BY <1>1, <1>2, <1>3, <1>4, <1>5, <1>6, <1>7, <1>8 DEF Next, Continue

LEMMA OneRunPreserved ==
  TypeOK /\ FlagsFresh /\ OneRunScheduled /\ [Next]_vars => OneRunScheduled'
<1> SUFFICES ASSUME TypeOK, FlagsFresh, OneRunScheduled, [Next]_vars
             PROVE  OneRunScheduled'
  OBVIOUS
<1> USE NoCallAssumption DEF TypeOK, OneRunScheduled
<1>1. ASSUME NEW t \in Task, Schedule(t) PROVE OneRunScheduled'
  BY <1>1 DEF Schedule
<1>2. ASSUME NEW c \in Call, TriggerIdle(c) PROVE OneRunScheduled'
  BY <1>2 DEF TriggerIdle
<1>3. ASSUME NEW c \in Call, TriggerArmed(c) PROVE OneRunScheduled'
  <2> SUFFICES ASSUME NEW d \in Call
               PROVE  (phase'[d] = "waiting" /\ ~cancel'[d]) <=> scheduled' = d
    OBVIOUS
  <2>1. scheduled' = c /\ phase' = [phase EXCEPT ![c] = "waiting"]
    BY <1>3 DEF TriggerArmed
  <2>2. cancel'[d] = (cancel[d] \/ d = scheduled)
    BY <1>3 DEF TriggerArmed
  \* c was not called before, so it is not the run that is cancelled, ...
  <2>3. CASE d = c
    <3>1. scheduled # c
      BY <1>3 DEF TriggerArmed
    <3>2. ~cancel[c]
      BY <1>3 DEF TriggerArmed, FlagsFresh
    <3>3. QED
      BY <2>1, <2>2, <2>3, <3>1, <3>2
  \* ... and any other invocation that was not cancelled was `scheduled`.
  <2>4. CASE d # c
    BY <2>1, <2>2, <2>4
  <2>5. QED
    BY <2>3, <2>4
<1>4. ASSUME NEW c \in Call, TimeoutCancelled(c) PROVE OneRunScheduled'
  BY <1>4 DEF TimeoutCancelled
<1>5. ASSUME NEW c \in Call, TimeoutExecutes(c) PROVE OneRunScheduled'
  BY <1>5 DEF TimeoutExecutes, TakeQueue
<1>6. ASSUME NEW c \in Call, TaskSettles(c) PROVE OneRunScheduled'
  BY <1>6 DEF TaskSettles, TakeQueue
<1>7. ASSUME Tick PROVE OneRunScheduled'
  BY <1>7 DEF Tick
<1>8. CASE UNCHANGED vars
  BY <1>8 DEF vars
<1>9. QED
  BY <1>1, <1>2, <1>3, <1>4, <1>5, <1>6, <1>7, <1>8 DEF Next, Continue

\* Only the run in `scheduled` is ever cancelled, and that one was made.
LEMMA FreshPreserved ==
  TypeOK /\ OneRunScheduled /\ FlagsFresh /\ [Next]_vars => FlagsFresh'
<1> SUFFICES ASSUME TypeOK, OneRunScheduled, FlagsFresh, [Next]_vars,
                    NEW d \in Call, phase'[d] = "uncalled"
             PROVE  ~cancel'[d]
  BY DEF FlagsFresh
<1> USE DEF TypeOK
<1>1. ASSUME NEW c \in Call, TriggerArmed(c) PROVE ~cancel'[d]
  <2>1. phase[d] = "uncalled"
    BY <1>1 DEF TriggerArmed
  <2>2. d # scheduled /\ ~cancel[d]
    BY <2>1 DEF OneRunScheduled, FlagsFresh
  <2>3. QED
    BY <1>1, <2>2 DEF TriggerArmed
<1>2. ASSUME NEW c \in Call, TriggerIdle(c) \/ Continue(c) PROVE ~cancel'[d]
  <2>1. cancel' = cancel /\ phase[d] = "uncalled"
    BY <1>2
    DEF TriggerIdle, Continue, TimeoutCancelled, TimeoutExecutes, TaskSettles, TakeQueue
  <2>2. QED
    BY <2>1 DEF FlagsFresh
<1>3. CASE UNCHANGED <<phase, cancel>>
  BY <1>3 DEF FlagsFresh
<1>4. QED
  BY <1>1, <1>2, <1>3 DEF Next, Schedule, Tick, vars

LEMMA NotEmptyPreserved ==
  TypeOK /\ QueuedMeansNotEmpty /\ [Next]_vars => QueuedMeansNotEmpty'
<1> SUFFICES ASSUME TypeOK, QueuedMeansNotEmpty, [Next]_vars PROVE QueuedMeansNotEmpty'
  OBVIOUS
<1> USE DEF QueuedMeansNotEmpty
<1>1. ASSUME NEW t \in Task, Schedule(t) PROVE QueuedMeansNotEmpty'
  BY <1>1 DEF Schedule
<1>2. ASSUME NEW c \in Call, TimeoutExecutes(c) PROVE QueuedMeansNotEmpty'
  BY <1>2 DEF TimeoutExecutes, TakeQueue
<1>3. ASSUME NEW c \in Call, TaskSettles(c) PROVE QueuedMeansNotEmpty'
  BY <1>3 DEF TaskSettles, TakeQueue
<1>4. CASE UNCHANGED <<queue, emptyPending>>
  BY <1>4
<1>5. QED
  BY <1>1, <1>2, <1>3, <1>4
  DEF Next, Continue, TriggerIdle, TriggerArmed, TimeoutCancelled, Tick, vars

LEMMA InStepPreserved ==
  TypeOK /\ OneRunScheduled /\ InStep /\ [Next]_vars => InStep'
<1> SUFFICES ASSUME TypeOK, OneRunScheduled, InStep, [Next]_vars PROVE InStep'
  OBVIOUS
<1> USE ThresholdAssumption, NoCallAssumption DEF InStep
<1>1. ASSUME NEW c \in Call, TriggerIdle(c) PROVE InStep'
  BY <1>1 DEF TriggerIdle, TypeOK
<1>2. ASSUME NEW c \in Call, TriggerArmed(c) PROVE InStep'
  BY <1>2 DEF TriggerArmed, TypeOK
<1>3. ASSUME NEW c \in Call, TimeoutExecutes(c) PROVE InStep'
  BY <1>3 DEF TimeoutExecutes
\* The timer has run out exactly when the clock has reached Threshold.
<1>4. ASSUME Tick PROVE InStep'
  <2> SUFFICES ASSUME NEW c \in Call, scheduled = c
               PROVE  left'[c] + quiet'.armed = Threshold
    BY <1>4 DEF Tick
  <2>1. left[c] \in 0..Threshold /\ quiet.armed \in 0..Threshold
    BY DEF TypeOK
  <2>2. left[c] + quiet.armed = Threshold
    OBVIOUS
  <2>3. left'[c] = Earlier(left[c]) /\ quiet'.armed = Later(quiet.armed)
    BY <1>4 DEF Tick
  <2>4. QED
    BY <2>1, <2>2, <2>3 DEF Earlier, Later
<1>5. CASE UNCHANGED <<scheduled, left, quiet>>
  BY <1>5
<1>6. QED
  BY <1>1, <1>2, <1>3, <1>4, <1>5
  DEF Next, Continue, Schedule, TimeoutCancelled, TaskSettles, vars

-------------------------------------------------------------------------------
\* The inductive invariant holds of every behaviour.
THEOREM Invariance == Spec => []IInv
<1>1. Init => IInv
  BY InitIInv
<1>2. IInv /\ [Next]_vars => IInv'
  BY TypePreserved, OneRunPreserved, FreshPreserved, NotEmptyPreserved, InStepPreserved DEF IInv
<1>3. QED
  BY <1>1, <1>2, PTL DEF Spec

\* Every variable keeps its type.
THEOREM TypeCorrect == Spec => []TypeOK
<1>1. IInv => TypeOK
  BY DEF IInv
<1>2. QED
  BY <1>1, Invariance, PTL

\* However calls of trigger() overlap, the run in `scheduled` is the only one
\* that will execute (idle.ts:37-52).
THEOREM RunCorrect == Spec => []OneRunScheduled
<1>1. IInv => OneRunScheduled
  BY DEF IInv
<1>2. QED
  BY <1>1, Invariance, PTL

\* The promise `empty` is unresolved while work is queued (idle.ts:73-86).
THEOREM EmptyCorrect == Spec => []QueuedMeansNotEmpty
<1>1. IInv => QueuedMeansNotEmpty
  BY DEF IInv
<1>2. QED
  BY <1>1, Invariance, PTL

\* An execution starts no earlier than Threshold after the last trigger() that
\* found work queued (idle.ts:37-54).
THEOREM PutOffCorrect == Spec => PutOffByTrigger
<1>1. ASSUME IInv, NEW c \in Call, TimeoutExecutes(c) PROVE quiet.armed = Threshold
  <2>1. scheduled = c
    BY <1>1 DEF IInv, OneRunScheduled, TimeoutExecutes
  <2>2. left[c] = 0 /\ left[c] + quiet.armed = Threshold
    BY <1>1, <2>1 DEF IInv, InStep, TimeoutExecutes
  <2>3. quiet.armed \in Nat
    BY <1>1, ThresholdAssumption DEF IInv, TypeOK
  <2>4. QED
    BY <2>2, <2>3
<1>2. IInv /\ [Next]_vars
        => [\A c \in Call : TimeoutExecutes(c) => quiet.armed = Threshold]_vars
  BY <1>1
<1>3. QED
  BY <1>2, Invariance, PTL DEF Spec, PutOffByTrigger
-------------------------------------------------------------------------------
(***************************************************************************)
(* No task is lost and none is run twice.                                  *)
(*                                                                         *)
(* The queue and the batches are rows of tasks, and a task that waits is at *)
(* one position of one row.  Each action moves whole rows or adds to or     *)
(* takes from the end of one, so the claim is kept position by position;    *)
(* the swap in execute() needs besides that the batch it overwrites is      *)
(* used up, which holds because an invocation has a batch exactly while it  *)
(* executes.                                                               *)
(***************************************************************************)

\* The rows: the queue under NoCall, and the batch of each invocation.
Place == Call \cup {NoCall}
Row == [p \in Place |-> IF p = NoCall THEN queue ELSE batch[p]]

\* t is at position i of the row of p; it is nowhere; it is at one position only.
At(R, t, p, i) == i \in 1..Len(R[p]) /\ R[p][i] = t
Nowhere(R, t) == \A p \in Place, i \in Nat : ~At(R, t, p, i)
OnlyOnce(R, t) ==
  \E p \in Place, i \in Nat :
    At(R, t, p, i) /\ \A q \in Place, j \in Nat : At(R, t, q, j) => q = p /\ j = i

\* A waiting task is at one position, any other task at none.
Kept(R, waiting) == \A t \in Task : IF t \in waiting THEN OnlyOnce(R, t) ELSE Nowhere(R, t)

Waiting == {t \in Task : outcome[t] = "scheduled"}

\* An invocation of trigger() holds tasks exactly while it executes.
BatchWhileExecuting == \A c \in Call : phase[c] = "executing" <=> batch[c] # <<>>

PlaceInv == BatchWhileExecuting /\ Kept(Row, Waiting)

LEMMA RowType ==
  ASSUME TypeOK
  PROVE  Row \in [Place -> Seq(Task)]
BY DEF TypeOK, Row, Place

\* A new task joins a row at its end.
LEMMA JoinsRow ==
  ASSUME NEW R \in [Place -> Seq(Task)], NEW waiting, Kept(R, waiting),
         NEW p \in Place, NEW t \in Task, t \notin waiting
  PROVE  Kept([R EXCEPT ![p] = Append(R[p], t)], waiting \cup {t})
<1> DEFINE S == [R EXCEPT ![p] = Append(R[p], t)]
<1> SUFFICES ASSUME NEW u \in Task
             PROVE  IF u \in waiting \cup {t} THEN OnlyOnce(S, u) ELSE Nowhere(S, u)
  BY DEF Kept
<1>1. /\ Len(R[p]) \in Nat /\ S[p] = Append(R[p], t)
      /\ Len(S[p]) = Len(R[p]) + 1 /\ S[p][Len(R[p]) + 1] = t
      /\ \A i \in 1..Len(R[p]) : S[p][i] = R[p][i]
      /\ \A q \in Place : q # p => S[q] = R[q]
  OBVIOUS
<1> HIDE DEF S
<1>2. \A q \in Place, i \in Nat :
        At(S, u, q, i) <=> At(R, u, q, i) \/ (u = t /\ q = p /\ i = Len(R[p]) + 1)
  <2> SUFFICES ASSUME NEW q \in Place, NEW i \in Nat
      PROVE At(S, u, q, i) <=> At(R, u, q, i) \/ (u = t /\ q = p /\ i = Len(R[p]) + 1)
    OBVIOUS
  <2>1. CASE q = p
    BY <1>1, <2>1 DEF At
  <2>2. CASE q # p
    BY <1>1, <2>2 DEF At
  <2>3. QED
    BY <2>1, <2>2
<1>3. CASE u = t
  <2>1. Nowhere(R, t)
    BY DEF Kept
  <2>2. Len(R[p]) + 1 \in Nat /\ At(S, u, p, Len(R[p]) + 1)
    BY <1>1, <1>2, <1>3
  <2>3. \A q \in Place, j \in Nat : At(S, u, q, j) => q = p /\ j = Len(R[p]) + 1
    BY <1>2, <1>3, <2>1 DEF Nowhere
  <2>4. OnlyOnce(S, u)
    BY <2>2, <2>3 DEF OnlyOnce
  <2>5. QED
    BY <1>3, <2>4
<1>4. CASE u # t
  <2>1. \A q \in Place, i \in Nat : At(S, u, q, i) <=> At(R, u, q, i)
    BY <1>2, <1>4
  <2>2. IF u \in waiting THEN OnlyOnce(R, u) ELSE Nowhere(R, u)
    BY DEF Kept
  <2>3. QED
    BY <1>4, <2>1, <2>2 DEF OnlyOnce, Nowhere
<1>5. QED
  BY <1>3, <1>4

\* A row moves to the place of an empty one.
LEMMA MovesRow ==
  ASSUME NEW R \in [Place -> Seq(Task)], NEW waiting, Kept(R, waiting),
         NEW p \in Place, NEW q \in Place, p # q, R[q] = <<>>
  PROVE  Kept([R EXCEPT ![p] = <<>>, ![q] = R[p]], waiting)
<1> DEFINE S == [R EXCEPT ![p] = <<>>, ![q] = R[p]]
           to(r) == IF r = q THEN p ELSE IF r = p THEN q ELSE r
<1> SUFFICES ASSUME NEW u \in Task
             PROVE  IF u \in waiting THEN OnlyOnce(S, u) ELSE Nowhere(S, u)
  BY DEF Kept
<1>1. \A r \in Place : to(r) \in Place /\ to(to(r)) = r /\ S[r] = R[to(r)]
  OBVIOUS
<1> HIDE DEF S, to
<1>2. \A r \in Place, i \in Nat : At(S, u, r, i) <=> At(R, u, to(r), i)
  BY <1>1 DEF At
<1>3. IF u \in waiting THEN OnlyOnce(R, u) ELSE Nowhere(R, u)
  BY DEF Kept
<1>4. CASE u \in waiting
  <2>1. PICK r \in Place, i \in Nat :
          At(R, u, r, i) /\ \A s \in Place, j \in Nat : At(R, u, s, j) => s = r /\ j = i
    BY <1>3, <1>4 DEF OnlyOnce
  <2>2. At(S, u, to(r), i) /\ to(r) \in Place
    BY <1>1, <1>2, <2>1
  <2>3. ASSUME NEW s \in Place, NEW j \in Nat, At(S, u, s, j)
        PROVE  s = to(r) /\ j = i
    <3>1. At(R, u, to(s), j) /\ to(s) \in Place
      BY <1>1, <1>2, <2>3
    <3>2. to(s) = r /\ j = i
      BY <2>1, <3>1
    <3>3. QED
      BY <1>1, <3>2
  <2>4. QED
    BY <1>4, <2>2, <2>3 DEF OnlyOnce
<1>5. CASE u \notin waiting
  BY <1>1, <1>2, <1>3, <1>5 DEF Nowhere
<1>6. QED
  BY <1>4, <1>5

\* The first task of a row leaves it.
LEMMA LeavesRow ==
  ASSUME NEW R \in [Place -> Seq(Task)], NEW waiting, Kept(R, waiting),
         NEW p \in Place, R[p] # <<>>
  PROVE  Kept([R EXCEPT ![p] = Tail(R[p])], waiting \ {Head(R[p])})
<1> DEFINE t == Head(R[p])
           S == [R EXCEPT ![p] = Tail(R[p])]
           old(q, i) == IF q = p THEN i + 1 ELSE i
<1> SUFFICES ASSUME NEW u \in Task
             PROVE  IF u \in waiting \ {t} THEN OnlyOnce(S, u) ELSE Nowhere(S, u)
  BY DEF Kept
<1>1. /\ Len(R[p]) \in Nat /\ Len(R[p]) >= 1 /\ R[p][1] = t /\ t \in Task
      /\ Len(S[p]) = Len(R[p]) - 1 /\ \A i \in 1..Len(S[p]) : S[p][i] = R[p][i + 1]
      /\ \A q \in Place : q # p => S[q] = R[q]
  OBVIOUS
<1> HIDE DEF S, t
<1>2. ASSUME NEW q \in Place, NEW i \in Nat, At(S, u, q, i)
      PROVE  At(R, u, q, old(q, i)) /\ i # 0
  <2>1. CASE q = p
    BY <1>1, <1>2, <2>1 DEF At
  <2>2. CASE q # p
    BY <1>1, <1>2, <2>2 DEF At
  <2>3. QED
    BY <2>1, <2>2
<1>3. At(R, t, p, 1)
  BY <1>1 DEF At
<1>4. t \in waiting /\ OnlyOnce(R, t)
  BY <1>1, <1>3 DEF Kept, Nowhere
<1>5. CASE u = t
  <2>1. ASSUME NEW q \in Place, NEW i \in Nat, At(S, u, q, i) PROVE FALSE
    <3>1. At(R, t, q, old(q, i)) /\ i # 0
      BY <1>2, <1>5, <2>1
    <3>2. q = p /\ old(q, i) = 1
      BY <1>3, <1>4, <3>1 DEF OnlyOnce
    <3>3. QED
      BY <3>1, <3>2
  <2>2. QED
    BY <1>5, <2>1 DEF Nowhere
<1>6. CASE u # t /\ u \in waiting
  <2>1. PICK q \in Place, i \in Nat :
          At(R, u, q, i) /\ \A r \in Place, j \in Nat : At(R, u, r, j) => r = q /\ j = i
    BY <1>6 DEF Kept, OnlyOnce
  <2>2. PICK k \in Nat : At(S, u, q, k) /\ old(q, k) = i
    <3>1. CASE q = p
      <4>1. i # 1 /\ i \in 1..Len(R[p])
        BY <1>1, <1>6, <2>1, <3>1 DEF At
      <4>2. i - 1 \in 1..Len(S[p])
        BY <1>1, <4>1
      <4>3. S[p][i - 1] = u
        BY <1>1, <2>1, <3>1, <4>1, <4>2 DEF At
      <4>4. QED
        BY <3>1, <4>1, <4>2, <4>3 DEF At
    <3>2. CASE q # p
      BY <1>1, <2>1, <3>2 DEF At
    <3>3. QED
      BY <3>1, <3>2
  <2>3. ASSUME NEW r \in Place, NEW j \in Nat, At(S, u, r, j)
        PROVE  r = q /\ j = k
    <3>1. At(R, u, r, old(r, j))
      BY <1>2, <2>3
    <3>2. r = q /\ old(r, j) = i
      BY <2>1, <3>1
    <3>3. QED
      BY <2>2, <3>2
  <2>4. QED
    BY <1>6, <2>2, <2>3 DEF OnlyOnce
<1>7. CASE u # t /\ u \notin waiting
  <2>1. Nowhere(R, u)
    BY <1>7 DEF Kept
  <2>2. \A q \in Place, i \in Nat : old(q, i) \in Nat
    OBVIOUS
  <2>3. QED
    BY <1>2, <1>7, <2>1, <2>2 DEF Nowhere
<1>8. QED
  BY <1>5, <1>6, <1>7

LEMMA InitPlaces == Init => PlaceInv
<1> SUFFICES ASSUME Init PROVE PlaceInv
  OBVIOUS
<1>1. BatchWhileExecuting
  BY DEF Init, BatchWhileExecuting
<1>2. \A p \in Place : Row[p] = <<>>
  BY DEF Init, Row, Place
<1>3. Waiting = {}
  BY DEF Init, Waiting
<1>4. Kept(Row, Waiting)
  BY <1>2, <1>3 DEF Kept, Nowhere, At
<1>5. QED
  BY <1>1, <1>4 DEF PlaceInv

\* The swap at the head of execute()'s loop (idle.ts:59-61), once the batch
\* before is used up: the rows but for those of NoCall and c are as in R.
LEMMA SwapKeeps ==
  ASSUME TypeOK, NEW c \in Call, TakeQueue(c), NEW waiting,
         NEW R \in [Place -> Seq(Task)], Kept(R, waiting), R[c] = <<>>,
         R[NoCall] = queue, \A d \in Call : d # c => R[d] = batch[d]
  PROVE  Kept(Row', waiting)
<1>1. NoCall \in Place /\ c \in Place /\ NoCall # c
  BY NoCallAssumption DEF Place
<1>2. Kept([R EXCEPT ![NoCall] = <<>>, ![c] = R[NoCall]], waiting)
  BY <1>1, MovesRow
<1>3. Row' = [R EXCEPT ![NoCall] = <<>>, ![c] = R[NoCall]]
  BY NoCallAssumption DEF TypeOK, TakeQueue, Row, Place
<1>4. QED
  BY <1>2, <1>3

LEMMA PlacesPreserved == TypeOK /\ PlaceInv /\ [Next]_vars => PlaceInv'
<1> SUFFICES ASSUME TypeOK, PlaceInv, [Next]_vars PROVE PlaceInv'
  OBVIOUS
<1>1. /\ Row \in [Place -> Seq(Task)] /\ Kept(Row, Waiting) /\ BatchWhileExecuting
      /\ NoCall \in Place /\ Row[NoCall] = queue
      /\ \A c \in Call : c \in Place /\ c # NoCall /\ Row[c] = batch[c]
  BY RowType, NoCallAssumption DEF PlaceInv, Place, Row
<1>2. ASSUME NEW t \in Task, Schedule(t) PROVE PlaceInv'
  <2>1. t \notin Waiting /\ Waiting' = Waiting \cup {t}
    BY <1>2 DEF TypeOK, Schedule, Waiting
  <2>2. Kept([Row EXCEPT ![NoCall] = Append(Row[NoCall], t)], Waiting \cup {t})
    BY <1>1, <2>1, JoinsRow
  <2>3. Row' = [Row EXCEPT ![NoCall] = Append(Row[NoCall], t)]
    BY <1>1, <1>2 DEF Schedule, Row, Place
  <2>4. BatchWhileExecuting'
    BY <1>1, <1>2 DEF Schedule, BatchWhileExecuting
  <2>5. QED
    BY <2>1, <2>2, <2>3, <2>4 DEF PlaceInv
<1>3. ASSUME NEW c \in Call, TimeoutExecutes(c) PROVE PlaceInv'
  <2>1. Waiting' = Waiting /\ TakeQueue(c)
    BY <1>3 DEF TimeoutExecutes, Waiting
  <2>2. batch[c] = <<>>
    BY <1>1, <1>3 DEF TimeoutExecutes, BatchWhileExecuting
  <2>3. Kept(Row', Waiting)
    BY <1>1, <2>1, <2>2, SwapKeeps
  <2>4. BatchWhileExecuting'
    BY <1>1, <2>1 DEF TypeOK, TakeQueue, BatchWhileExecuting
  <2>5. QED
    BY <2>1, <2>3, <2>4 DEF PlaceInv
<1>4. ASSUME NEW c \in Call, TaskSettles(c) PROVE PlaceInv'
  <2> DEFINE R == [Row EXCEPT ![c] = Tail(Row[c])]
  <2>1. batch[c] \in Seq(Task) /\ batch[c] # <<>> /\ Row[c] = batch[c] /\ c \in Place
    BY <1>1, <1>4 DEF TypeOK, TaskSettles, BatchWhileExecuting
  <2>2. Head(batch[c]) \in Task
    BY <2>1
  <2>3. Waiting' = Waiting \ {Head(batch[c])}
    <3>1. PICK o \in {"ok", "failed"} : outcome' = [outcome EXCEPT ![Head(batch[c])] = o]
      BY <1>4 DEF TaskSettles
    <3>2. \A u \in Task : outcome'[u] = IF u = Head(batch[c]) THEN o ELSE outcome[u]
      BY <2>2, <3>1 DEF TypeOK
    <3>3. QED
      BY <3>1, <3>2 DEF Waiting
  <2>4. Kept(R, Waiting \ {Head(batch[c])})
    BY <1>1, <2>1, LeavesRow
  <2>5. CASE Len(batch[c]) > 1
    <3>1. batch' = [batch EXCEPT ![c] = Tail(@)] /\ UNCHANGED <<queue, phase>>
      BY <1>4, <2>5 DEF TaskSettles
    <3>2. Row' = R
      BY <1>1, <3>1 DEF TypeOK, Row, Place
    <3>3. Tail(batch[c]) # <<>>
      <4>1. Len(Tail(batch[c])) = Len(batch[c]) - 1 /\ Len(batch[c]) \in Nat
        BY <2>1
      <4>2. Len(Tail(batch[c])) > 0
        BY <2>5, <4>1
      <4>3. QED
        BY <4>2
    <3>4. BatchWhileExecuting'
      BY <1>1, <1>4, <3>1, <3>3 DEF TypeOK, BatchWhileExecuting, TaskSettles
    <3>5. QED
      BY <2>3, <2>4, <3>2, <3>4 DEF PlaceInv
  <2>6. CASE ~(Len(batch[c]) > 1)
    <3>1. TakeQueue(c)
      BY <1>4, <2>6 DEF TaskSettles
    <3>2. Tail(batch[c]) = <<>>
      BY <2>1, <2>6
    <3>3. /\ R \in [Place -> Seq(Task)] /\ R[c] = <<>> /\ R[NoCall] = queue
          /\ \A d \in Call : d # c => R[d] = batch[d]
      BY <1>1, <2>1, <3>2
    <3>4. Kept(Row', Waiting \ {Head(batch[c])})
      BY <2>4, <3>1, <3>3, SwapKeeps
    <3>5. BatchWhileExecuting'
      BY <1>1, <3>1 DEF TypeOK, TakeQueue, BatchWhileExecuting
    <3>6. QED
      BY <2>3, <3>4, <3>5 DEF PlaceInv
  <2>7. QED
    BY <2>5, <2>6
<1>5. ASSUME NEW c \in Call, TriggerIdle(c) \/ TriggerArmed(c) \/ TimeoutCancelled(c)
      PROVE  PlaceInv'
  <2>1. UNCHANGED <<queue, batch, outcome>>
    BY <1>5 DEF TriggerIdle, TriggerArmed, TimeoutCancelled
  <2>2. Row' = Row /\ Waiting' = Waiting
    BY <2>1 DEF Row, Waiting
  <2>3. BatchWhileExecuting'
    BY <1>1, <1>5, <2>1
    DEF TypeOK, BatchWhileExecuting, TriggerIdle, TriggerArmed, TimeoutCancelled
  <2>4. QED
    BY <1>1, <2>2, <2>3 DEF PlaceInv
<1>6. CASE UNCHANGED <<queue, batch, outcome, phase>>
  <2>1. Row' = Row /\ Waiting' = Waiting
    BY <1>6 DEF Row, Waiting
  <2>2. BatchWhileExecuting'
    BY <1>1, <1>6 DEF BatchWhileExecuting
  <2>3. QED
    BY <1>1, <2>1, <2>2 DEF PlaceInv
<1>7. QED
  BY <1>2, <1>3, <1>4, <1>5, <1>6 DEF Next, Continue, Tick, vars

\* The positions of a task, counted.
LEMMA PlacesCounted == TypeOK /\ PlaceInv => TaskInOnePlace
<1> SUFFICES ASSUME TypeOK, PlaceInv, NEW t \in Task
             PROVE  Cardinality(Places(t)) = IF outcome[t] = "scheduled" THEN 1 ELSE 0
  BY DEF TaskInOnePlace
<1>1. \A x : x \in Places(t) <=> \E p \in Place, i \in Nat : x = <<p, i>> /\ At(Row, t, p, i)
  <2>1. \A p \in Place : Row[p] \in Seq(Task) /\ DOMAIN Row[p] = 1..Len(Row[p])
    BY RowType
  <2>2. Row[NoCall] = queue /\ \A c \in Call : Row[c] = batch[c]
    BY NoCallAssumption DEF Row, Place
  <2>3. /\ DOMAIN queue = 1..Len(queue)
        /\ \A c \in Call : DOMAIN batch[c] = 1..Len(batch[c])
    BY <2>1, <2>2 DEF Place
  <2>4. ASSUME NEW x, x \in Places(t)
        PROVE  \E p \in Place, i \in Nat : x = <<p, i>> /\ At(Row, t, p, i)
    <3>1. CASE \E i \in DOMAIN queue : queue[i] = t /\ x = <<NoCall, i>>
      BY <2>2, <2>3, <3>1 DEF At, Place
    <3>2. CASE \E c \in Call : \E i \in DOMAIN batch[c] : batch[c][i] = t /\ x = <<c, i>>
      BY <2>2, <2>3, <3>2 DEF At, Place
    <3>3. QED
      BY <2>4, <3>1, <3>2 DEF Places
  <2>5. ASSUME NEW p \in Place, NEW i \in Nat, At(Row, t, p, i)
        PROVE  <<p, i>> \in Places(t)
    <3>1. CASE p = NoCall
      BY <2>2, <2>3, <2>5, <3>1 DEF At, Places
    <3>2. CASE p \in Call
      BY <2>2, <2>3, <2>5, <3>2 DEF At, Places
    <3>3. QED
      BY <3>1, <3>2 DEF Place
  <2>6. QED
    BY <2>4, <2>5
<1>2. CASE outcome[t] = "scheduled"
  <2>1. PICK p \in Place, i \in Nat :
          At(Row, t, p, i) /\ \A q \in Place, j \in Nat : At(Row, t, q, j) => q = p /\ j = i
    BY <1>2 DEF PlaceInv, Kept, Waiting, OnlyOnce
  <2>2. Places(t) = {<<p, i>>}
    BY <1>1, <2>1
  <2>3. QED
    BY <1>2, <2>2, FS_Singleton
<1>3. CASE outcome[t] # "scheduled"
  <2>1. Places(t) = {}
    BY <1>1, <1>3 DEF PlaceInv, Kept, Waiting, Nowhere
  <2>2. QED
    BY <1>3, <2>1, FS_EmptySet
<1>4. QED
  BY <1>2, <1>3

\* However schedule(), trigger() and overlapping execute()s interleave, each
\* scheduled task that has not settled is queued or in a batch, once, and no
\* other task is: execute() loses none and runs none twice (idle.ts:59-61).
THEOREM TaskCorrect == Spec => []TaskInOnePlace
<1>1. Init => TypeOK /\ PlaceInv
  BY InitIInv, InitPlaces DEF IInv
<1>2. TypeOK /\ PlaceInv /\ [Next]_vars => TypeOK' /\ PlaceInv'
  BY TypePreserved, PlacesPreserved
<1>3. TypeOK /\ PlaceInv => TaskInOnePlace
  BY PlacesCounted
<1>4. QED
  BY <1>1, <1>2, <1>3, PTL DEF Spec
===============================================================================
