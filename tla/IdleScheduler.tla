---------------------------- MODULE IdleScheduler ----------------------------
(***************************************************************************)
(* Work put off until the service worker is idle: class IdleScheduler of   *)
(* packages/service-worker/worker/src/idle.ts.                             *)
(*                                                                         *)
(* A Call is one invocation of the async method trigger(): it runs to its  *)
(* `await timeout`, and, unless a later call cancelled it meanwhile, goes  *)
(* on to execute().  Several invocations may be suspended at once, and     *)
(* several may be executing.  A task is a callback handed to schedule(); it *)
(* takes as long as it likes and may reject.                               *)
(***************************************************************************)
EXTENDS Naturals, Sequences, FiniteSets

CONSTANTS Task,       \* the callbacks handed to schedule(), each once
          Call,       \* the invocations of trigger(), each made once
          NoCall,     \* `null` in the field `scheduled`
          Threshold   \* the idle time, in ticks of the clock

ASSUME NoCallAssumption == NoCall \notin Call
ASSUME ThresholdAssumption == Threshold \in Nat

VARIABLES queue,        \* the tasks waiting for an execute()
          scheduled,    \* the run that no later trigger() has replaced
          emptyPending, \* emptyResolve # null: the promise `empty` is unresolved
          phase,        \* where each invocation of trigger() stands
          cancel,       \* the `cancel` flag of each invocation's ScheduledRun
          left,         \* ticks until each invocation's timeout resolves
          batch,        \* the tasks execute() took, the running one first
          outcome,      \* history: what became of each task
          quiet         \* history: ticks since trigger() was called, and since
                        \* it was called with work queued, up to Threshold

vars == <<queue, scheduled, emptyPending, phase, cancel, left, batch, outcome, quiet>>

Init ==
  /\ queue = <<>>
  /\ scheduled = NoCall
  /\ emptyPending = FALSE
  /\ phase = [c \in Call |-> "uncalled"]
  /\ cancel = [c \in Call |-> FALSE]
  /\ left = [c \in Call |-> 0]
  /\ batch = [c \in Call |-> <<>>]
  /\ outcome = [t \in Task |-> "new"]
  /\ quiet = [called |-> Threshold, armed |-> Threshold]

\* schedule(desc, run)
Schedule(t) ==
  /\ outcome[t] = "new"
  /\ queue' = Append(queue, t)
  /\ emptyPending' = TRUE
  /\ outcome' = [outcome EXCEPT ![t] = "scheduled"]
  /\ UNCHANGED <<scheduled, phase, cancel, left, batch, quiet>>

\* trigger() up to its early return on an empty queue.
TriggerIdle(c) ==
  /\ phase[c] = "uncalled"
  /\ queue = <<>>
  /\ phase' = [phase EXCEPT ![c] = "done"]
  /\ quiet' = [quiet EXCEPT !.called = 0]
  /\ UNCHANGED <<queue, scheduled, emptyPending, cancel, left, batch, outcome>>

\* Faults: the run scheduled before is not cancelled; the new run is.
TriggerArmedTwice(c) ==
  /\ phase[c] = "uncalled"
  /\ queue # <<>>
  /\ phase' = [phase EXCEPT ![c] = "waiting"]
  /\ cancel' = cancel
  /\ scheduled' = c
  /\ left' = [left EXCEPT ![c] = Threshold]
  /\ quiet' = [called |-> 0, armed |-> 0]
  /\ UNCHANGED <<queue, emptyPending, batch, outcome>>

TriggerArmedCancelled(c) ==
  /\ phase[c] = "uncalled"
  /\ queue # <<>>
  /\ phase' = [phase EXCEPT ![c] = "waiting"]
  /\ cancel' = [d \in Call |-> cancel[d] \/ d = c]
  /\ scheduled' = c
  /\ left' = [left EXCEPT ![c] = Threshold]
  /\ quiet' = [called |-> 0, armed |-> 0]
  /\ UNCHANGED <<queue, emptyPending, batch, outcome>>

\* trigger() up to its timeout: cancel the run scheduled before, take its place.
TriggerArmed(c) ==
  /\ phase[c] = "uncalled"
  /\ queue # <<>>
  /\ phase' = [phase EXCEPT ![c] = "waiting"]
  /\ cancel' = [d \in Call |-> cancel[d] \/ d = scheduled]
  /\ scheduled' = c
  /\ left' = [left EXCEPT ![c] = Threshold]
  /\ quiet' = [called |-> 0, armed |-> 0]
  /\ UNCHANGED <<queue, emptyPending, batch, outcome>>

\* Fault: the queue is run without being emptied.
TakeQueueKept(c) ==
  /\ queue' = queue
  /\ batch' = [batch EXCEPT ![c] = queue]
  /\ phase' = [phase EXCEPT ![c] = IF queue = <<>> THEN "done" ELSE "executing"]
  /\ emptyPending' = (emptyPending /\ queue # <<>>)

\* The head of execute()'s loop in invocation c: take the whole queue, or
\* resolve `empty` and return.
TakeQueue(c) ==
  /\ queue' = <<>>
  /\ batch' = [batch EXCEPT ![c] = queue]
  /\ phase' = [phase EXCEPT ![c] = IF queue = <<>> THEN "done" ELSE "executing"]
  /\ emptyPending' = (emptyPending /\ queue # <<>>)

\* trigger() after its timeout: return if cancelled, otherwise execute.
TimeoutCancelled(c) ==
  /\ phase[c] = "waiting" /\ left[c] = 0
  /\ cancel[c]
  /\ phase' = [phase EXCEPT ![c] = "done"]
  /\ UNCHANGED <<queue, scheduled, emptyPending, cancel, left, batch, outcome, quiet>>

\* Fault: the flag `cancel` is not looked at.
TimeoutExecutesAnyway(c) ==
  /\ phase[c] = "waiting" /\ left[c] = 0
  /\ scheduled' = NoCall
  /\ TakeQueue(c)
  /\ UNCHANGED <<cancel, left, outcome, quiet>>

TimeoutExecutes(c) ==
  /\ phase[c] = "waiting" /\ left[c] = 0
  /\ ~cancel[c]
  /\ scheduled' = NoCall
  /\ TakeQueue(c)
  /\ UNCHANGED <<cancel, left, outcome, quiet>>

\* The running task of c fulfils or rejects (the rejection is only logged): the
\* next of the batch starts, or the loop comes round.
TaskSettles(c) ==
  /\ phase[c] = "executing"
  /\ \E o \in {"ok", "failed"} : outcome' = [outcome EXCEPT ![Head(batch[c])] = o]
  /\ IF Len(batch[c]) > 1
     THEN /\ batch' = [batch EXCEPT ![c] = Tail(@)]
          /\ UNCHANGED <<queue, emptyPending, phase>>
     ELSE TakeQueue(c)
  /\ UNCHANGED <<scheduled, cancel, left, quiet>>

\* Time passes for the timers and for the history.
Earlier(n) == IF n = 0 THEN 0 ELSE n - 1
Later(n) == IF n = Threshold THEN n ELSE n + 1

Tick ==
  /\ \/ \E c \in Call : left[c] > 0
     \/ quiet.called < Threshold
  /\ left' = [c \in Call |-> Earlier(left[c])]
  /\ quiet' = [called |-> Later(quiet.called), armed |-> Later(quiet.armed)]
  /\ UNCHANGED <<queue, scheduled, emptyPending, phase, cancel, batch, outcome>>

Continue(c) == TimeoutCancelled(c) \/ TimeoutExecutes(c) \/ TaskSettles(c)

Next ==
  \/ \E t \in Task : Schedule(t)
  \/ \E c \in Call : TriggerIdle(c) \/ TriggerArmed(c) \/ Continue(c)
  \/ Tick

Spec == Init /\ [][Next]_vars

\* Timers fire and tasks settle.  Nobody is obliged to schedule or trigger.
Fairness == WF_vars(Tick) /\ \A c \in Call : WF_vars(Continue(c))

FairSpec == Spec /\ Fairness

-------------------------------------------------------------------------------
TypeOK ==
  /\ queue \in Seq(Task)
  /\ scheduled \in Call \cup {NoCall}
  /\ emptyPending \in BOOLEAN
  /\ phase \in [Call -> {"uncalled", "waiting", "executing", "done"}]
  /\ cancel \in [Call -> BOOLEAN]
  /\ left \in [Call -> 0..Threshold]
  /\ batch \in [Call -> Seq(Task)]
  /\ outcome \in [Task -> {"new", "scheduled", "ok", "failed"}]
  /\ quiet \in [called : 0..Threshold, armed : 0..Threshold]

\* Where a scheduled task may be: at a place in the queue or in a batch.
Places(t) ==
  {<<NoCall, i>> : i \in {j \in DOMAIN queue : queue[j] = t}}
    \cup UNION {{<<c, i>> : i \in {j \in DOMAIN batch[c] : batch[c][j] = t}} : c \in Call}

\* However schedule(), trigger() and overlapping execute()s interleave, a task
\* that was scheduled and has not settled is in exactly one place, and no other
\* task is anywhere: the swap of `queue` in execute() neither loses a task nor
\* lets two executions run it (idle.ts:59-61).
TaskInOnePlace ==
  \A t \in Task : Cardinality(Places(t)) = (IF outcome[t] = "scheduled" THEN 1 ELSE 0)

\* Of the suspended invocations of trigger() exactly the one in `scheduled` will
\* execute; every other one was cancelled (idle.ts:37-50).
OneRunScheduled ==
  \A c \in Call : (phase[c] = "waiting" /\ ~cancel[c]) <=> scheduled = c

\* While work is queued the promise `empty` is unresolved, so that a caller who
\* awaits it after schedule() is not let through early (idle.ts:73-77, 82-86).
QueuedMeansNotEmpty == queue # <<>> => emptyPending

\* No execution starts within Threshold of a trigger() that found work queued:
\* each such call puts the work off again (idle.ts:37-54).
PutOffByTrigger ==
  [][\A c \in Call : TimeoutExecutes(c) => quiet.armed = Threshold]_vars

\* Once a task is queued and a run is scheduled, the task settles: the run may
\* be put off by later calls and the queue taken by an execution in progress,
\* but the task is not forgotten (finitely many calls; tasks settle).
TaskEventuallySettles ==
  \A t \in Task :
    (\E i \in DOMAIN queue : queue[i] = t) /\ scheduled # NoCall
      ~> outcome[t] \in {"ok", "failed"}

\* idle_spec.ts:57 'waits for multiple tasks to complete serially'.
TasksRunSerially ==
  \A c, d \in Call : phase[c] = "executing" /\ phase[d] = "executing" => c = d

\* idle_spec.ts:96-97: a task "does not execute until trigger() has been called
\* and sufficient time passes without it being called again".
RunsOnlyWhenQuiet ==
  [][\A c \in Call : TimeoutExecutes(c) /\ queue # <<>> => quiet.called = Threshold]_vars
===============================================================================
