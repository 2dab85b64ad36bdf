------------------------------ MODULE NgccQueue -------------------------------
(***************************************************************************)
(* The task queue of ngcc when it runs in parallel: ParallelTaskQueue and    *)
(* BaseTaskQueue of packages/compiler-cli/ngcc/src/execution/tasks/queues,   *)
(* and the helpers of tasks/utils.ts.  A queue is a record that each method  *)
(* maps to its next value.                                                  *)
(*                                                                         *)
(* A task is its position in the list that the analysis makes: there the    *)
(* tasks of an entry-point come after those of the entry-points it needs.   *)
(***************************************************************************)
EXTENDS Naturals, FiniteSets, SequencesExt

CONSTANTS Tasks,  \* the list: for each task its entry-point and processDts
          Needs   \* graph.dependenciesOf(): all entry-points that one needs

Task == DOMAIN Tasks
NoTask == 0

\* One task per entry-point processes typings, and the list is partially ordered.
ASSUME QueueAssumption ==
  /\ Tasks \in Seq([ep : DOMAIN Needs, dts : BOOLEAN])
  /\ Needs \in [DOMAIN Needs -> SUBSET DOMAIN Needs]
  /\ \A t, u \in Task :
       /\ Tasks[t].ep = Tasks[u].ep /\ Tasks[t].dts => ~Tasks[u].dts \/ t = u
       /\ Tasks[t].ep \in Needs[Tasks[u].ep] => t < u

\* computeTaskDependencies(): only a task that makes typings blocks others.
Dependents(t) ==
  {u \in Task : /\ t < u /\ Tasks[t].dts
                /\ \/ Tasks[t].ep \in Needs[Tasks[u].ep]
                   \/ Tasks[t].ep = Tasks[u].ep}

\* getBlockedTasks()
Blocking(t) == {d \in Task : t \in Dependents(d)}

\* The tasks that skipDependentTasks() reaches from t.
Below[t \in Task] == Dependents(t) \cup UNION {Below[u] : u \in Dependents(t)}

\* sortTasksByPriority(): by the number of direct dependents, then as listed.
Before(t, u) ==
  LET p == Cardinality(Dependents(t))
      r == Cardinality(Dependents(u))
  IN p > r \/ (p = r /\ t < u)

Sorted == CHOOSE s \in [1 .. Len(Tasks) -> Task] :
            \A i, j \in 1 .. Len(Tasks) : i < j => Before(s[i], s[j])

NewQueue == [tasks |-> Sorted,
             inProgress |-> {},
             blockedBy |-> [t \in Task |-> Blocking(t)],
             toSkip |-> {}]

AllTasksCompleted(q) == q.tasks = <<>> /\ q.inProgress = {}

\* A bug: a task that is blocked is taken as well.
FirstFreeUnchecked(q) == IF q.tasks = <<>> THEN 0 ELSE 1
\* The position of the first task that is not blocked, 0 if there is none.
FirstFree(q) == SelectInSeq(q.tasks, LAMBDA t : q.blockedBy[t] = {})

ComputeNextTask(q) == IF FirstFree(q) = 0 THEN NoTask ELSE q.tasks[FirstFree(q)]

Take(q) == [q EXCEPT !.tasks = RemoveAt(@, FirstFree(q)),
                     !.inProgress = @ \cup {ComputeNextTask(q)}]

MarkAsCompleted(q, t) ==
  [q EXCEPT !.inProgress = @ \ {t},
            !.blockedBy = [u \in Task |-> IF u \in Dependents(t) THEN @[u] \ {t}
                                                                 ELSE @[u]]]

\* A bug: the failure is only logged.
MarkAsFailedForgotten(q, t) == q
MarkAsFailed(q, t) == [q EXCEPT !.toSkip = @ \cup Below[t]]

\* A bug: the task stays in progress as well.
MarkAsUnprocessedToo(q, t) == [q EXCEPT !.tasks = <<t>> \o @]
MarkAsUnprocessed(q, t) == [q EXCEPT !.inProgress = @ \ {t}, !.tasks = <<t>> \o @]

Queue == [tasks : Seq(Task), inProgress : SUBSET Task, blockedBy : [Task -> SUBSET Task],
          toSkip : SUBSET Task]

\* The loop of getNextTask(): the next task is completed as long as it is to be skipped.
Skipped[q \in Queue] ==
  LET t == ComputeNextTask(q)
  IN IF t \in q.toSkip THEN Skipped[MarkAsCompleted(Take(q), t)] ELSE q

\* getNextTask() returns NextTask(q) and leaves the queue as AfterNext(q).
NextTask(q) == ComputeNextTask(Skipped[q])
AfterNext(q) == IF NextTask(q) = NoTask THEN Skipped[q] ELSE Take(Skipped[q])
===============================================================================
