----------------------------- MODULE NgccCluster ------------------------------
(***************************************************************************)
(* ngcc on several processes: ClusterMaster and the workers of              *)
(* packages/compiler-cli/ngcc/src/execution/cluster, with the compile       *)
(* function they run and the file writers (ngcc/src/writing) that write     *)
(* and revert a bundle.                                                     *)
(*                                                                         *)
(* A handler of the master is one action; a worker is at an await or        *)
(* between two operations on the file system.  A worker may die at any of   *)
(* these points.  The files of a task are abstracted to one source file     *)
(* and, if the task processes typings, one typings file.                    *)
(***************************************************************************)
EXTENDS NgccQueue

CONSTANTS Worker,  \* ids of workers: 1 .. the number ever forked
          Setting  \* the settings under which ngcc may run

\* A setting: the file writer, what a failed task leads to, maxWorkerCount, the initial
\* remainingRespawnAttempts (3 in the code), which outcomes a compilation may have, and
\* a bound on the deaths of workers.
ASSUME ClusterAssumption ==
  /\ IsFiniteSet(Worker) /\ Worker = 1 .. Cardinality(Worker)
  /\ \A s \in Setting :
       /\ s.inPlace \in BOOLEAN /\ s.errorOnFailed \in BOOLEAN
       /\ s.outcomes \subseteq {"files", "failed", "error"}
       /\ {s.maxWorkers, s.maxCrashes, s.respawnAttempts} \subseteq Nat
       /\ 2 <= s.maxWorkers /\ s.maxWorkers + s.maxCrashes <= Cardinality(Worker)

VARIABLES queue,       \* taskQueue
          online,      \* the keys of taskAssignments, in their order
          assignment,  \* its values: the task of each worker or NoTask
          reported,    \* the workers whose assignment has `files`
          respawns,    \* remainingRespawnAttempts
          finished,    \* finishedDeferred; "bug" is a rejection that says so
          forks,       \* how many workers were forked: their ids are 1 .. forks
          removed,     \* the workers no longer in cluster.workers
          exited,      \* the workers whose 'exit' event was emitted
          proc,        \* the worker processes and the messages they have sent
          disk,        \* the files of each task
          formats,     \* tasks whose new format property is in package.json
          marked,      \* tasks whose properties are marked as processed there
          failed,      \* history: tasks whose compilation failed
          crashes,
          stray,       \* history: tasks that were given back with a backup left behind
          setting      \* chosen once

vars == <<queue, online, assignment, reported, respawns, finished, forks, removed, exited,
          proc, disk, formats, marked, failed, crashes, stray, setting>>

Process == [state : {"none", "idle", "told", "writing", "dead"}, task : Task \cup {NoTask},
            ops : Seq({"save", "write", "copy", "put"} \X {"src", "dts"}),
            sent : Seq({"online", "files", "update", "processed", "failed", "error"})]

File == {f \in Task \X {"src", "dts"} : f[2] = "dts" => Tasks[f[1]].dts}

NotForked == [state |-> "none", task |-> NoTask, ops |-> <<>>, sent |-> <<>>]
\* A forked process reports that it is online through the same channel.
Forked == [NotForked EXCEPT !.state = "idle", !.sent = <<"online">>]

Busy(a, kn) == {w \in ToSet(kn) : a[w] # NoTask}
Listed == (1 .. forks) \ removed

\* run() with a task in the queue forks the first worker.
Init ==
  /\ setting \in Setting
  /\ queue = NewQueue
  /\ online = <<>> /\ assignment = [w \in Worker |-> NoTask] /\ reported = {}
  /\ respawns = setting.respawnAttempts /\ finished = "pending"
  /\ forks = 1 /\ removed = {} /\ exited = {}
  /\ proc = [w \in Worker |-> IF w = 1 THEN Forked ELSE NotForked]
  /\ disk = [f \in File |-> [at |-> "orig", bak |-> "none", copy |-> "none"]]
  /\ formats = {} /\ marked = {} /\ failed = {} /\ stray = {}
  /\ crashes = 0
-----------------------------------------------------------------------------
(* The master: maybeDistributeWork(). *)

\* sendMessageToWorker() throws unless the worker is alive and connected.
Reachable(w) == proc[w].state # "dead"

\* Its loop over the workers that are left in d.rest: each idle one gets the next task,
\* until there is none (a worker is "available") or a worker that cannot be reached makes
\* it throw.
Distribution == [queue : Queue, assignment : [Worker -> Task \cup {NoTask}],
                 rest : Seq(Worker), told : SUBSET Worker,
                 end : {"assigned", "available", "threw"}]
Distributed[d \in Distribution] ==
  IF d.rest = <<>> THEN d
  ELSE LET w == Head(d.rest)
           t == NextTask(d.queue)
           given == [d EXCEPT !.queue = AfterNext(d.queue), !.assignment[w] = t,
                              !.told = @ \cup {w}, !.rest = Tail(@)]
       IN CASE d.assignment[w] # NoTask -> Distributed[[d EXCEPT !.rest = Tail(@)]]
            [] d.assignment[w] = NoTask /\ t = NoTask ->
                 [d EXCEPT !.queue = AfterNext(d.queue), !.end = "available"]
            [] d.assignment[w] = NoTask /\ t # NoTask ->
                 IF Reachable(w) THEN Distributed[given] ELSE [given EXCEPT !.end = "threw"]

\* cluster.fork()
Fork(procs) == /\ forks' = forks + 1
               /\ proc' = [procs EXCEPT ![forks + 1] = Forked]

Resolve(q, kn, a, procs) ==
  /\ AllTasksCompleted(q)
  /\ finished' = "resolved"
  /\ queue' = q /\ online' = kn /\ assignment' = a /\ proc' = procs
  /\ UNCHANGED forks

\* maybeDistributeWork() with the queue q, the workers kn and assignments a.
Distribute(q, kn, a, procs, listed) ==
  /\ ~AllTasksCompleted(q)
  /\ online' = kn
  /\ \E d \in {Distributed[[queue |-> q, assignment |-> a, rest |-> kn, told |-> {},
                            end |-> "assigned"]]} :
       LET told == [w \in Worker |-> IF w \in d.told /\ Reachable(w)
                      THEN [procs[w] EXCEPT !.state = "told", !.task = d.assignment[w]]
                      ELSE procs[w]]
       IN /\ queue' = d.queue /\ assignment' = d.assignment
          /\ finished' = CASE d.end = "threw" -> "rejected"
                           [] d.end = "available" /\ Busy(d.assignment, kn) = {} -> "bug"
                           [] OTHER -> "pending"
          /\ IF d.end = "assigned" /\ Cardinality(listed) < setting.maxWorkers
             THEN Fork(told)
             ELSE proc' = told /\ UNCHANGED forks

MaybeDistributeWork(q, kn, a, procs, listed) ==
  Resolve(q, kn, a, procs) \/ Distribute(q, kn, a, procs, listed)

\* wrapEventHandler(): an error in a handler rejects the run.
Reject(procs) == /\ finished' = "rejected" /\ proc' = procs
                 /\ UNCHANGED <<online, assignment, forks>>
-----------------------------------------------------------------------------
(* The master: handlers. *)

\* w's next message is m, and the handlers are still registered.
Gets(w, m) == finished = "pending" /\ proc[w].sent # <<>> /\ Head(proc[w].sent) = m
Taken(w) == [proc EXCEPT ![w].sent = Tail(@)]
Unassigned(w) == [assignment EXCEPT ![w] = NoTask]

OnWorkerOnline(w) ==
  /\ Gets(w, "online")
  /\ MaybeDistributeWork(queue, Append(online, w), Unassigned(w), Taken(w), Listed)
  /\ UNCHANGED <<reported, respawns, removed, exited, disk, formats, marked, failed,
                 crashes, stray, setting>>

\* A message that makes onWorkerMessage() throw: it reports an error, or comes from
\* a worker that the master has given up.
OnWorkerError(w) ==
  /\ \E m \in {"files", "update", "processed", "failed", "error"} :
       Gets(w, m) /\ (m = "error" \/ w \notin ToSet(online))
  /\ Reject(Taken(w))
  /\ UNCHANGED <<queue, reported, respawns, removed, exited, disk, formats, marked, failed,
                 crashes, stray, setting>>

OnWorkerTransformedFiles(w) ==
  /\ Gets(w, "files") /\ w \in ToSet(online)
  /\ reported' = reported \cup {w} /\ proc' = Taken(w)
  /\ UNCHANGED <<queue, online, assignment, respawns, finished, forks, removed, exited,
                 disk, formats, marked, failed, crashes, stray, setting>>

OnWorkerUpdatePackageJson(w) ==
  /\ Gets(w, "update") /\ w \in ToSet(online)
  /\ formats' = formats \cup {assignment[w]} /\ proc' = Taken(w)
  /\ UNCHANGED <<queue, online, assignment, reported, respawns, finished, forks, removed,
                 exited, disk, marked, failed, crashes, stray, setting>>

\* onWorkerTaskCompleted() after the handler for the outcome: q is the queue then.
TaskCompleted(w, q) ==
  /\ reported' = reported \ {w}
  /\ MaybeDistributeWork(MarkAsCompleted(q, assignment[w]), online, Unassigned(w),
                         Taken(w), Listed)
  /\ UNCHANGED <<respawns, removed, exited, disk, formats, crashes, stray, setting>>

OnTaskProcessed(w) ==
  /\ Gets(w, "processed") /\ w \in ToSet(online)
  /\ marked' = marked \cup {assignment[w]}
  /\ TaskCompleted(w, queue)
  /\ UNCHANGED failed

\* createLogErrorHandler()
OnTaskFailed(w) ==
  /\ Gets(w, "failed") /\ w \in ToSet(online) /\ ~setting.errorOnFailed
  /\ failed' = failed \cup {assignment[w]}
  /\ TaskCompleted(w, MarkAsFailed(queue, assignment[w]))
  /\ UNCHANGED marked

\* createThrowErrorHandler()
OnTaskFailedThrows(w) ==
  /\ Gets(w, "failed") /\ w \in ToSet(online) /\ setting.errorOnFailed
  /\ Reject(Taken(w))
  /\ failed' = failed \cup {assignment[w]}
  /\ UNCHANGED <<queue, reported, respawns, removed, exited, disk, formats, marked,
                 crashes, stray, setting>>
-----------------------------------------------------------------------------
(* The master: onWorkerExit() and revertBundle(). *)

\* InPlaceFileWriter.revertFileAndBackup()
RevertInPlace(f) ==
  IF disk[f].at = "none" THEN disk[f] ELSE [disk[f] EXCEPT !.at = disk[f].bak, !.bak = "none"]

\* NewEntryPointFileWriter.revertFile() removes the file that was written beside it.
Reverted(f) ==
  IF f[2] = "src" /\ ~setting.inPlace THEN [disk[f] EXCEPT !.copy = "none"]
                                      ELSE RevertInPlace(f)

\* fs.removeFile() throws when that file is not there (yet).
RevertThrows(t) == ~setting.inPlace /\ disk[<<t, "src">>].copy = "none"

RevertBundle(t) ==
  /\ disk' = [f \in File |-> IF f[1] = t THEN Reverted(f) ELSE disk[f]]
  /\ formats' = IF setting.inPlace THEN formats ELSE formats \ {t}

\* w has died and its 'exit' event is emitted; `gone` tells whether its channel was
\* closed before, so that it is no longer in cluster.workers.
Exits(w, gone) ==
  /\ finished = "pending"
  /\ proc[w].state = "dead" /\ w \notin exited
  /\ gone => proc[w].sent = <<>>
  /\ exited' = exited \cup {w}
  /\ removed' = IF gone THEN removed \cup {w} ELSE removed
  /\ reported' = reported \ {w}

WithoutAssignment(w) == RemoveFirst(online, w)

\* A bug: it is not.
OnIdleWorkerExitUnreplaced(w) ==
  /\ \E gone \in BOOLEAN : Exits(w, gone)
  /\ assignment[w] = NoTask
  /\ online' = WithoutAssignment(w)
  /\ UNCHANGED <<queue, assignment, respawns, finished, forks, proc, disk, formats, marked,
                 failed, crashes, stray, setting>>
\* The worker had no task: it is replaced.
OnIdleWorkerExit(w) ==
  /\ \E gone \in BOOLEAN : Exits(w, gone)
  /\ assignment[w] = NoTask
  /\ online' = WithoutAssignment(w)
  /\ Fork(proc)
  /\ UNCHANGED <<queue, assignment, respawns, finished, disk, formats, marked, failed,
                 crashes, stray, setting>>


\* What it had written is not there to be removed: the error rejects the run.
OnExitRevertThrows(w) ==
  /\ \E gone \in BOOLEAN : Exits(w, gone)
  /\ assignment[w] # NoTask /\ w \in reported /\ RevertThrows(assignment[w])
  /\ online' = WithoutAssignment(w) /\ assignment' = Unassigned(w)
  /\ finished' = "rejected"
  /\ UNCHANGED <<queue, respawns, forks, proc, disk, formats, marked, failed, crashes,
                 stray, setting>>

MayRespawn == respawns > 0

\* Continue with the workers in cluster.workers, or replace the last one, or give up.
GoOnWithout(w, q) ==
  \/ /\ (1 .. forks) \ removed' # {}
     /\ MaybeDistributeWork(q, WithoutAssignment(w), Unassigned(w), proc,
                            (1 .. forks) \ removed')
     /\ UNCHANGED respawns
  \/ /\ (1 .. forks) \ removed' = {}
     /\ queue' = q /\ online' = WithoutAssignment(w) /\ assignment' = Unassigned(w)
     /\ \/ MayRespawn /\ respawns' = respawns - 1 /\ Fork(proc) /\ UNCHANGED finished
        \/ /\ ~MayRespawn /\ finished' = "rejected"
           /\ UNCHANGED <<respawns, forks, proc>>

\* A backup of a file of t is left where it is: the worker died before it had written
\* that file, or before the master knew of its files.
NotesStray(t) ==
  stray' = IF \E f \in File : f[1] = t /\ disk'[f].bak # "none" THEN stray \cup {t} ELSE stray

OnBusyWorkerExit(w) ==
  /\ \E gone \in BOOLEAN : Exits(w, gone)
  /\ assignment[w] # NoTask
  /\ \/ w \in reported /\ ~RevertThrows(assignment[w]) /\ RevertBundle(assignment[w])
     \/ w \notin reported /\ UNCHANGED <<disk, formats>>
  /\ NotesStray(assignment[w])
  /\ GoOnWithout(w, MarkAsUnprocessed(queue, assignment[w]))
  /\ UNCHANGED <<marked, failed, crashes, setting>>

Master(w) ==
  \/ OnWorkerOnline(w) \/ OnWorkerError(w) \/ OnWorkerTransformedFiles(w)
  \/ OnWorkerUpdatePackageJson(w) \/ OnTaskProcessed(w) \/ OnTaskFailed(w)
  \/ OnTaskFailedThrows(w)
  \/ OnIdleWorkerExit(w) \/ OnExitRevertThrows(w) \/ OnBusyWorkerExit(w)
-----------------------------------------------------------------------------
(* The workers. *)

MasterVars == <<queue, online, assignment, reported, respawns, finished, forks, removed,
                exited, formats, marked, failed>>
Says(p, ms) == [p EXCEPT !.sent = @ \o ms]
Idles(p) == [p EXCEPT !.state = "idle", !.task = NoTask, !.ops = <<>>]

\* writeBundle() of the two writers, one operation on the file system at a time.
InPlace(k) == <<<<"save", k>>, <<"write", k>>>>
Writes(t) == (IF setting.inPlace THEN InPlace("src") ELSE <<<<"copy", "src">>, <<"put", "src">>>>)
             \o (IF Tasks[t].dts THEN InPlace("dts") ELSE <<>>)

\* A bug: the task is reported as completed before its files are written.
CompileReportsFirst(w) ==
  /\ finished = "pending" /\ proc[w].state = "told"
  /\ \E o \in setting.outcomes :
       proc' = [proc EXCEPT ![w] =
         IF o = "files" THEN Says([@ EXCEPT !.state = "writing", !.ops = Writes(proc[w].task)],
                                  <<o, "processed">>)
                        ELSE Says(Idles(@), <<o>>)]
  /\ UNCHANGED <<MasterVars, disk, crashes, stray, setting>>
\* compile(): the task fails, an error is thrown, or its files are announced before
\* they are written.
Compile(w) ==
  /\ finished = "pending" /\ proc[w].state = "told"
  /\ \E o \in setting.outcomes :
       proc' = [proc EXCEPT ![w] =
         IF o = "files" THEN Says([@ EXCEPT !.state = "writing", !.ops = Writes(proc[w].task)], <<o>>)
                        ELSE Says(Idles(@), <<o>>)]
  /\ UNCHANGED <<MasterVars, disk, crashes, stray, setting>>

Done(op, d) == CASE op = "save" -> [d EXCEPT !.at = "none", !.bak = d.at]
                 [] op = "write" -> [d EXCEPT !.at = "new"]
                 [] op = "copy" -> [d EXCEPT !.copy = "orig"]
                 [] op = "put" -> [d EXCEPT !.copy = "new"]

Writing(w) == finished = "pending" /\ proc[w].state = "writing" /\ proc[w].ops # <<>>
Operand(w) == <<proc[w].task, Head(proc[w].ops)[2]>>
BackupExists(w) == Head(proc[w].ops)[1] = "save" /\ disk[Operand(w)].bak # "none"

Write(w) ==
  /\ Writing(w) /\ ~BackupExists(w)
  /\ disk' = [disk EXCEPT ![Operand(w)] = Done(Head(proc[w].ops)[1], @)]
  /\ proc' = [proc EXCEPT ![w].ops = Tail(@)]
  /\ UNCHANGED <<MasterVars, crashes, stray, setting>>

\* writeFileAndBackup() finds a backup: it throws, or logs that and leaves the file.
BackupInTheWay(w) ==
  /\ Writing(w) /\ BackupExists(w)
  /\ proc' = [proc EXCEPT ![w] = IF setting.errorOnFailed THEN Says(Idles(@), <<"error">>)
                                 ELSE [@ EXCEPT !.ops = Tail(Tail(proc[w].ops))]]
  /\ UNCHANGED <<MasterVars, disk, crashes, stray, setting>>

\* The rest of writeBundle(), and onTaskCompleted().
Written(w) ==
  /\ finished = "pending" /\ proc[w].state = "writing" /\ proc[w].ops = <<>>
  /\ proc' = [proc EXCEPT ![w] =
       Says(Idles(@), IF setting.inPlace THEN <<"processed">> ELSE <<"update", "processed">>)]
  /\ UNCHANGED <<MasterVars, disk, crashes, stray, setting>>

\* A process dies, for lack of memory or otherwise.  While it waits for a task to be
\* sent or writes, all it has sent has left it; else the last messages may be lost.
Crash(w) ==
  /\ finished = "pending" /\ crashes < setting.maxCrashes
  /\ proc[w].state \in {"idle", "told", "writing"}
  /\ \E n \in 0 .. Len(proc[w].sent) :
       /\ proc[w].state # "idle" => n = Len(proc[w].sent)
       /\ proc' = [proc EXCEPT ![w] =
                     [NotForked EXCEPT !.state = "dead", !.sent = SubSeq(proc[w].sent, 1, n)]]
  /\ crashes' = crashes + 1
  /\ UNCHANGED <<MasterVars, disk, stray, setting>>

\* The channel of a process that has exited closes: it leaves cluster.workers.
Disconnect(w) ==
  /\ finished = "pending"
  /\ w \in exited \ removed /\ proc[w].sent = <<>>
  /\ removed' = removed \cup {w}
  /\ UNCHANGED <<queue, online, assignment, reported, respawns, finished, forks, exited,
                 proc, disk, formats, marked, failed, crashes, stray, setting>>

Work(w) == Compile(w) \/ Write(w) \/ BackupInTheWay(w) \/ Written(w)
-----------------------------------------------------------------------------
Next == \E w \in Worker : Master(w) \/ Work(w) \/ Crash(w) \/ Disconnect(w)

Spec == Init /\ [][Next]_vars

\* Node delivers what was sent and emits the events; a worker that lives goes on.
\* (As no step can be repeated for ever, fairness need not name the worker.)
Fairness == WF_vars(\E w \in Worker : Master(w) \/ Work(w) \/ Disconnect(w))
FairSpec == Spec /\ Fairness
-----------------------------------------------------------------------------
(* Properties. *)

TypeOK ==
  /\ queue \in Queue
  /\ online \in Seq(Worker) /\ assignment \in [Worker -> Task \cup {NoTask}]
  /\ {reported, removed, exited} \subseteq SUBSET Worker
  /\ respawns \in 0 .. setting.respawnAttempts /\ forks \in Worker
  /\ finished \in {"pending", "resolved", "rejected", "bug"}
  /\ proc \in [Worker -> Process]
  /\ disk \in [File -> [at : {"orig", "new", "none"}, bak : {"orig", "new", "none"},
                        copy : {"orig", "new", "none"}]]
  /\ {formats, marked, failed, stray} \subseteq SUBSET Task
  /\ crashes \in Nat /\ setting \in Setting

\* The queue of the master and its assignments agree through exits and retries: the
\* tasks in progress are those of one known worker each, and none of them is also
\* waiting or done.
EachTaskInOnePlace ==
  finished = "pending" =>
    /\ queue.inProgress = {assignment[w] : w \in Busy(assignment, online)}
    /\ \A v, w \in Busy(assignment, online) : assignment[v] = assignment[w] => v = w
    /\ \A t \in Task : Cardinality({i \in DOMAIN queue.tasks : queue.tasks[i] = t}) <= 1
    /\ \A t \in ToSet(queue.tasks) : t \notin queue.inProgress \cup marked \cup failed
    /\ queue.inProgress \cap (marked \cup failed) = {}

\* No worker compiles a task before all it depends on, directly or not, has been
\* processed.  Their typings are then in place, whatever crashed on the way, with one
\* exception.  Where failures are only logged (errorOnFailedEntryPoint is false, the
\* default: ngcc_options.ts:178), a retry that finds the backup its dead worker left
\* behind skips the file, and is processed all the same.
DependenciesCompiled ==
  \A w \in Worker : proc[w].state \in {"told", "writing"} =>
    \A d \in Blocking(proc[w].task) :
      /\ d \in marked
      /\ setting.errorOnFailed \/ d \notin stray => disk[<<d, "dts">>].at = "new"

\* No task is processed if one it depends on, directly or not, has failed; and a run
\* that succeeds has processed all others.
SkippedIffDependencyFailed ==
  LET skipped == UNION {Below[t] : t \in failed} IN
  /\ skipped \cap marked = {}
  /\ finished = "resolved" => marked \cup failed \cup skipped = Task

\* What package.json calls processed is on disk, and the format it points to is the
\* one that was written.  The exception is that of DependenciesCompiled, for a writer in
\* place: failures are only logged, and a dead worker has left a backup of this task.
ProcessedIsWritten ==
  \A t \in marked :
    IF setting.inPlace
    THEN setting.errorOnFailed \/ t \notin stray => disk[<<t, "src">>].at = "new"
    ELSE disk[<<t, "src">>].copy = "new" /\ t \in formats

\* The run ends, whoever dies and whatever is lost, unless two workers have exited and
\* both channels are still open: each then takes the other for a worker that goes on.
RunEnds == [](Cardinality(exited \ removed) <= 1) => <>(finished # "pending")

\* A process is spawned when the last worker has exited: the run always ends.
LastWorkerReplaced == <>(finished # "pending")

\* What the code promises and does not keep: an original file or its backup is kept.
OriginalsKept == \A f \in File : "orig" \in {disk[f].at, disk[f].bak}

\* An error that speaks of unprocessed tasks is raised only when there are some.
BugOnlyWithTasksLeft == finished = "bug" => ~AllTasksCompleted(queue)
===============================================================================
