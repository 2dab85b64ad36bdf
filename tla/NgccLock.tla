------------------------------- MODULE NgccLock -------------------------------
(***************************************************************************)
(* The lock file that keeps runs of ngcc apart: AsyncLocker, SyncLocker and *)
(* LockFileWithChildProcess of packages/compiler-cli/ngcc/src/locking, with *)
(* the unlocker that each run forks to remove the file if the run dies.     *)
(*                                                                         *)
(* A step is one access to the file system, to the process table or to a    *)
(* timer, and any process may be killed between two steps.  Process ids are *)
(* not reused.                                                              *)
(***************************************************************************)
EXTENDS Naturals, FiniteSets

CONSTANTS Process,        \* the processes that run ngcc
          Async,          \* those of them that wait for the lock (AsyncLocker)
          MaxRuns,        \* how often a process runs ngcc
          RetryAttempts,  \* config.locking.retryAttempts
          MaxKills,       \* how many processes are killed
          NoPid,          \* the empty string: `pid` at first, and a file still empty
          Unknown,        \* "{unknown}": there was no file to be read
          NoFile          \* there is no lock file

ASSUME LockAssumption ==
  /\ Async \subseteq Process
  /\ {MaxRuns, MaxKills} \subseteq Nat /\ RetryAttempts \in Nat \ {0}
  /\ NoPid # Unknown /\ {NoPid, Unknown} \cap Process = {}
  /\ NoFile \notin [by : Process \X Nat, full : BOOLEAN]

\* A run of ngcc: the process and which of its runs it is.
Run == Process \X (1 .. MaxRuns)

VARIABLES file,      \* the lock file: the run that created it, whether the pid is in it
          pc,        \* where each process is
          run,       \* the number of its current run, or of the last one
          pid,       \* in create(): the process seen to hold the lock
          attempts,  \* in create(): the loop's counter
          unlocker,  \* of each run: the child process
          same,      \* history: how many reads in a row have seen `pid`, up to RetryAttempts
          kills

vars == <<file, pc, run, pid, attempts, unlocker, same, kills>>
Waiting == <<pid, attempts, same>>

\* What read() returns.
Content == IF file = NoFile THEN Unknown ELSE IF file.full THEN file.by[1] ELSE NoPid
Current(p) == <<p, run[p]>>
Alive(p) == pc[p] # "dead"
Goes(p, to) == pc' = [pc EXCEPT ![p] = to]

Init ==
  /\ file = NoFile
  /\ pc = [p \in Process |-> "idle"] /\ run = [p \in Process |-> 0]
  /\ pid = [p \in Process |-> NoPid] /\ attempts = [p \in Process |-> 0]
  /\ same = [p \in Process |-> 0] /\ kills = 0
  /\ unlocker = [u \in Run |-> [phase |-> "none", ppid |-> NoPid, open |-> FALSE]]

\* main() creates the lock, and with it the unlocker, and the locker tries to lock.
StartRun(p) ==
  /\ pc[p] = "idle" /\ run[p] < MaxRuns
  /\ run' = [run EXCEPT ![p] = @ + 1]
  /\ unlocker' = [unlocker EXCEPT ![<<p, run[p] + 1>>] =
                    [phase |-> "starting", ppid |-> NoPid, open |-> TRUE]]
  /\ pid' = [pid EXCEPT ![p] = NoPid] /\ attempts' = [attempts EXCEPT ![p] = 0]
  /\ same' = [same EXCEPT ![p] = 0]
  /\ Goes(p, "write")
  /\ UNCHANGED <<file, kills>>
-----------------------------------------------------------------------------
(* create(), in either locker. *)

\* write() creates the file if there is none.
Creates(p) == /\ file = NoFile
              /\ file' = [by |-> Current(p), full |-> FALSE]

CreateFile(p) ==
  /\ pc[p] \in {"write", "rewrite"}
  /\ Creates(p)
  /\ Goes(p, "created")
  /\ UNCHANGED <<run, Waiting, unlocker, kills>>

\* It throws EEXIST: SyncLocker fails, AsyncLocker reads who holds the lock.
FileExists(p) ==
  /\ pc[p] \in {"write", "rewrite"} /\ file # NoFile
  /\ Goes(p, IF p \notin Async THEN "failed" ELSE IF pc[p] = "write" THEN "read" ELSE "reread")
  /\ UNCHANGED <<file, run, Waiting, unlocker, kills>>

\* The pid is written to the file, which someone may have removed meanwhile.
WritePid(p) ==
  /\ pc[p] = "created"
  /\ file' = IF file # NoFile /\ file.by = Current(p) THEN [file EXCEPT !.full = TRUE] ELSE file
  /\ Goes(p, "work")
  /\ UNCHANGED <<run, Waiting, unlocker, kills>>

\* A bug: the timeout goes on when another process holds the lock.
HolderChangedGoesOn(p) == Content # pid[p] /\ UNCHANGED attempts
\* Another process holds the lock than at the last attempt.
HolderChanged(p) == Content # pid[p] /\ attempts' = [attempts EXCEPT ![p] = 0]

ReadHolder(p) ==
  /\ pc[p] = "read"
  /\ \/ HolderChanged(p)
     \/ Content = pid[p] /\ UNCHANGED attempts
  /\ pid' = [pid EXCEPT ![p] = Content]
  /\ same' = [same EXCEPT ![p] = IF Content # pid[p] THEN 1
                               ELSE IF @ < RetryAttempts THEN @ + 1 ELSE @]
  /\ Goes(p, IF attempts'[p] = 0 THEN "check" ELSE "wait")
  /\ UNCHANGED <<file, run, unlocker, kills>>

\* isProcessRunning(): what is no pid counts as running.
CheckHolder(p) ==
  /\ pc[p] = "check"
  /\ Goes(p, IF pid[p] \in Process /\ ~Alive(pid[p]) THEN "rewrite" ELSE "wait")
  /\ UNCHANGED <<file, run, Waiting, unlocker, kills>>

RereadHolder(p) ==
  /\ pc[p] = "reread"
  /\ Goes(p, IF Content = pid[p] THEN "stale" ELSE "wait")
  /\ pid' = [pid EXCEPT ![p] = Content]
  /\ same' = [same EXCEPT ![p] = IF Content = pid[p] THEN @ ELSE 1]
  /\ UNCHANGED <<file, run, attempts, unlocker, kills>>

\* A bug: the attempts are not counted.
RetryUncounted(p) ==
  /\ pc[p] = "wait"
  /\ Goes(p, "write")
  /\ UNCHANGED <<file, run, Waiting, unlocker, kills>>
\* The timer fires.
Retry(p) ==
  /\ pc[p] = "wait"
  /\ attempts' = [attempts EXCEPT ![p] = @ + 1]
  /\ Goes(p, IF attempts[p] + 1 < RetryAttempts THEN "write" ELSE "timeout")
  /\ UNCHANGED <<file, run, pid, same, unlocker, kills>>

\* lock() is rejected: the unlocker stays, as remove() is not reached.
Fail(p) ==
  /\ pc[p] \in {"failed", "stale", "timeout"}
  /\ Goes(p, "idle")
  /\ UNCHANGED <<file, run, Waiting, unlocker, kills>>
-----------------------------------------------------------------------------
(* remove(), when the function that was guarded has ended. *)

Finish(p) ==
  /\ pc[p] = "work"
  /\ Goes(p, IF Content = p THEN "unlink" ELSE "disconnect")
  /\ UNCHANGED <<file, run, Waiting, unlocker, kills>>

Unlink(p) ==
  /\ pc[p] = "unlink"
  /\ file' = NoFile
  /\ Goes(p, "disconnect")
  /\ UNCHANGED <<run, Waiting, unlocker, kills>>

DisconnectUnlocker(p) ==
  /\ pc[p] = "disconnect"
  /\ unlocker' = [unlocker EXCEPT ![Current(p)].open = FALSE]
  /\ Goes(p, "idle")
  /\ UNCHANGED <<file, run, Waiting, kills>>

\* The process dies at any point; the channels to its unlockers close.
Kill(p) ==
  /\ Alive(p) /\ kills < MaxKills
  /\ Goes(p, "dead")
  /\ unlocker' = [u \in Run |-> IF u[1] = p THEN [unlocker[u] EXCEPT !.open = FALSE]
                                            ELSE unlocker[u]]
  /\ kills' = kills + 1
  /\ UNCHANGED <<file, run, Waiting>>
-----------------------------------------------------------------------------
(* The unlocker of the run u. *)

\* It notes its parent, which is another process once the run has died.
UnlockerStarts(u) ==
  /\ unlocker[u].phase = "starting"
  /\ unlocker' = [unlocker EXCEPT ![u].phase = "ready",
                                  ![u].ppid = IF Alive(u[1]) THEN u[1] ELSE NoPid]
  /\ UNCHANGED <<file, pc, run, Waiting, kills>>

\* A bug: the pid is compared with the unlocker's own.
PidsMatchNever(u) == FALSE
\* A bug: the pid in the file is not compared.
PidsMatchAnyway(u) == file # NoFile
PidsMatch(u) == file # NoFile /\ file.full /\ Content = unlocker[u].ppid

UnlockerReads(u) ==
  /\ unlocker[u].phase = "ready" /\ ~unlocker[u].open
  /\ unlocker' = [unlocker EXCEPT ![u].phase = IF PidsMatch(u) THEN "unlink" ELSE "done"]
  /\ UNCHANGED <<file, pc, run, Waiting, kills>>

UnlockerUnlinks(u) ==
  /\ unlocker[u].phase = "unlink"
  /\ file' = NoFile
  /\ unlocker' = [unlocker EXCEPT ![u].phase = "done"]
  /\ UNCHANGED <<pc, run, Waiting, kills>>

Proceed(p) ==
  \/ CreateFile(p) \/ FileExists(p) \/ WritePid(p) \/ ReadHolder(p) \/ CheckHolder(p)
  \/ RereadHolder(p) \/ Retry(p) \/ Fail(p) \/ Finish(p) \/ Unlink(p) \/ DisconnectUnlocker(p)

Unlock(u) == UnlockerStarts(u) \/ UnlockerReads(u) \/ UnlockerUnlinks(u)

Next == \/ \E p \in Process : StartRun(p) \/ Proceed(p) \/ Kill(p)
        \/ \E u \in Run : Unlock(u)

Spec == Init /\ [][Next]_vars

\* A living process goes on, timers fire, and what ngcc does under the lock ends.
Fairness == /\ \A p \in Process : WF_vars(Proceed(p))
            /\ \A u \in Run : WF_vars(Unlock(u))
FairSpec == Spec /\ Fairness
-----------------------------------------------------------------------------
(* Properties. *)

TypeOK ==
  /\ file \in [by : Run, full : BOOLEAN] \cup {NoFile}
  /\ pc \in [Process -> {"idle", "write", "created", "read", "check", "rewrite", "reread",
                         "wait", "failed", "stale", "timeout", "work", "unlink",
                         "disconnect", "dead"}]
  /\ run \in [Process -> 0 .. MaxRuns] /\ pid \in [Process -> Process \cup {NoPid, Unknown}]
  /\ attempts \in [Process -> 0 .. RetryAttempts]
  /\ unlocker \in [Run -> [phase : {"none", "starting", "ready", "unlink", "done"},
                           ppid : Process \cup {NoPid}, open : BOOLEAN]]
  /\ same \in [Process -> 0 .. RetryAttempts] /\ kills \in 0 .. MaxKills

Holding(p) == pc[p] \in {"created", "work"}

\* Two runs of ngcc never work at the same time, and one that works has its lock file.
MutualExclusion ==
  \A p \in Process : Holding(p) => file # NoFile /\ file.by = Current(p)

\* Only one instance of ngcc executes at a time.
OneInstanceAtATime == \A p, q \in Process : pc[p] = "work" /\ pc[q] = "work" => p = q

\* A timeout is reported only after as many attempts as are allowed have found the lock
\* in the same hands.
TimeoutForOneHolder ==
  \A p \in Process : pc[p] = "timeout" => same[p] >= RetryAttempts

\* Whoever wants the lock works or fails in the end, however often it changes hands.
RunsEnd == \A p \in Process : pc[p] = "write" ~> pc[p] \in {"idle", "dead"}

\* A lock file is gone in the end, also one whose pid is still to be written, with two
\* exceptions, both for a run that was killed: before its unlocker had noted the pid, the
\* window that the comment in lock_file_with_child_process/index.ts:31 admits, and between
\* creating the file and writing the pid into it, which no unlocker recognizes as its own.
Held(u) == file # NoFile /\ file.by = u
KilledEarly(u) == ~Alive(u[1]) /\ (unlocker[u].ppid = NoPid \/ ~file.full)
LockIsReleased == \A u \in Run : Held(u) ~> (~Held(u) \/ KilledEarly(u))

-----------------------------------------------------------------------------
(* What the repository says of the lock and the code does not do.              *)

\* The child process is there "to remove the lock file when the main process exits (for
\* whatever reason)" (lock_file_with_child_process/index.ts:19), but for the window that the
\* comment admits, before it is ready.
LockIsReleasedButInWindow ==
  \A u \in Run : Held(u) ~> (~Held(u) \/ (~Alive(u[1]) /\ unlocker[u].ppid = NoPid))
===============================================================================
