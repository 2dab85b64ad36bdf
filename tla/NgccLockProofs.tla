---------------------------- MODULE NgccLockProofs ----------------------------
(* Proofs about NgccLock, for processes that run ngcc once.                   *)
EXTENDS NgccLock, TLAPS

Phase == {"none", "starting", "ready", "unlink", "done"}
Label == {"idle", "write", "created", "read", "check", "rewrite", "reread", "wait", "failed",
          "stale", "timeout", "work", "unlink", "disconnect", "dead"}

LockTypes ==
  /\ file \in [by : Run, full : BOOLEAN] \cup {NoFile}
  /\ pc \in [Process -> Label]
  /\ run \in [Process -> 0 .. MaxRuns]
  /\ unlocker \in [Run -> [phase : Phase, ppid : Process \cup {NoPid}, open : BOOLEAN]]

\* A process that is in ngcc is in its only run.
InItsRun == \A p \in Process : run[p] = 0 => pc[p] \in {"idle", "dead"}

\* The lock file is there and its own from the creation to the removal.
HoldersOwnTheFile ==
  \A p \in Process : pc[p] \in {"created", "work", "unlink"} =>
    file # NoFile /\ file.by = Current(p)

\* An unlocker belongs to a run that has begun, and that is over if it has lost its
\* parent, ...
ParentIsGone ==
  \A u \in Run : unlocker[u].phase # "none" =>
    run[u[1]] = 1 /\ (~unlocker[u].open => pc[u[1]] \in {"idle", "dead"})
\* ... it has noted that run's process, or one that is in no file, ...
NotesItsParent == \A u \in Run : unlocker[u].ppid \in {u[1], NoPid}
\* ... and from the comparison of the pids to the removal the file is its run's.
UnlocksItsOwn ==
  \A u \in Run : unlocker[u].phase = "unlink" =>
    ~unlocker[u].open /\ file # NoFile /\ file.by = u

LockInv == /\ LockTypes /\ InItsRun /\ HoldersOwnTheFile
           /\ ParentIsGone /\ NotesItsParent /\ UnlocksItsOwn

LEMMA InitLock == MaxRuns = 1 /\ Init => LockInv
  BY LockAssumption DEF Init, LockInv, LockTypes, InItsRun, HoldersOwnTheFile, ParentIsGone,
     NotesItsParent, UnlocksItsOwn, Run, Phase, Label

\* With one run per process, a run is its process.
LEMMA OneRun ==
  ASSUME MaxRuns = 1
  PROVE  /\ \A p \in Process : <<p, 1>> \in Run
         /\ \A u \in Run : u[1] \in Process /\ u = <<u[1], 1>>
  BY DEF Run

\* A step of p that leaves the file and the unlockers alone keeps the invariant, if p
\* has the file where it comes to need it.
LEMMA OnlyPcMoves ==
  ASSUME MaxRuns = 1, LockInv, NEW p \in Process, NEW l \in Label,
         pc[p] \notin {"idle", "dead"}, pc' = [pc EXCEPT ![p] = l],
         UNCHANGED <<file, run, unlocker>>,
         l \in {"created", "work", "unlink"} => file # NoFile /\ file.by = Current(p)
  PROVE  LockInv'
<1> USE DEF LockInv
<1>1. LockTypes'
  BY DEF LockTypes
<1>2. InItsRun'
  BY DEF LockTypes, InItsRun
<1>3. HoldersOwnTheFile'
  BY DEF LockTypes, HoldersOwnTheFile, Current
<1>4. ParentIsGone'
  BY OneRun DEF LockTypes, ParentIsGone
<1>5. NotesItsParent' /\ UnlocksItsOwn'
  BY DEF NotesItsParent, UnlocksItsOwn
<1> QED
  BY <1>1, <1>2, <1>3, <1>4, <1>5

\* No unlocker is about to remove the file of a process that is in its run.
LEMMA NoUnlinkOfOthers ==
  ASSUME MaxRuns = 1, LockInv, NEW p \in Process, pc[p] \notin {"idle", "dead"},
         NEW u \in Run, unlocker[u].phase = "unlink"
  PROVE  file # NoFile /\ file.by # Current(p) /\ u[1] # p
  BY OneRun DEF LockInv, ParentIsGone, UnlocksItsOwn, Current

\* The steps of a process.
LEMMA ProcessStep ==
  ASSUME MaxRuns = 1, LockInv, NEW p \in Process, StartRun(p) \/ Proceed(p) \/ Kill(p)
  PROVE  LockInv'
<1> USE DEF LockInv, Goes
<1>1. CASE StartRun(p)
  <2> run[p] \in 0 .. 1 /\ run[p] < 1
    BY <1>1 DEF StartRun, LockTypes
  <2>1. run[p] = 0
    OBVIOUS
  <2>2. run[p] = 0 /\ run' = [run EXCEPT ![p] = 1] /\ pc[p] = "idle" /\ UNCHANGED file
    BY <1>1, <2>1 DEF StartRun
  <2>3. unlocker' = [unlocker EXCEPT ![<<p, 1>>] =
                       [phase |-> "starting", ppid |-> NoPid, open |-> TRUE]]
    BY <1>1, <2>2 DEF StartRun
  <2>4. pc' = [pc EXCEPT ![p] = "write"]
    BY <1>1 DEF StartRun
  <2>5. LockTypes'
    BY <2>2, <2>3, <2>4, OneRun DEF LockTypes, Label, Phase
  <2>6. InItsRun' /\ HoldersOwnTheFile'
    BY <2>2, <2>4 DEF LockTypes, InItsRun, HoldersOwnTheFile, Current
  <2>7. ParentIsGone'
    BY <2>2, <2>3, <2>4, OneRun DEF LockTypes, ParentIsGone
  <2>8. NotesItsParent' /\ UnlocksItsOwn'
    BY <2>2, <2>3, OneRun DEF LockTypes, NotesItsParent, UnlocksItsOwn
  <2> QED
    BY <2>5, <2>6, <2>7, <2>8
<1>2. CASE CreateFile(p)
  <2>1. /\ file = NoFile /\ file' = [by |-> Current(p), full |-> FALSE]
        /\ pc' = [pc EXCEPT ![p] = "created"] /\ pc[p] \in {"write", "rewrite"}
        /\ UNCHANGED <<run, unlocker>>
    BY <1>2 DEF CreateFile, Creates
  <2>2. Current(p) \in Run
    BY <2>1, OneRun DEF InItsRun, LockTypes, Current
  <2>3. LockTypes'
    BY <2>1, <2>2 DEF LockTypes, Label
  <2> Current(p) \in Process \X Nat
    BY <2>2 DEF Run
  <2> file' \in [by : Process \X Nat, full : BOOLEAN]
    BY <2>1
  <2>4. file' # NoFile
    BY LockAssumption
  <2>5. InItsRun' /\ HoldersOwnTheFile'
    BY <2>1, <2>4 DEF LockTypes, InItsRun, HoldersOwnTheFile, Current
  <2>6. ParentIsGone'
    BY <2>1, OneRun DEF LockTypes, ParentIsGone
  <2>7. NotesItsParent' /\ UnlocksItsOwn'
    BY <2>1 DEF NotesItsParent, UnlocksItsOwn
  <2> QED
    BY <2>3, <2>5, <2>6, <2>7
<1>3. CASE WritePid(p)
  <2>1. /\ file # NoFile /\ file.by = Current(p) /\ file' = [file EXCEPT !.full = TRUE]
        /\ pc' = [pc EXCEPT ![p] = "work"] /\ pc[p] = "created" /\ UNCHANGED <<run, unlocker>>
    BY <1>3 DEF WritePid, HoldersOwnTheFile
  <2>2. file \in [by : Run, full : BOOLEAN]
    BY <2>1 DEF LockTypes
  <2>3. file' \in [by : Run, full : BOOLEAN] /\ file'.by = file.by
    BY <2>1, <2>2
  <2>4. file' # NoFile
    BY <2>3, LockAssumption DEF Run
  <2>5. LockTypes'
    BY <2>1, <2>3 DEF LockTypes, Label
  <2>6. InItsRun' /\ HoldersOwnTheFile'
    BY <2>1, <2>3, <2>4 DEF LockTypes, InItsRun, HoldersOwnTheFile, Current
  <2>7. ParentIsGone'
    BY <2>1, OneRun DEF LockTypes, ParentIsGone
  <2>8. NotesItsParent' /\ UnlocksItsOwn'
    BY <2>1, <2>3, <2>4 DEF NotesItsParent, UnlocksItsOwn
  <2> QED
    BY <2>5, <2>6, <2>7, <2>8
<1>4. CASE FileExists(p) \/ ReadHolder(p) \/ CheckHolder(p) \/ RereadHolder(p) \/ Retry(p)
             \/ Fail(p)
  <2>1. \E l \in Label \ {"created", "work", "unlink"} : pc' = [pc EXCEPT ![p] = l]
    BY <1>4 DEF FileExists, ReadHolder, CheckHolder, RereadHolder, Retry, Fail, Label
  <2>2. pc[p] \notin {"idle", "dead"} /\ UNCHANGED <<file, run, unlocker>>
    BY <1>4 DEF FileExists, ReadHolder, CheckHolder, RereadHolder, Retry, Fail
  <2> QED
    BY <2>1, <2>2, OnlyPcMoves
<1>5. CASE Finish(p)
  <2>1. \E l \in {"unlink", "disconnect"} : pc' = [pc EXCEPT ![p] = l]
    BY <1>5 DEF Finish
  <2>2. pc[p] = "work" /\ UNCHANGED <<file, run, unlocker>>
    BY <1>5 DEF Finish
  <2>3. file # NoFile /\ file.by = Current(p)
    BY <2>2 DEF HoldersOwnTheFile
  <2> QED
    BY <2>1, <2>2, <2>3, OnlyPcMoves DEF Label
<1>6. CASE Unlink(p)
  <2>1. /\ pc[p] = "unlink" /\ pc' = [pc EXCEPT ![p] = "disconnect"] /\ file' = NoFile
        /\ UNCHANGED <<run, unlocker>>
    BY <1>6 DEF Unlink
  <2>2. file # NoFile /\ file.by = Current(p)
    BY <2>1 DEF HoldersOwnTheFile
  <2>3. LockTypes' /\ InItsRun'
    BY <2>1 DEF LockTypes, InItsRun, Label
  <2>4. HoldersOwnTheFile'
    BY <2>1, <2>2 DEF LockTypes, HoldersOwnTheFile, Current
  <2>5. ParentIsGone'
    BY <2>1, OneRun DEF LockTypes, ParentIsGone
  <2>6. NotesItsParent' /\ UnlocksItsOwn'
    BY <2>1, <2>2, NoUnlinkOfOthers DEF NotesItsParent, UnlocksItsOwn
  <2> QED
    BY <2>3, <2>4, <2>5, <2>6
<1>7. CASE DisconnectUnlocker(p)
  <2>1. /\ pc[p] = "disconnect" /\ pc' = [pc EXCEPT ![p] = "idle"] /\ UNCHANGED <<file, run>>
        /\ unlocker' = [unlocker EXCEPT ![Current(p)].open = FALSE]
    BY <1>7 DEF DisconnectUnlocker
  <2>2. Current(p) = <<p, 1>> /\ run[p] = 1 /\ <<p, 1>> \in Run
    BY <2>1, OneRun DEF InItsRun, LockTypes, Current
  <2>3. \A u \in Run : /\ u[1] # p => unlocker'[u] = unlocker[u]
                       /\ unlocker'[u].phase = unlocker[u].phase
                       /\ unlocker'[u].ppid = unlocker[u].ppid
    BY <2>1, <2>2 DEF LockTypes
  <2>4. LockTypes' /\ InItsRun' /\ HoldersOwnTheFile'
    BY <2>1, <2>2 DEF LockTypes, InItsRun, HoldersOwnTheFile, Current, Label
  <2>5. ParentIsGone'
    BY <2>1, <2>2, <2>3, OneRun DEF LockTypes, ParentIsGone
  <2>6. NotesItsParent' /\ UnlocksItsOwn'
    BY <2>1, <2>3, NoUnlinkOfOthers DEF NotesItsParent, UnlocksItsOwn
  <2> QED
    BY <2>4, <2>5, <2>6
<1>8. CASE Kill(p)
  <2>1. /\ pc' = [pc EXCEPT ![p] = "dead"] /\ UNCHANGED <<file, run>>
        /\ unlocker' = [u \in Run |-> IF u[1] = p THEN [unlocker[u] EXCEPT !.open = FALSE]
                                                  ELSE unlocker[u]]
    BY <1>8 DEF Kill
  <2>2. \A u \in Run : /\ u[1] # p => unlocker'[u] = unlocker[u]
                       /\ unlocker'[u].phase = unlocker[u].phase
                       /\ unlocker'[u].ppid = unlocker[u].ppid
                       /\ unlocker'[u].open => unlocker[u].open
    BY <2>1 DEF LockTypes
  <2>3. LockTypes' /\ InItsRun' /\ HoldersOwnTheFile'
    BY <2>1 DEF LockTypes, InItsRun, HoldersOwnTheFile, Current, Label
  <2>4. ParentIsGone'
    BY <2>1, <2>2, OneRun DEF LockTypes, ParentIsGone
  <2>5. NotesItsParent' /\ UnlocksItsOwn'
    BY <2>1, <2>2 DEF NotesItsParent, UnlocksItsOwn
  <2> QED
    BY <2>3, <2>4, <2>5
<1> QED
  BY <1>1, <1>2, <1>3, <1>4, <1>5, <1>6, <1>7, <1>8 DEF Proceed

\* The steps of an unlocker.
LEMMA UnlockerStep ==
  ASSUME MaxRuns = 1, LockInv, NEW u \in Run, Unlock(u)
  PROVE  LockInv'
<1> USE DEF LockInv
<1>1. CASE UnlockerStarts(u)
  <2>1. /\ unlocker[u].phase = "starting" /\ UNCHANGED <<file, pc, run>>
        /\ \E q \in {u[1], NoPid} :
             unlocker' = [unlocker EXCEPT ![u].phase = "ready", ![u].ppid = q]
    BY <1>1 DEF UnlockerStarts
  <2>2. PICK q \in {u[1], NoPid} :
          unlocker' = [unlocker EXCEPT ![u] = [unlocker[u] EXCEPT !.phase = "ready", !.ppid = q]]
    BY <2>1 DEF LockTypes
  <2>3. unlocker'[u] = [phase |-> "ready", ppid |-> q, open |-> unlocker[u].open]
    BY <2>2 DEF LockTypes
  <2>4. LockTypes' /\ InItsRun' /\ HoldersOwnTheFile'
    BY <2>1, <2>2, <2>3, OneRun DEF LockTypes, InItsRun, HoldersOwnTheFile, Current, Phase
  <2>5. ParentIsGone' /\ NotesItsParent' /\ UnlocksItsOwn'
    BY <2>1, <2>2, <2>3 DEF LockTypes, ParentIsGone, NotesItsParent, UnlocksItsOwn
  <2> QED
    BY <2>4, <2>5
<1>2. CASE UnlockerReads(u)
  <2> DEFINE next == IF PidsMatch(u) THEN "unlink" ELSE "done"
  <2>1. /\ unlocker[u].phase = "ready" /\ ~unlocker[u].open /\ UNCHANGED <<file, pc, run>>
        /\ unlocker' = [unlocker EXCEPT ![u].phase = next]
    BY <1>2 DEF UnlockerReads
  <2>2. unlocker'[u] = [phase |-> next, ppid |-> unlocker[u].ppid, open |-> FALSE]
    BY <2>1 DEF LockTypes
  <2>3. ASSUME PidsMatch(u) PROVE file # NoFile /\ file.by = u
    <3>1. file # NoFile /\ file.full /\ file.by[1] = unlocker[u].ppid
      BY <2>3 DEF PidsMatch, Content
    <3>2. file.by \in Run
      BY <3>1 DEF LockTypes
    <3>3. file.by[1] = u[1]
      BY <3>1, <3>2, OneRun, LockAssumption DEF NotesItsParent
    <3> QED
      BY <3>1, <3>2, <3>3, OneRun
  <2>4. LockTypes' /\ InItsRun' /\ HoldersOwnTheFile'
    BY <2>1, <2>2 DEF LockTypes, InItsRun, HoldersOwnTheFile, Current, Phase
  <2>5. ParentIsGone' /\ NotesItsParent' /\ UnlocksItsOwn'
    BY <2>1, <2>2, <2>3 DEF LockTypes, ParentIsGone, NotesItsParent, UnlocksItsOwn
  <2> QED
    BY <2>4, <2>5
<1>3. CASE UnlockerUnlinks(u)
  <2>1. /\ unlocker[u].phase = "unlink" /\ file' = NoFile /\ UNCHANGED <<pc, run>>
        /\ unlocker' = [unlocker EXCEPT ![u].phase = "done"]
    BY <1>3 DEF UnlockerUnlinks
  <2>2. file # NoFile /\ file.by = u
    BY <2>1 DEF UnlocksItsOwn
  <2>3. \A p \in Process : pc[p] \notin {"created", "work", "unlink"}
    BY <2>1, NoUnlinkOfOthers, <2>2 DEF HoldersOwnTheFile
  <2>4. LockTypes' /\ InItsRun' /\ HoldersOwnTheFile'
    BY <2>1, <2>3 DEF LockTypes, InItsRun, HoldersOwnTheFile, Phase
  <2>5. ParentIsGone' /\ NotesItsParent' /\ UnlocksItsOwn'
    BY <2>1, <2>2 DEF LockTypes, ParentIsGone, NotesItsParent, UnlocksItsOwn
  <2> QED
    BY <2>4, <2>5
<1> QED
  BY <1>1, <1>2, <1>3 DEF Unlock

LEMMA StepLock ==
  ASSUME MaxRuns = 1, LockInv, [Next]_vars
  PROVE  LockInv'
<1>1. CASE UNCHANGED vars
  BY <1>1 DEF vars, LockInv, LockTypes, InItsRun, HoldersOwnTheFile, ParentIsGone,
     NotesItsParent, UnlocksItsOwn, Current
<1>2. CASE Next
  BY <1>2, ProcessStep, UnlockerStep DEF Next
<1> QED
  BY <1>1, <1>2

LEMMA InvariantLock == MaxRuns = 1 => (Spec => []LockInv)
<1> SUFFICES ASSUME MaxRuns = 1 PROVE Spec => []LockInv
  OBVIOUS
<1>1. Init => LockInv
  BY InitLock
<1>2. LockInv /\ [Next]_vars => LockInv'
  BY StepLock
<1> QED
  BY <1>1, <1>2, PTL DEF Spec

\* For any number of processes, any number of attempts to lock and any kills: while a
\* run of ngcc works the lock file is its own, if each process runs ngcc once (a second
\* run of a process may lose its lock to the unlocker of the first).
THEOREM Exclusion == MaxRuns = 1 => (Spec => []MutualExclusion)
<1> SUFFICES ASSUME MaxRuns = 1 PROVE Spec => []MutualExclusion
  OBVIOUS
<1>1. LockInv => MutualExclusion
  BY DEF LockInv, HoldersOwnTheFile, MutualExclusion, Holding
<1>2. Spec => []LockInv
  BY InvariantLock
<1> QED
  BY <1>1, <1>2, PTL

\* Then no two processes execute ngcc at the same time.
THEOREM OneAtATime == MaxRuns = 1 => (Spec => []OneInstanceAtATime)
<1> SUFFICES ASSUME MaxRuns = 1 PROVE Spec => []OneInstanceAtATime
  OBVIOUS
<1>1. LockInv => OneInstanceAtATime
  BY DEF LockInv, HoldersOwnTheFile, OneInstanceAtATime, Current
<1>2. Spec => []LockInv
  BY InvariantLock
<1> QED
  BY <1>1, <1>2, PTL
-----------------------------------------------------------------------------
(* Types and counters, however often a process runs ngcc.                     *)

\* A process that is in ngcc is in one of its runs.
InARun == \A p \in Process : pc[p] \notin {"idle", "dead"} => run[p] \in 1 .. MaxRuns

\* While a process waits for one holder, it counts no more attempts than it has seen
\* reads of that holder; it looks the holder's process up only before it counts any.
Counted(p) ==
  /\ pc[p] \in {"write", "read", "check", "rewrite", "reread", "wait"} =>
       attempts[p] < RetryAttempts /\ attempts[p] <= same[p]
  /\ pc[p] \in {"check", "rewrite", "reread"} => attempts[p] = 0 /\ same[p] >= 1
  /\ pc[p] = "wait" => attempts[p] < same[p]
  /\ pc[p] = "timeout" => same[p] = RetryAttempts

CountInv == TypeOK /\ InARun /\ \A p \in Process : Counted(p)

LEMMA InitCount == Init => CountInv
  BY LockAssumption DEF Init, CountInv, TypeOK, InARun, Counted, Run

\* A step of p that changes only p's pc and counters keeps the invariant if it does so
\* for p.
LEMMA CountsOfOne ==
  ASSUME CountInv, NEW p \in Process, TypeOK',
         \A q \in Process \ {p} : /\ pc'[q] = pc[q] /\ run'[q] = run[q]
                                  /\ attempts'[q] = attempts[q] /\ same'[q] = same[q],
         pc'[p] \notin {"idle", "dead"} => run'[p] \in 1 .. MaxRuns,
         Counted(p)'
  PROVE  CountInv'
<1>1. InARun'
  BY DEF CountInv, InARun
<1>2. ASSUME NEW q \in Process PROVE Counted(q)'
  <2>1. CASE q = p
    BY <2>1
  <2>2. CASE q # p
    BY <2>2 DEF CountInv, Counted
  <2> QED
    BY <2>1, <2>2
<1> QED
  BY <1>1, <1>2 DEF CountInv

LEMMA StepCount ==
  ASSUME CountInv, [Next]_vars
  PROVE  CountInv'
<1> USE LockAssumption
<1>1. Content \in Process \cup {NoPid, Unknown}
  BY DEF CountInv, TypeOK, Content, Run
<1>2. ASSUME NEW p \in Process, StartRun(p) PROVE CountInv'
  <2>1. <<p, run[p] + 1>> \in Run
    BY <1>2 DEF StartRun, CountInv, TypeOK, Run
  <2>2. TypeOK'
    BY <1>2, <2>1 DEF StartRun, CountInv, TypeOK, Goes
  <2> QED
    BY <1>2, <2>2, CountsOfOne DEF StartRun, CountInv, TypeOK, Counted, Goes
<1>3. ASSUME NEW p \in Process, CreateFile(p) PROVE CountInv'
  <2>1. Current(p) \in Run
    BY <1>3 DEF CreateFile, CountInv, InARun, Current, Run
  <2>2. TypeOK'
    BY <1>3, <2>1 DEF CreateFile, Creates, CountInv, TypeOK, Goes, Waiting
  <2> QED
    BY <1>3, <2>2, CountsOfOne DEF CreateFile, CountInv, TypeOK, InARun, Counted, Goes, Waiting
<1>4. ASSUME NEW p \in Process, FileExists(p) PROVE CountInv'
  <2>1. TypeOK'
    BY <1>4 DEF FileExists, CountInv, TypeOK, Goes, Waiting
  <2> QED
    BY <1>4, <2>1, CountsOfOne DEF FileExists, CountInv, TypeOK, InARun, Counted, Goes, Waiting
<1>5. ASSUME NEW p \in Process, WritePid(p) PROVE CountInv'
  <2>1. TypeOK'
    BY <1>5 DEF WritePid, CountInv, TypeOK, Goes, Waiting
  <2> QED
    BY <1>5, <2>1, CountsOfOne DEF WritePid, CountInv, TypeOK, InARun, Counted, Goes, Waiting
<1>6. ASSUME NEW p \in Process, ReadHolder(p) PROVE CountInv'
  <2>1. attempts'[p] \in {0, attempts[p]} /\ (Content # pid[p] => attempts'[p] = 0)
    BY <1>6 DEF ReadHolder, HolderChanged, CountInv, TypeOK
  <2>2. TypeOK'
    BY <1>6, <1>1 DEF ReadHolder, HolderChanged, CountInv, TypeOK, Goes
  <2>3. Counted(p)'
    BY <1>6, <2>1, <2>2 DEF ReadHolder, CountInv, TypeOK, Counted, Goes
  <2>4. \A q \in Process \ {p} : attempts'[q] = attempts[q]
    BY <1>6 DEF ReadHolder, HolderChanged, CountInv, TypeOK
  <2> QED
    BY <1>6, <2>2, <2>3, <2>4, CountsOfOne DEF ReadHolder, CountInv, TypeOK, InARun, Goes
<1>7. ASSUME NEW p \in Process, CheckHolder(p) PROVE CountInv'
  <2>1. TypeOK'
    BY <1>7 DEF CheckHolder, CountInv, TypeOK, Goes, Waiting
  <2> QED
    BY <1>7, <2>1, CountsOfOne DEF CheckHolder, CountInv, TypeOK, InARun, Counted, Goes, Waiting
<1>8. ASSUME NEW p \in Process, RereadHolder(p) PROVE CountInv'
  <2>1. TypeOK'
    BY <1>8, <1>1 DEF RereadHolder, CountInv, TypeOK, Goes
  <2> QED
    BY <1>8, <2>1, CountsOfOne DEF RereadHolder, CountInv, TypeOK, InARun, Counted, Goes
<1>9. ASSUME NEW p \in Process, Retry(p) PROVE CountInv'
  <2>1. TypeOK'
    BY <1>9 DEF Retry, CountInv, TypeOK, Counted, Goes
  <2> QED
    BY <1>9, <2>1, CountsOfOne DEF Retry, CountInv, TypeOK, InARun, Counted, Goes
<1>10. ASSUME NEW p \in Process, Fail(p) \/ Finish(p) \/ Unlink(p) PROVE CountInv'
  <2>1. TypeOK'
    BY <1>10 DEF Fail, Finish, Unlink, CountInv, TypeOK, Goes, Waiting
  <2> QED
    BY <1>10, <2>1, CountsOfOne
    DEF Fail, Finish, Unlink, CountInv, TypeOK, InARun, Counted, Goes, Waiting
<1>11. ASSUME NEW p \in Process, DisconnectUnlocker(p) PROVE CountInv'
  <2>1. TypeOK'
    BY <1>11 DEF DisconnectUnlocker, CountInv, TypeOK, Goes, Waiting
  <2> QED
    BY <1>11, <2>1, CountsOfOne
    DEF DisconnectUnlocker, CountInv, TypeOK, InARun, Counted, Goes, Waiting
<1>12. ASSUME NEW p \in Process, Kill(p) PROVE CountInv'
  <2>1. ASSUME NEW u \in Run
        PROVE  [unlocker[u] EXCEPT !.open = FALSE] \in
                 [phase : {"none", "starting", "ready", "unlink", "done"},
                  ppid : Process \cup {NoPid}, open : BOOLEAN]
    BY DEF CountInv, TypeOK
  <2>2. unlocker' \in [Run -> [phase : {"none", "starting", "ready", "unlink", "done"},
                               ppid : Process \cup {NoPid}, open : BOOLEAN]]
    BY <1>12, <2>1 DEF Kill, CountInv, TypeOK
  <2>3. TypeOK'
    BY <1>12, <2>2 DEF Kill, CountInv, TypeOK, Goes, Waiting
  <2> QED
    BY <1>12, <2>3, CountsOfOne DEF Kill, CountInv, TypeOK, InARun, Counted, Goes, Waiting
<1>13. ASSUME NEW u \in Run, Unlock(u) PROVE CountInv'
  <2>1. u[1] \in Process
    BY DEF Run
  <2>2. TypeOK'
    BY <1>13, <2>1 DEF Unlock, UnlockerStarts, UnlockerReads, UnlockerUnlinks, CountInv, TypeOK,
                       Waiting
  <2> QED
    BY <1>13, <2>2 DEF Unlock, UnlockerStarts, UnlockerReads, UnlockerUnlinks, CountInv, InARun,
                       Counted, Waiting
<1>14. CASE UNCHANGED vars
  BY <1>14 DEF vars, CountInv, TypeOK, InARun, Counted
<1> QED
  BY <1>2, <1>3, <1>4, <1>5, <1>6, <1>7, <1>8, <1>9, <1>10, <1>11, <1>12, <1>13, <1>14
  DEF Next, Proceed

LEMMA InvariantCount == Spec => []CountInv
<1>1. Init => CountInv
  BY InitCount
<1>2. CountInv /\ [Next]_vars => CountInv'
  BY StepCount
<1> QED
  BY <1>1, <1>2, PTL DEF Spec

\* For any numbers of processes, runs, attempts and kills the variables keep their types.
THEOREM TypeCorrect == Spec => []TypeOK
<1>1. CountInv => TypeOK
  BY DEF CountInv
<1> QED
  BY <1>1, InvariantCount, PTL

\* However often the lock changes hands, and whatever RetryAttempts is, a timeout is
\* reported only after that many reads of one holder (async_locker.ts starts the count
\* again when the holder changes).
THEOREM TimeoutCorrect == Spec => []TimeoutForOneHolder
<1>1. CountInv => TimeoutForOneHolder
  BY LockAssumption DEF CountInv, TypeOK, Counted, TimeoutForOneHolder
<1> QED
  BY <1>1, InvariantCount, PTL
=============================================================================
