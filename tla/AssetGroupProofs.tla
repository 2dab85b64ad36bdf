--------------------------- MODULE AssetGroupProofs ---------------------------
(***************************************************************************)
(* Proofs about AssetGroup, for any URLs, requests, settings and limit on   *)
(* redirects: each URL is fetched by one thread at a time, what is cached   *)
(* has its hash, and an installation that succeeds has cached what it must. *)
(***************************************************************************)
EXTENDS AssetGroup, TLAPS

InstallerPc == {"match", "join", "resume", "lookup", "status", "copy", "copyMeta"} \cup Owning

\* A thread that is doing something has a URL.  Only clients read the age of what is
\* cached, only the installation matches and looks up in the older version ...
Occupied ==
  \A t \in Thread :
    /\ th[t].pc # "idle" => th[t].url \in Url
    /\ th[t].pc = "age" => t \in Client /\ th[t].url \in Pattern
    /\ th[t].pc \in {"lookup", "status", "copy", "copyMeta"} => t = Installer

\* ... which there is in an update only; and the older version forgets nothing.
OlderVersion ==
  /\ oldAtStart \subseteq old /\ \A u \in oldAtStart : u \in Listed \/ u \in oldMeta
  /\ ~setting.update => old = {}
  /\ th[Installer].pc \in {"lookup", "status", "copy", "copyMeta"} => setting.update

\* TypeOK without the sets that only grow out of others.
GroupOK ==
  /\ Cached \subseteq Url /\ \A u \in Cached : cache[u] \in [fits : BOOLEAN, direct : BOOLEAN]
  /\ DOMAIN meta \subseteq Pattern /\ \A u \in DOMAIN meta : meta[u] \in {"young", "old"}
  /\ inFlight \in [Url -> Thread \cup {NoThread}]
  /\ th \in [Thread -> ThreadState]
  /\ install \in {"off", "listed", "carry", "done", "failed"}
  /\ rest \subseteq Url /\ queue \subseteq Pattern
  /\ old \subseteq Url /\ joined \subseteq Url
  /\ restarts \in 0..1

TypeInv == GroupOK /\ setting \in Setting /\ Occupied /\ OlderVersion

\* Both directions of OneOwner, thread by thread and entry by entry.
OwnerInv ==
  /\ \A t \in Thread : th[t].pc \in Owning => inFlight[th[t].url] = t
  /\ \A u \in Url : inFlight[u] # NoThread =>
       th[inFlight[u]].pc \in Owning /\ th[inFlight[u]].url = u

\* A response in hand was checked against the hash of its URL, and a copy is made only
\* if the hash has not changed.
HashInv ==
  /\ \A t \in Thread : th[t].pc = "put" /\ th[t].url \in Listed /\ th[t].at = th[t].url
                         => th[t].fits
  /\ th[Installer].pc = "copy" /\ th[Installer].url \in Listed
       => th[Installer].url \in setting.same

\* The part of what is required that the installation deals with before "carry".
FirstRequired == Required \cap Listed

\* Where a URL stands that the installation has dealt with, or has not.
Settled(u) == u \in Cached \cup joined
Outstanding(u) == u \in rest \/ (th[Installer].pc # "idle" /\ th[Installer].url = u)

InstallDealt == install = "done" => \A u \in Required : Settled(u)

InstallInv ==
  /\ th[Installer].pc # "idle" => install \in {"listed", "carry"} /\ th[Installer].pc \in InstallerPc
  /\ th[Installer].pc \in {"join", "resume"} => th[Installer].url \in joined
  /\ th[Installer].pc \in {"copyMeta", "meta"} => th[Installer].url \in Cached
  /\ th[Installer].pc = "status" => setting.mode = "lazy" /\ setting.updateMode = "prefetch"
  /\ install = "listed" => \A u \in FirstRequired : Outstanding(u) \/ Settled(u)
  /\ install = "carry" => /\ setting.mode = "prefetch"
                          /\ \A u \in Required : Outstanding(u) \/ Settled(u)
  /\ InstallDealt

-------------------------------------------------------------------------------
(* Types.                                                                       *)

LEMMA InitTypes == Init => TypeInv
BY AssetAssumption
   DEF Init, TypeInv, GroupOK, Occupied, OlderVersion, ThreadState, Idle, Doing, Owning, Caching,
       Thread, Cached, Url

LEMMA Started ==
  /\ Idle \in ThreadState /\ Idle.pc = "idle"
  /\ \A u \in Url : /\ Fetching(u) \in ThreadState /\ Fetching(u).pc = "fetch"
                    /\ Fetching(u).url = u /\ Fetching(u).at = u
  /\ \A u \in Url, pc \in {"match", "join", "resume"} :
       At(pc, u) \in ThreadState /\ At(pc, u).pc = pc /\ At(pc, u).url = u
<1>1. Idle \in ThreadState /\ Idle.pc = "idle"
  BY AssetAssumption DEF Idle, Doing, ThreadState
<1>2. ASSUME NEW u \in Url
      PROVE  /\ Fetching(u) \in ThreadState /\ Fetching(u).pc = "fetch"
             /\ Fetching(u).url = u /\ Fetching(u).at = u
  <2>1. RedirectLimit \in 0 .. RedirectLimit /\ "fetch" \in Owning
    BY AssetAssumption DEF Owning
  <2>2. Fetching(u) = [pc |-> "fetch", url |-> u, at |-> u, limit |-> RedirectLimit, fits |-> TRUE,
                       got |-> "ok"]
    BY DEF Fetching, Doing
  <2> QED
    BY <2>1, <2>2 DEF ThreadState
<1>3. \A u \in Url, pc \in {"match", "join", "resume"} :
        At(pc, u) \in ThreadState /\ At(pc, u).pc = pc /\ At(pc, u).url = u
  BY AssetAssumption DEF At, Doing, ThreadState
<1> QED
  BY <1>1, <1>2, <1>3

\* Telling the others changes nothing but that they resume.
LEMMA ToldOthers ==
  ASSUME TypeInv, NEW t \in Thread, NEW how \in {"ok", "notOk", "error"}
  PROVE  /\ Told(t, how) \in [Thread -> ThreadState]
         /\ \A x \in Thread :
              \/ Told(t, how)[x] = th[x]
              \/ /\ th[x].pc = "join" /\ inFlight[th[x].url] = t
                 /\ Told(t, how)[x].pc = "resume" /\ Told(t, how)[x].url = th[x].url
<1> DEFINE resumed(u) == [At("resume", u) EXCEPT !.got = how]
           after(x) == IF th[x].pc = "join" /\ inFlight[th[x].url] = t
                       THEN resumed(th[x].url) ELSE th[x]
<1>1. \A x \in Thread : th[x] \in ThreadState /\ (th[x].pc = "join" => th[x].url \in Url)
  BY DEF TypeInv, GroupOK, Occupied
<1>2. \A r \in ThreadState : LET q == [r EXCEPT !.got = how]
                             IN  q \in ThreadState /\ q.pc = r.pc /\ q.url = r.url
  BY DEF ThreadState
<1>3. \A u \in Url : resumed(u) \in ThreadState /\ resumed(u).pc = "resume" /\ resumed(u).url = u
  BY <1>2, Started
<1>4. Told(t, how) = [x \in Thread |-> after(x)]
  BY DEF Told
<1> HIDE DEF resumed
<1>5. \A x \in Thread : after(x) \in ThreadState
  BY <1>1, <1>3
<1> QED
  BY <1>1, <1>3, <1>4, <1>5

\* What happens to the threads when one fails, ...
LEMMA FailsThreads ==
  ASSUME TypeInv, NEW t \in Thread, NEW how \in {"notOk", "error"}, Fails(t, how),
         th[t].pc \in Owning
  PROVE  /\ th' \in [Thread -> ThreadState] /\ th'[t] = Idle
         /\ \A x \in Thread \ {t} :
              \/ th'[x] = th[x]
              \/ /\ th[x].pc = "join" /\ th'[x].pc = "resume" /\ th'[x].url = th[x].url
         /\ inFlight' \in [Url -> Thread \cup {NoThread}]
         /\ th[t].url \in Url /\ inFlight' = [inFlight EXCEPT ![th[t].url] = NoThread]
         /\ IF t = Installer THEN install' = "failed" /\ rest' = {} ELSE UNCHANGED <<install, rest>>
         /\ UNCHANGED <<cache, meta, queue, old, oldMeta, restarts, joined, oldAtStart>>
<1>1. th[t].url \in Url
  BY DEF TypeInv, Occupied, Owning, Caching
<1>2. inFlight' = [inFlight EXCEPT ![th[t].url] = NoThread]
      /\ inFlight' \in [Url -> Thread \cup {NoThread}]
  BY <1>1 DEF Fails, TypeInv, GroupOK
<1>3. /\ th' = [Told(t, how) EXCEPT ![t] = Idle]
      /\ IF t = Installer THEN install' = "failed" /\ rest' = {} ELSE UNCHANGED <<install, rest>>
      /\ UNCHANGED <<cache, meta, queue, old, oldMeta, restarts, joined, oldAtStart>>
  BY DEF Fails, Continues, Storage, World, Older
<1>4. /\ Told(t, how) \in [Thread -> ThreadState]
      /\ \A x \in Thread :
              \/ Told(t, how)[x] = th[x]
              \/ /\ th[x].pc = "join"
                 /\ Told(t, how)[x].pc = "resume" /\ Told(t, how)[x].url = th[x].url
  BY ToldOthers
<1>5. th' \in [Thread -> ThreadState] /\ th'[t] = Idle /\ \A x \in Thread \ {t} : th'[x] = Told(t, how)[x]
  BY <1>3, <1>4, Started
<1> QED
  BY <1>1, <1>2, <1>3, <1>4, <1>5

\* ... when one asks for a URL, ...
LEMMA AsksThreads ==
  ASSUME TypeInv, NEW t \in Thread, NEW u \in Url, FetchAndCacheOnce(t, u)
  PROVE  /\ th' \in [Thread -> ThreadState] /\ \A x \in Thread \ {t} : th'[x] = th[x]
         /\ th'[t].url = u
         /\ inFlight' \in [Url -> Thread \cup {NoThread}] /\ joined' \subseteq Url
         /\ \/ /\ th'[t].pc = "fetch" /\ inFlight[u] = NoThread
               /\ inFlight' = [inFlight EXCEPT ![u] = t] /\ UNCHANGED joined
            \/ /\ th'[t].pc \in {"join", "resume"} /\ inFlight[u] # NoThread /\ UNCHANGED inFlight
               /\ joined' = IF t = Installer THEN joined \cup {u} ELSE joined
<1>1. CASE /\ inFlight[u] = NoThread /\ inFlight' = [inFlight EXCEPT ![u] = t]
           /\ th' = [th EXCEPT ![t] = Fetching(u)] /\ UNCHANGED joined
  BY <1>1, Started DEF TypeInv, GroupOK
<1>2. CASE /\ inFlight[u] # NoThread
           /\ th' = [th EXCEPT ![t] = At(IF th[inFlight[u]].pc \in Caching THEN "resume" ELSE "join", u)]
           /\ joined' = (IF t = Installer THEN joined \cup {u} ELSE joined)
           /\ UNCHANGED inFlight
  <2>1. \E pc \in {"join", "resume"} : th' = [th EXCEPT ![t] = At(pc, u)]
    BY <1>2
  <2> QED
    BY <1>2, <2>1, Started DEF TypeInv, GroupOK
<1> QED
  BY <1>1, <1>2 DEF FetchAndCacheOnce

\* ... and when the answer of a fetch, if it is taken or followed, keeps one at work.
KeepsAtWork(t) ==
  /\ th' \in [Thread -> ThreadState]
  /\ th'[t].url = th[t].url /\ th'[t].pc \in {"fetch", "bust", "put"}
  /\ th'[t].pc = "put" /\ th[t].url \in Listed /\ th'[t].at = th[t].url => th'[t].fits
  /\ \A x \in Thread \ {t} :
       \/ th'[x] = th[x]
       \/ /\ th[x].pc = "join" /\ th'[x].pc = "resume" /\ th'[x].url = th[x].url
  /\ UNCHANGED <<cache, meta, inFlight, install, rest, queue, old, oldMeta, restarts, joined, lost,
               oldAtStart>>

LEMMA TakesThreads ==
  ASSUME TypeInv, NEW t \in Thread, NEW a \in Answers(th[t]), Passes(th[t], a), Takes(t, a)
  PROVE  Fails(t, "notOk") \/ Fails(t, "error") \/ KeepsAtWork(t)
<1>1. CASE Follows(t, a) /\ ~Fails(t, "error") /\ a.to # NoUrl
  <2>1. th[t].limit > 0 /\ th[t] \in ThreadState /\ a.to \in Url
    BY <1>1, AssetAssumption DEF Follows, TypeInv, GroupOK, Answers, Response
  <2> DEFINE next == [th[t] EXCEPT !.pc = "fetch", !.at = a.to, !.limit = th[t].limit - 1]
  <2>2. next \in ThreadState /\ next.pc = "fetch" /\ next.url = th[t].url
    <3>1. th[t].limit - 1 \in 0 .. RedirectLimit /\ "fetch" \in Owning
      BY <2>1, AssetAssumption DEF ThreadState, Owning
    <3> QED
      BY <2>1, <3>1 DEF ThreadState
  <2>3. /\ th' = [th EXCEPT ![t] = next]
        /\ UNCHANGED <<cache, meta, inFlight, install, rest, queue, old, oldMeta, restarts, joined, lost,
                       oldAtStart>>
    BY <1>1 DEF Follows, Storage, Plan, World, Older
  <2> HIDE DEF next
  <2> QED
    BY <2>2, <2>3 DEF KeepsAtWork, TypeInv, GroupOK
<1>2. CASE Fetched(t, a) /\ ~Fails(t, "notOk")
  <2>1. th[t] \in ThreadState /\ a.fits \in BOOLEAN
    BY <1>2 DEF TypeInv, GroupOK, Answers, Response
  <2> DEFINE next == [th[t] EXCEPT !.pc = "put", !.fits = a.fits]
  <2>2. /\ next \in ThreadState /\ next.pc = "put" /\ next.url = th[t].url
        /\ next.at = th[t].at /\ next.fits = a.fits
    <3>1. "put" \in Owning
      BY DEF Owning, Caching
    <3> QED
      BY <2>1, <3>1 DEF ThreadState
  <2>3. /\ th' = [Told(t, "ok") EXCEPT ![t] = next]
        /\ UNCHANGED <<cache, meta, inFlight, install, rest, queue, old, oldMeta, restarts, joined, lost,
                       oldAtStart>>
    BY <1>2 DEF Fetched, Storage, Plan, World, Older
  <2>4. th[t].url \in Listed /\ th[t].at = th[t].url => a.fits
    BY DEF Answers, Passes
  <2> HIDE DEF next
  <2>5. /\ Told(t, "ok") \in [Thread -> ThreadState]
        /\ \A x \in Thread : \/ Told(t, "ok")[x] = th[x]
                             \/ /\ th[x].pc = "join" /\ Told(t, "ok")[x].pc = "resume"
                                /\ Told(t, "ok")[x].url = th[x].url
    BY ToldOthers
  <2>6. th' \in [Thread -> ThreadState] /\ th'[t] = next
        /\ \A x \in Thread \ {t} : th'[x] = Told(t, "ok")[x]
    BY <2>2, <2>3, <2>5
  <2> QED
    BY <2>2, <2>3, <2>4, <2>5, <2>6 DEF KeepsAtWork
<1> QED
  BY <1>1, <1>2 DEF Takes, Follows, Fetched

LEMMA AnswersThreads ==
  ASSUME TypeInv, NEW t \in Thread, FetchAnswers(t) \/ BustAnswers(t)
  PROVE  /\ th[t].pc \in Owning
         /\ Fails(t, "notOk") \/ Fails(t, "error") \/ KeepsAtWork(t)
<1>1. th[t].pc \in Owning
  BY DEF FetchAnswers, BustAnswers, Owning
<1>2. ASSUME NEW a \in Answers(th[t]), Takes(t, a), ~(a.ok /\ ~Passes(th[t], a))
      PROVE  Fails(t, "notOk") \/ Fails(t, "error") \/ KeepsAtWork(t)
  <2>1. a.ok \in BOOLEAN /\ (~a.ok => a.own)
    BY <1>2 DEF Answers, Response
  <2>2. Passes(th[t], a)
    BY <1>2, <2>1 DEF Passes
  <2> QED
    BY <1>2, <2>2, TakesThreads
<1>3. ASSUME th' = [th EXCEPT ![t].pc = "bust"],
             UNCHANGED <<Storage, inFlight, Plan, queue, World, joined>>
      PROVE  KeepsAtWork(t)
  <2>1. \A r \in ThreadState : LET q == [r EXCEPT !.pc = "bust"]
                               IN  q \in ThreadState /\ q.pc = "bust" /\ q.url = r.url
    BY DEF ThreadState, Owning
  <2>2. th' = [th EXCEPT ![t] = [th[t] EXCEPT !.pc = "bust"]]
    BY <1>3
  <2> QED
    BY <1>3, <2>1, <2>2 DEF KeepsAtWork, TypeInv, GroupOK, Storage, Plan, World, Older
<1>4. CASE FetchAnswers(t)
  BY <1>1, <1>2, <1>3, <1>4 DEF FetchAnswers
<1>5. CASE BustAnswers(t)
  BY <1>1, <1>2, <1>5 DEF BustAnswers
<1> QED
  BY <1>4, <1>5

\* A thread of which only the place in the code changes.
LEMMA GoesThreads ==
  ASSUME TypeInv, NEW t \in Thread, NEW pc \in {"age", "lookup", "status", "copy", "copyMeta", "meta"},
         th' = [th EXCEPT ![t].pc = pc]
  PROVE  /\ th' \in [Thread -> ThreadState] /\ th'[t].pc = pc /\ th'[t].url = th[t].url
         /\ \A x \in Thread \ {t} : th'[x] = th[x]
<1>1. \A r \in ThreadState : LET q == [r EXCEPT !.pc = pc]
                             IN  q \in ThreadState /\ q.pc = pc /\ q.url = r.url
  BY DEF ThreadState, Owning, Caching
<1> DEFINE next == [th[t] EXCEPT !.pc = pc]
<1>2. th' = [th EXCEPT ![t] = next]
  OBVIOUS
<1>3. th \in [Thread -> ThreadState] /\ next \in ThreadState /\ next.pc = pc /\ next.url = th[t].url
  BY <1>1 DEF TypeInv, GroupOK
<1> HIDE DEF next
<1> QED
  BY <1>2, <1>3

\* How the threads may change for TypeInv to be kept.
ThreadsKept ==
  /\ th' \in [Thread -> ThreadState]
  /\ \A x \in Thread :
       \/ th'[x] = th[x] \/ th'[x].pc = "idle"
       \/ /\ th'[x].url \in Url /\ th'[x].pc # "age"
          /\ th'[x].pc \in {"lookup", "status", "copy", "copyMeta"} => x = Installer /\ setting.update
  /\ inFlight' \in [Url -> Thread \cup {NoThread}]
  /\ joined' \subseteq Url

LEMMA OthersKept ==
  ASSUME TypeInv, ThreadsKept, UNCHANGED <<setting, restarts, old, oldMeta>>,
         oldAtStart' \in {oldAtStart, {u \in old : u \in Listed \/ u \in oldMeta}},
         (Cached \subseteq Url)', (\A u \in Cached : cache[u] \in [fits : BOOLEAN, direct : BOOLEAN])',
         (DOMAIN meta \subseteq Pattern /\ \A u \in DOMAIN meta : meta[u] \in {"young", "old"})',
         (install \in {"off", "listed", "carry", "done", "failed"} /\ rest \subseteq Url)',
         queue' \subseteq Pattern
  PROVE  TypeInv'
<1>1. GroupOK'
  BY DEF TypeInv, GroupOK, ThreadsKept
<1>2. Occupied'
  BY DEF TypeInv, Occupied, ThreadsKept
<1>3. OlderVersion'
  BY AssetAssumption DEF TypeInv, OlderVersion, ThreadsKept, Thread
<1> QED
  BY <1>1, <1>2, <1>3 DEF TypeInv

\* The actions of one thread, which may be the installation.
LEMMA ThreadTypes ==
  ASSUME TypeInv, NEW t \in Thread, ThreadStep(t), UNCHANGED setting
  PROVE  TypeInv'
<1> USE AssetAssumption DEF Storage, Plan, World, Older
<1>1. /\ GroupOK /\ th \in [Thread -> ThreadState] /\ joined \subseteq Url
      /\ inFlight \in [Url -> Thread \cup {NoThread}]
  BY DEF TypeInv, GroupOK
<1>2. ASSUME NEW how \in {"notOk", "error"}, Fails(t, how), th[t].pc \in Owning
      PROVE  TypeInv'
  <2>1. ThreadsKept
    BY <1>1, <1>2, FailsThreads, Started DEF ThreadsKept, TypeInv, Occupied
  <2> QED
    BY <1>1, <1>2, <2>1, FailsThreads, OthersKept DEF GroupOK, Cached
<1>3. CASE FetchAnswers(t) \/ BustAnswers(t)
  <2>1. CASE KeepsAtWork(t)
    <3>1. ThreadsKept
      BY <1>1, <1>3, <2>1, AnswersThreads DEF KeepsAtWork, ThreadsKept, TypeInv, Occupied, Owning, Caching
    <3> QED
      BY <1>1, <2>1, <3>1, OthersKept DEF KeepsAtWork, GroupOK, Cached
  <2> QED
    BY <1>2, <1>3, <2>1, AnswersThreads
<1>4. CASE Puts(t)
  <2>1. ThreadsKept
    BY <1>1, <1>4, GoesThreads DEF Puts, ThreadsKept, TypeInv, Occupied
  <2>2. th[t].url \in Url /\ th[t].fits \in BOOLEAN
    BY <1>1, <1>4 DEF Puts, TypeInv, Occupied, ThreadState
  <2> QED
    BY <1>1, <1>4, <2>1, <2>2, OthersKept DEF Puts, With, GroupOK, Cached
<1>5. CASE Stamps(t)
  <2>1. th[t].url \in Url
    BY <1>5 DEF Stamps, TypeInv, Occupied
  <2>2. ThreadsKept
    BY <1>1, <1>5, <2>1, Started DEF Stamps, ThreadsKept
  <2> QED
    BY <1>1, <1>5, <2>1, <2>2, OthersKept DEF Stamps, With, GroupOK, Cached
<1>6. CASE CachingFails(t)
  BY <1>2, <1>6 DEF CachingFails, Owning
<1>7. CASE Resumes(t)
  <2>1. ThreadsKept
    BY <1>1, <1>7, Started DEF Resumes, ThreadsKept
  <2> QED
    BY <1>1, <1>7, <2>1, OthersKept DEF Resumes, Continues, GroupOK, Cached
<1>8. CASE ClientMatches(t)
  <2>1. th[t].url \in Url
    BY <1>8 DEF ClientMatches, TypeInv, Occupied
  <2>2. CASE FetchAndCacheOnce(t, th[t].url)
    <3>1. ThreadsKept
      BY <1>1, <2>1, <2>2, AsksThreads DEF ThreadsKept
    <3> QED
      BY <1>1, <1>8, <3>1, OthersKept DEF ClientMatches, GroupOK, Cached
  <2>3. CASE th' = [th EXCEPT ![t] = Idle] /\ UNCHANGED <<inFlight, joined>>
    <3>1. ThreadsKept
      BY <1>1, <2>3, Started DEF ThreadsKept
    <3> QED
      BY <1>1, <1>8, <3>1, OthersKept DEF ClientMatches, GroupOK, Cached
  <2>4. CASE /\ th' = [th EXCEPT ![t].pc = "age"] /\ th[t].url \notin Listed
             /\ UNCHANGED <<inFlight, joined>>
    <3>1. th' \in [Thread -> ThreadState] /\ th'[t].pc = "age" /\ th'[t].url = th[t].url
          /\ \A x \in Thread \ {t} : th'[x] = th[x]
      BY <2>4, GoesThreads
    <3>2. t \in Client /\ th[t].url \in Pattern
      BY <1>8, <2>1, <2>4 DEF ClientMatches, Url
    <3>3. UNCHANGED <<cache, meta, inFlight, install, rest, oldAtStart, queue, old, oldMeta, restarts, joined, setting>>
      BY <1>8, <2>4 DEF ClientMatches
    <3>4. GroupOK'
      BY <1>1, <3>1, <3>3 DEF GroupOK, Cached
    <3>5. Occupied'
      BY <3>1, <3>2, <2>1 DEF TypeInv, Occupied
    <3> QED
      BY <3>1, <3>2, <3>3, <3>4, <3>5 DEF TypeInv, OlderVersion, Thread
  <2> QED
    BY <1>8, <2>2, <2>3, <2>4 DEF ClientMatches
<1>9. CASE ClientReadsAge(t)
  <2>1. ThreadsKept
    BY <1>1, <1>9, Started DEF ClientReadsAge, ThreadsKept
  <2>2. th[t].url \in Pattern
    BY <1>9 DEF ClientReadsAge, TypeInv, Occupied
  <2> QED
    BY <1>1, <1>9, <2>1, <2>2, OthersKept DEF ClientReadsAge, GroupOK, Cached
<1> QED
  BY <1>3, <1>4, <1>5, <1>6, <1>7, <1>8, <1>9 DEF ThreadStep

LEMMA GoesInstaller ==
  ASSUME TypeInv, NEW pc \in {"lookup", "status", "copy", "copyMeta"}, Goes(pc)
  PROVE  /\ th' \in [Thread -> ThreadState] /\ th'[Installer].pc = pc
         /\ th'[Installer].url = th[Installer].url
         /\ \A x \in Thread \ {Installer} : th'[x] = th[x]
<1>1. Installer \in Thread /\ th' = [th EXCEPT ![Installer].pc = pc]
  BY DEF Thread, Goes
<1> QED
  BY <1>1, GoesThreads

\* The installation.
LEMMA InstallTypes ==
  ASSUME TypeInv, InstallStep, UNCHANGED setting
  PROVE  TypeInv'
<1> USE AssetAssumption DEF Storage, Plan, World, Older, Unstored
<1>1. /\ GroupOK /\ th \in [Thread -> ThreadState] /\ joined \subseteq Url
      /\ inFlight \in [Url -> Thread \cup {NoThread}]
      /\ Installer \in Thread /\ (th[Installer].pc # "idle" => th[Installer].url \in Url)
  BY DEF TypeInv, GroupOK, Occupied, Thread
<1>2. CASE InstallBegins
  <2>1. ThreadsKept
    BY <1>1, <1>2 DEF InstallBegins, ThreadsKept
  <2> QED
    BY <1>1, <1>2, <2>1, OthersKept DEF InstallBegins, GroupOK, Cached, Url
<1>3. CASE VisitedAll
  <2>1. ThreadsKept
    BY <1>1, <1>3 DEF VisitedAll, ThreadsKept
  <2> QED
    BY <1>1, <1>3, <2>1, OthersKept DEF VisitedAll, GroupOK, Cached, Url
<1>4. ASSUME NEW u \in Url, Visit(u) PROVE TypeInv'
  <2>1. ThreadsKept
    BY <1>1, <1>4, Started DEF Visit, ThreadsKept
  <2> QED
    BY <1>1, <1>4, <2>1, OthersKept DEF Visit, GroupOK, Cached
\* The steps that look for a URL end the visit, go to another place or ask for it.
<1> DEFINE u == th[Installer].url
           Looked == \/ th' = [th EXCEPT ![Installer] = Idle] /\ UNCHANGED <<inFlight, joined>>
                     \/ /\ setting.update /\ UNCHANGED <<inFlight, joined>>
                        /\ Goes("lookup") \/ Goes("copy") \/ Goes("status")
                     \/ FetchAndCacheOnce(Installer, u)
<1>5. ASSUME u \in Url, Looked PROVE ThreadsKept
  <2>1. CASE th' = [th EXCEPT ![Installer] = Idle] /\ UNCHANGED <<inFlight, joined>>
    BY <1>1, <2>1, Started DEF ThreadsKept
  <2>2. CASE /\ setting.update /\ UNCHANGED <<inFlight, joined>>
             /\ Goes("lookup") \/ Goes("copy") \/ Goes("status")
    <3>1. PICK pc \in {"lookup", "status", "copy"} : Goes(pc)
      BY <2>2
    <3> QED
      BY <1>1, <1>5, <2>2, <3>1, GoesInstaller DEF ThreadsKept
  <2>3. CASE FetchAndCacheOnce(Installer, u)
    BY <1>1, <1>5, <2>3, AsksThreads DEF ThreadsKept
  <2> QED
    BY <1>5, <2>1, <2>2, <2>3
<1>6. ASSUME u \in Url, Looked, UNCHANGED <<Storage, Plan, queue, World>> PROVE TypeInv'
  BY <1>1, <1>5, <1>6, OthersKept DEF GroupOK, Cached
<1>7. CASE InstallerMatches
  <2>1. u \in Url /\ Looked
    BY <1>1, <1>7 DEF InstallerMatches
  <2> QED
    BY <1>6, <1>7, <2>1 DEF InstallerMatches
<1>8. CASE Looks
  <2>1. u \in Url /\ setting.update
    BY <1>1, <1>8 DEF Looks, TypeInv, OlderVersion
  <2>2. Looked
    BY <1>8, <2>1 DEF Looks
  <2> QED
    BY <1>6, <1>8, <2>1, <2>2 DEF Looks
<1>9. CASE ReadsStatus
  <2>1. u \in Url /\ Looked
    BY <1>1, <1>9 DEF ReadsStatus
  <2> QED
    BY <1>6, <1>9, <2>1 DEF ReadsStatus
<1>10. CASE Copies
  <2>1. u \in Url /\ setting.update
    BY <1>1, <1>10 DEF Copies, TypeInv, OlderVersion
  <2>2. Goes("copyMeta")
    BY <1>10 DEF Copies
  <2>3. ThreadsKept
    BY <1>1, <1>10, <2>1, <2>2, GoesInstaller DEF Copies, ThreadsKept
  <2> QED
    BY <1>1, <1>10, <2>1, <2>3, OthersKept DEF Copies, With, GroupOK, Cached
<1>11. CASE CopiesMeta
  <2>1. ThreadsKept
    BY <1>1, <1>11, Started DEF CopiesMeta, ThreadsKept
  <2> QED
    BY <1>1, <1>11, <2>1, OthersKept DEF CopiesMeta, With, GroupOK, Cached
<1>12. CASE CopyFails
  <2>1. ThreadsKept
    BY <1>1, <1>12, Started DEF CopyFails, ThreadsKept
  <2> QED
    BY <1>1, <1>12, <2>1, OthersKept DEF CopyFails, GroupOK, Cached
<1> QED
  BY <1>2, <1>3, <1>4, <1>7, <1>8, <1>9, <1>10, <1>11, <1>12 DEF InstallStep

LEMMA TypesPreserved == TypeInv /\ [Next]_<<vars, setting>> => TypeInv'
<1> SUFFICES ASSUME TypeInv, [Next]_<<vars, setting>> PROVE TypeInv'
  OBVIOUS
<1> USE AssetAssumption DEF Storage, Plan, World, Older
<1>1. /\ GroupOK /\ th \in [Thread -> ThreadState] /\ joined \subseteq Url
      /\ inFlight \in [Url -> Thread \cup {NoThread}]
  BY DEF TypeInv, GroupOK
<1>2. ASSUME NEW c \in Client, NEW u \in Url, Request(c, u), UNCHANGED setting PROVE TypeInv'
  <2>1. ThreadsKept
    BY <1>1, <1>2, Started DEF Request, ThreadsKept, Thread
  <2> QED
    BY <1>1, <1>2, <2>1, OthersKept DEF Request, GroupOK, Cached
<1>3. ASSUME NEW u \in Url, TaskRuns(u), UNCHANGED setting PROVE TypeInv'
  <2>1. ThreadsKept
    BY <1>1, <1>3, AsksThreads DEF TaskRuns, ThreadsKept, Thread
  <2> QED
    BY <1>1, <1>3, <2>1, OthersKept DEF TaskRuns, GroupOK, Cached
<1>4. ASSUME NEW u \in Url, OldCaches(u) \/ OldStamps(u), UNCHANGED setting PROVE TypeInv'
  <2>1. GroupOK'
    BY <1>1, <1>4 DEF OldCaches, OldStamps, GroupOK, Cached
  <2>2. /\ old \subseteq old' /\ oldMeta \subseteq oldMeta' /\ setting.update
        /\ UNCHANGED <<th, oldAtStart>>
    BY <1>4 DEF OldCaches, OldStamps
  <2> QED
    BY <1>4, <2>1, <2>2 DEF TypeInv, Occupied, OlderVersion
<1>5. ASSUME NEW u \in Url, GrowsOld(u), UNCHANGED setting PROVE TypeInv'
  <2>1. ThreadsKept
    BY <1>1, <1>5 DEF GrowsOld, ThreadsKept
  <2> QED
    BY <1>1, <1>5, <2>1, OthersKept DEF GrowsOld, GroupOK, Cached
<1>6. CASE Restart /\ UNCHANGED setting
  <2>1. th' \in [Thread -> ThreadState] /\ \A x \in Thread : th'[x].pc = "idle"
    BY <1>6, Started DEF Restart
  <2>2. restarts' \in 0 .. 1
    BY <1>1, <1>6 DEF Restart, TypeInv, GroupOK
  <2>3. GroupOK'
    BY <1>1, <1>6, <2>1, <2>2 DEF Restart, GroupOK, Cached
  <2> QED
    BY <1>6, <2>1, <2>3 DEF Restart, TypeInv, Occupied, OlderVersion, Thread
<1>7. CASE UNCHANGED <<vars, setting>>
  <2>1. ThreadsKept
    BY <1>1, <1>7 DEF vars, ThreadsKept
  <2> QED
    BY <1>1, <1>7, <2>1, OthersKept DEF vars, GroupOK, Cached
<1> QED
  BY <1>2, <1>3, <1>4, <1>5, <1>6, <1>7, ThreadTypes, InstallTypes DEF Next

-------------------------------------------------------------------------------
(* One owner for each URL that is being fetched.                                *)

LEMMA InitOwner == Init => OwnerInv
BY DEF Init, OwnerInv, Idle, Doing, Owning, Caching

\* Most steps leave the entries alone, and those who own one stay at work on it.
LEMMA OwnersStay ==
  ASSUME TypeInv, OwnerInv, UNCHANGED inFlight,
         \A x \in Thread : /\ th'[x].pc \in Owning <=> th[x].pc \in Owning
                           /\ th[x].pc \in Owning => th'[x].url = th[x].url
  PROVE  OwnerInv'
BY DEF OwnerInv, TypeInv, GroupOK

\* Someone who is not at work asks for a URL.
LEMMA OwnerAsks ==
  ASSUME TypeInv, OwnerInv, NEW t \in Thread, NEW u \in Url, FetchAndCacheOnce(t, u),
         th[t].pc \notin Owning
  PROVE  OwnerInv'
<1>1. CASE /\ th'[t].pc = "fetch" /\ inFlight[u] = NoThread
           /\ inFlight' = [inFlight EXCEPT ![u] = t]
  BY <1>1, AsksThreads, AssetAssumption DEF OwnerInv, Owning, TypeInv, GroupOK
<1>2. CASE th'[t].pc \in {"join", "resume"} /\ UNCHANGED inFlight
  BY <1>2, AsksThreads, OwnersStay DEF Owning, Caching
<1> QED
  BY <1>1, <1>2, AsksThreads

\* The owner is done, with or without success, and others may resume.
LEMMA OwnerLeaves ==
  ASSUME TypeInv, OwnerInv, NEW t \in Thread, th[t].pc \in Owning, th[t].url \in Url,
         th'[t].pc = "idle", inFlight' = [inFlight EXCEPT ![th[t].url] = NoThread],
         \A x \in Thread \ {t} : \/ th'[x] = th[x]
                                 \/ th[x].pc = "join" /\ th'[x].pc = "resume"
  PROVE  OwnerInv'
BY AssetAssumption DEF OwnerInv, Owning, Caching, TypeInv, GroupOK, Occupied

LEMMA OwnerPreserved == TypeInv /\ OwnerInv /\ [Next]_<<vars, setting>> => OwnerInv'
<1> SUFFICES ASSUME TypeInv, OwnerInv, [Next]_<<vars, setting>> PROVE OwnerInv'
  OBVIOUS
<1>1. /\ th \in [Thread -> ThreadState] /\ Installer \in Thread /\ Client \subseteq Thread
      /\ Revalidator \in Thread /\ \A x \in Thread : th[x].pc # "idle" => th[x].url \in Url
      /\ Idle.pc = "idle"
  BY Started DEF TypeInv, GroupOK, Thread, Occupied
<1>2. ASSUME NEW t \in Thread, th[t].pc \notin Owning, th'[t].pc \notin Owning, UNCHANGED inFlight,
             \A x \in Thread \ {t} : th'[x] = th[x]
      PROVE  OwnerInv'
  BY <1>2, OwnersStay
<1>3. ASSUME UNCHANGED <<th, inFlight>> PROVE OwnerInv'
  BY <1>3, OwnersStay
<1>4. ASSUME NEW t \in Thread, NEW how \in {"notOk", "error"}, Fails(t, how), th[t].pc \in Owning
      PROVE  OwnerInv'
  BY <1>1, <1>4, FailsThreads, OwnerLeaves
<1>5. ASSUME NEW t \in Thread, ThreadStep(t) PROVE OwnerInv'
  <2>1. CASE FetchAnswers(t) \/ BustAnswers(t)
    <3>1. CASE KeepsAtWork(t)
      BY <2>1, <3>1, AnswersThreads, OwnersStay DEF KeepsAtWork, Owning, Caching
    <3> QED
      BY <1>4, <2>1, <3>1, AnswersThreads
  <2>2. CASE Puts(t)
    <3>1. th[t].pc = "put" /\ UNCHANGED inFlight /\ th' = [th EXCEPT ![t].pc = "meta"]
      BY <2>2 DEF Puts
    <3>2. th'[t].pc = "meta" /\ th'[t].url = th[t].url /\ \A x \in Thread \ {t} : th'[x] = th[x]
      BY <3>1, GoesThreads
    <3> QED
      BY <3>1, <3>2, OwnersStay DEF Owning, Caching
  <2>3. CASE Stamps(t)
    BY <1>1, <2>3, OwnerLeaves DEF Stamps, Owning, Caching
  <2>4. CASE CachingFails(t)
    BY <1>4, <2>4 DEF CachingFails, Owning
  <2>5. CASE Resumes(t)
    BY <1>1, <1>2, <2>5 DEF Resumes, Owning, Caching
  <2>6. CASE ClientMatches(t)
    <3>1. th[t].url \in Url /\ th[t].pc \notin Owning
      BY <1>1, <2>6 DEF ClientMatches, Owning, Caching
    <3>2. CASE FetchAndCacheOnce(t, th[t].url)
      BY <3>1, <3>2, OwnerAsks
    <3>3. CASE th' = [th EXCEPT ![t] = Idle] /\ UNCHANGED inFlight
      BY <1>1, <1>2, <3>1, <3>3 DEF Owning, Caching
    <3>4. CASE th' = [th EXCEPT ![t].pc = "age"] /\ UNCHANGED inFlight
      <4>1. th'[t].pc = "age" /\ \A x \in Thread \ {t} : th'[x] = th[x]
        BY <3>4, GoesThreads
      <4> QED
        BY <1>2, <3>1, <3>4, <4>1 DEF Owning, Caching
    <3> QED
      BY <2>6, <3>2, <3>3, <3>4 DEF ClientMatches
  <2>7. CASE ClientReadsAge(t)
    BY <1>1, <1>2, <2>7 DEF ClientReadsAge, Owning, Caching
  <2> QED
    BY <1>5, <2>1, <2>2, <2>3, <2>4, <2>5, <2>6, <2>7 DEF ThreadStep
<1>6. CASE InstallStep
  <2>1. ASSUME th[Installer].pc \notin Owning, th' = [th EXCEPT ![Installer] = Idle],
               UNCHANGED inFlight
        PROVE  OwnerInv'
    BY <1>1, <1>2, <2>1 DEF Owning, Caching
  <2>2. ASSUME th[Installer].pc \notin Owning, UNCHANGED inFlight,
               NEW pc \in {"lookup", "status", "copy", "copyMeta"}, Goes(pc)
        PROVE  OwnerInv'
    BY <1>1, <1>2, <2>2, GoesInstaller DEF Owning, Caching
  <2>3. CASE InstallBegins \/ VisitedAll
    BY <1>3, <2>3 DEF InstallBegins, VisitedAll, Unstored
  <2>4. ASSUME NEW u \in Url, Visit(u) PROVE OwnerInv'
    BY <1>1, <1>2, <2>4, Started DEF Visit, Unstored, Owning, Caching
  <2>5. CASE InstallerMatches
    BY <1>1, <2>1, <2>2, <2>5, OwnerAsks DEF InstallerMatches, Owning, Caching
  <2>6. CASE Looks
    BY <1>1, <2>1, <2>2, <2>6, OwnerAsks DEF Looks, Owning, Caching
  <2>7. CASE ReadsStatus
    BY <1>1, <2>1, <2>2, <2>7, OwnerAsks DEF ReadsStatus, Owning, Caching
  <2>8. CASE Copies
    BY <2>2, <2>8 DEF Copies, Owning, Caching
  <2>9. CASE CopiesMeta \/ CopyFails
    BY <2>1, <2>9 DEF CopiesMeta, CopyFails, Unstored, Owning, Caching
  <2> QED
    BY <1>6, <2>3, <2>4, <2>5, <2>6, <2>7, <2>8, <2>9 DEF InstallStep
<1>7. ASSUME NEW c \in Client, NEW u \in Url, Request(c, u) PROVE OwnerInv'
  BY <1>1, <1>2, <1>7, Started DEF Request, Owning, Caching
<1>8. ASSUME NEW u \in Url, TaskRuns(u) PROVE OwnerInv'
  BY <1>1, <1>8, OwnerAsks DEF TaskRuns, Owning, Caching
<1>9. ASSUME NEW u \in Url, OldCaches(u) \/ OldStamps(u) \/ GrowsOld(u) PROVE OwnerInv'
  BY <1>3, <1>9 DEF OldCaches, OldStamps, GrowsOld
<1>10. CASE Restart
  BY <1>1, <1>10 DEF Restart, OwnerInv, Owning, Caching
<1>11. CASE UNCHANGED <<vars, setting>>
  BY <1>3, <1>11 DEF vars
<1> QED
  BY <1>5, <1>6, <1>7, <1>8, <1>9, <1>10, <1>11 DEF Next

-------------------------------------------------------------------------------
(* Hashes.                                                                      *)

LEMMA InitHash == Init => HashInv /\ DirectHashesValidated
BY DEF Init, HashInv, DirectHashesValidated, Idle, Doing, Thread, Cached

\* A response comes into hand by KeepsAtWork and a copy by Looks only.
LEMMA HandsKept ==
  ASSUME TypeInv, HashInv, UNCHANGED setting,
         \A x \in Thread : th'[x] = th[x] \/ th'[x].pc \notin {"put", "copy"}
  PROVE  HashInv'
<1>1. ASSUME NEW x \in Thread, (th[x].pc = "put" /\ th[x].url \in Listed /\ th[x].at = th[x].url)'
      PROVE  th'[x].fits
  BY <1>1 DEF HashInv
<1>2. (th[Installer].pc = "copy" /\ th[Installer].url \in Listed => th[Installer].url \in setting.same)'
  BY DEF HashInv, Thread
<1> QED
  BY <1>1, <1>2 DEF HashInv

LEMMA HashPreserved ==
  TypeInv /\ HashInv /\ DirectHashesValidated /\ [Next]_<<vars, setting>>
    => HashInv' /\ DirectHashesValidated'
<1> SUFFICES ASSUME TypeInv, HashInv, DirectHashesValidated, [Next]_<<vars, setting>>
             PROVE  HashInv' /\ DirectHashesValidated'
  OBVIOUS
<1>1. /\ th \in [Thread -> ThreadState] /\ Installer \in Thread /\ Client \subseteq Thread
      /\ Revalidator \in Thread /\ \A x \in Thread : th[x].pc # "idle" => th[x].url \in Url
      /\ Idle.pc = "idle" /\ Cached \subseteq Url
      /\ UNCHANGED setting
  BY Started DEF TypeInv, GroupOK, Thread, Occupied, Next
<1>2. ASSUME UNCHANGED cache, \A x \in Thread : th'[x] = th[x] \/ th'[x].pc \notin {"put", "copy"}
      PROVE  HashInv' /\ DirectHashesValidated'
  BY <1>1, <1>2, HandsKept DEF DirectHashesValidated, Cached
<1>3. ASSUME NEW t \in Thread, NEW how \in {"notOk", "error"}, Fails(t, how), th[t].pc \in Owning
      PROVE  HashInv' /\ DirectHashesValidated'
  BY <1>1, <1>2, <1>3, FailsThreads
<1>4. ASSUME NEW t \in Thread, NEW u \in Url, FetchAndCacheOnce(t, u), UNCHANGED cache
      PROVE  HashInv' /\ DirectHashesValidated'
  BY <1>1, <1>2, <1>4, AsksThreads
<1>5. ASSUME NEW t \in Thread, ThreadStep(t) PROVE HashInv' /\ DirectHashesValidated'
  <2>1. CASE FetchAnswers(t) \/ BustAnswers(t)
    <3>1. CASE KeepsAtWork(t)
      <4>1. \A x \in Thread \ {t} : th'[x] = th[x] \/ th'[x].pc = "resume"
        BY <3>1 DEF KeepsAtWork
      <4>2. HashInv'
        BY <1>1, <3>1, <4>1 DEF KeepsAtWork, HashInv
      <4> QED
        BY <3>1, <4>2 DEF KeepsAtWork, DirectHashesValidated, Cached
    <3> QED
      BY <1>3, <2>1, <3>1, AnswersThreads
  <2>2. CASE Puts(t)
    <3>1. /\ th[t].pc = "put" /\ th' = [th EXCEPT ![t].pc = "meta"]
          /\ cache' = With(cache, th[t].url, [fits |-> th[t].fits, direct |-> th[t].at = th[t].url])
      BY <2>2 DEF Puts
    <3>2. HashInv'
      BY <1>1, <3>1, GoesThreads, HandsKept
    <3>3. th[t].url \in Listed /\ th[t].at = th[t].url => th[t].fits
      BY <3>1 DEF HashInv
    <3> QED
      BY <3>1, <3>2, <3>3 DEF DirectHashesValidated, Cached, With
  <2>3. CASE Stamps(t)
    BY <1>1, <1>2, <2>3 DEF Stamps
  <2>4. CASE CachingFails(t)
    BY <1>3, <2>4 DEF CachingFails, Owning
  <2>5. CASE Resumes(t)
    BY <1>1, <1>2, <2>5 DEF Resumes, Storage
  <2>6. CASE ClientMatches(t)
    <3>1. th[t].url \in Url /\ UNCHANGED cache
      BY <1>1, <2>6 DEF ClientMatches, Storage
    <3>2. CASE FetchAndCacheOnce(t, th[t].url)
      BY <3>1, <3>2, <1>4
    <3>3. CASE th' = [th EXCEPT ![t] = Idle]
      BY <1>1, <1>2, <3>1, <3>3
    <3>4. CASE th' = [th EXCEPT ![t].pc = "age"]
      BY <1>2, <3>1, <3>4, GoesThreads
    <3> QED
      BY <2>6, <3>2, <3>3, <3>4 DEF ClientMatches
  <2>7. CASE ClientReadsAge(t)
    BY <1>1, <1>2, <2>7 DEF ClientReadsAge, Storage
  <2> QED
    BY <1>5, <2>1, <2>2, <2>3, <2>4, <2>5, <2>6, <2>7 DEF ThreadStep
<1>6. CASE InstallStep
  <2>1. ASSUME th' = [th EXCEPT ![Installer] = Idle], UNCHANGED cache
        PROVE  HashInv' /\ DirectHashesValidated'
    BY <1>1, <1>2, <2>1
  <2>2. ASSUME UNCHANGED cache, NEW pc \in {"lookup", "status"}, Goes(pc)
        PROVE  HashInv' /\ DirectHashesValidated'
    BY <1>1, <1>2, <2>2, GoesInstaller
  <2>3. CASE InstallBegins \/ VisitedAll
    BY <1>2, <2>3 DEF InstallBegins, VisitedAll, Unstored, Storage
  <2>4. ASSUME NEW u \in Url, Visit(u) PROVE HashInv' /\ DirectHashesValidated'
    BY <1>1, <1>2, <2>4, Started DEF Visit, Unstored, Storage
  <2>5. CASE InstallerMatches
    BY <1>1, <1>4, <2>1, <2>2, <2>5 DEF InstallerMatches, Storage
  <2>6. CASE Looks
    <3>1. CASE HasUsable(th[Installer].url) /\ Goes("copy")
      <4>1. /\ th'[Installer].pc = "copy" /\ th'[Installer].url = th[Installer].url
            /\ \A x \in Thread \ {Installer} : th'[x] = th[x]
        BY <3>1, GoesInstaller
      <4>2. HashInv'
        BY <1>1, <3>1, <4>1 DEF HashInv, HasUsable
      <4> QED
        BY <2>6, <4>2 DEF Looks, Storage, DirectHashesValidated, Cached
    <3> QED
      BY <1>1, <1>4, <2>1, <2>2, <2>6, <3>1 DEF Looks, Storage
  <2>7. CASE ReadsStatus
    BY <1>1, <1>4, <2>1, <2>2, <2>7 DEF ReadsStatus, Storage
  <2>8. CASE Copies
    <3>1. HashInv'
      BY <1>1, <2>8, GoesInstaller, HandsKept DEF Copies
    <3>2. th[Installer].url \in Listed => th[Installer].url \in setting.same
      BY <2>8 DEF Copies, HashInv
    <3> QED
      BY <2>8, <3>1, <3>2 DEF Copies, DirectHashesValidated, Cached, With
  <2>9. CASE CopiesMeta \/ CopyFails
    BY <2>1, <2>9 DEF CopiesMeta, CopyFails, Unstored, Storage
  <2> QED
    BY <1>6, <2>3, <2>4, <2>5, <2>6, <2>7, <2>8, <2>9 DEF InstallStep
<1>7. ASSUME NEW c \in Client, NEW u \in Url, Request(c, u) PROVE HashInv' /\ DirectHashesValidated'
  BY <1>1, <1>2, <1>7, Started DEF Request, Storage
<1>8. ASSUME NEW u \in Url, TaskRuns(u) PROVE HashInv' /\ DirectHashesValidated'
  BY <1>1, <1>4, <1>8 DEF TaskRuns, Storage
<1>9. ASSUME NEW u \in Url, OldCaches(u) \/ OldStamps(u) \/ GrowsOld(u) PROVE HashInv' /\ DirectHashesValidated'
  BY <1>2, <1>9 DEF OldCaches, OldStamps, GrowsOld, Storage
<1>10. CASE Restart
  BY <1>1, <1>2, <1>10 DEF Restart, Storage
<1>11. CASE UNCHANGED <<vars, setting>>
  BY <1>2, <1>11 DEF vars
<1> QED
  BY <1>5, <1>6, <1>7, <1>8, <1>9, <1>10, <1>11 DEF Next

-------------------------------------------------------------------------------
(* The installation.                                                            *)

LEMMA InitInstall == Init => InstallInv
BY DEF Init, InstallInv, InstallDealt, Idle, Doing, Thread

\* A step of another thread: the cache only grows, and the installation may resume.
LEMMA Bystander ==
  ASSUME TypeInv, InstallInv, UNCHANGED <<install, rest, joined, oldAtStart, setting>>,
         Cached \subseteq Cached',
         \/ th'[Installer] = th[Installer]
         \/ /\ th[Installer].pc = "join" /\ th'[Installer].pc = "resume"
            /\ th'[Installer].url = th[Installer].url
  PROVE  InstallInv'
<1>1. Required' = Required /\ FirstRequired' = FirstRequired
  BY DEF Required, FirstRequired
<1>2. \A u : (Outstanding(u) => Outstanding(u)') /\ (Settled(u) => Settled(u)')
  BY DEF Outstanding, Settled
<1> QED
  BY <1>1, <1>2 DEF InstallInv, InstallDealt, InstallerPc

\* The installation goes on with its URL, ...
LEMMA GoesOnWith ==
  ASSUME TypeInv, InstallInv, UNCHANGED <<install, rest, oldAtStart, setting>>,
         Cached \subseteq Cached', joined \subseteq joined',
         th[Installer].pc # "idle", th'[Installer].pc \in InstallerPc,
         th'[Installer].url = th[Installer].url,
         th'[Installer].pc \in {"join", "resume"} => th[Installer].url \in joined',
         th'[Installer].pc \in {"copyMeta", "meta"} => th[Installer].url \in Cached',
         th'[Installer].pc = "status" => setting.mode = "lazy" /\ setting.updateMode = "prefetch"
  PROVE  InstallInv'
<1>1. Required' = Required /\ FirstRequired' = FirstRequired
  BY DEF Required, FirstRequired
<1>2. th'[Installer].pc # "idle"
  BY DEF InstallerPc, Owning, Caching
<1>3. \A u : (Outstanding(u) => Outstanding(u)') /\ (Settled(u) => Settled(u)')
  BY <1>2 DEF Outstanding, Settled
<1>4. install \in {"listed", "carry"}
  BY DEF InstallInv
<1> QED
  BY <1>1, <1>2, <1>3, <1>4 DEF InstallInv, InstallDealt

\* ... is done with it, ...
LEMMA VisitEnds ==
  ASSUME TypeInv, InstallInv, UNCHANGED <<install, rest, joined, oldAtStart, setting>>,
         Cached \subseteq Cached',
         th[Installer].pc # "idle", th'[Installer].pc = "idle",
         th[Installer].url \in Required => th[Installer].url \in Cached' \cup joined'
  PROVE  InstallInv'
<1>1. Required' = Required /\ FirstRequired' = FirstRequired /\ FirstRequired \subseteq Required
  BY DEF Required, FirstRequired
<1>2. \A u : /\ Outstanding(u) => Outstanding(u)' \/ u = th[Installer].url
             /\ Settled(u) => Settled(u)'
  BY DEF Outstanding, Settled
<1>3. install \in {"listed", "carry"}
  BY DEF InstallInv
<1> QED
  BY <1>1, <1>2, <1>3 DEF InstallInv, InstallDealt, Settled

\* ... or rejects.
LEMMA Rejected ==
  ASSUME th'[Installer].pc = "idle", install' = "failed"
  PROVE  InstallInv'
BY DEF InstallInv, InstallDealt

\* The steps of initializeFully() itself.
LEMMA InstallerSteps ==
  ASSUME TypeInv, InstallInv, InstallStep, UNCHANGED setting
  PROVE  InstallInv'
<1> DEFINE url == th[Installer].url
<1>1. /\ th \in [Thread -> ThreadState] /\ Installer \in Thread
      /\ th[Installer].pc # "idle" => url \in Url
      /\ Idle.pc = "idle" /\ oldAtStart \subseteq old /\ (~setting.update => old = {})
      /\ \A u \in oldAtStart : u \in Listed \/ u \in oldMeta
      /\ setting.same \subseteq Listed
      /\ setting.mode \in {"prefetch", "lazy"} /\ setting.updateMode \in {"prefetch", "lazy"}
  BY Started, AssetAssumption DEF TypeInv, GroupOK, Thread, Occupied, OlderVersion
<1>2. ASSUME th[Installer].pc # "idle", th' = [th EXCEPT ![Installer] = Idle],
             UNCHANGED <<cache, install, rest, joined, oldAtStart>>,
             url \in Required => url \in Cached
      PROVE  InstallInv'
  BY <1>1, <1>2, VisitEnds DEF Settled, Cached
<1>3. ASSUME th[Installer].pc # "idle", NEW pc \in {"lookup", "copy"}, Goes(pc),
             UNCHANGED <<cache, install, rest, joined, oldAtStart>>
      PROVE  InstallInv'
  <2>1. th'[Installer].pc = pc /\ th'[Installer].url = url /\ pc \in InstallerPc
    BY <1>3, GoesInstaller DEF InstallerPc
  <2> QED
    BY <1>1, <1>3, <2>1, GoesOnWith DEF Cached
<1>4. ASSUME th[Installer].pc # "idle", FetchAndCacheOnce(Installer, url),
             UNCHANGED <<cache, install, rest, oldAtStart>>
      PROVE  InstallInv'
  <2>1. /\ th'[Installer].url = url /\ th'[Installer].pc \in {"fetch", "join", "resume"}
        /\ joined \subseteq joined'
        /\ th'[Installer].pc \in {"join", "resume"} => url \in joined'
    BY <1>1, <1>4, AsksThreads
  <2> QED
    BY <1>4, <2>1, GoesOnWith DEF InstallerPc, Owning, Caching, Cached
<1>5. CASE InstallBegins
  <2>1. th[Installer].pc = "idle"
    BY <1>5 DEF InstallBegins, InstallInv
  <2>2. CASE install' = "done" /\ setting.mode = "lazy" /\ ~setting.update
    <3>1. oldAtStart' = {}
      BY <1>1, <1>5, <2>2 DEF InstallBegins
    <3>2. Required' = {}
      BY <1>1, <2>2, <3>1 DEF Required
    <3> QED
      BY <1>5, <2>1, <2>2, <3>2 DEF InstallBegins, InstallInv, InstallDealt
  <2>3. CASE install' = "listed" /\ rest' = Listed
    BY <1>5, <2>1, <2>3
       DEF InstallBegins, InstallInv, InstallDealt, FirstRequired, Outstanding
  <2> QED
    BY <1>5, <2>2, <2>3 DEF InstallBegins
<1>6. ASSUME NEW u \in Url, Visit(u) PROVE InstallInv'
  <2>1. /\ th'[Installer].pc = "match" /\ th'[Installer].url = u /\ rest' = rest \ {u}
        /\ th[Installer].pc = "idle" /\ install \in {"listed", "carry"}
        /\ UNCHANGED <<cache, install, joined, oldAtStart>>
    BY <1>1, <1>6, Started DEF Visit, Unstored, Storage
  <2>2. Required' = Required /\ FirstRequired' = FirstRequired
    BY <2>1 DEF Required, FirstRequired
  <2>3. \A v : (Outstanding(v) => Outstanding(v)') /\ (Settled(v) => Settled(v)')
    BY <2>1 DEF Outstanding, Settled, Cached
  <2> QED
    BY <2>1, <2>2, <2>3 DEF InstallInv, InstallDealt, InstallerPc
<1>7. CASE VisitedAll
  <2>1. /\ th[Installer].pc = "idle" /\ rest = {}
        /\ UNCHANGED <<th, cache, joined, oldAtStart>>
    BY <1>7 DEF VisitedAll, Unstored, Storage
  <2>2. Required' = Required /\ FirstRequired' = FirstRequired
    BY <2>1 DEF Required, FirstRequired
  <2>3. \A u : ~Outstanding(u) /\ (Settled(u) => Settled(u)')
    BY <2>1 DEF Outstanding, Settled, Cached
  <2>4. CASE install = "listed" /\ install' = "carry"
    <3>1. rest' = old \cap Foreign /\ setting.mode = "prefetch"
      BY <1>7, <2>4 DEF VisitedAll
    <3>2. \A u \in Required : u \in FirstRequired \/ u \in old \cap Foreign
      BY <1>1, <3>1 DEF Required, FirstRequired
    <3>3. \A u \in Required' : Outstanding(u)' \/ Settled(u)'
      BY <2>2, <2>3, <2>4, <3>1, <3>2 DEF InstallInv, Outstanding
    <3> QED
      BY <2>1, <2>4, <3>1, <3>3 DEF InstallInv, InstallDealt
  <2>5. CASE install = "listed" /\ install' = "done"
    <3>1. Required \subseteq FirstRequired
      BY <1>1, <1>7, <2>5 DEF VisitedAll, Required, FirstRequired
    <3> QED
      BY <2>1, <2>2, <2>3, <2>5, <3>1 DEF InstallInv, InstallDealt, Settled
  <2>6. CASE install = "carry" /\ install' = "done"
    BY <2>1, <2>2, <2>3, <2>6 DEF InstallInv, InstallDealt, Settled
  <2> QED
    BY <1>7, <2>4, <2>5, <2>6 DEF VisitedAll
<1>8. CASE InstallerMatches
  <2>1. th[Installer].pc = "match" /\ UNCHANGED <<cache, install, rest, oldAtStart>>
    BY <1>8 DEF InstallerMatches, Storage, Plan
  <2> QED
    BY <1>2, <1>3, <1>4, <1>8, <2>1 DEF InstallerMatches
<1>9. CASE Looks
  <2>1. th[Installer].pc = "lookup" /\ UNCHANGED <<cache, install, rest, oldAtStart>>
    BY <1>9 DEF Looks, Storage, Plan
  <2>2. CASE Goes("copy") /\ UNCHANGED joined
    BY <1>3, <2>1, <2>2
  <2>3. CASE FetchAndCacheOnce(Installer, url)
    BY <1>4, <2>1, <2>3
  <2>4. CASE /\ setting.mode = "lazy" /\ setting.updateMode = "prefetch"
             /\ Goes("status") /\ UNCHANGED joined
    <3>1. th'[Installer].pc = "status" /\ th'[Installer].url = url
      BY <2>4, GoesInstaller
    <3> QED
      BY <2>1, <2>4, <3>1, GoesOnWith DEF InstallerPc, Cached
  <2>5. CASE /\ ~HasUsable(url)
             /\ url \in Listed => setting.mode = "lazy" /\ setting.updateMode = "lazy"
             /\ th' = [th EXCEPT ![Installer] = Idle] /\ UNCHANGED joined
    <3>1. url \notin Required
      BY <1>1, <2>5 DEF Required, HasUsable
    <3> QED
      BY <1>2, <2>1, <2>5, <3>1
  <2> QED
    BY <1>9, <2>2, <2>3, <2>4, <2>5 DEF Looks
<1>10. CASE ReadsStatus
  <2>1. th[Installer].pc = "status" /\ UNCHANGED <<cache, install, rest, oldAtStart>>
    BY <1>10 DEF ReadsStatus, Storage, Plan
  <2>2. CASE FetchAndCacheOnce(Installer, url)
    BY <1>4, <2>1, <2>2
  <2>3. CASE url \notin old /\ th' = [th EXCEPT ![Installer] = Idle] /\ UNCHANGED joined
    <3>1. url \notin Required
      BY <1>1, <2>1, <2>3 DEF InstallInv, Required
    <3> QED
      BY <1>2, <2>1, <2>3, <3>1
  <2> QED
    BY <1>10, <2>2, <2>3 DEF ReadsStatus
<1>11. CASE Copies
  <2>1. /\ th[Installer].pc = "copy" /\ Goes("copyMeta") /\ Cached' = Cached \cup {url}
        /\ UNCHANGED <<install, rest, joined, oldAtStart>>
    BY <1>11 DEF Copies, With, Cached, Plan
  <2>2. th'[Installer].pc = "copyMeta" /\ th'[Installer].url = url
    BY <2>1, GoesInstaller
  <2> QED
    BY <2>1, <2>2, GoesOnWith DEF InstallerPc
<1>12. CASE CopiesMeta
  <2>1. th[Installer].pc = "copyMeta" /\ url \in Cached
    BY <1>12 DEF CopiesMeta, InstallInv
  <2> QED
    BY <1>2, <1>12, <2>1 DEF CopiesMeta, Plan
<1>13. CASE CopyFails
  BY <1>1, <1>13, Rejected DEF CopyFails
<1> QED
  BY <1>5, <1>6, <1>7, <1>8, <1>9, <1>10, <1>11, <1>12, <1>13 DEF InstallStep

LEMMA InstallPreserved == TypeInv /\ InstallInv /\ [Next]_<<vars, setting>> => InstallInv'
<1> SUFFICES ASSUME TypeInv, InstallInv, [Next]_<<vars, setting>> PROVE InstallInv'
  OBVIOUS
<1> DEFINE url == th[Installer].url
<1>1. /\ th \in [Thread -> ThreadState] /\ Installer \in Thread /\ Installer \notin Client
      /\ Revalidator \in Thread \ {Installer} /\ Client \subseteq Thread
      /\ \A x \in Thread : th[x].pc # "idle" => th[x].url \in Url
      /\ Idle.pc = "idle" /\ UNCHANGED setting
  BY Started, AssetAssumption DEF TypeInv, GroupOK, Thread, Occupied, Next
<1>2. ASSUME NEW t \in Thread \ {Installer}, \A x \in Thread \ {t} : th'[x] = th[x],
             UNCHANGED <<install, rest, joined, oldAtStart>>, Cached \subseteq Cached'
      PROVE  InstallInv'
  BY <1>1, <1>2, Bystander
<1>3. ASSUME UNCHANGED <<th, install, rest, joined, oldAtStart, cache>> PROVE InstallInv'
  BY <1>1, <1>3, Bystander DEF Cached
<1>4. ASSUME NEW t \in Thread, NEW how \in {"notOk", "error"}, Fails(t, how), th[t].pc \in Owning
      PROVE  InstallInv'
  <2>1. CASE t = Installer
    BY <1>1, <1>4, <2>1, FailsThreads, Rejected
  <2>2. CASE t # Installer
    BY <1>1, <1>4, <2>2, FailsThreads, Bystander DEF Cached
  <2> QED
    BY <2>1, <2>2
<1>5. ASSUME NEW t \in Thread \ {Installer}, NEW u \in Url, FetchAndCacheOnce(t, u),
             UNCHANGED <<cache, install, rest, oldAtStart>>
      PROVE  InstallInv'
  BY <1>1, <1>2, <1>5, AsksThreads DEF Cached
<1>6. ASSUME NEW t \in Thread, ThreadStep(t) PROVE InstallInv'
  <2>1. CASE FetchAnswers(t) \/ BustAnswers(t)
    <3>1. CASE KeepsAtWork(t) /\ t = Installer
      <4>1. th'[Installer].pc \in InstallerPc \ {"join", "resume", "copyMeta", "meta", "status"}
        BY <3>1 DEF KeepsAtWork, InstallerPc, Owning, Caching
      <4>2. th[Installer].pc # "idle"
        BY <2>1, <3>1, AnswersThreads DEF Owning, Caching
      <4> QED
        BY <1>1, <3>1, <4>1, <4>2, GoesOnWith DEF KeepsAtWork, Cached
    <3>2. CASE KeepsAtWork(t) /\ t # Installer
      BY <1>1, <3>2, Bystander DEF KeepsAtWork, Cached
    <3> QED
      BY <1>4, <2>1, <3>1, <3>2, AnswersThreads
  <2>2. CASE Puts(t)
    <3>1. /\ th[t].pc = "put" /\ th' = [th EXCEPT ![t].pc = "meta"]
          /\ Cached' = Cached \cup {th[t].url}
          /\ UNCHANGED <<install, rest, joined, oldAtStart>>
      BY <2>2 DEF Puts, With, Cached, Plan
    <3>2. CASE t = Installer
      <4>1. /\ th'[Installer].pc = "meta" /\ th'[Installer].url = url
            /\ th[Installer].pc # "idle" /\ th'[Installer].pc \in InstallerPc
        BY <3>1, <3>2, GoesThreads DEF InstallerPc, Owning, Caching
      <4> QED
        BY <1>1, <3>1, <3>2, <4>1, GoesOnWith
    <3>3. CASE t # Installer
      BY <1>1, <1>2, <3>1, <3>3, GoesThreads
    <3> QED
      BY <3>2, <3>3
  <2>3. CASE Stamps(t)
    <3>1. /\ th[t].pc = "meta" /\ th' = [th EXCEPT ![t] = Idle]
          /\ UNCHANGED <<cache, install, rest, joined, oldAtStart>>
      BY <2>3 DEF Stamps, Plan
    <3>2. CASE t = Installer
      <4>1. url \in Cached
        BY <3>1, <3>2 DEF InstallInv
      <4> QED
        BY <1>1, <3>1, <3>2, <4>1, VisitEnds DEF Settled, Cached
    <3>3. CASE t # Installer
      BY <1>1, <1>2, <3>1, <3>3 DEF Cached
    <3> QED
      BY <3>2, <3>3
  <2>4. CASE CachingFails(t)
    BY <1>4, <2>4 DEF CachingFails, Owning
  <2>5. CASE Resumes(t)
    <3>1. CASE t = Installer /\ install' = "failed"
      BY <1>1, <2>5, <3>1, Rejected DEF Resumes
    <3>2. CASE t = Installer /\ UNCHANGED <<install, rest>>
      <4>1. url \in joined
        BY <2>5, <3>2 DEF Resumes, InstallInv
      <4> QED
        BY <1>1, <2>5, <3>2, <4>1, VisitEnds DEF Resumes, Storage, Settled, Cached
    <3>3. CASE t # Installer
      BY <1>1, <1>2, <2>5, <3>3 DEF Resumes, Continues, Storage, Cached
    <3> QED
      BY <2>5, <3>1, <3>2, <3>3 DEF Resumes, Continues
  <2>6. CASE ClientMatches(t)
    <3>1. th[t].url \in Url /\ t # Installer /\ UNCHANGED <<cache, install, rest, oldAtStart>>
      BY <1>1, <2>6 DEF ClientMatches, Storage, Plan
    <3>2. CASE FetchAndCacheOnce(t, th[t].url)
      BY <3>1, <3>2, <1>5
    <3>3. CASE th' = [th EXCEPT ![t] = Idle] /\ UNCHANGED joined
      BY <1>1, <1>2, <3>1, <3>3 DEF Cached
    <3>4. CASE th' = [th EXCEPT ![t].pc = "age"] /\ UNCHANGED joined
      BY <1>2, <3>1, <3>4, GoesThreads DEF Cached
    <3> QED
      BY <2>6, <3>2, <3>3, <3>4 DEF ClientMatches
  <2>7. CASE ClientReadsAge(t)
    <3>1. t # Installer
      BY <1>1, <2>7 DEF ClientReadsAge, TypeInv, Occupied
    <3> QED
      BY <1>1, <1>2, <2>7, <3>1 DEF ClientReadsAge, Storage, Plan, Cached
  <2> QED
    BY <1>6, <2>1, <2>2, <2>3, <2>4, <2>5, <2>6, <2>7 DEF ThreadStep
<1>7. CASE InstallStep
  BY <1>1, <1>7, InstallerSteps
<1>8. ASSUME NEW c \in Client, NEW u \in Url, Request(c, u) PROVE InstallInv'
  BY <1>1, <1>2, <1>8 DEF Request, Storage, Plan, Cached
<1>9. ASSUME NEW u \in Url, TaskRuns(u) PROVE InstallInv'
  BY <1>1, <1>5, <1>9 DEF TaskRuns, Storage, Plan
<1>10. ASSUME NEW u \in Url, OldCaches(u) \/ OldStamps(u) \/ GrowsOld(u) PROVE InstallInv'
  BY <1>3, <1>10 DEF OldCaches, OldStamps, GrowsOld, Storage, Plan
<1>11. CASE Restart
  BY <1>1, <1>11 DEF Restart, InstallInv, InstallDealt
<1>12. CASE UNCHANGED <<vars, setting>>
  BY <1>3, <1>12 DEF vars
<1> QED
  BY <1>6, <1>7, <1>8, <1>9, <1>10, <1>11, <1>12 DEF Next

-------------------------------------------------------------------------------
(***************************************************************************)
(* What the installation left to others.  A fetch it joined is under way,   *)
(* or has failed, or its response is in the cache: it is put before the     *)
(* entry is cleared.                                                       *)
(***************************************************************************)
JoinedInv ==
  /\ \A u \in joined : u \in Cached \/ u \in lost \/ inFlight[u] # NoThread
  /\ \A t \in Thread : th[t].pc = "meta" => th[t].url \in Cached
  /\ oldMeta \subseteq old \cap Pattern /\ lost \subseteq joined

LEMMA InitJoined == Init => JoinedInv
BY DEF Init, JoinedInv, Idle, Doing, Cached

\* Most steps leave the entries alone, and the cache grows.
LEMMA JoinedStays ==
  ASSUME JoinedInv, UNCHANGED <<inFlight, joined, lost>>, Cached \subseteq Cached',
         UNCHANGED <<old, oldMeta>>,
         \A t \in Thread : th'[t].pc = "meta" => th[t].pc = "meta" /\ th'[t].url = th[t].url
  PROVE  JoinedInv'
BY DEF JoinedInv

LEMMA JoinedAsks ==
  ASSUME TypeInv, JoinedInv, NEW t \in Thread, NEW u \in Url, FetchAndCacheOnce(t, u),
         UNCHANGED <<cache, old, oldMeta, lost>>
  PROVE  JoinedInv'
<1>1. /\ th'[t].pc \in {"fetch", "join", "resume"} /\ \A x \in Thread \ {t} : th'[x] = th[x]
      /\ inFlight \in [Url -> Thread \cup {NoThread}] /\ NoThread \notin Thread /\ joined \subseteq Url
  BY AsksThreads, AssetAssumption DEF TypeInv, GroupOK
<1>2. /\ \A x \in Thread : th'[x].pc = "meta" => th[x].pc = "meta" /\ th'[x].url = th[x].url
      /\ Cached' = Cached
  BY <1>1 DEF Cached
<1>3. CASE inFlight' = [inFlight EXCEPT ![u] = t] /\ UNCHANGED joined
  BY <1>1, <1>2, <1>3 DEF JoinedInv
<1>4. CASE inFlight[u] # NoThread /\ UNCHANGED inFlight /\ joined' \in {joined, joined \cup {u}}
  BY <1>1, <1>2, <1>4 DEF JoinedInv
<1> QED
  BY <1>3, <1>4 DEF FetchAndCacheOnce

LEMMA JoinedPreserved == TypeInv /\ JoinedInv /\ [Next]_<<vars, setting>> => JoinedInv'
<1> SUFFICES ASSUME TypeInv, JoinedInv, [Next]_<<vars, setting>> PROVE JoinedInv'
  OBVIOUS
<1> USE AssetAssumption DEF Storage, Plan, World, Older
<1>1. /\ th \in [Thread -> ThreadState] /\ Installer \in Thread
      /\ Revalidator \in Thread /\ Client \subseteq Thread
      /\ inFlight \in [Url -> Thread \cup {NoThread}] /\ joined \subseteq Url
      /\ \A x \in Thread : th[x].pc # "idle" => th[x].url \in Url
      /\ Idle.pc = "idle"
  BY Started DEF TypeInv, GroupOK, Thread, Occupied
<1>2. ASSUME NEW t \in Thread, th' = [th EXCEPT ![t] = Idle], UNCHANGED <<inFlight, joined, lost>>,
             UNCHANGED <<cache, old, oldMeta>>
      PROVE  JoinedInv'
  BY <1>1, <1>2, JoinedStays DEF Cached
<1>3. ASSUME NEW t \in Thread, NEW how \in {"notOk", "error"}, Fails(t, how), th[t].pc \in Owning
      PROVE  JoinedInv'
  <2>1. /\ th[t].url \in Url /\ inFlight' = [inFlight EXCEPT ![th[t].url] = NoThread]
        /\ lost' = lost \cup ({th[t].url} \cap joined)
        /\ UNCHANGED <<cache, joined, old, oldMeta>>
    BY <1>1, <1>3 DEF Fails, LostToInstaller, Owning, Caching
  <2>2. \A x \in Thread : th'[x].pc = "meta" => th[x].pc = "meta" /\ th'[x].url = th[x].url
    BY <1>1, <1>3, FailsThreads
  <2> QED
    BY <1>1, <2>1, <2>2 DEF JoinedInv, Cached
<1>4. ASSUME NEW t \in Thread, ThreadStep(t) PROVE JoinedInv'
  <2>1. CASE FetchAnswers(t) \/ BustAnswers(t)
    <3>1. CASE KeepsAtWork(t)
      <4>1. /\ \A x \in Thread : th'[x].pc = "meta" => th[x].pc = "meta" /\ th'[x].url = th[x].url
            /\ UNCHANGED <<cache, inFlight, joined, lost, old, oldMeta>>
        BY <1>1, <3>1 DEF KeepsAtWork
      <4> QED
        BY <4>1, JoinedStays DEF Cached
    <3> QED
      BY <1>3, <2>1, <3>1, AnswersThreads
  <2>2. CASE Puts(t)
    <3>1. /\ th[t].pc = "put" /\ th' = [th EXCEPT ![t].pc = "meta"]
          /\ Cached' = Cached \cup {th[t].url}
          /\ UNCHANGED <<inFlight, joined, lost, old, oldMeta>>
      BY <2>2 DEF Puts, With, Cached
    <3>2. th'[t].url = th[t].url /\ \A x \in Thread \ {t} : th'[x] = th[x]
      BY <3>1, GoesThreads
    <3> QED
      BY <3>1, <3>2 DEF JoinedInv
  <2>3. CASE Stamps(t)
    <3>1. /\ th[t].url \in Url /\ th[t].url \in Cached
          /\ th' = [th EXCEPT ![t] = Idle] /\ inFlight' = [inFlight EXCEPT ![th[t].url] = NoThread]
          /\ UNCHANGED <<cache, joined, lost, old, oldMeta>>
      BY <1>1, <2>3 DEF Stamps, JoinedInv
    <3> QED
      BY <1>1, <3>1 DEF JoinedInv, Cached
  <2>4. CASE CachingFails(t)
    BY <1>3, <2>4 DEF CachingFails, Owning
  <2>5. CASE Resumes(t)
    BY <1>2, <2>5 DEF Resumes
  <2>6. CASE ClientMatches(t)
    <3>1. th[t].url \in Url /\ UNCHANGED <<cache, old, oldMeta, lost>>
      BY <1>1, <2>6 DEF ClientMatches
    <3>2. CASE FetchAndCacheOnce(t, th[t].url)
      BY <3>1, <3>2, JoinedAsks
    <3>3. CASE th' = [th EXCEPT ![t] = Idle] /\ UNCHANGED <<inFlight, joined>>
      BY <1>2, <3>1, <3>3
    <3>4. CASE th' = [th EXCEPT ![t].pc = "age"] /\ UNCHANGED <<inFlight, joined>>
      BY <1>1, <3>1, <3>4, GoesThreads, JoinedStays DEF Cached
    <3> QED
      BY <2>6, <3>2, <3>3, <3>4 DEF ClientMatches
  <2>7. CASE ClientReadsAge(t)
    BY <1>2, <2>7 DEF ClientReadsAge
  <2> QED
    BY <1>4, <2>1, <2>2, <2>3, <2>4, <2>5, <2>6, <2>7 DEF ThreadStep
<1>5. CASE InstallStep
  <2>1. ASSUME UNCHANGED <<inFlight, joined, lost, old, oldMeta>>, Cached \subseteq Cached',
               NEW pc \in {"lookup", "status", "copy", "copyMeta"}, Goes(pc)
        PROVE  JoinedInv'
    BY <1>1, <2>1, GoesInstaller, JoinedStays
  <2>2. CASE InstallBegins \/ VisitedAll
    BY <1>1, <2>2, JoinedStays DEF InstallBegins, VisitedAll, Unstored, Cached
  <2>3. ASSUME NEW u \in Url, Visit(u) PROVE JoinedInv'
    <3>1. th'[Installer].pc = "match" /\ \A x \in Thread \ {Installer} : th'[x] = th[x]
      BY <1>1, <2>3, Started DEF Visit
    <3> QED
      BY <2>3, <3>1, JoinedStays DEF Visit, Unstored, Cached
  <2>4. CASE InstallerMatches
    <3>1. th[Installer].url \in Url /\ UNCHANGED <<cache, old, oldMeta, lost>>
      BY <1>1, <2>4 DEF InstallerMatches
    <3> QED
      BY <1>1, <1>2, <2>1, <2>4, <3>1, JoinedAsks DEF InstallerMatches, Cached
  <2>5. CASE Looks
    <3>1. th[Installer].url \in Url /\ UNCHANGED <<cache, old, oldMeta, lost>>
      BY <1>1, <2>5 DEF Looks
    <3>2. \/ Goes("copy") /\ UNCHANGED <<inFlight, joined>>
          \/ Goes("status") /\ UNCHANGED <<inFlight, joined>>
          \/ FetchAndCacheOnce(Installer, th[Installer].url)
          \/ th' = [th EXCEPT ![Installer] = Idle] /\ UNCHANGED <<inFlight, joined>>
      BY <2>5 DEF Looks
    <3> QED
      BY <1>1, <1>2, <2>1, <3>1, <3>2, JoinedAsks DEF Cached
  <2>6. CASE ReadsStatus
    <3>1. th[Installer].url \in Url /\ UNCHANGED <<cache, old, oldMeta, lost>>
      BY <1>1, <2>6 DEF ReadsStatus
    <3> QED
      BY <1>1, <1>2, <2>6, <3>1, JoinedAsks DEF ReadsStatus
  <2>7. CASE Copies
    BY <2>1, <2>7 DEF Copies, With, Cached
  <2>8. CASE CopiesMeta \/ CopyFails
    BY <1>1, <1>2, <2>8 DEF CopiesMeta, CopyFails, Unstored
  <2> QED
    BY <1>5, <2>2, <2>3, <2>4, <2>5, <2>6, <2>7, <2>8 DEF InstallStep
<1>6. ASSUME NEW c \in Client, NEW u \in Url, Request(c, u) PROVE JoinedInv'
  <2>1. th'[c].pc = "match" /\ \A x \in Thread \ {c} : th'[x] = th[x]
    BY <1>1, <1>6, Started DEF Request
  <2> QED
    BY <1>1, <1>6, <2>1, JoinedStays DEF Request, Cached
<1>7. ASSUME NEW u \in Url, TaskRuns(u) PROVE JoinedInv'
  BY <1>1, <1>7, JoinedAsks DEF TaskRuns
<1>8. ASSUME NEW u \in Url, OldCaches(u) \/ OldStamps(u) PROVE JoinedInv'
  BY <1>8 DEF OldCaches, OldStamps, JoinedInv, Cached
<1>9. ASSUME NEW u \in Url, GrowsOld(u) PROVE JoinedInv'
  BY <1>9, JoinedStays DEF GrowsOld, Cached
<1>10. CASE Restart
  BY <1>1, <1>10 DEF Restart, JoinedInv, Cached
<1>11. CASE UNCHANGED <<vars, setting>>
  BY <1>11, JoinedStays DEF vars, Cached
<1> QED
  BY <1>4, <1>5, <1>6, <1>7, <1>8, <1>9, <1>10, <1>11 DEF Next

-------------------------------------------------------------------------------
(* The theorems.                                                                *)

GroupInv == /\ TypeInv /\ OwnerInv /\ HashInv /\ DirectHashesValidated
            /\ InstallInv /\ JoinedInv

LEMMA Always == Spec => []GroupInv
<1>1. Init => GroupInv
  BY InitTypes, InitOwner, InitHash, InitInstall, InitJoined DEF GroupInv
<1>2. GroupInv /\ [Next]_<<vars, setting>> => GroupInv'
  BY TypesPreserved, OwnerPreserved, HashPreserved, InstallPreserved, JoinedPreserved DEF GroupInv
<1> QED
  BY <1>1, <1>2, PTL DEF Spec

\* The variables have their types: in particular, who is at work, or waits, has a URL.
THEOREM AssetTypesCorrect == Spec => []TypeOK
<1>1. GroupInv => TypeOK
  BY DEF GroupInv, TypeInv, GroupOK, OlderVersion, JoinedInv, TypeOK
<1> QED
  BY <1>1, Always, PTL

\* However requests, revalidations, the installation, redirects, failures and restarts
\* interleave, an entry of inFlightRequests names the only thread that fetches its URL
\* or caches what came, and there is none without an entry.
THEOREM OwnerCorrect == Spec => []OneOwner
<1>1. ASSUME TypeInv, OwnerInv, NEW u \in Url
      PROVE  {t \in Thread : th[t].pc \in Owning /\ th[t].url = u} = {inFlight[u]} \ {NoThread}
  <2>1. inFlight[u] \in Thread \cup {NoThread}
    BY <1>1 DEF TypeInv, GroupOK
  <2> QED
    BY <1>1, <2>1, AssetAssumption DEF OwnerInv
<1>2. GroupInv => OneOwner
  BY <1>1 DEF OneOwner, GroupInv
<1> QED
  BY <1>2, Always, PTL

\* What is cached for a URL with a hash, if it came without a redirect, has that hash.
THEOREM HashesCorrect == Spec => []DirectHashesValidated
<1>1. GroupInv => DirectHashesValidated
  BY DEF GroupInv
<1> QED
  BY <1>1, Always, PTL

\* When an installation has succeeded, every resource it must have is in the cache, or still
\* with a request that it found fetching it, or was lost because that request failed.
THEOREM InstallCorrect == Spec => []InstallComplete
<1>1. GroupInv => InstallComplete
  BY DEF GroupInv, InstallInv, InstallDealt, Settled, JoinedInv, InstallComplete
<1> QED
  BY <1>1, Always, PTL
===============================================================================
