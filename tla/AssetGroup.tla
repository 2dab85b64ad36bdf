------------------------------ MODULE AssetGroup ------------------------------
(***************************************************************************)
(* The static cache of one version of the application: AssetGroup,         *)
(* PrefetchAssetGroup and LazyAssetGroup of                                 *)
(* packages/service-worker/worker/src/assets.ts, with the lookups in an     *)
(* older version (app-version.ts, driver.ts) that an update makes.          *)
(*                                                                         *)
(* Requests of clients, revalidation tasks and the installation run side by *)
(* side; one action is the code between two awaits.  A promise that settles *)
(* resumes the code that owns it in the same action.  A response is         *)
(* abstracted to whether its status is ok and its content has the hash that *)
(* the manifest gives for the URL.                                          *)
(***************************************************************************)
EXTENDS Naturals, FiniteSets

CONSTANTS Listed,        \* config.urls, which the build tool gives hashes
          Pattern,       \* URLs without a hash, matched by config.patterns
          Foreign,       \* those of Pattern on another origin than the worker's
          Target,        \* the URLs the server redirects to
          Client,        \* the requests that can be in flight at once
          Installer,     \* the call of initializeFully()
          Revalidator,   \* the idle task that is running
          NoThread,      \* no entry in inFlightRequests
          NoUrl,         \* no URL
          Setting,       \* the settings under which the group may run
          RedirectLimit  \* fetchFromNetwork() follows so many redirects

Url == Listed \cup Pattern
Thread == Client \cup {Installer, Revalidator}

\* A setting: config.installMode, config.updateMode, whether the group belongs to
\* an update (updateFrom is given), the Listed URLs whose hash in the older version
\* is the same, the URLs each client may
\* ask for, and a bound on the restarts of the worker.
ASSUME AssetAssumption ==
  /\ Listed \cap Pattern = {} /\ Foreign \subseteq Pattern /\ Target \subseteq Url
  /\ Installer # Revalidator /\ {Installer, Revalidator} \cap Client = {}
  /\ NoThread \notin Thread /\ NoUrl \notin Url
  /\ Setting \subseteq [mode : {"prefetch", "lazy"}, updateMode : {"prefetch", "lazy"},
                         update : BOOLEAN, same : SUBSET Listed, 
                         asked : [Client -> SUBSET Url], maxRestart : 0..1]
  /\ RedirectLimit \in Nat

VARIABLES cache,     \* the Cache: what is known of each response in it
          meta,      \* for URLs of Pattern: how old the response is, by its ts
          inFlight,  \* inFlightRequests: the thread that owns the request
          th,        \* what each thread is doing
          install,   \* how far initializeFully() is
          rest,      \* the URLs it still has to visit
          queue,     \* the URLs with a revalidation task in the IdleScheduler
          old,       \* the URLs the older version has cached
          oldMeta,   \* those of Pattern whose metadata it has written, too
          restarts
VARIABLES joined,    \* history: URLs whose fetch by another the installation awaited
          lost,      \* history: those of them whose fetch then failed
          oldAtStart \* history: what the older version could give at the beginning
VARIABLE setting     \* the setting, chosen once

vars == <<cache, meta, inFlight, th, install, rest, queue, old, oldMeta, restarts, joined, lost,
          oldAtStart>>
Storage == <<cache, meta>>
Plan == <<install, rest, oldAtStart>>
Older == <<old, oldMeta>>
World == <<Older, restarts, lost>>

Cached == DOMAIN cache
With(f, u, x) == [v \in DOMAIN f \cup {u} |-> IF v = u THEN x ELSE f[v]]

-------------------------------------------------------------------------------
(***************************************************************************)
(* A thread: where it stands, its URL, the URL it is fetching (another one  *)
(* after a redirect), how many redirects it may still follow, whether the   *)
(* content it has in hand has the canonical hash of its URL, and what the   *)
(* promise it joined gave.                                                  *)
(***************************************************************************)
Doing(pc, u, at, limit) ==
  [pc |-> pc, url |-> u, at |-> at, limit |-> limit, fits |-> TRUE, got |-> "ok"]
Idle == Doing("idle", NoUrl, NoUrl, 0)
At(pc, u) == Doing(pc, u, NoUrl, 0)
Fetching(u) == Doing("fetch", u, u, RedirectLimit)
Caching == {"put", "meta"}
Owning == {"fetch", "bust"} \cup Caching

ThreadState ==
  [pc : {"idle", "match", "age", "join", "resume", "lookup", "status", "copy", "copyMeta"} \cup Owning,
   url : Url \cup {NoUrl}, at : Url \cup {NoUrl}, limit : 0..RedirectLimit,
   fits : BOOLEAN, got : {"ok", "notOk", "error"}]

\* What a fetch may answer: a status that is ok or not, content with the hash of
\* the URL that is fetched and with that of the thread's URL, after a redirect to
\* another URL or not.
Response == [ok : BOOLEAN, own : BOOLEAN, fits : BOOLEAN, to : Target \cup {NoUrl}]
Answers(r) ==
  {a \in Response : /\ a.own \/ (a.ok /\ r.at \in Listed)
                    /\ a.fits \/ (a.ok /\ r.url \in Listed)
                    /\ r.at = r.url => a.own = a.fits}
\* Content without a hash always passes.
Passes(r, a) == r.at \in Listed => a.own

Init ==
  /\ cache = [u \in {} |-> TRUE]
  /\ meta = [u \in {} |-> "young"]
  /\ inFlight = [u \in Url |-> NoThread]
  /\ th = [t \in Thread |-> Idle]
  /\ install = "off" /\ rest = {}
  /\ queue = {}
  /\ setting \in Setting
  /\ old = {} /\ oldMeta = {} /\ oldAtStart = {} /\ joined = {} /\ lost = {}
  /\ restarts = 0

-------------------------------------------------------------------------------
(***************************************************************************)
(* fetchAndCacheOnce(): the threads that ask for a URL someone is fetching  *)
(* await the same promise, which is that of the fetch alone: once it has    *)
(* resolved they go on without waiting for the response to be cached.       *)
(***************************************************************************)
FetchAndCacheOnce(t, u) ==
  LET owner == inFlight[u]
  IN  \/ /\ owner = NoThread
         /\ inFlight' = [inFlight EXCEPT ![u] = t]
         /\ th' = [th EXCEPT ![t] = Fetching(u)]
         /\ UNCHANGED joined
      \/ /\ owner # NoThread
         /\ th' = [th EXCEPT ![t] = At(IF th[owner].pc \in Caching THEN "resume" ELSE "join", u)]
         /\ joined' = IF t = Installer THEN joined \cup {u} ELSE joined
         /\ UNCHANGED inFlight

\* Fault: those who joined are not told.
ToldNobody(t, how) == th

\* The promise of t's fetch settles: those who joined take what it gave.
Told(t, how) ==
  [x \in Thread |-> IF th[x].pc = "join" /\ inFlight[th[x].url] = t
                    THEN [At("resume", th[x].url) EXCEPT !.got = how] ELSE th[x]]

\* Fault: the installation goes on after an error.
ContinuesAnyway(t, how) == UNCHANGED <<install, rest>>

\* What fetchAndCacheOnce() leaves to its caller.  The answer of a client and the
\* end of a task need nothing; the installation goes on, or rejects.
Continues(t, how) ==
  IF t # Installer THEN UNCHANGED <<install, rest>>
  ELSE IF how = "error" THEN install' = "failed" /\ rest' = {}
  ELSE UNCHANGED <<install, rest>>

LostToInstaller(t) == lost' = lost \cup ({th[t].url} \cap joined)

\* Fault: a rejected fetch stays in inFlightRequests.
FailsWithoutFinally(t, how) ==
  /\ th' = [Told(t, how) EXCEPT ![t] = Idle]
  /\ UNCHANGED inFlight
  /\ Continues(t, "error") /\ LostToInstaller(t)
  /\ UNCHANGED <<Storage, queue, Older, restarts, joined, oldAtStart>>

\* The fetch or the caching fails: the owner throws and clears its entry.
Fails(t, how) ==
  /\ th' = [Told(t, how) EXCEPT ![t] = Idle]
  /\ inFlight' = [inFlight EXCEPT ![th[t].url] = NoThread]
  /\ Continues(t, "error") /\ LostToInstaller(t)
  /\ UNCHANGED <<Storage, queue, Older, restarts, joined, oldAtStart>>

\* `const res = await fetchOp`, and the test of its status.
Fetched(t, a) ==
  \/ ~a.ok /\ Fails(t, "notOk")
  \/ /\ a.ok
     /\ th' = [Told(t, "ok") EXCEPT ![t] = [th[t] EXCEPT !.pc = "put", !.fits = a.fits]]
     /\ UNCHANGED <<Storage, inFlight, Plan, queue, World, joined>>

\* A redirected response is dropped and its URL fetched directly.
Follows(t, a) ==
  \/ th[t].limit = 0 /\ Fails(t, "error")
  \/ /\ th[t].limit > 0
     /\ th' = [th EXCEPT ![t] = [@ EXCEPT !.pc = "fetch", !.at = a.to,
                                         !.limit = th[t].limit - 1]]
     /\ UNCHANGED <<Storage, inFlight, Plan, queue, World, joined>>

\* fetchFromNetwork() has the response of cacheBustedFetchFromNetwork().
Takes(t, a) == IF a.to # NoUrl THEN Follows(t, a) ELSE Fetched(t, a)

\* The first fetch, which the HTTP cache may answer.  Only an ok response with
\* another hash leads to a cache-busted request.
FetchAnswers(t) ==
  /\ th[t].pc = "fetch"
  /\ \E a \in Answers(th[t]) :
       IF a.ok /\ ~Passes(th[t], a)
       THEN /\ th' = [th EXCEPT ![t].pc = "bust"]
            /\ UNCHANGED <<Storage, inFlight, Plan, queue, World, joined>>
       ELSE Takes(t, a)

\* Fault: the content of the second response is not checked.
BustAnswersUnchecked(t) ==
  /\ th[t].pc = "bust"
  /\ \E a \in Answers(th[t]) : IF a.ok THEN Takes(t, a) ELSE Fails(t, "error")

\* The cache-busted request, whose failure is critical.
BustAnswers(t) ==
  /\ th[t].pc = "bust"
  /\ \E a \in Answers(th[t]) : IF a.ok /\ Passes(th[t], a) THEN Takes(t, a)
                                                           ELSE Fails(t, "error")

Puts(t) ==
  /\ th[t].pc = "put"
  /\ cache' = With(cache, th[t].url, [fits |-> th[t].fits, direct |-> th[t].at = th[t].url])
  /\ th' = [th EXCEPT ![t].pc = "meta"]
  /\ UNCHANGED <<meta, inFlight, Plan, queue, World, joined>>

\* The time of caching.  `hashes` has paths and req.url is absolute, so it is
\* written for Listed URLs too, where nobody finds it.  Then the entry is cleared.
Stamps(t) ==
  /\ th[t].pc = "meta"
  /\ meta' = IF th[t].url \in Pattern THEN With(meta, th[t].url, "young") ELSE meta
  /\ inFlight' = [inFlight EXCEPT ![th[t].url] = NoThread]
  /\ th' = [th EXCEPT ![t] = Idle]
  /\ UNCHANGED <<cache, Plan, queue, World, joined>>

\* Writing fails, as when the user has cleared all data: a critical error.
CachingFails(t) == th[t].pc \in Caching /\ Fails(t, "error")

\* A thread that awaited the fetch of another goes on with what it gave.  Only the
\* owner tests the status.
Resumes(t) ==
  /\ th[t].pc = "resume"
  /\ th' = [th EXCEPT ![t] = Idle]
  /\ Continues(t, th[t].got)
  /\ UNCHANGED <<Storage, inFlight, queue, World, joined, oldAtStart>>

-------------------------------------------------------------------------------
(***************************************************************************)
(* handleFetch() and the revalidation of resources without a hash.         *)
(***************************************************************************)
\* Clients are assigned to an update only after its installation.
Request(c, u) ==
  /\ th[c].pc = "idle" /\ u \in setting.asked[c] /\ (setting.update => install = "done")
  /\ th' = [th EXCEPT ![c] = At("match", u)]
  /\ UNCHANGED <<Storage, inFlight, Plan, queue, World, joined>>

ClientMatches(c) ==
  /\ c \in Client /\ th[c].pc = "match"
  /\ \/ /\ th[c].url \in Cached
        /\ th' = [th EXCEPT ![c] = IF th[c].url \in Listed THEN Idle ELSE [@ EXCEPT !.pc = "age"]]
        /\ UNCHANGED <<inFlight, joined>>
     \/ th[c].url \notin Cached /\ FetchAndCacheOnce(c, th[c].url)
  /\ UNCHANGED <<Storage, Plan, queue, World>>

\* Fault: a response whose age is unknown is taken for fresh.
NeedsRevalidationIfKnown(u) == u \in DOMAIN meta /\ meta[u] = "old"

\* needToRevalidate(): responses with a max-age and without a Date header.
NeedsRevalidation(u) == u \in DOMAIN meta => meta[u] = "old"

ClientReadsAge(c) ==
  /\ th[c].pc = "age"
  /\ queue' = IF NeedsRevalidation(th[c].url) THEN queue \cup {th[c].url} ELSE queue
  /\ th' = [th EXCEPT ![c] = Idle]
  /\ UNCHANGED <<Storage, inFlight, Plan, World, joined>>

TaskRuns(u) ==
  /\ u \in queue /\ th[Revalidator].pc = "idle"
  /\ queue' = queue \ {u}
  /\ FetchAndCacheOnce(Revalidator, u)
  /\ UNCHANGED <<Storage, Plan, World>>

-------------------------------------------------------------------------------
(***************************************************************************)
(* initializeFully(): the Listed URLs, one after the other; then, in an     *)
(* update of a prefetched group, what the older version has cached without  *)
(* a hash.  The order of the URLs is left open.                             *)
(***************************************************************************)
Goes(pc) == th' = [th EXCEPT ![Installer].pc = pc]
Unstored == UNCHANGED <<Storage, inFlight, queue, World, joined>>

InstallBegins ==
  /\ install = "off"
  /\ \/ setting.mode = "lazy" /\ ~setting.update /\ install' = "done" /\ UNCHANGED rest
     \/ (setting.mode = "lazy" => setting.update) /\ install' = "listed" /\ rest' = Listed
  /\ oldAtStart' = {u \in old : u \in Listed \/ u \in oldMeta}
  /\ UNCHANGED th
  /\ Unstored

Visit(u) ==
  /\ install \in {"listed", "carry"} /\ th[Installer].pc = "idle" /\ u \in rest
  /\ rest' = rest \ {u}
  /\ th' = [th EXCEPT ![Installer] = At("match", u)]
  /\ UNCHANGED <<install, oldAtStart>>
  /\ Unstored

\* previouslyCachedResources(): it lists absolute URLs, of which those on the own
\* origin are neither in config.urls nor match a pattern of a path.
VisitedAll ==
  /\ install \in {"listed", "carry"} /\ th[Installer].pc = "idle" /\ rest = {}
  /\ IF install = "listed" /\ setting.mode = "prefetch" /\ setting.update
     THEN install' = "carry" /\ rest' = old \cap Foreign
     ELSE install' = "done" /\ UNCHANGED rest
  /\ UNCHANGED <<th, oldAtStart>>
  /\ Unstored

\* The URL is cached: on to the next.  Otherwise the older version is asked, or,
\* without one, the network.
InstallerMatches ==
  LET u == th[Installer].url
  IN  /\ th[Installer].pc = "match"
      /\ \/ u \in Cached /\ th' = [th EXCEPT ![Installer] = Idle] /\ UNCHANGED <<inFlight, joined>>
         \/ u \notin Cached /\ setting.update /\ Goes("lookup") /\ UNCHANGED <<inFlight, joined>>
         \/ u \notin Cached /\ ~setting.update /\ FetchAndCacheOnce(Installer, u)
      /\ UNCHANGED <<Storage, Plan, queue, World>>

\* lookupResourceWithHash(), and for the resources without one, which an update
\* carries over, lookupResourceWithoutHash(), which finds no metadata for a response
\* that the older version has put and not stamped yet, or never could.
HasUsable(u) == u \in old /\ IF u \in Listed THEN u \in setting.same ELSE u \in oldMeta

\* maybeUpdate(): copy what the older version has; otherwise a prefetched group
\* goes to the network, and a lazy one asks whether the URL was in use.  A resource
\* to be carried over that has no metadata is skipped (assets.ts:565-569).
Looks ==
  LET u == th[Installer].url
  IN  /\ th[Installer].pc = "lookup"
      /\ \/ HasUsable(u) /\ Goes("copy") /\ UNCHANGED <<inFlight, joined>>
         \/ ~HasUsable(u) /\ u \in Listed /\ setting.mode = "prefetch" /\ FetchAndCacheOnce(Installer, u)
         \/ /\ ~HasUsable(u) /\ setting.mode = "lazy" /\ setting.updateMode = "prefetch"
            /\ Goes("status") /\ UNCHANGED <<inFlight, joined>>
         \/ /\ ~HasUsable(u) /\ (u \in Listed => setting.mode = "lazy" /\ setting.updateMode = "lazy")
            /\ th' = [th EXCEPT ![Installer] = Idle] /\ UNCHANGED <<inFlight, joined>>
      /\ UNCHANGED <<Storage, Plan, queue, World>>

\* recentCacheStatus() reads the metadata under the path, where nothing is written:
\* what is cached counts as used.
ReadsStatus ==
  /\ th[Installer].pc = "status"
  /\ IF th[Installer].url \in old
     THEN FetchAndCacheOnce(Installer, th[Installer].url)
     ELSE th' = [th EXCEPT ![Installer] = Idle] /\ UNCHANGED <<inFlight, joined>>
  /\ UNCHANGED <<Storage, Plan, queue, World>>

\* The copy, whose content has the hash, and its metadata with the old time.
Copies ==
  /\ th[Installer].pc = "copy"
  /\ cache' = With(cache, th[Installer].url,
                   [fits |-> th[Installer].url \in Listed => th[Installer].url \in setting.same,
                    direct |-> TRUE])
  /\ Goes("copyMeta")
  /\ UNCHANGED <<meta, inFlight, Plan, queue, World, joined>>

CopiesMeta ==
  /\ th[Installer].pc = "copyMeta"
  /\ \E a \in {"young", "old"} :
       meta' = IF th[Installer].url \in Pattern THEN With(meta, th[Installer].url, a) ELSE meta
  /\ th' = [th EXCEPT ![Installer] = Idle]
  /\ UNCHANGED <<cache, inFlight, Plan, queue, World, joined>>

CopyFails ==
  /\ th[Installer].pc \in {"copy", "copyMeta"}
  /\ install' = "failed" /\ rest' = {}
  /\ th' = [th EXCEPT ![Installer] = Idle]
  /\ UNCHANGED oldAtStart
  /\ Unstored

-------------------------------------------------------------------------------
\* The older version serves its clients and caches more.
OldCaches(u) ==
  /\ setting.update /\ install # "done" /\ u \notin old
  /\ old' = old \cup {u}
  /\ UNCHANGED <<oldMeta, Storage, inFlight, th, Plan, queue, restarts, joined, lost>>

\* It writes the metadata after the response, or is stopped before.
OldStamps(u) ==
  /\ setting.update /\ install # "done" /\ u \in old \cap Pattern
  /\ oldMeta' = oldMeta \cup {u}
  /\ UNCHANGED <<old, Storage, inFlight, th, Plan, queue, restarts, joined, lost>>

\* The max-age of a cached response passes.
GrowsOld(u) ==
  /\ u \in DOMAIN meta /\ meta[u] = "young"
  /\ meta' = [meta EXCEPT ![u] = "old"]
  /\ UNCHANGED <<cache, inFlight, th, Plan, queue, World, joined>>

\* The browser stops the worker at any await.  An installation that was over is
\* begun again: what is cached is skipped.
Restart ==
  /\ restarts < setting.maxRestart
  /\ restarts' = restarts + 1
  /\ inFlight' = [u \in Url |-> NoThread]
  /\ th' = [t \in Thread |-> Idle]
  /\ install' = "off" /\ rest' = {}
  /\ queue' = {} /\ joined' = {} /\ lost' = {}
  /\ UNCHANGED <<Storage, Older, oldAtStart>>

InstallStep ==
  \/ InstallBegins \/ VisitedAll \/ \E u \in Url : Visit(u)
  \/ InstallerMatches \/ Looks \/ ReadsStatus \/ Copies \/ CopiesMeta \/ CopyFails

ThreadStep(t) ==
  \/ FetchAnswers(t) \/ BustAnswers(t) \/ Puts(t) \/ Stamps(t) \/ CachingFails(t) \/ Resumes(t)
  \/ ClientMatches(t) \/ ClientReadsAge(t)

Next ==
  /\ \/ InstallStep
     \/ \E t \in Thread : ThreadStep(t)
     \/ \E c \in Client, u \in Url : Request(c, u)
     \/ \E u \in Url : TaskRuns(u) \/ OldCaches(u) \/ OldStamps(u) \/ GrowsOld(u)
     \/ Restart
  /\ UNCHANGED setting

Spec == Init /\ [][Next]_<<vars, setting>>

\* Fetches settle, if only with an error, storage operations complete, and the code
\* after them runs; idle tasks are run in the end.  Nobody has to ask for anything.
Fairness ==
  /\ WF_vars(InstallStep)
  /\ \A t \in Thread : WF_vars(ThreadStep(t))
  /\ \A u \in Pattern : SF_vars(TaskRuns(u))

FairSpec == Spec /\ Fairness

-------------------------------------------------------------------------------
TypeOK ==
  /\ Cached \subseteq Url /\ \A u \in Cached : cache[u] \in [fits : BOOLEAN, direct : BOOLEAN]
  /\ DOMAIN meta \subseteq Pattern /\ \A u \in DOMAIN meta : meta[u] \in {"young", "old"}
  /\ inFlight \in [Url -> Thread \cup {NoThread}]
  /\ th \in [Thread -> ThreadState]
  /\ install \in {"off", "listed", "carry", "done", "failed"}
  /\ rest \subseteq Url /\ queue \subseteq Pattern
  /\ old \subseteq Url /\ oldMeta \subseteq old \cap Pattern /\ oldAtStart \subseteq old
  /\ joined \subseteq Url /\ lost \subseteq joined
  /\ restarts \in 0..1

\* assets.ts:24-25: "to make sure the SW never makes two network requests for the
\* same resource at once", and nobody waits for a request that is over: an entry
\* of inFlightRequests names the one thread at work on the URL, and without an
\* entry there is none, also after errors, redirects and failed writes.
OneOwner ==
  \A u \in Url : {t \in Thread : th[t].pc \in Owning /\ th[t].url = u}
                = {inFlight[u]} \ {NoThread}

\* "The Angular service worker validates the hashes of all resources for which it
\* has a hash" (service-worker-devops.md:56-57): what is cached for such a URL has
\* its hash, whether it was fetched, fetched again or copied from an older version,
\* as long as the fetch was not redirected.
DirectHashesValidated == \A u \in Cached \cap Listed : cache[u].direct => cache[u].fits

\* The same without the reservation.
AllHashesValidated == \A u \in Cached \cap Listed : cache[u].fits

\* What an installation has to fetch or copy: in a prefetched group all of
\* config.urls, in the update of a lazy one what the older version had, if only with
\* the same hash when updateMode is lazy; and what it had, with metadata, of other origins.
Required ==
  CASE setting.mode = "prefetch" -> Listed \cup (oldAtStart \cap Foreign)
    [] setting.mode = "lazy" /\ setting.updateMode = "prefetch" -> oldAtStart \cap Listed
    [] OTHER -> oldAtStart \cap setting.same

\* app-version.ts:113-115: "If this Promise resolves successfully, all required data
\* has been safely downloaded": a required resource is cached, or still being fetched or
\* stored by a request that the installation found at work on it (it awaits the fetch of
\* that request, not that the response is stored), or was lost with such a request.
InstallComplete ==
  install = "done" => \A u \in Required : u \in Cached \/ u \in lost \/ inFlight[u] # NoThread

\* assets.ts:512-513, "Any errors cause fall-through to the final Promise which
\* rejects": once a prefetched group is installed its URLs are cached, or being
\* cached by a request.
PrefetchedAll ==
  install = "done" /\ setting.mode = "prefetch"
    => \A u \in Listed : u \in Cached \/ inFlight[u] # NoThread

\* assets.ts:400-402: a cache-busted request is made if "the non-cache-busted request
\* failed (hopefully transiently)" or its content has another hash: no request for
\* a URL with a hash is given up without one.
RetriedBeforeFailing ==
  [][\A t \in Thread : th[t].pc = "fetch" /\ th[t].at \in Listed /\ restarts' = restarts
       => th'[t].pc # "idle"]_vars

\* Every request, revalidation and visit of the installation comes to an end:
\* redirects do not lead in circles, and no promise in inFlightRequests is left
\* unsettled.
RequestsEnd == \A t \in Thread : th[t].pc # "idle" ~> th[t].pc = "idle"

\* service-worker-devops.md:90-93: "broken unhashed resources do not remain in the
\* cache beyond their configured lifetimes": when a client is answered with an
\* expired one, or with one whose time was never written because the worker was
\* stopped or the write failed, it is fetched again, unless the worker is stopped.
StaleIsRefetched ==
  \A c \in Client, u \in Pattern, k \in 0..1 :
    (th[c] = At("age", u) /\ (u \in DOMAIN meta => meta[u] = "old") /\ restarts = k)
      ~> (inFlight[u] # NoThread \/ restarts # k)
===============================================================================
