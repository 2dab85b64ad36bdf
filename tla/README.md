# A TLA+ model of five protocols in Angular

The repository is a mirror of Angular 10.0.0-rc.0. This directory holds TLA+ modules for the
parts of it whose correctness depends most on interleavings, crashes, messages and storage:

- the **service worker**, `packages/service-worker/worker/src`;
- **ngcc on several processes** (the compatibility compiler), `packages/compiler-cli/ngcc/src/execution`
  and `ngcc/src/writing`;
- the **lock** that keeps runs of ngcc apart, `ngcc/src/locking`;
- the **navigations of the router**, `packages/router/src/router.ts`;
- the **tree of form controls** with asynchronous validators, `packages/forms/src/model.ts`.

TLC checks small instances, and TLAPS proves some of the properties for all of them. Paths below
are relative to the repository; a bare file name is one of the directory a section is about.

## Inventory

### The service worker

The browser runs one worker for all tabs of an application. It starts the worker for an
event, may stop it between any two of its awaits, and keeps what the worker has put into
`caches`. JavaScript is single-threaded, so the unit of atomicity is the code between two
awaits; every await is a place where other events run.

| Part | State | Operations | What makes it correct |
| --- | --- | --- | --- |
| `Driver` (`driver.ts`) | `state`, `initialized`, `versions`, `clientVersionMap`, `latestHash`, all but the first two also in the `control` table | events (fetch, message, activate), `initialize`, `assignVersion`, `updateClient`, `versionFailed`, `checkForUpdate`, `cleanupCaches`, `sync` | a client keeps its version; pins and the latest hash refer to loaded versions; a restart finds what was saved; every event is answered |
| `AppVersion` (`app-version.ts`) | asset groups, data groups, `okay` | `handleFetch`, `initializeFully`, lookups for an update, `cleanup` | a version answers with its own resources only |
| `AssetGroup` (`assets.ts`) | caches, metadata, `inFlightRequests` | `handleFetch`, `fetchAndCacheOnce`, revalidation, prefetch and lazy installation | no resource is cached under a wrong hash; one request per URL at a time; an installation is complete |
| `DataGroup` (`data.ts`) | cache, age table, LRU table, `_lru` | `handleFetch` with two strategies, caching in the background, eviction, `cleanup` | cache and LRU chain agree; the size limit is kept; mutations invalidate |
| `LruList` (`data.ts`) | a doubly linked list in a plain object | `pop`, `remove`, `accessed` | the pointers agree, the order is that of use |
| `IdleScheduler` (`idle.ts`) | `queue`, `scheduled`, `empty` | `schedule`, `trigger`, `execute` | each task runs once, and only after the quiet time |
| `CacheDatabase` (`database.ts`, `db-cache.ts`) | open tables | read, write, delete | - |
| Page side (`packages/service-worker/src`) | subscriptions | `checkForUpdate`, `activateUpdate`, push | every operation gets its own status |

Calls: an event enters the `Driver`, which pins the client to an `AppVersion` and passes the
request on; the `AppVersion` asks its asset groups and then its data groups; a data group
moves URLs in its `LruList`. All of them put work off with the `IdleScheduler`. The page talks to
the driver with messages.

Hard to get right: two events between the awaits of a third (pins, `latestHash` and `versions`
are read again after awaits); three writes per `sync()` with a stop between them; two update
checks at once; a cleanup whose list of clients and versions ages; a fetch shared by a request, a
revalidation and an installation; a background fetch that outlives its request; overlapping
executions of idle tasks.

### ngcc on several processes

| Part | State | Operations | What makes it correct |
| --- | --- | --- | --- |
| `ParallelTaskQueue` (`execution/tasks/queues`) | tasks, in progress, blocked, to skip | `getNextTask`, `markAsCompleted`, `markAsFailed`, `markAsUnprocessed` | each task is in one place; none starts before its dependencies |
| `ClusterMaster` (`execution/cluster/master.ts`) | `taskAssignments`, `remainingRespawnAttempts`, `finishedDeferred` | one handler per message and event of a worker | what is marked is written; the run ends; files of a dead worker are restored |
| Workers (`worker.ts`, `create_compile_function.ts`, `ngcc/src/writing`) | files, messages under way | compile, announce, back up, write, report | - |

Workers are processes: they fail, die anywhere, and their messages, exits and closed channels reach
the master as separate events.

### The lock of ngcc

`LockFileWithChildProcess` creates a file with its pid; `AsyncLocker` waits for it, `SyncLocker` gives up.
Each run forks an *unlocker* that removes the file when the run's channel closes. Correct is: one
run works at a time, a dead run's file goes away, waiting ends. Hard: every access to the file is a
separate system call, and a removal compares pids and then unlinks a name.

### The router

`Router` keeps one pipeline of RxJS operators. A navigation passes it asynchronously (recognition,
guards, resolvers); the next one unsubscribes from it. State: the last transition, `currentUrlTree`,
`rawUrlTree`, `browserUrlTree`, `routerState`, `currentNavigation`, the promises that callers hold, timers of
redirects and of history events, and the browser's own history. Correct is: one navigation runs;
its promise and events agree and come; what is shown is the last success. Hard: superseding in the
middle of scheduling; a redirect that continues from a timer with somebody else's promise; failures
after the state was updated.

### Form controls

A form is a tree of `FormControl`s in `FormGroup`s (`model.ts`). Each keeps `value`, `errors`, `status`, `_parent`, the flag
`_hasOwnPendingAsyncValidator` and the subscription to its asynchronous validator. Operations: `setValue`, `patchValue`,
`reset`, `updateValueAndValidity`, `disable`, `enable`, `setErrors`, `addControl`, `removeControl`, `setControl`, and the answer of a
validator. Each recomputes a part of the tree: the subtree, the control, the path to the root. Correct is: status and value
agree everywhere; VALID means validated; PENDING ends; listeners learn it. Hard: answers that come after the value, the
tree or the status has changed.

### The rest of the repository

Compilers, the language service, the core runtimes, platforms, http, zone.js, the
documentation site and the tooling. `PROJECT.json` lists them with the reason why they are not
modelled: most are sequential transformations of large data. See *Not modelled*.

## Modules

| Module | Models | Kind |
| --- | --- | --- |
| `LruList` | class `LruList`, its methods as operators on the state object | operators |
| `Recency` | what an LRU chain promises, without pointers | abstract specification |
| `LruChain` | any sequence of calls on one chain; refines `Recency` | state machine |
| `DataGroup` | class `DataGroup`; composed with `LruList` | state machine |
| `AssetGroup` | `AssetGroup` and its two subclasses, with the older version an update copies from | state machine |
| `IdleScheduler` | class `IdleScheduler` | state machine |
| `Driver` | the core of class `Driver` | state machine |
| `NgccQueue` | `ParallelTaskQueue`, `BaseTaskQueue`, `tasks/utils.ts` | operators |
| `NgccCluster` | `ClusterMaster`, its workers and the file writers; composed with `NgccQueue` | state machine |
| `NgccLock` | `AsyncLocker`, `SyncLocker`, the lock file and its unlocker | state machine |
| `Router` | the navigation pipeline of class `Router` | state machine |
| `Forms` | `FormControl` and `FormGroup` with asynchronous validators | state machine |
| `DataGroupProofs`, `AssetGroupProofs`, `IdleSchedulerProofs`, `DriverProofs`, `NgccClusterProofs`, `NgccLockProofs`, `RouterProofs`, `FormsProofs` | theorems about the module in the name; those about `LruChain` are in `DataGroupProofs`, which uses them | proofs |
| `MC...` | instances for TLC | model values |

Definitions whose comment begins with *Fault* (in the ngcc modules: those with a suffix such as
`PastLimit`, `Unchecked`, `Anyway`) are single plausible mistakes in the operator that follows. No
specification uses them; each shows, put in the place of the operator it imitates, that a property
would notice.

Where a class has settings (a strategy, a mode, an update policy) the module has a constant `Setting`, a set
of records, and a variable `setting` chosen once in `Init`: one run then covers several configurations.

### LruList, LruChain, Recency

The `state` object of the code is the record `lru`; `map` is a function whose domain is the set of
URLs in the chain. None of the methods awaits, so each is one operator, with its cases in the
order of the code (`RemoveHead`, `RemoveInner`). `LruChain` keeps, as a history, the time of each
URL's last use. `Recency` has only the set of URLs and these times: `pop()` must answer with one
that was used the longest time ago. `EvictsLeastRecentlyUsed` is `Recency`'s specification under the
mapping `entries <- Tracked(lru)`.

### IdleScheduler

A `Call` is one invocation of the asynchronous `trigger()`: suspended at its timeout, then
returning (if a later call has set its `cancel` flag) or executing. Invocations overlap freely, and
so do executions. Time is counted in ticks, the threshold is a constant. `quiet` is a history.

### DataGroup

A request has a *front*, the code the client waits for, and a *cacher*, the call of
`safeCacheResponse()` that `ctx.waitUntil` may let run on after the answer; both are at an await
(`pc`), and each action is the code up to the next one. `lru()` is modelled as it is: two requests
may each build a list, and the field `_lru` holds the later one while the first request goes on
with its own. `clearCacheForUrl()` deletes side by side, so its deletions are separate steps.
Writes may be rejected (`writesFail`), fetches may succeed, fail, reject or stay pending, the timeout
may fire at any time, responses grow old, and the worker may be stopped. With `shared` the
`AppVersion` of an older manifest with the same `appData` version is cleaned up: it deletes the
cache and both tables under their names, one after the other, while this group still has them open
(`doomed`); what is written to an open table after that is lost with the next restart. A
response is the version of the data the server had when it answered, because only its staleness
matters. The two deletions of the GET and the HEAD entry count as one. A request ends `answered`, `offline` (its fetch
was rejected, and with it `handleFetch()`), `failed` (a write was) or `dropped` (the worker was stopped).

Any number of requests may be in flight, and then cache and chain do not always agree. Two histories say for which URLs that is
known. `raced` collects the URLs whose response one request deletes while another has found or stores it
(`Contested`), those changed by a request that works with an `LruList` which is no longer the one in `_lru` (`Orphaned`), and those
whose change was not yet written when the chain in memory was replaced by the one on disk (`Unsaved`). `overtaken` collects the URLs
of a mutation during which another request had the URL in hand, the background caching of an earlier one included. The properties
except these URLs and hold for all others, and nothing but these histories looks at who else is at work.

### AssetGroup

A thread is a client's request, the revalidation task that runs or the call of `initializeFully()`; each is
at an await. `inFlight` names the owner of the promise for a URL; those who join it wait for the owner, and
are resumed in the step that settles it. A response is reduced to: status ok, content fits the hash of its URL,
redirected to where. The cache-busted retry, the limit on redirects, the metadata that is
written after the response, rejected writes and a restart (of a worker with a half-done
installation) are steps. An update copies resources with the same hash from the older version, whose cache
grows meanwhile as its clients go on (`OldCaches`, and `OldStamps` for the metadata it writes after the response). A resource
without a hash that the older version has, but whose metadata is missing, because that version was stopped between the two
writes or has not come to the second, is skipped as in `assets.ts:565-569`: nothing promises that it is carried over. The
histories `joined` and `lost` note the URLs whose fetch by another the installation awaited, and those of them whose fetch or
storing then failed: the only required resources that `InstallComplete` lets an installation miss. Approximations, towards more
behaviour: an idle revalidation may be any queued one, the URLs of an installation come in any order, and
responses without a `Date` header have no age. `cleanup()` is left out: nothing runs in a version that
is cleaned up.

### Driver

`versions` maps hashes to the AppVersion object that stands for them; the object is a number, so
that `versionFailed()` can look for the very object it was given, as the code does. `pins` is
`clientVersionMap`. `event` holds what each fetch or message event being handled awaits, `check` the
same for update checks and the cleanup after one. `disk` is the control table and `writes` the writes that
were started and have not landed: writes of one key land in order, those of different keys in any
order, and a restart drops the rest. An AppVersion is abstracted to its outcomes: it cannot be built
(`Bad`), it installs or fails, it answers or throws a critical error. Requests the driver leaves alone in
every state (bypass, debug page, mixed content, `only-if-cached`) are not in the model.

Update checks overlap freely. Two may install one manifest; if the second installation comes when a newer version has
made the first one obsolete, a cleanup that has it on its list removes the version that has just become the latest. The history
`doomed` says that this has happened in the life of the worker; `VersionsLoaded` and `RestartRestores` except such a
worker and no other, and nothing but `doomed` asks how many checks there are.

Approximations, all towards more behaviour: the time between the parts of a handler separated
only by already resolved promises counts as a place where others run if the code awaits there, except
in `sync()`, where the control table is open and the state is copied in the step that calls it;
obsolete versions are removed in any order, and the clients that `notifyClientsAboutUpdate()` lists may be any
of those there are or were. Assumed: writes to the control table succeed; after the caches and the
registration were deleted the worker lives on but is not started again; writes to a deleted table are lost.

### NgccQueue, NgccCluster

A task is its position in the list that the analysis makes; the queue is a record and each of its methods
an operator, including the skipping of tasks whose dependency has failed, which happens inside
`getNextTask()`. In `NgccCluster` one action is one handler of the master (`online`, the messages, the exit of an
idle, a busy or an unknown worker). A worker compiles, announces its files and waits for nothing: then it
backs up and writes file after file, or writes a new entry-point, and reports. Messages of one
worker keep their order; its exit event is emitted after those the channel delivered, and the worker leaves
`cluster.workers` with a second event (`Disconnect`). A worker may die at any point; what it had not
sent is lost, what it had half written stays. `stray` is a history: the tasks that `onWorkerExit()` gave back
while a backup of one of their files was left behind. With `errorOnFailedEntryPoint` false, the default
(`ngcc_options.ts:178`), the retry of such a task skips the file and reports success, so `DependenciesCompiled` and
`ProcessedIsWritten` except exactly these tasks, and only in that setting.

### NgccLock

An action is one access to the file system, the process table, or a timer. `file` carries the run that
created it, which the code cannot see; the code compares only the pid written into it (`Content`). The
file exists before its pid does. An unlocker is `starting` until it has noted its parent's pid.
Any process may be killed, up to `MaxKills`; pids are not reused. `same` is a history that counts
consecutive reads of one holder.

### Router

A transition is a record in `navs`; its id is its position. A navigation is in a phase between two
asynchronous points (`recognizing`, `guarding`, `resolving`) or `done`. `ScheduleNavigation` is the whole
synchronous cascade of `scheduleNavigation()`: the capture of the current state, the unsubscription
by `switchMap` with the `finalize()` of the other navigation, and the head of the new one up to its
`Promise.resolve(t)`. Routes are reduced to what they lead to: a redirect by configuration (to `Root`), no match
or a throwing loader, a refusing or redirecting `CanLoad`, `Guards` guards that answer in any order, a
resolver that stays empty or fails, an activation that throws. `timers` holds the callbacks of
`setTimeout(..., 0)`, in order: the redirects and the history events, of which Edge and IE fire two for
one move. The `UrlHandlingStrategy` is the default one (every URL processed, `merge` and `extract` the identity in
effect), hooks are the default ones, and no handler of a router event navigates synchronously. Guards,
loaders and resolvers settle. `active` stands for what the outlets show, apart from the field `routerState`: an activation that
throws has destroyed components before (`activate_routes.ts:119-123`), and `resetState()` restores fields only, so that `active` is `Torn`
from then on, until a navigation activates routes that it does not share with the state it starts from (`Reused`,
`Activated`). `activationFailed` is a history.

### Forms

`form` maps each control to a record of its fields. A call is synchronous, so it is one action: a recursive function over the
controls in an order that has children before parents (`Cascade`), which does at each one that the call visits what the call
does there (`Done`). Which controls it visits is what
differs: `Below` for the recursion through `_forEachChild`, `Up` for the one through `_parent`, which a removed control keeps.
Siblings do not read each other while they are updated, so their order does not matter. A validator is reduced to its verdict,
chosen anew each time, and a name under which a control is registered to the control itself. `run` is the live
subscription, if there is one, with the value it was started for; `approved` and `manual` are histories, `told` is the last status that
`statusChanges` emitted. Constructors validate silently, as in the code. `reset()` is a `setValue()` with other values, and
`updateValueAndValidity()` one with the same. Assumed: validators answer later and at most once, a control is in one
group at a time, calls carry neither `onlySelf` nor `emitEvent: false`, and no directive is bound, so that `_onCollectionChange()`
does nothing.

## Runs

Bounds are constants of the specifications or members of a setting.

| Run | Instance | Shows |
| --- | --- | --- |
| `lru_chain` | 3 URLs; histories up to `MaxUse` | links, count and order together (`ChainSound`), refinement of `Recency` |
| `idle_scheduler` | 3 tasks, 3 calls, threshold 2 | no task lost or doubled, one run scheduled, work put off, a queued task with a scheduled run settles |
| `data_group` | 8 settings: 1 request and its cacher under both strategies, with size 0, 1 or 2 and 1 to 3 URLs, timeouts, failing writes, a restart, a shared version with a restart; and 2 requests for one URL; 1 mutation | cache and chain agree in memory and on disk, size kept, no stale answer after a mutation, every request comes to an end the client sees |
| `driver` | 2 versions, 1 client, 1 event, 1 check, 1 deployment, 1 restart | pins and latest loaded, a restart restores, pins move for a reason |
| `driver_live` | the same, with a version that cannot be built | events end, whatever fails |
| `asset_group` | 2 hashed URLs, 1 pattern URL that is also the target of redirects, 2 clients, redirect limit 1; 5 settings: installation, updates, lazy and prefetched, restarts | one owner per fetch, right hashes, complete installations, requests end, stale resources are fetched again |
| `ngcc_cluster` | 4 tasks of 3 entry-points that need each other, 2 workers at a time, up to 4 forked, up to 2 deaths; both writers; tasks may fail or throw | tasks in one place, order of dependencies, skipping, what is marked is written, the run ends |
| `ngcc_lock` | 3 processes (2 wait, 1 does not), one run each, 2 attempts, 1 kill | exclusion, timeouts of one holder, runs end, the lock is released but for the two windows named in `LockIsReleased` |
| `forms` | root with a group and a leaf, the group with a leaf; 2 values; asynchronous validators at the root and at a leaf, a synchronous one there too; the other leaf moves | tree in sync, VALID is approved, PENDING awaits an answer, status is told |
| `router` | 2 URLs, 2 guards, 3 navigations, 1 move through the history; deferred/ignore, deferred/reload, eager/ignore | one navigation runs, promises tell what events tell and settle, the router's fields are those of the last success, the components too until an activation fails, the URL follows, guards decide by priority |

Why these are enough. Three URLs give a chain a head, an inner node and a tail; size 2 makes the third evict.
Three calls of `trigger()` are an executing one, a waiting one and one that replaces it. In `driver` an event
meets an update, a failure, a cleanup and a crash at each of their steps; a second version is enough to be
obsolete, and one restart brings the post-load task with its cleanup. Two clients, the installer
and the revalidator are all the ways to meet at one URL in an asset group. Four tasks contain a task that
blocks two others, a chain, and a second format without typings; two deaths kill the replacement
of the first. Two waiting processes and an impatient one meet a holder, its unlocker and a stale file. Three
navigations are one that succeeded, one that runs and one that supersedes it, or a redirect between
them; two URLs suffice because the code compares URLs for equality only. A path of three controls has one
between the validator that answers and the root, a group that can be left empty, and a sibling whose changes restart the root's
validation; there is no bound on the number of calls.

The second request of `data_group` asks for the one URL of its setting, because only requests for one URL change the same
response; two requests for two URLs at once exceed the time of a run, and are covered by the proofs.
Two checks beside an event exceed the time of the run `driver` too. What two checks can do to each other takes three versions, two
deployments and the restart: in that instance (`Hash3`, `Check2`, no event) both invariants hold, `doomed` becomes true, and
without the exception they fail; for events and checks in any number they are proved.
The single run per process of `ngcc_lock`
is essential, not economical: the table below shows that the properties fail beyond it.
Deadlock is not checked (`CHECK_DEADLOCK FALSE`) where an instance may come to rest: a worker with
no more events or a run that has ended. Each module has a type invariant `TypeOK`; the runs list properties about
hazards instead, apart from `driver`, and `TypeOK` holds in each of the instances above when it is added to them.

### Where the code does not do what the repository says

Both runs find one property violated; `PROJECT.json` quotes the line it comes from.

| Run | Property | What happens |
| --- | --- | --- |
| `driver_served` | `ServedAsPinned` | an update during `sync()` changes the version that answers a client's first request |
| `ngcc_originals` | `OriginalsKept` | a worker dies between announcing its files and writing one; the master, to restore the original, deletes it |

More of the same kind is known but is not in the list of runs. TLC finds each of these in the
instance named, with the property given in the place of the instance's own.

| Instance | Property | What happens |
| --- | --- | --- |
| `MCIdleScheduler.cfg` | `TasksRunSerially` | a trigger during a long execution starts a second one beside it |
| `MCIdleScheduler.cfg` | `RunsOnlyWhenQuiet` | a trigger on an empty queue does not put off the scheduled run |
| `MCDataGroup.cfg` | `MutationIsSent` | a rejected LRU write rejects a POST before it is sent |
| `MCDataGroup.cfg`, `Busy` | `InSync`, without excepting `raced` | each of two first requests builds its own list |
| `MCDataGroup.cfg`, `Busy` with two URLs | `WithinMaxSize`, without the place for the second request | two requests evict before either inserts |
| `MCDataGroup.cfg`, `Busy` with two URLs | `NoStaleAfterMutation`, without excepting `raced` and `overtaken` | a response fetched before a mutation is stored after it |
| `MCDriver.cfg`, `Hash2`, 1 event, 1 check, 2 deployments, no restart | `LatestIsLastFetched` | a rollback to a loaded version is ignored |
| `MCDriver.cfg` under `FairSpec` | `CleanupSparesTheLiving` | a client that opens during `matchAll()` loses its pin |
| `MCDriver.cfg`, `Hash3`, no event, 2 checks, 2 deployments | `VersionsLoaded` or `RestartRestores`, without excepting `doomed` | two installations of one manifest and a cleanup |
| `MCDriver.cfg`, two restarts | `DiskAssignmentsLoaded` | a crash between two writes of `sync()` |
| `MCDriverLive.cfg` | `SafeModeUntilRestart` | a failing update check leaves SAFE_MODE |
| `MCDriver.cfg`, 2 deployments, no restart | `NoAssignmentToInvalid` | ACTIVATE_UPDATE pins to a failed version |
| `MCAssetGroup.cfg` | `AllHashesValidated` | a redirect is followed by a second request whose content nobody compares with the hash |
| `MCAssetGroup.cfg` | `PrefetchedAll` | a prefetched installation joins a client's fetch of a URL and takes it for cached (`assets.ts:512-513`) |
| `MCAssetGroup.cfg` | `RetriedBeforeFailing` | a first response that is not ok ends the installation without the cache-busted request (`assets.ts:400-402`) |
| `MCNgccLock.cfg`, two runs per process, no kills | `OneInstanceAtATime` | the unlocker of a process's first run removes the lock of its second (`async_locker.ts:18`: "prevent more than one instance of ngcc executing at the same time") |
| `MCNgccLock.cfg` | `LockIsReleasedButInWindow` | a run is killed between creating the file and writing its pid: the unlocker is ready, but compares its pid with an empty file and leaves it; every later run waits in vain (`index.ts:31` admits only a kill before the unlocker is ready) |
| `MCNgccCluster.cfg` | `BugOnlyWithTasksLeft` | the last tasks are skipped inside `getNextTask()`, after the master has asked whether all are completed; the run is rejected as a bug |
| `MCNgccCluster.cfg` | `LastWorkerReplaced` | two workers die while both are still in `cluster.workers`: neither counts as the last, none is replaced, the run never ends |
| `MCRouter.cfg` | `IgnoredOnlyIfCurrent` | `router.ts:363-366` promises to ignore requests "to the current URL"; `browserUrlTree` is not taken back when an activation fails or an eager navigation is refused, and then a retry of that URL is ignored although something else is shown |
| `MCRouter.cfg` | `ComponentsRestored` | a component throws when it is activated: URL tree and `RouterState` are taken back, the components that were destroyed before are not, and a retry of the old URL reuses them as if they were there |
| `MCRouter.cfg` | `SkippedOnlyIfShown` | the user goes back to a URL whose imperative navigation failed: the event is skipped (`router.ts:1129-1136`) |
| `MCRouter.cfg` | `RedirectYields` | a redirect's timer fires after the application has begun another navigation, and supersedes it |
| `MCRouter.cfg` | `UrlSettles` | an activation that fails after `Location.go()` leaves an entry of the history behind, and a navigation cut short by an empty resolver leaves its URL in the eager mode |
| `MCForms.cfg` | `ToldPendingAwaits` | the validation that a constructor starts is silent, and so is its answer at all ancestors: a group that was told PENDING by a later call is never told the outcome, although `model.ts:324` promises an event "every time" |
| `MCForms.cfg` | `ApprovedIfValid` | `setErrors(null)` makes a control, and its ancestors, VALID although their asynchronous validators were not asked about the present value |

`RunEnds` therefore assumes that no two workers have died while still listed, and `UrlFollowsState` that no
activation has failed and nobody has moved through the history; it is about the deferred mode after a first
success, without `skipLocationChange`, and includes every other failure. `ShowsLastSuccess` says of the components that
after a failed activation they may be torn down instead.

## Fairness

All fairness is weak fairness of continuations that the platform runs. `WF` of a disjunction
is enough where its parts exclude or do not starve each other.

- `IdleScheduler!FairSpec`: time passes, and an invocation whose timer has fired or whose task has settled goes on.
  Nobody has to call `schedule()` or `trigger()`.
- `DataGroup!FairSpec`: storage operations and timers complete, the code after them runs, and, where there is
  no timeout to cover for it, a fetch settles, if only with an error.
- `AssetGroup!FairSpec`: storage operations and fetches settle in each thread. Nobody has to make requests,
  and no resource has to age.
- `Driver!FairSpec`: initialization, the writes of each key and the steps of each event complete. Update checks and
  cleanups need not, so the liveness of events does not depend on them.
- `NgccCluster!FairSpec`: some process that can go on does; only finitely many workers die.
- `NgccLock!FairSpec`: each process and each unlocker goes on; kills are not fair.
- `Router!FairSpec`: timers fire, and a navigation that is recognized, guarded or resolved gets an answer of
  some kind. Nobody has to navigate. `PromisesSettle` excepts the bound: redirects beyond `MaxNav`.

## Proofs

`DataGroupProofs` begins with the chain, for any set of URLs and any `MaxUse`, from `NoUrlAssumption` and `MaxUseAssumption`:

- `ChainTypeCorrect`: `ChainSpec => []ChainTypeOK`.
- `ChainCorrect`: `ChainSpec => []ChainSound`: well linked, counted exactly, ordered by recency.
- `ImplementsRecency`: `ChainSpec => R!Spec`.

The inductive invariant joins the types, the links, the count, the order and the fact that the URLs in the
chain have been used. The order is not an addition for its own sake: locally consistent links also allow a ring of
URLs beside the chain, from which `remove()` could take the wrong node as the last one; that times fall along `next`
excludes it, and gives the step of the refinement in which the tail is least recently used.

Then the data group, for any URLs, requests, settings and number of versions, and any number of requests in flight and restarts,
from `NoUrlAssumption` and `SettingAssumption`:

- `InSyncCorrect`, `SavedCorrect`: cache and chain agree in memory and on disk, except for the URLs in `raced`.
- `SizeCorrect`: while `raced` is empty the cache holds at most `maxSize` responses (one, if that is 0) and one more for each
  further request.
- `FreshCorrect`: nobody is answered with data older than a mutation that came before, except for the URLs in `raced` and
  `overtaken`.

The exceptions are those the code has: without them TLC refutes each of the properties (in the table above). The inductive invariant
`IInv` says, besides types (`Shapes`) and that the histories saw what they watch for (`Watched`), what holds of each URL that was
not raced (`StoreGood`): a response is deleted only after the chain has forgotten it and stored only after the chain knows it,
who has found a response in the cache still finds it there, and what the disk does not know is still to be written by somebody;
of each URL that was not overtaken either, that what the cache, a fetch or a cacher holds of it is what the server has
(`FreshGood`); and that the chain has room for each eviction under way (`SizeGood`). The step of one request is reduced to
what it does to one URL (`Local`): the lemmas `StoreMoves`, `FreshMoves` and `SizeMoves` show once that the invariant of the
others survives such a step, because an interference would have put the URL into a history, and then each action is shown to be of that
form. A restart is a reload of the chain from the disk like the one of a second first request; both rest on the last part of
`StoreGood`. Every operation on the chain is one of `LruList`, so the lemmas of the chain say what it does.

`AssetGroupProofs`, for any URLs, threads and settings, from the module's assumptions:

- `AssetTypesCorrect`: types.
- `OwnerCorrect`: at most one thread fetches a URL. Its invariant relates the map of pending fetches and the
  threads in both directions: an entry belongs to a thread that is at one of the awaits of its own fetch.
- `HashesCorrect`: what is served directly was validated. What is about to be stored was checked against the hash
  of its own URL, and is copied from the older version only if the hash is the same.
- `InstallCorrect`: an installation that ends has every file it requires. While it runs, each required URL is still
  in the list, in the hands of the installer, in the cache, or one whose fetch by another the installer has joined; and a
  fetch that was joined (`joined`) is under way, or has failed (`lost`), or its response is in the cache.

`IdleSchedulerProofs`, for any tasks, calls and threshold, from `NoCallAssumption` and `ThresholdAssumption`:

- `TypeCorrect`, `EmptyCorrect`: types, and `empty` unresolved while work is queued.
- `RunCorrect`: a suspended call that is not cancelled is the one in `scheduled`. It needs that a call not yet made
  carries no `cancel` flag.
- `PutOffCorrect`: no execution within the threshold of a trigger that found work. It needs that the timer of the
  scheduled run and the time since it was armed always add up to the threshold.
- `TaskCorrect`: a scheduled task is in the queue or in one batch, once. The invariant arranges queue and batches in one
  table of sequences; lemmas say what joining, moving a whole row and taking the head do to the places of each task.

`DriverProofs`, for any clients, manifests, deployments, failures and restarts, from `NamesAssumption` (which asks that
there be finitely many events at a time):

- `TypesCorrect`: types, for any number of update checks at once. That a newly installed version always finds a number that no
  event in progress still refers to is a pigeonhole argument, hence the finite set.
- `PinsCorrect`: a pin moves only to the latest version, and only because the client asks or its version has failed; for any
  number of checks.
- `LoadedCorrect`, `RestoresCorrect`: what a client is pinned to is loaded, and the disk has what is in memory at rest, for any
  number of checks, except in a worker that has installed a version while a cleanup was about to remove it (`doomed`).

The invariant describes the disk by what it will hold when all writes under way have landed (`Due`): for each key, the value of the
last write in the queue, or what is there. Then `SavedInv` can say that what is in memory is due on the disk except while a
cleanup removes versions, and `LoadedInv` that the lists of the cleanups under way, however many, name only versions that
nobody needs: pins move to the latest version only, so that nothing but an installation (`doomed`) can bring a listed version back.

`NgccClusterProofs`, for any tasks, graph of dependencies, workers and settings, from `ClusterAssumption`:

- `TasksCorrect`: a task is queued, in progress at exactly one worker, completed or skipped, never two of these.
- `DependenciesCorrect`: a worker compiles a task only when the tasks that block it are marked as processed and their
  typings are written; with the lenient setting except those in `stray`.
- `SkippedCorrect`: skipped is exactly what depends on a task that failed.
- `WrittenCorrect`: a task that is marked as processed has its files on disk, with the same exception.

The inductive invariant has two halves. While the run is pending, the queue (`QueueInv`), the table of assignments
(`TableInv`) and the workers (`WorkersInv`) agree: a task in progress is in the table once; a worker in the table works on that task, or
its outcome is the last of its messages; `processed` is said only after the last file was written. Always, also after the
master has stopped while workers finish: `DiskInv`, `CompiledInv`, `MarkedInv`, `ForkedInv` and the property of
`SkippedCorrect` itself. `BackupInv` is what shows that a backup is in the way of a task in `stray` only: outside `stray`, the
files of a task that nobody has begun have no backup, and those its worker has still to move have none either. The loops of the code (`getNextTask()` skipping tasks, `maybeDistributeWork()`, the dependents that
`markAsFailed()` collects) are recursive functions; the lemmas `LoopExists`, `LoopUnique` and `LoopKeeps` show, for any
set and any step that lessens a measure, that such a function is defined and keeps what one round keeps.

`NgccLockProofs`, for any processes, retries and kills, from `LockAssumption`:

- `TypeCorrect`, `TimeoutCorrect`: types, and no timeout before `RetryAttempts` reads of one holder, for any number of
  runs. The invariant ties the history `same` to the code's counter of attempts.
- `Exclusion`, `OneAtATime`: a run that works has its own lock file, so no two work, if `MaxRuns = 1`. The inductive
  invariant says which unlockers may act: one whose run is alive is connected, one that is past its
  comparison of pids belongs to a dead run, and a file whose pid matches belongs to that very run. The last part is
  what `MaxRuns = 1` gives and what does not hold without it (`OneInstanceAtATime` above).

`RouterProofs`, for any URLs, guards, settings, any number of navigations and moves, from `RouterAssumption` and
`AnswersDistinct` (a guard's answer is a URL tree or not):

- `RunningCorrect`: only the last navigation runs, and `currentNavigation` is it or null.
- `ShownCorrect`: the URL tree and the `RouterState` are those of the last success, and so are the components; after a failed
  activation the outlets may be torn down instead.
- `LatestEnds`: what was superseded never succeeds.
- `TypesCorrect`: types.
- `PromisesCorrect`: a promise is resolved with what the events of its navigation tell, and is pending while there is somebody
  to settle it. The invariant: a promise is borne by one navigation that runs or by one redirect that waits, never by
  two of them, and no settled one is borne.
- `UrlCorrect`: in the deferred mode, after the first success, without `skipLocationChange`, travel or a failed activation, the browser
  shows the URL of the state, also where recognition, guards or resolvers fail.
- `PriorityCorrect`: of the guards' answers the first one that refuses decides, in the order of the guards.

For the first three the invariant adds three facts to the properties: `navs` is a sequence of records; what
succeeded is over, so its target is final; and while a navigation runs, what it would fall back on is what is
shown. The last is why `resetStateAndUrl()` with values captured at scheduling is right: nothing else
changes them while this navigation is the one that runs. One lemma covers everything that schedules
(calls, timers, history events), one every end without success, and one every step to another phase.

`FormsProofs`, for any tree of controls, any validators and values, from `FormsAssumption` (no cycles, which is what the
order `BottomUp` says, and only leaves move):

- `TypeCorrect`: types.
- `SyncCorrect`: status and value of each control are those computed from what is below it.
- `ApprovalCorrect`: VALID means accepted by the asynchronous validator, until the application sets errors.
- `PendingCorrect`: whoever is PENDING waits for a validator that runs. It follows from the others: the lowest
  control below it that is PENDING waits for its own validator.
- `ToldCorrect`: who knows the status of a control goes on knowing it.

`CascadeNodes` makes a call a set of equations: however large the tree, each control that a call visits ends as the result of one visit
with its children as they are in the end (`CascadeStages` shows that the recursive function is defined, by the least position at
which it would not be). What a call visits is closed upwards (`Upward`, and `UpNotBelow` for `disable()`, which updates the
ancestors only), so a control that was left alone has nothing changed below it. `RecalculatedSync` and `AnswerKeeps` argue from
the lowest control that would differ: errors enable and disable nobody, so values stay right, and an answer changes the status of
those only that were PENDING. The inductive invariant (`FormsInv`) joins the shape of the tree (`IsForm`), `TreeInSync` and
`Approving`: besides what is VALID, a control that is PENDING for its children's sake only was accepted too,
and a validator that runs was asked about the present value. TLC finds this invariant true of the instance of `forms`.

Only model-checked: all liveness, which the prover does not support (no `ENABLED`): `TaskEventuallySettles`, `RunsEnd` and the
others of their kind. The properties that the violating runs and the tables above refute have no theorem, for a good reason.

## Not modelled

- Service worker: push and notifications, debug page, hashing, the build tools, the choice of the group that
  answers a request, failing writes of the control table, the page side with its nonces and status
  messages (an operation whose worker is stopped never gets its status, `low_level.ts:118`).
- ngcc: the analysis and compilation themselves, the single-process executor (no concurrency).
- Router: custom `UrlHandlingStrategy`, hooks, restored state, navigations begun synchronously inside an event handler
  (their order depends on the reentrancy of RxJS subjects), route matching, outlets, preloading, scrolling.
- Forms: `pristine` and `touched`, `FormArray`, `markAsPending()`, `updateOn`, calls with `onlySelf` or `emitEvent: false`, validators
  that answer synchronously, value accessors and directives.
- Compilers, language service, templates, Ivy and View Engine, http, animations, locales, the site and the
  tooling: by size nearly all of the repository, and sequential transformations of trees and
  texts. A model of them would be a transliteration; nothing in them is decided by interleaving, failure
  or storage, with the exceptions that the plan ends with.

## Plan

1. An abstract specification of version assignment (a client keeps its version until it asks) refined by `Driver`;
   failing writes of the control table; which versions have failed, as a history across restarts.
2. The page side: `NgswCommChannel`, status messages and nonces, composed with the driver's messages.
3. Theorems: safety of the above as it is added.
4. `pristine` and `touched`, `FormArray` and bound directives in `Forms`; the life cycle of a zone task and `NgZone` stability.
