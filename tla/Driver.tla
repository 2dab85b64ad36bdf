-------------------------------- MODULE Driver --------------------------------
(***************************************************************************)
(* The core of the service worker: class Driver of                         *)
(* packages/service-worker/worker/src/driver.ts.                           *)
(*                                                                         *)
(* The driver pins every client (tab) to a version of the app, checks the  *)
(* server for new versions, installs and cleans up versions, and keeps all *)
(* of this on disk, because the browser stops the worker whenever it likes. *)
(* One action is the code of a handler between two awaits.  What an        *)
(* AppVersion does when it downloads its files or answers a request is     *)
(* abstracted to its outcome for the driver: done, failed, critical.       *)
(***************************************************************************)
EXTENDS Naturals, Sequences, FiniteSets

CONSTANTS Hash,       \* the manifest hashes the server may publish
          NoHash,     \* `null` in latestHash
          Bad,        \* the hashes whose manifest AppVersion's constructor rejects
          Client,     \* client IDs
          NoClient,   \* the empty client ID of a navigation
          Event,      \* fetch and message events that can be handled at once
          Check,      \* checkForUpdate() calls that can be in progress at once
          Boot,       \* initialize(), as the one that wrote to the disk
          MaxDeploy,  \* bound on the versions the server publishes after the first
          MaxRestart  \* bound on the restarts of the worker

ASSUME NamesAssumption ==
  /\ NoHash \notin Hash /\ NoClient \notin Client /\ Boot \notin Check
  /\ Bad \subseteq Hash /\ IsFiniteSet(Event)
  /\ MaxDeploy \in Nat /\ MaxRestart \in Nat

VARIABLES state,        \* DriverReadyState
          initialized,  \* how far initialize() has come
          versions,     \* versions: its hashes, each with the AppVersion's number
          pins,         \* clientVersionMap
          latest,       \* latestHash
          tasks         \* the idle tasks that have been scheduled and not run
VARIABLES event,        \* the events being handled
          check,        \* the update checks, and the cleanup after one
          disk,         \* the control table
          writes        \* writes to it that were started and have not landed
VARIABLES clients,      \* the browser's clients: new, open or closed
          server,       \* the hash the server publishes
          registered,   \* the registration has not been deleted
          deploys, restarts,
          doomed        \* history: since the worker was started, a version has been
                        \* installed that a cleanup under way had on its list

memory == <<state, initialized, versions, pins, latest, tasks>>
world  == <<clients, server, deploys, restarts, doomed>>
vars   == <<memory, event, check, disk, writes, world, registered>>

Loaded == DOMAIN versions
Pinned == DOMAIN pins

Restricted(f, S) == [x \in DOMAIN f \cap S |-> f[x]]
With(f, x, y) == [z \in DOMAIN f \cup {x} |-> IF z = x THEN y ELSE f[z]]

-------------------------------------------------------------------------------
NoPins == [c \in {} |-> NoHash]
NoVersions == [h \in {} |-> 0]
NeverWritten == [c \in {NoClient} |-> NoHash]
EmptyDisk == [manifests |-> {}, assignments |-> NeverWritten, latest |-> NoHash]
NoEvent == [pc |-> "idle", kind |-> "fetch", client |-> NoClient, nav |-> FALSE,
            ver |-> NoHash, app |-> 0]
NoCheck == [pc |-> "idle", kind |-> "other", hash |-> NoHash,
            active |-> {}, obsolete |-> {}]
PostLoad == [task |-> "postLoad", hash |-> NoHash]
NavCheck == [task |-> "navCheck", hash |-> NoHash]
InitTask(h) == [task |-> "init", hash |-> h]

Init ==
  /\ state = "NORMAL" /\ initialized = "no"
  /\ versions = NoVersions /\ pins = NoPins /\ latest = NoHash /\ tasks = {}
  /\ event = [e \in Event |-> NoEvent]
  /\ check = [k \in Check |-> NoCheck]
  /\ disk = EmptyDisk /\ writes = <<>>
  /\ clients = [c \in Client |-> "new"]
  /\ server \in Hash
  /\ registered = TRUE /\ deploys = 0 /\ restarts = 0 /\ doomed = FALSE

-------------------------------------------------------------------------------
(***************************************************************************)
(* sync(): the state is copied at once, then three writes are started and  *)
(* land in any order, except that two writes of one key keep theirs.       *)
(***************************************************************************)
Part == {"manifests", "assignments", "latest"}

Snapshot(p, v, l) == [manifests |-> v, assignments |-> p, latest |-> l]

\* The three writes of a sync() on behalf of `by`, with the copied state s.
SyncWrites(by, s) ==
  LET Write(part) == [part |-> part, by |-> by, s |-> [p \in {part} |-> s[p]]]
  IN  <<Write("manifests"), Write("assignments"), Write("latest")>>

\* sync() by `by` of these pins, versions and latest hash.
Sync(by, p, v, l) == writes' = writes \o SyncWrites(by, Snapshot(p, v, l))

Synced(by) == \A i \in DOMAIN writes : writes[i].by # by

\* The oldest write of a key lands; in a table that was deleted it is lost.
Lands(part) ==
  \E i \in DOMAIN writes :
    /\ writes[i].part = part
    /\ \A j \in 1..(i - 1) : writes[j].part # part
    /\ disk' = IF registered THEN [disk EXCEPT ![part] = writes[i].s[part]] ELSE disk
    /\ writes' = SubSeq(writes, 1, i - 1) \o SubSeq(writes, i + 1, Len(writes))
    /\ UNCHANGED <<memory, event, check, world, registered>>

-------------------------------------------------------------------------------
(***************************************************************************)
(* initialize(), which the first event of a worker's life starts and every *)
(* event awaits.                                                           *)
(***************************************************************************)
Started == initialized' = IF initialized = "no" THEN "reading" ELSE initialized

\* The worker posts itself INITIALIZE when it is activated.
Activate ==
  /\ initialized = "no" /\ registered
  /\ Started
  /\ UNCHANGED <<state, versions, pins, latest, tasks, event, check, disk, writes,
                 world, registered>>

\* Fault: those who await initialize() are not told that it failed.
SafeModeUntold == state' = "SAFE_MODE" /\ initialized' = "pending"

SafeMode == state' = "SAFE_MODE" /\ initialized' = "failed"

\* The internals are hydrated from the manifests and assignments read or made.
\* A client of a version that is gone is put on the latest; a manifest that no
\* AppVersion can be built from makes initialize() throw half way.
Hydrate(manifests, assignments, lat, scheduled) ==
  IF manifests \cap Bad = {}
  THEN /\ versions' = [h \in manifests |-> 0]
       /\ pins' = [c \in DOMAIN assignments |->
                     IF assignments[c] \in manifests THEN assignments[c] ELSE lat]
       /\ latest' = lat
       /\ initialized' = "ok"
       /\ tasks' = tasks \cup scheduled \cup {InitTask(h) : h \in manifests}
       /\ UNCHANGED state
  ELSE /\ \E built \in SUBSET (manifests \ Bad) : versions' = [h \in built |-> 0]
       /\ tasks' = tasks \cup scheduled
       /\ SafeMode
       /\ UNCHANGED <<pins, latest>>

\* All three keys can be read, and the latest hash has its manifest.
DiskUsable == /\ disk.assignments # NeverWritten
              /\ disk.latest # NoHash /\ disk.latest \in disk.manifests

BootFromDisk ==
  /\ initialized = "reading" /\ DiskUsable
  /\ Hydrate(disk.manifests, disk.assignments, disk.latest, {PostLoad})
  /\ UNCHANGED <<event, check, disk, writes, world, registered>>

\* Otherwise a fresh manifest is fetched, and saved before it is used.
BootFetches ==
  /\ initialized = "reading" /\ ~DiskUsable
  /\ initialized' = "saving"
  /\ Sync(Boot, NoPins, {server}, server)
  /\ UNCHANGED <<state, versions, pins, latest, tasks, event, check, disk, world, registered>>

\* The manifest cannot be fetched; a 404 also deletes every cache.
BootFetchFails ==
  /\ initialized = "reading" /\ ~DiskUsable
  /\ SafeMode
  /\ \/ UNCHANGED <<disk, registered>>
     \/ disk' = EmptyDisk /\ registered' = FALSE
  /\ UNCHANGED <<versions, pins, latest, tasks, event, check, writes, world>>

\* What was saved is what was fetched: nothing else writes before this.
BootSaved ==
  /\ initialized = "saving" /\ Synced(Boot)
  /\ Hydrate(disk.manifests, disk.assignments, disk.latest, {})
  /\ UNCHANGED <<event, check, disk, writes, world, registered>>

-------------------------------------------------------------------------------
(***************************************************************************)
(* versionFailed(): the AppVersion named app, of hash h, is broken.        *)
(***************************************************************************)
Of(h) == {c \in Pinned : pins[c] = h}

\* Nobody cares if it is no longer in `versions`.  If it is the latest, its
\* clients lose their pins and no new ones are accepted; otherwise they go to
\* the latest.
VersionFailed(h, app, by) ==
  IF h \notin Loaded \/ versions[h] # app
  THEN UNCHANGED <<state, pins, writes>>
  ELSE /\ IF h = latest
          THEN /\ state' = "EXISTING_CLIENTS_ONLY"
               /\ pins' = Restricted(pins, Pinned \ Of(h))
          ELSE /\ pins' = [c \in Pinned |-> IF c \in Of(h) THEN latest ELSE pins[c]]
               /\ UNCHANGED state
       /\ Sync(by, pins', Loaded, latest)

\* The idle task initialization(h) of a version loaded by initialize().
InitTaskRuns(h) ==
  /\ InitTask(h) \in tasks
  /\ tasks' = tasks \ {InitTask(h)}
  /\ \/ UNCHANGED <<state, pins, writes>>
     \/ VersionFailed(h, 0, Boot)
  /\ UNCHANGED <<initialized, versions, latest, event, check, disk, world, registered>>

-------------------------------------------------------------------------------
(***************************************************************************)
(* handleFetch() with assignVersion(), and the ACTIVATE_UPDATE message.    *)
(***************************************************************************)
EventIs(e, pc) == event[e].pc = pc
Ends(e) == event' = [event EXCEPT ![e] = NoEvent]

\* lookupVersionByHash(h) throws if h is not loaded.
Serves(e, h) ==
  IF h \in Loaded
  THEN event' = [event EXCEPT ![e].pc = "serve", ![e].nav = FALSE,
                              ![e].ver = h, ![e].app = versions[h]]
  ELSE Ends(e)

Waits(e, pc) ==
  event' = [event EXCEPT ![e].pc = pc, ![e].nav = event[e].nav /\ pc = "getClient"]

\* onFetch(): in SAFE_MODE the request is left to the network.  A navigation may
\* come without a client ID.
FetchArrives(e, c, nav) ==
  /\ EventIs(e, "idle") /\ state # "SAFE_MODE"
  /\ IF c = NoClient THEN nav ELSE clients[c] = "open"
  /\ event' = [event EXCEPT ![e] =
                 [NoEvent EXCEPT !.pc = "init", !.client = c, !.nav = nav]]
  /\ Started
  /\ UNCHANGED <<state, versions, pins, latest, tasks, check, disk, writes, world, registered>>

\* onMessage() for ACTIVATE_UPDATE.
ActivateArrives(e, c) ==
  /\ EventIs(e, "idle") /\ state # "SAFE_MODE"
  /\ clients[c] = "open"
  /\ event' = [event EXCEPT ![e] =
                 [NoEvent EXCEPT !.pc = "init", !.kind = "activate", !.client = c]]
  /\ Started
  /\ UNCHANGED <<state, versions, pins, latest, tasks, check, disk, writes, world, registered>>

\* ensureInitialized() rejects: the network answers, a message is dropped.
InitRejects(e) ==
  /\ EventIs(e, "init") /\ initialized = "failed"
  /\ Ends(e)
  /\ UNCHANGED <<memory, check, disk, writes, world, registered>>

\* Fault: the client is pinned to the version that serves the event, not yet known.
PinToServing(e, c, pc) ==
  /\ pins' = With(pins, c, event[e].ver)
  /\ Sync(e, pins', Loaded, latest)
  /\ Waits(e, pc)

\* Put client c on the latest version and save that.
PinToLatest(e, c, pc) ==
  /\ pins' = With(pins, c, latest)
  /\ Sync(e, pins', Loaded, latest)
  /\ Waits(e, pc)

\* updateClient(c) up to its sync(); it throws if the version c was on is gone.
UpdateClient(e, c) ==
  IF c \in Pinned /\ pins[c] = latest
  THEN /\ IF event[e].kind = "fetch" THEN Serves(e, latest) ELSE Ends(e)
       /\ UNCHANGED <<pins, writes>>
  ELSE IF c \in Pinned /\ pins[c] \notin Loaded
  THEN Ends(e) /\ UNCHANGED <<pins, writes>>
  ELSE PinToLatest(e, c, "updateSync")

ActivateProceeds(e) ==
  /\ EventIs(e, "init") /\ initialized = "ok" /\ event[e].kind = "activate"
  /\ UpdateClient(e, event[e].client)
  /\ UNCHANGED <<state, initialized, versions, latest, tasks, check, disk, world, registered>>

\* Fault: any request moves its client to the latest version.
MayUpdateAlways(e) == state = "NORMAL" /\ pins[event[e].client] # latest

\* A navigation of a client that is not on the latest version updates it, if the
\* version takes its URL for that of a navigation.
MayUpdate(e) == state = "NORMAL" /\ pins[event[e].client] # latest /\ event[e].nav

\* A navigation schedules one update check; then assignVersion() goes by whether
\* the client has an ID and a pin, and by the state.  A pin to a version that is
\* not loaded throws.
FetchProceeds(e) ==
  /\ EventIs(e, "init") /\ initialized = "ok" /\ event[e].kind = "fetch"
  /\ tasks' = IF event[e].nav THEN tasks \cup {NavCheck} ELSE tasks
  /\ LET c == event[e].client
         normal == state = "NORMAL"
     IN  \/ /\ c \in Pinned
            /\ \/ pins[c] \in Loaded /\ MayUpdate(e) /\ Waits(e, "getClient")
               \/ Serves(e, pins[c])
            /\ UNCHANGED <<pins, writes>>
         \/ /\ c \notin Pinned /\ ~normal
            /\ Ends(e)
            /\ UNCHANGED <<pins, writes>>
         \/ /\ c \in Client \ Pinned /\ normal
            /\ PinToLatest(e, c, "pinSync")
         \/ /\ c = NoClient /\ normal
            /\ Serves(e, latest)
            /\ UNCHANGED <<pins, writes>>
  /\ UNCHANGED <<state, initialized, versions, latest, check, disk, world, registered>>

\* clients.get(): undefined for a client that is gone, and updateClient() throws.
GetClient(e) ==
  /\ EventIs(e, "getClient")
  /\ \/ clients[event[e].client] = "open" /\ UpdateClient(e, event[e].client)
     \/ clients[event[e].client] # "open" /\ Ends(e) /\ UNCHANGED <<pins, writes>>
  /\ UNCHANGED <<state, initialized, versions, latest, tasks, check, disk, world, registered>>

\* After the sync() of assignVersion() or updateClient(), latestHash is read
\* again: it decides which version answers, and what UPDATE_ACTIVATED reports.
PinSaved(e) ==
  /\ event[e].pc \in {"pinSync", "updateSync"} /\ Synced(e)
  /\ IF event[e].kind = "fetch" THEN Serves(e, latest) ELSE Ends(e)
  /\ UNCHANGED <<memory, check, disk, writes, world, registered>>

\* AppVersion.handleFetch() answers, or has nothing for the request.
Served(e) ==
  /\ EventIs(e, "serve")
  /\ Ends(e)
  /\ UNCHANGED <<memory, check, disk, writes, world, registered>>

\* It throws a critical error: the version has failed, the network answers.
ServeIsCritical(e) ==
  /\ EventIs(e, "serve")
  /\ VersionFailed(event[e].ver, event[e].app, e)
  /\ event' = [event EXCEPT ![e] = [NoEvent EXCEPT !.pc = "failSync"]]
  /\ UNCHANGED <<initialized, versions, latest, tasks, check, disk, world, registered>>

FailureSaved(e) ==
  /\ EventIs(e, "failSync") /\ Synced(e)
  /\ Ends(e)
  /\ UNCHANGED <<memory, check, disk, writes, world, registered>>

-------------------------------------------------------------------------------
(***************************************************************************)
(* checkForUpdate() with setupUpdate(), and cleanupCaches() after it when   *)
(* it is the post-load task.                                               *)
(***************************************************************************)
CheckIs(k, pc) == check[k].pc = pc
Moves(k, pc) == check' = [check EXCEPT ![k].pc = pc]

\* The check is over; the post-load task goes on to clean up.
CheckEnds(k) ==
  check' = [check EXCEPT ![k] =
              IF check[k].kind = "postLoad"
              THEN [NoCheck EXCEPT !.pc = "matchAll", !.kind = "postLoad"]
              ELSE NoCheck]

\* The catch {} of checkForUpdate(): whatever went wrong, and in whatever state.
UpdateFails(k) == state' = "EXISTING_CLIENTS_ONLY" /\ CheckEnds(k)

\* onMessage() for CHECK_FOR_UPDATES.
MessageArrives(k) ==
  /\ CheckIs(k, "idle") /\ state # "SAFE_MODE"
  /\ \E c \in Client : clients[c] = "open"
  /\ Moves(k, "init")
  /\ Started
  /\ UNCHANGED <<state, versions, pins, latest, tasks, event, disk, writes, world, registered>>

MessageProceeds(k) ==
  /\ CheckIs(k, "init") /\ initialized \in {"ok", "failed"}
  /\ Moves(k, IF initialized = "ok" THEN "manifest" ELSE "idle")
  /\ UNCHANGED <<memory, event, disk, writes, world, registered>>

\* An idle task that checks for updates is run; it needs no initialization.
TaskRuns(k) ==
  /\ CheckIs(k, "idle")
  /\ \E t \in tasks \cap {PostLoad, NavCheck} :
       /\ tasks' = tasks \ {t}
       /\ check' = [check EXCEPT ![k].pc = "manifest",
                               ![k].kind = IF t = PostLoad THEN "postLoad" ELSE "other"]
  /\ UNCHANGED <<state, initialized, versions, pins, latest, event, disk, writes,
                 world, registered>>

\* 503 or 504, the latter also when the network fails: nothing happens.
CheckOffline(k) ==
  /\ CheckIs(k, "manifest")
  /\ CheckEnds(k)
  /\ UNCHANGED <<memory, event, disk, writes, world, registered>>

\* A manifest whose hash is loaded is no update; for another an AppVersion is
\* built, which may throw, and told to initializeFully().
ManifestArrives(k) ==
  /\ CheckIs(k, "manifest")
  /\ IF server \in Loaded THEN CheckEnds(k) /\ UNCHANGED state
     ELSE IF server \in Bad THEN UpdateFails(k)
     ELSE /\ check' = [check EXCEPT ![k].pc = "install", ![k].hash = server]
          /\ UNCHANGED state
  /\ UNCHANGED <<initialized, versions, pins, latest, tasks, event, disk, writes,
                 world, registered>>

\* An error; a 404 or a manifest of another configVersion also deletes every
\* cache and the registration.
ManifestRejected(k) ==
  /\ CheckIs(k, "manifest")
  /\ UpdateFails(k)
  /\ \/ UNCHANGED <<disk, registered>>
     \/ disk' = EmptyDisk /\ registered' = FALSE
  /\ UNCHANGED <<initialized, versions, pins, latest, tasks, event, writes, world>>

\* A number no AppVersion of h that something still refers to has.
Fresh(h) ==
  CHOOSE n \in 1..(Cardinality(Event) + 1) :
    \A e \in Event : event[e].ver = h => event[e].app # n

\* Some cleanup is about to remove version h.
Obsolete(h) == \E k \in Check : h \in check[k].obsolete

Installed(k) ==
  /\ CheckIs(k, "install")
  /\ LET h == check[k].hash
     IN  /\ versions' = With(versions, h, Fresh(h)) /\ latest' = h
         /\ doomed' = (doomed \/ Obsolete(h))
  /\ state' = IF state = "EXISTING_CLIENTS_ONLY" THEN "NORMAL" ELSE state
  /\ Sync(k, pins, DOMAIN versions', latest')
  /\ check' = [check EXCEPT ![k].pc = "saved", ![k].hash = NoHash]
  /\ UNCHANGED <<initialized, pins, tasks, event, disk, clients, server, deploys, restarts,
                 registered>>

InstallFails(k) ==
  /\ CheckIs(k, "install")
  /\ UpdateFails(k)
  /\ UNCHANGED <<initialized, versions, pins, latest, tasks, event, disk, writes,
                 world, registered>>

\* notifyClientsAboutUpdate(): the clients listed may have gone since, and others
\* have come.  It throws after an initialization that failed, and on a client
\* whose version is gone unless that is the latest.
UpdateSaved(k) ==
  /\ CheckIs(k, "saved") /\ Synced(k)
  /\ \E listed \in SUBSET {c \in Pinned : clients[c] # "new"} :
       IF initialized = "failed" \/ \E c \in listed : pins[c] \notin Loaded \cup {latest}
       THEN UpdateFails(k)
       ELSE CheckEnds(k) /\ UNCHANGED state
  /\ UNCHANGED <<initialized, versions, pins, latest, tasks, event, disk, writes,
                 world, registered>>

\* cleanupCaches(): the clients are listed,
MatchAll(k) ==
  /\ CheckIs(k, "matchAll")
  /\ check' = [check EXCEPT ![k].pc = "collect",
                          ![k].active = {c \in Client : clients[c] = "open"}]
  /\ UNCHANGED <<memory, event, disk, writes, world, registered>>

\* Fault: only the latest version is kept.
CollectAllOld(k) ==
  /\ CheckIs(k, "collect")
  /\ pins' = Restricted(pins, check[k].active)
  /\ check' = [check EXCEPT ![k].pc = "remove", ![k].active = {},
                          ![k].obsolete = Loaded \ {latest}]
  /\ UNCHANGED <<state, initialized, versions, latest, tasks, event, disk, writes,
                 world, registered>>

\* then the pins of the others are dropped and the unused versions collected,
Collect(k) ==
  /\ CheckIs(k, "collect")
  /\ pins' = Restricted(pins, check[k].active)
  /\ check' = [check EXCEPT
                 ![k].pc = "remove", ![k].active = {},
                 ![k].obsolete = Loaded \ ({pins'[c] : c \in DOMAIN pins'} \cup {latest})]
  /\ UNCHANGED <<state, initialized, versions, latest, tasks, event, disk, writes,
                 world, registered>>

\* which go one after the other, each once the one before is cleaned up,
RemoveVersion(k) ==
  /\ CheckIs(k, "remove")
  /\ \E h \in check[k].obsolete :
       /\ versions' = Restricted(versions, Loaded \ {h})
       /\ check' = [check EXCEPT ![k].obsolete = @ \ {h}]
  /\ UNCHANGED <<state, initialized, pins, latest, tasks, event, disk, writes,
                 world, registered>>

\* Fault: the outcome is not saved.
CleanupSkipsSync(k) ==
  /\ CheckIs(k, "remove") /\ check[k].obsolete = {}
  /\ Moves(k, "cleaned")
  /\ UNCHANGED <<memory, event, disk, writes, world, registered>>

\* and the outcome is saved.
CleanupSyncs(k) ==
  /\ CheckIs(k, "remove") /\ check[k].obsolete = {}
  /\ Sync(k, pins, Loaded, latest)
  /\ Moves(k, "cleaned")
  /\ UNCHANGED <<memory, event, disk, world, registered>>

CleanupSaved(k) ==
  /\ CheckIs(k, "cleaned") /\ Synced(k)
  /\ check' = [check EXCEPT ![k] = NoCheck]
  /\ UNCHANGED <<memory, event, disk, writes, world, registered>>

-------------------------------------------------------------------------------
(***************************************************************************)
(* The world: tabs, the server, and the browser that stops the worker.     *)
(***************************************************************************)
OpenClient(c) ==
  /\ clients[c] = "new"
  /\ clients' = [clients EXCEPT ![c] = "open"]
  /\ UNCHANGED <<memory, event, check, disk, writes, server, deploys, restarts, doomed,
                 registered>>

CloseClient(c) ==
  /\ clients[c] = "open"
  /\ clients' = [clients EXCEPT ![c] = "closed"]
  /\ UNCHANGED <<memory, event, check, disk, writes, server, deploys, restarts, doomed,
                 registered>>

Deploy ==
  /\ deploys < MaxDeploy
  /\ deploys' = deploys + 1
  /\ server' \in Hash \ {server}
  /\ UNCHANGED <<memory, event, check, disk, writes, clients, restarts, doomed, registered>>

\* Memory and what was under way are gone; a started write has landed or not.
Restart ==
  /\ initialized # "no" /\ registered
  /\ restarts < MaxRestart
  /\ restarts' = restarts + 1
  /\ state' = "NORMAL" /\ initialized' = "no"
  /\ versions' = NoVersions /\ pins' = NoPins /\ latest' = NoHash /\ tasks' = {}
  /\ event' = [e \in Event |-> NoEvent]
  /\ check' = [k \in Check |-> NoCheck]
  /\ writes' = <<>>
  /\ doomed' = FALSE
  /\ UNCHANGED <<disk, clients, server, deploys, registered>>

-------------------------------------------------------------------------------
Boots == Activate \/ BootFromDisk \/ BootFetches \/ BootFetchFails \/ BootSaved

Arrives(e) ==
  \/ \E c \in Client \cup {NoClient}, nav \in BOOLEAN : FetchArrives(e, c, nav)
  \/ \E c \in Client : ActivateArrives(e, c)

Handles(e) ==
  \/ InitRejects(e) \/ ActivateProceeds(e) \/ FetchProceeds(e) \/ GetClient(e)
  \/ PinSaved(e) \/ Served(e) \/ ServeIsCritical(e) \/ FailureSaved(e)

Checks(k) ==
  \/ MessageArrives(k) \/ MessageProceeds(k) \/ TaskRuns(k)
  \/ CheckOffline(k) \/ ManifestArrives(k) \/ ManifestRejected(k)
  \/ Installed(k) \/ InstallFails(k) \/ UpdateSaved(k)
  \/ MatchAll(k) \/ Collect(k) \/ RemoveVersion(k) \/ CleanupSyncs(k) \/ CleanupSaved(k)

World == Deploy \/ Restart \/ \E c \in Client : OpenClient(c) \/ CloseClient(c)

Next ==
  \/ Boots
  \/ \E part \in Part : Lands(part)
  \/ \E h \in Hash : InitTaskRuns(h)
  \/ \E e \in Event : Arrives(e) \/ Handles(e)
  \/ \E k \in Check : Checks(k)
  \/ World

Spec == Init /\ [][Next]_vars

\* The browser completes what the worker awaits: requests, storage, events.
FairSpec ==
  /\ Spec
  /\ WF_vars(Boots)
  /\ \A part \in Part : WF_vars(Lands(part))
  /\ \A e \in Event : WF_vars(Handles(e))

-------------------------------------------------------------------------------
Writer == Event \cup Check \cup {Boot}
Pc == [event |-> {"idle", "init", "getClient", "pinSync", "updateSync", "serve", "failSync"},
       check |-> {"idle", "init", "manifest", "install", "saved", "matchAll", "collect",
                  "remove", "cleaned"}]

TypeOK ==
  /\ state \in {"NORMAL", "EXISTING_CLIENTS_ONLY", "SAFE_MODE"}
  /\ initialized \in {"no", "reading", "saving", "ok", "failed"}
  /\ Loaded \subseteq Hash /\ \A h \in Loaded : versions[h] \in Nat
  /\ Pinned \subseteq Client /\ \A c \in Pinned : pins[c] \in Hash
  /\ latest \in Hash \cup {NoHash}
  /\ tasks \subseteq {PostLoad, NavCheck} \cup {InitTask(h) : h \in Hash}
  /\ event \in [Event -> [pc : Pc.event, kind : {"fetch", "activate"},
                        client : Client \cup {NoClient}, nav : BOOLEAN,
                        ver : Hash \cup {NoHash}, app : Nat]]
  /\ check \in [Check -> [pc : Pc.check, kind : {"other", "postLoad"},
                        hash : Hash \cup {NoHash}, active : SUBSET Client,
                        obsolete : SUBSET Hash]]
  /\ disk.manifests \subseteq Hash /\ disk.latest \in Hash \cup {NoHash}
  /\ \A i \in DOMAIN writes : writes[i].part \in Part /\ writes[i].by \in Writer
  /\ clients \in [Client -> {"new", "open", "closed"}]
  /\ server \in Hash /\ registered \in BOOLEAN
  /\ deploys \in 0..MaxDeploy /\ restarts \in 0..MaxRestart /\ doomed \in BOOLEAN

Ready == initialized = "ok"

\* driver.ts:73: a hash that a client is pinned to is in `versions` as well, and so is
\* the latest hash, which driver.ts:568-572 asserts once, at the end of initialize():
\* they stay there through updates, failures, cleanups and restarts.  The exception
\* is a worker in which checks have overlapped so that a version was installed
\* again while a cleanup was about to remove it.
VersionsLoaded ==
  Ready /\ ~doomed => latest \in Loaded /\ \A c \in Pinned : pins[c] \in Loaded

\* driver.ts:859-890: what is in memory is on the disk whenever no write and no
\* cleanup is under way, so that a worker that is stopped then comes back with
\* the versions, the pins and the latest hash it had, with the same exception.
AtRest == /\ Ready /\ registered /\ ~doomed /\ writes = <<>>
          /\ \A k \in Check : ~CheckIs(k, "remove")
RestartRestores ==
  AtRest => /\ DiskUsable /\ disk.manifests = Loaded /\ disk.latest = latest
            /\ pins = [c \in DOMAIN disk.assignments |->
                         IF disk.assignments[c] \in Loaded THEN disk.assignments[c] ELSE latest]

\* devops.md:104-105: a running app keeps its version.  While the worker lives, a
\* client's pin moves only to the latest version, and only because that client
\* navigates or asks for it, or because the version it was on has failed.
Moved(c) == c \in DOMAIN pins' /\ pins'[c] # pins[c]
Asks(e, c) == /\ event[e].client = c /\ event'[e].pc = "updateSync"
              /\ event[e].nav \/ event[e].kind = "activate"
Fails(h) == \/ InitTask(h) \in tasks \ tasks'
            \/ \E e \in Event : event[e].ver = h /\ event'[e].pc = "failSync"
PinsMoveForAReason ==
  [][\A c \in Pinned :
       Moved(c) => /\ pins'[c] = latest
                   /\ Fails(pins[c]) \/ \E e \in Event : Asks(e, c)]_vars

\* driver.ts:232-234: an event the worker has committed to is answered, whatever
\* fails meanwhile.
EventsEnd == \A e \in Event : event[e].pc # "idle" ~> event[e].pc = "idle"

-------------------------------------------------------------------------------
\* What the repository says of the driver, and the code does not do.

\* driver.ts:82-83, "The latest version fetched from the server": a check that
\* is answered with a version already loaded finds it to be the latest.
LatestIsLastFetched ==
  [][\A k \in Check :
       ManifestArrives(k) /\ server \in Loaded => latest' = server]_vars

\* devops.md:104-105: a request of a client is answered by the version that the
\* client is pinned to when it is passed on.
ServedAsPinned ==
  [][\A e \in Event :
       /\ event[e].pc # "serve" /\ event'[e].pc = "serve"
       /\ event[e].client \in DOMAIN pins'
       => event'[e].ver = pins'[event[e].client]]_vars

\* driver.ts:50-52: SAFE_MODE lasts until the next restart.
SafeModeUntilRestart ==
  [][state = "SAFE_MODE" /\ state' # state => initialized' = "no"]_vars

\* driver.ts:642-646: while the latest version is known to be invalid, no client
\* is assigned to it.
NoAssignmentToInvalid ==
  [][state = "EXISTING_CLIENTS_ONLY" /\ state' = state
       => \A c \in DOMAIN pins' :
            pins'[c] = latest => c \in Pinned /\ pins[c] = latest]_vars

\* driver.ts:899-904: the pins a cleanup drops are those of clients that are no
\* longer used in the browser.
CleanupSparesTheLiving ==
  [][\A k \in Check : Collect(k) =>
       \A c \in Pinned \ DOMAIN pins' : clients[c] # "open"]_vars

\* driver.ts:550-553: the saved assignments are to versions that are saved too.
DiskAssignmentsLoaded ==
  initialized = "reading" /\ DiskUsable =>
    \A c \in DOMAIN disk.assignments : disk.assignments[c] \in disk.manifests
===============================================================================
