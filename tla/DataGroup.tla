------------------------------ MODULE DataGroup -------------------------------
(***************************************************************************)
(* A dynamic cache of the service worker: class DataGroup of               *)
(* packages/service-worker/worker/src/data.ts, under concurrent requests.  *)
(*                                                                         *)
(* Every await of the class is a place where other requests run, so one    *)
(* action is the code between two awaits.  A request has a front, the      *)
(* promise the client is waiting for, and a cacher, the call of            *)
(* safeCacheResponse() that may outlive it (ctx.waitUntil).  The responses, *)
(* their ages and the written LRU state survive a restart of the worker;   *)
(* the LruList objects do not, and there can be more than one of them.     *)
(* A response is abstracted to the version of the data the server gave.    *)
(***************************************************************************)
EXTENDS LruList, FiniteSets

CONSTANTS Req,           \* names of requests
          NoReq,         \* `null` in the field _lru
          Setting,       \* the settings under which the group may run
          MaxVersion     \* bound on the mutations the server sees

\* A setting: the strategy, config.maxSize, whether there is a timeout, whether
\* config.refreshAheadMs is given, the URLs that are requested, the requests that can be
\* in flight at once, whether writes may be rejected (a full storage), whether an older
\* AppVersion that names the same caches is about to be removed, and a bound on the
\* restarts of the worker.
ASSUME SettingAssumption ==
  /\ NoReq \notin Req /\ IsFiniteSet(Req)
  /\ Setting \subseteq [strategy : {"performance", "freshness"}, maxSize : Nat,
                         hasTimeout : BOOLEAN, refreshAhead : BOOLEAN, urls : SUBSET Url,
                         reqs : (SUBSET Req) \ {{}}, writesFail : BOOLEAN, shared : BOOLEAN,
                         maxRestart : Nat]
  /\ MaxVersion \in Nat

VARIABLES cached,    \* the Cache: the version stored for each URL that has one
          age,       \* the age table: how old each response it knows is
          savedLru,  \* the LRU table, empty before its first write
          lists,     \* the LruList built by each request that built one
          field      \* _lru: the request whose LruList it holds
VARIABLES req,       \* the front of each request
          cacher,    \* its safeCacheResponse()
          net,       \* its promise networkFetch
          server,    \* the server's version of the data behind each URL
          doomed,    \* the parts deleted under their names, still open in this worker
          restarts
VARIABLES raced,     \* history: the URLs that two requests changed at once, see Races
          overtaken, \* history: the URLs of a mutation that met another request
          setting    \* the setting, chosen once

vars == <<cached, age, savedLru, lists, field, req, cacher, net, server, doomed, restarts>>

Storage == <<cached, age, savedLru>>
World == <<server, doomed, restarts>>

Strategy == setting.strategy
HasTimeout == setting.hasTimeout
MaxSize == setting.maxSize
RefreshAhead == setting.refreshAhead
WritesFail == setting.writesFail
Chains == <<lists, field>>

Version == 0..MaxVersion
Cached == DOMAIN cached
Aged == DOMAIN age

Without(f, u) == [v \in DOMAIN f \ {u} |-> f[v]]
With(f, u, x) == [v \in DOMAIN f \cup {u} |-> IF v = u THEN x ELSE f[v]]

-------------------------------------------------------------------------------
(***************************************************************************)
(* A front: where it stands, its URL, whether it mutates, its `lru` (named *)
(* by the request that built it), what it still has to delete, the version *)
(* it took from the cache, and the server's version when it began (a       *)
(* history).  A cacher: its arguments, its response's version, the URL it  *)
(* evicts and what it still has to delete of that.  Both are reset when    *)
(* they are done, and a fetch when nobody waits for it any more.           *)
(*                                                                         *)
(* A front has ended when the client has its response ("answered", or      *)
(* nothing was asked yet), when handleFetch() was rejected because the     *)
(* fetch was ("offline") or because a write was ("failed"), or when the    *)
(* worker was stopped before ("dropped").                                  *)
(***************************************************************************)
Ended == {"answered", "offline", "failed", "dropped"}
FrontPc == Ended \cup {"readLru", "match", "readAge", "purge", "purgeSync", "race",
                       "inline", "awaitNet", "clear", "clearSync", "send"}
Part == {"cache", "age"}

NoRequest == [pc |-> "answered", url |-> NoUrl, mutates |-> FALSE, lru |-> NoReq,
              todo |-> {}, ver |-> 0, floor |-> 0]
NotCaching == [pc |-> "off", url |-> NoUrl, lru |-> NoReq, ver |-> 0,
               victim |-> NoUrl, todo |-> {}]
NoFetch == [state |-> "none", ver |-> 0]
Fetching == [state |-> "pending", ver |-> 0]

Running(r) == req[r].pc \notin Ended
Idle(r) == ~Running(r) /\ cacher[r].pc = "off"
CurrentChain == IF field = NoReq THEN savedLru ELSE lists[field]

Init ==
  /\ cached = [u \in {} |-> 0]
  /\ age = [u \in {} |-> "young"]
  /\ savedLru = EmptyChain
  /\ lists = [r \in Req |-> EmptyChain]
  /\ field = NoReq
  /\ req = [r \in Req |-> NoRequest]
  /\ cacher = [r \in Req |-> NotCaching]
  /\ net = [r \in Req |-> NoFetch]
  /\ server = [u \in Url |-> 0]
  /\ doomed = {}
  /\ restarts = 0
  /\ raced = {} /\ overtaken = {}
  /\ setting \in Setting

GoTo(r, pc) == req' = [req EXCEPT ![r].pc = pc]
\* Fault: clearCacheForUrl() forgets the response itself.
PurgingAgeOnly(r, pc) == req' = [req EXCEPT ![r].pc = pc, ![r].todo = {"age"}]
Purging(r, pc) == req' = [req EXCEPT ![r].pc = pc, ![r].todo = Part]
End(r, how) == req' = [req EXCEPT ![r] = [NoRequest EXCEPT !.pc = how]]
Answer(r) == End(r, "answered")
SetChain(owner, chain) == lists' = [lists EXCEPT ![owner] = chain]
StartFetch(r) == net' = [net EXCEPT ![r] = Fetching]
SetCacher(r, pc) == cacher' = [cacher EXCEPT ![r].pc = pc]
CacherWaits(r) ==
  cacher' = [cacher EXCEPT ![r] =
               [NotCaching EXCEPT !.pc = "wait", !.url = req[r].url, !.lru = req[r].lru]]
CacherEnds(r) == cacher' = [cacher EXCEPT ![r] = NotCaching]
FrontLeavesNet(r) == net' = IF cacher[r].pc = "wait" THEN net
                            ELSE [net EXCEPT ![r] = NoFetch]

-------------------------------------------------------------------------------
(***************************************************************************)
(* handleFetch(): load the LRU chain, then go by method and strategy.      *)
(***************************************************************************)
\* Fault: the response a mutation invalidates is left in the cache.
InvalidatesLruOnly(q, wasCached) == [q EXCEPT !.pc = "clearSync"]

\* A mutating request: whether the URL was in its list decides what is cleared.
Invalidates(q, wasCached) ==
  IF wasCached THEN [q EXCEPT !.pc = "clear", !.todo = Part]
               ELSE [q EXCEPT !.pc = "clearSync"]

\* The code after `await this.lru()`, for the request record q and the LruLists
\* ls: a mutating request drops its URL, freshness fetches, performance looks up.
Enter(r, q, ls) ==
  \/ /\ q.mutates
     /\ lists' = [ls EXCEPT ![q.lru] = Remove(@, q.url)]
     /\ req' = [req EXCEPT ![r] = Invalidates(q, q.url \in Tracked(ls[q.lru]))]
     /\ UNCHANGED net
  \/ /\ ~q.mutates /\ Strategy = "freshness"
     /\ lists' = ls
     /\ req' = [req EXCEPT ![r] = [q EXCEPT !.pc = "race"]]
     /\ StartFetch(r)
  \/ /\ ~q.mutates /\ Strategy = "performance"
     /\ lists' = ls
     /\ req' = [req EXCEPT ![r] = [q EXCEPT !.pc = "match"]]
     /\ UNCHANGED net

\* A request arrives.  lru() reads the table only while _lru is null.
Begin(r, u, m) ==
  /\ Idle(r) /\ r \in setting.reqs /\ u \in setting.urls
  /\ LET q == [NoRequest EXCEPT !.url = u, !.mutates = m, !.floor = server[u]]
     IN  IF field = NoReq
         THEN /\ req' = [req EXCEPT ![r] = [q EXCEPT !.pc = "readLru"]]
              /\ UNCHANGED <<lists, net>>
         ELSE Enter(r, [q EXCEPT !.lru = field], lists)
  /\ UNCHANGED <<Storage, field, cacher, World>>

\* lru() after its reads: the request keeps the list it built, and _lru is
\* overwritten whatever another request put there meanwhile.
ReadLru(r) ==
  /\ req[r].pc = "readLru"
  /\ field' = r
  /\ Enter(r, [req[r] EXCEPT !.lru = r], [lists EXCEPT ![r] = savedLru])
  /\ UNCHANGED <<Storage, cacher, World>>

\* clearCacheForUrl(u): the response and its age are deleted side by side.
DeletePart(u, part) ==
  \/ /\ part = "cache" /\ cached' = Without(cached, u) /\ UNCHANGED age
  \/ /\ part = "age" /\ age' = Without(age, u) /\ UNCHANGED cached

\* One of the two deletions of a front; with the last one it goes on.
FrontDeletes(r, part) ==
  /\ req[r].pc \in {"clear", "purge"} /\ part \in req[r].todo
  /\ DeletePart(req[r].url, part)
  /\ req' = [req EXCEPT ![r].todo = @ \ {part},
                        ![r].pc = IF req[r].todo # {part} THEN @
                                  ELSE IF @ = "clear" THEN "clearSync" ELSE "purgeSync"]
  /\ UNCHANGED <<savedLru, Chains, cacher, net, World>>

\* syncLru() writes the list _lru holds now, whichever list the request uses.
WriteLru == savedLru' = CurrentChain

\* A mutating request: syncLru(), then the network, whose answer is the reply.
MutationSyncs(r) ==
  /\ req[r].pc = "clearSync"
  /\ WriteLru
  /\ GoTo(r, "send")
  /\ UNCHANGED <<cached, age, Chains, cacher, net, World>>

MutationSyncFails(r) ==
  /\ WritesFail /\ req[r].pc = "clearSync"
  /\ End(r, "failed")
  /\ UNCHANGED <<Storage, Chains, cacher, net, World>>

MutationSent(r) ==
  /\ req[r].pc = "send" /\ server[req[r].url] < MaxVersion
  /\ server' = [server EXCEPT ![req[r].url] = @ + 1]
  /\ Answer(r)
  /\ UNCHANGED <<Storage, Chains, cacher, net, doomed, restarts>>

MutationOffline(r) ==
  /\ req[r].pc = "send"
  /\ End(r, "offline")
  /\ UNCHANGED <<Storage, Chains, cacher, net, World>>

-------------------------------------------------------------------------------
(***************************************************************************)
(* loadFromCache().                                                        *)
(***************************************************************************)
\* What a front does when loadFromCache() answers null: performance goes to the
\* network, freshness falls back on the fetch it has started.
NotInCache(r) ==
  \/ /\ Strategy = "performance"
     /\ GoTo(r, "race") /\ StartFetch(r)
  \/ /\ Strategy = "freshness"
     /\ GoTo(r, "awaitNet") /\ UNCHANGED net

\* cache.match(): the response is in hand before its age is known.
Match(r) ==
  /\ req[r].pc = "match"
  /\ IF req[r].url \in Cached
     THEN /\ req' = [req EXCEPT ![r].pc = "readAge", ![r].ver = cached[req[r].url]]
          /\ UNCHANGED net
     ELSE NotInCache(r)
  /\ UNCHANGED <<Storage, Chains, cacher, World>>

\* The age is young enough: mark the URL as used and answer; performance also
\* fetches it anew once it is older than refreshAheadMs.
AgeAccepted(r) ==
  /\ req[r].pc = "readAge"
  /\ req[r].url \in Aged /\ age[req[r].url] # "old"
  /\ SetChain(req[r].lru, Accessed(lists[req[r].lru], req[r].url))
  /\ Answer(r)
  /\ IF Strategy = "performance" /\ RefreshAhead /\ age[req[r].url] = "ahead"
     THEN StartFetch(r) /\ CacherWaits(r)
     ELSE FrontLeavesNet(r) /\ UNCHANGED cacher
  /\ UNCHANGED <<Storage, field, World>>

\* The age is too high or unknown: forget the URL and delete the response.
AgeRejected(r) ==
  /\ req[r].pc = "readAge"
  /\ req[r].url \in Aged => age[req[r].url] = "old"
  /\ SetChain(req[r].lru, Remove(lists[req[r].lru], req[r].url))
  /\ Purging(r, "purge")
  /\ UNCHANGED <<Storage, field, cacher, net, World>>

PurgeSyncs(r) ==
  /\ req[r].pc = "purgeSync"
  /\ WriteLru
  /\ NotInCache(r)
  /\ UNCHANGED <<cached, age, Chains, cacher, World>>

PurgeSyncFails(r) ==
  /\ WritesFail /\ req[r].pc = "purgeSync"
  /\ End(r, "failed")
  /\ FrontLeavesNet(r)
  /\ UNCHANGED <<Storage, Chains, cacher, World>>

-------------------------------------------------------------------------------
(***************************************************************************)
(* The network, and networkFetchWithTimeout().                             *)
(***************************************************************************)
\* The fetch succeeds with a response that may be cached, or with an error
\* status, or rejects.
NetAnswers(r) ==
  /\ net[r].state = "pending"
  /\ \E how \in {"ok", "bad", "rejected"} :
       net' = [net EXCEPT ![r] = [state |-> how,
                 ver |-> IF how # "ok" THEN 0
                         ELSE server[IF Running(r) THEN req[r].url ELSE cacher[r].url]]]
  /\ UNCHANGED <<Storage, Chains, req, cacher, World>>

\* Fault: off by one in the test of the size.
FullTooLate(chain) == chain.count > MaxSize

\* "If caching this response would make the cache exceed its maximum size".
Full(chain) == chain.count >= MaxSize

\* The part of cacheResponse(req, res, lru) before its first await, for a good
\* response: evict if the chain is full, and otherwise count the URL as used.
BeginCaching(r, url, owner) ==
  LET chain == lists[owner]
      evicts == Full(chain) /\ Victim(chain) # NoUrl
      c == [NotCaching EXCEPT !.url = url, !.lru = owner, !.ver = net[r].ver]
  IN  \/ /\ evicts
         /\ SetChain(owner, Pop(chain))
         /\ cacher' = [cacher EXCEPT ![r] =
                         [c EXCEPT !.pc = "evict", !.victim = Victim(chain), !.todo = Part]]
      \/ /\ ~evicts
         /\ SetChain(owner, Accessed(chain, url))
         /\ cacher' = [cacher EXCEPT ![r] = [c EXCEPT !.pc = "put"]]

\* A response in time: performance and freshness cache it before they answer.
RaceAnswered(r) ==
  /\ req[r].pc = "race"
  /\ net[r].state \in {"ok", "bad"}
  /\ GoTo(r, "inline")
  /\ IF net[r].state = "ok" THEN BeginCaching(r, req[r].url, req[r].lru)
                            ELSE UNCHANGED <<lists, cacher>>
  /\ net' = [net EXCEPT ![r] = NoFetch]
  /\ UNCHANGED <<Storage, field, World>>

\* Fault: the timeout is not part of the race.
RaceLostToErrorOnly(r) ==
  /\ req[r].pc = "race" /\ net[r].state = "rejected"
  /\ CacherWaits(r)
  /\ \/ Strategy = "performance" /\ Answer(r)
     \/ Strategy = "freshness" /\ GoTo(r, "match")
  /\ UNCHANGED <<Storage, Chains, net, World>>

\* The timeout, or a rejected fetch, which counts as one: performance answers
\* 504 and leaves the fetch to the cacher, freshness turns to the cache.
RaceLost(r) ==
  /\ req[r].pc = "race"
  /\ \/ HasTimeout /\ net[r].state \in {"pending", "rejected"}
     \/ Strategy = "freshness" /\ net[r].state = "rejected"
  /\ CacherWaits(r)
  /\ \/ Strategy = "performance" /\ Answer(r)
     \/ Strategy = "freshness" /\ GoTo(r, "match")
  /\ UNCHANGED <<Storage, Chains, net, World>>

\* Without a timeout a rejected fetch rejects the request of performance.
RaceRejected(r) ==
  /\ req[r].pc = "race"
  /\ Strategy = "performance" /\ ~HasTimeout /\ net[r].state = "rejected"
  /\ End(r, "offline")
  /\ net' = [net EXCEPT ![r] = NoFetch]
  /\ UNCHANGED <<Storage, Chains, cacher, World>>

\* The inline safeCacheResponse() is over, however it went.
InlineAnswers(r) ==
  /\ req[r].pc = "inline" /\ cacher[r].pc = "off"
  /\ Answer(r)
  /\ UNCHANGED <<Storage, Chains, cacher, net, World>>

\* freshness without a cached response answers with the network's after all; if that
\* was rejected, with a 504 where there is a timeout.
FallBackAnswers(r) ==
  /\ req[r].pc = "awaitNet" /\ net[r].state # "pending"
  /\ End(r, IF net[r].state = "rejected" /\ ~HasTimeout THEN "offline" ELSE "answered")
  /\ FrontLeavesNet(r)
  /\ UNCHANGED <<Storage, Chains, cacher, World>>

-------------------------------------------------------------------------------
(***************************************************************************)
(* safeCacheResponse() and cacheResponse().                                *)
(***************************************************************************)
\* The fetch it was given has settled.
CacherReceives(r) ==
  /\ cacher[r].pc = "wait" /\ net[r].state # "pending"
  /\ \/ net[r].state = "ok" /\ BeginCaching(r, cacher[r].url, cacher[r].lru)
     \/ net[r].state # "ok" /\ CacherEnds(r) /\ UNCHANGED lists
  /\ net' = IF Running(r) THEN net ELSE [net EXCEPT ![r] = NoFetch]
  /\ UNCHANGED <<Storage, field, req, World>>

\* clearCacheForUrl(evictedUrl): with the last deletion the URL is marked used.
CacherEvicts(r, part) ==
  /\ cacher[r].pc = "evict" /\ part \in cacher[r].todo
  /\ DeletePart(cacher[r].victim, part)
  /\ \/ /\ cacher[r].todo = {part}
        /\ SetChain(cacher[r].lru, Accessed(lists[cacher[r].lru], cacher[r].url))
        /\ cacher' = [cacher EXCEPT ![r] = [@ EXCEPT !.pc = "put", !.todo = {}]]
     \/ /\ cacher[r].todo # {part}
        /\ cacher' = [cacher EXCEPT ![r].todo = @ \ {part}]
        /\ UNCHANGED lists
  /\ UNCHANGED <<savedLru, field, req, net, World>>

CacherPuts(r) ==
  /\ cacher[r].pc = "put"
  /\ cached' = With(cached, cacher[r].url, cacher[r].ver)
  /\ SetCacher(r, "stamp")
  /\ UNCHANGED <<age, savedLru, Chains, req, net, World>>

CacherStamps(r) ==
  /\ cacher[r].pc = "stamp"
  /\ age' = With(age, cacher[r].url, "young")
  /\ SetCacher(r, "sync")
  /\ UNCHANGED <<cached, savedLru, Chains, req, net, World>>

\* Fault: the chain is not written after a response was cached.
CacherSkipsSync(r) ==
  /\ cacher[r].pc = "sync"
  /\ CacherEnds(r)
  /\ UNCHANGED <<Storage, Chains, req, net, World>>

CacherSyncs(r) ==
  /\ cacher[r].pc = "sync"
  /\ WriteLru
  /\ CacherEnds(r)
  /\ UNCHANGED <<cached, age, Chains, req, net, World>>

\* A rejected write ends cacheResponse(); safeCacheResponse() logs it.
CacherFails(r) ==
  /\ WritesFail /\ cacher[r].pc \in {"put", "stamp", "sync"}
  /\ CacherEnds(r)
  /\ UNCHANGED <<Storage, Chains, req, net, World>>

-------------------------------------------------------------------------------
\* A stored response grows older, past refreshAheadMs and then past maxAge.
GrowOld(u) ==
  /\ u \in Aged /\ age[u] # "old"
  /\ age' = [age EXCEPT ![u] = IF @ = "young" /\ RefreshAhead THEN "ahead" ELSE "old"]
  /\ UNCHANGED <<cached, savedLru, Chains, req, cacher, net, World>>

\* cleanup() of an older AppVersion whose group has the same name and
\* config.version: the caches are deleted side by side under their names, and
\* what this worker has open lives on until the worker is stopped.
Cleanup(part) ==
  /\ setting.shared /\ part \notin doomed
  /\ doomed' = doomed \cup {part}
  /\ UNCHANGED <<Storage, Chains, req, cacher, net, server, restarts>>

\* The browser stops the worker at any await and starts it again later.
Restart ==
  /\ restarts < setting.maxRestart
  /\ restarts' = restarts + 1
  /\ cached' = IF "cache" \in doomed THEN <<>> ELSE cached
  /\ age' = IF "age" \in doomed THEN <<>> ELSE age
  /\ savedLru' = IF "lru" \in doomed THEN EmptyChain ELSE savedLru
  /\ doomed' = {}
  /\ lists' = [r \in Req |-> EmptyChain]
  /\ field' = NoReq
  /\ req' = [r \in Req |->
              IF Running(r) THEN [NoRequest EXCEPT !.pc = "dropped"] ELSE NoRequest]
  /\ cacher' = [r \in Req |-> NotCaching]
  /\ net' = [r \in Req |-> NoFetch]
  /\ UNCHANGED server

-------------------------------------------------------------------------------
(***************************************************************************)
(* Histories, which guide no step.                                         *)
(***************************************************************************)
\* A response is deleted while another request has found it, or while it is stored.
Deleted(u) == \E r \in Req : \/ req[r].pc \in {"clear", "purge"} /\ req[r].url = u
                             \/ cacher[r].pc = "evict" /\ cacher[r].victim = u
Used(u) == \E r \in Req : \/ req[r].pc = "readAge" /\ req[r].url = u
                          \/ cacher[r].pc \in {"put", "stamp"} /\ cacher[r].url = u
Contested(u) == Deleted(u) /\ Used(u)

\* A request works with an LruList that is no longer the one in _lru.
Orphaned(u) ==
  \E r \in Req :
    \/ Running(r) /\ req[r].lru \notin {NoReq, field} /\ req[r].url = u
    \/ cacher[r].pc # "off" /\ cacher[r].lru # field /\ u \in {cacher[r].url, cacher[r].victim}

\* The changes of the chain that await the writing of the LRU table.
Unwritten(u) ==
  \E r \in Req :
    \/ req[r].pc \in {"clear", "purge", "clearSync", "purgeSync"} /\ req[r].url = u
    \/ cacher[r].pc \in {"evict", "put", "stamp", "sync"} /\ u \in {cacher[r].url, cacher[r].victim}

\* The chain in memory is replaced by the one on disk: at a restart of the worker, or
\* when a second request of its first moments reads it.  All URLs count as raced if a
\* write may have failed before, or if a cleanup has deleted some of the parts only.
Reloads == restarts' # restarts \/ (field # NoReq /\ field' # field)
Unsaved == IF WritesFail \/ (restarts' # restarts /\ doomed \notin {{}, {"cache", "age", "lru"}})
           THEN Url ELSE {u \in Url : Unwritten(u)}

Races == raced' = raced \cup (IF Reloads THEN Unsaved ELSE {})
                        \cup {u \in Url : (Contested(u) \/ Orphaned(u))'}

\* A mutation of u is under way while another request is, or still caches, or evicts u.
Handles(r, u) == \/ Running(r) /\ req[r].url = u
                 \/ cacher[r].pc # "off" /\ u \in {cacher[r].url, cacher[r].victim}
Overtaken(u) == \E r, s \in Req : /\ r # s /\ Handles(r, u) /\ Handles(s, u)
                                  /\ Running(r) /\ req[r].mutates /\ req[r].url = u
Overtakes == overtaken' = overtaken \cup {u \in Url : Overtaken(u)'}
-------------------------------------------------------------------------------

FrontStep(r) ==
  \/ ReadLru(r) \/ Match(r) \/ AgeAccepted(r) \/ AgeRejected(r)
  \/ \E part \in Part : FrontDeletes(r, part)
  \/ PurgeSyncs(r) \/ PurgeSyncFails(r)
  \/ MutationSyncs(r) \/ MutationSyncFails(r) \/ MutationSent(r) \/ MutationOffline(r)
  \/ RaceAnswered(r) \/ RaceLost(r) \/ RaceRejected(r)
  \/ InlineAnswers(r) \/ FallBackAnswers(r)

CacherStep(r) ==
  \/ CacherReceives(r)
  \/ \E part \in Part : CacherEvicts(r, part)
  \/ CacherPuts(r) \/ CacherStamps(r) \/ CacherSyncs(r) \/ CacherFails(r)

Next ==
  /\ \/ \E r \in Req : \/ \E u \in Url, m \in BOOLEAN : Begin(r, u, m)
                       \/ FrontStep(r) \/ CacherStep(r) \/ NetAnswers(r)
     \/ \E u \in Url : GrowOld(u)
     \/ \E part \in {"cache", "age", "lru"} : Cleanup(part)
     \/ Restart
  /\ Races /\ Overtakes
  /\ UNCHANGED setting

Spec == Init /\ [][Next]_<<vars, raced, overtaken, setting>>

\* Storage operations and timers complete, the code after an await is run.  The
\* network may stay silent for ever where performance has a timeout; otherwise it
\* answers every fetch in the end, if only with an error.
NeedsNetwork == Strategy = "freshness" \/ ~HasTimeout
Fairness == \A r \in Req : /\ WF_vars(FrontStep(r)) /\ WF_vars(CacherStep(r))
                          /\ WF_vars(NeedsNetwork /\ NetAnswers(r))

FairSpec == Spec /\ Fairness

-------------------------------------------------------------------------------
TypeOK ==
  /\ Cached \subseteq Url /\ \A u \in Cached : cached[u] \in Version
  /\ Aged \subseteq Url /\ \A u \in Aged : age[u] \in {"young", "ahead", "old"}
  /\ savedLru \in LruState
  /\ lists \in [Req -> LruState]
  /\ field \in Req \cup {NoReq}
  /\ req \in [Req -> [pc : FrontPc, url : Url \cup {NoUrl}, mutates : BOOLEAN,
                      lru : Req \cup {NoReq}, todo : SUBSET Part,
                      ver : Version, floor : Version]]
  /\ cacher \in [Req -> [pc : {"off", "wait", "evict", "put", "stamp", "sync"},
                         url : Url \cup {NoUrl}, lru : Req \cup {NoReq}, ver : Version,
                         victim : Url \cup {NoUrl}, todo : SUBSET Part]]
  /\ net \in [Req -> [state : {"none", "pending", "ok", "bad", "rejected"}, ver : Version]]
  /\ server \in [Url -> Version]
  /\ doomed \subseteq {"cache", "age", "lru"}
  /\ restarts \in 0..setting.maxRestart
  /\ raced \subseteq Url /\ overtaken \subseteq Url

\* A response that is in the cache to stay: nobody is deleting it.
Stays(u) == u \in Cached /\ ~Deleted(u)
Stored(u) == \E r \in Req : cacher[r].pc = "put" /\ cacher[r].url = u

\* data.ts:506-507: caching "has to happen all at once, so that the cache and
\* LRU tracking remain in sync": however requests interleave, every response in
\* the cache is one the chain knows, and so can evict; and if no write may fail, the
\* chain knows no URL without a response, which would take a place of maxSize
\* (data.ts:521) and be marked as used (data.ts:487).  Excepted are the URLs in raced:
\* those of which two requests deleted and used or stored the response at once, or
\* that were changed while the chain was read anew.
InSync ==
  \A u \in Url \ raced :
    /\ Stays(u) => u \in Tracked(CurrentChain)
    /\ ~WritesFail /\ u \in Tracked(CurrentChain) => u \in Cached \/ Stored(u)

\* What a restart finds: if no write may fail, the chain on disk knows every response
\* on disk whose caching is over (data.ts:277-291), with the exceptions of InSync.
SavedInSync ==
  ~WritesFail => \A u \in Url \ raced : Stays(u) /\ ~Unwritten(u) => u \in Tracked(savedLru)

\* service-worker-config.md:164 on maxSize: "The maximum number of entries, or
\* responses, in the cache."  With several requests in flight each but one may add one,
\* as the size is tested before the await of the eviction (data.ts:521), and a maxSize
\* of 0 counts as 1.  Once a URL has been raced there is no bound.
WithinMaxSize ==
  raced = {} => Cardinality({u \in Url : Stays(u)})
                  <= (IF MaxSize = 0 THEN 1 ELSE MaxSize) + Cardinality(setting.reqs) - 1

\* data.ts:324: "This was a mutating request. Assume the cache for this URL is
\* no longer valid": no request is answered from the cache with data older than
\* what the server had when the request began, except for a URL whose mutation has met
\* another request for it, the late caching of an earlier one included, and those in raced.
NoStaleAfterMutation ==
  [][\A r \in Req : AgeAccepted(r) /\ req[r].url \notin raced \cup overtaken
                      => req[r].ver >= req[r].floor]_vars

\* happy_spec.ts:1353 'keeps serving mutating api requests when failing to write
\* to cache', data.ts:285-286 "Continue serving clients as usual": a mutating
\* request is not given up before it was sent to the network.
MutationIsSent ==
  [][\A r \in Req : /\ req[r].mutates /\ ~req'[r].mutates
                    /\ restarts' = restarts
                    => req[r].pc = "send"]_vars

\* Every request comes to an end that the client sees: performance with a timeout even
\* if the network is silent (data.ts:364-371), the others, which may fall back on their
\* fetch, once it settles (data.ts:411-412).  A request that does not mutate is answered,
\* if only with a 504, where there is a timeout, and else unless its fetch is rejected.
\* A mutating one is answered unless its fetch is rejected.  Two other ends are excepted:
\* the worker is stopped, or the writing of the LRU table fails, which rejects the request
\* although data.ts:285-286 means it not to (see MutationIsSent, which the code violates).
Excused(r) == req[r].pc = "dropped" \/ (WritesFail /\ req[r].pc = "failed")
Settles(r) == req[r].pc \in {"answered", "offline"} \/ Excused(r)
GetsResponse(r) == req[r].pc = "answered" \/ Excused(r)
AlwaysAnswered ==
  \A r \in Req : /\ Running(r) ~> Settles(r)
                 /\ Running(r) /\ ~req[r].mutates /\ HasTimeout ~> GetsResponse(r)
===============================================================================
