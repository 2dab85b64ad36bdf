-------------------------------- MODULE Router --------------------------------
(***************************************************************************)
(* Navigations of class Router, packages/router/src/router.ts: how they     *)
(* supersede each other, how they end, and what becomes of their promises,  *)
(* of the URL in the browser and of the state of the router.                *)
(*                                                                         *)
(* A navigation is asynchronous in three places: while its URL is           *)
(* recognized (lazy modules, CanLoad), while its guards answer and while    *)
(* its data are resolved.  One action is the code between two of them.      *)
(* Routes are abstracted to what they may lead to: another URL, an error, a *)
(* refusal, a redirect.  The UrlHandlingStrategy is the default one: every  *)
(* URL is processed, merge() and extract() change nothing.                  *)
(***************************************************************************)
EXTENDS Naturals, Sequences

CONSTANTS Url,        \* URLs, and equally the UrlTrees they are parsed to
          Root,       \* the empty UrlTree
          Entry,      \* the URL at which the application is opened
          Guards,     \* how many guards a route has that has any
          Torn,       \* components of no URL: what a failed activation leaves
          Setting,    \* the settings under which the router may run
          MaxNav,     \* bound: navigations scheduled
          MaxTravel   \* bound: moves of the user through the history

ASSUME RouterAssumption ==
  /\ {Root, Entry} \subseteq Url /\ Torn \notin Url
  /\ Guards \in Nat \ {0} /\ MaxNav \in Nat \ {0} /\ MaxTravel \in Nat
  /\ Setting \subseteq [eager : BOOLEAN, reload : BOOLEAN]

\* A setting is the urlUpdateStrategy and onSameUrlNavigation.

Id == 1..MaxNav
Source == {"imperative", "popstate", "hashchange"}
Update == {"push", "replace", "skip"}   \* of the URL, by the extras of a navigation
Phase == {"recognizing", "guarding", "resolving", "done"}
Outcome == {"pending", "true", "false", "null", "error"}
Ending == {"NavigationEnd", "NavigationCancel", "NavigationError"}
NotRedirect == {"pending", "true", "false"}
Answer == NotRedirect \cup Url    \* of a guard; a Url is a redirect

\* A UrlTree is told from a boolean.
ASSUME AnswersDistinct == NotRedirect \cap Url = {}

VARIABLES navs,             \* the transitions that were scheduled, by id
          before,           \* currentUrlTree and currentRouterState of the last of them
          guards,           \* what the guards of the running navigation answered
          currentUrlTree, rawUrlTree, browserUrlTree,
          routerState,      \* the RouterState, by the URL it is the state of
          active,           \* the URL whose components the outlets show, or Torn
          navigated, lastSuccessfulId,
          currentNavigation,\* the id of the Navigation object, 0 for null
          timers,           \* callbacks of setTimeout(), in order
          outcome,          \* what each promise is settled with
          history, at       \* the history of the browser and the place in it
VARIABLES events,           \* history: the endings announced for each id
          travelled,        \* history: moves through the history so far
          activationFailed  \* history: whether an activation has failed
VARIABLE setting            \* the setting, chosen once

trees == <<currentUrlTree, rawUrlTree, routerState>>
components == <<active, activationFailed>>
browser == <<history, at>>
ended == <<outcome, events>>
vars == <<navs, before, guards, trees, components, browserUrlTree, navigated, lastSuccessfulId,
          currentNavigation, timers, ended, browser, travelled, setting>>

Running == {i \in DOMAIN navs : navs[i].phase # "done"}

\* lastNavigation: the value of the BehaviorSubject, with the constructor's for id 0.
LastNavigation == IF navs = <<>> THEN [source |-> "imperative", rawUrl |-> Root]
                  ELSE navs[Len(navs)]

Init ==
  /\ navs = <<>> /\ guards = <<>> /\ timers = <<>>
  /\ before = [tree |-> Root, state |-> Root]
  /\ currentUrlTree = Root /\ rawUrlTree = Root /\ browserUrlTree = Root
  /\ routerState = Root /\ active = Root /\ activationFailed = FALSE
  /\ navigated = FALSE /\ lastSuccessfulId = 0 /\ currentNavigation = 0
  /\ outcome = [p \in Id |-> "pending"] /\ events = [i \in Id |-> <<>>]
  /\ history = <<Entry>> /\ at = 1 /\ travelled = 0
  /\ setting \in Setting

-------------------------------------------------------------------------------
(* The browser's history: Location.go() and Location.replaceState().       *)
Replaced(h, url) == [h EXCEPT ![at] = url]

\* setBrowserUrl(), unless skipLocationChange is set.
SetsBrowserUrl(url, update) ==
  \/ update = "skip" /\ UNCHANGED browser
  \/ /\ update # "skip" /\ (history[at] = url \/ update = "replace")
     /\ history' = Replaced(history, url) /\ UNCHANGED at
  \/ /\ update = "push" /\ history[at] # url
     /\ history' = Append(SubSeq(history, 1, at), url) /\ at' = at + 1

\* resetUrlToCurrentUrlTree()
ResetsUrl == history' = Replaced(history, rawUrlTree) /\ UNCHANGED at

\* A promise is settled once.
Settled(p, with) == [outcome EXCEPT ![p] = IF @ = "pending" THEN with ELSE @]
Announced(i, ending) == [events EXCEPT ![i] = Append(@, ending)]

-------------------------------------------------------------------------------
(***************************************************************************)
(* scheduleNavigation(), and the part of the pipeline that runs at once:    *)
(* switchMap unsubscribes from the navigation that is running, whose        *)
(* finalize() resets the URL, announces and resolves; then the new one      *)
(* starts, unless its URL is the one the router takes for current.          *)
(***************************************************************************)
\* Fault: mergeMap in the place of switchMap.
UnsubscribedNobody == {}

Unsubscribed == Running

Processed(url) == setting.reload \/ ~navigated \/ url # browserUrlTree

ScheduleNavigation(url, source, update, prior) ==
  LET id == Len(navs) + 1
      promise == IF prior = 0 THEN id ELSE prior
      process == Processed(url)
      stopped == [i \in DOMAIN navs |->
                    IF i \in Unsubscribed THEN [navs[i] EXCEPT !.phase = "done"] ELSE navs[i]]
      false == {navs[i].promise : i \in Unsubscribed}
  IN /\ id \in Id
     /\ navs' = Append(stopped,
          [source |-> source, rawUrl |-> url, update |-> update, promise |-> promise,
           target |-> url, phase |-> IF process THEN "recognizing" ELSE "done"])
     /\ before' = [tree |-> currentUrlTree, state |-> routerState]
     /\ events' = [i \in Id |-> IF i \in Unsubscribed THEN Append(events[i], "NavigationCancel")
                                ELSE events[i]]
     /\ outcome' = [p \in Id |-> CASE outcome[p] # "pending" -> outcome[p]
                                   [] p \in false -> "false"
                                   [] p = promise /\ ~process -> "null"
                                   [] OTHER -> outcome[p]]
     /\ IF Unsubscribed = {} THEN UNCHANGED history
        ELSE history' = Replaced(history, rawUrlTree)
     /\ rawUrlTree' = IF process THEN rawUrlTree ELSE url
     /\ currentNavigation' = IF process THEN id ELSE 0
     /\ guards' = <<>>
     /\ UNCHANGED <<currentUrlTree, browserUrlTree, routerState, components, navigated,
                    lastSuccessfulId, at, setting>>

\* initialNavigation()
InitialNavigation ==
  /\ navs = <<>>
  /\ ScheduleNavigation(history[at], "imperative", "replace", 0)
  /\ UNCHANGED <<timers, travelled>>

\* navigateByUrl(), by the application.
NavigateByUrl(url, update) ==
  /\ navs # <<>>
  /\ ScheduleNavigation(url, "imperative", update, 0)
  /\ UNCHANGED <<timers, travelled>>

\* The user goes back or forward; the location listener puts the events off.  Edge
\* and IE fire two for one move, in either order.
Travel(to, sources) ==
  /\ navs # <<>> /\ travelled < MaxTravel /\ to # at
  /\ at' = to /\ travelled' = travelled + 1
  /\ timers' = timers \o [k \in DOMAIN sources |->
                            [kind |-> sources[k], url |-> history[to], update |-> "replace",
                             promise |-> 0, nav |-> 0]]
  /\ UNCHANGED <<navs, before, guards, trees, components, browserUrlTree, navigated,
                 lastSuccessfulId, currentNavigation, ended, history, setting>>

\* The three tests at the head of scheduleNavigation().
Skips(source, url) ==
  /\ LastNavigation.rawUrl = url
  /\ <<source, LastNavigation.source>> \in
       {<<"popstate", "imperative">>, <<"hashchange", "imperative">>,
        <<"hashchange", "popstate">>, <<"popstate", "hashchange">>}

\* The callback of the location listener.
LocationChanges ==
  LET t == Head(timers)
  IN /\ timers # <<>> /\ t.kind \in Source
     /\ timers' = Tail(timers)
     /\ IF Skips(t.kind, t.url)
        THEN UNCHANGED <<navs, before, guards, trees, components, browserUrlTree, navigated,
                         lastSuccessfulId, currentNavigation, ended, browser, setting>>
        ELSE ScheduleNavigation(t.url, t.kind, t.update, t.promise)
     /\ UNCHANGED travelled

\* The callback that catchError sets up for a redirect: it takes over the promise.
RedirectScheduled ==
  LET t == Head(timers)
  IN /\ timers # <<>> /\ t.kind = "redirect"
     /\ timers' = Tail(timers)
     /\ ScheduleNavigation(t.url, "imperative", t.update, t.promise)
     /\ UNCHANGED travelled

-------------------------------------------------------------------------------
(* The ends of a navigation that is not superseded.                        *)
Goes(i, phase) == navs' = [navs EXCEPT ![i].phase = phase]

\* finalize() sets currentNavigation to null however a navigation ends.
Finalized == currentNavigation' = 0

\* resetStateAndUrl(): the state the navigation started from.
ResetsStateAndUrl ==
  /\ routerState' = before.state
  /\ currentUrlTree' = before.tree /\ rawUrlTree' = before.tree

\* catchError, for errors that are not a NavigationCancelingError.
Fails(i) ==
  /\ Goes(i, "done") /\ Finalized
  /\ ResetsStateAndUrl
  /\ history' = Replaced(history, before.tree)
  /\ events' = Announced(i, "NavigationError")
  /\ outcome' = Settled(navs[i].promise, "error")
  /\ UNCHANGED <<before, guards, components, browserUrlTree, navigated, lastSuccessfulId, timers,
                 at, travelled, setting>>

\* catchError, for a NavigationCancelingError without a URL: CanLoad has refused.
Refused(i) ==
  /\ Goes(i, "done") /\ Finalized
  /\ navigated' = TRUE
  /\ ResetsStateAndUrl
  /\ history' = Replaced(history, before.tree)
  /\ events' = Announced(i, "NavigationCancel")
  /\ outcome' = Settled(navs[i].promise, "false")
  /\ UNCHANGED <<before, guards, components, browserUrlTree, lastSuccessfulId, timers, at,
                 travelled, setting>>

\* Fault: the redirect gets a promise of its own.
RedirectAnew(i, url) ==
  [kind |-> "redirect", url |-> url, promise |-> 0, nav |-> i,
   update |-> IF navs[i].update = "skip" THEN "skip"
              ELSE IF setting.eager THEN "replace" ELSE "push"]

\* catchError, for one with a URL: a timer is left with the redirect and the promise.
Redirect(i, url) ==
  [kind |-> "redirect", url |-> url, promise |-> navs[i].promise, nav |-> i,
   update |-> IF navs[i].update = "skip" THEN "skip"
              ELSE IF setting.eager THEN "replace" ELSE "push"]

\* Fault: the promise is resolved before the redirect.
PromiseLeftResolved(i) == outcome' = Settled(navs[i].promise, "false")

PromiseLeft(i) == UNCHANGED outcome

Redirected(i, url) ==
  /\ Goes(i, "done") /\ Finalized
  /\ events' = Announced(i, "NavigationCancel")
  /\ timers' = Append(timers, Redirect(i, url))
  /\ UNCHANGED <<before, trees, components, browserUrlTree, navigated, lastSuccessfulId, browser,
                 travelled, setting>>
  /\ PromiseLeft(i)

\* A guard has answered false.
Rejected(i) ==
  /\ Goes(i, "done") /\ Finalized
  /\ ResetsUrl
  /\ events' = Announced(i, "NavigationCancel")
  /\ outcome' = Settled(navs[i].promise, "false")
  /\ UNCHANGED <<before, trees, components, browserUrlTree, navigated, lastSuccessfulId, timers,
                 travelled, setting>>

-------------------------------------------------------------------------------
(* applyRedirects and recognize, and the URL if it is updated eagerly.     *)
\* Fault: the URL is updated in either mode.
UpdatesEarlyAlways(i, target) == SetsBrowserUrl(target, navs[i].update)

UpdatesEarly(i, target) ==
  IF setting.eager THEN SetsBrowserUrl(target, navs[i].update) ELSE UNCHANGED browser

Recognized(i, target, n) ==
  /\ navs[i].phase = "recognizing"
  /\ LET t == [navs[i] EXCEPT !.target = target]
     IN navs' = [navs EXCEPT ![i] =
                   [t EXCEPT !.phase = IF n = 0 THEN "resolving" ELSE "guarding"]]
  /\ guards' = [k \in 1..n |-> "pending"]
  /\ UpdatesEarly(i, target)
  /\ browserUrlTree' = IF setting.eager THEN target ELSE browserUrlTree
  /\ UNCHANGED <<before, trees, components, navigated, lastSuccessfulId, currentNavigation,
                 timers, ended, travelled, setting>>

RecognizeFails(i) == navs[i].phase = "recognizing" /\ Fails(i)
CanLoadRefuses(i) == navs[i].phase = "recognizing" /\ Refused(i)
CanLoadRedirects(i, url) == navs[i].phase = "recognizing" /\ Redirected(i, url) /\ UNCHANGED guards

-------------------------------------------------------------------------------
(***************************************************************************)
(* prioritizedGuardValue(): the guards answer in any order, and those that  *)
(* come first in the list have priority.                                    *)
(***************************************************************************)
\* The first guard at which the reduction stops: one that is pending, refuses or
\* redirects, or else the last.
Decisive(g) == CHOOSE k \in DOMAIN g :
                 /\ \A j \in 1..(k - 1) : g[j] = "true"
                 /\ g[k] # "true" \/ k = Len(g)

\* Fault: any refusal or redirect counts at once.
VerdictAnyOrder(g) ==
  IF \E k \in DOMAIN g : g[k] \notin {"pending", "true"}
  THEN g[CHOOSE k \in DOMAIN g : g[k] \notin {"pending", "true"}]
  ELSE g[Decisive(g)]

Verdict(g) == g[Decisive(g)]

GuardAnswers(i, k, answer) ==
  /\ navs[i].phase = "guarding" /\ k \in DOMAIN guards /\ guards[k] = "pending"
  /\ guards' = [guards EXCEPT ![k] = answer]
  /\ LET verdict == Verdict(guards')
     IN \/ verdict = "pending"
           /\ UNCHANGED <<navs, before, trees, components, browserUrlTree, navigated,
                          lastSuccessfulId, currentNavigation, timers, ended, browser, travelled,
                          setting>>
        \/ verdict = "true" /\ Goes(i, "resolving")
           /\ UNCHANGED <<before, trees, components, browserUrlTree, navigated, lastSuccessfulId,
                          currentNavigation, timers, ended, browser, travelled, setting>>
        \/ verdict = "false" /\ Rejected(i)
        \/ verdict \in Url /\ Redirected(i, verdict)

GuardFails(i) == navs[i].phase = "guarding" /\ Fails(i)

-------------------------------------------------------------------------------
\* resolveData: a resolver completes without a value.
ResolverEmpty(i) ==
  /\ navs[i].phase = "resolving"
  /\ Goes(i, "done") /\ Finalized
  /\ events' = Announced(i, "NavigationCancel")
  /\ outcome' = Settled(navs[i].promise, "false")
  /\ UNCHANGED <<before, guards, trees, components, browserUrlTree, navigated, lastSuccessfulId,
                 timers, browser, travelled, setting>>

ResolverFails(i) == navs[i].phase = "resolving" /\ Fails(i)

\* Before activation: the URL and browserUrlTree, if they are updated late.
UpdatesLate(i) ==
  /\ IF setting.eager THEN UNCHANGED browser
     ELSE SetsBrowserUrl(navs[i].target, navs[i].update)
  /\ browserUrlTree' = IF setting.eager THEN browserUrlTree ELSE navs[i].target

\* Every route of the target is one of the state the navigation started from, which is
\* empty before the first success.
Reused(i) == navs[i].target = before.state /\ lastSuccessfulId # 0

\* ActivateRoutes: routes that the target shares with the state the navigation started
\* from are taken for active and left as they are, also when a failed activation has
\* destroyed their components; URLs that differ may share routes or not.
Activated(i) ==
  \/ active' = navs[i].target /\ (active = Torn => ~Reused(i))
  \/ active = Torn /\ UNCHANGED active

\* Activation, and processNavigations().
Activates(i) ==
  /\ navs[i].phase = "resolving"
  /\ Goes(i, "done") /\ Finalized
  /\ currentUrlTree' = navs[i].target /\ rawUrlTree' = navs[i].target
  /\ routerState' = navs[i].target /\ Activated(i) /\ UNCHANGED activationFailed
  /\ UpdatesLate(i)
  /\ navigated' = TRUE /\ lastSuccessfulId' = i
  /\ events' = Announced(i, "NavigationEnd")
  /\ outcome' = Settled(navs[i].promise, "true")
  /\ UNCHANGED <<before, guards, timers, travelled, setting>>

\* Fault: only the URL is taken back.
TakenBackUrlOnly ==
  /\ currentUrlTree' = before.tree /\ rawUrlTree' = before.tree
  /\ routerState' \in {navs[i].target : i \in Running}

\* The fields that were updated before are taken back.
TakenBack == ResetsStateAndUrl

\* A component throws as it is activated.  The components of the routes that the target
\* does not share were destroyed before, those that it shares have its parameters, and
\* nothing brings the old ones back.
ActivationFails(i) ==
  LET pushed == ~setting.eager /\ navs[i].update = "push" /\ history[at] # navs[i].target
  IN /\ navs[i].phase = "resolving"
     /\ Goes(i, "done") /\ Finalized
     /\ TakenBack
     /\ active' = (IF Reused(i) THEN active ELSE Torn)
     /\ activationFailed' = TRUE
     /\ browserUrlTree' = IF setting.eager THEN browserUrlTree ELSE navs[i].target
     /\ IF pushed THEN history' = Append(SubSeq(history, 1, at), before.tree) /\ at' = at + 1
        ELSE history' = Replaced(history, before.tree) /\ UNCHANGED at
     /\ events' = Announced(i, "NavigationError")
     /\ outcome' = Settled(navs[i].promise, "error")
     /\ UNCHANGED <<before, guards, navigated, lastSuccessfulId, timers, travelled, setting>>

-------------------------------------------------------------------------------
Proceeds(i) ==
  \/ \E target \in {navs[i].rawUrl, Root}, n \in {0, Guards} : Recognized(i, target, n)
  \/ RecognizeFails(i) \/ CanLoadRefuses(i)
  \/ \E url \in Url : CanLoadRedirects(i, url)
  \/ \E k \in 1..Guards, answer \in Answer \ {"pending"} : GuardAnswers(i, k, answer)
  \/ GuardFails(i)
  \/ ResolverEmpty(i) \/ ResolverFails(i)
  \/ Activates(i) \/ ActivationFails(i)

TimerFires == LocationChanges \/ RedirectScheduled

Next ==
  \/ InitialNavigation
  \/ \E url \in Url, update \in Update : NavigateByUrl(url, update)
  \/ \E to \in DOMAIN history,
        sources \in {<<"popstate">>, <<"popstate", "hashchange">>, <<"hashchange", "popstate">>} :
       Travel(to, sources)
  \/ TimerFires
  \/ \E i \in DOMAIN navs : Proceeds(i)

Spec == Init /\ [][Next]_vars

\* Lazy modules load, guards answer, resolvers complete, timers fire.
FairSpec == Spec /\ WF_vars(TimerFires)
                 /\ \A i \in Id : WF_vars(i \in DOMAIN navs /\ Proceeds(i))

-------------------------------------------------------------------------------
Transition == [source : Source, rawUrl : Url, update : Update, promise : Id, target : Url,
               phase : Phase]
Timer == [kind : Source \cup {"redirect"}, url : Url, update : Update, promise : {0} \cup Id,
          nav : {0} \cup Id]

\* The variables have their types: at most MaxNav transitions, a place in the history
\* that exists, at most one ending announced for a navigation.
TypeOK ==
  /\ Len(navs) <= MaxNav /\ \A i \in DOMAIN navs : navs[i] \in Transition
  /\ guards \in UNION {[1..n -> Answer] : n \in {0, Guards}}
  /\ {currentUrlTree, rawUrlTree, browserUrlTree, routerState} \subseteq Url
  /\ active \in Url \cup {Torn} /\ activationFailed \in BOOLEAN
  /\ before \in [tree : Url, state : Url]
  /\ navigated \in BOOLEAN
  /\ {lastSuccessfulId, currentNavigation} \subseteq 0..Len(navs)
  /\ \A k \in DOMAIN timers : timers[k] \in Timer
  /\ outcome \in [Id -> Outcome]
  /\ \A k \in DOMAIN history : history[k] \in Url
  /\ at \in DOMAIN history
  /\ events \in [Id -> {<<>>} \cup {<<e>> : e \in Ending}]
  /\ setting \in Setting

\* Only the navigation scheduled last may be running, and getCurrentNavigation() is that
\* one, or null if it is over: a navigation that is superseded sets it to null before the
\* one that supersedes it sets it ("currentNavigation should always be reset to null here").
LatestIsRunning ==
  /\ Running \subseteq {Len(navs)}
  /\ currentNavigation = IF Running = {} THEN 0 ELSE Len(navs)

\* Events and promises tell the same story: the promise of a call is settled with true
\* exactly when a navigation that carries it has announced NavigationEnd, with an error
\* exactly when one has announced NavigationError, and is pending exactly while one
\* runs or a redirect that will carry it waits for its timer.
Carriers(p) == {i \in DOMAIN navs : navs[i].promise = p}
Pending(p) ==
  \/ Carriers(p) \cap Running # {}
  \/ \E k \in DOMAIN timers : timers[k].kind = "redirect" /\ timers[k].nav \in Carriers(p)
PromisesTellEvents ==
  \A p \in {navs[i].promise : i \in DOMAIN navs} :
    /\ outcome[p] = "true" <=> \E i \in Carriers(p) : events[i] = <<"NavigationEnd">>
    /\ outcome[p] = "error" <=> \E i \in Carriers(p) : events[i] = <<"NavigationError">>
    /\ outcome[p] = "pending" <=> Pending(p)

\* Whatever fails, is refused or superseded: the tree and the state that the router has
\* are those of the last navigation that succeeded, and so are the components, until an
\* activation fails: from then on they are those, or the outlets have been torn down.
Shown == IF lastSuccessfulId = 0 THEN Root ELSE navs[lastSuccessfulId].target
ShowsLastSuccess ==
  /\ currentUrlTree = Shown /\ routerState = Shown
  /\ active = Shown \/ (activationFailed /\ active = Torn)

\* In the deferred mode, as long as the user stays off the history buttons, every
\* navigation may change the URL, and no activation has failed, the browser shows the
\* URL of the state after the first success, during navigations as between them.
UrlFollowsState ==
  (/\ ~setting.eager /\ travelled = 0 /\ lastSuccessfulId # 0 /\ ~activationFailed
   /\ \A i \in DOMAIN navs : navs[i].update # "skip")
  => history[at] = currentUrlTree /\ rawUrlTree = currentUrlTree

\* A navigation that was superseded, by a call, by the user or by a redirect, does not
\* end with success: only the last one that was scheduled does.
OnlyLatestEnds ==
  [][lastSuccessfulId' # lastSuccessfulId => lastSuccessfulId' = Len(navs)]_vars

\* A guard that answers false or redirects decides only when all before it in the list
\* have answered true, whatever the order in which they answer.
DecidesByPriority ==
  [][\A i \in DOMAIN navs :
       (navs[i].phase = "guarding" /\ navs'[i].phase # "guarding" /\ guards' # guards
        /\ Len(navs') = Len(navs))
       => \E k \in DOMAIN guards' : /\ \A j \in 1..(k - 1) : guards'[j] = "true"
                                    /\ guards'[k] # "pending"
                                    /\ guards'[k] = "true" => k = Len(guards')]_vars

\* The promise of every call is settled in the end, through any chain of redirects, and
\* if the navigation is superseded or ignored.
AtBound == Len(navs) = MaxNav /\ timers # <<>>
PromisesSettle ==
  \A p \in Id : (p \in DOMAIN navs /\ navs[p].promise = p) ~> (outcome[p] # "pending" \/ AtBound)

-------------------------------------------------------------------------------
(* What the repository says of the router and the code does not do.        *)

\* "How to handle a navigation request to the current URL ... The router ignores the
\* request": a navigation is ignored only if its URL is that of the state or of the browser.
Ignored(i) == navs'[i].phase = "done"
IgnoredOnlyIfCurrent ==
  [][Len(navs') > Len(navs) /\ Ignored(Len(navs'))
     => navs'[Len(navs')].rawUrl \in {currentUrlTree, history[at]}]_vars

\* "in 'replaceState' that leads to the same URL, we should skip those": an event from
\* the user's history is skipped only if the router shows its URL, or is on its way.
SkippedOnlyIfShown ==
  [][Len(timers') < Len(timers) /\ Len(navs') = Len(navs)
     => \/ currentUrlTree = Head(timers).url
        \/ \E i \in Running : navs[i].rawUrl = Head(timers).url]_vars

\* A redirect does not supersede a navigation that was begun after the one it redirects.
RedirectYields ==
  [][Len(timers') < Len(timers) /\ Head(timers).kind = "redirect"
     => Head(timers).nav = Len(navs)]_vars

\* The components are those of the last success, also after a failed activation.
ComponentsRestored == active = Shown

\* Between navigations the browser shows the URL of the state.
UrlSettles ==
  (/\ Running = {} /\ timers = <<>> /\ lastSuccessfulId # 0
   /\ \A i \in DOMAIN navs : navs[i].update # "skip")
  => history[at] = currentUrlTree
===============================================================================
