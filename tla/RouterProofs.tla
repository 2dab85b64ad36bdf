------------------------------ MODULE RouterProofs -----------------------------
(***************************************************************************)
(* Proofs about Router, for any URLs, settings, guards and numbers of       *)
(* navigations.  RouterInv says which navigation runs and what the router   *)
(* shows; TypeInv, that the variables have their types; PromiseInv follows  *)
(* each promise, and UrlInv the URL.                                       *)
(***************************************************************************)
EXTENDS Router, SequenceTheorems, NaturalsInduction, WellFoundedInduction, TLAPS

\* A transition is a record with these fields, ...
IsTransition(t) ==
  t = [source |-> t.source, rawUrl |-> t.rawUrl, update |-> t.update, promise |-> t.promise,
       target |-> t.target, phase |-> t.phase]
\* ... of which a navigation may change the target and the phase, ...
SameCall(t, u) == /\ t.source = u.source /\ t.rawUrl = u.rawUrl
                  /\ t.update = u.update /\ t.promise = u.promise
\* ... and `navs` a sequence of them.
NavsAreASequence ==
  /\ Len(navs) \in Nat /\ DOMAIN navs = 1 .. Len(navs)
  /\ navs = [i \in 1 .. Len(navs) |-> navs[i]]
  /\ \A i \in DOMAIN navs : IsTransition(navs[i])

\* What succeeded is over, so that its target does not change any more.
SuccessIsOver ==
  /\ lastSuccessfulId \in 0 .. Len(navs)
  /\ lastSuccessfulId # 0 => navs[lastSuccessfulId].phase = "done"

\* The fields of the router are those of the last success.
StateIsShown == currentUrlTree = Shown /\ routerState = Shown

\* The navigation that is running goes back, if it fails, to what is shown now.
FallsBackOnShown ==
  Running # {} => before.tree = currentUrlTree /\ before.state = routerState

RouterInv == /\ NavsAreASequence /\ LatestIsRunning /\ SuccessIsOver
             /\ StateIsShown /\ FallsBackOnShown

LEMMA InitRouter == Init => RouterInv
<1> SUFFICES ASSUME Init PROVE RouterInv
  OBVIOUS
<1>1. navs = <<>> /\ Len(navs) = 0 /\ DOMAIN navs = {}
  BY DEF Init
<1>2. NavsAreASequence
  BY <1>1 DEF NavsAreASequence
<1>3. Running = {}
  BY <1>1 DEF Running
<1> QED
  BY <1>1, <1>2, <1>3 DEF Init, RouterInv, LatestIsRunning, SuccessIsOver, StateIsShown,
                          Shown, FallsBackOnShown

-------------------------------------------------------------------------------
(* What becomes of `navs`.                                                      *)

\* A new navigation is appended to those that were there, all of them over and
\* otherwise as before.
LEMMA ScheduledNavs ==
  ASSUME RouterInv, NEW url, NEW source, NEW update, NEW prior,
         ScheduleNavigation(url, source, update, prior)
  PROVE  /\ NavsAreASequence'
         /\ Len(navs') = Len(navs) + 1 /\ DOMAIN navs' = 1 .. (Len(navs) + 1)
         /\ LET new == navs'[Len(navs) + 1]
            IN /\ new.source = source /\ new.rawUrl = url /\ new.target = url
               /\ new.update = update
               /\ new.promise = IF prior = 0 THEN Len(navs) + 1 ELSE prior
               /\ new.phase = IF Processed(url) THEN "recognizing" ELSE "done"
         /\ \A i \in DOMAIN navs : /\ SameCall(navs'[i], navs[i]) /\ navs'[i].phase = "done"
                                   /\ navs'[i].target = navs[i].target
<1> DEFINE n == Len(navs)
           new == [source |-> source, rawUrl |-> url, update |-> update,
                   promise |-> IF prior = 0 THEN n + 1 ELSE prior, target |-> url,
                   phase |-> IF Processed(url) THEN "recognizing" ELSE "done"]
           over(i) == [source |-> navs[i].source, rawUrl |-> navs[i].rawUrl,
                       update |-> navs[i].update, promise |-> navs[i].promise,
                       target |-> navs[i].target, phase |-> "done"]
           stopped == [i \in DOMAIN navs |->
                         IF i \in Unsubscribed THEN [navs[i] EXCEPT !.phase = "done"] ELSE navs[i]]
<1>1. n \in Nat /\ DOMAIN navs = 1 .. n
  BY DEF RouterInv, NavsAreASequence
<1>2. navs' = Append(stopped, new)
  BY DEF ScheduleNavigation
<1>3. ASSUME NEW i \in 1 .. n
      PROVE  /\ IsTransition(stopped[i]) /\ SameCall(stopped[i], navs[i])
             /\ stopped[i].phase = "done" /\ stopped[i].target = navs[i].target
  <2>1. IsTransition(navs[i])
    BY <1>1 DEF RouterInv, NavsAreASequence
  <2>2. CASE i \in Unsubscribed
    <3>1. stopped[i] = [navs[i] EXCEPT !.phase = "done"]
      BY <1>1, <2>2
    <3>2. stopped[i] = over(i)
      BY <2>1, <3>1 DEF IsTransition
    <3> QED
      BY <3>2 DEF IsTransition, SameCall
  <2>3. CASE i \notin Unsubscribed
    <3>1. stopped[i] = navs[i]
      BY <1>1, <2>3
    <3>2. navs[i].phase = "done"
      BY <1>1, <2>3 DEF Unsubscribed, Running
    <3> QED
      BY <2>1, <3>1, <3>2 DEF SameCall
  <2> QED
    BY <2>2, <2>3
<1> DEFINE S == {stopped[i] : i \in 1 .. n} \cup {new}
<1>4. stopped \in [1 .. n -> S]
  BY <1>1
<1> HIDE DEF stopped, new, over
<1>5. stopped \in Seq(S) /\ new \in S
  BY <1>1, <1>4, SeqDef
<1>6. DOMAIN stopped = 1 .. Len(stopped) /\ Len(stopped) \in Nat
  BY <1>5, LenProperties
<1>7. DOMAIN stopped = 1 .. n
  BY <1>4
<1> HIDE DEF S, n
<1>8. Len(stopped) = n
  <2>1. ASSUME NEW a \in Nat, NEW b \in Nat, 1 .. a = 1 .. b PROVE a <= b
    <3>1. CASE a = 0
      BY <3>1
    <3>2. CASE a # 0
      <4>1. a \in 1 .. b
        BY <2>1, <3>2
      <4> QED
        BY <2>1, <4>1
    <3> QED
      BY <2>1, <3>1, <3>2
  <2>2. Len(stopped) <= n /\ n <= Len(stopped)
    BY <1>1, <1>6, <1>7, <2>1
  <2>3. n \in Nat /\ Len(stopped) \in Nat
    BY <1>1, <1>6
  <2> QED
    BY <2>2, <2>3
<1>9. navs' \in Seq(S) /\ Len(navs') = n + 1 /\ navs'[n + 1] = new
      /\ \A i \in 1 .. n : navs'[i] = stopped[i]
  BY <1>2, <1>5, <1>8, AppendProperties
<1>10. DOMAIN navs' = 1 .. (n + 1) /\ navs' \in [1 .. (n + 1) -> S]
  BY <1>9, LenProperties
<1>11. /\ Len(navs') = n + 1 /\ DOMAIN navs' = 1 .. (n + 1)
       /\ navs'[n + 1] = new /\ \A i \in 1 .. n : navs'[i] = stopped[i]
       /\ navs' = [i \in 1 .. (n + 1) |-> navs'[i]]
  BY <1>9, <1>10
<1> USE DEF n
<1>12. /\ IsTransition(new) /\ new.source = source /\ new.rawUrl = url /\ new.target = url
       /\ new.update = update /\ new.promise = IF prior = 0 THEN n + 1 ELSE prior
       /\ new.phase = IF Processed(url) THEN "recognizing" ELSE "done"
  BY DEF new, IsTransition
<1>13. NavsAreASequence'
  <2>1. ASSUME NEW i \in 1 .. (n + 1) PROVE IsTransition(navs'[i])
    <3>1. CASE i = n + 1
      BY <3>1, <1>11, <1>12
    <3>2. CASE i # n + 1
      <4>1. i \in 1 .. n
        BY <1>1, <3>2
      <4> QED
        BY <4>1, <1>3, <1>11
    <3> QED
      BY <3>1, <3>2
  <2>2. Len(navs') \in Nat
    BY <1>1, <1>11
  <2>3. ASSUME NEW i \in DOMAIN navs' PROVE IsTransition(navs[i])'
    BY <1>11, <2>1 DEF IsTransition
  <2> QED
    BY <1>11, <2>2, <2>3 DEF NavsAreASequence
<1> QED
  BY <1>1, <1>3, <1>11, <1>12, <1>13

LEMMA Scheduled ==
  ASSUME RouterInv, NEW url, NEW source, NEW update, NEW prior,
         ScheduleNavigation(url, source, update, prior)
  PROVE  /\ RouterInv' /\ lastSuccessfulId' = lastSuccessfulId
         /\ Running' = IF Processed(url) THEN {Len(navs) + 1} ELSE {}
<1> DEFINE n == Len(navs)
<1>1. n \in Nat /\ DOMAIN navs = 1 .. n
  BY DEF RouterInv, NavsAreASequence
<1>2. /\ NavsAreASequence' /\ Len(navs') = n + 1 /\ DOMAIN navs' = 1 .. (n + 1)
      /\ navs'[n + 1].phase = IF Processed(url) THEN "recognizing" ELSE "done"
      /\ \A i \in 1 .. n : navs'[i].phase = "done" /\ navs'[i].target = navs[i].target
  BY <1>1, ScheduledNavs
<1>3. Running' = IF Processed(url) THEN {n + 1} ELSE {}
  BY <1>1, <1>2 DEF Running
<1>4. LatestIsRunning'
  BY <1>1, <1>2, <1>3 DEF ScheduleNavigation, LatestIsRunning
<1>5. /\ currentUrlTree' = currentUrlTree /\ routerState' = routerState
      /\ lastSuccessfulId' = lastSuccessfulId
      /\ before' = [tree |-> currentUrlTree, state |-> routerState]
  BY DEF ScheduleNavigation
<1>6. SuccessIsOver' /\ StateIsShown'
  BY <1>1, <1>2, <1>5 DEF RouterInv, SuccessIsOver, StateIsShown, Shown
<1>7. FallsBackOnShown'
  BY <1>5 DEF FallsBackOnShown
<1> QED
  BY <1>2, <1>3, <1>4, <1>5, <1>6, <1>7 DEF RouterInv

\* A navigation that is running goes on to another phase, with another target or not.
LEMMA GoesOn ==
  ASSUME RouterInv, NEW i \in DOMAIN navs, navs[i].phase # "done", NEW target, NEW phase,
         \/ navs' = [navs EXCEPT ![i].phase = phase] /\ target = navs[i].target
         \/ navs' = [navs EXCEPT ![i] = [[navs[i] EXCEPT !.target = target] EXCEPT !.phase = phase]]
  PROVE  /\ NavsAreASequence' /\ i = Len(navs) /\ Len(navs') = Len(navs)
         /\ Running' = IF phase = "done" THEN {} ELSE {i}
         /\ navs'[i].target = target /\ navs'[i].phase = phase
         /\ SameCall(navs'[i], navs[i])
         /\ \A j \in DOMAIN navs \ {i} : navs'[j] = navs[j]
         /\ i # lastSuccessfulId /\ i # 0 /\ DOMAIN navs' = DOMAIN navs
<1>1. Len(navs) \in Nat /\ DOMAIN navs = 1 .. Len(navs)
  BY DEF RouterInv, NavsAreASequence
<1>2. i \in Running
  BY DEF Running
<1>3. i = Len(navs) /\ \A j \in DOMAIN navs \ {i} : navs[j].phase = "done"
  BY <1>1, <1>2 DEF RouterInv, LatestIsRunning, Running
<1>4. i # lastSuccessfulId /\ i # 0
  BY <1>1 DEF RouterInv, SuccessIsOver
<1>5. IsTransition(navs[i])
  BY DEF RouterInv, NavsAreASequence
<1> DEFINE t == [source |-> navs[i].source, rawUrl |-> navs[i].rawUrl,
                 update |-> navs[i].update, promise |-> navs[i].promise,
                 target |-> target, phase |-> phase]
<1>6. navs' = [navs EXCEPT ![i] = t]
  <2>1. CASE navs' = [navs EXCEPT ![i].phase = phase] /\ target = navs[i].target
    <3>1. [navs[i] EXCEPT !.phase = phase] = t
      BY <1>5, <2>1 DEF IsTransition
    <3> QED
      BY <2>1, <3>1
  <2>2. CASE navs' = [navs EXCEPT ![i] = [[navs[i] EXCEPT !.target = target] EXCEPT !.phase = phase]]
    <3> DEFINE u == [source |-> navs[i].source, rawUrl |-> navs[i].rawUrl,
                     update |-> navs[i].update, promise |-> navs[i].promise,
                     target |-> target, phase |-> navs[i].phase]
    <3>1. [navs[i] EXCEPT !.target = target] = u
      BY <1>5 DEF IsTransition
    <3>2. [u EXCEPT !.phase = phase] = t
      OBVIOUS
    <3> HIDE DEF u, t
    <3> QED
      BY <2>2, <3>1, <3>2
  <2> QED
    BY <2>1, <2>2
<1>7. IsTransition(t) /\ t.target = target /\ t.phase = phase /\ SameCall(t, navs[i])
  BY DEF IsTransition, SameCall
<1> HIDE DEF t
<1>8. /\ DOMAIN navs' = DOMAIN navs /\ navs'[i] = t
      /\ \A j \in DOMAIN navs \ {i} : navs'[j] = navs[j]
  BY <1>6
<1>9. navs' = [j \in 1 .. Len(navs) |-> navs'[j]]
  BY <1>1, <1>6, <1>8
<1>10. Len(navs') = Len(navs)
  BY <1>1, <1>8, <1>9
<1>11. NavsAreASequence'
  BY <1>1, <1>7, <1>8, <1>9, <1>10 DEF RouterInv, NavsAreASequence
<1>12. Running' = IF phase = "done" THEN {} ELSE {i}
  BY <1>1, <1>3, <1>7, <1>8 DEF Running
<1> QED
  BY <1>3, <1>4, <1>7, <1>8, <1>10, <1>11, <1>12

\* A navigation ends without success, and the router shows what it showed before.
LEMMA Ends ==
  ASSUME RouterInv, NEW i \in DOMAIN navs, navs[i].phase # "done",
         Goes(i, "done"), Finalized, UNCHANGED <<currentUrlTree, routerState, lastSuccessfulId>>
  PROVE  RouterInv'
<1>1. /\ NavsAreASequence' /\ i = Len(navs) /\ Len(navs') = Len(navs) /\ Running' = {}
      /\ \A j \in DOMAIN navs \ {i} : navs'[j] = navs[j]
      /\ i # lastSuccessfulId
  BY GoesOn DEF Goes
<1>2. LatestIsRunning'
  BY <1>1 DEF LatestIsRunning, Finalized
<1>3. lastSuccessfulId # 0 => lastSuccessfulId \in DOMAIN navs \ {i}
  BY <1>1 DEF RouterInv, SuccessIsOver, NavsAreASequence
<1>4. SuccessIsOver' /\ StateIsShown'
  BY <1>1, <1>3 DEF RouterInv, SuccessIsOver, StateIsShown, Shown
<1>5. FallsBackOnShown'
  BY <1>1 DEF FallsBackOnShown
<1> QED
  BY <1>1, <1>2, <1>4, <1>5 DEF RouterInv

\* A navigation goes on, and the router shows what it showed before.
LEMMA Continues ==
  ASSUME RouterInv, NEW i \in DOMAIN navs, navs[i].phase # "done",
         NEW target, NEW phase, phase # "done",
         \/ navs' = [navs EXCEPT ![i].phase = phase] /\ target = navs[i].target
         \/ navs' = [navs EXCEPT ![i] = [[navs[i] EXCEPT !.target = target] EXCEPT !.phase = phase]],
         UNCHANGED <<before, currentUrlTree, routerState, lastSuccessfulId, currentNavigation>>
  PROVE  RouterInv'
<1>1. /\ NavsAreASequence' /\ i = Len(navs) /\ Len(navs') = Len(navs) /\ Running' = {i}
      /\ \A j \in DOMAIN navs \ {i} : navs'[j] = navs[j]
      /\ i # lastSuccessfulId
  BY GoesOn
<1>2. i \in Running
  BY DEF Running
<1>3. LatestIsRunning'
  BY <1>1, <1>2 DEF RouterInv, LatestIsRunning
<1>4. lastSuccessfulId # 0 => lastSuccessfulId \in DOMAIN navs \ {i}
  BY <1>1 DEF RouterInv, SuccessIsOver, NavsAreASequence
<1>5. SuccessIsOver' /\ StateIsShown'
  BY <1>1, <1>4 DEF RouterInv, SuccessIsOver, StateIsShown, Shown
<1>6. FallsBackOnShown'
  BY <1>2 DEF RouterInv, FallsBackOnShown
<1> QED
  BY <1>1, <1>3, <1>5, <1>6 DEF RouterInv

-------------------------------------------------------------------------------
(* One step, action by action.                                                  *)

\* What a failure takes the router back to is what it shows.
LEMMA TakesBack ==
  ASSUME RouterInv, NEW i \in DOMAIN navs, navs[i].phase # "done", ResetsStateAndUrl
  PROVE  currentUrlTree' = currentUrlTree /\ routerState' = routerState
BY DEF RouterInv, FallsBackOnShown, Running, ResetsStateAndUrl

\* The four ways to end without success.
LEMMA EndsWithoutSuccess ==
  ASSUME RouterInv, NEW i \in DOMAIN navs, navs[i].phase # "done",
         Fails(i) \/ Refused(i) \/ Rejected(i) \/ (\E url \in Url : Redirected(i, url))
  PROVE  RouterInv' /\ lastSuccessfulId' = lastSuccessfulId
<1>1. CASE Fails(i)
  <2>1. Goes(i, "done") /\ Finalized /\ ResetsStateAndUrl /\ lastSuccessfulId' = lastSuccessfulId
    BY <1>1 DEF Fails
  <2> QED
    BY <2>1, TakesBack, Ends
<1>2. CASE Refused(i)
  <2>1. Goes(i, "done") /\ Finalized /\ ResetsStateAndUrl /\ lastSuccessfulId' = lastSuccessfulId
    BY <1>2 DEF Refused
  <2> QED
    BY <2>1, TakesBack, Ends
<1>3. CASE Rejected(i)
  <2>1. Goes(i, "done") /\ Finalized /\ UNCHANGED <<trees, lastSuccessfulId>>
    BY <1>3 DEF Rejected
  <2> QED
    BY <2>1, Ends DEF trees
<1>4. CASE \E url \in Url : Redirected(i, url)
  <2>1. Goes(i, "done") /\ Finalized /\ UNCHANGED <<trees, lastSuccessfulId>>
    BY <1>4 DEF Redirected
  <2> QED
    BY <2>1, Ends DEF trees
<1> QED
  BY <1>1, <1>2, <1>3, <1>4

\* Success: the router shows the target, and falls back on nothing else any more.
LEMMA Succeeds ==
  ASSUME RouterInv, NEW i \in DOMAIN navs, Activates(i)
  PROVE  RouterInv' /\ lastSuccessfulId' = Len(navs)
<1>1. /\ navs[i].phase # "done" /\ Goes(i, "done") /\ Finalized
      /\ currentUrlTree' = navs[i].target /\ routerState' = navs[i].target
      /\ lastSuccessfulId' = i
  BY DEF Activates
<1>2. /\ NavsAreASequence' /\ i = Len(navs) /\ Len(navs') = Len(navs) /\ Running' = {}
      /\ navs'[i].target = navs[i].target /\ navs'[i].phase = "done"
      /\ i # 0
  BY <1>1, GoesOn DEF Goes
<1>3. i \in 0 .. Len(navs)
  BY <1>2 DEF RouterInv, NavsAreASequence
<1>4. LatestIsRunning'
  BY <1>1, <1>2 DEF LatestIsRunning, Finalized
<1>5. SuccessIsOver' /\ StateIsShown'
  BY <1>1, <1>2, <1>3 DEF SuccessIsOver, StateIsShown, Shown
<1>6. FallsBackOnShown'
  BY <1>2 DEF FallsBackOnShown
<1> QED
  BY <1>1, <1>2, <1>4, <1>5, <1>6 DEF RouterInv

\* The steps of the pipeline of a navigation.
LEMMA StepProceeds ==
  ASSUME RouterInv, NEW i \in DOMAIN navs, Proceeds(i)
  PROVE  RouterInv' /\ lastSuccessfulId' \in {lastSuccessfulId, Len(navs)}
<1>1. ASSUME NEW target, NEW n, Recognized(i, target, n) PROVE RouterInv' /\ lastSuccessfulId' = lastSuccessfulId
  <2> DEFINE phase == IF n = 0 THEN "resolving" ELSE "guarding"
  <2>1. /\ navs[i].phase # "done" /\ phase # "done"
        /\ navs' = [navs EXCEPT ![i] = [[navs[i] EXCEPT !.target = target] EXCEPT !.phase = phase]]
        /\ UNCHANGED <<before, currentUrlTree, routerState, lastSuccessfulId, currentNavigation>>
    BY <1>1, Zenon DEF Recognized, trees
  <2> HIDE DEF phase
  <2> QED
    BY <2>1, Continues
<1>2. CASE RecognizeFails(i) \/ GuardFails(i) \/ ResolverFails(i)
  <2>1. navs[i].phase # "done" /\ Fails(i)
    BY <1>2 DEF RecognizeFails, GuardFails, ResolverFails
  <2> QED
    BY <2>1, EndsWithoutSuccess
<1>3. CASE CanLoadRefuses(i)
  <2>1. navs[i].phase # "done" /\ Refused(i)
    BY <1>3 DEF CanLoadRefuses
  <2> QED
    BY <2>1, EndsWithoutSuccess
<1>4. ASSUME NEW url \in Url, CanLoadRedirects(i, url) PROVE RouterInv' /\ lastSuccessfulId' = lastSuccessfulId
  <2>1. navs[i].phase # "done" /\ Redirected(i, url)
    BY <1>4 DEF CanLoadRedirects
  <2> QED
    BY <2>1, EndsWithoutSuccess
<1>5. ASSUME NEW k, NEW answer, GuardAnswers(i, k, answer) PROVE RouterInv' /\ lastSuccessfulId' = lastSuccessfulId
  <2> DEFINE verdict == Verdict(guards')
  <2>1. /\ navs[i].phase # "done"
        /\ \/ UNCHANGED <<navs, before, trees, lastSuccessfulId, currentNavigation>>
           \/ Goes(i, "resolving") /\ UNCHANGED <<before, trees, lastSuccessfulId, currentNavigation>>
           \/ Rejected(i)
           \/ verdict \in Url /\ Redirected(i, verdict)
    BY <1>5 DEF GuardAnswers
  <2> HIDE DEF verdict
  <2>2. CASE UNCHANGED <<navs, before, trees, lastSuccessfulId, currentNavigation>>
    BY <2>2 DEF RouterInv, NavsAreASequence, LatestIsRunning, SuccessIsOver, StateIsShown,
                Shown, FallsBackOnShown, Running, IsTransition, trees
  <2>3. CASE Goes(i, "resolving") /\ UNCHANGED <<before, trees, lastSuccessfulId, currentNavigation>>
    BY <2>1, <2>3, Continues DEF Goes, trees
  <2>4. CASE Rejected(i) \/ (verdict \in Url /\ Redirected(i, verdict))
    BY <2>1, <2>4, EndsWithoutSuccess
  <2> QED
    BY <2>1, <2>2, <2>3, <2>4
<1>6. CASE ResolverEmpty(i)
  <2>1. /\ navs[i].phase # "done" /\ Goes(i, "done") /\ Finalized
        /\ UNCHANGED <<currentUrlTree, routerState, lastSuccessfulId>>
    BY <1>6 DEF ResolverEmpty, trees
  <2> QED
    BY <2>1, Ends
<1>7. CASE Activates(i)
  BY <1>7, Succeeds
<1>8. CASE ActivationFails(i)
  <2>1. /\ navs[i].phase # "done" /\ Goes(i, "done") /\ Finalized /\ ResetsStateAndUrl
        /\ lastSuccessfulId' = lastSuccessfulId
    BY <1>8 DEF ActivationFails, TakenBack
  <2> QED
    BY <2>1, TakesBack, Ends
<1> QED
  BY <1>1, <1>2, <1>3, <1>4, <1>5, <1>6, <1>7, <1>8 DEF Proceeds

\* A step that leaves the router alone.
LEMMA Idles ==
  ASSUME RouterInv, UNCHANGED <<navs, before, trees, lastSuccessfulId, currentNavigation>>
  PROVE  RouterInv'
BY DEF RouterInv, NavsAreASequence, LatestIsRunning, SuccessIsOver, StateIsShown,
       Shown, FallsBackOnShown, Running, IsTransition, trees

LEMMA StepRouter ==
  ASSUME RouterInv, [Next]_vars
  PROVE  RouterInv' /\ lastSuccessfulId' \in {lastSuccessfulId, Len(navs)}
<1>1. CASE InitialNavigation
  BY <1>1, Scheduled DEF InitialNavigation
<1>2. ASSUME NEW url \in Url, NEW update \in Update, NavigateByUrl(url, update)
      PROVE  RouterInv' /\ lastSuccessfulId' = lastSuccessfulId
  BY <1>2, Scheduled DEF NavigateByUrl
<1>3. ASSUME NEW to, NEW sources, Travel(to, sources)
      PROVE  RouterInv' /\ lastSuccessfulId' = lastSuccessfulId
  BY <1>3, Idles DEF Travel
<1>4. CASE LocationChanges
  <2> DEFINE t == Head(timers)
  <2>1. \/ UNCHANGED <<navs, before, trees, lastSuccessfulId, currentNavigation>>
        \/ ScheduleNavigation(t.url, t.kind, t.update, t.promise)
    BY <1>4 DEF LocationChanges
  <2>2. CASE UNCHANGED <<navs, before, trees, lastSuccessfulId, currentNavigation>>
    BY <2>2, Idles
  <2>3. CASE ScheduleNavigation(t.url, t.kind, t.update, t.promise)
    BY <2>3, Scheduled
  <2> QED
    BY <2>1, <2>2, <2>3
<1>5. CASE RedirectScheduled
  BY <1>5, Scheduled DEF RedirectScheduled
<1>6. ASSUME NEW i \in DOMAIN navs, Proceeds(i)
      PROVE  RouterInv' /\ lastSuccessfulId' \in {lastSuccessfulId, Len(navs)}
  BY <1>6, StepProceeds
<1>7. CASE UNCHANGED vars
  BY <1>7, Idles DEF vars
<1> QED
  BY <1>1, <1>2, <1>3, <1>4, <1>5, <1>6, <1>7 DEF Next, TimerFires

LEMMA InvariantRouter == Spec => []RouterInv
<1>1. Init => RouterInv
  BY InitRouter
<1>2. RouterInv /\ [Next]_vars => RouterInv'
  BY StepRouter
<1> QED
  BY <1>1, <1>2, PTL DEF Spec

-------------------------------------------------------------------------------
(***************************************************************************)
(* Types.  An ending is announced once because a navigation has announced   *)
(* nothing while it runs.                                                  *)
(***************************************************************************)
EventsFresh ==
  \A i \in Id : events[i] # <<>> => i \in DOMAIN navs /\ navs[i].phase = "done"

\* TypeOK without `timers`, with `history` as a sequence.
Typed ==
  /\ Len(navs) <= MaxNav /\ \A i \in DOMAIN navs : navs[i] \in Transition
  /\ guards \in UNION {[1..n -> Answer] : n \in {0, Guards}}
  /\ currentUrlTree \in Url /\ rawUrlTree \in Url /\ browserUrlTree \in Url /\ routerState \in Url
  /\ before \in [tree : Url, state : Url]
  /\ navigated \in BOOLEAN
  /\ outcome \in [Id -> Outcome]
  /\ history \in Seq(Url) /\ at \in 1..Len(history)
  /\ events \in [Id -> {<<>>} \cup {<<e>> : e \in Ending}]
  /\ setting \in Setting

TypeInv == Typed /\ timers \in Seq(Timer) /\ EventsFresh

\* An entry of the history is replaced, ...
LEMMA ReplacedType ==
  ASSUME Typed, NEW url \in Url
  PROVE  LET h == Replaced(history, url)
         IN h \in Seq(Url) /\ Len(h) = Len(history) /\ h[at] = url
BY DEF Typed, Replaced

\* ... or one is pushed, and those after it are forgotten.
LEMMA PushedType ==
  ASSUME Typed, NEW url \in Url
  PROVE  LET h == Append(SubSeq(history, 1, at), url)
         IN h \in Seq(Url) /\ Len(h) = at + 1 /\ h[at + 1] = url
<1>1. history \in Seq(Url) /\ at \in Nat /\ 1 <= at /\ at <= Len(history) /\ Len(history) \in Nat
  BY DEF Typed
<1>2. SubSeq(history, 1, at) \in Seq(Url) /\ Len(SubSeq(history, 1, at)) = at
  BY <1>1, SubSeqProperties
<1>3. QED
  BY <1>1, <1>2, AppendProperties

LEMMA SetsBrowserUrlType ==
  ASSUME Typed, NEW url \in Url, NEW update, SetsBrowserUrl(url, update)
  PROVE  /\ history' \in Seq(Url) /\ at' \in 1..Len(history')
         /\ update # "skip" => history'[at'] = url
<1>1. history \in Seq(Url) /\ at \in 1..Len(history) /\ Len(history) \in Nat
  BY DEF Typed
<1>2. CASE update = "skip" /\ UNCHANGED browser
  BY <1>1, <1>2 DEF browser
<1>3. CASE history' = Replaced(history, url) /\ UNCHANGED at
  BY <1>1, <1>3, ReplacedType
<1>4. CASE history' = Append(SubSeq(history, 1, at), url) /\ at' = at + 1
  BY <1>1, <1>4, PushedType
<1>5. QED
  BY <1>2, <1>3, <1>4 DEF SetsBrowserUrl

LEMMA FirstEnding == \A e : Append(<<>>, e) = <<e>>
OBVIOUS

LEMMA InitTypes == Init => TypeInv
<1> SUFFICES ASSUME Init PROVE TypeInv
  OBVIOUS
<1>1. Root \in Url /\ Entry \in Url /\ MaxNav \in Nat \ {0}
  BY RouterAssumption
<1>2. Len(navs) <= MaxNav /\ \A i \in DOMAIN navs : navs[i] \in Transition
  BY <1>1 DEF Init
<1>3. guards \in UNION {[1..n -> Answer] : n \in {0, Guards}}
  <2>1. guards \in [1..0 -> Answer]
    BY DEF Init
  <2>2. QED
    BY <2>1
<1>4. /\ currentUrlTree \in Url /\ rawUrlTree \in Url /\ browserUrlTree \in Url
      /\ routerState \in Url /\ before \in [tree : Url, state : Url]
      /\ navigated \in BOOLEAN /\ setting \in Setting
  BY <1>1 DEF Init
<1>5. /\ outcome \in [Id -> Outcome] /\ events \in [Id -> {<<>>} \cup {<<e>> : e \in Ending}]
      /\ EventsFresh
  BY DEF Init, Outcome, EventsFresh
<1>6. history \in Seq(Url) /\ at \in 1..Len(history) /\ timers \in Seq(Timer)
  BY <1>1 DEF Init
<1>7. QED
  BY <1>2, <1>3, <1>4, <1>5, <1>6 DEF TypeInv, Typed

\* A call, an event of the history or a redirect.
LEMMA ScheduledTypes ==
  ASSUME RouterInv, Typed, EventsFresh, NEW url \in Url, NEW source \in Source,
         NEW update \in Update, NEW prior \in {0} \cup Id,
         ScheduleNavigation(url, source, update, prior)
  PROVE  Typed' /\ EventsFresh'
<1> DEFINE n == Len(navs)
<1>1. n \in Nat /\ DOMAIN navs = 1..n /\ n + 1 \in Id /\ Id = 1..MaxNav /\ MaxNav \in Nat
  BY RouterAssumption DEF RouterInv, NavsAreASequence, ScheduleNavigation, Id
<1>2. /\ NavsAreASequence' /\ Len(navs') = n + 1 /\ DOMAIN navs' = 1..(n + 1)
  BY ScheduledNavs
<1>3. ASSUME NEW i \in 1..n
      PROVE  navs'[i] \in Transition /\ navs'[i].phase = "done"
  <2>1. /\ SameCall(navs'[i], navs[i]) /\ navs'[i].phase = "done"
        /\ navs'[i].target = navs[i].target
    BY <1>1, ScheduledNavs
  <2>2. IsTransition(navs'[i]) /\ navs[i] \in Transition
    BY <1>1, <1>2 DEF NavsAreASequence, IsTransition, Typed
  <2>3. "done" \in Phase
    BY DEF Phase
  <2>4. QED
    BY <2>1, <2>2, <2>3 DEF Transition, SameCall, IsTransition
<1>4. navs'[n + 1] \in Transition
  <2>1. LET new == navs'[n + 1]
        IN /\ new.source \in Source /\ new.rawUrl \in Url /\ new.target \in Url
           /\ new.update \in Update /\ new.promise \in Id /\ new.phase \in Phase
    BY <1>1, ScheduledNavs DEF Phase
  <2>2. IsTransition(navs'[n + 1])
    BY <1>1, <1>2 DEF NavsAreASequence, IsTransition
  <2>3. QED
    BY <2>1, <2>2 DEF Transition, IsTransition
<1>5. Len(navs') <= MaxNav /\ \A i \in DOMAIN navs' : navs'[i] \in Transition
  BY <1>1, <1>2, <1>3, <1>4
<1>6. guards' \in UNION {[1..k -> Answer] : k \in {0, Guards}}
  <2>1. guards' = <<>>
    BY DEF ScheduleNavigation
  <2>2. guards' \in [1..0 -> Answer]
    BY <2>1
  <2>3. QED
    BY <2>2
<1>7. \A i \in Unsubscribed : i \in 1..n /\ i \in Id /\ events[i] = <<>>
  BY <1>1 DEF Unsubscribed, Running, EventsFresh
<1>8. /\ events' = [i \in Id |-> IF i \in Unsubscribed THEN Append(events[i], "NavigationCancel")
                                 ELSE events[i]]
      /\ "NavigationCancel" \in Ending
  BY DEF ScheduleNavigation, Ending
<1>9. \A i \in Id : events'[i] = IF i \in Unsubscribed THEN <<"NavigationCancel">> ELSE events[i]
  BY <1>7, <1>8, FirstEnding
<1>10. events' \in [Id -> {<<>>} \cup {<<e>> : e \in Ending}]
  BY <1>8, <1>9 DEF Typed
<1>11. EventsFresh'
  BY <1>1, <1>2, <1>3, <1>7, <1>9 DEF EventsFresh
<1>12. outcome' \in [Id -> Outcome]
  <2> DEFINE new(p) == CASE outcome[p] # "pending" -> outcome[p]
                         [] p \in {navs[i].promise : i \in Unsubscribed} -> "false"
                         [] p = (IF prior = 0 THEN n + 1 ELSE prior) /\ ~Processed(url) -> "null"
                         [] OTHER -> outcome[p]
  <2>1. outcome' = [p \in Id |-> new(p)]
    BY DEF ScheduleNavigation
  <2>2. \A p \in Id : new(p) \in Outcome
    BY DEF Typed, Outcome
  <2>3. QED
    BY <2>1, <2>2
<1>13. history' \in Seq(Url) /\ at' \in 1..Len(history')
  BY ReplacedType DEF ScheduleNavigation, Typed
<1>14. rawUrlTree' \in Url /\ before' \in [tree : Url, state : Url]
  BY DEF ScheduleNavigation, Typed
<1>15. UNCHANGED <<currentUrlTree, browserUrlTree, routerState, navigated, setting>>
  BY DEF ScheduleNavigation
<1>16. QED
  BY <1>5, <1>6, <1>10, <1>11, <1>12, <1>13, <1>14, <1>15 DEF Typed

\* A navigation that goes on remains a transition.
LEMMA GoesOnTypes ==
  ASSUME RouterInv, Typed, NEW i \in DOMAIN navs, navs[i].phase # "done",
         NEW target \in Url, NEW phase \in Phase,
         \/ navs' = [navs EXCEPT ![i].phase = phase] /\ target = navs[i].target
         \/ navs' = [navs EXCEPT ![i] = [[navs[i] EXCEPT !.target = target] EXCEPT !.phase = phase]]
  PROVE  Len(navs') <= MaxNav /\ \A j \in DOMAIN navs' : navs'[j] \in Transition
<1>1. /\ NavsAreASequence' /\ Len(navs') = Len(navs) /\ DOMAIN navs' = DOMAIN navs
      /\ navs'[i].target = target /\ navs'[i].phase = phase /\ SameCall(navs'[i], navs[i])
      /\ \A j \in DOMAIN navs \ {i} : navs'[j] = navs[j]
  <2>1. CASE navs' = [navs EXCEPT ![i].phase = phase] /\ target = navs[i].target
    BY <2>1, GoesOn
  <2>2. CASE navs' = [navs EXCEPT ![i] = [[navs[i] EXCEPT !.target = target] EXCEPT !.phase = phase]]
    BY <2>2, GoesOn
  <2>3. QED
    BY <2>1, <2>2
<1>2. IsTransition(navs'[i]) /\ navs[i] \in Transition
  BY <1>1 DEF NavsAreASequence, IsTransition, Typed
<1>3. navs'[i] \in Transition
  BY <1>1, <1>2 DEF Transition, SameCall, IsTransition
<1>4. QED
  BY <1>1, <1>3 DEF Typed

LEMMA GoesToTypes ==
  ASSUME RouterInv, Typed, NEW i \in DOMAIN navs, navs[i].phase # "done",
         NEW phase \in Phase, Goes(i, phase)
  PROVE  /\ Len(navs') <= MaxNav /\ \A j \in DOMAIN navs' : navs'[j] \in Transition
         /\ navs[i].target \in Url /\ navs[i].rawUrl \in Url
         /\ navs[i].update \in Update /\ navs[i].promise \in Id /\ i \in Id
<1>1. navs[i] \in Transition
  BY DEF Typed
<1>2. /\ navs[i].target \in Url /\ navs[i].rawUrl \in Url
      /\ navs[i].update \in Update /\ navs[i].promise \in Id
  BY <1>1 DEF Transition
<1>3. navs' = [navs EXCEPT ![i].phase = phase]
  BY DEF Goes
<1>4. Len(navs') <= MaxNav /\ \A j \in DOMAIN navs' : navs'[j] \in Transition
  BY <1>2, <1>3, GoesOnTypes
<1>5. i \in Id
  BY RouterAssumption DEF RouterInv, NavsAreASequence, Typed, Id
<1>6. QED
  BY <1>2, <1>4, <1>5

\* A navigation that ends announces its only ending.
LEMMA EndAnnounced ==
  ASSUME RouterInv, Typed, EventsFresh, NEW i \in DOMAIN navs, navs[i].phase # "done",
         Goes(i, "done"), NEW e \in Ending, events' = Announced(i, e)
  PROVE  /\ events'[i] = <<e>> /\ \A j \in Id \ {i} : events'[j] = events[j]
         /\ events' \in [Id -> {<<>>} \cup {<<f>> : f \in Ending}]
         /\ EventsFresh'
<1>1. i \in Id
  BY GoesToTypes DEF Phase
<1>2. events[i] = <<>> /\ DOMAIN events = Id
  BY <1>1 DEF EventsFresh, Typed
<1>3. events' = [events EXCEPT ![i] = <<e>>]
  BY <1>1, <1>2, FirstEnding DEF Announced
<1>4. /\ events'[i] = <<e>> /\ \A j \in Id \ {i} : events'[j] = events[j]
      /\ events' \in [Id -> {<<>>} \cup {<<f>> : f \in Ending}]
  BY <1>1, <1>3 DEF Typed
<1>5. /\ DOMAIN navs' = DOMAIN navs /\ navs'[i].phase = "done"
      /\ \A j \in DOMAIN navs \ {i} : navs'[j] = navs[j]
  BY GoesOn DEF Goes
<1>6. EventsFresh'
  BY <1>4, <1>5 DEF EventsFresh
<1>7. QED
  BY <1>4, <1>6

LEMMA SettledType ==
  ASSUME Typed, NEW p \in Id, NEW with \in Outcome
  PROVE  Settled(p, with) \in [Id -> Outcome]
BY DEF Typed, Settled

\* What a failure takes the router back to has its type.
LEMMA BackTypes ==
  ASSUME Typed
  PROVE  /\ before.tree \in Url /\ before.state \in Url
         /\ Replaced(history, before.tree) \in Seq(Url)
         /\ Replaced(history, rawUrlTree) \in Seq(Url)
         /\ at \in 1..Len(Replaced(history, before.tree))
         /\ at \in 1..Len(Replaced(history, rawUrlTree))
<1>1. before.tree \in Url /\ before.state \in Url /\ rawUrlTree \in Url
  BY DEF Typed
<1>2. QED
  BY <1>1, ReplacedType DEF Typed

LEMMA EndsTypes ==
  ASSUME RouterInv, Typed, EventsFresh, NEW i \in DOMAIN navs, navs[i].phase # "done",
         Fails(i) \/ Refused(i) \/ Rejected(i) \/ ResolverEmpty(i) \/ Activates(i)
           \/ ActivationFails(i) \/ \E url \in Url : Redirected(i, url),
         guards' \in UNION {[1..n -> Answer] : n \in {0, Guards}}
  PROVE  Typed' /\ EventsFresh'
<1>1. Goes(i, "done")
  BY DEF Fails, Refused, Rejected, ResolverEmpty, Activates, ActivationFails, Redirected
<1>2. /\ Len(navs') <= MaxNav /\ \A j \in DOMAIN navs' : navs'[j] \in Transition
      /\ navs[i].target \in Url /\ navs[i].update \in Update /\ navs[i].promise \in Id
  BY <1>1, GoesToTypes DEF Phase
<1>3. PICK e \in Ending : events' = Announced(i, e)
  BY DEF Fails, Refused, Rejected, ResolverEmpty, Activates, ActivationFails, Redirected, Ending
<1>4. events' \in [Id -> {<<>>} \cup {<<f>> : f \in Ending}] /\ EventsFresh'
  BY <1>1, <1>3, EndAnnounced
<1>5. outcome' \in [Id -> Outcome]
  <2>1. outcome' = outcome \/ \E with \in Outcome : outcome' = Settled(navs[i].promise, with)
    BY DEF Fails, Refused, Rejected, ResolverEmpty, Activates, ActivationFails, Redirected,
           PromiseLeft, Outcome
  <2>2. QED
    BY <1>2, <2>1, SettledType DEF Typed
<1>6. setting' = setting /\ before' = before /\ navigated' \in BOOLEAN
  BY DEF Fails, Refused, Rejected, ResolverEmpty, Activates, ActivationFails, Redirected, Typed
<1>7. /\ currentUrlTree' \in Url /\ rawUrlTree' \in Url /\ browserUrlTree' \in Url
      /\ routerState' \in Url
  BY <1>2, BackTypes
  DEF Fails, Refused, Rejected, ResolverEmpty, Activates, ActivationFails, Redirected, Typed,
      ResetsStateAndUrl, TakenBack, UpdatesLate, trees
<1>8. history' \in Seq(Url) /\ at' \in 1..Len(history')
  <2>1. CASE Fails(i) \/ Refused(i) \/ Rejected(i)
    BY <2>1, BackTypes DEF Fails, Refused, Rejected, ResetsUrl
  <2>2. CASE ResolverEmpty(i) \/ \E url \in Url : Redirected(i, url)
    BY <2>2 DEF ResolverEmpty, Redirected, browser, Typed
  <2>3. CASE Activates(i)
    <3>1. UNCHANGED browser \/ SetsBrowserUrl(navs[i].target, navs[i].update)
      BY <2>3 DEF Activates, UpdatesLate
    <3>2. QED
      BY <1>2, <3>1, SetsBrowserUrlType DEF browser, Typed
  <2>4. CASE ActivationFails(i)
    <3>1. \/ history' = Append(SubSeq(history, 1, at), before.tree) /\ at' = at + 1
          \/ history' = Replaced(history, before.tree) /\ UNCHANGED at
      BY <2>4 DEF ActivationFails
    <3>2. before.tree \in Url /\ at \in Nat
      BY BackTypes DEF Typed
    <3>3. CASE history' = Append(SubSeq(history, 1, at), before.tree) /\ at' = at + 1
      <4>1. history' \in Seq(Url) /\ Len(history') = at + 1
        BY <3>2, <3>3, PushedType
      <4>2. QED
        BY <3>2, <3>3, <4>1
    <3>4. QED
      BY <3>1, <3>3, BackTypes
  <2>5. QED
    BY <2>1, <2>2, <2>3, <2>4
<1>9. QED
  BY <1>2, <1>4, <1>5, <1>6, <1>7, <1>8 DEF Typed

LEMMA RecognizedTypes ==
  ASSUME RouterInv, Typed, EventsFresh, NEW i \in DOMAIN navs, NEW target \in {navs[i].rawUrl, Root},
         NEW n \in {0, Guards}, Recognized(i, target, n)
  PROVE  Typed' /\ EventsFresh'
<1> DEFINE phase == IF n = 0 THEN "resolving" ELSE "guarding"
<1>1. /\ navs[i].phase # "done" /\ phase \in Phase
      /\ navs' = [navs EXCEPT ![i] = [[navs[i] EXCEPT !.target = target] EXCEPT !.phase = phase]]
  BY Zenon DEF Recognized, Phase
<1>2. target \in Url
  BY RouterAssumption DEF Typed, Transition
<1> HIDE DEF phase
<1>3. Len(navs') <= MaxNav /\ \A j \in DOMAIN navs' : navs'[j] \in Transition
  BY <1>1, <1>2, GoesOnTypes
<1>4. guards' \in UNION {[1..k -> Answer] : k \in {0, Guards}}
  <2>1. guards' = [k \in 1..n |-> "pending"]
    BY DEF Recognized
  <2>2. guards' \in [1..n -> Answer]
    BY <2>1 DEF Answer, NotRedirect
  <2>3. QED
    BY <2>2
<1>5. /\ UNCHANGED <<before, currentUrlTree, rawUrlTree, routerState, navigated, setting, outcome,
                     events>>
      /\ browserUrlTree' \in Url
  BY <1>2 DEF Recognized, trees, ended, Typed
<1>6. history' \in Seq(Url) /\ at' \in 1..Len(history')
  <2>1. UNCHANGED browser \/ SetsBrowserUrl(target, navs[i].update)
    BY DEF Recognized, UpdatesEarly
  <2>2. QED
    BY <1>2, <2>1, SetsBrowserUrlType DEF browser, Typed
<1>7. DOMAIN navs' = DOMAIN navs /\ \A j \in DOMAIN navs \ {i} : navs'[j] = navs[j]
  <2>1. target = target
    OBVIOUS
  <2>2. QED
    BY <1>1, GoesOn
<1>8. EventsFresh'
  BY <1>1, <1>5, <1>7 DEF EventsFresh
<1>9. QED
  BY <1>3, <1>4, <1>5, <1>6, <1>8 DEF Typed

LEMMA GuardAnswersTypes ==
  ASSUME RouterInv, Typed, EventsFresh, NEW i \in DOMAIN navs, NEW k \in 1..Guards,
         NEW answer \in Answer, GuardAnswers(i, k, answer)
  PROVE  Typed' /\ EventsFresh'
<1> DEFINE verdict == Verdict(guards')
<1>1. guards' \in UNION {[1..n -> Answer] : n \in {0, Guards}}
  <2>1. PICK n \in {0, Guards} : guards \in [1..n -> Answer]
    BY DEF Typed
  <2>2. guards' \in [1..n -> Answer]
    BY <2>1 DEF GuardAnswers
  <2>3. QED
    BY <2>2
<1>2. /\ navs[i].phase # "done"
      /\ \/ UNCHANGED <<navs, before, trees, browserUrlTree, navigated, lastSuccessfulId,
                        currentNavigation, timers, ended, browser, travelled, setting>>
         \/ Goes(i, "resolving") /\ UNCHANGED <<before, trees, browserUrlTree, navigated,
              lastSuccessfulId, currentNavigation, timers, ended, browser, travelled, setting>>
         \/ Rejected(i)
         \/ verdict \in Url /\ Redirected(i, verdict)
  BY DEF GuardAnswers
<1> HIDE DEF verdict
<1>3. CASE UNCHANGED <<navs, before, trees, browserUrlTree, navigated, lastSuccessfulId,
                       currentNavigation, timers, ended, browser, travelled, setting>>
  BY <1>1, <1>3 DEF Typed, EventsFresh, trees, ended, browser
<1>4. CASE Goes(i, "resolving") /\ UNCHANGED <<before, trees, browserUrlTree, navigated,
             lastSuccessfulId, currentNavigation, timers, ended, browser, travelled, setting>>
  <2>1. Len(navs') <= MaxNav /\ \A j \in DOMAIN navs' : navs'[j] \in Transition
    BY <1>2, <1>4, GoesToTypes DEF Phase
  <2>2. DOMAIN navs' = DOMAIN navs /\ \A j \in DOMAIN navs \ {i} : navs'[j] = navs[j]
    BY <1>2, <1>4, GoesOn DEF Goes
  <2>3. EventsFresh'
    BY <1>2, <1>4, <2>2 DEF EventsFresh, ended
  <2>4. QED
    BY <1>1, <1>4, <2>1, <2>3 DEF Typed, trees, ended, browser
<1>5. CASE Rejected(i) \/ (verdict \in Url /\ Redirected(i, verdict))
  BY <1>1, <1>2, <1>5, EndsTypes
<1>6. QED
  BY <1>2, <1>3, <1>4, <1>5

\* A callback that waits has its type.
LEMMA RedirectType ==
  ASSUME RouterInv, Typed, NEW i \in DOMAIN navs, NEW url \in Url
  PROVE  /\ Redirect(i, url) \in Timer /\ Redirect(i, url).kind = "redirect"
         /\ Redirect(i, url).nav = i /\ Redirect(i, url).promise = navs[i].promise
<1>1. navs[i].promise \in Id /\ navs[i].update \in Update
  BY DEF Typed, Transition
<1>2. i \in Id
  BY RouterAssumption DEF RouterInv, NavsAreASequence, Typed, Id
<1>3. QED
  BY <1>1, <1>2 DEF Redirect, Timer, Update

\* What the pipeline leaves of `timers`.
LEMMA ProceedsTimers ==
  ASSUME NEW i \in DOMAIN navs, Proceeds(i)
  PROVE  \/ timers' = timers
         \/ /\ navs[i].phase # "done"
            /\ \E url \in Url : Redirected(i, url) /\ timers' = Append(timers, Redirect(i, url))
<1>1. ASSUME NEW target, NEW n, Recognized(i, target, n) PROVE timers' = timers
  BY <1>1 DEF Recognized
<1>2. CASE \/ RecognizeFails(i) \/ CanLoadRefuses(i) \/ GuardFails(i) \/ ResolverEmpty(i)
           \/ ResolverFails(i) \/ Activates(i) \/ ActivationFails(i)
  BY <1>2 DEF RecognizeFails, CanLoadRefuses, GuardFails, ResolverEmpty, ResolverFails,
              Activates, ActivationFails, Fails, Refused
<1>3. ASSUME NEW url \in Url, CanLoadRedirects(i, url)
      PROVE  navs[i].phase # "done" /\ Redirected(i, url) /\ timers' = Append(timers, Redirect(i, url))
  BY <1>3 DEF CanLoadRedirects, Redirected
<1>4. ASSUME NEW k, NEW answer, GuardAnswers(i, k, answer)
      PROVE  \/ timers' = timers
             \/ /\ navs[i].phase # "done"
                /\ \E url \in Url : Redirected(i, url) /\ timers' = Append(timers, Redirect(i, url))
  <2>1. navs[i].phase # "done" /\ (timers' = timers \/ \E url \in Url : Redirected(i, url))
    BY <1>4 DEF GuardAnswers, Rejected
  <2>2. QED
    BY <2>1 DEF Redirected
<1>5. QED
  BY <1>1, <1>2, <1>3, <1>4 DEF Proceeds

LEMMA ProceedsTypes ==
  ASSUME RouterInv, TypeInv, NEW i \in DOMAIN navs, Proceeds(i)
  PROVE  TypeInv'
<1>1. Typed' /\ EventsFresh'
  <2>1. CASE \E target \in {navs[i].rawUrl, Root}, n \in {0, Guards} : Recognized(i, target, n)
    BY <2>1, RecognizedTypes DEF TypeInv
  <2>2. CASE \/ RecognizeFails(i) \/ CanLoadRefuses(i) \/ GuardFails(i) \/ ResolverEmpty(i)
             \/ ResolverFails(i) \/ Activates(i) \/ ActivationFails(i)
             \/ \E url \in Url : CanLoadRedirects(i, url)
    <3>1. /\ navs[i].phase # "done" /\ guards' = guards
          /\ \/ Fails(i) \/ Refused(i) \/ ResolverEmpty(i) \/ Activates(i) \/ ActivationFails(i)
             \/ \E url \in Url : Redirected(i, url)
      BY <2>2 DEF RecognizeFails, CanLoadRefuses, GuardFails, ResolverEmpty, ResolverFails,
                  Activates, ActivationFails, CanLoadRedirects, Fails, Refused
    <3>2. guards' \in UNION {[1..n -> Answer] : n \in {0, Guards}}
      BY <3>1 DEF TypeInv, Typed
    <3>3. QED
      BY <3>1, <3>2, EndsTypes DEF TypeInv
  <2>3. CASE \E k \in 1..Guards, answer \in Answer \ {"pending"} : GuardAnswers(i, k, answer)
    BY <2>3, GuardAnswersTypes DEF TypeInv
  <2>4. QED
    BY <2>1, <2>2, <2>3 DEF Proceeds
<1>2. timers' \in Seq(Timer)
  <2>1. ASSUME NEW url \in Url PROVE Append(timers, Redirect(i, url)) \in Seq(Timer)
    <3>1. Redirect(i, url) \in Timer /\ timers \in Seq(Timer)
      BY RedirectType DEF TypeInv
    <3>2. QED
      BY <3>1, AppendProperties
  <2>2. QED
    BY <2>1, ProceedsTimers DEF TypeInv
<1>3. QED
  BY <1>1, <1>2 DEF TypeInv

\* The callbacks that a move through the history leaves behind those there are.
LEMMA TravelTimers ==
  ASSUME TypeInv, NEW to \in DOMAIN history,
         NEW sources \in {<<"popstate">>, <<"popstate", "hashchange">>, <<"hashchange", "popstate">>},
         Travel(to, sources)
  PROVE  /\ timers' \in Seq(Timer) /\ Len(timers') >= Len(timers)
         /\ \A k \in 1..Len(timers) : timers'[k] = timers[k]
         /\ \A k \in 1..Len(timers') : k > Len(timers) => timers'[k].kind # "redirect"
                                                          /\ timers'[k].promise = 0
<1> DEFINE new == [k \in DOMAIN sources |->
                     [kind |-> sources[k], url |-> history[to], update |-> "replace",
                      promise |-> 0, nav |-> 0]]
<1>1. history[to] \in Url
  BY DEF TypeInv, Typed
<1>2. DOMAIN sources \in {1..1, 1..2} /\ \A k \in DOMAIN sources : sources[k] \in Source \ {"imperative"}
  BY DEF Source
<1>3. \A k \in DOMAIN sources : new[k] \in Timer /\ new[k].kind # "redirect" /\ new[k].promise = 0
  BY <1>1, <1>2 DEF Timer, Update, Source
<1>4. timers' = timers \o new
  BY DEF Travel
<1>5. new \in Seq(Timer) /\ DOMAIN new = DOMAIN sources
  <2>1. PICK n \in {1, 2} : DOMAIN sources = 1..n
    BY <1>2
  <2>2. new \in [1..n -> Timer]
    BY <1>3, <2>1
  <2>3. QED
    BY <2>1, <2>2, SeqDef
<1> HIDE DEF new
<1>6. timers \in Seq(Timer) /\ DOMAIN new = 1..Len(new) /\ Len(new) \in Nat /\ Len(timers) \in Nat
  BY <1>5, LenProperties DEF TypeInv
<1>7. /\ timers' \in Seq(Timer) /\ Len(timers') = Len(timers) + Len(new)
      /\ \A k \in 1..Len(timers') :
           timers'[k] = IF k <= Len(timers) THEN timers[k] ELSE new[k - Len(timers)]
  BY <1>4, <1>5, <1>6, ConcatProperties
<1>8. ASSUME NEW k \in 1..Len(timers'), k > Len(timers)
      PROVE  timers'[k].kind # "redirect" /\ timers'[k].promise = 0
  <2>1. timers'[k] = new[k - Len(timers)] /\ k - Len(timers) \in DOMAIN new
    BY <1>6, <1>7, <1>8
  <2>2. QED
    BY <1>3, <1>5, <2>1
<1>9. QED
  BY <1>6, <1>7, <1>8

LEMMA TypesPreserved ==
  ASSUME RouterInv, TypeInv, [Next]_vars
  PROVE  TypeInv'
<1>1. timers # <<>> => Head(timers) \in Timer /\ Tail(timers) \in Seq(Timer)
  BY HeadTailProperties DEF TypeInv
<1>2. CASE InitialNavigation
  <2>1. ScheduleNavigation(history[at], "imperative", "replace", 0) /\ timers' = timers
    BY <1>2 DEF InitialNavigation
  <2>2. /\ history[at] \in Url /\ "imperative" \in Source /\ "replace" \in Update
        /\ 0 \in {0} \cup Id
    BY DEF TypeInv, Typed, Source, Update
  <2>3. QED
    BY <2>1, <2>2, ScheduledTypes DEF TypeInv
<1>3. ASSUME NEW url \in Url, NEW update \in Update, NavigateByUrl(url, update)
      PROVE  TypeInv'
  <2>1. ScheduleNavigation(url, "imperative", update, 0) /\ timers' = timers
    BY <1>3 DEF NavigateByUrl
  <2>2. "imperative" \in Source /\ 0 \in {0} \cup Id
    BY DEF Source
  <2>3. QED
    BY <2>1, <2>2, ScheduledTypes DEF TypeInv
<1>4. ASSUME NEW to \in DOMAIN history,
             NEW sources \in {<<"popstate">>, <<"popstate", "hashchange">>, <<"hashchange", "popstate">>},
             Travel(to, sources)
      PROVE  TypeInv'
  <2>1. timers' \in Seq(Timer)
    BY <1>4, TravelTimers
  <2>2. /\ UNCHANGED <<navs, before, guards, trees, browserUrlTree, navigated, ended, history, setting>>
        /\ at' = to
    BY <1>4 DEF Travel
  <2>3. to \in 1..Len(history)
    BY DEF TypeInv, Typed
  <2>4. QED
    BY <2>1, <2>2, <2>3 DEF TypeInv, Typed, EventsFresh, trees, ended
<1>5. CASE LocationChanges
  <2> DEFINE t == Head(timers)
  <2>1. /\ timers # <<>> /\ t.kind \in Source /\ timers' = Tail(timers)
        /\ \/ UNCHANGED <<navs, before, guards, trees, browserUrlTree, navigated, lastSuccessfulId,
                          currentNavigation, ended, browser, setting>>
           \/ ScheduleNavigation(t.url, t.kind, t.update, t.promise)
    BY <1>5 DEF LocationChanges
  <2>2. t.url \in Url /\ t.update \in Update /\ t.promise \in {0} \cup Id
    BY <1>1, <2>1 DEF Timer
  <2>3. timers' \in Seq(Timer)
    BY <1>1, <2>1
  <2> HIDE DEF t
  <2>4. CASE UNCHANGED <<navs, before, guards, trees, browserUrlTree, navigated, lastSuccessfulId,
                         currentNavigation, ended, browser, setting>>
    BY <2>3, <2>4 DEF TypeInv, Typed, EventsFresh, trees, ended, browser
  <2>5. CASE ScheduleNavigation(t.url, t.kind, t.update, t.promise)
    BY <2>1, <2>2, <2>3, <2>5, ScheduledTypes DEF TypeInv
  <2>6. QED
    BY <2>1, <2>4, <2>5
<1>6. CASE RedirectScheduled
  <2> DEFINE t == Head(timers)
  <2>1. /\ timers # <<>> /\ timers' = Tail(timers)
        /\ ScheduleNavigation(t.url, "imperative", t.update, t.promise)
    BY <1>6 DEF RedirectScheduled
  <2>2. t.url \in Url /\ t.update \in Update /\ t.promise \in {0} \cup Id /\ "imperative" \in Source
    BY <1>1, <2>1 DEF Timer, Source
  <2>3. timers' \in Seq(Timer)
    BY <1>1, <2>1
  <2> HIDE DEF t
  <2>4. QED
    BY <2>1, <2>2, <2>3, ScheduledTypes DEF TypeInv
<1>7. ASSUME NEW i \in DOMAIN navs, Proceeds(i) PROVE TypeInv'
  BY <1>7, ProceedsTypes
<1>8. CASE UNCHANGED vars
  BY <1>8 DEF vars, TypeInv, Typed, EventsFresh, trees, ended, browser
<1>9. QED
  BY <1>2, <1>3, <1>4, <1>5, <1>6, <1>7, <1>8 DEF Next, TimerFires

LEMMA InvariantTypes == Spec => [](RouterInv /\ TypeInv)
<1>1. Init => TypeInv
  BY InitTypes
<1>2. RouterInv /\ TypeInv /\ [Next]_vars => TypeInv'
  BY TypesPreserved
<1> QED
  BY <1>1, <1>2, InvariantRouter, PTL DEF Spec

-------------------------------------------------------------------------------
(***************************************************************************)
(* Promises.  A promise that is not settled is borne by one navigation that *)
(* runs or by one redirect that waits, never by two of them: this is what   *)
(* makes the end of a navigation the end of its promise.                   *)
(***************************************************************************)
Carried(p) == \E i \in DOMAIN navs : navs[i].promise = p
Runs(p) == \E i \in DOMAIN navs : navs[i].promise = p /\ navs[i].phase # "done"
WaitsAt(k, p) == k \in 1..Len(timers) /\ timers[k].kind = "redirect" /\ timers[k].promise = p
Waits(p) == \E k \in Nat : WaitsAt(k, p)
Had(p, e) == \E i \in DOMAIN navs : navs[i].promise = p /\ events[i] = <<e>>

\* What PromisesTellEvents says of a promise.
Story(p) ==
  /\ outcome[p] = "true" <=> Had(p, "NavigationEnd")
  /\ outcome[p] = "error" <=> Had(p, "NavigationError")
  /\ outcome[p] = "pending" <=> Runs(p) \/ Waits(p)

PromiseTypes ==
  /\ \A i \in DOMAIN navs : navs[i].promise \in DOMAIN navs
  /\ \A k \in 1..Len(timers) :
       IF timers[k].kind = "redirect"
       THEN timers[k].nav \in DOMAIN navs /\ timers[k].promise = navs[timers[k].nav].promise
       ELSE timers[k].promise = 0

BorneOnce ==
  /\ \A p \in Id : ~(Runs(p) /\ Waits(p))
  /\ \A p \in Id, k, l \in Nat : WaitsAt(k, p) /\ WaitsAt(l, p) => k = l

NewUnsettled == \A p \in Id \ DOMAIN navs : outcome[p] = "pending"

PromiseInv == PromiseTypes /\ BorneOnce /\ NewUnsettled /\ \A p \in Id : Carried(p) => Story(p)

LEMMA InitPromises == Init => PromiseInv
BY DEF Init, PromiseInv, PromiseTypes, BorneOnce, NewUnsettled, Carried, Runs, Waits, WaitsAt

\* The invariant implies the property.
LEMMA StoryTold ==
  ASSUME RouterInv, TypeInv, PromiseInv
  PROVE  PromisesTellEvents
<1> SUFFICES ASSUME NEW p \in {navs[i].promise : i \in DOMAIN navs}
             PROVE  /\ outcome[p] = "true" <=> \E i \in Carriers(p) : events[i] = <<"NavigationEnd">>
                    /\ outcome[p] = "error" <=> \E i \in Carriers(p) : events[i] = <<"NavigationError">>
                    /\ outcome[p] = "pending" <=> Pending(p)
  BY DEF PromisesTellEvents
<1>1. p \in Id /\ Carried(p)
  BY DEF TypeInv, Typed, Transition, Carried
<1>2. Story(p)
  BY <1>1 DEF PromiseInv
<1>3. /\ Had(p, "NavigationEnd") <=> \E i \in Carriers(p) : events[i] = <<"NavigationEnd">>
      /\ Had(p, "NavigationError") <=> \E i \in Carriers(p) : events[i] = <<"NavigationError">>
  BY DEF Had, Carriers
<1>4. Runs(p) <=> Carriers(p) \cap Running # {}
  BY DEF Runs, Carriers, Running
<1>5. Waits(p) <=> \E k \in DOMAIN timers : timers[k].kind = "redirect" /\ timers[k].nav \in Carriers(p)
  <2>1. DOMAIN timers = 1..Len(timers) /\ Len(timers) \in Nat
    BY LenProperties DEF TypeInv
  <2>2. QED
    BY <2>1 DEF PromiseInv, PromiseTypes, Waits, WaitsAt, Carriers
<1>6. QED
  BY <1>2, <1>3, <1>4, <1>5 DEF Story, Pending

\* A navigation that is running is the only one.
LEMMA RunsOne ==
  ASSUME RouterInv, TypeInv, NEW i \in DOMAIN navs, navs[i].phase # "done"
  PROVE  navs[i].promise \in Id /\ \A p : Runs(p) <=> p = navs[i].promise
<1>1. navs[i].promise \in Id
  BY DEF TypeInv, Typed, Transition
<1>2. \A j \in DOMAIN navs : navs[j].phase # "done" => j = i
  BY DEF RouterInv, LatestIsRunning, Running
<1>3. QED
  BY <1>1, <1>2 DEF Runs

\* A navigation that ends with an announcement e settles its promise accordingly.
Tells == {<<"NavigationEnd", "true">>, <<"NavigationError", "error">>, <<"NavigationCancel", "false">>}

LEMMA EndsPromise ==
  ASSUME RouterInv, TypeInv, PromiseInv, NEW i \in DOMAIN navs, navs[i].phase # "done",
         Goes(i, "done"), NEW e, NEW with, <<e, with>> \in Tells, events' = Announced(i, e),
         outcome' = Settled(navs[i].promise, with), timers' = timers
  PROVE  PromiseInv'
<1> DEFINE q == navs[i].promise
<1>1. q \in Id /\ (\A p : Runs(p) <=> p = q) /\ Carried(q) /\ e \in Ending
  BY RunsOne DEF Carried, Tells, Ending
<1>2. /\ DOMAIN navs' = DOMAIN navs /\ navs'[i].phase = "done" /\ navs'[i].promise = q
      /\ \A j \in DOMAIN navs \ {i} : navs'[j] = navs[j]
      /\ Running' = {}
  BY GoesOn DEF Goes, SameCall
<1>3. \A j \in DOMAIN navs : navs'[j].promise = navs[j].promise
  BY <1>2
<1>4. events'[i] = <<e>> /\ \A j \in Id \ {i} : events'[j] = events[j]
  BY <1>1, EndAnnounced DEF TypeInv
<1>5. DOMAIN navs \subseteq Id
  BY RouterAssumption DEF RouterInv, NavsAreASequence, TypeInv, Typed, Id
<1>6. ASSUME NEW p
      PROVE  /\ Carried(p)' <=> Carried(p)
             /\ ~Runs(p)'
             /\ Waits(p)' <=> Waits(p)
             /\ \A f : Had(p, f)' <=> Had(p, f) \/ (p = q /\ f = e)
  <2>1. Carried(p)' <=> Carried(p)
    BY <1>2, <1>3 DEF Carried
  <2>2. ~Runs(p)'
    BY <1>2 DEF Runs, Running
  <2>3. Waits(p)' <=> Waits(p)
    BY DEF Waits, WaitsAt
  <2>4. events[i] = <<>>
    BY <1>5 DEF TypeInv, EventsFresh
  <2>5. ASSUME NEW f PROVE Had(p, f)' <=> Had(p, f) \/ (p = q /\ f = e)
    <3>1. <<e>> = <<f>> <=> e = f
      OBVIOUS
    <3>2. <<>> # <<f>>
      OBVIOUS
    <3>3. QED
      BY <1>2, <1>3, <1>4, <1>5, <2>4, <3>1, <3>2 DEF Had
  <2>6. QED
    BY <2>1, <2>2, <2>3, <2>5
<1>7. outcome[q] = "pending"
  BY <1>1 DEF PromiseInv, Story
<1>8. \A p \in Id : outcome'[p] = IF p = q THEN with ELSE outcome[p]
  BY <1>1, <1>7 DEF TypeInv, Typed, Settled
<1>9. ASSUME NEW p \in Id, Carried(p)' PROVE Story(p)'
  <2>1. Story(p)
    BY <1>6, <1>9 DEF PromiseInv
  <2>2. CASE p = q
    <3>1. ~Waits(q)
      BY <1>1 DEF PromiseInv, BorneOnce
    <3>2. ~Had(q, "NavigationEnd") /\ ~Had(q, "NavigationError")
      BY <1>7, <2>1, <2>2 DEF Story
    <3>3. outcome'[q] = with /\ <<e, with>> \in Tells
      BY <1>1, <1>8
    <3>4. QED
      BY <1>6, <2>2, <3>1, <3>2, <3>3 DEF Story, Tells
  <2>3. CASE p # q
    BY <1>1, <1>6, <1>8, <2>1, <2>3 DEF Story
  <2>4. QED
    BY <2>2, <2>3
<1>10. BorneOnce'
  BY <1>6 DEF PromiseInv, BorneOnce, WaitsAt
<1>11. PromiseTypes' /\ NewUnsettled'
  BY <1>1, <1>2, <1>3, <1>8 DEF PromiseInv, PromiseTypes, NewUnsettled
<1>12. QED
  BY <1>9, <1>10, <1>11 DEF PromiseInv

\* A redirect takes the promise over.
LEMMA RedirectTakesPromise ==
  ASSUME RouterInv, TypeInv, PromiseInv, NEW i \in DOMAIN navs, navs[i].phase # "done",
         NEW url \in Url, Redirected(i, url)
  PROVE  PromiseInv'
<1> DEFINE q == navs[i].promise
           n == Len(timers)
<1>1. q \in Id /\ (\A p : Runs(p) <=> p = q)
  BY RunsOne
<1>2. /\ Goes(i, "done") /\ events' = Announced(i, "NavigationCancel") /\ outcome' = outcome
      /\ timers' = Append(timers, Redirect(i, url))
  BY DEF Redirected, PromiseLeft
<1>3. /\ DOMAIN navs' = DOMAIN navs /\ navs'[i].promise = q /\ Running' = {}
      /\ \A j \in DOMAIN navs \ {i} : navs'[j] = navs[j]
  BY <1>2, GoesOn DEF Goes, SameCall
<1>4. \A j \in DOMAIN navs : navs'[j].promise = navs[j].promise
  BY <1>3
<1>5. /\ events[i] = <<>> /\ events'[i] = <<"NavigationCancel">>
      /\ \A j \in Id \ {i} : events'[j] = events[j]
      /\ DOMAIN navs \subseteq Id
  BY <1>2, EndAnnounced, RouterAssumption
  DEF TypeInv, EventsFresh, Ending, RouterInv, NavsAreASequence, Typed, Id
<1>6. /\ n \in Nat /\ Len(timers') = n + 1 /\ \A k \in 1..n : timers'[k] = timers[k]
      /\ timers'[n + 1].kind = "redirect" /\ timers'[n + 1].nav = i /\ timers'[n + 1].promise = q
  <2>1. timers \in Seq(Timer) /\ Redirect(i, url) \in Timer
    BY RedirectType DEF TypeInv
  <2>2. n \in Nat /\ Len(timers') = n + 1 /\ timers'[n + 1] = Redirect(i, url)
        /\ \A k \in 1..n : timers'[k] = timers[k]
    BY <1>2, <2>1, AppendProperties, LenProperties
  <2>3. QED
    BY <2>2, RedirectType DEF TypeInv
<1> HIDE DEF n
<1>7. ASSUME NEW p, NEW k \in Nat
      PROVE  WaitsAt(k, p)' <=> WaitsAt(k, p) \/ (k = n + 1 /\ p = q)
  <2>1. WaitsAt(k, p)' <=> k \in 1..(n + 1) /\ timers'[k].kind = "redirect" /\ timers'[k].promise = p
    BY <1>6 DEF WaitsAt
  <2>2. CASE k = n + 1
    <3>1. ~WaitsAt(k, p)
      BY <1>6, <2>2 DEF WaitsAt, n
    <3>2. QED
      BY <1>6, <2>1, <2>2, <3>1
  <2>3. CASE k # n + 1
    BY <1>6, <2>1, <2>3 DEF WaitsAt, n
  <2>4. QED
    BY <2>2, <2>3
<1>8. ASSUME NEW p
      PROVE  /\ Carried(p)' <=> Carried(p)
             /\ ~Runs(p)'
             /\ Waits(p)' <=> Waits(p) \/ p = q
             /\ Had(p, "NavigationEnd")' <=> Had(p, "NavigationEnd")
             /\ Had(p, "NavigationError")' <=> Had(p, "NavigationError")
  <2>1. Carried(p)' <=> Carried(p)
    BY <1>3, <1>4 DEF Carried
  <2>2. ~Runs(p)'
    BY <1>3 DEF Runs, Running
  <2>3. Waits(p)' <=> Waits(p) \/ p = q
    BY <1>6, <1>7 DEF Waits
  <2>4. ASSUME NEW f \in {"NavigationEnd", "NavigationError"} PROVE Had(p, f)' <=> Had(p, f)
    <3>1. <<"NavigationCancel">> # <<f>> /\ <<>> # <<f>>
      OBVIOUS
    <3>2. QED
      BY <1>3, <1>4, <1>5, <3>1 DEF Had
  <2>5. QED
    BY <2>1, <2>2, <2>3, <2>4
<1>9. ASSUME NEW p \in Id, Carried(p)' PROVE Story(p)'
  <2>1. Story(p)
    BY <1>8, <1>9 DEF PromiseInv
  <2>2. QED
    BY <1>1, <1>2, <1>8, <2>1 DEF Story
<1>10. BorneOnce'
  <2>1. \A p \in Id : ~(Runs(p)' /\ Waits(p)')
    BY <1>8
  <2>2. \A k \in Nat : ~WaitsAt(k, q)
    BY <1>1 DEF PromiseInv, BorneOnce, Waits
  <2>3. \A p \in Id, k, l \in Nat : WaitsAt(k, p)' /\ WaitsAt(l, p)' => k = l
    BY <1>7, <2>2 DEF PromiseInv, BorneOnce
  <2>4. QED
    BY <2>1, <2>3 DEF BorneOnce
<1>11. PromiseTypes'
  <2>1. ASSUME NEW k \in 1..(n + 1)
        PROVE  IF timers'[k].kind = "redirect"
               THEN timers'[k].nav \in DOMAIN navs' /\ timers'[k].promise = navs'[timers'[k].nav].promise
               ELSE timers'[k].promise = 0
    <3>1. CASE k = n + 1
      BY <1>3, <1>6, <3>1
    <3>2. CASE k # n + 1
      <4>1. k \in 1..n
        BY <1>6, <3>2
      <4>2. QED
        BY <1>3, <1>4, <1>6, <4>1 DEF PromiseInv, PromiseTypes, n
    <3>3. QED
      BY <3>1, <3>2
  <2>2. \A j \in DOMAIN navs' : navs'[j].promise \in DOMAIN navs'
    BY <1>3, <1>4 DEF PromiseInv, PromiseTypes
  <2>3. QED
    BY <1>6, <2>1, <2>2 DEF PromiseTypes
<1>12. NewUnsettled'
  BY <1>2, <1>3 DEF PromiseInv, NewUnsettled
<1>13. QED
  BY <1>9, <1>10, <1>11, <1>12 DEF PromiseInv

\* Callbacks join those that wait, or one leaves, and none of them is a redirect.
RedirectsRest ==
  \/ timers' = timers
  \/ timers # <<>> /\ timers' = Tail(timers) /\ Head(timers).kind # "redirect"
  \/ /\ timers' \in Seq(Timer) /\ Len(timers') >= Len(timers)
     /\ \A k \in 1..Len(timers) : timers'[k] = timers[k]
     /\ \A k \in 1..Len(timers') : k > Len(timers) => timers'[k].kind # "redirect"
                                                      /\ timers'[k].promise = 0

\* What is known of a callback, of the navigations that there are now.
CallbackOK(t) ==
  IF t.kind = "redirect" THEN t.nav \in DOMAIN navs /\ t.promise = navs[t.nav].promise
                         ELSE t.promise = 0

\* The head leaves: whatever waits then has waited one place further back.
LEMMA HeadLeaves ==
  ASSUME TypeInv, timers # <<>>, timers' = Tail(timers)
  PROVE  /\ Len(timers) \in Nat /\ Len(timers') = Len(timers) - 1
         /\ \A k \in 1..Len(timers') : k + 1 \in 1..Len(timers) /\ timers'[k] = timers[k + 1]
         /\ \A k \in Nat : \A p : WaitsAt(k, p)' <=> k # 0 /\ WaitsAt(k + 1, p)
         /\ Head(timers) = timers[1] /\ 1 \in 1..Len(timers)
<1>1. timers \in Seq(Timer) /\ Len(timers) \in Nat /\ Len(timers) # 0
  BY LenProperties, EmptySeq DEF TypeInv
<1>2. /\ Len(timers') = Len(timers) - 1
      /\ \A k \in 1..Len(timers') : timers'[k] = timers[k + 1]
      /\ Head(timers) = timers[1] /\ 1 \in 1..Len(timers)
  BY <1>1, HeadTailProperties
<1>3. \A k \in 1..Len(timers') : k + 1 \in 1..Len(timers)
  BY <1>1, <1>2
<1>4. \A k \in Nat : k \in 1..Len(timers') <=> k # 0 /\ k + 1 \in 1..Len(timers)
  BY <1>1, <1>2
<1>5. \A k \in Nat : \A p : WaitsAt(k, p)' <=> k # 0 /\ WaitsAt(k + 1, p)
  BY <1>2, <1>4 DEF WaitsAt
<1>6. QED
  BY <1>1, <1>2, <1>3, <1>5

LEMMA RedirectsRestKeeps ==
  ASSUME TypeInv, PromiseInv, RedirectsRest
  PROVE  /\ \A p : Waits(p)' <=> Waits(p)
         /\ \A p \in Id, k, l \in Nat : WaitsAt(k, p)' /\ WaitsAt(l, p)' => k = l
         /\ \A k \in 1..Len(timers') : CallbackOK(timers'[k])
<1>1. Len(timers) \in Nat /\ \A k \in 1..Len(timers) : CallbackOK(timers[k])
  BY LenProperties DEF TypeInv, PromiseInv, PromiseTypes, CallbackOK
<1>2. CASE timers' = timers
  BY <1>1, <1>2 DEF Waits, WaitsAt, PromiseInv, BorneOnce
<1>3. CASE timers # <<>> /\ timers' = Tail(timers) /\ Head(timers).kind # "redirect"
  <2>1. ASSUME NEW p, NEW k \in Nat, WaitsAt(k, p)
        PROVE  k - 1 \in Nat /\ WaitsAt(k - 1, p)'
    <3>1. k # 1 /\ k \in 1..Len(timers)
      BY <1>3, <2>1, HeadLeaves DEF WaitsAt
    <3>2. k - 1 \in Nat /\ k - 1 # 0 /\ (k - 1) + 1 = k
      BY <1>1, <3>1
    <3>3. QED
      BY <1>3, <2>1, <3>2, HeadLeaves
  <2>2. \A p : Waits(p)' <=> Waits(p)
    <3>1. ASSUME NEW p, NEW k \in Nat, WaitsAt(k, p)' PROVE Waits(p)
      <4>1. WaitsAt(k + 1, p) /\ k + 1 \in Nat
        BY <1>3, <3>1, HeadLeaves
      <4>2. QED
        BY <4>1 DEF Waits
    <3>2. QED
      BY <2>1, <3>1 DEF Waits
  <2>3. ASSUME NEW p \in Id, NEW k \in Nat, NEW l \in Nat, WaitsAt(k, p)', WaitsAt(l, p)'
        PROVE  k = l
    <3>1. WaitsAt(k + 1, p) /\ WaitsAt(l + 1, p) /\ k + 1 \in Nat /\ l + 1 \in Nat
      BY <1>3, <2>3, HeadLeaves
    <3>2. k + 1 = l + 1
      BY <3>1 DEF PromiseInv, BorneOnce
    <3>3. QED
      BY <3>2
  <2>4. \A k \in 1..Len(timers') : CallbackOK(timers'[k])
    BY <1>1, <1>3, HeadLeaves
  <2>5. QED
    BY <2>2, <2>3, <2>4
<1>4. CASE /\ timers' \in Seq(Timer) /\ Len(timers') >= Len(timers)
           /\ \A k \in 1..Len(timers) : timers'[k] = timers[k]
           /\ \A k \in 1..Len(timers') : k > Len(timers) => timers'[k].kind # "redirect"
                                                            /\ timers'[k].promise = 0
  <2>1. Len(timers') \in Nat
    BY <1>4, LenProperties
  <2>2. \A p, k : WaitsAt(k, p)' <=> WaitsAt(k, p)
    BY <1>1, <1>4, <2>1 DEF WaitsAt
  <2>3. ASSUME NEW k \in 1..Len(timers') PROVE CallbackOK(timers'[k])
    <3>1. CASE k > Len(timers)
      BY <1>4, <3>1 DEF CallbackOK
    <3>2. CASE ~(k > Len(timers))
      <4>1. k \in 1..Len(timers)
        BY <1>1, <2>1, <3>2
      <4>2. QED
        BY <1>1, <1>4, <4>1
    <3>3. QED
      BY <3>1, <3>2
  <2>4. QED
    BY <2>2, <2>3 DEF Waits, PromiseInv, BorneOnce
<1>5. QED
  BY <1>2, <1>3, <1>4 DEF RedirectsRest

\* A step in which no promise is taken, settled or handed over.
LEMMA PromisesRest ==
  ASSUME RouterInv, TypeInv, PromiseInv, outcome' = outcome, events' = events,
         DOMAIN navs' = DOMAIN navs,
         \A j \in DOMAIN navs : /\ navs'[j].promise = navs[j].promise
                                /\ navs'[j].phase = "done" <=> navs[j].phase = "done",
         RedirectsRest
  PROVE  PromiseInv'
<1>1. ASSUME NEW p
      PROVE  /\ Carried(p)' <=> Carried(p)
             /\ Runs(p)' <=> Runs(p)
             /\ Waits(p)' <=> Waits(p)
             /\ \A f : Had(p, f)' <=> Had(p, f)
  <2>1. Waits(p)' <=> Waits(p)
    BY RedirectsRestKeeps
  <2>2. QED
    BY <2>1 DEF Carried, Runs, Had
<1>2. ASSUME NEW p \in Id, Carried(p)' PROVE Story(p)'
  <2>1. Story(p)
    BY <1>1, <1>2 DEF PromiseInv
  <2>2. QED
    BY <1>1, <2>1 DEF Story
<1>3. BorneOnce'
  <2>1. \A p \in Id : ~(Runs(p)' /\ Waits(p)')
    BY <1>1 DEF PromiseInv, BorneOnce
  <2>2. QED
    BY <2>1, RedirectsRestKeeps DEF BorneOnce
<1>4. PromiseTypes'
  <2>1. \A k \in 1..Len(timers') : CallbackOK(timers'[k])
    BY RedirectsRestKeeps
  <2>2. QED
    BY <2>1 DEF PromiseInv, PromiseTypes, CallbackOK
<1>5. NewUnsettled'
  BY DEF PromiseInv, NewUnsettled
<1>6. QED
  BY <1>2, <1>3, <1>4, <1>5 DEF PromiseInv

\* A call, an event of the history or a redirect: the navigation that runs is stopped
\* and its promise settled; the new one bears a new promise, or the redirect's.
LEMMA ScheduledPromises ==
  ASSUME RouterInv, TypeInv, PromiseInv, NEW url, NEW source, NEW update, NEW prior,
         ScheduleNavigation(url, source, update, prior),
         \/ timers' = timers /\ prior = 0
         \/ timers # <<>> /\ timers' = Tail(timers) /\ prior = Head(timers).promise
  PROVE  PromiseInv'
<1> DEFINE n == Len(navs)
           q == IF prior = 0 THEN n + 1 ELSE prior
<1>1. n \in Nat /\ DOMAIN navs = 1..n /\ n + 1 \in Id /\ Id \subseteq Nat /\ 1..n \subseteq Id
  BY RouterAssumption DEF RouterInv, NavsAreASequence, ScheduleNavigation, Id
<1>2. /\ DOMAIN navs' = 1..(n + 1) /\ navs'[n + 1].promise = q
      /\ navs'[n + 1].phase = IF Processed(url) THEN "recognizing" ELSE "done"
      /\ \A i \in 1..n : navs'[i].promise = navs[i].promise /\ navs'[i].phase = "done"
  BY <1>1, ScheduledNavs DEF SameCall
\* The promise of the new navigation is nobody's, or it is that of the redirect.
<1>3. /\ q \in 1..(n + 1) /\ (prior = 0 => ~Carried(q) /\ ~Waits(q))
      /\ (prior # 0 => Carried(q) /\ WaitsAt(1, q) /\ timers # <<>> /\ timers' = Tail(timers))
  <2>1. CASE prior = 0
    <3>1. q = n + 1 /\ ~Carried(q)
      BY <1>1, <2>1 DEF PromiseInv, PromiseTypes, Carried
    <3>2. ~Waits(q)
      <4>1. ASSUME NEW k \in Nat, WaitsAt(k, q) PROVE FALSE
        <5>1. timers[k].promise \in 1..n
          BY <1>1, <4>1 DEF WaitsAt, PromiseInv, PromiseTypes
        <5>2. QED
          BY <1>1, <3>1, <4>1, <5>1 DEF WaitsAt
      <4>2. QED
        BY <4>1 DEF Waits
    <3>3. QED
      BY <1>1, <2>1, <3>1, <3>2
  <2>2. CASE prior # 0
    <3>1. timers # <<>> /\ timers' = Tail(timers) /\ prior = Head(timers).promise /\ q = prior
      BY <2>2
    <3>2. Head(timers) = timers[1] /\ 1 \in 1..Len(timers)
      BY <3>1, HeadLeaves
    <3>3. timers[1].kind = "redirect"
      BY <2>2, <3>1, <3>2 DEF PromiseInv, PromiseTypes
    <3>4. timers[1].nav \in 1..n /\ q = navs[timers[1].nav].promise
      BY <1>1, <3>1, <3>2, <3>3 DEF PromiseInv, PromiseTypes
    <3>5. q \in 1..n /\ Carried(q) /\ WaitsAt(1, q)
      BY <1>1, <3>1, <3>2, <3>3, <3>4 DEF PromiseInv, PromiseTypes, Carried, WaitsAt
    <3>6. QED
      BY <1>1, <2>2, <3>1, <3>5
  <2>3. QED
    BY <2>1, <2>2
<1>4. q \in Id /\ q \in Nat /\ outcome[q] = "pending" /\ ~Runs(q)
  <2>1. q \in Id
    BY <1>1, <1>3, RouterAssumption DEF Id
  <2>2. CASE prior = 0
    <3>1. q = n + 1 /\ q \notin DOMAIN navs
      BY <1>1, <2>2
    <3>2. outcome[q] = "pending"
      BY <2>1, <3>1 DEF PromiseInv, NewUnsettled
    <3>3. QED
      BY <1>1, <1>3, <2>1, <2>2, <3>2 DEF Carried, Runs
  <2>3. CASE prior # 0
    <3>1. Carried(q) /\ WaitsAt(1, q) /\ Waits(q)
      BY <1>3, <2>3 DEF Waits
    <3>2. QED
      BY <1>1, <2>1, <3>1 DEF PromiseInv, Story, BorneOnce
  <2>4. QED
    BY <2>2, <2>3
<1> HIDE DEF q
\* The redirect, if there is one, does not wait any more; the others do.
<1>5. /\ \A p : Waits(p)' <=> Waits(p) /\ p # q
      /\ \A p \in Id, k, l \in Nat : WaitsAt(k, p)' /\ WaitsAt(l, p)' => k = l
      /\ \A k \in 1..Len(timers') : CallbackOK(timers'[k])
  <2>1. CASE prior = 0
    <3>1. RedirectsRest
      <4>1. CASE timers' = timers
        BY <4>1 DEF RedirectsRest
      <4>2. CASE timers # <<>> /\ timers' = Tail(timers) /\ prior = Head(timers).promise
        <5>1. Head(timers) = timers[1] /\ 1 \in 1..Len(timers)
          BY <4>2, HeadLeaves
        <5>2. Head(timers).kind # "redirect"
          BY <1>1, <2>1, <4>2, <5>1 DEF PromiseInv, PromiseTypes
        <5>3. QED
          BY <4>2, <5>2 DEF RedirectsRest
      <4>3. QED
        BY <4>1, <4>2
    <3>2. QED
      BY <1>3, <2>1, <3>1, RedirectsRestKeeps
  <2>2. CASE prior # 0
    <3>1. WaitsAt(1, q) /\ timers # <<>> /\ timers' = Tail(timers)
      BY <1>3, <2>2
    <3>2. \A k \in Nat : WaitsAt(k, q) => k = 1
      BY <1>4, <3>1 DEF PromiseInv, BorneOnce
    <3>3. \A k \in Nat : \A p : WaitsAt(k, p)' <=> k # 0 /\ WaitsAt(k + 1, p)
      BY <3>1, HeadLeaves
    <3>4. ASSUME NEW p, NEW k \in Nat, WaitsAt(k, p)' PROVE Waits(p) /\ p # q
      <4>1. k # 0 /\ WaitsAt(k + 1, p) /\ k + 1 \in Nat /\ k + 1 # 1
        BY <3>3, <3>4
      <4>2. QED
        BY <3>2, <4>1 DEF Waits
    <3>5. ASSUME NEW p, NEW k \in Nat, WaitsAt(k, p), p # q PROVE Waits(p)'
      <4>1. k # 1 /\ k \in 1..Len(timers) /\ Len(timers) \in Nat
        BY <3>1, <3>5, HeadLeaves DEF WaitsAt
      <4>2. k - 1 \in Nat /\ k - 1 # 0 /\ (k - 1) + 1 = k
        BY <4>1
      <4>3. WaitsAt(k - 1, p)'
        BY <3>1, <3>5, <4>2, HeadLeaves
      <4>4. QED
        BY <4>2, <4>3 DEF Waits
    <3>6. \A p : Waits(p)' <=> Waits(p) /\ p # q
      BY <3>4, <3>5 DEF Waits
    <3>7. ASSUME NEW p \in Id, NEW k \in Nat, NEW l \in Nat, WaitsAt(k, p)', WaitsAt(l, p)'
          PROVE  k = l
      <4>1. WaitsAt(k + 1, p) /\ WaitsAt(l + 1, p) /\ k + 1 \in Nat /\ l + 1 \in Nat
        BY <3>3, <3>7
      <4>2. k + 1 = l + 1
        BY <4>1 DEF PromiseInv, BorneOnce
      <4>3. QED
        BY <4>2
    <3>8. \A k \in 1..Len(timers) : CallbackOK(timers[k])
      BY DEF PromiseInv, PromiseTypes, CallbackOK
    <3>9. \A k \in 1..Len(timers') : CallbackOK(timers'[k])
      BY <3>1, <3>8, HeadLeaves
    <3>10. QED
      BY <3>6, <3>7, <3>9
  <2>3. QED
    BY <2>1, <2>2
<1>6. \A p : Carried(p)' <=> Carried(p) \/ p = q
  BY <1>1, <1>2 DEF Carried
<1>7. \A p : Runs(p)' <=> p = q /\ Processed(url)
  BY <1>1, <1>2 DEF Runs
\* What is announced now is the cancellation of the navigation that is stopped.
<1>8. \A p, e : e # "NavigationCancel" => (Had(p, e)' <=> Had(p, e))
  <2>1. \A i \in Unsubscribed : i \in 1..n /\ events[i] = <<>>
    BY <1>1 DEF Unsubscribed, Running, TypeInv, EventsFresh
  <2>2. events' = [i \in Id |-> IF i \in Unsubscribed THEN Append(events[i], "NavigationCancel")
                                ELSE events[i]]
    BY DEF ScheduleNavigation
  <2>3. \A i \in 1..n : events'[i] = IF i \in Unsubscribed THEN <<"NavigationCancel">> ELSE events[i]
    BY <1>1, <2>1, <2>2, FirstEnding
  <2>4. events'[n + 1] = <<>>
    BY <1>1, <2>1, <2>2 DEF TypeInv, EventsFresh
  <2>5. ASSUME NEW p, NEW e, e # "NavigationCancel" PROVE Had(p, e)' <=> Had(p, e)
    <3>1. <<>> # <<e>> /\ <<"NavigationCancel">> # <<e>>
      BY <2>5
    <3>2. ASSUME NEW i \in 1..n
          PROVE  navs'[i].promise = p /\ events'[i] = <<e>> <=> navs[i].promise = p /\ events[i] = <<e>>
      BY <1>2, <2>1, <2>3, <3>1
    <3>3. DOMAIN navs' = (1..n) \cup {n + 1}
      BY <1>1, <1>2
    <3>4. QED
      BY <1>1, <2>4, <3>1, <3>2, <3>3 DEF Had
  <2>6. QED
    BY <2>5
\* The promise of that navigation is settled; that of the new one if it is ignored.
<1>9. \A p \in Id : outcome'[p] = IF outcome[p] # "pending" THEN outcome[p]
                                  ELSE IF Runs(p) THEN "false"
                                  ELSE IF p = q /\ ~Processed(url) THEN "null" ELSE "pending"
  <2> DEFINE stopped == {navs[i].promise : i \in Unsubscribed}
  <2>1. \A p : p \in stopped <=> Runs(p)
    BY DEF Runs, Unsubscribed, Running
  <2>2. outcome' = [p \in Id |-> CASE outcome[p] # "pending" -> outcome[p]
                                   [] p \in stopped -> "false"
                                   [] p = q /\ ~Processed(url) -> "null"
                                   [] OTHER -> outcome[p]]
    BY DEF ScheduleNavigation, q
  <2> HIDE DEF stopped
  <2>3. ASSUME NEW p \in Id
        PROVE  outcome'[p] = IF outcome[p] # "pending" THEN outcome[p]
                             ELSE IF Runs(p) THEN "false"
                             ELSE IF p = q /\ ~Processed(url) THEN "null" ELSE "pending"
    <3>1. outcome'[p] = CASE outcome[p] # "pending" -> outcome[p]
                          [] p \in stopped -> "false"
                          [] p = q /\ ~Processed(url) -> "null"
                          [] OTHER -> outcome[p]
      BY <2>2
    <3>2. CASE p = q
      <4>1. outcome[p] = "pending" /\ ~Runs(p)
        BY <1>4, <3>2
      <4>2. p \notin stopped
        BY <2>1, <4>1
      <4>3. QED
        BY <3>1, <3>2, <4>1, <4>2
    <3>3. CASE p # q
      <4>1. CASE outcome[p] # "pending"
        <5>1. p \notin stopped
          BY <2>1, <4>1 DEF PromiseInv, Story, Carried, Runs
        <5>2. outcome'[p] = outcome[p]
          BY <3>1, <3>3, <4>1, <5>1
        <5>3. QED
          BY <4>1, <5>2
      <4>2. CASE outcome[p] = "pending" /\ Runs(p)
        <5>1. p \in stopped /\ p # q /\ outcome[p] = "pending"
          BY <2>1, <3>3, <4>2
        <5>2. outcome'[p] = "false"
          BY <3>1, <5>1
        <5>3. QED
          BY <4>2, <5>2
      <4>3. CASE outcome[p] = "pending" /\ ~Runs(p)
        <5>1. p \notin stopped /\ p # q /\ outcome[p] = "pending"
          BY <2>1, <3>3, <4>3
        <5>2. outcome'[p] = "pending"
          BY <3>1, <5>1
        <5>3. QED
          BY <3>3, <4>3, <5>2
      <4>4. QED
        BY <4>1, <4>2, <4>3
    <3>4. QED
      BY <3>2, <3>3
  <2>4. QED
    BY <2>3
<1>10. ASSUME NEW p \in Id, Carried(p)' PROVE Story(p)'
  <2>1. /\ Had(p, "NavigationEnd")' <=> Had(p, "NavigationEnd")
        /\ Had(p, "NavigationError")' <=> Had(p, "NavigationError")
    BY <1>8
  <2>2. CASE p = q
    <3>1. ~Had(p, "NavigationEnd") /\ ~Had(p, "NavigationError")
      <4>1. CASE Carried(p)
        BY <1>4, <2>2, <4>1 DEF PromiseInv, Story
      <4>2. CASE ~Carried(p)
        BY <4>2 DEF Carried, Had
      <4>3. QED
        BY <4>1, <4>2
    <3>2. outcome'[p] = IF Processed(url) THEN "pending" ELSE "null"
      BY <1>4, <1>9, <2>2
    <3>3. QED
      BY <1>5, <1>7, <2>1, <2>2, <3>1, <3>2 DEF Story
  <2>3. CASE p # q
    <3>1. Story(p)
      BY <1>6, <1>10, <2>3 DEF PromiseInv
    <3>2. ~(Runs(p) /\ Waits(p))
      BY DEF PromiseInv, BorneOnce
    <3>3. outcome'[p] = IF outcome[p] # "pending" THEN outcome[p]
                        ELSE IF Runs(p) THEN "false" ELSE "pending"
      BY <1>9, <2>3
    <3>4. /\ Waits(p)' <=> Waits(p)
          /\ ~Runs(p)'
      BY <1>5, <1>7, <2>3
    <3>5. QED
      BY <2>1, <3>1, <3>2, <3>3, <3>4 DEF Story
  <2>4. QED
    BY <2>2, <2>3
<1>11. BorneOnce'
  BY <1>5, <1>7 DEF BorneOnce
<1>12. PromiseTypes'
  <2>1. ASSUME NEW k \in 1..Len(timers')
        PROVE  IF timers'[k].kind = "redirect"
               THEN timers'[k].nav \in DOMAIN navs' /\ timers'[k].promise = navs'[timers'[k].nav].promise
               ELSE timers'[k].promise = 0
    <3>1. CallbackOK(timers'[k])
      BY <1>5
    <3>2. QED
      BY <1>1, <1>2, <3>1 DEF CallbackOK
  <2>2. ASSUME NEW i \in DOMAIN navs' PROVE navs'[i].promise \in DOMAIN navs'
    <3>1. CASE i = n + 1
      BY <1>2, <1>3, <3>1
    <3>2. CASE i # n + 1
      <4>1. i \in 1..n
        BY <1>1, <1>2, <3>2
      <4>2. QED
        BY <1>1, <1>2, <4>1 DEF PromiseInv, PromiseTypes
    <3>3. QED
      BY <3>1, <3>2
  <2>3. QED
    BY <2>1, <2>2 DEF PromiseTypes
<1>13. NewUnsettled'
  <2> SUFFICES ASSUME NEW p \in Id, p \notin DOMAIN navs' PROVE outcome'[p] = "pending"
    BY DEF NewUnsettled
  <2>1. p \notin DOMAIN navs /\ p # q
    BY <1>1, <1>2, <1>3
  <2>2. outcome[p] = "pending" /\ ~Runs(p)
    BY <2>1 DEF PromiseInv, NewUnsettled, PromiseTypes, Runs
  <2>3. QED
    BY <1>9, <2>1, <2>2
<1>14. QED
  BY <1>10, <1>11, <1>12, <1>13 DEF PromiseInv

LEMMA ProceedsPromises ==
  ASSUME RouterInv, TypeInv, PromiseInv, NEW i \in DOMAIN navs, Proceeds(i)
  PROVE  PromiseInv'
<1>1. ASSUME navs[i].phase # "done",
             \/ Fails(i) \/ Refused(i) \/ Rejected(i) \/ ResolverEmpty(i)
             \/ Activates(i) \/ ActivationFails(i)
      PROVE  PromiseInv'
  <2>1. Goes(i, "done") /\ timers' = timers
    BY <1>1 DEF Fails, Refused, Rejected, ResolverEmpty, Activates, ActivationFails
  <2>2. PICK told \in Tells : /\ events' = Announced(i, told[1])
                              /\ outcome' = Settled(navs[i].promise, told[2])
    <3>1. CASE Fails(i) \/ ActivationFails(i)
      <4>1. <<"NavigationError", "error">> \in Tells
        BY DEF Tells
      <4>2. QED
        BY <3>1, <4>1 DEF Fails, ActivationFails
    <3>2. CASE Refused(i) \/ Rejected(i) \/ ResolverEmpty(i)
      <4>1. <<"NavigationCancel", "false">> \in Tells
        BY DEF Tells
      <4>2. QED
        BY <3>2, <4>1 DEF Refused, Rejected, ResolverEmpty
    <3>3. CASE Activates(i)
      <4>1. <<"NavigationEnd", "true">> \in Tells
        BY DEF Tells
      <4>2. QED
        BY <3>3, <4>1 DEF Activates
    <3>4. QED
      BY <1>1, <3>1, <3>2, <3>3
  <2>3. <<told[1], told[2]>> \in Tells
    BY <2>2 DEF Tells
  <2>4. QED
    BY <1>1, <2>1, <2>2, <2>3, EndsPromise
<1>2. ASSUME NEW url \in Url, navs[i].phase # "done", Redirected(i, url) PROVE PromiseInv'
  BY <1>2, RedirectTakesPromise
<1>3. ASSUME navs[i].phase # "done", NEW target, NEW phase, phase # "done",
             \/ navs' = [navs EXCEPT ![i].phase = phase] /\ target = navs[i].target
             \/ navs' = [navs EXCEPT ![i] = [[navs[i] EXCEPT !.target = target] EXCEPT !.phase = phase]],
             UNCHANGED <<outcome, events, timers>>
      PROVE  PromiseInv'
  <2>1. /\ DOMAIN navs' = DOMAIN navs /\ navs'[i].phase = phase /\ SameCall(navs'[i], navs[i])
        /\ \A j \in DOMAIN navs \ {i} : navs'[j] = navs[j]
    <3>1. CASE navs' = [navs EXCEPT ![i].phase = phase] /\ target = navs[i].target
      BY <1>3, <3>1, GoesOn
    <3>2. CASE navs' = [navs EXCEPT ![i] = [[navs[i] EXCEPT !.target = target] EXCEPT !.phase = phase]]
      BY <1>3, <3>2, GoesOn
    <3>3. QED
      BY <1>3, <3>1, <3>2
  <2>2. \A j \in DOMAIN navs : /\ navs'[j].promise = navs[j].promise
                               /\ navs'[j].phase = "done" <=> navs[j].phase = "done"
    BY <1>3, <2>1 DEF SameCall
  <2>3. RedirectsRest
    BY <1>3 DEF RedirectsRest
  <2>4. QED
    BY <1>3, <2>1, <2>2, <2>3, PromisesRest
<1>4. ASSUME NEW target, NEW n, Recognized(i, target, n) PROVE PromiseInv'
  <2> DEFINE phase == IF n = 0 THEN "resolving" ELSE "guarding"
  <2>1. /\ navs[i].phase # "done" /\ phase # "done"
        /\ navs' = [navs EXCEPT ![i] = [[navs[i] EXCEPT !.target = target] EXCEPT !.phase = phase]]
        /\ UNCHANGED <<outcome, events, timers>>
    BY <1>4, Zenon DEF Recognized, ended
  <2> HIDE DEF phase
  <2>2. QED
    BY <1>3, <2>1
<1>5. ASSUME NEW k, NEW answer, GuardAnswers(i, k, answer) PROVE PromiseInv'
  <2> DEFINE verdict == Verdict(guards')
  <2>1. /\ navs[i].phase # "done"
        /\ \/ UNCHANGED <<navs, timers, ended>>
           \/ Goes(i, "resolving") /\ UNCHANGED <<timers, ended>>
           \/ Rejected(i)
           \/ verdict \in Url /\ Redirected(i, verdict)
    BY <1>5 DEF GuardAnswers
  <2> HIDE DEF verdict
  <2>2. CASE UNCHANGED <<navs, timers, ended>>
    <3>1. RedirectsRest
      BY <2>2 DEF RedirectsRest
    <3>2. QED
      BY <2>2, <3>1, PromisesRest DEF ended
  <2>3. CASE Goes(i, "resolving") /\ UNCHANGED <<timers, ended>>
    BY <1>3, <2>1, <2>3 DEF Goes, ended
  <2>4. QED
    BY <1>1, <1>2, <2>1, <2>2, <2>3
<1>6. CASE RecognizeFails(i) \/ GuardFails(i) \/ ResolverFails(i) \/ CanLoadRefuses(i)
  BY <1>1, <1>6 DEF RecognizeFails, GuardFails, ResolverFails, CanLoadRefuses
<1>7. ASSUME NEW url \in Url, CanLoadRedirects(i, url) PROVE PromiseInv'
  BY <1>2, <1>7 DEF CanLoadRedirects
<1>8. CASE ResolverEmpty(i) \/ Activates(i) \/ ActivationFails(i)
  BY <1>1, <1>8 DEF ResolverEmpty, Activates, ActivationFails
<1>9. QED
  BY <1>4, <1>5, <1>6, <1>7, <1>8 DEF Proceeds

LEMMA PromisesPreserved ==
  ASSUME RouterInv, TypeInv, PromiseInv, [Next]_vars
  PROVE  PromiseInv'
<1>1. CASE InitialNavigation
  BY <1>1, ScheduledPromises DEF InitialNavigation
<1>2. ASSUME NEW url \in Url, NEW update \in Update, NavigateByUrl(url, update)
      PROVE  PromiseInv'
  BY <1>2, ScheduledPromises DEF NavigateByUrl
<1>3. ASSUME NEW to \in DOMAIN history,
             NEW sources \in {<<"popstate">>, <<"popstate", "hashchange">>, <<"hashchange", "popstate">>},
             Travel(to, sources)
      PROVE  PromiseInv'
  <2>1. RedirectsRest
    BY <1>3, TravelTimers DEF RedirectsRest
  <2>2. navs' = navs /\ events' = events /\ outcome' = outcome
    BY <1>3 DEF Travel, ended
  <2>3. QED
    BY <2>1, <2>2, PromisesRest
<1>4. CASE LocationChanges
  <2> DEFINE t == Head(timers)
  <2>1. /\ timers # <<>> /\ t.kind \in Source /\ timers' = Tail(timers)
        /\ \/ UNCHANGED <<navs, ended>>
           \/ ScheduleNavigation(t.url, t.kind, t.update, t.promise)
    BY <1>4 DEF LocationChanges
  <2>2. t.kind # "redirect"
    BY <2>1 DEF Source
  <2> HIDE DEF t
  <2>3. CASE UNCHANGED <<navs, ended>>
    <3>1. RedirectsRest
      BY <2>1, <2>2 DEF RedirectsRest, t
    <3>2. QED
      BY <2>3, <3>1, PromisesRest DEF ended
  <2>4. CASE ScheduleNavigation(t.url, t.kind, t.update, t.promise)
    <3>1. t.promise = Head(timers).promise
      BY DEF t
    <3>2. QED
      BY <2>1, <2>4, <3>1, ScheduledPromises
  <2>5. QED
    BY <2>1, <2>3, <2>4
<1>5. CASE RedirectScheduled
  BY <1>5, ScheduledPromises DEF RedirectScheduled
<1>6. ASSUME NEW i \in DOMAIN navs, Proceeds(i) PROVE PromiseInv'
  BY <1>6, ProceedsPromises
<1>7. CASE UNCHANGED vars
  <2>1. UNCHANGED <<navs, timers, events, outcome>>
    BY <1>7 DEF vars, ended
  <2>2. RedirectsRest
    BY <2>1 DEF RedirectsRest
  <2>3. QED
    BY <2>1, <2>2, PromisesRest
<1>8. QED
  BY <1>1, <1>2, <1>3, <1>4, <1>5, <1>6, <1>7 DEF Next, TimerFires

LEMMA InvariantPromises == Spec => [](RouterInv /\ TypeInv /\ PromiseInv)
<1>1. Init => PromiseInv
  BY InitPromises
<1>2. RouterInv /\ TypeInv /\ PromiseInv /\ [Next]_vars => PromiseInv'
  BY PromisesPreserved
<1> QED
  BY <1>1, <1>2, InvariantTypes, PTL DEF Spec

-------------------------------------------------------------------------------
(***************************************************************************)
(* The components.  They change in two steps: an activation that succeeds   *)
(* shows those of the target, or leaves torn what was torn before; one that *)
(* fails tears them down or leaves them, and the fields as they were.       *)
(***************************************************************************)
ComponentsInv ==
  /\ activationFailed \in BOOLEAN
  /\ active = Shown \/ (activationFailed /\ active = Torn)

\* The components stay as they are, or an activation tears them down.
ComponentsKept ==
  \/ UNCHANGED components
  \/ activationFailed' = TRUE /\ active' \in {active, Torn}

LEMMA InitComponents == Init => ComponentsInv
BY DEF Init, ComponentsInv, Shown

LEMMA ScheduledComponents ==
  ASSUME NEW url, NEW source, NEW update, NEW prior,
         ScheduleNavigation(url, source, update, prior)
  PROVE  ComponentsKept /\ UNCHANGED currentUrlTree
BY DEF ScheduleNavigation, ComponentsKept

LEMMA ProceedsComponents ==
  ASSUME RouterInv, NEW i \in DOMAIN navs, Proceeds(i)
  PROVE  Activates(i) \/ (ComponentsKept /\ UNCHANGED currentUrlTree)
<1>1. ASSUME NEW target, NEW n, Recognized(i, target, n)
      PROVE  ComponentsKept /\ UNCHANGED currentUrlTree
  BY <1>1, Zenon DEF Recognized, ComponentsKept, trees
<1>2. ASSUME Fails(i) \/ Refused(i), navs[i].phase # "done"
      PROVE  ComponentsKept /\ UNCHANGED currentUrlTree
  BY <1>2, TakesBack DEF Fails, Refused, ComponentsKept
<1>3. ASSUME NEW url, Redirected(i, url) PROVE ComponentsKept /\ UNCHANGED currentUrlTree
  BY <1>3 DEF Redirected, ComponentsKept, trees
<1>4. ASSUME NEW k, NEW answer, GuardAnswers(i, k, answer)
      PROVE  ComponentsKept /\ UNCHANGED currentUrlTree
  <2>1. \/ UNCHANGED <<trees, components>> \/ Rejected(i)
        \/ \E url \in Url : Redirected(i, url)
    BY <1>4 DEF GuardAnswers
  <2>2. QED
    BY <1>3, <2>1 DEF Rejected, ComponentsKept, trees
<1>5. CASE RecognizeFails(i) \/ GuardFails(i) \/ ResolverFails(i) \/ CanLoadRefuses(i)
  BY <1>2, <1>5 DEF RecognizeFails, GuardFails, ResolverFails, CanLoadRefuses
<1>6. ASSUME NEW url \in Url, CanLoadRedirects(i, url)
      PROVE  ComponentsKept /\ UNCHANGED currentUrlTree
  BY <1>3, <1>6 DEF CanLoadRedirects
<1>7. CASE ResolverEmpty(i)
  BY <1>7 DEF ResolverEmpty, ComponentsKept, trees
<1>8. CASE ActivationFails(i)
  <2>1. ResetsStateAndUrl /\ navs[i].phase # "done"
    BY <1>8 DEF ActivationFails, TakenBack
  <2>2. ComponentsKept
    BY <1>8 DEF ActivationFails, ComponentsKept
  <2>3. QED
    BY <2>1, <2>2, TakesBack
<1>9. QED
  BY <1>1, <1>4, <1>5, <1>6, <1>7, <1>8 DEF Proceeds

LEMMA ComponentsPreserved ==
  ASSUME RouterInv, TypeInv, ComponentsInv, [Next]_vars
  PROVE  ComponentsInv'
<1>1. currentUrlTree = Shown /\ currentUrlTree' = Shown'
  BY StepRouter DEF RouterInv, StateIsShown
<1>2. ASSUME ComponentsKept, UNCHANGED currentUrlTree PROVE ComponentsInv'
  BY <1>1, <1>2 DEF ComponentsKept, ComponentsInv, components
<1>3. ASSUME NEW i, Activates(i) PROVE ComponentsInv'
  <2>1. /\ currentUrlTree' = navs[i].target /\ activationFailed' = activationFailed
        /\ active' = navs[i].target \/ (active = Torn /\ active' = Torn)
    BY <1>3 DEF Activates, Activated
  <2>2. active = Torn => activationFailed
    BY <1>1, RouterAssumption DEF ComponentsInv, TypeInv, Typed
  <2>3. QED
    BY <1>1, <2>1, <2>2 DEF ComponentsInv
<1>4. ASSUME NEW i \in DOMAIN navs, Proceeds(i) PROVE ComponentsInv'
  BY <1>2, <1>3, <1>4, ProceedsComponents
<1>5. ASSUME NEW url, NEW source, NEW update, NEW prior,
             ScheduleNavigation(url, source, update, prior)
      PROVE  ComponentsInv'
  BY <1>2, <1>5, ScheduledComponents
<1>6. CASE InitialNavigation
  BY <1>5, <1>6 DEF InitialNavigation
<1>7. ASSUME NEW url \in Url, NEW update \in Update, NavigateByUrl(url, update)
      PROVE  ComponentsInv'
  BY <1>5, <1>7 DEF NavigateByUrl
<1>8. ASSUME NEW to, NEW sources, Travel(to, sources) PROVE ComponentsInv'
  BY <1>2, <1>8 DEF Travel, ComponentsKept, trees
<1>9. CASE LocationChanges
  <2>1. \/ UNCHANGED <<trees, components>>
        \/ ScheduleNavigation(Head(timers).url, Head(timers).kind, Head(timers).update,
                              Head(timers).promise)
    BY <1>9 DEF LocationChanges
  <2>2. QED
    BY <1>2, <1>5, <2>1 DEF ComponentsKept, trees
<1>10. CASE RedirectScheduled
  BY <1>5, <1>10 DEF RedirectScheduled
<1>11. CASE UNCHANGED vars
  BY <1>2, <1>11 DEF vars, ComponentsKept, trees
<1>12. QED
  BY <1>4, <1>6, <1>7, <1>8, <1>9, <1>10, <1>11 DEF Next, TimerFires

LEMMA InvariantComponents == Spec => [](RouterInv /\ TypeInv /\ ComponentsInv)
<1>1. RouterInv /\ TypeInv /\ ComponentsInv /\ [Next]_vars => ComponentsInv'
  BY ComponentsPreserved
<1> QED
  BY <1>1, InitComponents, InvariantTypes, PTL DEF Spec

-------------------------------------------------------------------------------
(***************************************************************************)
(* The URL.  A navigation to the URL the browser shows is ignored and its   *)
(* raw URL kept, so UrlFollowsState needs that the URL the router takes for *)
(* the browser's, browserUrlTree, is that of the state, too.               *)
(***************************************************************************)
UrlPremise ==
  /\ ~setting.eager /\ travelled = 0 /\ lastSuccessfulId # 0 /\ ~activationFailed
  /\ \A i \in DOMAIN navs : navs[i].update # "skip"
UrlShown ==
  history[at] = currentUrlTree /\ rawUrlTree = currentUrlTree /\ browserUrlTree = currentUrlTree
UrlInv == travelled \in Nat /\ (UrlPremise => UrlShown)

LEMMA InitUrl == Init => UrlInv
BY DEF Init, UrlInv, UrlPremise

\* How a navigation may change the URL is not taken back, nor that an activation failed.
LEMMA PremiseKept ==
  ASSUME UrlInv, setting' = setting, lastSuccessfulId' = lastSuccessfulId,
         travelled' \in {travelled, travelled + 1}, DOMAIN navs \subseteq DOMAIN navs',
         \A i \in DOMAIN navs : SameCall(navs'[i], navs[i]),
         activationFailed => activationFailed',
         UrlPremise'
  PROVE  UrlPremise /\ UrlShown
<1>1. travelled = 0
  BY DEF UrlInv, UrlPremise
<1>2. ASSUME NEW i \in DOMAIN navs PROVE navs[i].update # "skip"
  BY DEF UrlPremise, SameCall
<1>3. UrlPremise
  BY <1>1, <1>2 DEF UrlPremise
<1>4. QED
  BY <1>3 DEF UrlInv

LEMMA ScheduledUrl ==
  ASSUME RouterInv, TypeInv, UrlInv, NEW url, NEW source, NEW update, NEW prior,
         ScheduleNavigation(url, source, update, prior), travelled' = travelled
  PROVE  UrlInv'
<1> SUFFICES ASSUME UrlPremise' PROVE UrlShown'
  BY DEF UrlInv
<1>1. /\ DOMAIN navs \subseteq DOMAIN navs'
      /\ \A i \in DOMAIN navs : SameCall(navs'[i], navs[i])
  BY ScheduledNavs DEF RouterInv, NavsAreASequence
<1>2. /\ UNCHANGED <<setting, lastSuccessfulId, currentUrlTree, browserUrlTree, at>>
      /\ activationFailed' = activationFailed
      /\ rawUrlTree' = IF Processed(url) THEN rawUrlTree ELSE url
      /\ history' = history \/ history' = Replaced(history, rawUrlTree)
  BY DEF ScheduleNavigation, components
<1>3. UrlPremise /\ UrlShown
  BY <1>1, <1>2, PremiseKept
<1>4. rawUrlTree' = currentUrlTree
  BY <1>2, <1>3 DEF UrlShown, Processed
<1>5. history'[at] = currentUrlTree
  <2>1. rawUrlTree \in Url
    BY DEF TypeInv, Typed
  <2>2. Replaced(history, rawUrlTree)[at] = rawUrlTree
    BY <2>1, ReplacedType DEF TypeInv
  <2>3. QED
    BY <1>2, <1>3, <2>2 DEF UrlShown
<1>6. QED
  BY <1>2, <1>3, <1>4, <1>5 DEF UrlShown

\* The ways to end, and what they do to the URL.
LEMMA EndsUrl ==
  ASSUME RouterInv, TypeInv, UrlInv, NEW i \in DOMAIN navs, navs[i].phase # "done",
         Fails(i) \/ Refused(i) \/ Rejected(i) \/ ResolverEmpty(i) \/ Activates(i)
           \/ ActivationFails(i) \/ \E url \in Url : Redirected(i, url)
  PROVE  UrlInv'
<1> SUFFICES ASSUME UrlPremise' PROVE UrlShown'
  BY DEF UrlInv, Fails, Refused, Rejected, ResolverEmpty, Activates, ActivationFails, Redirected
<1>1. Goes(i, "done") /\ travelled' = travelled /\ setting' = setting
  BY DEF Fails, Refused, Rejected, ResolverEmpty, Activates, ActivationFails, Redirected
<1>2. /\ DOMAIN navs' = DOMAIN navs /\ SameCall(navs'[i], navs[i])
      /\ \A j \in DOMAIN navs \ {i} : navs'[j] = navs[j]
  BY <1>1, GoesOn DEF Goes
<1>3. CASE ActivationFails(i)
  BY <1>3 DEF ActivationFails, UrlPremise
<1>4. CASE Activates(i)
  <2>1. navs[i].target \in Url /\ navs[i].update # "skip"
    BY <1>2 DEF UrlPremise, SameCall, TypeInv, Typed, Transition
  <2>2. ~setting.eager
    BY <1>1 DEF UrlPremise
  <2>3. /\ currentUrlTree' = navs[i].target /\ rawUrlTree' = navs[i].target
        /\ browserUrlTree' = navs[i].target /\ SetsBrowserUrl(navs[i].target, navs[i].update)
    BY <1>4, <2>2 DEF Activates, UpdatesLate
  <2>4. history'[at'] = navs[i].target
    BY <2>1, <2>3, SetsBrowserUrlType DEF TypeInv
  <2>5. QED
    BY <2>3, <2>4 DEF UrlShown
<1>5. CASE Fails(i) \/ Refused(i) \/ Rejected(i) \/ ResolverEmpty(i) \/ \E url \in Url : Redirected(i, url)
  <2>1. /\ UNCHANGED <<lastSuccessfulId, browserUrlTree>>
        /\ activationFailed' = activationFailed
    BY <1>5 DEF Fails, Refused, Rejected, ResolverEmpty, Redirected, components
  <2>2. \A j \in DOMAIN navs : SameCall(navs'[j], navs[j])
    BY <1>2 DEF SameCall
  <2>3. UrlPremise /\ UrlShown
    BY <1>1, <1>2, <2>1, <2>2, PremiseKept
  <2>4. /\ before.tree = currentUrlTree /\ before.tree \in Url /\ rawUrlTree \in Url
        /\ Replaced(history, before.tree)[at] = before.tree
        /\ Replaced(history, rawUrlTree)[at] = rawUrlTree
    <3>1. before.tree \in Url /\ rawUrlTree \in Url
      BY DEF TypeInv, Typed
    <3>2. before.tree = currentUrlTree
      BY DEF RouterInv, FallsBackOnShown, Running
    <3>3. QED
      BY <3>1, <3>2, ReplacedType DEF TypeInv
  <2>5. CASE Fails(i) \/ Refused(i)
    BY <2>1, <2>3, <2>4, <2>5 DEF Fails, Refused, ResetsStateAndUrl, UrlShown
  <2>6. CASE Rejected(i)
    BY <2>1, <2>3, <2>4, <2>6 DEF Rejected, ResetsUrl, trees, UrlShown
  <2>7. CASE ResolverEmpty(i) \/ \E url \in Url : Redirected(i, url)
    BY <2>1, <2>3, <2>7 DEF ResolverEmpty, Redirected, trees, browser, UrlShown
  <2>8. QED
    BY <1>5, <2>5, <2>6, <2>7
<1>6. QED
  BY <1>3, <1>4, <1>5

\* A navigation that goes on leaves the URL alone in the deferred mode.
LEMMA RestsUrl ==
  ASSUME RouterInv, TypeInv, UrlInv, DOMAIN navs' = DOMAIN navs,
         \A i \in DOMAIN navs : SameCall(navs'[i], navs[i]),
         UNCHANGED <<setting, lastSuccessfulId, activationFailed>>,
         UNCHANGED <<currentUrlTree, rawUrlTree, browserUrlTree>>,
         UNCHANGED <<history, at, travelled>> \/ travelled' = travelled + 1
  PROVE  UrlInv'
<1>1. travelled' \in Nat
  BY DEF UrlInv
<1>2. ASSUME UrlPremise' PROVE UrlShown'
  <2>1. UrlPremise /\ UrlShown
    BY <1>2, PremiseKept
  <2>2. UNCHANGED <<history, at>>
    BY <1>2 DEF UrlPremise, UrlInv
  <2>3. QED
    BY <2>1, <2>2 DEF UrlShown
<1>3. QED
  BY <1>1, <1>2 DEF UrlInv

LEMMA ProceedsUrl ==
  ASSUME RouterInv, TypeInv, UrlInv, NEW i \in DOMAIN navs, Proceeds(i)
  PROVE  UrlInv'
<1>1. ASSUME NEW target, NEW n, Recognized(i, target, n) PROVE UrlInv'
  <2> DEFINE phase == IF n = 0 THEN "resolving" ELSE "guarding"
  <2>1. /\ navs[i].phase # "done"
        /\ navs' = [navs EXCEPT ![i] = [[navs[i] EXCEPT !.target = target] EXCEPT !.phase = phase]]
        /\ UNCHANGED <<trees, lastSuccessfulId, components, travelled, setting>>
        /\ IF setting.eager THEN TRUE ELSE UNCHANGED <<browser, browserUrlTree>>
    BY <1>1, Zenon DEF Recognized, UpdatesEarly
  <2> HIDE DEF phase
  <2>2. /\ DOMAIN navs' = DOMAIN navs /\ SameCall(navs'[i], navs[i])
        /\ \A j \in DOMAIN navs \ {i} : navs'[j] = navs[j]
    <3>1. target = target
      OBVIOUS
    <3>2. QED
      BY <2>1, GoesOn
  <2>3. \A j \in DOMAIN navs : SameCall(navs'[j], navs[j])
    BY <2>2 DEF SameCall
  <2>4. CASE setting.eager
    BY <2>1, <2>4 DEF UrlInv, UrlPremise
  <2>5. CASE ~setting.eager
    BY <2>1, <2>2, <2>3, <2>5, RestsUrl DEF trees, components, browser
  <2>6. QED
    BY <2>4, <2>5
<1>2. ASSUME NEW k, NEW answer, GuardAnswers(i, k, answer) PROVE UrlInv'
  <2> DEFINE verdict == Verdict(guards')
  <2>1. /\ navs[i].phase # "done"
        /\ \/ UNCHANGED <<navs, trees, browserUrlTree, lastSuccessfulId, components, browser,
                          travelled, setting>>
           \/ Goes(i, "resolving") /\ UNCHANGED <<trees, browserUrlTree, lastSuccessfulId, components,
                                                  browser, travelled, setting>>
           \/ Rejected(i)
           \/ verdict \in Url /\ Redirected(i, verdict)
    BY <1>2 DEF GuardAnswers
  <2> HIDE DEF verdict
  <2>2. CASE UNCHANGED <<navs, trees, browserUrlTree, lastSuccessfulId, components, browser,
                         travelled, setting>>
    BY <2>2, RestsUrl DEF trees, components, browser, SameCall
  <2>3. CASE Goes(i, "resolving") /\ UNCHANGED <<trees, browserUrlTree, lastSuccessfulId, components,
                                                 browser, travelled, setting>>
    <3>1. /\ DOMAIN navs' = DOMAIN navs /\ SameCall(navs'[i], navs[i])
          /\ \A j \in DOMAIN navs \ {i} : navs'[j] = navs[j]
      BY <2>1, <2>3, GoesOn DEF Goes
    <3>2. \A j \in DOMAIN navs : SameCall(navs'[j], navs[j])
      BY <3>1 DEF SameCall
    <3>3. QED
      BY <2>3, <3>1, <3>2, RestsUrl DEF trees, components, browser
  <2>4. CASE Rejected(i) \/ (verdict \in Url /\ Redirected(i, verdict))
    BY <2>1, <2>4, EndsUrl
  <2>5. QED
    BY <2>1, <2>2, <2>3, <2>4
<1>3. CASE RecognizeFails(i) \/ GuardFails(i) \/ ResolverFails(i) \/ CanLoadRefuses(i)
  BY <1>3, EndsUrl DEF RecognizeFails, GuardFails, ResolverFails, CanLoadRefuses
<1>4. ASSUME NEW url \in Url, CanLoadRedirects(i, url) PROVE UrlInv'
  BY <1>4, EndsUrl DEF CanLoadRedirects
<1>5. CASE ResolverEmpty(i) \/ Activates(i) \/ ActivationFails(i)
  BY <1>5, EndsUrl DEF ResolverEmpty, Activates, ActivationFails
<1>6. QED
  BY <1>1, <1>2, <1>3, <1>4, <1>5 DEF Proceeds

LEMMA UrlPreserved ==
  ASSUME RouterInv, TypeInv, UrlInv, [Next]_vars
  PROVE  UrlInv'
<1>1. CASE InitialNavigation
  BY <1>1, ScheduledUrl DEF InitialNavigation
<1>2. ASSUME NEW url \in Url, NEW update \in Update, NavigateByUrl(url, update) PROVE UrlInv'
  BY <1>2, ScheduledUrl DEF NavigateByUrl
<1>3. ASSUME NEW to, NEW sources, Travel(to, sources) PROVE UrlInv'
  <2>1. /\ UNCHANGED <<navs, trees, browserUrlTree, lastSuccessfulId, components, setting>>
        /\ travelled' = travelled + 1
    BY <1>3 DEF Travel
  <2>2. QED
    BY <2>1, RestsUrl DEF trees, components, SameCall
<1>4. CASE LocationChanges
  <2> DEFINE t == Head(timers)
  <2>1. /\ travelled' = travelled
        /\ \/ UNCHANGED <<navs, trees, browserUrlTree, lastSuccessfulId, components, browser, setting>>
           \/ ScheduleNavigation(t.url, t.kind, t.update, t.promise)
    BY <1>4 DEF LocationChanges
  <2> HIDE DEF t
  <2>2. CASE UNCHANGED <<navs, trees, browserUrlTree, lastSuccessfulId, components, browser, setting>>
    BY <2>1, <2>2, RestsUrl DEF trees, components, browser, SameCall
  <2>3. CASE ScheduleNavigation(t.url, t.kind, t.update, t.promise)
    BY <2>1, <2>3, ScheduledUrl
  <2>4. QED
    BY <2>1, <2>2, <2>3
<1>5. CASE RedirectScheduled
  BY <1>5, ScheduledUrl DEF RedirectScheduled
<1>6. ASSUME NEW i \in DOMAIN navs, Proceeds(i) PROVE UrlInv'
  BY <1>6, ProceedsUrl
<1>7. CASE UNCHANGED vars
  <2>1. UNCHANGED <<navs, trees, browserUrlTree, lastSuccessfulId, components, browser, travelled, setting>>
    BY <1>7 DEF vars
  <2>2. QED
    BY <2>1, RestsUrl DEF trees, components, browser, SameCall
<1>8. QED
  BY <1>1, <1>2, <1>3, <1>4, <1>5, <1>6, <1>7 DEF Next, TimerFires

-------------------------------------------------------------------------------
(***************************************************************************)
(* Guards.  The first guard at which the reduction stops exists.            *)
(***************************************************************************)
\* A set of natural numbers that is not empty has a least element.
LEMMA LeastNat ==
  ASSUME NEW S \in SUBSET Nat, S # {}
  PROVE  \E k \in S : \A j \in S : k <= j
<1>1. PICK k \in S : \A y \in S : ~(<<y, k>> \in OpToRel(<, Nat))
  BY NatLessThanWellFounded, WFMin
<1>2. \A y \in S : ~(y < k)
  BY <1>1 DEF OpToRel
<1>3. QED
  BY <1>2

LEMMA DecisiveFirst ==
  ASSUME NEW n \in Nat \ {0}, NEW g \in [1..n -> Answer], Len(g) = n
  PROVE  /\ Decisive(g) \in 1..n
         /\ \A j \in 1..(Decisive(g) - 1) : g[j] = "true"
         /\ g[Decisive(g)] # "true" \/ Decisive(g) = n
<1> DEFINE Stops == {k \in 1..n : g[k] # "true" \/ k = n}
<1>1. Stops \in SUBSET Nat /\ n \in Stops
  OBVIOUS
<1>2. PICK k \in Stops : \A j \in Stops : k <= j
  BY <1>1, LeastNat
<1>3. k \in DOMAIN g /\ (g[k] # "true" \/ k = Len(g))
  BY <1>2
<1>4. \A j \in 1..(k - 1) : g[j] = "true"
  <2>1. ASSUME NEW j \in 1..(k - 1), g[j] # "true" PROVE FALSE
    <3>1. j \in Stops /\ j < k
      BY <1>2, <2>1
    <3>2. QED
      BY <1>2, <3>1
  <2>2. QED
    BY <2>1
<1>5. QED
  BY <1>3, <1>4 DEF Decisive

LEMMA GuardsDecide ==
  ASSUME RouterInv, TypeInv, [Next]_vars, NEW i \in DOMAIN navs,
         navs[i].phase = "guarding", navs'[i].phase # "guarding", guards' # guards,
         Len(navs') = Len(navs)
  PROVE  \E k \in DOMAIN guards' : /\ \A j \in 1..(k - 1) : guards'[j] = "true"
                                   /\ guards'[k] # "pending"
                                   /\ guards'[k] = "true" => k = Len(guards')
<1>1. i \in Running
  BY DEF Running
\* Only the pipeline changes the answers without a new navigation, and only that of i.
<1>2. PICK j \in DOMAIN navs : Proceeds(j)
  <2>1. ASSUME NEW url, NEW source, NEW update, NEW prior,
               ScheduleNavigation(url, source, update, prior)
        PROVE  FALSE
    <3>1. Len(navs') = Len(navs) + 1 /\ Len(navs) \in Nat
      BY <2>1, ScheduledNavs DEF RouterInv, NavsAreASequence
    <3>2. QED
      BY <3>1
  <2>2. ~InitialNavigation /\ ~TimerFires /\ \A url, update : ~NavigateByUrl(url, update)
    BY <2>1 DEF InitialNavigation, NavigateByUrl, TimerFires, LocationChanges, RedirectScheduled
  <2>3. ~(UNCHANGED vars) /\ \A to, sources : ~Travel(to, sources)
    BY DEF vars, Travel
  <2>4. QED
    BY <2>2, <2>3 DEF Next
<1>3. PICK k \in 1..Guards, answer \in Answer : GuardAnswers(j, k, answer)
  <2>1. ASSUME NEW target, NEW n, Recognized(j, target, n) PROVE FALSE
    <3>1. navs[j].phase = "recognizing"
      BY <2>1 DEF Recognized
    <3>2. j \in Running
      BY <3>1 DEF Running
    <3>3. QED
      BY <1>1, <3>1, <3>2 DEF RouterInv, LatestIsRunning
  <2>2. ASSUME \/ RecognizeFails(j) \/ CanLoadRefuses(j) \/ GuardFails(j) \/ ResolverEmpty(j)
               \/ ResolverFails(j) \/ Activates(j) \/ ActivationFails(j)
               \/ \E url \in Url : CanLoadRedirects(j, url)
        PROVE  FALSE
    BY <2>2 DEF RecognizeFails, CanLoadRefuses, GuardFails, ResolverEmpty, ResolverFails,
                Activates, ActivationFails, CanLoadRedirects, Fails, Refused
  <2>3. QED
    BY <1>2, <2>1, <2>2 DEF Proceeds
<1>4. /\ navs[j].phase = "guarding" /\ k \in DOMAIN guards
      /\ guards' = [guards EXCEPT ![k] = answer]
      /\ Verdict(guards') # "pending"
  <2>1. /\ navs[j].phase = "guarding" /\ k \in DOMAIN guards
        /\ guards' = [guards EXCEPT ![k] = answer]
        /\ Verdict(guards') = "pending" => navs' = navs
    <3>1. "pending" \notin Url
      BY AnswersDistinct DEF NotRedirect
    <3>2. QED
      BY <1>3, <3>1 DEF GuardAnswers
  <2>2. QED
    BY <2>1
<1>5. PICK n \in {0, Guards} : guards \in [1..n -> Answer]
  BY DEF TypeInv, Typed
<1>6. /\ n \in Nat \ {0} /\ guards' \in [1..n -> Answer] /\ Len(guards') = n
      /\ DOMAIN guards' = 1..n
  <2>1. n \in Nat \ {0}
    BY <1>4, <1>5, RouterAssumption
  <2>2. guards' \in [1..n -> Answer]
    BY <1>4, <1>5
  <2>3. guards' \in Seq(Answer) /\ DOMAIN guards' = 1..n
    BY <2>1, <2>2, SeqDef
  <2>4. Len(guards') = n
    BY <2>1, <2>3, LenProperties
  <2>5. QED
    BY <2>1, <2>2, <2>3, <2>4
<1>7. /\ Decisive(guards') \in 1..n /\ \A m \in 1..(Decisive(guards') - 1) : guards'[m] = "true"
      /\ guards'[Decisive(guards')] # "true" \/ Decisive(guards') = n
  BY <1>6, DecisiveFirst
<1>8. guards'[Decisive(guards')] # "pending"
  BY <1>4 DEF Verdict
<1>9. QED
  BY <1>6, <1>7, <1>8

-------------------------------------------------------------------------------
(* The theorems.                                                                *)

\* However calls, history events and redirects interleave, at most one navigation runs,
\* the one scheduled last, and getCurrentNavigation() is that one or null.
THEOREM RunningCorrect == Spec => []LatestIsRunning
<1>1. RouterInv => LatestIsRunning
  BY DEF RouterInv
<1> QED
  BY <1>1, InvariantRouter, PTL

\* However navigations fail, are refused, redirected or superseded, the URL tree and the
\* RouterState of the router are those of the last navigation that succeeded, and so are
\* the components; once an activation has failed, those, or the outlets are torn down.
THEOREM ShownCorrect == Spec => []ShowsLastSuccess
<1>1. RouterInv /\ ComponentsInv => ShowsLastSuccess
  BY DEF RouterInv, StateIsShown, ComponentsInv, ShowsLastSuccess
<1> QED
  BY <1>1, InvariantComponents, PTL

\* A navigation that was superseded never succeeds any more.
THEOREM LatestEnds == Spec => OnlyLatestEnds
<1>1. RouterInv /\ [Next]_vars
      => [lastSuccessfulId' # lastSuccessfulId => lastSuccessfulId' = Len(navs)]_vars
  BY StepRouter
<1> QED
  BY <1>1, InvariantRouter, PTL DEF Spec, OnlyLatestEnds

\* The variables have their types: at most MaxNav transitions, a place in the history
\* that exists, at most one ending announced for a navigation.
THEOREM TypesCorrect == Spec => []TypeOK
<1>1. ASSUME RouterInv, TypeInv, ComponentsInv PROVE TypeOK
  <2>1. DOMAIN history = 1..Len(history) /\ DOMAIN timers = 1..Len(timers)
    BY <1>1, LenProperties DEF TypeInv, Typed
  <2>2. at \in DOMAIN history /\ \A k \in DOMAIN history : history[k] \in Url
    BY <1>1, <2>1 DEF TypeInv, Typed
  <2>3. \A k \in DOMAIN timers : timers[k] \in Timer
    BY <1>1, <2>1 DEF TypeInv
  <2>4. {lastSuccessfulId, currentNavigation} \subseteq 0..Len(navs)
    BY <1>1 DEF RouterInv, NavsAreASequence, SuccessIsOver, LatestIsRunning
  <2>5. active \in Url \cup {Torn} /\ activationFailed \in BOOLEAN
    BY <1>1 DEF TypeInv, Typed, ComponentsInv, RouterInv, StateIsShown
  <2>6. QED
    BY <1>1, <2>2, <2>3, <2>4, <2>5 DEF TypeInv, Typed, TypeOK
<1> QED
  BY <1>1, InvariantComponents, PTL

\* Through any chain of redirects, cancellations and failures, a promise is settled with
\* true or with an error exactly when a navigation that bears it has ended so, and is
\* pending exactly while one runs or its redirect waits.
THEOREM PromisesCorrect == Spec => []PromisesTellEvents
<1>1. RouterInv /\ TypeInv /\ PromiseInv => PromisesTellEvents
  BY StoryTold
<1> QED
  BY <1>1, InvariantPromises, PTL

\* In the deferred mode, once a navigation has succeeded and as long as the user keeps off
\* the history buttons, no navigation says skipLocationChange and no activation has failed:
\* the browser shows the URL of the state before, during and after each navigation,
\* also one that is refused or fails in a recognition, a guard or a resolver.
THEOREM UrlCorrect == Spec => []UrlFollowsState
<1>1. Init => UrlInv
  BY InitUrl
<1>2. RouterInv /\ TypeInv /\ UrlInv /\ [Next]_vars => UrlInv'
  BY UrlPreserved
<1>3. UrlInv => UrlFollowsState
  BY DEF UrlInv, UrlPremise, UrlShown, UrlFollowsState
<1> QED
  BY <1>1, <1>2, <1>3, InvariantTypes, PTL DEF Spec

\* In whatever order the guards answer, the one that decides is the first in the list
\* that has not answered true, or the last.
THEOREM PriorityCorrect == Spec => DecidesByPriority
<1>1. RouterInv /\ TypeInv /\ [Next]_vars
      => [\A i \in DOMAIN navs :
            (navs[i].phase = "guarding" /\ navs'[i].phase # "guarding" /\ guards' # guards
             /\ Len(navs') = Len(navs))
            => \E k \in DOMAIN guards' : /\ \A j \in 1..(k - 1) : guards'[j] = "true"
                                         /\ guards'[k] # "pending"
                                         /\ guards'[k] = "true" => k = Len(guards')]_vars
  BY GuardsDecide
<1> QED
  BY <1>1, InvariantTypes, PTL DEF Spec, DecidesByPriority
===============================================================================
