---------------------------- MODULE MCDataGroup ------------------------------
(* Instances of DataGroup for TLC. *)
EXTENDS DataGroup, TLC

CONSTANTS u1, u2, u3, r1, r2

MCUrl == {u1, u2, u3}
MCReq == {r1, r2}

\* One request at a time; freshness with a timeout goes on beside its own late caching.
Calm == [strategy |-> "performance", maxSize |-> 1, hasTimeout |-> FALSE, refreshAhead |-> TRUE,
         urls |-> {u1, u2}, reqs |-> {r1}, writesFail |-> FALSE, shared |-> FALSE,
         maxRestart |-> 0]
Fresh == [Calm EXCEPT !.strategy = "freshness"]
\* Two requests at once.
Busy == [Calm EXCEPT !.reqs = MCReq, !.urls = {u1}, !.refreshAhead = FALSE]
MCSettings ==
  {[Calm EXCEPT !.urls = MCUrl, !.maxSize = 2],
   [Calm EXCEPT !.hasTimeout = TRUE, !.writesFail = TRUE],
   [Calm EXCEPT !.maxRestart = 1, !.refreshAhead = FALSE],
   [Calm EXCEPT !.maxRestart = 1, !.shared = TRUE, !.urls = {u1}],
   [Fresh EXCEPT !.maxSize = 0],
   [Fresh EXCEPT !.hasTimeout = TRUE, !.writesFail = TRUE, !.urls = {u1}],
   [Fresh EXCEPT !.hasTimeout = TRUE, !.refreshAhead = FALSE],
   Busy}
===============================================================================
