---------------------------- MODULE MCNgccCluster -----------------------------
(* Instances of NgccCluster for TLC. *)
EXTENDS NgccCluster

CONSTANTS core, common, forms

\* Three entry-points, each needing those before it; core is compiled in two formats.
MCTasks == <<[ep |-> core, dts |-> TRUE], [ep |-> core, dts |-> FALSE],
             [ep |-> common, dts |-> TRUE], [ep |-> forms, dts |-> TRUE]>>
MCNeeds == [e \in {core, common, forms} |->
              CASE e = core -> {} [] e = common -> {core} [] e = forms -> {core, common}]

MCWorker == 1 .. 4
Strict == [inPlace |-> TRUE, errorOnFailed |-> TRUE, outcomes |-> {"files", "error"},
           maxWorkers |-> 2, respawnAttempts |-> 1, maxCrashes |-> 2]
Lenient == [Strict EXCEPT !.errorOnFailed = FALSE, !.outcomes = {"files", "failed"},
                          !.maxCrashes = 1]
Exhausted == [Strict EXCEPT !.outcomes = {"files", "failed"}, !.respawnAttempts = 0]
MCSettings == {Exhausted} \cup {[s EXCEPT !.inPlace = i] : s \in {Strict, Lenient}, i \in BOOLEAN}
===============================================================================
