------------------------------- MODULE MCRouter -------------------------------
(* An instance of Router for TLC. *)
EXTENDS Router, TLC

CONSTANTS root, a

MCUrl == {root, a}
MCSetting == {[eager |-> FALSE, reload |-> FALSE], [eager |-> FALSE, reload |-> TRUE],
              [eager |-> TRUE, reload |-> FALSE]}
===============================================================================
