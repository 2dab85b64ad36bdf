--------------------------- MODULE MCIdleScheduler ---------------------------
(* Instances of IdleScheduler for TLC. *)
EXTENDS IdleScheduler

CONSTANTS t1, t2, t3, c1, c2, c3

MCTask == {t1, t2, t3}
MCCall == {c1, c2, c3}
===============================================================================
