------------------------------ MODULE MCNgccLock ------------------------------
(* Instances of NgccLock for TLC. *)
EXTENDS NgccLock

CONSTANTS p1, p2, p3

MCProcess == {p1, p2, p3}
MCAsync == {p1, p2}
===============================================================================
