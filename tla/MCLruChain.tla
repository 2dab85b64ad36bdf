----------------------------- MODULE MCLruChain ------------------------------
(* Instances of LruChain for TLC. *)
EXTENDS LruChain

CONSTANTS u1, u2, u3, u4

MCUrl == {u1, u2, u3, u4}
===============================================================================
