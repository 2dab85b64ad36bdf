------------------------------- MODULE Recency -------------------------------
(***************************************************************************)
(* What an LRU chain promises, without pointers: a set of entries, the     *)
(* time each was last used, and an eviction that answers with the entry    *)
(* used the longest time ago.  LruChain implements it.                     *)
(***************************************************************************)
EXTENDS Naturals

CONSTANTS Url, NoUrl

VARIABLES entries,   \* the URLs in the chain
          lastUse,   \* when each URL was last used, 0 for never
          now,       \* the number of uses so far
          reply      \* what the last operation answered

vars == <<entries, lastUse, now, reply>>

Oldest(u) == u \in entries /\ \A v \in entries : lastUse[u] <= lastUse[v]

Init ==
  /\ entries = {}
  /\ lastUse = [u \in Url |-> 0]
  /\ now = 0
  /\ reply = [op |-> "none", url |-> NoUrl]

Use(u) ==
  /\ entries' = entries \cup {u}
  /\ now' = now + 1
  /\ lastUse' = [lastUse EXCEPT ![u] = now + 1]
  /\ reply' = [op |-> "accessed", url |-> u]

Forget(u) ==
  /\ entries' = entries \ {u}
  /\ reply' = [op |-> "remove", url |-> IF u \in entries THEN u ELSE NoUrl]
  /\ UNCHANGED <<lastUse, now>>

EvictOldest ==
  /\ \/ /\ entries = {}
        /\ reply' = [op |-> "pop", url |-> NoUrl]
        /\ UNCHANGED entries
     \/ \E u \in Url :
          /\ Oldest(u)
          /\ entries' = entries \ {u}
          /\ reply' = [op |-> "pop", url |-> u]
  /\ UNCHANGED <<lastUse, now>>

Next == EvictOldest \/ \E u \in Url : Use(u) \/ Forget(u)

Spec == Init /\ [][Next]_vars
===============================================================================
