------------------------------ MODULE LruChain -------------------------------
(***************************************************************************)
(* The LRU chain under any sequence of calls of its methods, with the time *)
(* of each URL's last use kept beside it as a history: lastUse and now     *)
(* guide no step, they say what the pointers are meant to record.          *)
(***************************************************************************)
EXTENDS LruList, FiniteSets

CONSTANT MaxUse      \* bound on the calls of accessed()

ASSUME MaxUseAssumption == MaxUse \in Nat

VARIABLES lru,       \* LruList.state
          lastUse,   \* history: when each URL was last used, 0 for never
          now,       \* history: the number of uses so far
          reply      \* what the last call returned

chainVars == <<lru, lastUse, now, reply>>

ChainInit ==
  /\ lru = EmptyChain
  /\ lastUse = [u \in Url |-> 0]
  /\ now = 0
  /\ reply = [op |-> "none", url |-> NoUrl]

CallAccessed(u) ==
  /\ now < MaxUse
  /\ lru' = Accessed(lru, u)
  /\ now' = now + 1
  /\ lastUse' = [lastUse EXCEPT ![u] = now + 1]
  /\ reply' = [op |-> "accessed", url |-> u]

CallRemove(u) ==
  /\ lru' = Remove(lru, u)
  /\ reply' = [op |-> "remove", url |-> IF u \in Tracked(lru) THEN u ELSE NoUrl]
  /\ UNCHANGED <<lastUse, now>>

CallPop ==
  /\ lru' = Pop(lru)
  /\ reply' = [op |-> "pop", url |-> Victim(lru)]
  /\ UNCHANGED <<lastUse, now>>

ChainNext == CallPop \/ \E u \in Url : CallAccessed(u) \/ CallRemove(u)

ChainSpec == ChainInit /\ [][ChainNext]_chainVars

-------------------------------------------------------------------------------
\* Every pointer of the chain is a URL or null, the count a natural number.
ChainTypeOK ==
  /\ lru \in LruState
  /\ lastUse \in [Url -> Nat]
  /\ now \in Nat
  /\ reply \in [op : {"none", "accessed", "remove", "pop"}, url : Url \cup {NoUrl}]

\* The pointers agree with each other after every call: no dangling or
\* one-sided link, and head and tail are the ends (data.ts keeps four fields in
\* step by hand in remove() and accessed()).
ChainWellLinked == WellLinked(lru)

\* `count`, which decides eviction, is the number of URLs really in the map.
CountExact == lru.count = Cardinality(Tracked(lru))

\* Following `next` from the head visits the URLs by falling time of last use
\* and skips none (accessed() moves a URL to the front, remove() unlinks it).
ChainOrder == ByRecency(lru, lastUse)

\* All three: a sequence of calls never leaves a chain that disagrees with itself.
ChainSound == ChainWellLinked /\ CountExact /\ ChainOrder

\* Every step of the pointer structure is a step of the pointer-free cache:
\* pop() evicts exactly a least recently used URL, and nothing else is lost.
R == INSTANCE Recency WITH entries <- Tracked(lru)

EvictsLeastRecentlyUsed == R!Spec
===============================================================================
