--------------------------- MODULE DataGroupProofs ----------------------------
(***************************************************************************)
(* Proofs about the LRU chain and about the data group that uses it.       *)
(*                                                                         *)
(* The chain is correct for every set of URLs: lemmas about the methods of  *)
(* LruList, and the theorems about LruChain that rest on them.             *)
(*                                                                         *)
(* A data group is correct for any URLs, settings, requests in flight and    *)
(* number of versions: the cache agrees with the LRU chain in memory and    *)
(* on disk, it does not outgrow its limit, and nobody is answered with data *)
(* older than a mutation, except for the URLs in the histories `raced` and  *)
(* `overtaken`, of which two requests changed or used the response at once. *)
(* The invariant is IInv, and the argument one of ownership: a URL that was *)
(* not raced is changed by one request at a time, so what the step of a     *)
(* request does to a URL (Local) depends on that request alone (Moves).     *)
(***************************************************************************)
EXTENDS DataGroup, LruChain, FiniteSetTheorems, TLAPS

\* A chain between two calls: typed, finite, counted, well linked and in the
\* order of `at`.  The order is needed for the rest: WellLinked alone admits a
\* ring of URLs beside the chain, which remove() of the only URL would drop.
IsChain(s, at) ==
  /\ s \in LruState
  /\ IsFiniteSet(Tracked(s))
  /\ s.count = Cardinality(Tracked(s))
  /\ WellLinked(s)
  /\ ByRecency(s, at)

-------------------------------------------------------------------------------
(***************************************************************************)
(* Membership in LruState, taken apart and put together.                   *)
(***************************************************************************)

\* The fields of a chain state have the types LruState gives them.
LEMMA ChainFields ==
  ASSUME NEW s \in LruState
  PROVE  /\ s = [head |-> s.head, tail |-> s.tail, map |-> s.map, count |-> s.count]
         /\ s.head \in Url \cup {NoUrl}
         /\ s.tail \in Url \cup {NoUrl}
         /\ Tracked(s) \subseteq Url
         /\ s.map \in [Tracked(s) -> Node]
         /\ s.count \in Nat
BY DEF LruState, Tracked

\* Fields of those types make a chain state.
LEMMA ChainBuilt ==
  ASSUME NEW h \in Url \cup {NoUrl}, NEW t \in Url \cup {NoUrl},
         NEW U \in SUBSET Url, NEW m \in [U -> Node], NEW c \in Nat
  PROVE  [head |-> h, tail |-> t, map |-> m, count |-> c] \in LruState
BY DEF LruState

\* Every pointer of a tracked URL is a URL or null.
LEMMA NodeFields ==
  ASSUME NEW s \in LruState, NEW u \in Tracked(s)
  PROVE  /\ s.map[u] = [previous |-> s.map[u].previous, next |-> s.map[u].next]
         /\ s.map[u].previous \in Url \cup {NoUrl}
         /\ s.map[u].next \in Url \cup {NoUrl}
BY ChainFields DEF Node

\* The chain of a new group is a chain.
LEMMA EmptyIsChain ==
  ASSUME NEW at
  PROVE  IsChain(EmptyChain, at) /\ Tracked(EmptyChain) = {}
<1>1. Tracked(EmptyChain) = {}
  BY DEF Tracked, EmptyChain
<1>2. EmptyChain \in LruState
  <2>1. [u \in {} |-> NoUrl] \in [{} -> Node]
    OBVIOUS
  <2> QED  BY <2>1, ChainBuilt DEF EmptyChain
<1>3. WellLinked(EmptyChain)
  BY <1>1 DEF WellLinked, EndsLinked, NeighboursLinked, EmptyChain
<1>4. ByRecency(EmptyChain, at)
  BY <1>1 DEF ByRecency
<1> QED  BY <1>1, <1>2, <1>3, <1>4, FS_EmptySet DEF IsChain, EmptyChain

-------------------------------------------------------------------------------
(***************************************************************************)
(* remove(): one lemma per case of the method.                             *)
(***************************************************************************)

\* Taking a tracked URL out of a finite, counted chain lowers the count by one.
LEMMA CountAfterRemoval ==
  ASSUME NEW s, NEW at, IsChain(s, at), NEW url \in Tracked(s)
  PROVE  /\ IsFiniteSet(Tracked(s) \ {url})
         /\ Cardinality(Tracked(s) \ {url}) = s.count - 1
         /\ s.count - 1 \in Nat
<1>1. s.count \in Nat
  BY ChainFields DEF IsChain
<1>2. Cardinality(Tracked(s)) # 0
  BY FS_EmptySet DEF IsChain
<1> QED  BY <1>1, <1>2, FS_RemoveElement DEF IsChain

\* remove(head): the second URL becomes the head, or the chain is empty.
LEMMA RemoveHeadIsChain ==
  ASSUME NEW s, NEW at \in [Url -> Nat], IsChain(s, at), s.head \in Tracked(s)
  PROVE  /\ IsChain(RemoveHead(s), at)
         /\ Tracked(RemoveHead(s)) = Tracked(s) \ {s.head}
<1> DEFINE second == s.map[s.head].next
           rest   == Tracked(s) \ {s.head}
           m      == [u \in rest |->
                        [previous |-> IF u = second THEN NoUrl ELSE s.map[u].previous,
                         next     |-> s.map[u].next]]
           r      == RemoveHead(s)
<1> USE NoUrlAssumption
<1>1. s \in LruState /\ EndsLinked(s) /\ NeighboursLinked(s) /\ ByRecency(s, at)
  BY DEF IsChain, WellLinked
<1>2. Tracked(s) \subseteq Url /\ \A u \in Tracked(s) : at[u] \in Nat
  BY <1>1, ChainFields
<1>3. CASE second = NoUrl
  <2>1. s.tail = s.head
    BY <1>1, <1>3 DEF EndsLinked
  <2>2. \A u \in Tracked(s) : at[u] = at[s.head]
    BY <1>1, <1>2, <2>1 DEF ByRecency
  <2>3. Tracked(s) = {s.head}
    BY <1>1, <2>2 DEF ByRecency
  <2> QED  BY <2>3, <1>3, EmptyIsChain DEF RemoveHead
<1>4. CASE second # NoUrl
  <2>1. r = [head |-> second, tail |-> s.tail, map |-> m, count |-> s.count - 1]
    BY <1>4 DEF RemoveHead
  <2>2. Tracked(r) = rest
    BY <2>1 DEF Tracked
  <2> HIDE DEF r
  <2>3. second \in rest /\ at[second] < at[s.head]
    BY <1>1, <1>4, <1>2 DEF NeighboursLinked, ByRecency
  <2>4. s.tail \in rest
    BY <1>1, <1>4 DEF EndsLinked
  <2>5. \A u \in rest : /\ r.map[u].next = s.map[u].next
                        /\ r.map[u].previous = IF u = second THEN NoUrl
                                               ELSE s.map[u].previous
    BY <2>1
  <2>6. \A u \in rest : s.map[u].next # s.head
    BY <1>1, <1>2 DEF EndsLinked, NeighboursLinked
  <2>7. \A u \in rest : s.map[u].previous = s.head <=> u = second
    BY <1>1 DEF EndsLinked, NeighboursLinked
  <2>8. r \in LruState
    <3>1. m \in [rest -> Node]
      BY <1>1, NodeFields DEF Node
    <3> QED  BY <2>1, <2>3, <2>4, <1>2, <1>1, <3>1, CountAfterRemoval, ChainBuilt
  <2>9. EndsLinked(r)
    BY <2>1, <2>2, <2>3, <2>4, <2>5, <2>7, <1>1, <1>2 DEF EndsLinked
  <2>10. NeighboursLinked(r)
    BY <2>2, <2>3, <2>5, <2>6, <2>7, <1>1 DEF NeighboursLinked
  <2>11. ByRecency(r, at)
    <3>1. \A u \in rest : at[u] <= at[second]
      BY <2>3, <1>1, <1>4, <1>2 DEF ByRecency
    <3>2. r.head = second /\ r.tail = s.tail
      BY <2>1
    <3> QED  BY <2>2, <2>5, <3>1, <3>2, <1>1 DEF ByRecency
  <2>12. r.count = Cardinality(Tracked(r)) /\ IsFiniteSet(Tracked(r))
    BY <2>1, <2>2, CountAfterRemoval
  <2>13. IsChain(r, at)
    BY <2>8, <2>9, <2>10, <2>11, <2>12 DEF IsChain, WellLinked
  <2> QED  BY <2>2, <2>13 DEF r
<1> QED  BY <1>3, <1>4

\* remove() of any other tracked URL: its two neighbours are joined.
LEMMA RemoveInnerIsChain ==
  ASSUME NEW s, NEW at \in [Url -> Nat], IsChain(s, at),
         NEW url \in Tracked(s), url # s.head
  PROVE  /\ IsChain(RemoveInner(s, url), at)
         /\ Tracked(RemoveInner(s, url)) = Tracked(s) \ {url}
<1> DEFINE before == s.map[url].previous
           after  == s.map[url].next
           rest   == Tracked(s) \ {url}
           m      == [u \in rest |->
                        [previous |-> IF u = after  THEN before ELSE s.map[u].previous,
                         next     |-> IF u = before THEN after  ELSE s.map[u].next]]
           tl     == IF after = NoUrl THEN before ELSE s.tail
           r      == RemoveInner(s, url)
<1> USE NoUrlAssumption
<1>1. s \in LruState /\ EndsLinked(s) /\ NeighboursLinked(s) /\ ByRecency(s, at)
  BY DEF IsChain, WellLinked
<1>2. Tracked(s) \subseteq Url /\ \A u \in Tracked(s) : at[u] \in Nat
  BY <1>1, ChainFields
<1>3. r = [head |-> s.head, tail |-> tl, map |-> m, count |-> s.count - 1]
  BY DEF RemoveInner
<1>4. Tracked(r) = rest
  BY <1>3 DEF Tracked
<1>5. /\ r.head = s.head /\ r.tail = tl /\ r.count = s.count - 1
      /\ \A u \in rest :
           /\ r.map[u].previous = IF u = after  THEN before ELSE s.map[u].previous
           /\ r.map[u].next     = IF u = before THEN after  ELSE s.map[u].next
  BY <1>3
<1> HIDE DEF r
<1>6. before # NoUrl
  BY <1>1 DEF EndsLinked
<1>7. before \in rest /\ s.map[before].next = url /\ at[url] < at[before]
  <2>1. before \in Tracked(s) /\ s.map[before].next = url
    BY <1>1, <1>6 DEF NeighboursLinked
  <2>2. at[url] < at[before]
    BY <2>1, <1>1, <1>2 DEF ByRecency
  <2> QED  BY <2>1, <2>2, <1>2
<1>8. after # NoUrl => /\ after \in rest
                       /\ s.map[after].previous = url
                       /\ at[after] < at[url]
  <2> SUFFICES ASSUME after # NoUrl
               PROVE  /\ after \in rest
                      /\ s.map[after].previous = url
                      /\ at[after] < at[url]
    OBVIOUS
  <2>1. after \in Tracked(s) /\ s.map[after].previous = url
    BY <1>1 DEF NeighboursLinked
  <2>2. at[after] < at[url]
    BY <2>1, <1>1, <1>2 DEF ByRecency
  <2> QED  BY <2>1, <2>2, <1>2
<1>9. s.head \in rest
  BY <1>1, <1>7 DEF EndsLinked
<1>10. tl \in rest
  <2>1. CASE after = NoUrl
    BY <2>1, <1>7
  <2>2. CASE after # NoUrl
    BY <2>2, <1>1, <1>7 DEF EndsLinked
  <2> QED  BY <2>1, <2>2
<1>11. \A u \in rest : /\ s.map[u].next = url <=> u = before
                       /\ s.map[u].previous = url <=> (u = after /\ after # NoUrl)
  BY <1>1, <1>6, <1>7, <1>8, <1>2 DEF NeighboursLinked
<1>12. r \in LruState
  <2>1. m \in [rest -> Node]
    BY <1>1, NodeFields DEF Node
  <2> QED  BY <1>3, <1>9, <1>10, <1>2, <2>1, CountAfterRemoval, ChainBuilt
<1>13. EndsLinked(r)
  <2>1. \A u \in rest : r.map[u].previous = NoUrl <=> u = r.head
    <3>1. \A u \in rest : u = after => s.map[u].previous # NoUrl
      BY <1>8, <1>2
    <3> QED  BY <3>1, <1>5, <1>1, <1>6 DEF EndsLinked
  <2>2. \A u \in rest : r.map[u].next = NoUrl <=> u = r.tail
    <3>1. CASE after = NoUrl
      <4>1. url = s.tail
        BY <3>1, <1>1 DEF EndsLinked
      <4> QED  BY <3>1, <4>1, <1>5, <1>1 DEF EndsLinked
    <3>2. CASE after # NoUrl
      <4>1. s.map[before].next # NoUrl
        BY <1>7, <1>2
      <4> QED  BY <3>2, <4>1, <1>5, <1>1, <1>7 DEF EndsLinked
    <3> QED  BY <3>1, <3>2
  <2> QED  BY <1>4, <1>9, <1>10, <1>5, <1>2, <2>1, <2>2 DEF EndsLinked
<1>14. NeighboursLinked(r)
  <2> SUFFICES ASSUME NEW u \in rest
               PROVE  /\ r.map[u].next # NoUrl =>
                           /\ r.map[u].next \in rest
                           /\ r.map[r.map[u].next].previous = u
                      /\ r.map[u].previous # NoUrl =>
                           /\ r.map[u].previous \in rest
                           /\ r.map[r.map[u].previous].next = u
    BY <1>4 DEF NeighboursLinked
  <2>1. /\ s.map[u].next # NoUrl => /\ s.map[u].next \in Tracked(s)
                                    /\ s.map[s.map[u].next].previous = u
        /\ s.map[u].previous # NoUrl => /\ s.map[u].previous \in Tracked(s)
                                        /\ s.map[s.map[u].previous].next = u
    BY <1>1 DEF NeighboursLinked
  <2>2. CASE u = before
    BY <2>1, <2>2, <1>5, <1>7, <1>8, <1>11
  <2>3. CASE u = after
    BY <2>1, <2>3, <1>5, <1>7, <1>8, <1>11
  <2>4. CASE u # before /\ u # after
    BY <2>1, <2>4, <1>5, <1>7, <1>8, <1>11
  <2> QED  BY <2>2, <2>3, <2>4
<1>15. ByRecency(r, at)
  <2> SUFFICES ASSUME NEW u \in rest, NEW v \in rest
               PROVE  /\ at[u] = at[v] => u = v
                      /\ at[u] <= at[s.head]
                      /\ at[tl] <= at[u]
                      /\ r.map[u].next # NoUrl =>
                           /\ at[r.map[u].next] < at[u]
                           /\ at[v] < at[u] => at[v] <= at[r.map[u].next]
    BY <1>4, <1>5 DEF ByRecency
  <2>1. /\ at[u] = at[v] => u = v
        /\ at[u] <= at[s.head]
    BY <1>1 DEF ByRecency
  <2>2. at[v] < at[before] => at[v] < at[url]
    BY <1>1, <1>7, <1>2 DEF ByRecency
  <2>3. at[u] < at[before] => at[u] < at[url]
    BY <1>1, <1>7, <1>2 DEF ByRecency
  <2>4. at[tl] <= at[u]
    <3>1. CASE after = NoUrl
      <4>1. at[url] <= at[u]
        BY <3>1, <1>1 DEF EndsLinked, ByRecency
      <4> QED  BY <4>1, <3>1, <2>3, <1>7, <1>2
    <3>2. CASE after # NoUrl
      BY <3>2, <1>1 DEF ByRecency
    <3> QED  BY <3>1, <3>2
  <2>5. r.map[u].next # NoUrl =>
          /\ at[r.map[u].next] < at[u]
          /\ at[v] < at[u] => at[v] <= at[r.map[u].next]
    <3>1. CASE u = before
      <4>1. after # NoUrl => (at[v] < at[url] => at[v] <= at[after])
        BY <1>1 DEF ByRecency
      <4> QED  BY <4>1, <3>1, <2>2, <1>5, <1>7, <1>8, <1>2
    <3>2. CASE u # before
      BY <3>2, <1>5, <1>1 DEF ByRecency
    <3> QED  BY <3>1, <3>2
  <2> QED  BY <2>1, <2>4, <2>5
<1>16. r.count = Cardinality(Tracked(r)) /\ IsFiniteSet(Tracked(r))
  BY <1>5, <1>4, CountAfterRemoval
<1>17. IsChain(r, at)
  BY <1>12, <1>13, <1>14, <1>15, <1>16 DEF IsChain, WellLinked
<1> QED  BY <1>4, <1>17 DEF r

\* remove() keeps the chain a chain and takes out exactly its argument.
LEMMA RemoveIsChain ==
  ASSUME NEW s, NEW at \in [Url -> Nat], IsChain(s, at), NEW url
  PROVE  IsChain(Remove(s, url), at) /\ Tracked(Remove(s, url)) = Tracked(s) \ {url}
<1>1. CASE url \notin Tracked(s)
  BY <1>1 DEF Remove
<1>2. CASE url \in Tracked(s) /\ url = s.head
  BY <1>2, RemoveHeadIsChain DEF Remove
<1>3. CASE url \in Tracked(s) /\ url # s.head
  BY <1>3, RemoveInnerIsChain DEF Remove
<1> QED  BY <1>1, <1>2, <1>3

\* pop() answers null exactly when the chain is empty, and otherwise evicts a
\* URL that no other was used before.
LEMMA PopEvictsOldest ==
  ASSUME NEW s, NEW at \in [Url -> Nat], IsChain(s, at)
  PROVE  /\ IsChain(Pop(s), at)
         /\ Victim(s) = NoUrl <=> Tracked(s) = {}
         /\ Tracked(Pop(s)) = Tracked(s) \ {Victim(s)}
         /\ Victim(s) # NoUrl => /\ Victim(s) \in Tracked(s)
                                 /\ \A u \in Tracked(s) : at[Victim(s)] <= at[u]
<1>1. EndsLinked(s) /\ ByRecency(s, at) /\ Tracked(s) \subseteq Url
  BY ChainFields DEF IsChain, WellLinked
<1>2. CASE Victim(s) = NoUrl
  BY <1>1, <1>2 DEF Pop, Victim, EndsLinked
<1>3. CASE Victim(s) # NoUrl
  <2>1. Victim(s) \in Tracked(s)
    BY <1>1, <1>3 DEF Victim, EndsLinked
  <2>2. \A u \in Tracked(s) : at[Victim(s)] <= at[u]
    BY <1>1 DEF Victim, ByRecency
  <2> QED  BY <2>1, <2>2, <1>3, RemoveIsChain DEF Pop
<1> QED  BY <1>2, <1>3

-------------------------------------------------------------------------------
(***************************************************************************)
(* accessed().                                                             *)
(***************************************************************************)

\* Step 2 of accessed(): a URL that is in no chain becomes the head, and is
\* the newest under any clock that has not yet passed t.
LEMMA PushFrontIsChain ==
  ASSUME NEW s, NEW at \in [Url -> Nat], IsChain(s, at),
         NEW url \in Url \ Tracked(s), NEW t \in Nat,
         \A u \in Tracked(s) : at[u] < t
  PROVE  /\ IsChain(PushFront(s, url), [at EXCEPT ![url] = t])
         /\ Tracked(PushFront(s, url)) = Tracked(s) \cup {url}
<1> DEFINE all == Tracked(s) \cup {url}
           m   == [u \in all |->
                     IF u = url THEN [previous |-> NoUrl, next |-> s.head]
                     ELSE [previous |-> IF u = s.head THEN url ELSE s.map[u].previous,
                           next     |-> s.map[u].next]]
           tl  == IF s.tail = NoUrl THEN url ELSE s.tail
           now2 == [at EXCEPT ![url] = t]
           r   == PushFront(s, url)
<1> USE NoUrlAssumption
<1>1. s \in LruState /\ EndsLinked(s) /\ NeighboursLinked(s) /\ ByRecency(s, at)
  BY DEF IsChain, WellLinked
<1>2. Tracked(s) \subseteq Url /\ \A u \in Tracked(s) : at[u] \in Nat
  BY <1>1, ChainFields
<1>3. r = [head |-> url, tail |-> tl, map |-> m, count |-> s.count + 1]
  BY DEF PushFront
<1>4. Tracked(r) = all
  BY <1>3 DEF Tracked
<1>5. /\ r.head = url /\ r.tail = tl /\ r.count = s.count + 1
      /\ r.map[url].previous = NoUrl /\ r.map[url].next = s.head
      /\ \A u \in Tracked(s) :
           /\ r.map[u].previous = IF u = s.head THEN url ELSE s.map[u].previous
           /\ r.map[u].next = s.map[u].next
  BY <1>3
<1>6. /\ now2[url] = t /\ \A u \in Tracked(s) : now2[u] = at[u]
      /\ \A u \in all : now2[u] \in Nat
  BY <1>2
<1> HIDE DEF r, now2
<1>7. r \in LruState
  <2>1. m \in [all -> Node]
    BY <1>1, NodeFields, ChainFields DEF Node
  <2>2. s.count + 1 \in Nat
    BY <1>1, ChainFields
  <2>3. tl \in Url \cup {NoUrl}
    BY <1>1, ChainFields
  <2> QED  BY <1>3, <1>2, <2>1, <2>2, <2>3, ChainBuilt
<1>8. EndsLinked(r)
  BY <1>4, <1>5, <1>1, <1>2 DEF EndsLinked
<1>9. NeighboursLinked(r)
  <2> SUFFICES ASSUME NEW u \in all
               PROVE  /\ r.map[u].next # NoUrl =>
                           /\ r.map[u].next \in all
                           /\ r.map[r.map[u].next].previous = u
                      /\ r.map[u].previous # NoUrl =>
                           /\ r.map[u].previous \in all
                           /\ r.map[r.map[u].previous].next = u
    BY <1>4 DEF NeighboursLinked
  <2>1. CASE u = url
    BY <2>1, <1>5, <1>1 DEF EndsLinked
  <2>2. CASE u \in Tracked(s)
    BY <2>2, <1>5, <1>1, <1>2 DEF EndsLinked, NeighboursLinked
  <2> QED  BY <2>1, <2>2
<1>10. ByRecency(r, now2)
  <2> SUFFICES ASSUME NEW u \in all, NEW v \in all
               PROVE  /\ now2[u] = now2[v] => u = v
                      /\ now2[u] <= now2[url]
                      /\ now2[tl] <= now2[u]
                      /\ r.map[u].next # NoUrl =>
                           /\ now2[r.map[u].next] < now2[u]
                           /\ now2[v] < now2[u] => now2[v] <= now2[r.map[u].next]
    BY <1>4, <1>5 DEF ByRecency
  <2>1. now2[u] = now2[v] => u = v
    BY <1>6, <1>1, <1>2 DEF ByRecency
  <2>2. now2[u] <= now2[url]
    BY <1>6, <1>2
  <2>3. now2[tl] <= now2[u]
    <3>1. CASE s.tail = NoUrl
      BY <3>1, <1>1, <1>6 DEF EndsLinked
    <3>2. CASE s.tail # NoUrl
      BY <3>2, <1>1, <1>2, <1>6 DEF EndsLinked, ByRecency
    <3> QED  BY <3>1, <3>2
  <2>4. r.map[u].next # NoUrl =>
          /\ now2[r.map[u].next] < now2[u]
          /\ now2[v] < now2[u] => now2[v] <= now2[r.map[u].next]
    <3> SUFFICES ASSUME r.map[u].next # NoUrl
                 PROVE  /\ now2[r.map[u].next] < now2[u]
                        /\ now2[v] < now2[u] => now2[v] <= now2[r.map[u].next]
      OBVIOUS
    <3>1. CASE u = url
      <4>1. r.map[u].next = s.head /\ s.head \in Tracked(s)
        BY <3>1, <1>5, <1>1 DEF EndsLinked
      <4> QED  BY <4>1, <3>1, <1>1, <1>2, <1>6 DEF ByRecency
    <3>2. CASE u \in Tracked(s)
      <4>1. r.map[u].next = s.map[u].next /\ s.map[u].next \in Tracked(s)
        BY <3>2, <1>5, <1>1 DEF NeighboursLinked
      <4>2. now2[url] >= now2[u]
        BY <3>2, <1>2, <1>6
      <4> QED  BY <4>1, <4>2, <3>2, <1>1, <1>2, <1>6 DEF ByRecency
    <3> QED  BY <3>1, <3>2
  <2> QED  BY <2>1, <2>2, <2>3, <2>4
<1>11. r.count = Cardinality(Tracked(r)) /\ IsFiniteSet(Tracked(r))
  BY <1>5, <1>4, FS_AddElement DEF IsChain
<1>12. IsChain(r, now2)
  BY <1>7, <1>8, <1>9, <1>10, <1>11 DEF IsChain, WellLinked
<1> QED  BY <1>4, <1>12 DEF r, now2

\* accessed() keeps the chain a chain with its URL the newest, whether the URL
\* was the head, elsewhere in the chain, or not in it.
LEMMA AccessedIsChain ==
  ASSUME NEW s, NEW at \in [Url -> Nat], IsChain(s, at),
         NEW url \in Url, NEW t \in Nat, \A u \in Tracked(s) : at[u] < t
  PROVE  /\ IsChain(Accessed(s, url), [at EXCEPT ![url] = t])
         /\ Tracked(Accessed(s, url)) = Tracked(s) \cup {url}
<1>1. s \in LruState /\ EndsLinked(s) /\ NeighboursLinked(s) /\ ByRecency(s, at)
  BY DEF IsChain, WellLinked
<1>2. Tracked(s) \subseteq Url /\ \A u \in Tracked(s) : at[u] \in Nat
  BY <1>1, ChainFields
<1>3. CASE s.head = url
  <2> DEFINE now2 == [at EXCEPT ![url] = t]
  <2>1. url \in Tracked(s)
    BY <1>3, <1>1, NoUrlAssumption DEF EndsLinked
  <2>2. /\ now2[url] = t
        /\ \A u \in Tracked(s) : u # url => now2[u] = at[u]
        /\ \A u \in Tracked(s) : now2[u] \in Nat
    BY <1>2
  <2> HIDE DEF now2
  <2>3. ByRecency(s, now2)
    <3> SUFFICES ASSUME NEW u \in Tracked(s), NEW v \in Tracked(s)
                 PROVE  /\ now2[u] = now2[v] => u = v
                        /\ now2[u] <= now2[url]
                        /\ now2[s.tail] <= now2[u]
                        /\ s.map[u].next # NoUrl =>
                             /\ now2[s.map[u].next] < now2[u]
                             /\ now2[v] < now2[u] => now2[v] <= now2[s.map[u].next]
      BY <1>3 DEF ByRecency
    <3>1. now2[u] = now2[v] => u = v
      BY <2>2, <1>1, <1>2 DEF ByRecency
    <3>2. now2[u] <= now2[url]
      BY <2>2, <1>2
    <3>3. now2[s.tail] <= now2[u]
      <4>1. s.tail \in Tracked(s) /\ at[s.tail] <= at[u] /\ at[url] >= at[u]
        BY <1>1, <1>3 DEF EndsLinked, ByRecency
      <4>2. CASE u = url
        BY <4>1, <4>2, <2>2, <1>2
      <4>3. CASE u # url
        <5>1. s.tail # url
          BY <4>1, <4>3, <1>1, <1>2, <2>1 DEF ByRecency
        <5> QED  BY <5>1, <4>1, <4>3, <2>2
      <4> QED  BY <4>2, <4>3
    <3>4. s.map[u].next # NoUrl =>
            /\ now2[s.map[u].next] < now2[u]
            /\ now2[v] < now2[u] => now2[v] <= now2[s.map[u].next]
      <4> SUFFICES ASSUME s.map[u].next # NoUrl
                   PROVE  /\ now2[s.map[u].next] < now2[u]
                          /\ now2[v] < now2[u] => now2[v] <= now2[s.map[u].next]
        OBVIOUS
      <4>1. /\ s.map[u].next \in Tracked(s)
            /\ at[s.map[u].next] < at[u]
            /\ at[v] < at[u] => at[v] <= at[s.map[u].next]
            /\ at[u] <= at[url]
            /\ at[v] <= at[url]
            /\ at[v] = at[url] => v = url
        BY <1>1, <1>3, <2>1 DEF NeighboursLinked, ByRecency
      <4>2. s.map[u].next # url
        BY <4>1, <1>2
      <4>3. CASE u = url
        BY <4>1, <4>2, <4>3, <2>2, <1>2
      <4>4. CASE u # url
        BY <4>1, <4>2, <4>4, <2>2, <1>2
      <4> QED  BY <4>3, <4>4
    <3> QED  BY <3>1, <3>2, <3>3, <3>4
  <2>4. IsChain(s, now2)
    BY <2>3 DEF IsChain
  <2> QED  BY <1>3, <2>1, <2>4 DEF Accessed, now2
<1>4. CASE s.head # url
  <2> DEFINE q == Remove(s, url)
  <2>1. IsChain(q, at) /\ Tracked(q) = Tracked(s) \ {url}
    BY RemoveIsChain
  <2> HIDE DEF q
  <2>2. /\ IsChain(PushFront(q, url), [at EXCEPT ![url] = t])
        /\ Tracked(PushFront(q, url)) = Tracked(q) \cup {url}
    BY <2>1, PushFrontIsChain
  <2> QED  BY <1>4, <2>1, <2>2 DEF Accessed, q
<1> QED  BY <1>3, <1>4

-------------------------------------------------------------------------------
(***************************************************************************)
(* The inductive invariant of LruChain, and what follows from it.          *)
(***************************************************************************)

\* The chain is one in the order of lastUse, and no use lies in the future.
ChainInv ==
  /\ IsChain(lru, lastUse)
  /\ lastUse \in [Url -> Nat]
  /\ now \in Nat
  /\ \A u \in Url : lastUse[u] <= now
  /\ reply \in [op : {"none", "accessed", "remove", "pop"}, url : Url \cup {NoUrl}]

LEMMA ChainInitInv == ChainInit => ChainInv
BY EmptyIsChain DEF ChainInit, ChainInv

\* What accessed(u) does to the chain and to its history, from a state of ChainInv.
LEMMA StepAccessed ==
  ASSUME ChainInv, NEW u \in Url, CallAccessed(u)
  PROVE  ChainInv' /\ Tracked(lru') = Tracked(lru) \cup {u}
<1>1. \A v \in Tracked(lru) : lastUse[v] < now + 1
  BY ChainFields DEF ChainInv, IsChain
<1>2. now + 1 \in Nat /\ lastUse \in [Url -> Nat] /\ IsChain(lru, lastUse)
  BY DEF ChainInv
<1>3. /\ IsChain(Accessed(lru, u), [lastUse EXCEPT ![u] = now + 1])
      /\ Tracked(Accessed(lru, u)) = Tracked(lru) \cup {u}
  BY <1>1, <1>2, AccessedIsChain
<1>4. lastUse' \in [Url -> Nat] /\ now' \in Nat /\ \A v \in Url : lastUse'[v] <= now'
  BY <1>2 DEF ChainInv, CallAccessed
<1>5. reply' \in [op : {"none", "accessed", "remove", "pop"}, url : Url \cup {NoUrl}]
  BY DEF CallAccessed
<1>6. /\ lru' = Accessed(lru, u)
      /\ lastUse' = [lastUse EXCEPT ![u] = now + 1]
  BY DEF CallAccessed
<1>7. IsChain(lru', lastUse')
  BY <1>3, <1>6
<1> QED  BY <1>3, <1>4, <1>5, <1>6, <1>7 DEF ChainInv

\* What remove(u) does.
LEMMA StepRemove ==
  ASSUME ChainInv, NEW u \in Url, CallRemove(u)
  PROVE  ChainInv' /\ Tracked(lru') = Tracked(lru) \ {u}
<1>1. IsChain(lru', lastUse') /\ Tracked(lru') = Tracked(lru) \ {u}
  BY RemoveIsChain DEF ChainInv, CallRemove
<1>2. reply' \in [op : {"none", "accessed", "remove", "pop"}, url : Url \cup {NoUrl}]
  BY DEF CallRemove
<1> QED  BY <1>1, <1>2 DEF ChainInv, CallRemove

\* What pop() does.
LEMMA StepPop ==
  ASSUME ChainInv, CallPop
  PROVE  ChainInv' /\ Tracked(lru') = Tracked(lru) \ {Victim(lru)}
<1>1. IsChain(lru', lastUse') /\ Tracked(lru') = Tracked(lru) \ {Victim(lru)}
  BY PopEvictsOldest DEF ChainInv, CallPop
<1>2. Victim(lru) \in Url \cup {NoUrl}
  BY ChainFields DEF ChainInv, IsChain, Victim
<1>3. reply' \in [op : {"none", "accessed", "remove", "pop"}, url : Url \cup {NoUrl}]
  BY <1>2 DEF CallPop
<1> QED  BY <1>1, <1>3 DEF ChainInv, CallPop

\* Every step of the chain keeps the invariant.
LEMMA ChainNextInv == ChainInv /\ [ChainNext]_chainVars => ChainInv'
<1> SUFFICES ASSUME ChainInv, [ChainNext]_chainVars PROVE ChainInv'
  OBVIOUS
<1>1. ASSUME NEW u \in Url, CallAccessed(u) PROVE ChainInv'
  BY <1>1, StepAccessed
<1>2. ASSUME NEW u \in Url, CallRemove(u) PROVE ChainInv'
  BY <1>2, StepRemove
<1>3. CASE CallPop
  BY <1>3, StepPop
<1>4. CASE UNCHANGED chainVars
  <2>1. IsChain(lru', lastUse')
    BY <1>4 DEF ChainInv, chainVars
  <2> QED  BY <2>1, <1>4 DEF ChainInv, chainVars
<1> QED  BY <1>1, <1>2, <1>3, <1>4 DEF ChainNext

\* The invariant holds in every reachable state.
THEOREM ChainInvariance == ChainSpec => []ChainInv
<1> QED  BY ChainInitInv, ChainNextInv, PTL DEF ChainSpec

\* The pointers, the count and the history keep their types through any calls
\* of accessed(), remove() and pop(), for any set of URLs.
THEOREM ChainTypeCorrect == ChainSpec => []ChainTypeOK
<1>1. ChainInv => ChainTypeOK
  BY DEF ChainInv, IsChain, ChainTypeOK
<1> QED  BY <1>1, ChainInvariance, PTL

\* After any calls the chain has no dangling or one-sided link, its count is
\* the number of URLs in it, and it lists them from the newest to the oldest.
THEOREM ChainCorrect == ChainSpec => []ChainSound
<1>1. ChainInv => ChainSound
  BY DEF ChainInv, IsChain, ChainSound, ChainWellLinked, CountExact, ChainOrder
<1> QED  BY <1>1, ChainInvariance, PTL

-------------------------------------------------------------------------------
(***************************************************************************)
(* The pointer structure implements the cache without pointers.            *)
(***************************************************************************)

\* An empty chain is an empty cache.
LEMMA InitRefines == ChainInit => R!Init
BY EmptyIsChain DEF ChainInit, R!Init

\* Every call is a step of the cache, from a state of the invariant.
LEMMA NextRefines == ChainInv /\ [ChainNext]_chainVars => [R!Next]_(R!vars)
<1> SUFFICES ASSUME ChainInv, [ChainNext]_chainVars PROVE [R!Next]_(R!vars)
  OBVIOUS
<1>1. ASSUME NEW u \in Url, CallAccessed(u) PROVE R!Next
  BY <1>1, StepAccessed DEF CallAccessed, R!Next, R!Use
<1>2. ASSUME NEW u \in Url, CallRemove(u) PROVE R!Next
  BY <1>2, StepRemove DEF CallRemove, R!Next, R!Forget
<1>3. CASE CallPop
  <2>1. /\ Tracked(lru') = Tracked(lru) \ {Victim(lru)}
        /\ UNCHANGED <<lastUse, now>>
        /\ reply' = [op |-> "pop", url |-> Victim(lru)]
    BY <1>3, StepPop DEF CallPop
  <2>2. CASE Victim(lru) = NoUrl
    BY <2>1, <2>2, PopEvictsOldest DEF ChainInv, R!Next, R!EvictOldest
  <2>3. CASE Victim(lru) # NoUrl
    <3>1. Victim(lru) \in Url /\ R!Oldest(Victim(lru))
      BY <2>3, PopEvictsOldest, ChainFields DEF ChainInv, IsChain, R!Oldest
    <3> QED  BY <2>1, <3>1 DEF R!Next, R!EvictOldest
  <2> QED  BY <2>2, <2>3
<1>4. CASE UNCHANGED chainVars
  BY <1>4 DEF chainVars, R!vars
<1> QED  BY <1>1, <1>2, <1>3, <1>4 DEF ChainNext

\* Whatever the calls, pop() evicts a least recently used URL and every other
\* call adds or forgets just its own: the chain implements Recency.
THEOREM ImplementsRecency == ChainSpec => EvictsLeastRecentlyUsed
<1> QED  BY InitRefines, NextRefines, ChainInvariance, PTL
         DEF ChainSpec, EvictsLeastRecentlyUsed, R!Spec

-------------------------------------------------------------------------------
(***************************************************************************)
(* The chain of a data group.  In its calls a chain is ordered by some      *)
(* clock, which is ahead of every use.                                      *)
(***************************************************************************)
Chained(s) ==
  \E at \in [Url -> Nat], clock \in Nat : IsChain(s, at) /\ \A u \in Url : at[u] < clock

LEMMA ChainTypes ==
  ASSUME NEW s, Chained(s)
  PROVE  /\ s \in LruState /\ Tracked(s) \subseteq Url /\ IsFiniteSet(Tracked(s))
         /\ s.count = Cardinality(Tracked(s)) /\ s.count \in Nat
<1>1. s \in LruState /\ IsFiniteSet(Tracked(s)) /\ s.count = Cardinality(Tracked(s))
  BY DEF Chained, IsChain
<1>2. Tracked(s) \subseteq Url
  BY <1>1, ChainFields
<1> QED
  BY <1>1, <1>2, FS_CardinalityType

LEMMA ChainEmpty == Chained(EmptyChain) /\ Tracked(EmptyChain) = {}
<1>1. PICK at \in [Url -> Nat] : at = [u \in Url |-> 0]
  OBVIOUS
<1>2. IsChain(EmptyChain, at)
  BY EmptyIsChain
<1>3. \A u \in Url : at[u] < 1
  <2>1. ASSUME NEW u \in Url PROVE at[u] < 1
    <3>1. at[u] = 0
      BY <1>1
    <3> QED
      BY <3>1
  <2> QED
    BY <2>1
<1> QED
  BY <1>2, <1>3 DEF Chained, Tracked, EmptyChain

LEMMA ChainRemove ==
  ASSUME NEW s, Chained(s), NEW url
  PROVE  /\ Chained(Remove(s, url)) /\ Tracked(Remove(s, url)) = Tracked(s) \ {url}
         /\ Remove(s, url).count <= s.count
<1>1. PICK at \in [Url -> Nat], clock \in Nat : IsChain(s, at) /\ \A u \in Url : at[u] < clock
  BY DEF Chained
<1>2. /\ IsChain(Remove(s, url), at) /\ Tracked(Remove(s, url)) = Tracked(s) \ {url}
  BY <1>1, RemoveIsChain
<1>3. Chained(Remove(s, url))
  BY <1>1, <1>2 DEF Chained
<1>4. Remove(s, url).count <= s.count
  <2>1. PICK x : x = Remove(s, url)
    OBVIOUS
  <2>2. x.count = Cardinality(Tracked(x)) /\ s.count = Cardinality(Tracked(s)) /\ IsFiniteSet(Tracked(s))
    BY <1>3, <2>1, ChainTypes
  <2>3. Tracked(x) \in SUBSET Tracked(s)
    BY <1>2, <2>1
  <2>4. Cardinality(Tracked(x)) <= Cardinality(Tracked(s))
    BY <2>2, <2>3, FS_Subset
  <2> QED
    BY <2>1, <2>2, <2>4
<1> QED
  BY <1>2, <1>3, <1>4

\* pop() of a chain that answers a URL removes that one.
LEMMA ChainPop ==
  ASSUME NEW s, Chained(s), Victim(s) # NoUrl
  PROVE  /\ Chained(Pop(s)) /\ Tracked(Pop(s)) = Tracked(s) \ {Victim(s)}
         /\ Victim(s) \in Tracked(s) /\ Pop(s).count = s.count - 1
<1>1. PICK at \in [Url -> Nat], clock \in Nat : IsChain(s, at) /\ \A u \in Url : at[u] < clock
  BY DEF Chained
<1>2. /\ IsChain(Pop(s), at) /\ Tracked(Pop(s)) = Tracked(s) \ {Victim(s)}
      /\ Victim(s) \in Tracked(s)
  BY <1>1, PopEvictsOldest
<1>3. Chained(Pop(s))
  BY <1>1, <1>2 DEF Chained
<1>4. Pop(s).count = s.count - 1
  <2>1. PICK x : x = Pop(s)
    OBVIOUS
  <2>2. x.count = Cardinality(Tracked(x)) /\ s.count = Cardinality(Tracked(s)) /\ IsFiniteSet(Tracked(s))
    BY <1>3, <2>1, ChainTypes
  <2>3. Cardinality(Tracked(s) \ {Victim(s)}) = Cardinality(Tracked(s)) - 1
    BY <1>2, <2>2, FS_RemoveElement
  <2> QED
    BY <1>2, <2>1, <2>2, <2>3
<1> QED
  BY <1>2, <1>3, <1>4

\* pop() answers null of an empty chain only.
LEMMA ChainVictim ==
  ASSUME NEW s, Chained(s), Victim(s) = NoUrl
  PROVE  s.count = 0
<1>1. PICK at \in [Url -> Nat] : IsChain(s, at)
  BY DEF Chained
<1>2. Tracked(s) = {}
  BY <1>1, PopEvictsOldest
<1> QED
  BY <1>2, ChainTypes, FS_EmptySet

\* accessed() adds the URL, or leaves the size alone if it is there.
LEMMA ChainAccessed ==
  ASSUME NEW s, Chained(s), NEW url \in Url
  PROVE  /\ Chained(Accessed(s, url)) /\ Tracked(Accessed(s, url)) = Tracked(s) \cup {url}
         /\ Accessed(s, url).count = IF url \in Tracked(s) THEN s.count ELSE s.count + 1
<1>1. PICK at \in [Url -> Nat], clock \in Nat : IsChain(s, at) /\ \A u \in Url : at[u] < clock
  BY DEF Chained
<1>2. /\ IsChain(Accessed(s, url), [at EXCEPT ![url] = clock])
      /\ Tracked(Accessed(s, url)) = Tracked(s) \cup {url}
  <2>1. \A u \in Tracked(s) : at[u] < clock
    BY <1>1, ChainTypes
  <2> QED
    BY <1>1, <2>1, AccessedIsChain
<1>3. Chained(Accessed(s, url))
  <2>1. PICK later \in [Url -> Nat] : later = [at EXCEPT ![url] = clock]
    BY <1>1
  <2>2. ASSUME NEW u \in Url PROVE later[u] < clock + 1
    <3>1. at[u] \in Nat /\ at[u] < clock
      BY <1>1
    <3>2. later[u] = at[u] \/ later[u] = clock
      BY <2>1
    <3> QED
      BY <3>1, <3>2
  <2>3. IsChain(Accessed(s, url), later) /\ clock + 1 \in Nat
    BY <1>2, <2>1
  <2> QED
    BY <2>2, <2>3 DEF Chained
<1>4. Accessed(s, url).count = IF url \in Tracked(s) THEN s.count ELSE s.count + 1
  <2>1. PICK x : x = Accessed(s, url)
    OBVIOUS
  <2>2. x.count = Cardinality(Tracked(x)) /\ s.count = Cardinality(Tracked(s)) /\ IsFiniteSet(Tracked(s))
    BY <1>3, <2>1, ChainTypes
  <2>3. Cardinality(Tracked(s) \cup {url}) = IF url \in Tracked(s) THEN Cardinality(Tracked(s))
                                            ELSE Cardinality(Tracked(s)) + 1
    BY <2>2, FS_AddElement
  <2> QED
    BY <1>2, <2>1, <2>2, <2>3
<1> QED
  BY <1>2, <1>3, <1>4

(***************************************************************************)
(* The invariant, in layers.  First what a front q, a cacher c and a fetch *)
(* n can be, when `f` is in _lru and the server has the versions `v`.      *)
(***************************************************************************)
FrontRecord == [pc : FrontPc, url : Url \cup {NoUrl}, mutates : BOOLEAN, lru : Req \cup {NoReq},
                todo : SUBSET Part, ver : Version, floor : Version]
CacherRecord == [pc : {"off", "wait", "evict", "put", "stamp", "sync"}, url : Url \cup {NoUrl},
                 lru : Req \cup {NoReq}, ver : Version, victim : Url \cup {NoUrl}, todo : SUBSET Part]
FetchRecord == [state : {"none", "pending", "ok", "bad", "rejected"}, ver : Version]

FrontShape(r, q, f, v) ==
  q.pc \notin Ended =>
    /\ q.url \in Url /\ r \in setting.reqs /\ q.floor <= v[q.url]
    /\ q.pc = "readLru" => f # r /\ q.lru = NoReq
    /\ q.pc # "readLru" => f \in Req /\ q.lru \in Req
    /\ q.pc \in {"clear", "clearSync", "send"} => q.mutates

CacherShape(r, q, c, f) ==
  c.pc # "off" =>
    /\ c.url \in Url /\ r \in setting.reqs /\ f \in Req /\ c.lru \in Req
    /\ q.pc \notin Ended =>
         /\ c.url = q.url
         /\ \/ q.pc = "inline" /\ c.pc # "wait"
            \/ /\ setting.strategy = "freshness"
               /\ q.pc \in {"match", "readAge", "purge", "purgeSync", "awaitNet"}

NetShape(q, c, n) ==
  n.state # "none" => \/ q.pc \in {"race", "match", "readAge", "purge", "purgeSync", "awaitNet"}
                      \/ c.pc = "wait"

Shapes ==
  /\ field \in Req \cup {NoReq}
  /\ DOMAIN lists = Req /\ \A r \in Req : Chained(lists[r])
  /\ Chained(savedLru)
  /\ server \in [Url -> Version]
  /\ Cached \subseteq Url /\ \A u \in Cached : cached[u] \in Version
  /\ req \in [Req -> FrontRecord] /\ cacher \in [Req -> CacherRecord] /\ net \in [Req -> FetchRecord]
  /\ \A r \in Req : /\ FrontShape(r, req[r], field, server)
                    /\ CacherShape(r, req[r], cacher[r], field)
                    /\ NetShape(req[r], cacher[r], net[r])

\* The histories have what they watch for.
Watched ==
  /\ raced \subseteq Url /\ overtaken \subseteq Url
  /\ \A u \in Url : Contested(u) \/ Orphaned(u) => u \in raced
  /\ \A u \in Url : Overtaken(u) => u \in overtaken

(***************************************************************************)
(* What one request does with the response of u.                           *)
(***************************************************************************)
Deletes(q, c, u) == \/ q.pc \in {"clear", "purge"} /\ q.url = u
                    \/ c.pc = "evict" /\ c.victim = u
HasDeleted(q, c, u) == \/ q.pc \in {"clear", "purge"} /\ q.url = u /\ "cache" \notin q.todo
                       \/ c.pc = "evict" /\ c.victim = u /\ "cache" \notin c.todo
Uses(q, c, u) == \/ q.pc = "readAge" /\ q.url = u
                 \/ c.pc \in {"put", "stamp"} /\ c.url = u
Stores(c, u) == c.pc = "put" /\ c.url = u
Changes(q, c, u) == \/ q.pc \in {"clear", "purge", "clearSync", "purgeSync"} /\ q.url = u
                    \/ c.pc \in {"evict", "put", "stamp", "sync"} /\ u \in {c.url, c.victim}

\* The cache, the chain in memory (T) and the chain on disk (S) agree on u.
StoreGood(u, T, S) ==
  /\ u \in Cached /\ ~Deleted(u) => u \in T
  /\ Deleted(u) => u \notin T
  /\ \A r \in Req : /\ HasDeleted(req[r], cacher[r], u) => u \notin Cached
                    /\ req[r].pc = "readAge" /\ req[r].url = u => u \in Cached
                    /\ Stores(cacher[r], u) => u \in T
  /\ ~WritesFail => /\ u \in T => u \in Cached \/ Stored(u)
                    /\ u \in Cached /\ ~Deleted(u) /\ ~Unwritten(u) => u \in S
                    /\ u \in S /\ ~Unwritten(u) => u \in Cached

\* What a request holds of u is what the server has, which is w, and m what is cached.
Current(q, c, n, m, u, w) ==
  /\ q.pc = "race" /\ q.url = u /\ n.state = "ok" => n.ver = w
  /\ c.pc = "wait" /\ c.url = u /\ n.state = "ok" => n.ver = w
  /\ c.pc \in {"evict", "put"} /\ c.url = u => c.ver = w
  /\ q.pc = "readAge" /\ q.url = u => q.ver = w
  /\ q.pc \in {"clearSync", "send"} /\ q.url = u => u \notin DOMAIN m

FreshGood(u) ==
  /\ u \in Cached => cached[u] = server[u]
  /\ \A r \in Req : Current(req[r], cacher[r], net[r], cached, u, server[u])

\* There is room for the URL of each eviction that is under way.
Evicting(cs) == {r \in Req : cs[r].pc = "evict"}
Room == IF MaxSize = 0 THEN 1 ELSE MaxSize
Limit == Room + Cardinality(setting.reqs) - 1
SizeGood == /\ CurrentChain.count + Cardinality(Evicting(cacher)) <= Limit
            /\ savedLru.count <= Limit

IInv ==
  /\ setting \in Setting /\ Shapes /\ Watched
  /\ \A u \in Url \ raced : StoreGood(u, Tracked(CurrentChain), Tracked(savedLru))
  /\ \A u \in Url \ (raced \cup overtaken) : FreshGood(u)
  /\ raced = {} => SizeGood

-------------------------------------------------------------------------------
(***************************************************************************)
(* Steps in general: of the request r only, to the front q, the cacher c   *)
(* and the fetch n.                                                        *)
(***************************************************************************)
\* The fields of a setting.
LEMMA SettingFields ==
  ASSUME setting \in Setting
  PROVE  /\ setting.strategy \in {"performance", "freshness"} /\ setting.maxSize \in Nat
         /\ setting.urls \subseteq Url /\ setting.reqs \subseteq Req /\ setting.reqs # {}
         /\ IsFiniteSet(setting.reqs)
<1>1. /\ setting.strategy \in {"performance", "freshness"} /\ setting.maxSize \in Nat
      /\ setting.urls \subseteq Url /\ setting.reqs \subseteq Req /\ setting.reqs # {}
  BY SettingAssumption
<1> QED
  BY <1>1, SettingAssumption, FS_Subset

\* The records of those who do nothing, and of a fetch that was sent.
LEMMA Nothing ==
  /\ NoRequest \in FrontRecord /\ NotCaching \in CacherRecord
  /\ NoFetch \in FetchRecord /\ Fetching \in FetchRecord
<1>1. 0 \in Version
  BY SettingAssumption DEF Version
<1> QED
  BY <1>1 DEF NoRequest, NotCaching, NoFetch, Fetching, FrontRecord, CacherRecord, FetchRecord,
              FrontPc, Ended, Part

\* The histories grow, and watch the next state.
LEMMA Histories ==
  ASSUME raced \subseteq Url, overtaken \subseteq Url, Races, Overtakes
  PROVE  /\ raced \subseteq raced' /\ overtaken \subseteq overtaken'
         /\ \A u \in Url : Contested(u)' \/ Orphaned(u)' => u \in raced'
         /\ \A u \in Url : Overtaken(u)' => u \in overtaken'
BY DEF Races, Overtakes

\* The shapes after the step of r, if the new records of r have them.
LEMMA ShapesMove ==
  ASSUME NEW r \in Req, Shapes, setting' = setting,
         NEW q \in FrontRecord, NEW c \in CacherRecord, NEW n \in FetchRecord,
         req' = [req EXCEPT ![r] = q], cacher' = [cacher EXCEPT ![r] = c], net' = [net EXCEPT ![r] = n],
         field' = field \/ field' = r,
         DOMAIN lists' = Req, \A x \in Req : Chained(lists'[x]), Chained(savedLru'),
         server' \in [Url -> Version], \A u \in Url : server[u] <= server'[u],
         Cached' \subseteq Url, \A u \in Cached' : cached'[u] \in Version,
         FrontShape(r, q, field', server'), CacherShape(r, q, c, field'), NetShape(q, c, n)
  PROVE  Shapes'
<1>1. /\ req' \in [Req -> FrontRecord] /\ cacher' \in [Req -> CacherRecord]
      /\ net' \in [Req -> FetchRecord] /\ field' \in Req \cup {NoReq}
  BY DEF Shapes
<1>2. /\ req'[r] = q /\ cacher'[r] = c /\ net'[r] = n
      /\ \A x \in Req : x # r => req'[x] = req[x] /\ cacher'[x] = cacher[x] /\ net'[x] = net[x]
  BY DEF Shapes
<1>3. ASSUME NEW x \in Req
      PROVE  /\ FrontShape(x, req'[x], field', server') /\ CacherShape(x, req'[x], cacher'[x], field')
             /\ NetShape(req'[x], cacher'[x], net'[x])
  <2>1. CASE x = r
    BY <1>2, <2>1
  <2>2. CASE x # r
    <3>1. /\ req'[x] = req[x] /\ cacher'[x] = cacher[x] /\ net'[x] = net[x] /\ req[x] \in FrontRecord
          /\ FrontShape(x, req[x], field, server) /\ CacherShape(x, req[x], cacher[x], field)
          /\ NetShape(req[x], cacher[x], net[x])
      BY <1>2, <2>2 DEF Shapes
    <3>2. ASSUME req[x].url \in Url, req[x].floor <= server[req[x].url]
          PROVE  req[x].floor <= server'[req[x].url]
      <4>1. PICK a, b, w : a = req[x].floor /\ b = server[req[x].url] /\ w = server'[req[x].url]
        OBVIOUS
      <4>2. a \in Nat /\ b \in Nat /\ w \in Nat /\ a <= b /\ b <= w
        BY <3>1, <3>2, <4>1, SettingAssumption DEF FrontRecord, Version, Shapes
      <4> QED
        BY <4>1, <4>2
    <3>3. FrontShape(x, req[x], field', server')
      BY <3>1, <3>2, <2>2 DEF FrontShape
    <3>4. CacherShape(x, req[x], cacher[x], field')
      BY <3>1 DEF CacherShape
    <3> QED
      BY <3>1, <3>3, <3>4
  <2> QED
    BY <2>1, <2>2
<1>4. \A x \in Req : /\ FrontShape(x, req[x], field, server)' /\ CacherShape(x, req[x], cacher[x], field)'
                    /\ NetShape(req[x], cacher[x], net[x])'
  BY <1>3 DEF FrontShape, CacherShape, NetShape
<1> QED
  BY <1>1, <1>4 DEF Shapes

\* What the step of one request may do with u: T, M and S are the chain, the cache
\* and the chain on disk before, T1, M1 and S1 after.
Local(u, q, c, T, M, S, q1, c1, T1, M1, S1) ==
  /\ Deletes(q1, c1, u) => u \notin T1
  /\ HasDeleted(q1, c1, u) => u \notin M1
  /\ q1.pc = "readAge" /\ q1.url = u => u \in M1
  /\ Stores(c1, u) => u \in T1
  /\ u \in T1 \ T => Uses(q, c, u) \/ Uses(q1, c1, u)
  /\ u \in M1 \ M => Uses(q, c, u) /\ u \in T1 /\ Changes(q1, c1, u)
  /\ u \in M \ M1 => Deletes(q, c, u) /\ Changes(q1, c1, u)
  /\ u \in T \ T1 => Deletes(q1, c1, u)
  /\ Deletes(q, c, u) /\ ~Deletes(q1, c1, u) => u \notin M1
  /\ ~WritesFail => /\ u \in T1 \ T => u \in M1 \/ Stores(c1, u)
                    /\ Stores(c, u) /\ ~Stores(c1, u) => u \in M1
                    /\ \/ u \in S1 <=> u \in T1
                       \/ (u \in S1 <=> u \in S) /\ (Changes(q, c, u) => Changes(q1, c1, u))

\* If the step of r is Local for u, the cache and the chains agree on u again.
LEMMA StoreMoves ==
  ASSUME NEW r \in Req, NEW u \in Url, Shapes, setting' = setting,
         NEW q, NEW c, req' = [req EXCEPT ![r] = q], cacher' = [cacher EXCEPT ![r] = c],
         NEW T, NEW T1, NEW S, NEW S1, StoreGood(u, T, S),
         ~Contested(u), ~Contested(u)',
         Local(u, req[r], cacher[r], T, Cached, S, q, c, T1, Cached', S1)
  PROVE  StoreGood(u, T1, S1)'
<1>1. /\ req'[r] = q /\ cacher'[r] = c
      /\ \A x \in Req : x # r => req'[x] = req[x] /\ cacher'[x] = cacher[x]
  BY DEF Shapes
<1>2. PICK D \in BOOLEAN, U \in BOOLEAN, W \in BOOLEAN, P \in BOOLEAN :
        /\ D <=> \E x \in Req \ {r} : Deletes(req[x], cacher[x], u)
        /\ U <=> \E x \in Req \ {r} : Uses(req[x], cacher[x], u)
        /\ W <=> \E x \in Req \ {r} : Changes(req[x], cacher[x], u)
        /\ P <=> \E x \in Req \ {r} : Stores(cacher[x], u)
  OBVIOUS
<1>3. /\ Deleted(u) <=> D \/ Deletes(req[r], cacher[r], u)
      /\ Used(u) <=> U \/ Uses(req[r], cacher[r], u)
      /\ Unwritten(u) <=> W \/ Changes(req[r], cacher[r], u)
      /\ Stored(u) <=> P \/ Stores(cacher[r], u)
  BY <1>2 DEF Deleted, Used, Unwritten, Stored, Deletes, Uses, Changes, Stores
<1>4. /\ Deleted(u)' <=> D \/ Deletes(q, c, u)
      /\ Used(u)' <=> U \/ Uses(q, c, u)
      /\ Unwritten(u)' <=> W \/ Changes(q, c, u)
      /\ Stored(u)' <=> P \/ Stores(c, u)
  BY <1>1, <1>2 DEF Deleted, Used, Unwritten, Stored, Deletes, Uses, Changes, Stores
<1>5. /\ ~((D \/ Deletes(req[r], cacher[r], u)) /\ (U \/ Uses(req[r], cacher[r], u)))
      /\ ~((D \/ Deletes(q, c, u)) /\ (U \/ Uses(q, c, u)))
  BY <1>3, <1>4 DEF Contested
<1>6. /\ u \in Cached /\ ~(D \/ Deletes(req[r], cacher[r], u)) => u \in T
      /\ D \/ Deletes(req[r], cacher[r], u) => u \notin T
  BY <1>3 DEF StoreGood
<1>7. /\ u \in Cached' \ Cached => ~D
      /\ u \in T1 \ T => ~D
      /\ u \in Cached \ Cached' => ~U
      /\ u \in T \ T1 => ~U
  BY <1>5 DEF Local
<1>8. /\ u \in Cached' /\ ~(D \/ Deletes(q, c, u)) => u \in T1
      /\ D \/ Deletes(q, c, u) => u \notin T1
  BY <1>6, <1>7 DEF Local
<1>9. ASSUME NEW x \in Req
      PROVE  /\ HasDeleted(req'[x], cacher'[x], u) => u \notin Cached'
             /\ req'[x].pc = "readAge" /\ req'[x].url = u => u \in Cached'
             /\ Stores(cacher'[x], u) => u \in T1
  <2>1. CASE x = r
    BY <1>1, <2>1 DEF Local
  <2>2. CASE x # r
    <3>1. /\ HasDeleted(req[x], cacher[x], u) => u \notin Cached /\ D
          /\ req[x].pc = "readAge" /\ req[x].url = u => u \in Cached /\ U
          /\ Stores(cacher[x], u) => u \in T /\ U
      <4>1. /\ HasDeleted(req[x], cacher[x], u) => Deletes(req[x], cacher[x], u)
            /\ req[x].pc = "readAge" /\ req[x].url = u => Uses(req[x], cacher[x], u)
            /\ Stores(cacher[x], u) => Uses(req[x], cacher[x], u)
        BY DEF HasDeleted, Deletes, Uses, Stores
      <4> QED
        BY <1>2, <2>2, <4>1 DEF StoreGood
    <3> QED
      BY <1>1, <1>7, <2>2, <3>1
  <2> QED
    BY <2>1, <2>2
<1>10. ASSUME ~WritesFail
       PROVE  /\ u \in T1 => u \in Cached' \/ P \/ Stores(c, u)
              /\ u \in Cached' /\ ~(D \/ Deletes(q, c, u)) /\ ~(W \/ Changes(q, c, u)) => u \in S1
              /\ u \in S1 /\ ~(W \/ Changes(q, c, u)) => u \in Cached'
  <2>1. /\ u \in T => u \in Cached \/ P \/ Stores(cacher[r], u)
        /\ u \in Cached /\ ~(D \/ Deletes(req[r], cacher[r], u)) /\ ~(W \/ Changes(req[r], cacher[r], u))
             => u \in S
        /\ u \in S /\ ~(W \/ Changes(req[r], cacher[r], u)) => u \in Cached
    BY <1>3, <1>10 DEF StoreGood
  <2>2. P => W
    BY <1>2 DEF Stores, Changes
  <2>3. Stores(c, u) => Changes(q, c, u)
    BY DEF Stores, Changes
  <2>4. u \in T1 => u \in Cached' \/ P \/ Stores(c, u)
    <3>1. /\ u \in T1 \ T => u \in Cached' \/ Stores(c, u)
          /\ Stores(cacher[r], u) /\ ~Stores(c, u) => u \in Cached'
          /\ u \in Cached \ Cached' => Deletes(req[r], cacher[r], u)
      BY <1>10 DEF Local
    <3> QED
      BY <1>6, <2>1, <3>1
  <2>5. CASE u \in S1 <=> u \in T1
    <3>1. u \in Cached' /\ ~(D \/ Deletes(q, c, u)) => u \in S1
      BY <1>8, <2>5
    <3>2. u \in S1 => u \in Cached' \/ P \/ Stores(c, u)
      BY <2>4, <2>5
    <3>3. P \/ Stores(c, u) => W \/ Changes(q, c, u)
      BY <2>2, <2>3
    <3> QED
      BY <2>4, <3>1, <3>2, <3>3
  <2>6. CASE (u \in S1 <=> u \in S) /\ (Changes(req[r], cacher[r], u) => Changes(q, c, u))
    <3>1. /\ u \in Cached' \ Cached => Changes(q, c, u)
          /\ u \in Cached \ Cached' => Changes(q, c, u)
          /\ Deletes(req[r], cacher[r], u) /\ ~Deletes(q, c, u) => u \notin Cached'
      BY DEF Local
    <3> QED
      BY <2>1, <2>4, <2>6, <3>1
  <2>7. \/ u \in S1 <=> u \in T1
        \/ (u \in S1 <=> u \in S) /\ (Changes(req[r], cacher[r], u) => Changes(q, c, u))
    BY <1>10 DEF Local
  <2> QED
    BY <2>5, <2>6, <2>7
<1>11. /\ \A x \in Req : /\ HasDeleted(req'[x], cacher'[x], u) => u \notin Cached'
                         /\ req'[x].pc = "readAge" /\ req'[x].url = u => u \in Cached'
                         /\ Stores(cacher'[x], u) => u \in T1
       /\ u \in Cached' /\ ~Deleted(u)' => u \in T1
       /\ Deleted(u)' => u \notin T1
  BY <1>4, <1>8, <1>9
<1>12. ~WritesFail => /\ u \in T1 => u \in Cached' \/ Stored(u)'
                      /\ u \in Cached' /\ ~Deleted(u)' /\ ~Unwritten(u)' => u \in S1
                      /\ u \in S1 /\ ~Unwritten(u)' => u \in Cached'
  BY <1>4, <1>10
<1>13. WritesFail' = WritesFail
  BY DEF WritesFail
<1>14. \A x \in Req : /\ HasDeleted(req[x], cacher[x], u)' <=> HasDeleted(req'[x], cacher'[x], u)
                      /\ Stores(cacher[x], u)' <=> Stores(cacher'[x], u)
  BY DEF HasDeleted, Stores
<1> QED
  BY <1>11, <1>12, <1>13, <1>14 DEF StoreGood

\* What the others hold of u stays current: a mutation that met them would have been noted.
LEMMA FreshMoves ==
  ASSUME NEW r \in Req, NEW u \in Url, Shapes,
         NEW q, NEW c, NEW n,
         req' = [req EXCEPT ![r] = q], cacher' = [cacher EXCEPT ![r] = c], net' = [net EXCEPT ![r] = n],
         FreshGood(u), ~Overtaken(u),
         u \in Cached' => cached'[u] = server'[u],
         u \in Cached' \ Cached => Handles(r, u),
         server'[u] # server[u] => Running(r) /\ req[r].mutates /\ req[r].url = u,
         Current(q, c, n, cached', u, server'[u])
  PROVE  FreshGood(u)'
<1>1. /\ req'[r] = q /\ cacher'[r] = c /\ net'[r] = n
      /\ \A x \in Req : x # r => req'[x] = req[x] /\ cacher'[x] = cacher[x] /\ net'[x] = net[x]
  BY DEF Shapes
<1>2. ASSUME NEW x \in Req PROVE Current(req'[x], cacher'[x], net'[x], cached', u, server'[u])
  <2>1. CASE x = r
    BY <1>1, <2>1
  <2>2. CASE x # r
    <3>1. Current(req[x], cacher[x], net[x], cached, u, server[u])
      BY DEF FreshGood
    <3>2. FrontShape(x, req[x], field, server) /\ req[x] \in FrontRecord /\ cacher[x] \in CacherRecord
      BY DEF Shapes
    <3>3. ~(Handles(r, u) /\ Running(x) /\ req[x].mutates /\ req[x].url = u)
      BY <2>2 DEF Overtaken, Handles
    <3>4. ~(Handles(x, u) /\ Running(r) /\ req[r].mutates /\ req[r].url = u)
      BY <2>2 DEF Overtaken, Handles
    <3>5. ASSUME req[x].pc \in {"clearSync", "send"}, req[x].url = u PROVE u \notin DOMAIN cached'
      <4>1. Running(x) /\ req[x].mutates
        BY <3>2, <3>5 DEF FrontShape, Running, Ended
      <4>2. u \notin DOMAIN cached
        BY <3>1, <3>5 DEF Current
      <4> QED
        BY <3>3, <3>5, <4>1, <4>2 DEF Cached
    <3>6. CASE server'[u] = server[u]
      BY <1>1, <2>2, <3>1, <3>5, <3>6 DEF Current
    <3>7. CASE server'[u] # server[u]
      <4>1. ~Handles(x, u)
        BY <3>4, <3>7
      <4>2. /\ ~(req[x].pc \in {"race", "readAge", "clearSync", "send"} /\ req[x].url = u)
            /\ ~(cacher[x].pc \in {"wait", "evict", "put"} /\ cacher[x].url = u)
        BY <4>1 DEF Handles, Running, Ended
      <4> QED
        BY <1>1, <2>2, <4>2 DEF Current
    <3> QED
      BY <3>6, <3>7
  <2> QED
    BY <2>1, <2>2
<1>3. \A x \in Req : Current(req[x], cacher[x], net[x], cached, u, server[u])'
  BY <1>2 DEF Current
<1> QED
  BY <1>3 DEF FreshGood, Cached

\* An eviction holds one place.
Taken(c) == IF c.pc = "evict" THEN 1 ELSE 0

\* How the step of r changes the number of evictions under way.
LEMMA EvictingMoves ==
  ASSUME NEW r \in Req, setting \in Setting, Shapes, NEW c,
         cacher' = [cacher EXCEPT ![r] = c],
         NEW a, a = Cardinality(Evicting(cacher)), NEW b, b = Cardinality(Evicting(cacher'))
  PROVE  /\ a \in Nat /\ b \in Nat
         /\ b + Taken(cacher[r]) = a + Taken(c)
         /\ cacher[r].pc # "evict" /\ r \in setting.reqs => a + 1 <= Cardinality(setting.reqs)
<1> PICK A, B : A = Evicting(cacher) /\ B = Evicting(cacher')
  OBVIOUS
<1>1. IsFiniteSet(setting.reqs) /\ IsFiniteSet(Req)
  BY SettingFields, SettingAssumption
<1>2. \A x \in Req : CacherShape(x, req[x], cacher[x], field)
  BY DEF Shapes
<1>3. A \in SUBSET Req /\ B \in SUBSET Req /\ A \in SUBSET setting.reqs
  BY <1>2 DEF Evicting, CacherShape
<1>4. IsFiniteSet(A) /\ IsFiniteSet(B)
  BY <1>1, <1>3, FS_Subset
<1>5. Cardinality(A) \in Nat /\ Cardinality(B) \in Nat
  BY <1>4, FS_CardinalityType
<1>6. /\ r \in A <=> cacher[r].pc = "evict"
      /\ r \in B <=> c.pc = "evict"
      /\ B \ {r} = A \ {r}
  BY DEF Evicting, Shapes
<1>7. /\ Cardinality(A \ {r}) = IF r \in A THEN Cardinality(A) - 1 ELSE Cardinality(A)
      /\ Cardinality(B \ {r}) = IF r \in B THEN Cardinality(B) - 1 ELSE Cardinality(B)
  BY <1>4, FS_RemoveElement
<1>8. Cardinality(B) + Taken(cacher[r]) = Cardinality(A) + Taken(c)
  <2>1. PICK n, m, d : n = Cardinality(A) /\ m = Cardinality(B) /\ d = Cardinality(A \ {r})
    OBVIOUS
  <2>2. /\ n \in Nat /\ m \in Nat
        /\ d = IF r \in A THEN n - 1 ELSE n
        /\ d = IF r \in B THEN m - 1 ELSE m
    BY <1>5, <1>6, <1>7, <2>1
  <2>3. /\ Taken(cacher[r]) = IF r \in A THEN 1 ELSE 0
        /\ Taken(c) = IF r \in B THEN 1 ELSE 0
    BY <1>6 DEF Taken
  <2>4. m + Taken(cacher[r]) = n + Taken(c)
    BY <2>2, <2>3
  <2> QED
    BY <2>1, <2>4
<1>9. ASSUME cacher[r].pc # "evict", r \in setting.reqs
      PROVE  Cardinality(A) + 1 <= Cardinality(setting.reqs)
  <2>1. (A \cup {r}) \in SUBSET setting.reqs /\ r \notin A
    BY <1>3, <1>6, <1>9
  <2>2. Cardinality(A \cup {r}) = Cardinality(A) + 1
    BY <1>4, <2>1, FS_AddElement
  <2>3. Cardinality(A \cup {r}) <= Cardinality(setting.reqs)
    BY <1>1, <2>1, FS_Subset
  <2> QED
    BY <2>2, <2>3
<1> QED
  BY <1>5, <1>8, <1>9

\* The size, if r takes no place it had not, or takes one that is free.
LEMMA SizeMoves ==
  ASSUME NEW r \in Req, setting \in Setting, Shapes, Shapes', setting' = setting, SizeGood,
         NEW c, cacher' = [cacher EXCEPT ![r] = c],
         NEW k1, k1 = CurrentChain'.count,
         \/ k1 + Taken(c) <= CurrentChain.count + Taken(cacher[r])
         \/ c.pc # "evict" /\ cacher[r].pc # "evict" /\ r \in setting.reqs /\ k1 <= Room,
         savedLru' \in {savedLru, CurrentChain'}
  PROVE  SizeGood'
<1>1. PICK A, B, N, k : /\ A = Cardinality(Evicting(cacher)) /\ B = Cardinality(Evicting(cacher'))
                        /\ N = Cardinality(setting.reqs) /\ k = CurrentChain.count
  OBVIOUS
<1>2. /\ A \in Nat /\ B \in Nat /\ N \in Nat
      /\ B + Taken(cacher[r]) = A + Taken(c)
      /\ cacher[r].pc # "evict" /\ r \in setting.reqs => A + 1 <= N
  <2>1. /\ A \in Nat /\ B \in Nat
        /\ B + Taken(cacher[r]) = A + Taken(c)
        /\ cacher[r].pc # "evict" /\ r \in setting.reqs => A + 1 <= Cardinality(setting.reqs)
    BY <1>1, EvictingMoves
  <2>2. N \in Nat
    BY <1>1, SettingFields, FS_CardinalityType
  <2> QED
    BY <1>1, <2>1, <2>2
<1>3. Chained(CurrentChain) /\ Chained(CurrentChain')
  BY DEF Shapes, CurrentChain
<1>4. k \in Nat /\ k1 \in Nat
  BY <1>1, <1>3, ChainTypes
<1>5. Room \in Nat /\ Limit = Room + N - 1 /\ Limit' = Limit
  BY <1>1, SettingFields DEF Room, Limit, MaxSize
<1>6. k + A <= Limit /\ savedLru.count <= Limit
  BY <1>1 DEF SizeGood
<1>7. Taken(c) \in {0, 1} /\ Taken(cacher[r]) \in {0, 1}
  BY DEF Taken
<1>8. k1 + B <= Limit
  <2>1. CASE k1 + Taken(c) <= k + Taken(cacher[r])
    BY <1>2, <1>4, <1>5, <1>6, <1>7, <2>1
  <2>2. CASE c.pc # "evict" /\ cacher[r].pc # "evict" /\ r \in setting.reqs /\ k1 <= Room
    BY <1>2, <1>4, <1>5, <2>2 DEF Taken
  <2> QED
    BY <1>1, <2>1, <2>2
<1>9. savedLru'.count <= Limit
  <2>1. k1 <= Limit
    BY <1>2, <1>4, <1>5, <1>8
  <2> QED
    BY <1>6, <2>1
<1>10. Evicting(cacher)' = Evicting(cacher')
  BY DEF Evicting
<1> QED
  BY <1>1, <1>5, <1>8, <1>9, <1>10 DEF SizeGood

\* Everything at once: the step of r, with _lru as it was.
LEMMA Moves ==
  ASSUME NEW r \in Req, IInv, Races, Overtakes, setting' = setting, field' = field,
         NEW q \in FrontRecord, NEW c \in CacherRecord, NEW n \in FetchRecord,
         req' = [req EXCEPT ![r] = q], cacher' = [cacher EXCEPT ![r] = c], net' = [net EXCEPT ![r] = n],
         DOMAIN lists' = Req, \A x \in Req : Chained(lists'[x]), Chained(savedLru'),
         savedLru' \in {savedLru, CurrentChain'},
         server' \in [Url -> Version], \A u \in Url : server[u] <= server'[u],
         Cached' \subseteq Url, \A u \in Cached' : cached'[u] \in Version,
         FrontShape(r, q, field, server'), CacherShape(r, q, c, field), NetShape(q, c, n),
         \A u \in Url \ raced' :
           Local(u, req[r], cacher[r], Tracked(CurrentChain), Cached, Tracked(savedLru),
                 q, c, Tracked(CurrentChain'), Cached', Tracked(savedLru')),
         \A u \in Url \ (raced' \cup overtaken') :
           /\ u \in Cached' => cached'[u] = server'[u]
           /\ u \in Cached' \ Cached => Handles(r, u)
           /\ server'[u] # server[u] => Running(r) /\ req[r].mutates /\ req[r].url = u
           /\ Current(q, c, n, cached', u, server'[u]),
         raced' = {} => \/ CurrentChain'.count + Taken(c) <= CurrentChain.count + Taken(cacher[r])
                        \/ c.pc # "evict" /\ cacher[r].pc # "evict" /\ r \in setting.reqs
                           /\ CurrentChain'.count <= Room
  PROVE  IInv'
<1>1. raced \subseteq Url /\ overtaken \subseteq Url /\ setting \in Setting /\ Shapes
  BY DEF IInv, Watched
<1>2. /\ raced \subseteq raced' /\ overtaken \subseteq overtaken'
      /\ \A u \in Url : Contested(u)' \/ Orphaned(u)' => u \in raced'
      /\ \A u \in Url : Overtaken(u)' => u \in overtaken'
      /\ raced' \subseteq Url /\ overtaken' \subseteq Url
  BY <1>1, Histories DEF Races, Overtakes, Unsaved
<1>3. Shapes'
  <2>1. FrontShape(r, q, field', server') /\ CacherShape(r, q, c, field')
    OBVIOUS
  <2> QED
    BY <1>1, <2>1, ShapesMove
<1>4. Watched'
  BY <1>2 DEF Watched
<1>5. ASSUME NEW u \in Url \ raced'
      PROVE  StoreGood(u, Tracked(CurrentChain), Tracked(savedLru))'
  <2>1. PICK T, T1, S, S1 : /\ T = Tracked(CurrentChain) /\ T1 = Tracked(CurrentChain')
                            /\ S = Tracked(savedLru) /\ S1 = Tracked(savedLru')
    OBVIOUS
  <2>2. StoreGood(u, T, S) /\ ~Contested(u)
    BY <1>2, <2>1 DEF IInv, Watched
  <2>3. ~Contested(u)'
    BY <1>2
  <2>4. Local(u, req[r], cacher[r], T, Cached, S, q, c, T1, Cached', S1)
    BY <2>1
  <2>5. StoreGood(u, T1, S1)'
    BY <1>1, <2>2, <2>3, <2>4, StoreMoves
  <2> QED
    BY <2>1, <2>5 DEF StoreGood, Tracked
<1>6. ASSUME NEW u \in Url \ (raced' \cup overtaken')
      PROVE  FreshGood(u)'
  <2>1. FreshGood(u) /\ ~Overtaken(u)
    BY <1>2 DEF IInv, Watched
  <2> QED
    BY <1>1, <2>1, FreshMoves
<1>7. ASSUME raced' = {} PROVE SizeGood'
  <2>1. SizeGood
    BY <1>2, <1>7 DEF IInv
  <2>2. PICK k1 : k1 = CurrentChain'.count
    OBVIOUS
  <2>3. \/ k1 + Taken(c) <= CurrentChain.count + Taken(cacher[r])
        \/ c.pc # "evict" /\ cacher[r].pc # "evict" /\ r \in setting.reqs /\ k1 <= Room
    BY <1>7, <2>2
  <2> QED
    BY <1>1, <1>3, <2>1, <2>2, <2>3, SizeMoves
<1>8. setting' \in Setting
  BY <1>1
<1> QED
  BY <1>3, <1>4, <1>5, <1>6, <1>7, <1>8 DEF IInv

\* The invariant taken apart for one request and for one URL.
LEMMA AtRequest ==
  ASSUME NEW r \in Req, IInv
  PROVE  /\ req[r] \in FrontRecord /\ cacher[r] \in CacherRecord /\ net[r] \in FetchRecord
         /\ FrontShape(r, req[r], field, server) /\ CacherShape(r, req[r], cacher[r], field)
         /\ NetShape(req[r], cacher[r], net[r])
         /\ DOMAIN req = Req /\ req = [req EXCEPT ![r] = req[r]]
         /\ cacher = [cacher EXCEPT ![r] = cacher[r]] /\ net = [net EXCEPT ![r] = net[r]]
         /\ DOMAIN lists = Req /\ \A x \in Req : Chained(lists[x])
         /\ Chained(savedLru) /\ Chained(CurrentChain)
         /\ field \in Req => CurrentChain = lists[field]
         /\ field \in Req \cup {NoReq} /\ NoReq \notin Req
         /\ server \in [Url -> Version] /\ \A u \in Url : server[u] <= server[u]
         /\ Cached \subseteq Url /\ \A u \in Cached : cached[u] \in Version
         /\ Tracked(CurrentChain) \subseteq Url /\ CurrentChain.count \in Nat
<1>1. Shapes
  BY DEF IInv
<1>2. Chained(CurrentChain)
  BY <1>1 DEF CurrentChain, Shapes
<1>3. \A u \in Url : server[u] <= server[u]
  <2>1. ASSUME NEW u \in Url PROVE server[u] <= server[u]
    <3>1. server[u] \in Nat
      BY <1>1 DEF Shapes, Version
    <3> QED
      BY <3>1
  <2> QED
    BY <2>1
<1>4. field \in Req => CurrentChain = lists[field]
  BY SettingAssumption DEF CurrentChain
<1> QED
  BY <1>1, <1>2, <1>3, <1>4, ChainTypes, SettingAssumption DEF Shapes

\* A URL outside of the histories after a step was outside of them before.
LEMMA AtUrl ==
  ASSUME IInv, Races, Overtakes, NEW u \in Url \ raced'
  PROVE  /\ u \notin raced /\ StoreGood(u, Tracked(CurrentChain), Tracked(savedLru))
         /\ ~Contested(u) /\ ~Orphaned(u) /\ ~Contested(u)' /\ ~Orphaned(u)'
         /\ u \notin overtaken' => /\ u \notin overtaken /\ FreshGood(u)
                                   /\ ~Overtaken(u) /\ ~Overtaken(u)'
BY Histories DEF IInv, Watched

\* A URL of which the step of r changes neither the response nor the place in the chain.
LEMMA LocalSame ==
  ASSUME NEW r \in Req, NEW u \in Url, NEW T, NEW S, StoreGood(u, T, S),
         NEW T1, u \in T1 <=> u \in T, NEW S1, S1 = S \/ S1 = T1,
         NEW q, NEW c,
         \/ q = req[r]
         \/ /\ q.pc \notin {"clear", "purge"} /\ req[r].pc \notin {"clear", "purge"}
            /\ q.pc = "readAge" => q.url \in Cached
            /\ WritesFail \/ S1 = T1 \/ req[r].pc \notin {"clearSync", "purgeSync"},
         \/ c = cacher[r]
         \/ /\ c.pc = "sync" /\ cacher[r].pc = "stamp"
            /\ c.url = cacher[r].url /\ c.victim = cacher[r].victim
         \/ /\ c.pc \notin {"evict", "put", "stamp", "sync"} /\ cacher[r].pc # "evict"
            /\ WritesFail \/ cacher[r].pc # "put"
            /\ WritesFail \/ S1 = T1 \/ cacher[r].pc \notin {"stamp", "sync"}
  PROVE  Local(u, req[r], cacher[r], T, Cached, S, q, c, T1, Cached, S1)
<1>1. /\ Deletes(req[r], cacher[r], u) => u \notin T
      /\ HasDeleted(req[r], cacher[r], u) => u \notin Cached
      /\ req[r].pc = "readAge" /\ req[r].url = u => u \in Cached
      /\ Stores(cacher[r], u) => u \in T
  BY DEF StoreGood, Deleted, Deletes
<1>2. /\ Deletes(q, c, u) <=> Deletes(req[r], cacher[r], u)
      /\ HasDeleted(q, c, u) => HasDeleted(req[r], cacher[r], u)
      /\ q.pc = "readAge" /\ q.url = u => (req[r].pc = "readAge" /\ req[r].url = u) \/ u \in Cached
      /\ Stores(c, u) => Stores(cacher[r], u)
  BY DEF Deletes, HasDeleted, Stores
<1>3. ~WritesFail => /\ Stores(c, u) <=> Stores(cacher[r], u)
                     /\ S1 = T1 \/ (Changes(req[r], cacher[r], u) => Changes(q, c, u))
  BY DEF Stores, Changes
<1> QED
  BY <1>1, <1>2, <1>3 DEF Local

\* A step that leaves the cache, the chains and what is to be written alone.
LEMMA QuietKeeps ==
  ASSUME NEW r \in Req, IInv, Races, Overtakes, setting' = setting,
         UNCHANGED <<cached, lists, field>>, savedLru' \in {savedLru, CurrentChain},
         NEW q \in FrontRecord, NEW c \in CacherRecord, NEW n \in FetchRecord,
         req' = [req EXCEPT ![r] = q], cacher' = [cacher EXCEPT ![r] = c], net' = [net EXCEPT ![r] = n],
         server' \in [Url -> Version], \A u \in Url : server[u] <= server'[u],
         FrontShape(r, q, field, server'), CacherShape(r, q, c, field), NetShape(q, c, n),
         \/ q = req[r]
         \/ /\ q.pc \notin {"clear", "purge"} /\ req[r].pc \notin {"clear", "purge"}
            /\ q.pc = "readAge" => q.url \in Cached
            /\ WritesFail \/ savedLru' = CurrentChain \/ req[r].pc \notin {"clearSync", "purgeSync"},
         \/ c = cacher[r]
         \/ /\ c.pc = "sync" /\ cacher[r].pc = "stamp"
            /\ c.url = cacher[r].url /\ c.victim = cacher[r].victim
         \/ /\ c.pc \notin {"evict", "put", "stamp", "sync"} /\ cacher[r].pc # "evict"
            /\ WritesFail \/ cacher[r].pc # "put"
            /\ WritesFail \/ savedLru' = CurrentChain \/ cacher[r].pc \notin {"stamp", "sync"},
         \A u \in Url \ (raced' \cup overtaken') :
           /\ server'[u] # server[u] => /\ Running(r) /\ req[r].mutates /\ req[r].url = u
                                        /\ u \notin Cached
           /\ Current(q, c, n, cached, u, server'[u])
  PROVE  IInv'
<1>1. CurrentChain' = CurrentChain /\ Cached' = Cached /\ cached' = cached
  <2>1. field = NoReq => savedLru' = savedLru
    BY DEF CurrentChain
  <2> QED
    BY <2>1 DEF CurrentChain, Cached
<1>2. ASSUME NEW u \in Url \ raced'
      PROVE  Local(u, req[r], cacher[r], Tracked(CurrentChain), Cached, Tracked(savedLru),
                   q, c, Tracked(CurrentChain'), Cached', Tracked(savedLru'))
  <2>1. PICK T, S, S1 : T = Tracked(CurrentChain) /\ S = Tracked(savedLru) /\ S1 = Tracked(savedLru')
    OBVIOUS
  <2>2. StoreGood(u, T, S)
    BY <2>1, AtUrl
  <2>3. /\ S1 = S \/ S1 = T
        /\ savedLru' = CurrentChain => S1 = T
    BY <2>1
  <2>4. Local(u, req[r], cacher[r], T, Cached, S, q, c, T, Cached, S1)
    BY <2>2, <2>3, LocalSame
  <2> QED
    BY <1>1, <2>1, <2>4
<1>3. ASSUME NEW u \in Url \ (raced' \cup overtaken')
      PROVE  /\ u \in Cached' => cached'[u] = server'[u]
             /\ u \in Cached' \ Cached => Handles(r, u)
             /\ server'[u] # server[u] => Running(r) /\ req[r].mutates /\ req[r].url = u
             /\ Current(q, c, n, cached', u, server'[u])
  <2>1. u \in Cached => cached[u] = server[u]
    BY AtUrl DEF FreshGood
  <2> QED
    BY <1>1, <2>1
<1>4. CurrentChain'.count + Taken(c) <= CurrentChain.count + Taken(cacher[r])
  <2>1. Taken(c) = Taken(cacher[r]) /\ Taken(c) \in {0, 1}
    BY DEF Taken
  <2>2. CurrentChain.count \in Nat
    BY AtRequest
  <2> QED
    BY <1>1, <2>1, <2>2
<1> QED
  <2>1. /\ DOMAIN lists' = Req /\ \A x \in Req : Chained(lists'[x])
        /\ Chained(savedLru') /\ savedLru' \in {savedLru, CurrentChain'} /\ field' = field
        /\ Cached' \subseteq Url /\ \A u \in Cached' : cached'[u] \in Version
    BY <1>1, AtRequest
  <2> QED
    BY <1>2, <1>3, <1>4, <2>1, Moves

\* The same when the server has nothing new: what is held of u was current before.
LEMMA HeldKeeps ==
  ASSUME NEW r \in Req, IInv, Races, Overtakes, setting' = setting,
         UNCHANGED <<cached, lists, field, server>>, savedLru' \in {savedLru, CurrentChain},
         NEW q \in FrontRecord, NEW c \in CacherRecord, NEW n \in FetchRecord,
         req' = [req EXCEPT ![r] = q], cacher' = [cacher EXCEPT ![r] = c], net' = [net EXCEPT ![r] = n],
         FrontShape(r, q, field, server), CacherShape(r, q, c, field), NetShape(q, c, n),
         \/ q = req[r]
         \/ /\ q.pc \notin {"clear", "purge"} /\ req[r].pc \notin {"clear", "purge"}
            /\ q.pc = "readAge" => q.url \in Cached
            /\ WritesFail \/ savedLru' = CurrentChain \/ req[r].pc \notin {"clearSync", "purgeSync"},
         \/ c = cacher[r]
         \/ /\ c.pc = "sync" /\ cacher[r].pc = "stamp"
            /\ c.url = cacher[r].url /\ c.victim = cacher[r].victim
         \/ /\ c.pc \notin {"evict", "put", "stamp", "sync"} /\ cacher[r].pc # "evict"
            /\ WritesFail \/ cacher[r].pc # "put"
            /\ WritesFail \/ savedLru' = CurrentChain \/ cacher[r].pc \notin {"stamp", "sync"},
         \A u \in Url \ (raced' \cup overtaken') : Current(q, c, n, cached, u, server[u])
  PROVE  IInv'
<1>1. /\ server' \in [Url -> Version] /\ \A u \in Url : server[u] <= server'[u]
      /\ FrontShape(r, q, field, server')
  BY AtRequest
<1>2. ASSUME NEW u \in Url \ (raced' \cup overtaken')
      PROVE  /\ server'[u] # server[u] => /\ Running(r) /\ req[r].mutates /\ req[r].url = u
                                          /\ u \notin Cached
             /\ Current(q, c, n, cached, u, server'[u])
  OBVIOUS
<1> QED
  BY <1>1, <1>2, QuietKeeps

\* What r holds of a URL outside of the histories is current.
LEMMA HeldNow ==
  ASSUME NEW r \in Req, IInv, Races, Overtakes, NEW u \in Url \ (raced' \cup overtaken')
  PROVE  Current(req[r], cacher[r], net[r], cached, u, server[u])
BY AtUrl DEF FreshGood

\* A front ends, however.
LEMMA EndKeeps ==
  ASSUME NEW r \in Req, IInv, Races, Overtakes, setting' = setting,
         UNCHANGED <<cached, savedLru, lists, field, server, cacher>>,
         NEW how \in Ended, End(r, how),
         NEW n \in {net[r], NoFetch}, net' = [net EXCEPT ![r] = n],
         n.state = "none" \/ cacher[r].pc = "wait",
         req[r].pc \notin {"clear", "purge"},
         WritesFail \/ req[r].pc \notin {"clearSync", "purgeSync"}
  PROVE  IInv'
<1>1. PICK q : q = [NoRequest EXCEPT !.pc = how]
  OBVIOUS
<1>2. q \in FrontRecord /\ q.pc = how
  BY <1>1, Nothing DEF FrontRecord, FrontPc, NoRequest
<1>3. n \in FetchRecord /\ cacher[r] \in CacherRecord /\ cacher' = [cacher EXCEPT ![r] = cacher[r]]
  BY AtRequest, Nothing DEF IInv, Shapes
<1>4. req' = [req EXCEPT ![r] = q]
  BY <1>1 DEF End
<1>5. FrontShape(r, q, field, server) /\ CacherShape(r, q, cacher[r], field) /\ NetShape(q, cacher[r], n)
  BY <1>2, AtRequest DEF FrontShape, CacherShape, NetShape
<1>6. q.pc \notin {"clear", "purge", "readAge", "race", "clearSync", "send"}
  BY <1>2 DEF Ended
<1>7. ASSUME NEW u \in Url \ (raced' \cup overtaken')
      PROVE  Current(q, cacher[r], n, cached, u, server[u])
  BY <1>6, HeldNow DEF Current, NoFetch
<1> QED
  BY <1>2, <1>3, <1>4, <1>5, <1>6, <1>7, HeldKeeps

\* The endings of a request.
LEMMA EndingsKeep ==
  ASSUME NEW r \in Req, IInv, Races, Overtakes, setting' = setting,
         \/ MutationSyncFails(r) \/ MutationOffline(r) \/ PurgeSyncFails(r)
         \/ RaceRejected(r) \/ InlineAnswers(r) \/ FallBackAnswers(r)
  PROVE  IInv'
<1>1. PICK how, n : /\ UNCHANGED <<cached, savedLru, lists, field, server, cacher>>
                    /\ how \in Ended /\ End(r, how)
                    /\ n \in {net[r], NoFetch} /\ net' = [net EXCEPT ![r] = n]
                    /\ n.state = "none" \/ cacher[r].pc = "wait"
                    /\ req[r].pc \notin {"clear", "purge"}
                    /\ WritesFail \/ req[r].pc \notin {"clearSync", "purgeSync"}
  <2>1. net = [net EXCEPT ![r] = net[r]]
    BY DEF IInv, Shapes
  <2>2. /\ req[r].pc \in {"clearSync", "send", "inline"} => net[r].state = "none" \/ cacher[r].pc = "wait"
        /\ NoFetch.state = "none"
    BY AtRequest DEF NetShape, NoFetch
  <2>3. \A how \in {"failed", "offline", "answered"} : how \in Ended
    BY DEF Ended
  <2> USE <2>2 DEF Storage, Chains, World, FrontLeavesNet, Answer
  <2>4. CASE MutationSyncFails(r)
    BY <2>1, <2>3, <2>4 DEF MutationSyncFails
  <2>5. CASE MutationOffline(r)
    BY <2>1, <2>3, <2>5 DEF MutationOffline
  <2>6. CASE PurgeSyncFails(r)
    BY <2>1, <2>3, <2>6 DEF PurgeSyncFails
  <2>7. CASE RaceRejected(r)
    BY <2>1, <2>3, <2>7 DEF RaceRejected
  <2>8. CASE InlineAnswers(r)
    BY <2>1, <2>3, <2>8 DEF InlineAnswers
  <2>9. CASE FallBackAnswers(r)
    BY <2>1, <2>3, <2>9 DEF FallBackAnswers
  <2> QED
    BY <2>4, <2>5, <2>6, <2>7, <2>8, <2>9
<1> QED
  BY <1>1, EndKeeps

\* The network answers a mutating request: what anyone else holds of the URL is stale.
LEMMA MutationSentKeeps ==
  ASSUME NEW r \in Req, IInv, Races, Overtakes, setting' = setting, MutationSent(r)
  PROVE  IInv'
<1>1. /\ req[r].pc = "send" /\ server' = [server EXCEPT ![req[r].url] = @ + 1]
      /\ server[req[r].url] < MaxVersion
      /\ UNCHANGED <<cached, savedLru, lists, field, cacher, net>>
      /\ req' = [req EXCEPT ![r] = [NoRequest EXCEPT !.pc = "answered"]]
  BY DEF MutationSent, Storage, Chains, Answer, End
<1>2. PICK q, w : q = [NoRequest EXCEPT !.pc = "answered"] /\ w = req[r].url
  OBVIOUS
<1>3. q \in FrontRecord /\ q.pc = "answered"
  BY <1>2, Nothing DEF FrontRecord, FrontPc, NoRequest, Ended
<1>4. w \in Url /\ req[r].mutates /\ Running(r) /\ cacher[r].pc = "off"
  BY <1>1, <1>2, AtRequest DEF FrontShape, CacherShape, Ended, Running
<1>5. server' \in [Url -> Version] /\ \A u \in Url : server[u] <= server'[u]
  <2>1. server[w] \in Version /\ server[w] + 1 \in Version
    BY <1>1, <1>2, <1>4, AtRequest, SettingAssumption DEF Version
  <2>2. server' \in [Url -> Version]
    BY <1>1, <1>2, <2>1, AtRequest
  <2>3. ASSUME NEW u \in Url PROVE server[u] <= server'[u]
    BY <1>1, <1>2, <2>1, AtRequest DEF Version
  <2> QED
    BY <2>2, <2>3
<1>6. /\ FrontShape(r, q, field, server') /\ CacherShape(r, q, cacher[r], field)
      /\ NetShape(q, cacher[r], net[r])
  BY <1>1, <1>3, <1>4, AtRequest DEF FrontShape, CacherShape, NetShape, Ended
<1>7. ASSUME NEW u \in Url \ (raced' \cup overtaken')
      PROVE  /\ server'[u] # server[u] => /\ Running(r) /\ req[r].mutates /\ req[r].url = u
                                          /\ u \notin Cached
             /\ Current(q, cacher[r], net[r], cached, u, server'[u])
  <2>1. Current(req[r], cacher[r], net[r], cached, u, server[u])
    BY HeldNow
  <2>2. server'[u] # server[u] => w = u
    BY <1>1, <1>2, AtRequest
  <2>3. w = u => u \notin Cached
    BY <1>1, <1>2, <2>1 DEF Current, Cached
  <2> QED
    BY <1>2, <1>3, <1>4, <2>1, <2>2, <2>3 DEF Current
<1>8. /\ cacher' = [cacher EXCEPT ![r] = cacher[r]] /\ net' = [net EXCEPT ![r] = net[r]]
      /\ cacher[r] \in CacherRecord /\ net[r] \in FetchRecord
  BY <1>1, AtRequest DEF IInv, Shapes
<1> QED
  BY <1>1, <1>2, <1>3, <1>5, <1>6, <1>7, <1>8, QuietKeeps

\* The front goes on to another await, with the fetch n.
LEMMA GoesKeeps ==
  ASSUME NEW r \in Req, IInv, Races, Overtakes, setting' = setting,
         UNCHANGED <<cached, lists, field, server, cacher>>, savedLru' \in {savedLru, CurrentChain},
         NEW pc \in {"race", "awaitNet", "readAge"}, NEW ver \in Version,
         NEW q, q = [req[r] EXCEPT !.pc = pc, !.ver = ver], req' = [req EXCEPT ![r] = q],
         NEW n \in FetchRecord, net' = [net EXCEPT ![r] = n],
         req[r].pc = "match" \/ (req[r].pc = "purgeSync" /\ savedLru' = CurrentChain),
         pc = "race" => setting.strategy = "performance" /\ n = Fetching,
         pc # "race" => n = net[r],
         pc = "awaitNet" => setting.strategy = "freshness",
         pc = "readAge" => req[r].url \in Cached /\ ver = cached[req[r].url]
  PROVE  IInv'
<1>1. req[r] \in FrontRecord /\ q \in FrontRecord /\ q.pc = pc /\ q.url = req[r].url
  BY AtRequest DEF FrontRecord, FrontPc
<1>2. cacher[r] \in CacherRecord /\ cacher' = [cacher EXCEPT ![r] = cacher[r]]
  BY AtRequest DEF IInv, Shapes
<1>3. FrontShape(r, q, field, server)
  BY <1>1, AtRequest DEF FrontShape, FrontRecord, Ended
<1>4. CacherShape(r, q, cacher[r], field) /\ NetShape(q, cacher[r], n)
  BY <1>1, AtRequest DEF CacherShape, NetShape, Ended
<1>5. ASSUME NEW u \in Url \ (raced' \cup overtaken')
      PROVE  Current(q, cacher[r], n, cached, u, server[u])
  <2>1. Current(req[r], cacher[r], net[r], cached, u, server[u])
    BY HeldNow
  <2>2. u \in Cached => cached[u] = server[u]
    BY AtUrl DEF FreshGood
  <2>3. q.ver = ver
    BY <1>1 DEF FrontRecord
  <2>4. pc = "race" => cacher[r].pc = "off"
    BY AtRequest DEF CacherShape, Ended
  <2> QED
    BY <1>1, <2>1, <2>2, <2>3, <2>4 DEF Current, Fetching
<1> QED
  BY <1>1, <1>2, <1>3, <1>4, <1>5, HeldKeeps

\* loadFromCache() answers null: performance fetches, freshness waits for its fetch.
LEMMA NotInCacheKeeps ==
  ASSUME NEW r \in Req, IInv, Races, Overtakes, setting' = setting, NotInCache(r),
         UNCHANGED <<cached, lists, field, server, cacher>>, savedLru' \in {savedLru, CurrentChain},
         req[r].pc = "match" \/ (req[r].pc = "purgeSync" /\ savedLru' = CurrentChain)
  PROVE  IInv'
<1>1. /\ req[r] \in FrontRecord /\ net[r] \in FetchRecord /\ net = [net EXCEPT ![r] = net[r]]
      /\ DOMAIN req = Req
  BY AtRequest DEF IInv, Shapes
<1>2. PICK v : v = req[r].ver
  OBVIOUS
<1>3. ASSUME NEW pc \in {"race", "awaitNet"}, NEW n \in FetchRecord,
             req' = [req EXCEPT ![r].pc = pc], net' = [net EXCEPT ![r] = n],
             IF pc = "race" THEN Strategy = "performance" /\ n = Fetching
                            ELSE Strategy = "freshness" /\ n = net[r]
      PROVE  IInv'
  <2>1. PICK q : q = [req[r] EXCEPT !.pc = pc, !.ver = v]
    OBVIOUS
  <2>2. v \in Version /\ q = [req[r] EXCEPT !.pc = pc]
    BY <1>1, <1>2, <2>1 DEF FrontRecord
  <2>3. req' = [req EXCEPT ![r] = q]
    BY <1>1, <1>3, <2>2
  <2>4. /\ pc = "race" => setting.strategy = "performance" /\ n = Fetching
        /\ pc # "race" => n = net[r]
        /\ pc = "awaitNet" => setting.strategy = "freshness"
        /\ pc = "readAge" => req[r].url \in Cached /\ v = cached[req[r].url]
        /\ pc \in {"race", "awaitNet", "readAge"}
    BY <1>3 DEF Strategy
  <2>5. v \in Version /\ net' = [net EXCEPT ![r] = n]
    BY <1>3, <2>2
  <2> QED
    BY <1>1, <2>1, <2>3, <2>4, <2>5, GoesKeeps
<1>4. CASE Strategy = "performance" /\ GoTo(r, "race") /\ StartFetch(r)
  BY <1>3, <1>4, Nothing DEF GoTo, StartFetch
<1>5. CASE Strategy = "freshness" /\ GoTo(r, "awaitNet") /\ UNCHANGED net
  BY <1>1, <1>3, <1>5 DEF GoTo
<1> QED
  BY <1>4, <1>5 DEF NotInCache


\* The look into the cache.
LEMMA MatchKeeps ==
  ASSUME NEW r \in Req, IInv, Races, Overtakes, setting' = setting, Match(r)
  PROVE  IInv'
<1>1. /\ req[r].pc = "match" /\ UNCHANGED <<cached, savedLru, lists, field, server, cacher>>
      /\ req[r] \in FrontRecord /\ net[r] \in FetchRecord /\ net = [net EXCEPT ![r] = net[r]]
      /\ DOMAIN req = Req /\ req[r].url \in Url
  BY AtRequest DEF Match, Storage, Chains, World, IInv, Shapes, FrontShape, Ended
<1>2. CASE req[r].url \in Cached
  <2>1. PICK q, v : v = cached[req[r].url] /\ q = [req[r] EXCEPT !.pc = "readAge", !.ver = v]
    OBVIOUS
  <2>2. req' = [req EXCEPT ![r] = q] /\ net' = [net EXCEPT ![r] = net[r]]
    BY <1>1, <1>2, <2>1 DEF Match
  <2>3. v \in Version
    BY <1>2, <2>1, AtRequest
  <2> QED
    BY <1>1, <1>2, <2>1, <2>2, <2>3, GoesKeeps
<1>3. CASE req[r].url \notin Cached
  <2>1. NotInCache(r)
    BY <1>3 DEF Match
  <2> QED
    BY <1>1, <2>1, NotInCacheKeeps
<1> QED
  BY <1>2, <1>3

\* The network answers with what the server has.
LEMMA NetAnswersKeeps ==
  ASSUME NEW r \in Req, IInv, Races, Overtakes, setting' = setting, NetAnswers(r)
  PROVE  IInv'
<1>1. /\ UNCHANGED <<cached, savedLru, lists, field, server, req, cacher>>
      /\ net[r].state = "pending"
  BY DEF NetAnswers, Storage, Chains, World
<1>2. PICK how \in {"ok", "bad", "rejected"} :
        net' = [net EXCEPT ![r] = [state |-> how, ver |-> IF how # "ok" THEN 0
                         ELSE server[IF Running(r) THEN req[r].url ELSE cacher[r].url]]]
  BY DEF NetAnswers
<1>3. PICK n : n = [state |-> how, ver |-> IF how # "ok" THEN 0
                      ELSE server[IF Running(r) THEN req[r].url ELSE cacher[r].url]]
  OBVIOUS
<1>4. net' = [net EXCEPT ![r] = n]
  BY <1>2, <1>3
<1>5. /\ req' = [req EXCEPT ![r] = req[r]] /\ cacher' = [cacher EXCEPT ![r] = cacher[r]]
      /\ req[r] \in FrontRecord /\ cacher[r] \in CacherRecord
      /\ FrontShape(r, req[r], field, server) /\ CacherShape(r, req[r], cacher[r], field)
      /\ NetShape(req[r], cacher[r], net[r])
  BY <1>1, AtRequest DEF IInv, Shapes
<1>6. n \in FetchRecord
  <2>1. Running(r) => req[r].url \in Url
    BY <1>5 DEF FrontShape, Running
  <2>2. ~Running(r) => cacher[r].url \in Url
    BY <1>1, <1>5 DEF NetShape, CacherShape, Running, Ended
  <2>3. 0 \in Version /\ server \in [Url -> Version]
    BY AtRequest, SettingAssumption DEF Version
  <2> QED
    BY <1>3, <2>1, <2>2, <2>3 DEF FetchRecord
<1>7. NetShape(req[r], cacher[r], n)
  BY <1>1, <1>5 DEF NetShape
<1>8. ASSUME NEW u \in Url \ (raced' \cup overtaken')
      PROVE  Current(req[r], cacher[r], n, cached, u, server[u])
  <2>1. Current(req[r], cacher[r], net[r], cached, u, server[u])
    BY HeldNow
  <2>2. ASSUME n.state = "ok" PROVE n.ver = server[IF Running(r) THEN req[r].url ELSE cacher[r].url]
    BY <1>3, <2>2
  <2>3. /\ req[r].pc = "race" => Running(r)
        /\ cacher[r].pc = "wait" /\ Running(r) => cacher[r].url = req[r].url
    BY <1>5 DEF CacherShape, Running, Ended
  <2> QED
    BY <2>1, <2>2, <2>3 DEF Current
<1> QED
  BY <1>1, <1>4, <1>5, <1>6, <1>7, <1>8, HeldKeeps

\* The timeout: the front goes on or ends, the cacher is left to wait.
LEMMA RaceLostKeeps ==
  ASSUME NEW r \in Req, IInv, Races, Overtakes, setting' = setting, RaceLost(r)
  PROVE  IInv'
<1>1. /\ UNCHANGED <<cached, savedLru, lists, field, server, net>>
      /\ req[r].pc = "race" /\ DOMAIN req = Req
      /\ req[r] \in FrontRecord /\ net[r] \in FetchRecord /\ net' = [net EXCEPT ![r] = net[r]]
      /\ req[r].url \in Url /\ req[r].lru \in Req /\ field \in Req /\ r \in setting.reqs
      /\ cacher[r].pc = "off"
  BY AtRequest DEF RaceLost, Storage, Chains, World, IInv, Shapes, FrontShape, CacherShape, Ended
<1>2. PICK c : c = [NotCaching EXCEPT !.pc = "wait", !.url = req[r].url, !.lru = req[r].lru]
  OBVIOUS
<1>3. /\ c \in CacherRecord /\ c.pc = "wait" /\ c.url = req[r].url /\ c.lru = req[r].lru
      /\ cacher' = [cacher EXCEPT ![r] = c]
  BY <1>1, <1>2, Nothing DEF RaceLost, CacherWaits, CacherRecord, NotCaching
<1>4. PICK q : /\ q \in FrontRecord /\ req' = [req EXCEPT ![r] = q]
               /\ \/ q.pc = "answered"
                  \/ q.pc = "match" /\ q.url = req[r].url /\ setting.strategy = "freshness"
               /\ FrontShape(r, q, field, server)
  <2>1. CASE Strategy = "performance" /\ Answer(r)
    <3>1. PICK q : q = [NoRequest EXCEPT !.pc = "answered"]
      OBVIOUS
    <3>2. q \in FrontRecord /\ q.pc = "answered"
      BY <3>1, Nothing DEF FrontRecord, FrontPc, NoRequest, Ended
    <3> QED
      BY <2>1, <3>1, <3>2 DEF Answer, End, FrontShape, Ended
  <2>2. CASE Strategy = "freshness" /\ GoTo(r, "match")
    <3>1. PICK q : q = [req[r] EXCEPT !.pc = "match"]
      OBVIOUS
    <3>2. /\ q \in FrontRecord /\ q.pc = "match" /\ q.url = req[r].url /\ q.lru = req[r].lru
          /\ q.floor = req[r].floor
      BY <1>1, <3>1 DEF FrontRecord, FrontPc
    <3>3. FrontShape(r, q, field, server)
      BY <1>1, <3>2, AtRequest DEF FrontShape, Ended
    <3>4. req' = [req EXCEPT ![r] = q]
      BY <1>1, <2>2, <3>1 DEF GoTo
    <3> QED
      BY <2>2, <3>2, <3>3, <3>4 DEF Strategy
  <2> QED
    BY <2>1, <2>2 DEF RaceLost
<1>5. CacherShape(r, q, c, field) /\ NetShape(q, c, net[r])
  BY <1>1, <1>3, <1>4 DEF CacherShape, NetShape, Ended
<1>6. ASSUME NEW u \in Url \ (raced' \cup overtaken')
      PROVE  Current(q, c, net[r], cached, u, server[u])
  BY <1>1, <1>3, <1>4, HeldNow DEF Current
<1> QED
  BY <1>1, <1>3, <1>4, <1>5, <1>6, HeldKeeps

\* The cacher is over: the fetch was no good, or a write was rejected.
LEMMA CacherOverKeeps ==
  ASSUME NEW r \in Req, IInv, Races, Overtakes, setting' = setting,
         UNCHANGED <<cached, savedLru, lists, field, server, req>>, CacherEnds(r),
         NEW n \in {net[r], NoFetch}, net' = [net EXCEPT ![r] = n],
         n.state = "none" \/ Running(r) \/ cacher[r].pc # "wait",
         (WritesFail /\ cacher[r].pc \in {"put", "stamp", "sync"}) \/ cacher[r].pc = "wait"
  PROVE  IInv'
<1>1. /\ req' = [req EXCEPT ![r] = req[r]] /\ cacher' = [cacher EXCEPT ![r] = NotCaching]
      /\ req[r] \in FrontRecord /\ NotCaching \in CacherRecord /\ n \in FetchRecord
      /\ FrontShape(r, req[r], field, server)
  BY AtRequest, Nothing DEF IInv, Shapes, CacherEnds
<1>2. CacherShape(r, req[r], NotCaching, field) /\ NotCaching.pc = "off"
  BY DEF CacherShape, NotCaching
<1>3. NetShape(req[r], NotCaching, n)
  <2>1. NetShape(req[r], cacher[r], net[r]) /\ CacherShape(r, req[r], cacher[r], field)
    BY AtRequest
  <2>2. n.state # "none" => n = net[r]
    BY DEF NoFetch
  <2> QED
    BY <2>1, <2>2 DEF NetShape, CacherShape, Running, NoFetch, Ended
<1>4. ASSUME NEW u \in Url \ (raced' \cup overtaken')
      PROVE  Current(req[r], NotCaching, n, cached, u, server[u])
  BY <1>2, HeldNow DEF Current, NoFetch
<1> QED
  BY <1>1, <1>2, <1>3, <1>4, HeldKeeps

\* The steps that write the chain.
LEMMA SyncsKeep ==
  ASSUME NEW r \in Req, IInv, Races, Overtakes, setting' = setting,
         MutationSyncs(r) \/ PurgeSyncs(r) \/ CacherSyncs(r)
  PROVE  IInv'
<1>1. /\ req[r] \in FrontRecord /\ cacher[r] \in CacherRecord /\ net[r] \in FetchRecord
      /\ DOMAIN req = Req /\ req = [req EXCEPT ![r] = req[r]]
      /\ cacher = [cacher EXCEPT ![r] = cacher[r]] /\ net = [net EXCEPT ![r] = net[r]]
      /\ FrontShape(r, req[r], field, server) /\ CacherShape(r, req[r], cacher[r], field)
      /\ NetShape(req[r], cacher[r], net[r])
  BY AtRequest DEF IInv, Shapes
<1>2. CASE MutationSyncs(r)
  <2>1. /\ req[r].pc = "clearSync" /\ savedLru' = CurrentChain
        /\ UNCHANGED <<cached, lists, field, server, cacher, net>>
    BY <1>2 DEF MutationSyncs, WriteLru, Chains, World
  <2>2. PICK q : q = [req[r] EXCEPT !.pc = "send"]
    OBVIOUS
  <2>3. /\ q \in FrontRecord /\ q.pc = "send" /\ q.url = req[r].url /\ q.lru = req[r].lru
        /\ q.floor = req[r].floor /\ q.mutates = req[r].mutates
        /\ req' = [req EXCEPT ![r] = q]
    BY <1>1, <1>2, <2>2 DEF MutationSyncs, GoTo, FrontRecord, FrontPc
  <2>4. /\ FrontShape(r, q, field, server) /\ CacherShape(r, q, cacher[r], field)
        /\ NetShape(q, cacher[r], net[r])
    BY <1>1, <2>1, <2>3 DEF FrontShape, CacherShape, NetShape, Ended
  <2>5. ASSUME NEW u \in Url \ (raced' \cup overtaken')
        PROVE  Current(q, cacher[r], net[r], cached, u, server[u])
    BY <2>1, <2>3, HeldNow DEF Current
  <2>6. cacher' = [cacher EXCEPT ![r] = cacher[r]] /\ net' = [net EXCEPT ![r] = net[r]]
    BY <1>1, <2>1
  <2> QED
    BY <1>1, <2>1, <2>3, <2>4, <2>5, <2>6, HeldKeeps
<1>3. CASE PurgeSyncs(r)
  BY <1>3, NotInCacheKeeps DEF PurgeSyncs, WriteLru, Chains, World
<1>4. CASE CacherSyncs(r)
  <2>1. /\ cacher[r].pc = "sync" /\ savedLru' = CurrentChain
        /\ UNCHANGED <<cached, lists, field, server, req, net>>
        /\ cacher' = [cacher EXCEPT ![r] = NotCaching]
    BY <1>4 DEF CacherSyncs, WriteLru, Chains, World, CacherEnds
  <2>2. NotCaching \in CacherRecord /\ NotCaching.pc = "off"
    BY Nothing DEF NotCaching
  <2>3. CacherShape(r, req[r], NotCaching, field) /\ NetShape(req[r], NotCaching, net[r])
    BY <1>1, <2>1, <2>2 DEF CacherShape, NetShape
  <2>4. ASSUME NEW u \in Url \ (raced' \cup overtaken')
        PROVE  Current(req[r], NotCaching, net[r], cached, u, server[u])
    BY <2>2, HeldNow DEF Current
  <2>5. req' = [req EXCEPT ![r] = req[r]] /\ net' = [net EXCEPT ![r] = net[r]]
    BY <1>1, <2>1
  <2> QED
    BY <1>1, <2>1, <2>2, <2>3, <2>4, <2>5, HeldKeeps
<1> QED
  BY <1>2, <1>3, <1>4

\* The LruList a request works with, for a URL that was not raced, is the one in _lru.
LEMMA OwnList ==
  ASSUME NEW r \in Req, IInv, NEW u \in Url, u \notin raced
  PROVE  /\ Running(r) /\ req[r].pc # "readLru" /\ req[r].url = u =>
              req[r].lru = field /\ field \in Req
         /\ cacher[r].pc # "off" /\ u \in {cacher[r].url, cacher[r].victim} =>
              cacher[r].lru = field /\ field \in Req
<1>1. ~Orphaned(u)
  BY DEF IInv, Watched
<1>2. FrontShape(r, req[r], field, server) /\ CacherShape(r, req[r], cacher[r], field) /\ NoReq \notin Req
  BY AtRequest
<1> QED
  BY <1>1, <1>2 DEF Orphaned, FrontShape, CacherShape, Running

\* A chain that one request has changed.
LEMMA ListChanged ==
  ASSUME NEW owner \in Req, IInv, NEW chain, Chained(chain),
         lists' = [lists EXCEPT ![owner] = chain], UNCHANGED <<field, savedLru>>
  PROVE  /\ DOMAIN lists' = Req /\ \A x \in Req : Chained(lists'[x])
         /\ CurrentChain' = IF field = owner THEN chain ELSE CurrentChain
<1>1. DOMAIN lists = Req /\ \A x \in Req : Chained(lists[x])
  BY AtRequest
<1>2. owner # NoReq
  BY SettingAssumption
<1>3. DOMAIN lists' = Req /\ \A x \in Req : Chained(lists'[x])
  BY <1>1
<1>4. field = NoReq \/ field \in Req
  BY AtRequest
<1> QED
  BY <1>1, <1>2, <1>3, <1>4 DEF CurrentChain

\* A step that changes one chain, and neither the cache nor the server.
LEMMA ListMoves ==
  ASSUME NEW r \in Req, IInv, Races, Overtakes, setting' = setting,
         NEW owner \in Req, NEW chain, Chained(chain), lists' = [lists EXCEPT ![owner] = chain],
         UNCHANGED <<cached, savedLru, field, server>>,
         NEW q \in FrontRecord, NEW c \in CacherRecord, NEW n \in FetchRecord,
         req' = [req EXCEPT ![r] = q], cacher' = [cacher EXCEPT ![r] = c], net' = [net EXCEPT ![r] = n],
         FrontShape(r, q, field, server), CacherShape(r, q, c, field), NetShape(q, c, n),
         \A u \in Url \ raced' :
           Local(u, req[r], cacher[r], Tracked(CurrentChain), Cached, Tracked(savedLru),
                 q, c, Tracked(CurrentChain'), Cached, Tracked(savedLru)),
         \A u \in Url \ (raced' \cup overtaken') : Current(q, c, n, cached, u, server[u]),
         raced' = {} => \/ CurrentChain'.count + Taken(c) <= CurrentChain.count + Taken(cacher[r])
                        \/ c.pc # "evict" /\ cacher[r].pc # "evict" /\ r \in setting.reqs
                           /\ CurrentChain'.count <= Room
  PROVE  IInv'
<1>1. /\ DOMAIN lists' = Req /\ \A x \in Req : Chained(lists'[x])
      /\ server' \in [Url -> Version] /\ \A u \in Url : server[u] <= server'[u]
      /\ Cached' \subseteq Url /\ \A u \in Cached' : cached'[u] \in Version
      /\ Chained(savedLru') /\ savedLru' \in {savedLru, CurrentChain'} /\ field' = field
      /\ FrontShape(r, q, field, server')
  BY AtRequest, ListChanged DEF Cached
<1>2. ASSUME NEW u \in Url \ raced'
      PROVE  Local(u, req[r], cacher[r], Tracked(CurrentChain), Cached, Tracked(savedLru),
                   q, c, Tracked(CurrentChain'), Cached', Tracked(savedLru'))
  BY DEF Cached
<1>3. ASSUME NEW u \in Url \ (raced' \cup overtaken')
      PROVE  /\ u \in Cached' => cached'[u] = server'[u]
             /\ u \in Cached' \ Cached => Handles(r, u)
             /\ server'[u] # server[u] => Running(r) /\ req[r].mutates /\ req[r].url = u
             /\ Current(q, c, n, cached', u, server'[u])
  BY AtUrl DEF FreshGood, Cached
<1> QED
  BY <1>1, <1>2, <1>3, Moves

\* The response is too old: from here on its deletion is under way.
LEMMA AgeRejectedKeeps ==
  ASSUME NEW r \in Req, IInv, Races, Overtakes, setting' = setting, AgeRejected(r)
  PROVE  IInv'
<1>1. /\ req[r] \in FrontRecord /\ cacher[r] \in CacherRecord /\ net[r] \in FetchRecord
      /\ DOMAIN req = Req /\ cacher = [cacher EXCEPT ![r] = cacher[r]] /\ net = [net EXCEPT ![r] = net[r]]
      /\ FrontShape(r, req[r], field, server) /\ CacherShape(r, req[r], cacher[r], field)
      /\ NetShape(req[r], cacher[r], net[r]) /\ \A x \in Req : Chained(lists[x])
  BY AtRequest
<1>2. PICK w, o, chain, q :
        /\ w = req[r].url /\ o = req[r].lru /\ chain = Remove(lists[o], w)
        /\ q = [req[r] EXCEPT !.pc = "purge", !.todo = Part]
  OBVIOUS
<1>3. /\ req[r].pc = "readAge" /\ lists' = [lists EXCEPT ![o] = chain]
      /\ req' = [req EXCEPT ![r] = q]
      /\ UNCHANGED <<cached, savedLru, field, server, cacher, net>>
  BY <1>1, <1>2 DEF AgeRejected, SetChain, Purging, Storage, World
<1>4. /\ q \in FrontRecord /\ q.pc = "purge" /\ q.url = w /\ q.lru = o /\ q.floor = req[r].floor
      /\ q.todo = Part
  BY <1>1, <1>2 DEF FrontRecord, FrontPc
<1>5. w \in Url /\ o \in Req /\ field \in Req /\ Running(r)
  BY <1>1, <1>2, <1>3 DEF FrontShape, Running, Ended
<1>6. /\ Chained(chain) /\ Tracked(chain) = Tracked(lists[o]) \ {w} /\ chain.count <= lists[o].count
      /\ lists[o].count \in Nat /\ chain.count \in Nat
  BY <1>1, <1>2, <1>5, ChainRemove, ChainTypes
<1>7. /\ DOMAIN lists' = Req /\ \A x \in Req : Chained(lists'[x])
      /\ CurrentChain' = IF field = o THEN chain ELSE CurrentChain
  BY <1>3, <1>5, <1>6, ListChanged
<1>8. FrontShape(r, q, field, server) /\ CacherShape(r, q, cacher[r], field) /\ NetShape(q, cacher[r], net[r])
  BY <1>1, <1>2, <1>3, <1>4 DEF FrontShape, CacherShape, NetShape, Ended
<1>9. CurrentChain = lists[field]
  BY <1>5, AtRequest
<1>10. ASSUME NEW u \in Url \ raced'
       PROVE  Local(u, req[r], cacher[r], Tracked(CurrentChain), Cached, Tracked(savedLru),
                    q, cacher[r], Tracked(CurrentChain'), Cached, Tracked(savedLru))
  <2>1. PICK T, S, T1 : T = Tracked(CurrentChain) /\ S = Tracked(savedLru) /\ T1 = Tracked(CurrentChain')
    OBVIOUS
  <2>2. StoreGood(u, T, S) /\ u \notin raced
    BY <2>1, AtUrl
  <2>3. u \in T1 <=> u \in T /\ u # w
    <3>1. CASE u = w
      <4>1. o = field
        BY <1>2, <1>3, <1>5, <2>2, <3>1, OwnList
      <4> QED
        BY <1>6, <1>7, <2>1, <3>1, <4>1
    <3>2. CASE u # w
      BY <1>6, <1>7, <1>9, <2>1, <3>2
    <3> QED
      BY <3>1, <3>2
  <2>4. /\ cacher[r].pc = "evict" /\ cacher[r].victim = u => u \notin T
        /\ cacher[r].pc = "evict" /\ cacher[r].victim = u /\ "cache" \notin cacher[r].todo => u \notin Cached
        /\ Stores(cacher[r], u) => u \in T
    BY <2>2 DEF StoreGood, Deleted, HasDeleted
  <2>5. Stores(cacher[r], u) => u # w
    <3>1. ~Contested(u)' /\ req'[r] = q /\ cacher' = cacher
      BY <1>1, <1>3, AtUrl
    <3>2. u = w => Deleted(u)'
      BY <1>4, <3>1 DEF Deleted
    <3>3. Stores(cacher[r], u) => Used(u)'
      BY <3>1 DEF Used, Stores
    <3> QED
      BY <3>1, <3>2, <3>3 DEF Contested
  <2>6. Local(u, req[r], cacher[r], T, Cached, S, q, cacher[r], T1, Cached, S)
    BY <1>2, <1>3, <1>4, <2>3, <2>4, <2>5 DEF Local, Deletes, HasDeleted, Stores, Changes, Part
  <2> QED
    BY <2>1, <2>6
<1>11. ASSUME NEW u \in Url \ (raced' \cup overtaken')
       PROVE  Current(q, cacher[r], net[r], cached, u, server[u])
  BY <1>3, <1>4, HeldNow DEF Current
<1>12. CurrentChain'.count + Taken(cacher[r]) <= CurrentChain.count + Taken(cacher[r])
  <2>1. CurrentChain'.count <= CurrentChain.count
    BY <1>6, <1>7, <1>9, AtRequest
  <2>2. Taken(cacher[r]) \in Nat /\ CurrentChain.count \in Nat /\ CurrentChain'.count \in Nat
    BY <1>6, <1>7, AtRequest DEF Taken
  <2> QED
    BY <2>1, <2>2
<1>13. cacher' = [cacher EXCEPT ![r] = cacher[r]] /\ net' = [net EXCEPT ![r] = net[r]]
  BY <1>1, <1>3
<1> QED
  BY <1>1, <1>3, <1>4, <1>5, <1>6, <1>8, <1>10, <1>11, <1>12, <1>13, ListMoves

\* The answer from the cache, which marks the URL as used.
LEMMA AgeAcceptedKeeps ==
  ASSUME NEW r \in Req, IInv, Races, Overtakes, setting' = setting, AgeAccepted(r)
  PROVE  IInv'
<1>1. /\ req[r] \in FrontRecord /\ cacher[r] \in CacherRecord /\ net[r] \in FetchRecord
      /\ DOMAIN req = Req /\ cacher = [cacher EXCEPT ![r] = cacher[r]] /\ net = [net EXCEPT ![r] = net[r]]
      /\ FrontShape(r, req[r], field, server) /\ CacherShape(r, req[r], cacher[r], field)
      /\ NetShape(req[r], cacher[r], net[r]) /\ \A x \in Req : Chained(lists[x])
  BY AtRequest
<1>2. PICK w, o, chain, q :
        /\ w = req[r].url /\ o = req[r].lru /\ chain = Accessed(lists[o], w)
        /\ q = [NoRequest EXCEPT !.pc = "answered"]
  OBVIOUS
<1>3. /\ req[r].pc = "readAge" /\ lists' = [lists EXCEPT ![o] = chain]
      /\ req' = [req EXCEPT ![r] = q]
      /\ UNCHANGED <<cached, savedLru, field, server>>
  BY <1>1, <1>2 DEF AgeAccepted, SetChain, Answer, End, Storage, World
<1>4. q \in FrontRecord /\ q.pc = "answered"
  BY <1>2, Nothing DEF FrontRecord, FrontPc, NoRequest, Ended
<1>5. w \in Url /\ o \in Req /\ field \in Req /\ r \in setting.reqs /\ CurrentChain = lists[field]
  BY <1>1, <1>2, <1>3, AtRequest DEF FrontShape, Ended
<1>6. /\ Chained(chain) /\ Tracked(chain) = Tracked(lists[o]) \cup {w}
      /\ chain.count = IF w \in Tracked(lists[o]) THEN lists[o].count ELSE lists[o].count + 1
      /\ lists[o].count \in Nat
  BY <1>1, <1>2, <1>5, ChainAccessed, ChainTypes
<1>7. CurrentChain' = IF field = o THEN chain ELSE CurrentChain
  BY <1>3, <1>5, <1>6, ListChanged
<1>8. PICK c, n :
        /\ c \in CacherRecord /\ cacher' = [cacher EXCEPT ![r] = c]
        /\ n \in FetchRecord /\ net' = [net EXCEPT ![r] = n]
        /\ \/ c = cacher[r] /\ n \in {net[r], NoFetch} /\ (n.state = "none" \/ c.pc = "wait")
           \/ /\ c.pc = "wait" /\ c.url = w /\ c.lru = o /\ n = Fetching
              /\ cacher[r].pc = "off"
  <2>1. CASE StartFetch(r) /\ CacherWaits(r) /\ Strategy = "performance"
    <3>1. PICK c : c = [NotCaching EXCEPT !.pc = "wait", !.url = w, !.lru = o]
      OBVIOUS
    <3>2. c \in CacherRecord /\ c.pc = "wait" /\ c.url = w /\ c.lru = o
      BY <1>5, <3>1, Nothing DEF CacherRecord, NotCaching
    <3>3. cacher[r].pc = "off"
      BY <1>1, <1>3, <2>1 DEF CacherShape, Strategy, Ended
    <3>4. cacher' = [cacher EXCEPT ![r] = c] /\ net' = [net EXCEPT ![r] = Fetching]
      BY <1>2, <2>1, <3>1 DEF CacherWaits, StartFetch
    <3> QED
      BY <3>2, <3>3, <3>4, Nothing
  <2>2. CASE FrontLeavesNet(r) /\ UNCHANGED cacher
    <3>1. cacher[r].pc = "wait" => net' = [net EXCEPT ![r] = net[r]]
      BY <1>1, <2>2 DEF FrontLeavesNet
    <3>2. cacher[r].pc # "wait" => net' = [net EXCEPT ![r] = NoFetch]
      BY <2>2 DEF FrontLeavesNet
    <3>3. cacher' = [cacher EXCEPT ![r] = cacher[r]] /\ NoFetch.state = "none"
      BY <1>1, <2>2 DEF NoFetch
    <3> QED
      BY <1>1, <3>1, <3>2, <3>3, Nothing
  <2> QED
    BY <2>1, <2>2 DEF AgeAccepted
<1>9. FrontShape(r, q, field, server) /\ CacherShape(r, q, c, field) /\ NetShape(q, c, n)
  BY <1>1, <1>4, <1>5, <1>8 DEF FrontShape, CacherShape, NetShape, Ended
<1>10. ASSUME NEW u \in Url \ raced'
       PROVE  Tracked(CurrentChain') = Tracked(CurrentChain) \/ u # w
  <2>1. CASE u = w
    <3>1. StoreGood(w, Tracked(CurrentChain), Tracked(savedLru)) /\ ~Contested(w) /\ w \notin raced
      BY <2>1, AtUrl
    <3>2. Used(w)
      BY <1>2, <1>3 DEF Used
    <3>3. w \in Tracked(CurrentChain)
      BY <1>2, <1>3, <3>1, <3>2 DEF StoreGood, Contested
    <3> QED
      BY <1>5, <1>6, <1>7, <3>3
  <2> QED
    BY <2>1
<1>11. ASSUME NEW u \in Url \ raced'
       PROVE  Local(u, req[r], cacher[r], Tracked(CurrentChain), Cached, Tracked(savedLru),
                    q, c, Tracked(CurrentChain'), Cached, Tracked(savedLru))
  <2>1. PICK T, S, T1 : T = Tracked(CurrentChain) /\ S = Tracked(savedLru) /\ T1 = Tracked(CurrentChain')
    OBVIOUS
  <2>2. StoreGood(u, T, S)
    BY <2>1, AtUrl
  <2>3. u \in T1 <=> u \in T
    BY <1>5, <1>6, <1>7, <1>10, <2>1
  <2>4. Local(u, req[r], cacher[r], T, Cached, S, q, c, T1, Cached, S)
    BY <1>3, <1>4, <1>8, <2>2, <2>3, LocalSame
  <2> QED
    BY <2>1, <2>4
<1>12. ASSUME NEW u \in Url \ (raced' \cup overtaken')
       PROVE  Current(q, c, n, cached, u, server[u])
  BY <1>4, <1>8, HeldNow DEF Current, Fetching, NoFetch
<1>13. ASSUME raced' = {}
       PROVE  CurrentChain'.count + Taken(c) <= CurrentChain.count + Taken(cacher[r])
  <2>1. CurrentChain'.count = CurrentChain.count
    <3>1. CASE field = o
      <4>1. Tracked(CurrentChain') = Tracked(CurrentChain)
        BY <1>5, <1>10, <1>13
      <4> QED
        BY <1>5, <1>6, <1>7, <3>1, <4>1
    <3> QED
      BY <1>7, <3>1
  <2>2. Taken(c) = Taken(cacher[r]) /\ Taken(c) \in {0, 1} /\ CurrentChain.count \in Nat
    BY <1>8, AtRequest DEF Taken
  <2> QED
    BY <2>1, <2>2
<1> QED
  BY <1>3, <1>4, <1>5, <1>6, <1>8, <1>9, <1>11, <1>12, <1>13, ListMoves

\* cacheResponse() up to its first await.
LEMMA BeginCachingKeeps ==
  ASSUME NEW r \in Req, IInv, Races, Overtakes, setting' = setting,
         NEW w \in Url, NEW o \in Req, BeginCaching(r, w, o),
         field \in Req, r \in setting.reqs, cacher[r].pc \in {"off", "wait"},
         UNCHANGED <<cached, savedLru, field, server>>,
         NEW q \in FrontRecord, req' = [req EXCEPT ![r] = q], FrontShape(r, q, field, server),
         q = req[r] \/ (q.pc = "inline" /\ req[r].pc = "race"),
         q.pc \notin Ended =>
           /\ w = q.url
           /\ \/ q.pc = "inline"
              \/ /\ setting.strategy = "freshness"
                 /\ q.pc \in {"match", "readAge", "purge", "purgeSync", "awaitNet"},
         NEW n \in {net[r], NoFetch}, net' = [net EXCEPT ![r] = n],
         n.state = "none" \/ (q.pc \notin Ended /\ q.pc # "inline"),
         \A u \in Url \ (raced' \cup overtaken') : u = w => net[r].ver = server[u]
  PROVE  IInv'
<1>1. /\ req[r] \in FrontRecord /\ cacher[r] \in CacherRecord /\ net[r] \in FetchRecord
      /\ DOMAIN cacher = Req /\ NoFetch \in FetchRecord
      /\ \A x \in Req : Chained(lists[x])
      /\ CurrentChain = lists[field] /\ Chained(CurrentChain)
  BY AtRequest, Nothing DEF IInv, Shapes
<1>2. n \in FetchRecord
  BY <1>1
<1>3. PICK old, v : old = lists[o] /\ v = Victim(old)
  OBVIOUS
<1>4. Chained(old) /\ old.count \in Nat /\ Tracked(old) \subseteq Url
  BY <1>1, <1>3, ChainTypes
\* What either way has in common.
<1>5. ASSUME NEW c \in CacherRecord, cacher' = [cacher EXCEPT ![r] = c],
             c.pc \in {"evict", "put"}, c.url = w, c.lru = o, c.ver = net[r].ver,
             NEW chain, Chained(chain), lists' = [lists EXCEPT ![o] = chain],
             \/ /\ c.pc = "evict" /\ c.victim = v /\ v # NoUrl /\ c.todo = Part
                /\ Tracked(chain) = Tracked(old) \ {v} /\ chain.count = old.count - 1
             \/ /\ c.pc = "put" /\ c.victim = NoUrl
                /\ Tracked(chain) = Tracked(old) \cup {w} /\ chain.count <= Room
      PROVE  IInv'
  <2>1. CurrentChain' = IF field = o THEN chain ELSE CurrentChain
    BY <1>5, ListChanged
  <2>2. CacherShape(r, q, c, field) /\ NetShape(q, c, n)
    BY <1>5 DEF CacherShape, NetShape, Ended
  <2>3. ASSUME NEW u \in Url \ raced', u \in {c.url, c.victim} PROVE o = field
    <3>1. ~Orphaned(u)' /\ cacher'[r] = c
      BY <1>1, <1>5, AtUrl
    <3> QED
      BY <1>5, <2>3, <3>1 DEF Orphaned
  <2>4. ASSUME NEW u \in Url \ raced'
        PROVE  Local(u, req[r], cacher[r], Tracked(CurrentChain), Cached, Tracked(savedLru),
                     q, c, Tracked(CurrentChain'), Cached, Tracked(savedLru))
    <3>1. PICK T, S, T1 : T = Tracked(CurrentChain) /\ S = Tracked(savedLru) /\ T1 = Tracked(CurrentChain')
      OBVIOUS
    <3>2. StoreGood(u, T, S) /\ ~Contested(u)'
      BY <3>1, AtUrl
    <3>3. \/ c.pc = "evict" /\ (u \in T1 <=> u \in T /\ u # v)
          \/ c.pc = "put" /\ (u \in T1 <=> u \in T \/ u = w)
      <4>1. CASE field = o
        BY <1>1, <1>3, <1>5, <2>1, <3>1, <4>1
      <4>2. CASE field # o
        BY <1>5, <2>1, <2>3, <3>1, <4>2
      <4> QED
        BY <4>1, <4>2
    <3>4. /\ req[r].pc \in {"clear", "purge"} /\ req[r].url = u => u \notin T
          /\ req[r].pc \in {"clear", "purge"} /\ req[r].url = u /\ "cache" \notin req[r].todo
               => u \notin Cached
          /\ req[r].pc = "readAge" /\ req[r].url = u => u \in Cached
      BY <3>2 DEF StoreGood, Deleted, HasDeleted
    <3>5. c.pc = "put" /\ q.pc \in {"clear", "purge"} /\ q.url = u => u # w
      <4>1. req'[r] = q /\ cacher'[r] = c
        BY <1>1, <1>5, AtRequest
      <4>2. q.pc \in {"clear", "purge"} /\ q.url = u => Deleted(u)'
        BY <4>1 DEF Deleted
      <4>3. c.pc = "put" /\ u = w => Used(u)'
        BY <1>5, <4>1 DEF Used
      <4> QED
        BY <3>2, <4>2, <4>3 DEF Contested
    <3>6. Local(u, req[r], cacher[r], T, Cached, S, q, c, T1, Cached, S)
      <4>1. CASE c.pc = "evict"
        BY <1>5, <3>3, <3>4, <4>1 DEF Local, Deletes, HasDeleted, Stores, Changes, Part
      <4>2. CASE c.pc = "put"
        BY <1>5, <3>3, <3>4, <3>5, <4>2 DEF Local, Deletes, HasDeleted, Stores, Uses, Changes
      <4> QED
        BY <1>5, <4>1, <4>2
    <3> QED
      BY <3>1, <3>6
  <2>5. ASSUME NEW u \in Url \ (raced' \cup overtaken')
        PROVE  Current(q, c, n, cached, u, server[u])
    BY <1>5, HeldNow DEF Current, NoFetch
  <2>6. ASSUME raced' = {}
        PROVE  \/ CurrentChain'.count + Taken(c) <= CurrentChain.count + Taken(cacher[r])
               \/ /\ c.pc # "evict" /\ cacher[r].pc # "evict" /\ r \in setting.reqs
                  /\ CurrentChain'.count <= Room
    <3>1. o = field
      BY <1>5, <2>3, <2>6
    <3>2. CurrentChain' = chain /\ CurrentChain = old
      BY <1>1, <1>3, <2>1, <3>1
    <3> QED
      BY <1>4, <1>5, <3>2 DEF Taken
  <2> QED
    BY <1>2, <1>5, <2>2, <2>4, <2>5, <2>6, ListMoves
<1>6. CASE Full(old) /\ v # NoUrl
  <2>1. PICK c : c = [NotCaching EXCEPT !.url = w, !.lru = o, !.ver = net[r].ver, !.pc = "evict",
                                        !.victim = v, !.todo = Part]
    OBVIOUS
  <2>2. /\ Chained(Pop(old)) /\ Tracked(Pop(old)) = Tracked(old) \ {v}
        /\ v \in Tracked(old) /\ Pop(old).count = old.count - 1
    BY <1>3, <1>4, <1>6, ChainPop
  <2>3. /\ c \in CacherRecord /\ c.pc = "evict" /\ c.url = w /\ c.lru = o /\ c.ver = net[r].ver
        /\ c.victim = v /\ c.todo = Part
    BY <1>1, <1>4, <2>1, <2>2, Nothing DEF CacherRecord, FetchRecord, NotCaching
  <2>4. lists' = [lists EXCEPT ![o] = Pop(old)] /\ cacher' = [cacher EXCEPT ![r] = c]
    BY <1>1, <1>3, <1>6, <2>1 DEF BeginCaching, SetChain
  <2> QED
    BY <1>5, <1>6, <2>2, <2>3, <2>4
<1>7. CASE ~(Full(old) /\ v # NoUrl)
  <2>1. PICK c : c = [NotCaching EXCEPT !.url = w, !.lru = o, !.ver = net[r].ver, !.pc = "put"]
    OBVIOUS
  <2>2. /\ Chained(Accessed(old, w)) /\ Tracked(Accessed(old, w)) = Tracked(old) \cup {w}
        /\ Accessed(old, w).count <= old.count + 1 /\ Accessed(old, w).count \in Nat
    BY <1>4, ChainAccessed, ChainTypes
  <2>3. /\ c \in CacherRecord /\ c.pc = "put" /\ c.url = w /\ c.lru = o /\ c.ver = net[r].ver
        /\ c.victim = NoUrl
    BY <1>1, <2>1, Nothing DEF CacherRecord, FetchRecord, NotCaching
  <2>4. lists' = [lists EXCEPT ![o] = Accessed(old, w)] /\ cacher' = [cacher EXCEPT ![r] = c]
    BY <1>1, <1>3, <1>7, <2>1 DEF BeginCaching, SetChain
  <2>5. Accessed(old, w).count <= Room
    <3>1. setting.maxSize \in Nat
      BY SettingFields DEF IInv
    <3>2. PICK k, room : k = Accessed(old, w).count /\ room = Room
      OBVIOUS
    <3>3. room \in Nat /\ 1 <= room /\ setting.maxSize <= room
      BY <3>1, <3>2 DEF Room, MaxSize
    <3>4. CASE v = NoUrl
      <4>1. old.count = 0
        BY <1>3, <1>4, <3>4, ChainVictim
      <4> QED
        BY <2>2, <3>2, <3>3, <4>1
    <3>5. CASE ~Full(old)
      BY <1>4, <2>2, <3>1, <3>2, <3>3, <3>5 DEF MaxSize, Full
    <3> QED
      BY <1>7, <3>4, <3>5
  <2> QED
    BY <1>5, <2>2, <2>3, <2>4, <2>5
<1> QED
  BY <1>6, <1>7

\* The network's response reaches the front, or the cacher that was left to wait.
LEMMA ReceivesKeep ==
  ASSUME NEW r \in Req, IInv, Races, Overtakes, setting' = setting, RaceAnswered(r) \/ CacherReceives(r)
  PROVE  IInv'
<1>1. /\ req[r] \in FrontRecord /\ cacher[r] \in CacherRecord /\ net[r] \in FetchRecord
      /\ DOMAIN req = Req /\ req = [req EXCEPT ![r] = req[r]]
      /\ cacher = [cacher EXCEPT ![r] = cacher[r]] /\ net = [net EXCEPT ![r] = net[r]]
      /\ FrontShape(r, req[r], field, server) /\ CacherShape(r, req[r], cacher[r], field)
      /\ NetShape(req[r], cacher[r], net[r]) /\ NoFetch \in FetchRecord /\ NoFetch.state = "none"
  BY AtRequest, Nothing DEF NoFetch
<1>2. CASE RaceAnswered(r)
  <2>1. PICK q : q = [req[r] EXCEPT !.pc = "inline"]
    OBVIOUS
  <2>2. /\ q \in FrontRecord /\ q.pc = "inline" /\ q.url = req[r].url /\ q.lru = req[r].lru
        /\ q.floor = req[r].floor /\ req[r].pc = "race"
        /\ req' = [req EXCEPT ![r] = q] /\ net' = [net EXCEPT ![r] = NoFetch]
        /\ UNCHANGED <<cached, savedLru, field, server>>
    BY <1>1, <1>2, <2>1 DEF RaceAnswered, GoTo, FrontRecord, FrontPc, Storage, World
  <2>3. /\ FrontShape(r, q, field, server) /\ cacher[r].pc = "off"
        /\ req[r].url \in Url /\ req[r].lru \in Req /\ field \in Req /\ r \in setting.reqs
    BY <1>1, <2>2 DEF FrontShape, CacherShape, Ended
  <2>4. CASE net[r].state = "ok"
    <3>1. BeginCaching(r, req[r].url, req[r].lru)
      BY <1>2, <2>4 DEF RaceAnswered
    <3>2. ASSUME NEW u \in Url \ (raced' \cup overtaken'), u = req[r].url PROVE net[r].ver = server[u]
      BY <2>2, <2>4, <3>2, HeldNow DEF Current
    <3> QED
      BY <1>1, <2>2, <2>3, <3>1, <3>2, BeginCachingKeeps
  <2>5. CASE net[r].state = "bad"
    <3>1. UNCHANGED <<lists, cacher>>
      BY <1>2, <2>5 DEF RaceAnswered
    <3>2. CacherShape(r, q, cacher[r], field) /\ NetShape(q, cacher[r], NoFetch)
      BY <1>1, <2>3 DEF CacherShape, NetShape
    <3>3. ASSUME NEW u \in Url \ (raced' \cup overtaken')
          PROVE  Current(q, cacher[r], NoFetch, cached, u, server[u])
      BY <1>1, <2>2, <2>3 DEF Current
    <3> QED
      BY <1>1, <2>2, <2>3, <3>1, <3>2, <3>3, HeldKeeps
  <2> QED
    BY <1>2, <2>4, <2>5 DEF RaceAnswered
<1>3. CASE CacherReceives(r)
  <2>1. PICK n : n = IF Running(r) THEN net[r] ELSE NoFetch
    OBVIOUS
  <2>2. /\ n \in {net[r], NoFetch} /\ net' = [net EXCEPT ![r] = n]
        /\ n.state = "none" \/ Running(r)
        /\ cacher[r].pc = "wait" /\ UNCHANGED <<cached, savedLru, field, server, req>>
    BY <1>1, <1>3, <2>1 DEF CacherReceives, Storage, World
  <2>3. /\ cacher[r].url \in Url /\ cacher[r].lru \in Req /\ field \in Req /\ r \in setting.reqs
        /\ req' = [req EXCEPT ![r] = req[r]]
    BY <1>1, <2>2 DEF CacherShape
  <2>4. CASE net[r].state = "ok" /\ BeginCaching(r, cacher[r].url, cacher[r].lru)
    <3>1. ASSUME NEW u \in Url \ (raced' \cup overtaken'), u = cacher[r].url PROVE net[r].ver = server[u]
      BY <2>2, <2>4, <3>1, HeldNow DEF Current
    <3>2. req[r].pc \notin Ended =>
            /\ cacher[r].url = req[r].url
            /\ \/ req[r].pc = "inline"
               \/ /\ setting.strategy = "freshness"
                  /\ req[r].pc \in {"match", "readAge", "purge", "purgeSync", "awaitNet"}
      BY <1>1, <2>2 DEF CacherShape
    <3>3. n.state = "none" \/ (req[r].pc \notin Ended /\ req[r].pc # "inline")
      BY <1>1, <2>2 DEF CacherShape, Running
    <3> QED
      BY <1>1, <2>2, <2>3, <2>4, <3>1, <3>2, <3>3, BeginCachingKeeps
  <2>5. CASE CacherEnds(r) /\ UNCHANGED lists
    BY <2>2, <2>5, CacherOverKeeps
  <2> QED
    BY <1>3, <2>4, <2>5 DEF CacherReceives
<1> QED
  BY <1>2, <1>3

\* The last of the two deletions, or the one of them that the cache sees.
LEMMA PartDeleted ==
  ASSUME NEW w, NEW part \in Part, DeletePart(w, part), Cached \subseteq Url,
         \A u \in Cached : cached[u] \in Version
  PROVE  /\ Cached' = IF part = "cache" THEN Cached \ {w} ELSE Cached
         /\ \A u \in Cached' : cached'[u] = cached[u]
         /\ Cached' \subseteq Url /\ \A u \in Cached' : cached'[u] \in Version
BY DEF DeletePart, Without, Cached, Part

\* One of the two deletions of a front.
LEMMA FrontDeletesKeeps ==
  ASSUME NEW r \in Req, NEW part \in Part, IInv, Races, Overtakes, setting' = setting,
         FrontDeletes(r, part)
  PROVE  IInv'
<1>1. /\ req[r] \in FrontRecord /\ cacher[r] \in CacherRecord /\ net[r] \in FetchRecord
      /\ DOMAIN req = Req
      /\ cacher = [cacher EXCEPT ![r] = cacher[r]] /\ net = [net EXCEPT ![r] = net[r]]
      /\ FrontShape(r, req[r], field, server) /\ CacherShape(r, req[r], cacher[r], field)
      /\ NetShape(req[r], cacher[r], net[r])
  BY AtRequest
<1>2. PICK w, q :
        /\ w = req[r].url
        /\ q = [req[r] EXCEPT !.todo = req[r].todo \ {part},
                              !.pc = IF req[r].todo # {part} THEN req[r].pc
                                     ELSE IF req[r].pc = "clear" THEN "clearSync" ELSE "purgeSync"]
  OBVIOUS
<1>3. /\ req[r].pc \in {"clear", "purge"} /\ part \in req[r].todo /\ DeletePart(w, part)
      /\ req' = [req EXCEPT ![r] = q]
      /\ UNCHANGED <<savedLru, lists, field, cacher, net, server>>
  BY <1>1, <1>2 DEF FrontDeletes, Chains, World
<1>4. /\ q \in FrontRecord /\ q.url = w /\ q.lru = req[r].lru /\ q.floor = req[r].floor
      /\ q.mutates = req[r].mutates /\ q.todo = req[r].todo \ {part}
      /\ q.pc = IF req[r].todo # {part} THEN req[r].pc
                ELSE IF req[r].pc = "clear" THEN "clearSync" ELSE "purgeSync"
  BY <1>1, <1>2, <1>3 DEF FrontRecord, FrontPc
<1>5. /\ Cached' = IF part = "cache" THEN Cached \ {w} ELSE Cached
      /\ \A u \in Cached' : cached'[u] = cached[u]
      /\ Cached' \subseteq Url /\ \A u \in Cached' : cached'[u] \in Version
  BY <1>3, PartDeleted, AtRequest
<1>6. FrontShape(r, q, field, server) /\ CacherShape(r, q, cacher[r], field) /\ NetShape(q, cacher[r], net[r])
  BY <1>1, <1>2, <1>3, <1>4 DEF FrontShape, CacherShape, NetShape, Ended
<1>7. ASSUME NEW u \in Url \ raced', u = w, q.pc \notin {"clear", "purge"} PROVE u \notin Cached'
  <2>1. req[r].todo = {part}
    BY <1>3, <1>4, <1>7
  <2>2. StoreGood(u, Tracked(CurrentChain), Tracked(savedLru))
    BY AtUrl
  <2>3. part # "cache" => u \notin Cached
    BY <1>2, <1>3, <1>7, <2>1, <2>2 DEF StoreGood, HasDeleted
  <2> QED
    BY <1>5, <1>7, <2>3
<1>8. CurrentChain' = CurrentChain
  BY <1>3 DEF CurrentChain
<1>9. ASSUME NEW u \in Url \ raced'
      PROVE  Local(u, req[r], cacher[r], Tracked(CurrentChain), Cached, Tracked(savedLru),
                   q, cacher[r], Tracked(CurrentChain'), Cached', Tracked(savedLru'))
  <2>1. PICK T, S : T = Tracked(CurrentChain) /\ S = Tracked(savedLru)
    OBVIOUS
  <2>2. StoreGood(u, T, S)
    BY <2>1, AtUrl
  <2>3. /\ Deletes(req[r], cacher[r], u) => u \notin T
        /\ HasDeleted(req[r], cacher[r], u) => u \notin Cached
        /\ Stores(cacher[r], u) => u \in T
    BY <2>2 DEF StoreGood, Deleted, Deletes
  <2>4. u \in Cached \ Cached' => u = w
    BY <1>5
  <2>5. u \in Cached' => u \in Cached /\ (u = w => part # "cache")
    BY <1>5
  <2>6. HasDeleted(q, cacher[r], u) => u \notin Cached'
    BY <1>2, <1>3, <1>4, <2>3, <2>5 DEF HasDeleted
  <2>7. /\ Deletes(q, cacher[r], u) => Deletes(req[r], cacher[r], u)
        /\ Deletes(req[r], cacher[r], u) /\ ~Deletes(q, cacher[r], u) => u \notin Cached'
        /\ u = w => Deletes(req[r], cacher[r], u)
    BY <1>2, <1>3, <1>4, <1>7 DEF Deletes
  <2>8. /\ Changes(req[r], cacher[r], u) => Changes(q, cacher[r], u)
        /\ u = w => Changes(q, cacher[r], u)
        /\ q.pc # "readAge"
    BY <1>2, <1>3, <1>4 DEF Changes
  <2>9. Local(u, req[r], cacher[r], T, Cached, S, q, cacher[r], T, Cached', S)
    BY <2>3, <2>4, <2>5, <2>6, <2>7, <2>8 DEF Local
  <2> QED
    BY <1>3, <1>8, <2>1, <2>9
<1>10. ASSUME NEW u \in Url \ (raced' \cup overtaken')
       PROVE  /\ u \in Cached' => cached'[u] = server'[u]
              /\ u \in Cached' \ Cached => Handles(r, u)
              /\ server'[u] # server[u] => Running(r) /\ req[r].mutates /\ req[r].url = u
              /\ Current(q, cacher[r], net[r], cached', u, server'[u])
  <2>1. u \in Cached' => u \in Cached /\ cached'[u] = server[u]
    BY <1>5, AtUrl DEF FreshGood
  <2>2. Current(req[r], cacher[r], net[r], cached, u, server[u])
    BY HeldNow
  <2>3. Current(q, cacher[r], net[r], cached', u, server[u])
    BY <1>3, <1>4, <1>7, <2>2 DEF Current, Cached
  <2> QED
    BY <1>3, <2>1, <2>3
<1>11. CurrentChain'.count + Taken(cacher[r]) <= CurrentChain.count + Taken(cacher[r])
  <2>1. CurrentChain.count + Taken(cacher[r]) \in Nat
    BY AtRequest DEF Taken
  <2> QED
    BY <1>8, <2>1
<1>12. /\ cacher' = [cacher EXCEPT ![r] = cacher[r]] /\ net' = [net EXCEPT ![r] = net[r]]
       /\ DOMAIN lists' = Req /\ \A x \in Req : Chained(lists'[x])
       /\ server' \in [Url -> Version] /\ \A u \in Url : server[u] <= server'[u]
       /\ Chained(savedLru') /\ savedLru' \in {savedLru, CurrentChain'} /\ field' = field
       /\ FrontShape(r, q, field, server')
  BY <1>1, <1>3, <1>6, AtRequest
<1> QED
  BY <1>1, <1>3, <1>4, <1>5, <1>6, <1>9, <1>10, <1>11, <1>12, Moves

\* One of the two deletions of an eviction; with the last the new URL takes the place.
LEMMA CacherEvictsKeeps ==
  ASSUME NEW r \in Req, NEW part \in Part, IInv, Races, Overtakes, setting' = setting,
         CacherEvicts(r, part)
  PROVE  IInv'
<1>1. /\ req[r] \in FrontRecord /\ cacher[r] \in CacherRecord /\ net[r] \in FetchRecord
      /\ DOMAIN cacher = Req /\ DOMAIN req = Req
      /\ req = [req EXCEPT ![r] = req[r]] /\ net = [net EXCEPT ![r] = net[r]]
      /\ FrontShape(r, req[r], field, server) /\ CacherShape(r, req[r], cacher[r], field)
      /\ NetShape(req[r], cacher[r], net[r]) /\ \A x \in Req : Chained(lists[x])
  BY AtRequest DEF IInv, Shapes
<1>2. PICK w, o, v : w = cacher[r].url /\ o = cacher[r].lru /\ v = cacher[r].victim
  OBVIOUS
<1>3. /\ cacher[r].pc = "evict" /\ part \in cacher[r].todo /\ DeletePart(v, part)
      /\ UNCHANGED <<savedLru, field, req, net, server>>
  BY <1>2 DEF CacherEvicts, World
<1>4. w \in Url /\ o \in Req /\ field \in Req /\ CurrentChain = lists[field]
  BY <1>1, <1>2, <1>3, AtRequest DEF CacherShape
<1>5. PICK c, chain :
        /\ c \in CacherRecord /\ cacher' = [cacher EXCEPT ![r] = c]
        /\ c.url = w /\ c.lru = o /\ c.victim = v /\ c.ver = cacher[r].ver
        /\ Chained(chain) /\ DOMAIN lists' = Req /\ \A x \in Req : Chained(lists'[x])
        /\ CurrentChain' = IF field = o THEN chain ELSE CurrentChain
        /\ \/ /\ c.pc = "put" /\ cacher[r].todo = {part}
              /\ Tracked(chain) = Tracked(lists[o]) \cup {w} /\ chain.count <= lists[o].count + 1
           \/ /\ c.pc = "evict" /\ c.todo = cacher[r].todo \ {part} /\ cacher[r].todo # {part}
              /\ chain = lists[o]
  <2>1. CASE cacher[r].todo = {part}
    <3>1. PICK c : c = [cacher[r] EXCEPT !.pc = "put", !.todo = {}]
      OBVIOUS
    <3>2. PICK chain : chain = Accessed(lists[o], w)
      OBVIOUS
    <3>3. /\ Chained(chain) /\ Tracked(chain) = Tracked(lists[o]) \cup {w}
          /\ chain.count <= lists[o].count + 1
      <4>1. lists[o].count \in Nat
        BY <1>1, <1>4, ChainTypes
      <4> QED
        BY <1>1, <1>4, <3>2, <4>1, ChainAccessed
    <3>4. /\ c \in CacherRecord /\ c.url = w /\ c.lru = o /\ c.victim = v /\ c.ver = cacher[r].ver
          /\ c.pc = "put"
      BY <1>1, <1>2, <3>1 DEF CacherRecord
    <3>5. cacher' = [cacher EXCEPT ![r] = c] /\ lists' = [lists EXCEPT ![o] = chain]
      BY <1>1, <1>2, <2>1, <3>1, <3>2 DEF CacherEvicts, SetChain
    <3>6. /\ DOMAIN lists' = Req /\ \A x \in Req : Chained(lists'[x])
          /\ CurrentChain' = IF field = o THEN chain ELSE CurrentChain
      BY <1>3, <1>4, <3>3, <3>5, ListChanged
    <3> QED
      BY <2>1, <3>3, <3>4, <3>5, <3>6
  <2>2. CASE cacher[r].todo # {part}
    <3>1. PICK c : c = [cacher[r] EXCEPT !.todo = cacher[r].todo \ {part}]
      OBVIOUS
    <3>2. PICK chain : chain = lists[o]
      OBVIOUS
    <3>3. /\ c \in CacherRecord /\ c.url = w /\ c.lru = o /\ c.victim = v /\ c.ver = cacher[r].ver
          /\ c.pc = "evict" /\ c.todo = cacher[r].todo \ {part}
      BY <1>1, <1>2, <1>3, <3>1 DEF CacherRecord
    <3>4. cacher' = [cacher EXCEPT ![r] = c] /\ UNCHANGED lists
      BY <1>1, <2>2, <3>1 DEF CacherEvicts
    <3>5. /\ DOMAIN lists' = Req /\ \A x \in Req : Chained(lists'[x])
          /\ CurrentChain' = IF field = o THEN chain ELSE CurrentChain
      BY <1>3, <1>4, <3>2, <3>4, AtRequest DEF CurrentChain
    <3> QED
      BY <1>1, <1>4, <2>2, <3>2, <3>3, <3>4, <3>5
  <2> QED
    BY <2>1, <2>2
<1>6. /\ Cached' = IF part = "cache" THEN Cached \ {v} ELSE Cached
      /\ \A u \in Cached' : cached'[u] = cached[u]
      /\ Cached' \subseteq Url /\ \A u \in Cached' : cached'[u] \in Version
  BY <1>3, PartDeleted, AtRequest
<1>7. CacherShape(r, req[r], c, field) /\ NetShape(req[r], c, net[r])
  BY <1>1, <1>2, <1>3, <1>5 DEF CacherShape, NetShape
<1>8. ASSUME NEW u \in Url \ raced'
      PROVE  Local(u, req[r], cacher[r], Tracked(CurrentChain), Cached, Tracked(savedLru),
                   req[r], c, Tracked(CurrentChain'), Cached', Tracked(savedLru'))
  <2>1. PICK T, S, T1 : T = Tracked(CurrentChain) /\ S = Tracked(savedLru) /\ T1 = Tracked(CurrentChain')
    OBVIOUS
  <2>2. StoreGood(u, T, S) /\ u \notin raced /\ ~Contested(u) /\ ~Contested(u)'
    BY <2>1, AtUrl
  <2>3. u \in T1 <=> u \in T \/ (u = w /\ c.pc = "put")
    <3>1. u = w => o = field
      BY <1>2, <1>3, <2>2, OwnList
    <3>2. CASE field = o
      BY <1>4, <1>5, <2>1, <3>2
    <3>3. CASE field # o
      BY <1>5, <2>1, <3>1, <3>3
    <3> QED
      BY <3>2, <3>3
  <2>4. /\ Deletes(req[r], cacher[r], u) => u \notin T
        /\ HasDeleted(req[r], cacher[r], u) => u \notin Cached
        /\ req[r].pc = "readAge" /\ req[r].url = u => u \in Cached
    BY <2>2 DEF StoreGood, Deleted, Deletes
  <2>5. /\ req[r].pc = "readAge" /\ req[r].url = u => u # v
        /\ c.pc = "put" /\ req[r].pc \in {"clear", "purge"} /\ req[r].url = u => u # w
    <3>1. req'[r] = req[r] /\ cacher'[r] = c
      BY <1>1, <1>3, <1>5
    <3>2. u = v => Deleted(u)
      BY <1>2, <1>3 DEF Deleted
    <3>3. req[r].pc = "readAge" /\ req[r].url = u => Used(u)
      BY DEF Used
    <3>4. c.pc = "put" /\ u = w => Used(u)'
      BY <1>5, <3>1 DEF Used
    <3>5. req[r].pc \in {"clear", "purge"} /\ req[r].url = u => Deleted(u)'
      BY <3>1 DEF Deleted
    <3> QED
      BY <2>2, <3>2, <3>3, <3>4, <3>5 DEF Contested
  <2>6. u \in Cached' <=> u \in Cached /\ ~(u = v /\ part = "cache")
    BY <1>6
  <2>7. HasDeleted(req[r], c, u) => u \notin Cached'
    BY <1>2, <1>3, <1>5, <2>4, <2>6 DEF HasDeleted
  <2>8. /\ Deletes(req[r], c, u) => u \notin T1
        /\ Deletes(req[r], cacher[r], u) /\ ~Deletes(req[r], c, u) => u \notin Cached'
        /\ u = v => Deletes(req[r], cacher[r], u)
    <3>1. u = v => Deletes(req[r], cacher[r], u)
      BY <1>2, <1>3 DEF Deletes
    <3>2. Deletes(req[r], c, u) => Deletes(req[r], cacher[r], u)
      BY <1>2, <1>3, <1>5 DEF Deletes
    <3>3. Deletes(req[r], c, u) => u \notin T1
      <4>1. Deletes(req[r], c, u) /\ c.pc = "put" => u # w
        BY <2>5 DEF Deletes
      <4> QED
        BY <2>3, <2>4, <3>2, <4>1
    <3>4. ASSUME Deletes(req[r], cacher[r], u), ~Deletes(req[r], c, u) PROVE u \notin Cached'
      <4>1. u = v /\ cacher[r].todo = {part}
        BY <1>2, <1>3, <1>5, <3>4 DEF Deletes
      <4>2. part # "cache" => HasDeleted(req[r], cacher[r], u)
        BY <1>2, <1>3, <4>1 DEF HasDeleted
      <4> QED
        BY <2>4, <2>6, <4>1, <4>2
    <3> QED
      BY <3>1, <3>3, <3>4
  <2>9. /\ Changes(req[r], c, u) <=> Changes(req[r], cacher[r], u)
        /\ u \in {v, w} => Changes(req[r], c, u)
        /\ ~Stores(cacher[r], u) /\ (Stores(c, u) <=> u = w /\ c.pc = "put")
        /\ u = w /\ c.pc = "put" => Uses(req[r], c, u)
    BY <1>2, <1>3, <1>5 DEF Changes, Stores, Uses
  <2>10. Local(u, req[r], cacher[r], T, Cached, S, req[r], c, T1, Cached', S)
    BY <2>3, <2>4, <2>5, <2>6, <2>7, <2>8, <2>9 DEF Local
  <2> QED
    BY <1>3, <2>1, <2>10
<1>9. ASSUME NEW u \in Url \ (raced' \cup overtaken')
      PROVE  /\ u \in Cached' => cached'[u] = server'[u]
             /\ u \in Cached' \ Cached => Handles(r, u)
             /\ server'[u] # server[u] => Running(r) /\ req[r].mutates /\ req[r].url = u
             /\ Current(req[r], c, net[r], cached', u, server'[u])
  <2>1. u \in Cached' => u \in Cached /\ cached'[u] = server[u]
    BY <1>6, AtUrl DEF FreshGood
  <2>2. Current(req[r], cacher[r], net[r], cached, u, server[u])
    BY HeldNow
  <2>3. Current(req[r], c, net[r], cached', u, server[u])
    BY <1>2, <1>3, <1>5, <2>1, <2>2 DEF Current, Cached
  <2> QED
    BY <1>3, <2>1, <2>3
<1>10. CurrentChain'.count + Taken(c) <= CurrentChain.count + Taken(cacher[r])
  <2>1. PICK k, k1 : k = CurrentChain.count /\ k1 = CurrentChain'.count
    OBVIOUS
  <2>2. k \in Nat
    BY <2>1, AtRequest
  <2>3. k1 \in Nat /\ (k1 = k \/ (c.pc = "put" /\ k1 <= k + 1))
    <3>1. chain.count \in Nat
      BY <1>5, ChainTypes
    <3> QED
      BY <1>4, <1>5, <2>1, <2>2, <3>1
  <2> QED
    BY <1>3, <1>5, <2>1, <2>2, <2>3 DEF Taken
<1>11. /\ req' = [req EXCEPT ![r] = req[r]] /\ net' = [net EXCEPT ![r] = net[r]]
       /\ server' \in [Url -> Version] /\ \A u \in Url : server[u] <= server'[u]
       /\ Chained(savedLru') /\ savedLru' \in {savedLru, CurrentChain'} /\ field' = field
       /\ FrontShape(r, req[r], field, server')
  BY <1>1, <1>3, AtRequest
<1> QED
  BY <1>1, <1>5, <1>6, <1>7, <1>8, <1>9, <1>10, <1>11, Moves

\* The response is stored, under a URL that the chain knows since the cacher began.
LEMMA CacherPutsKeeps ==
  ASSUME NEW r \in Req, IInv, Races, Overtakes, setting' = setting, CacherPuts(r)
  PROVE  IInv'
<1>1. /\ req[r] \in FrontRecord /\ cacher[r] \in CacherRecord /\ net[r] \in FetchRecord
      /\ DOMAIN cacher = Req
      /\ req = [req EXCEPT ![r] = req[r]] /\ net = [net EXCEPT ![r] = net[r]]
      /\ FrontShape(r, req[r], field, server) /\ CacherShape(r, req[r], cacher[r], field)
      /\ NetShape(req[r], cacher[r], net[r])
  BY AtRequest DEF IInv, Shapes
<1>2. PICK w, c : w = cacher[r].url /\ c = [cacher[r] EXCEPT !.pc = "stamp"]
  OBVIOUS
<1>3. /\ cacher[r].pc = "put" /\ cached' = With(cached, w, cacher[r].ver)
      /\ cacher' = [cacher EXCEPT ![r] = c]
      /\ UNCHANGED <<savedLru, lists, field, req, net, server>>
  BY <1>1, <1>2 DEF CacherPuts, SetCacher, Chains, World
<1>4. /\ c \in CacherRecord /\ c.pc = "stamp" /\ c.url = w /\ c.lru = cacher[r].lru
      /\ c.victim = cacher[r].victim /\ w \in Url /\ cacher[r].ver \in Version
  BY <1>1, <1>2, <1>3 DEF CacherRecord, CacherShape
<1>5. /\ Cached' = Cached \cup {w} /\ cached'[w] = cacher[r].ver
      /\ \A u \in Cached' : u # w => u \in Cached /\ cached'[u] = cached[u]
  BY <1>3 DEF With, Cached
<1>6. Cached' \subseteq Url /\ \A u \in Cached' : cached'[u] \in Version
  BY <1>4, <1>5, AtRequest
<1>7. CacherShape(r, req[r], c, field) /\ NetShape(req[r], c, net[r])
  BY <1>1, <1>2, <1>3, <1>4 DEF CacherShape, NetShape
<1>8. CurrentChain' = CurrentChain
  BY <1>3 DEF CurrentChain
<1>9. ASSUME NEW u \in Url \ raced'
      PROVE  Local(u, req[r], cacher[r], Tracked(CurrentChain), Cached, Tracked(savedLru),
                   req[r], c, Tracked(CurrentChain'), Cached', Tracked(savedLru'))
  <2>1. PICK T, S : T = Tracked(CurrentChain) /\ S = Tracked(savedLru)
    OBVIOUS
  <2>2. StoreGood(u, T, S) /\ ~Contested(u)
    BY <2>1, AtUrl
  <2>3. /\ Deletes(req[r], cacher[r], u) => u \notin T /\ u # w
        /\ HasDeleted(req[r], cacher[r], u) => u \notin Cached /\ u # w
        /\ req[r].pc = "readAge" /\ req[r].url = u => u \in Cached
        /\ u = w => u \in T
    <3>1. u = w => Used(u)
      BY <1>2, <1>3 DEF Used
    <3>2. Deletes(req[r], cacher[r], u) => Deleted(u)
      BY DEF Deletes, Deleted
    <3>3. HasDeleted(req[r], cacher[r], u) => Deletes(req[r], cacher[r], u)
      BY DEF Deletes, HasDeleted
    <3>4. u = w => Stores(cacher[r], u)
      BY <1>2, <1>3 DEF Stores
    <3> QED
      BY <2>2, <3>1, <3>2, <3>3, <3>4 DEF StoreGood, Contested
  <2>4. u \in Cached' <=> u \in Cached \/ u = w
    BY <1>5
  <2>5. /\ Deletes(req[r], c, u) <=> Deletes(req[r], cacher[r], u)
        /\ HasDeleted(req[r], c, u) <=> HasDeleted(req[r], cacher[r], u)
        /\ Changes(req[r], c, u) <=> Changes(req[r], cacher[r], u)
        /\ ~Stores(c, u) /\ (Stores(cacher[r], u) => u = w)
        /\ u = w => Uses(req[r], cacher[r], u) /\ Changes(req[r], c, u)
    BY <1>2, <1>3, <1>4 DEF Deletes, HasDeleted, Changes, Stores, Uses
  <2>6. Local(u, req[r], cacher[r], T, Cached, S, req[r], c, T, Cached', S)
    BY <2>3, <2>4, <2>5 DEF Local
  <2> QED
    BY <1>3, <1>8, <2>1, <2>6
<1>10. ASSUME NEW u \in Url \ (raced' \cup overtaken')
       PROVE  /\ u \in Cached' => cached'[u] = server'[u]
              /\ u \in Cached' \ Cached => Handles(r, u)
              /\ server'[u] # server[u] => Running(r) /\ req[r].mutates /\ req[r].url = u
              /\ Current(req[r], c, net[r], cached', u, server'[u])
  <2>1. /\ Current(req[r], cacher[r], net[r], cached, u, server[u]) /\ ~Overtaken(u)
        /\ u \in Cached => cached[u] = server[u]
    BY HeldNow, AtUrl DEF FreshGood
  <2>2. u = w => cacher[r].ver = server[u] /\ Handles(r, u)
    BY <1>2, <1>3, <2>1 DEF Current, Handles
  <2>3. req[r].pc \notin {"clearSync", "send"}
    BY <1>1, <1>3 DEF CacherShape, Ended
  <2>4. Current(req[r], c, net[r], cached', u, server[u])
    BY <1>3, <1>4, <2>1, <2>3 DEF Current
  <2> QED
    BY <1>3, <1>5, <2>1, <2>2, <2>4
<1>11. CurrentChain'.count + Taken(c) <= CurrentChain.count + Taken(cacher[r])
  <2>1. CurrentChain.count \in Nat /\ Taken(c) = 0 /\ Taken(cacher[r]) = 0
    BY <1>3, <1>4, AtRequest DEF Taken
  <2> QED
    BY <1>8, <2>1
<1>12. /\ req' = [req EXCEPT ![r] = req[r]] /\ net' = [net EXCEPT ![r] = net[r]]
       /\ DOMAIN lists' = Req /\ \A x \in Req : Chained(lists'[x])
       /\ server' \in [Url -> Version] /\ \A u \in Url : server[u] <= server'[u]
       /\ Chained(savedLru') /\ savedLru' \in {savedLru, CurrentChain'} /\ field' = field
       /\ FrontShape(r, req[r], field, server')
  BY <1>1, <1>3, AtRequest
<1> QED
  BY <1>1, <1>3, <1>4, <1>6, <1>7, <1>9, <1>10, <1>11, <1>12, Moves

\* The age is written.
LEMMA CacherStampsKeeps ==
  ASSUME NEW r \in Req, IInv, Races, Overtakes, setting' = setting, CacherStamps(r)
  PROVE  IInv'
<1>1. /\ req[r] \in FrontRecord /\ cacher[r] \in CacherRecord /\ net[r] \in FetchRecord
      /\ DOMAIN cacher = Req
      /\ req = [req EXCEPT ![r] = req[r]] /\ net = [net EXCEPT ![r] = net[r]]
      /\ FrontShape(r, req[r], field, server) /\ CacherShape(r, req[r], cacher[r], field)
      /\ NetShape(req[r], cacher[r], net[r])
  BY AtRequest DEF IInv, Shapes
<1>2. PICK c : c = [cacher[r] EXCEPT !.pc = "sync"]
  OBVIOUS
<1>3. /\ cacher[r].pc = "stamp" /\ cacher' = [cacher EXCEPT ![r] = c]
      /\ UNCHANGED <<cached, savedLru, lists, field, req, net, server>>
  BY <1>1, <1>2 DEF CacherStamps, SetCacher, Chains, World
<1>4. /\ c \in CacherRecord /\ c.pc = "sync" /\ c.url = cacher[r].url /\ c.lru = cacher[r].lru
      /\ c.victim = cacher[r].victim
  BY <1>1, <1>2 DEF CacherRecord
<1>5. CacherShape(r, req[r], c, field) /\ NetShape(req[r], c, net[r])
  BY <1>1, <1>3, <1>4 DEF CacherShape, NetShape
<1>6. ASSUME NEW u \in Url \ (raced' \cup overtaken')
      PROVE  Current(req[r], c, net[r], cached, u, server[u])
  BY <1>3, <1>4, HeldNow DEF Current
<1>7. req' = [req EXCEPT ![r] = req[r]] /\ net' = [net EXCEPT ![r] = net[r]]
  BY <1>1, <1>3
<1> QED
  BY <1>1, <1>3, <1>4, <1>5, <1>6, <1>7, HeldKeeps

\* A rejected write ends a cacher.
LEMMA CacherFailsKeeps ==
  ASSUME NEW r \in Req, IInv, Races, Overtakes, setting' = setting, CacherFails(r)
  PROVE  IInv'
<1>1. /\ WritesFail /\ cacher[r].pc \in {"put", "stamp", "sync"} /\ CacherEnds(r)
      /\ UNCHANGED <<cached, savedLru, lists, field, server, req, net>>
  BY DEF CacherFails, Storage, Chains, World
<1>2. net' = [net EXCEPT ![r] = net[r]]
  BY <1>1, AtRequest
<1> QED
  BY <1>1, <1>2, CacherOverKeeps

\* A request that has its chain, whose URLs are T and of which there are k.
LEMMA EnterMoves ==
  ASSUME NEW r \in Req, IInv, Races, Overtakes, setting' = setting,
         req[r].pc \in Ended \cup {"readLru"}, cacher[r].pc = "off",
         UNCHANGED <<cached, savedLru, server, cacher>>,
         NEW q1 \in FrontRecord, NEW n \in FetchRecord,
         req' = [req EXCEPT ![r] = q1], net' = [net EXCEPT ![r] = n],
         n.state = "none" \/ (q1.pc = "race" /\ n.state = "pending"),
         field' \in Req, (field' = field \/ field' = r), FrontShape(r, q1, field', server),
         DOMAIN lists' = Req, \A x \in Req : Chained(lists'[x]),
         NEW T, NEW k \in Nat, CurrentChain'.count <= k,
         \/ /\ q1.mutates /\ q1.pc = "clear" /\ q1.todo = Part
            /\ Tracked(CurrentChain') = T \ {q1.url}
         \/ /\ q1.mutates /\ q1.pc = "clearSync" /\ q1.url \notin T
            /\ Tracked(CurrentChain') = T
         \/ q1.pc \in {"race", "match"} /\ Tracked(CurrentChain') = T,
         \A u \in Url \ raced' : StoreGood(u, T, Tracked(savedLru)),
         raced' = {} => k + Cardinality(Evicting(cacher)) <= Limit
  PROVE  IInv'
<1>1. /\ req[r] \in FrontRecord /\ cacher[r] \in CacherRecord /\ DOMAIN req = Req
      /\ cacher = [cacher EXCEPT ![r] = cacher[r]]
  BY AtRequest
<1>2. Shapes /\ setting \in Setting /\ raced \subseteq Url /\ overtaken \subseteq Url
  BY DEF IInv, Watched
<1>3. /\ raced \subseteq raced' /\ overtaken \subseteq overtaken'
      /\ raced' \subseteq Url /\ overtaken' \subseteq Url
      /\ \A u \in Url : Contested(u)' \/ Orphaned(u)' => u \in raced'
      /\ \A u \in Url : Overtaken(u)' => u \in overtaken'
  BY <1>2, Histories DEF Races, Overtakes, Unsaved
<1>4. /\ cacher' = [cacher EXCEPT ![r] = cacher[r]] /\ Cached' = Cached /\ cached' = cached
      /\ savedLru' = savedLru /\ server' = server
  BY <1>1 DEF Cached
<1>5. ASSUME NEW x \in Req
      PROVE  /\ FrontShape(x, req'[x], field', server) /\ CacherShape(x, req'[x], cacher[x], field')
             /\ NetShape(req'[x], cacher[x], net'[x])
             /\ req'[x] \in FrontRecord /\ net'[x] \in FetchRecord
  <2>1. CASE x = r
    <3>1. req'[r] = q1 /\ net'[r] = n
      BY AtRequest DEF IInv, Shapes
    <3>2. CacherShape(r, q1, cacher[r], field') /\ NetShape(q1, cacher[r], n)
      BY DEF CacherShape, NetShape
    <3> QED
      BY <2>1, <3>1, <3>2
  <2>2. CASE x # r
    <3>1. req'[x] = req[x] /\ net'[x] = net[x]
      BY <2>2 DEF IInv, Shapes
    <3>2. /\ req[x] \in FrontRecord /\ net[x] \in FetchRecord /\ NetShape(req[x], cacher[x], net[x])
          /\ FrontShape(x, req[x], field, server) /\ CacherShape(x, req[x], cacher[x], field)
      BY AtRequest
    <3>3. FrontShape(x, req[x], field', server) /\ CacherShape(x, req[x], cacher[x], field')
      BY <2>2, <3>2 DEF FrontShape, CacherShape
    <3> QED
      BY <3>1, <3>2, <3>3
  <2> QED
    BY <2>1, <2>2
<1>6. Shapes'
  <2>1. /\ req' \in [Req -> FrontRecord] /\ net' \in [Req -> FetchRecord]
        /\ cacher' \in [Req -> CacherRecord]
    BY <1>2 DEF Shapes
  <2>2. ASSUME NEW x \in Req
        PROVE  /\ FrontShape(x, req[x], field, server)' /\ CacherShape(x, req[x], cacher[x], field)'
               /\ NetShape(req[x], cacher[x], net[x])'
    BY <1>4, <1>5 DEF FrontShape, CacherShape, NetShape
  <2>3. /\ Chained(savedLru)' /\ (server \in [Url -> Version])' /\ (Cached \subseteq Url)'
        /\ (\A u \in Cached : cached[u] \in Version)' /\ (\A x \in Req : Chained(lists[x]))'
    BY <1>4, AtRequest DEF Cached, Chained
  <2> QED
    BY <2>1, <2>2, <2>3 DEF Shapes
<1>7. Watched'
  BY <1>3 DEF Watched
<1>8. ASSUME NEW u \in Url \ raced'
      PROVE  StoreGood(u, Tracked(CurrentChain), Tracked(savedLru))'
  <2>1. PICK T1, S : T1 = Tracked(CurrentChain') /\ S = Tracked(savedLru)
    OBVIOUS
  <2>2. StoreGood(u, T, S) /\ ~Contested(u) /\ ~Contested(u)'
    BY <2>1, AtUrl
  <2>3. Local(u, req[r], cacher[r], T, Cached, S, q1, cacher[r], T1, Cached', S)
    BY <1>4, <2>1 DEF Local, Deletes, HasDeleted, Stores, Uses, Changes, Part, Ended
  <2>4. StoreGood(u, T1, S)'
    BY <1>2, <1>4, <2>2, <2>3, StoreMoves
  <2> QED
    BY <1>4, <2>1, <2>4 DEF StoreGood, Tracked
<1>9. ASSUME NEW u \in Url \ (raced' \cup overtaken')
      PROVE  FreshGood(u)'
  <2>1. /\ FreshGood(u) /\ ~Overtaken(u) /\ ~Overtaken(u)'
        /\ Current(req[r], cacher[r], net[r], cached, u, server[u])
    BY AtUrl, HeldNow
  <2>2. ASSUME q1.pc = "clearSync", q1.url = u PROVE u \notin Cached
    <3>1. u \in Cached => Deleted(u)
      BY <2>2 DEF StoreGood
    <3>2. ASSUME Deleted(u) PROVE FALSE
      <4>1. PICK x \in Req : \/ req[x].pc \in {"clear", "purge"} /\ req[x].url = u
                             \/ cacher[x].pc = "evict" /\ cacher[x].victim = u
        BY <3>2 DEF Deleted
      <4>2. x # r
        BY <4>1 DEF Ended
      <4>3. req'[x] = req[x] /\ cacher'[x] = cacher[x] /\ req'[r] = q1
        BY <1>1, <1>4, <4>2
      <4>4. Handles(x, u)' /\ Handles(r, u)' /\ Running(r)' /\ req'[r].mutates /\ req'[r].url = u
        BY <2>2, <4>1, <4>3 DEF Handles, Running, Ended
      <4> QED
        BY <2>1, <4>2, <4>4 DEF Overtaken
    <3> QED
      BY <3>1, <3>2
  <2>3. Current(q1, cacher[r], n, cached', u, server'[u])
    BY <1>4, <2>1, <2>2 DEF Current, Cached
  <2> QED
    BY <1>2, <1>4, <2>1, <2>3, FreshMoves DEF FreshGood
<1>10. ASSUME raced' = {} PROVE SizeGood'
  <2>1. PICK k1, e : k1 = CurrentChain'.count /\ e = Cardinality(Evicting(cacher))
    OBVIOUS
  <2>2. SizeGood
    BY <1>3, <1>10 DEF IInv
  <2>3. k1 <= k /\ k1 \in Nat
    <3>1. Chained(CurrentChain')
      BY <1>6 DEF Shapes, CurrentChain
    <3> QED
      BY <2>1, <3>1, ChainTypes
  <2>4. e \in Nat
    BY <1>2, <1>4, <2>1, EvictingMoves
  <2>5. Limit \in Int /\ Limit' = Limit /\ Evicting(cacher)' = Evicting(cacher)
    BY <1>2, <1>4, SettingFields, FS_CardinalityType DEF Limit, Room, MaxSize, Evicting
  <2>6. k + e <= Limit
    BY <1>10, <2>1
  <2>7. k1 + e <= Limit
    BY <2>3, <2>4, <2>5, <2>6
  <2> QED
    BY <1>4, <2>1, <2>2, <2>5, <2>7 DEF SizeGood
<1> QED
  BY <1>2, <1>6, <1>7, <1>8, <1>9, <1>10 DEF IInv


\* Behind the reading of the chain: `chain` is the one in _lru now.
LEMMA EnterKeeps ==
  ASSUME NEW r \in Req, IInv, Races, Overtakes, setting' = setting,
         req[r].pc \in Ended \cup {"readLru"}, cacher[r].pc = "off", r \in setting.reqs,
         NEW q \in FrontRecord, q.url \in Url, q.floor <= server[q.url], q.lru = field',
         field' \in Req, field' = field \/ field' = r,
         NEW ls, DOMAIN ls = Req, \A x \in Req : Chained(ls[x]), NEW chain, chain = ls[field'],
         Enter(r, q, ls), UNCHANGED <<cached, savedLru, server, cacher>>,
         \A u \in Url \ raced' : StoreGood(u, Tracked(chain), Tracked(savedLru)),
         raced' = {} => chain.count + Cardinality(Evicting(cacher)) <= Limit
  PROVE  IInv'
<1>1. /\ req[r] \in FrontRecord /\ cacher[r] \in CacherRecord /\ net[r] \in FetchRecord
      /\ cacher = [cacher EXCEPT ![r] = cacher[r]] /\ net = [net EXCEPT ![r] = net[r]]
      /\ net[r].state = "none" /\ NoReq \notin Req
      /\ Fetching \in FetchRecord /\ Fetching.state = "pending"
  BY AtRequest, Nothing DEF NetShape, Ended, Fetching
<1>2. PICK q1, n :
        /\ q1 \in FrontRecord /\ req' = [req EXCEPT ![r] = q1]
        /\ n \in FetchRecord /\ net' = [net EXCEPT ![r] = n]
        /\ n.state = "none" \/ (q1.pc = "race" /\ n.state = "pending")
        /\ q1.url = q.url /\ q1.lru = q.lru /\ q1.floor = q.floor /\ q1.mutates = q.mutates
        /\ DOMAIN lists' = Req /\ \A x \in Req : Chained(lists'[x])
        /\ CurrentChain'.count <= chain.count
        /\ \/ /\ q.mutates /\ q1.pc = "clear" /\ q1.todo = Part
              /\ Tracked(CurrentChain') = Tracked(chain) \ {q.url}
           \/ /\ q.mutates /\ q1.pc = "clearSync" /\ q.url \notin Tracked(chain)
              /\ Tracked(CurrentChain') = Tracked(chain)
           \/ /\ q1.pc \in {"race", "match"}
              /\ Tracked(CurrentChain') = Tracked(chain)
  <2>1. CurrentChain' = lists'[field']
    BY <1>1 DEF CurrentChain
  <2>2. /\ Chained(Remove(chain, q.url)) /\ Tracked(Remove(chain, q.url)) = Tracked(chain) \ {q.url}
        /\ Remove(chain, q.url).count <= chain.count /\ chain.count <= chain.count
    <3>1. chain.count \in Nat
      BY ChainTypes
    <3> QED
      BY <3>1, ChainRemove
  <2>3. CASE q.mutates /\ lists' = [ls EXCEPT ![q.lru] = Remove(@, q.url)] /\ UNCHANGED net
             /\ req' = [req EXCEPT ![r] = Invalidates(q, q.url \in Tracked(ls[q.lru]))]
    <3>1. PICK q1 : q1 = Invalidates(q, q.url \in Tracked(chain))
      OBVIOUS
    <3>2. /\ q1 \in FrontRecord /\ q1.url = q.url /\ q1.lru = q.lru /\ q1.floor = q.floor
          /\ q1.mutates = q.mutates
          /\ \/ q1.pc = "clear" /\ q1.todo = Part
             \/ q1.pc = "clearSync" /\ q.url \notin Tracked(chain)
      BY <3>1 DEF Invalidates, FrontRecord, FrontPc
    <3>3. req' = [req EXCEPT ![r] = q1] /\ net' = [net EXCEPT ![r] = net[r]]
      BY <1>1, <2>3, <3>1
    <3>4. /\ DOMAIN lists' = Req /\ \A x \in Req : Chained(lists'[x])
          /\ lists'[field'] = Remove(chain, q.url)
      BY <2>2, <2>3
    <3>5. /\ CurrentChain'.count <= chain.count
          /\ Tracked(CurrentChain') = Tracked(chain) \ {q.url}
          /\ q.url \notin Tracked(chain) => Tracked(CurrentChain') = Tracked(chain)
      BY <2>1, <2>2, <3>4
    <3>6. PICK n : n = net[r]
      OBVIOUS
    <3>7. n \in FetchRecord /\ net' = [net EXCEPT ![r] = n] /\ n.state = "none"
      BY <1>1, <3>3, <3>6
    <3> QED
      BY <2>3, <3>2, <3>3, <3>4, <3>5, <3>7
  <2>4. CASE lists' = ls /\ req' = [req EXCEPT ![r] = [q EXCEPT !.pc = "race"]] /\ StartFetch(r)
    <3>1. PICK q1 : q1 = [q EXCEPT !.pc = "race"]
      OBVIOUS
    <3>2. /\ q1 \in FrontRecord /\ q1.url = q.url /\ q1.lru = q.lru /\ q1.floor = q.floor
          /\ q1.mutates = q.mutates /\ q1.pc = "race"
      BY <3>1 DEF FrontRecord, FrontPc
    <3>3. req' = [req EXCEPT ![r] = q1] /\ net' = [net EXCEPT ![r] = Fetching]
      BY <2>4, <3>1 DEF StartFetch
    <3> QED
      BY <1>1, <2>1, <2>2, <2>4, <3>2, <3>3
  <2>5. CASE lists' = ls /\ req' = [req EXCEPT ![r] = [q EXCEPT !.pc = "match"]] /\ UNCHANGED net
    <3>1. PICK q1 : q1 = [q EXCEPT !.pc = "match"]
      OBVIOUS
    <3>2. /\ q1 \in FrontRecord /\ q1.url = q.url /\ q1.lru = q.lru /\ q1.floor = q.floor
          /\ q1.mutates = q.mutates /\ q1.pc = "match"
      BY <3>1 DEF FrontRecord, FrontPc
    <3>3. req' = [req EXCEPT ![r] = q1] /\ net' = [net EXCEPT ![r] = net[r]]
      BY <1>1, <2>5, <3>1
    <3> QED
      BY <1>1, <2>1, <2>2, <2>5, <3>2, <3>3
  <2> QED
    BY <2>3, <2>4, <2>5 DEF Enter
<1>3. FrontShape(r, q1, field', server)
  BY <1>1, <1>2 DEF FrontShape
<1>4. PICK T, k : T = Tracked(chain) /\ k = chain.count
  OBVIOUS
<1>5. k \in Nat /\ CurrentChain'.count <= k
  BY <1>2, <1>4, ChainTypes
<1>6. \/ /\ q1.mutates /\ q1.pc = "clear" /\ q1.todo = Part
         /\ Tracked(CurrentChain') = T \ {q1.url}
      \/ /\ q1.mutates /\ q1.pc = "clearSync" /\ q1.url \notin T
         /\ Tracked(CurrentChain') = T
      \/ q1.pc \in {"race", "match"} /\ Tracked(CurrentChain') = T
  BY <1>2, <1>4
<1>7. /\ \A u \in Url \ raced' : StoreGood(u, T, Tracked(savedLru))
      /\ raced' = {} => k + Cardinality(Evicting(cacher)) <= Limit
  BY <1>4
<1> QED
  BY <1>2, <1>3, <1>5, <1>6, <1>7, EnterMoves

\* A request arrives, and goes on at once if the chain was read before.
LEMMA BeginKeeps ==
  ASSUME NEW r \in Req, NEW u \in Url, NEW m \in BOOLEAN, IInv, Races, Overtakes, setting' = setting,
         Begin(r, u, m)
  PROVE  IInv'
<1>1. /\ req[r] \in FrontRecord /\ cacher[r] \in CacherRecord /\ net[r] \in FetchRecord
      /\ cacher = [cacher EXCEPT ![r] = cacher[r]] /\ net = [net EXCEPT ![r] = net[r]]
      /\ NetShape(req[r], cacher[r], net[r]) /\ NoReq \notin Req /\ field \in Req \cup {NoReq}
      /\ DOMAIN lists = Req /\ \A x \in Req : Chained(lists[x])
      /\ server \in [Url -> Version] /\ server[u] <= server[u]
  BY AtRequest
<1>2. PICK q0 : q0 = [NoRequest EXCEPT !.url = u, !.mutates = m, !.floor = server[u]]
  OBVIOUS
<1>3. /\ req[r].pc \in Ended /\ cacher[r].pc = "off" /\ r \in setting.reqs
      /\ UNCHANGED <<cached, savedLru, server, field, cacher>>
  BY DEF Begin, Idle, Running, Storage, World
<1>4. q0 \in FrontRecord /\ q0.url = u /\ q0.floor = server[u] /\ q0.lru = NoReq
  BY <1>1, <1>2, Nothing DEF FrontRecord, NoRequest
<1>5. CASE field = NoReq
  <2>1. PICK q : q = [q0 EXCEPT !.pc = "readLru"]
    OBVIOUS
  <2>2. /\ q \in FrontRecord /\ q.pc = "readLru" /\ q.url = u /\ q.floor = server[u] /\ q.lru = NoReq
    BY <1>4, <2>1 DEF FrontRecord, FrontPc
  <2>3. req' = [req EXCEPT ![r] = q] /\ UNCHANGED <<lists, net>>
    BY <1>2, <1>5, <2>1 DEF Begin
  <2>4. /\ FrontShape(r, q, field, server) /\ CacherShape(r, q, cacher[r], field)
        /\ NetShape(q, cacher[r], net[r])
    BY <1>1, <1>3, <1>5, <2>2 DEF FrontShape, CacherShape, NetShape, Ended
  <2>5. ASSUME NEW v \in Url \ (raced' \cup overtaken')
        PROVE  Current(q, cacher[r], net[r], cached, v, server[v])
    BY <2>2, HeldNow DEF Current
  <2>6. cacher' = [cacher EXCEPT ![r] = cacher[r]] /\ net' = [net EXCEPT ![r] = net[r]]
    BY <1>1, <1>3, <2>3
  <2>7. /\ q.pc \notin {"clear", "purge", "readAge"} /\ req[r].pc \notin {"clear", "purge"}
        /\ req[r].pc \notin {"clearSync", "purgeSync"}
    BY <1>3, <2>2 DEF Ended
  <2> QED
    BY <1>1, <1>3, <2>2, <2>3, <2>4, <2>5, <2>6, <2>7, HeldKeeps
<1>6. CASE field # NoReq
  <2>1. PICK q : q = [q0 EXCEPT !.lru = field]
    OBVIOUS
  <2>2. Enter(r, q, lists) /\ field \in Req
    BY <1>1, <1>2, <1>6, <2>1 DEF Begin
  <2>3. q \in FrontRecord /\ q.url = u /\ q.floor = server[u] /\ q.lru = field
    BY <1>4, <2>1, <2>2 DEF FrontRecord
  <2>4. PICK chain : chain = lists[field]
    OBVIOUS
  <2>5. CurrentChain = chain
    BY <2>2, <2>4, AtRequest
  <2>6. ASSUME NEW v \in Url \ raced' PROVE StoreGood(v, Tracked(chain), Tracked(savedLru))
    BY <2>5, AtUrl
  <2>7. raced' = {} => chain.count + Cardinality(Evicting(cacher)) <= Limit
    BY <2>5 DEF Races, IInv, SizeGood
  <2> QED
    BY <1>1, <1>3, <2>2, <2>3, <2>4, <2>6, <2>7, EnterKeeps
<1> QED
  BY <1>5, <1>6

\* A request has read the chain; where it replaces one, nothing was unwritten but of raced URLs.
LEMMA ReadLruKeeps ==
  ASSUME NEW r \in Req, IInv, Races, Overtakes, setting' = setting, ReadLru(r)
  PROVE  IInv'
<1>1. /\ req[r] \in FrontRecord /\ cacher[r] \in CacherRecord
      /\ FrontShape(r, req[r], field, server) /\ CacherShape(r, req[r], cacher[r], field)
      /\ DOMAIN lists = Req /\ \A x \in Req : Chained(lists[x])
      /\ Chained(savedLru) /\ NoReq \notin Req /\ raced \subseteq Url
  BY AtRequest DEF IInv, Watched
<1>2. /\ req[r].pc = "readLru" /\ field' = r /\ field # r
      /\ UNCHANGED <<cached, savedLru, server, cacher, restarts>>
  BY <1>1 DEF ReadLru, Storage, World, FrontShape, Ended
<1>3. cacher[r].pc = "off" /\ req[r].url \in Url /\ r \in setting.reqs /\ req[r].floor <= server[req[r].url]
  BY <1>1, <1>2 DEF CacherShape, FrontShape, Ended
<1>4. PICK q, ls : q = [req[r] EXCEPT !.lru = r] /\ ls = [lists EXCEPT ![r] = savedLru]
  OBVIOUS
<1>5. q \in FrontRecord /\ q.url = req[r].url /\ q.floor = req[r].floor /\ q.lru = r
  BY <1>1, <1>4 DEF FrontRecord
<1>6. DOMAIN ls = Req /\ \A x \in Req : Chained(ls[x]) /\ savedLru = ls[r]
  BY <1>1, <1>4
<1>7. Enter(r, q, ls)
  BY <1>4 DEF ReadLru
<1>8. field # NoReq => Reloads
  BY <1>2 DEF Reloads
<1>9. ASSUME NEW u \in Url \ raced'
      PROVE  StoreGood(u, Tracked(savedLru), Tracked(savedLru))
  <2>1. StoreGood(u, Tracked(CurrentChain), Tracked(savedLru))
    BY AtUrl
  <2>2. CASE field = NoReq
    BY <2>1, <2>2 DEF CurrentChain
  <2>3. CASE field # NoReq
    <3>1. ~WritesFail /\ ~Unwritten(u)
      BY <1>8, <2>3 DEF Races, Unsaved
    <3>2. /\ ~Deleted(u) /\ ~Stored(u)
          /\ \A x \in Req : ~HasDeleted(req[x], cacher[x], u) /\ ~Stores(cacher[x], u)
      BY <3>1 DEF Unwritten, Deleted, Stored, HasDeleted, Stores
    <3> QED
      BY <2>1, <3>1, <3>2 DEF StoreGood
  <2> QED
    BY <2>2, <2>3
<1>10. ASSUME raced' = {} PROVE savedLru.count + Cardinality(Evicting(cacher)) <= Limit
  <2>1. raced = {}
    BY <1>1, <1>10 DEF Races
  <2>2. SizeGood
    BY <2>1 DEF IInv
  <2>3. CASE field = NoReq
    BY <2>2, <2>3 DEF SizeGood, CurrentChain
  <2>4. CASE field # NoReq
    <3>1. \A u \in Url : ~Unwritten(u)
      BY <1>8, <1>10, <2>4 DEF Races, Unsaved
    <3>2. \A x \in Req : CacherShape(x, req[x], cacher[x], field)
      BY DEF IInv, Shapes
    <3>3. Evicting(cacher) = {}
      BY <3>1, <3>2 DEF Evicting, CacherShape, Unwritten
    <3>4. Cardinality(Evicting(cacher)) = 0
      BY <3>3, FS_EmptySet
    <3>5. savedLru.count <= Limit /\ savedLru.count \in Nat
      BY <1>1, <2>2, ChainTypes DEF SizeGood
    <3> QED
      BY <3>4, <3>5
  <2> QED
    BY <2>3, <2>4
<1> QED
  <2>1. PICK chain : chain = savedLru
    OBVIOUS
  <2> QED
    BY <1>1, <1>2, <1>3, <1>5, <1>6, <1>7, <1>9, <1>10, <2>1, EnterKeeps

-------------------------------------------------------------------------------
(***************************************************************************)
(* What concerns no request, the restart, and all steps together.          *)
(***************************************************************************)
\* Time, a cleanup and stuttering change nothing the invariant speaks of.
LEMMA IdleKeeps ==
  ASSUME IInv, setting' = setting,
         UNCHANGED <<cached, savedLru, lists, field, req, cacher, net, server>>,
         (Races /\ Overtakes) \/ UNCHANGED <<raced, overtaken>>
  PROVE  IInv'
<1>1. /\ raced \subseteq Url /\ overtaken \subseteq Url /\ Shapes /\ setting \in Setting
      /\ \A u \in Url : Contested(u) \/ Orphaned(u) => u \in raced
      /\ \A u \in Url : Overtaken(u) => u \in overtaken
  BY DEF IInv, Watched
<1>2. /\ \A u \in Url : (Contested(u)' <=> Contested(u)) /\ (Orphaned(u)' <=> Orphaned(u))
      /\ \A u \in Url : Overtaken(u)' <=> Overtaken(u)
  BY DEF Contested, Deleted, Used, Orphaned, Overtaken, Handles, Running
<1>3. /\ raced \subseteq raced' /\ overtaken \subseteq overtaken'
      /\ raced' \subseteq Url /\ overtaken' \subseteq Url
  BY <1>1 DEF Races, Overtakes, Unsaved
<1>4. Watched'
  BY <1>1, <1>2, <1>3 DEF Watched
<1>5. Shapes'
  BY <1>1 DEF Shapes, Cached, Chained, FrontShape, CacherShape, NetShape
<1>6. CurrentChain' = CurrentChain
  BY DEF CurrentChain
<1>7. ASSUME NEW u \in Url \ raced'
      PROVE  StoreGood(u, Tracked(CurrentChain), Tracked(savedLru))'
  <2>1. StoreGood(u, Tracked(CurrentChain), Tracked(savedLru))
    BY <1>3 DEF IInv
  <2> QED
    BY <1>6, <2>1 DEF StoreGood, Tracked, Cached, Deleted, Stored, Unwritten, HasDeleted, Stores,
                      WritesFail
<1>8. ASSUME NEW u \in Url \ (raced' \cup overtaken')
      PROVE  FreshGood(u)'
  <2>1. FreshGood(u)
    BY <1>3 DEF IInv
  <2> QED
    BY <2>1 DEF FreshGood, Current, Cached
<1>9. ASSUME raced' = {} PROVE SizeGood'
  <2>1. SizeGood
    BY <1>3, <1>9 DEF IInv
  <2> QED
    BY <1>6, <2>1 DEF SizeGood, Evicting, Limit, Room, MaxSize
<1> QED
  BY <1>1, <1>4, <1>5, <1>7, <1>8, <1>9 DEF IInv

\* The limit is at least the room for one request.
LEMMA LimitIsNat ==
  ASSUME setting \in Setting
  PROVE  Limit \in Nat
<1>1. setting.maxSize \in Nat /\ setting.reqs # {} /\ IsFiniteSet(setting.reqs)
  BY SettingFields
<1>2. PICK n : n = Cardinality(setting.reqs)
  OBVIOUS
<1>3. n \in Nat /\ n # 0
  BY <1>1, <1>2, FS_CardinalityType, FS_EmptySet
<1> QED
  BY <1>1, <1>2, <1>3 DEF Limit, Room, MaxSize

\* A worker that starts: nothing is under way, whatever is on disk agrees.
Started ==
  /\ setting \in Setting /\ field = NoReq /\ lists = [x \in Req |-> EmptyChain]
  /\ Chained(savedLru) /\ server \in [Url -> Version]
  /\ Cached \subseteq Url /\ \A u \in Cached : cached[u] \in Version
  /\ req \in [Req -> FrontRecord] /\ \A x \in Req : req[x].pc \in Ended
  /\ cacher = [x \in Req |-> NotCaching] /\ net = [x \in Req |-> NoFetch]
  /\ raced \subseteq Url /\ overtaken \subseteq Url
  /\ \A u \in Url \ raced : u \in Cached <=> u \in Tracked(savedLru)
  /\ \A u \in Url \ (raced \cup overtaken) : u \in Cached => cached[u] = server[u]
  /\ raced = {} => savedLru.count <= Limit

\* A worker that starts has the invariant, ...
LEMMA StartIsGood == Started => IInv
<1> SUFFICES ASSUME Started PROVE IInv
  OBVIOUS
<1> USE DEF Started
<1>1. /\ cacher \in [Req -> CacherRecord] /\ net \in [Req -> FetchRecord]
      /\ \A x \in Req : cacher[x].pc = "off" /\ net[x].state = "none"
  BY Nothing DEF NotCaching, NoFetch
<1>2. Shapes
  <2>1. ASSUME NEW x \in Req
        PROVE  /\ FrontShape(x, req[x], field, server) /\ CacherShape(x, req[x], cacher[x], field)
               /\ NetShape(req[x], cacher[x], net[x])
    BY <1>1 DEF FrontShape, CacherShape, NetShape
  <2>2. DOMAIN lists = Req /\ \A x \in Req : Chained(lists[x])
    BY ChainEmpty
  <2> QED
    BY <1>1, <2>1, <2>2 DEF Shapes
<1>3. ASSUME NEW x \in Req
      PROVE  ~Running(x) /\ req[x].pc \notin {"clear", "purge", "readAge", "clearSync", "purgeSync",
                                             "race", "send"}
  BY DEF Running, Ended
<1>4. Watched
  BY <1>1, <1>3 DEF Watched, Contested, Deleted, Used, Orphaned, Overtaken
<1>5. CurrentChain = savedLru
  BY DEF CurrentChain
<1>6. ASSUME NEW u \in Url \ raced
      PROVE  StoreGood(u, Tracked(CurrentChain), Tracked(savedLru))
  <2>1. /\ ~Deleted(u)
        /\ \A x \in Req : ~HasDeleted(req[x], cacher[x], u) /\ ~Stores(cacher[x], u)
    BY <1>1, <1>3 DEF Deleted, HasDeleted, Stores
  <2> QED
    BY <1>3, <1>5, <2>1 DEF StoreGood
<1>7. ASSUME NEW u \in Url \ (raced \cup overtaken)
      PROVE  FreshGood(u)
  BY <1>1, <1>3 DEF FreshGood, Current
<1>8. ASSUME raced = {} PROVE SizeGood
  <2>1. Evicting(cacher) = {}
    BY <1>1 DEF Evicting
  <2>2. Cardinality(Evicting(cacher)) = 0
    BY <2>1, FS_EmptySet
  <2>3. savedLru.count \in Nat
    BY ChainTypes
  <2> QED
    BY <1>5, <1>8, <2>2, <2>3 DEF SizeGood
<1> QED
  BY <1>2, <1>4, <1>6, <1>7, <1>8 DEF IInv

\* ... and so has one that is started again.
LEMMA StartIsGoodNext == Started' => IInv'
BY StartIsGood, PTL

\* A restart drops what was under way; what was unwritten counts as raced.
LEMMA RestartKeeps ==
  ASSUME IInv, Races, Overtakes, setting' = setting, Restart, restarts \in Nat
  PROVE  IInv'
<1>1. /\ raced \subseteq Url /\ overtaken \subseteq Url /\ Shapes /\ setting \in Setting
  BY DEF IInv, Watched
<1>2. /\ raced \subseteq raced' /\ overtaken \subseteq overtaken'
      /\ raced' \subseteq Url /\ overtaken' \subseteq Url
  BY <1>1 DEF Races, Overtakes, Unsaved
<1>3. /\ field' = NoReq /\ lists' = [x \in Req |-> EmptyChain] /\ server' = server
      /\ cacher' = [x \in Req |-> NotCaching] /\ net' = [x \in Req |-> NoFetch]
      /\ cached' = IF "cache" \in doomed THEN <<>> ELSE cached
      /\ savedLru' = IF "lru" \in doomed THEN EmptyChain ELSE savedLru
      /\ restarts' # restarts
  BY DEF Restart
<1>4. /\ req' \in [Req -> FrontRecord] /\ \A x \in Req : req'[x].pc \in Ended
  <2>1. PICK q : q = [NoRequest EXCEPT !.pc = "dropped"]
    OBVIOUS
  <2>2. /\ q \in FrontRecord /\ q.pc = "dropped" /\ NoRequest \in FrontRecord
        /\ NoRequest.pc = "answered"
    BY <2>1, Nothing DEF FrontRecord, FrontPc, Ended, NoRequest
  <2>3. req' = [x \in Req |-> IF Running(x) THEN q ELSE NoRequest]
    BY <2>1 DEF Restart
  <2> QED
    BY <2>2, <2>3 DEF Ended
<1>5. /\ Chained(savedLru) /\ Cached \subseteq Url /\ \A u \in Cached : cached[u] \in Version
      /\ server \in [Url -> Version] /\ savedLru.count \in Nat
      /\ Chained(EmptyChain) /\ Tracked(EmptyChain) = {} /\ EmptyChain.count = 0
  BY <1>1, ChainTypes, ChainEmpty DEF Shapes, EmptyChain
<1>6. Cached' = IF "cache" \in doomed THEN {} ELSE Cached
  BY <1>3 DEF Cached
<1>7. /\ Chained(savedLru') /\ Cached' \subseteq Url
      /\ \A u \in Cached' : cached'[u] = cached[u] /\ u \in Cached
  BY <1>3, <1>5, <1>6
<1>8. ASSUME NEW u \in Url \ raced'
      PROVE  u \in Cached' <=> u \in Tracked(savedLru')
  <2>1. ~WritesFail /\ ~Unwritten(u) /\ doomed \in {{}, {"cache", "age", "lru"}}
    BY <1>3 DEF Races, Unsaved, Reloads
  <2>2. StoreGood(u, Tracked(CurrentChain), Tracked(savedLru)) /\ ~Deleted(u)
    BY <1>2, <2>1 DEF IInv, Unwritten, Deleted
  <2>3. u \in Cached <=> u \in Tracked(savedLru)
    BY <2>1, <2>2 DEF StoreGood
  <2> QED
    BY <1>3, <1>5, <1>6, <2>1, <2>3
<1>9. ASSUME NEW u \in Url \ (raced' \cup overtaken'), u \in Cached'
      PROVE  cached'[u] = server'[u]
  <2>1. FreshGood(u)
    BY <1>2 DEF IInv
  <2> QED
    BY <1>3, <1>7, <1>9, <2>1 DEF FreshGood
<1>10. ASSUME raced' = {} PROVE savedLru'.count <= Limit'
  <2>1. SizeGood
    BY <1>2, <1>10 DEF IInv
  <2>2. Limit \in Nat /\ Limit' = Limit
    BY <1>1, LimitIsNat DEF Limit, Room, MaxSize
  <2> QED
    BY <1>3, <1>5, <2>1, <2>2 DEF SizeGood
<1>11. Started'
  <2>1. /\ Chained(savedLru)' /\ (Cached \subseteq Url)' /\ (\A u \in Cached : cached[u] \in Version)'
    BY <1>5, <1>7 DEF Chained
  <2>2. (\A u \in Url \ raced : u \in Cached <=> u \in Tracked(savedLru))'
    BY <1>8 DEF Tracked
  <2>3. /\ (\A u \in Url \ (raced \cup overtaken) : u \in Cached => cached[u] = server[u])'
        /\ (raced = {} => savedLru.count <= Limit)'
    BY <1>9, <1>10
  <2> QED
    BY <1>1, <1>2, <1>3, <1>4, <1>5, <2>1, <2>2, <2>3 DEF Started
<1> QED
  BY <1>11, StartIsGoodNext

\* The first start.
LEMMA InitHolds == Init => IInv /\ restarts \in Nat
<1> SUFFICES ASSUME Init PROVE IInv /\ restarts \in Nat
  OBVIOUS
<1>1. /\ NoRequest \in FrontRecord /\ NoRequest.pc \in Ended /\ 0 \in Version
  BY Nothing, SettingAssumption DEF NoRequest, Ended, Version
<1>2. /\ Chained(savedLru) /\ Tracked(savedLru) = {} /\ savedLru.count = 0
  BY ChainEmpty DEF Init, EmptyChain
<1>3. Cached = {} /\ raced = {} /\ overtaken = {} /\ setting \in Setting
  BY DEF Init, Cached
<1>4. savedLru.count <= Limit
  BY <1>2, <1>3, LimitIsNat
<1>5. /\ req \in [Req -> FrontRecord] /\ \A x \in Req : req[x].pc \in Ended
      /\ server \in [Url -> Version]
  BY <1>1 DEF Init
<1>6. Started
  BY <1>2, <1>3, <1>4, <1>5 DEF Started, Init
<1> QED
  BY <1>6, StartIsGood DEF Init

\* Every step keeps the invariant.
LEMMA NextKeeps ==
  IInv /\ restarts \in Nat /\ [Next]_<<vars, raced, overtaken, setting>> => IInv'
<1> SUFFICES ASSUME IInv, restarts \in Nat, [Next]_<<vars, raced, overtaken, setting>> PROVE IInv'
  OBVIOUS
<1>1. CASE UNCHANGED <<vars, raced, overtaken, setting>>
  BY <1>1, IdleKeeps DEF vars
<1>2. CASE Next
  <2>1. Races /\ Overtakes /\ setting' = setting
    BY <1>2 DEF Next
  <2>2. ASSUME NEW r \in Req, NEW u \in Url, NEW m \in BOOLEAN, Begin(r, u, m) PROVE IInv'
    BY <2>1, <2>2, BeginKeeps
  <2>3. ASSUME NEW r \in Req, FrontStep(r) PROVE IInv'
    <3>1. CASE ReadLru(r)
      BY <2>1, <3>1, ReadLruKeeps
    <3>2. CASE Match(r)
      BY <2>1, <3>2, MatchKeeps
    <3>3. CASE AgeAccepted(r)
      BY <2>1, <3>3, AgeAcceptedKeeps
    <3>4. CASE AgeRejected(r)
      BY <2>1, <3>4, AgeRejectedKeeps
    <3>5. ASSUME NEW part \in Part, FrontDeletes(r, part) PROVE IInv'
      BY <2>1, <3>5, FrontDeletesKeeps
    <3>6. CASE MutationSyncs(r) \/ PurgeSyncs(r)
      BY <2>1, <3>6, SyncsKeep
    <3>7. CASE \/ MutationSyncFails(r) \/ MutationOffline(r) \/ PurgeSyncFails(r)
               \/ RaceRejected(r) \/ InlineAnswers(r) \/ FallBackAnswers(r)
      BY <2>1, <3>7, EndingsKeep
    <3>8. CASE MutationSent(r)
      BY <2>1, <3>8, MutationSentKeeps
    <3>9. CASE RaceAnswered(r)
      BY <2>1, <3>9, ReceivesKeep
    <3>10. CASE RaceLost(r)
      BY <2>1, <3>10, RaceLostKeeps
    <3> QED
      BY <2>3, <3>1, <3>2, <3>3, <3>4, <3>5, <3>6, <3>7, <3>8, <3>9, <3>10 DEF FrontStep
  <2>4. ASSUME NEW r \in Req, CacherStep(r) PROVE IInv'
    <3>1. CASE CacherReceives(r)
      BY <2>1, <3>1, ReceivesKeep
    <3>2. ASSUME NEW part \in Part, CacherEvicts(r, part) PROVE IInv'
      BY <2>1, <3>2, CacherEvictsKeeps
    <3>3. CASE CacherPuts(r)
      BY <2>1, <3>3, CacherPutsKeeps
    <3>4. CASE CacherStamps(r)
      BY <2>1, <3>4, CacherStampsKeeps
    <3>5. CASE CacherSyncs(r)
      BY <2>1, <3>5, SyncsKeep
    <3>6. CASE CacherFails(r)
      BY <2>1, <3>6, CacherFailsKeeps
    <3> QED
      BY <2>4, <3>1, <3>2, <3>3, <3>4, <3>5, <3>6 DEF CacherStep
  <2>5. ASSUME NEW r \in Req, NetAnswers(r) PROVE IInv'
    BY <2>1, <2>5, NetAnswersKeeps
  <2>6. ASSUME NEW u \in Url, GrowOld(u) PROVE IInv'
    BY <2>1, <2>6, IdleKeeps DEF GrowOld, Chains, World
  <2>7. ASSUME NEW part \in {"cache", "age", "lru"}, Cleanup(part) PROVE IInv'
    BY <2>1, <2>7, IdleKeeps DEF Cleanup, Chains, Storage
  <2>8. CASE Restart
    BY <2>1, <2>8, RestartKeeps
  <2> QED
    BY <1>2, <2>2, <2>3, <2>4, <2>5, <2>6, <2>7, <2>8 DEF Next
<1> QED
  BY <1>1, <1>2

\* The number of restarts is a number.
LEMMA NextCounts ==
  restarts \in Nat /\ [Next]_<<vars, raced, overtaken, setting>> => restarts' \in Nat
<1> SUFFICES ASSUME restarts \in Nat, [Next]_<<vars, raced, overtaken, setting>>
             PROVE  restarts' \in {restarts, restarts + 1}
  OBVIOUS
<1>1. CASE UNCHANGED <<vars, raced, overtaken, setting>>
  BY <1>1 DEF vars
<1>2. ASSUME NEW r \in Req, NEW u \in Url, NEW m \in BOOLEAN, Begin(r, u, m)
      PROVE  restarts' = restarts
  BY <1>2 DEF Begin, World
<1>3. ASSUME NEW r \in Req, FrontStep(r) PROVE restarts' = restarts
  BY <1>3 DEF FrontStep, World, ReadLru, Match, AgeAccepted, AgeRejected, FrontDeletes, PurgeSyncs,
              PurgeSyncFails, MutationSyncs, MutationSyncFails, MutationSent, MutationOffline,
              RaceAnswered, RaceLost, RaceRejected, InlineAnswers, FallBackAnswers
<1>4. ASSUME NEW r \in Req, CacherStep(r) \/ NetAnswers(r) PROVE restarts' = restarts
  BY <1>4 DEF CacherStep, World, CacherReceives, CacherEvicts, CacherPuts, CacherStamps, CacherSyncs,
              CacherFails, NetAnswers
<1>5. ASSUME NEW u \in Url, GrowOld(u) PROVE restarts' = restarts
  BY <1>5 DEF GrowOld, World
<1>6. ASSUME NEW part \in {"cache", "age", "lru"}, Cleanup(part) PROVE restarts' = restarts
  BY <1>6 DEF Cleanup
<1>7. CASE Restart
  BY <1>7 DEF Restart
<1> QED
  BY <1>1, <1>2, <1>3, <1>4, <1>5, <1>6, <1>7 DEF Next

\* The invariant of a data group, for any number of requests.
THEOREM Invariant == Spec => []IInv
<1>1. Init => IInv /\ restarts \in Nat
  BY InitHolds
<1>2. IInv /\ restarts \in Nat /\ [Next]_<<vars, raced, overtaken, setting>>
        => IInv' /\ (restarts \in Nat)'
  BY NextKeeps, NextCounts
<1> QED
  BY <1>1, <1>2, PTL DEF Spec

\* The chain in memory and the responses agree, except for URLs that two requests changed at
\* once, or that were changed while the chain was read anew: InSync for any number of requests.
THEOREM InSyncCorrect == Spec => []InSync
<1>1. ASSUME IInv PROVE InSync
  BY <1>1 DEF IInv, InSync, StoreGood, Stays
<1> QED
  BY <1>1, Invariant, PTL

\* If no write fails, the chain on disk knows the responses whose caching is over, with the
\* same exceptions: SavedInSync for any number of requests and restarts.
THEOREM SavedCorrect == Spec => []SavedInSync
<1>1. ASSUME IInv PROVE SavedInSync
  BY <1>1 DEF IInv, SavedInSync, StoreGood, Stays
<1> QED
  BY <1>1, Invariant, PTL

\* While no URL was raced, the responses are no more than maxSize, or one where that is 0,
\* and one for each further request in flight: WithinMaxSize for any number of requests.
THEOREM SizeCorrect == Spec => []WithinMaxSize
<1>1. ASSUME IInv PROVE WithinMaxSize
  <2> SUFFICES ASSUME raced = {}
               PROVE  Cardinality({u \in Url : Stays(u)}) <= Limit
    BY DEF WithinMaxSize, Limit, Room
  <2>1. SizeGood /\ Shapes /\ setting \in Setting
    BY <1>1 DEF IInv
  <2>2. Chained(CurrentChain)
    BY <2>1 DEF Shapes, CurrentChain
  <2>3. PICK A, T, k, e : /\ A = {u \in Url : Stays(u)} /\ T = Tracked(CurrentChain)
                          /\ k = CurrentChain.count /\ e = Cardinality(Evicting(cacher))
    OBVIOUS
  <2>4. \A u \in Url : Stays(u) => u \in T
    BY <1>1, <2>3 DEF IInv, StoreGood, Stays
  <2>5. IsFiniteSet(T) /\ k = Cardinality(T) /\ k \in Nat /\ A \in SUBSET T
    BY <2>2, <2>3, <2>4, ChainTypes
  <2>6. Cardinality(A) <= k /\ Cardinality(A) \in Nat
    BY <2>5, FS_Subset, FS_CardinalityType
  <2>7. e \in Nat
    <3>1. Evicting(cacher) \in SUBSET Req
      BY DEF Evicting
    <3> QED
      BY <2>3, <3>1, SettingAssumption, FS_Subset, FS_CardinalityType
  <2>8. k + e <= Limit /\ Limit \in Nat
    BY <2>1, <2>3, LimitIsNat DEF SizeGood
  <2> QED
    BY <2>3, <2>5, <2>6, <2>7, <2>8
<1> QED
  BY <1>1, Invariant, PTL

\* No request is answered from the cache with data older than the server had when it began,
\* unless a mutation of the URL has met another request for it, or the URL was raced:
\* NoStaleAfterMutation for any number of requests, the late caching of an answer included.
THEOREM FreshCorrect == Spec => NoStaleAfterMutation
<1>1. ASSUME IInv, NEW r \in Req, AgeAccepted(r), req[r].url \notin raced \cup overtaken
      PROVE  req[r].ver >= req[r].floor
  <2>1. /\ req[r] \in FrontRecord /\ FrontShape(r, req[r], field, server)
        /\ server \in [Url -> Version] /\ req[r].pc = "readAge"
    BY <1>1, AtRequest DEF AgeAccepted
  <2>2. req[r].url \in Url /\ req[r].floor <= server[req[r].url]
    BY <2>1 DEF FrontShape, Ended
  <2>3. FreshGood(req[r].url)
    BY <1>1, <2>2 DEF IInv
  <2>4. req[r].ver = server[req[r].url]
    BY <2>1, <2>3 DEF FreshGood, Current
  <2>5. PICK a, b : a = req[r].floor /\ b = server[req[r].url]
    OBVIOUS
  <2>6. a \in Nat /\ b \in Nat /\ a <= b
    BY <2>1, <2>2, <2>5, SettingAssumption DEF FrontRecord, Version
  <2> QED
    BY <2>4, <2>5, <2>6
<1>2. IInv => [\A r \in Req : AgeAccepted(r) /\ req[r].url \notin raced \cup overtaken
                               => req[r].ver >= req[r].floor]_vars
  BY <1>1
<1> QED
  BY <1>2, Invariant, PTL DEF NoStaleAfterMutation
===============================================================================
