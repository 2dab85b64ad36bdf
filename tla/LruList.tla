------------------------------- MODULE LruList -------------------------------
(***************************************************************************)
(* The LRU chain of a data group: class LruList of                         *)
(* packages/service-worker/worker/src/data.ts.                             *)
(*                                                                         *)
(* The chain is a doubly linked list kept in a plain object so that it can *)
(* be written to the database: `head` and `tail` are URLs, and `map` gives *)
(* every URL of the chain its `previous` (more recent) and `next` (less    *)
(* recent) neighbour.  A node's own `url` field is its key in `map`.  Every *)
(* method of the class runs to completion without an await, so each is an  *)
(* operator from the state before it to the state after it.                *)
(***************************************************************************)
EXTENDS Naturals

CONSTANTS Url,     \* the URLs a group may be asked for
          NoUrl    \* the `null` that ends the chain

ASSUME NoUrlAssumption == NoUrl \notin Url

Node == [previous : Url \cup {NoUrl}, next : Url \cup {NoUrl}]

LruState == [head  : Url \cup {NoUrl},
             tail  : Url \cup {NoUrl},
             map   : UNION {[U -> Node] : U \in SUBSET Url},
             count : Nat]

Tracked(s) == DOMAIN s.map

EmptyChain == [head |-> NoUrl, tail |-> NoUrl, map |-> [u \in {} |-> NoUrl], count |-> 0]

(***************************************************************************)
(* remove(): the three cases of the method, in its order.                  *)
(***************************************************************************)
RemoveHead(s) ==
  LET second == s.map[s.head].next
  IN  IF second = NoUrl
      THEN EmptyChain
      ELSE [head  |-> second,
            tail  |-> s.tail,
            map   |-> [u \in Tracked(s) \ {s.head} |->
                         [previous |-> IF u = second THEN NoUrl ELSE s.map[u].previous,
                          next     |-> s.map[u].next]],
            count |-> s.count - 1]

RemoveInner(s, url) ==
  LET before == s.map[url].previous
      after  == s.map[url].next
  IN  [head  |-> s.head,
       tail  |-> IF after = NoUrl THEN before ELSE s.tail,
       map   |-> [u \in Tracked(s) \ {url} |->
                    [previous |-> IF u = after  THEN before ELSE s.map[u].previous,
                     next     |-> IF u = before THEN after  ELSE s.map[u].next]],
       count |-> s.count - 1]

Remove(s, url) ==
  IF url \notin Tracked(s) THEN s
  ELSE IF url = s.head     THEN RemoveHead(s)
                           ELSE RemoveInner(s, url)

\* Fault: pop() takes the wrong end.
VictimIsHead(s) == s.head

\* pop(): the URL it evicts, NoUrl when the chain is empty, and the chain left.
Victim(s) == s.tail
Pop(s) == IF Victim(s) = NoUrl THEN s ELSE Remove(s, Victim(s))

(***************************************************************************)
(* accessed(): unlink the node if it is in the chain, insert it as head.   *)
(***************************************************************************)
PushFront(s, url) ==
  [head  |-> url,
   tail  |-> IF s.tail = NoUrl THEN url ELSE s.tail,
   map   |-> [u \in Tracked(s) \cup {url} |->
                IF u = url THEN [previous |-> NoUrl, next |-> s.head]
                ELSE [previous |-> IF u = s.head THEN url ELSE s.map[u].previous,
                      next     |-> s.map[u].next]],
   count |-> s.count + 1]

\* Fault: a URL already in the chain keeps its place.
AccessedKeepsPlace(s, url) == IF url \in Tracked(s) THEN s ELSE PushFront(s, url)

Accessed(s, url) == IF s.head = url THEN s ELSE PushFront(Remove(s, url), url)

(***************************************************************************)
(* The shape every method must preserve: neighbours point at each other,   *)
(* only the head has no previous, only the tail has no next.               *)
(***************************************************************************)
EndsLinked(s) ==
  /\ s.head = NoUrl <=> Tracked(s) = {}
  /\ s.tail = NoUrl <=> Tracked(s) = {}
  /\ s.head # NoUrl => s.head \in Tracked(s)
  /\ s.tail # NoUrl => s.tail \in Tracked(s)
  /\ \A u \in Tracked(s) : /\ s.map[u].previous = NoUrl <=> u = s.head
                           /\ s.map[u].next = NoUrl <=> u = s.tail

NeighboursLinked(s) ==
  \A u \in Tracked(s) :
    /\ s.map[u].next # NoUrl =>
         /\ s.map[u].next \in Tracked(s)
         /\ s.map[s.map[u].next].previous = u
    /\ s.map[u].previous # NoUrl =>
         /\ s.map[u].previous \in Tracked(s)
         /\ s.map[s.map[u].previous].next = u

WellLinked(s) == EndsLinked(s) /\ NeighboursLinked(s)

\* With `at` the time of each URL's last use: the head is the newest, the tail
\* the oldest, and the next of a URL is the newest of those older than it.
ByRecency(s, at) ==
  \A u, v \in Tracked(s) :
    /\ at[u] = at[v] => u = v
    /\ at[u] <= at[s.head]
    /\ at[s.tail] <= at[u]
    /\ s.map[u].next # NoUrl =>
         /\ at[s.map[u].next] < at[u]
         /\ at[v] < at[u] => at[v] <= at[s.map[u].next]
===============================================================================
