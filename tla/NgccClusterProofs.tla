--------------------------- MODULE NgccClusterProofs --------------------------
(***************************************************************************)
(* Proofs about NgccCluster, for any list of tasks, number of workers and   *)
(* settings: each task is in one place, none is compiled before those it    *)
(* needs, those are skipped that need a task that failed, and what is       *)
(* marked as processed is written.                                         *)
(***************************************************************************)
EXTENDS NgccCluster, SequenceTheorems, FiniteSetTheorems, NaturalsInduction, WellFoundedInduction, TLAPS

-------------------------------------------------------------------------------
(* Loops.                                                                       *)

\* A set of natural numbers that is not empty has a least element.
LEMMA LeastNat ==
  ASSUME NEW S \in SUBSET Nat, S # {}
  PROVE  \E k \in S : \A j \in S : k <= j
<1>1. PICK k \in S : \A y \in S : ~(<<y, k>> \in OpToRel(<, Nat))
  BY NatLessThanWellFounded, WFMin
<1>2. \A y \in S : ~(y < k)
  BY <1>1 DEF OpToRel
<1> QED
  BY <1>2

\* So has one whose elements are measured.
LEMMA LeastMeasure ==
  ASSUME NEW S, NEW m \in [S -> Nat], NEW X \in SUBSET S, X # {}
  PROVE  \E x \in X : \A y \in X : m[x] <= m[y]
<1> DEFINE M == {m[x] : x \in X}
<1>1. M \in SUBSET Nat /\ M # {}
  OBVIOUS
<1>2. PICK k \in M : \A j \in M : k <= j
  BY <1>1, LeastNat
<1> QED
  BY <1>2

\* f is what a loop makes of the states in X: it goes on by `step` until it stops.
Loops(f, X, stop, out, step) == \A x \in X : f[x] = IF x \in stop THEN out[x] ELSE f[step[x]]

Near(S, m, n) == {x \in S : m[x] <= n}

\* A loop that comes nearer to its end with every step has a result: first as far as it
\* is at most n steps away, ...
LEMMA LoopUpTo ==
  ASSUME NEW S, NEW stop, NEW out \in [S -> S], NEW step \in [S -> S], NEW m \in [S -> Nat],
         \A x \in S \ stop : m[step[x]] < m[x], NEW n \in Nat
  PROVE  \E f \in [S -> S] : Loops(f, Near(S, m, n), stop, out, step)
<1> DEFINE Bad == {k \in Nat : ~\E f \in [S -> S] : Loops(f, Near(S, m, k), stop, out, step)}
<1>1. ASSUME Bad # {} PROVE FALSE
  <2>1. PICK k \in Bad : \A j \in Bad : k <= j
    BY <1>1, LeastNat
  <2>2. PICK g \in [S -> S] : k = 0 \/ Loops(g, Near(S, m, k - 1), stop, out, step)
    <3>1. CASE k = 0
      BY <3>1
    <3>2. CASE k # 0
      <4>1. k - 1 \in Nat /\ ~(k <= k - 1)
        BY <2>1, <3>2
      <4>2. k - 1 \notin Bad
        BY <2>1, <4>1
      <4> QED
        BY <4>1, <4>2
    <3> QED
      BY <3>1, <3>2
  <2> DEFINE f == [x \in S |-> IF x \in stop THEN out[x] ELSE g[step[x]]]
  <2>3. f \in [S -> S]
    OBVIOUS
  <2>4. ASSUME NEW x \in Near(S, m, k), x \notin stop PROVE f[step[x]] = g[step[x]]
    <3>1. step[x] \in S /\ m[step[x]] < m[x] /\ m[x] <= k /\ m[step[x]] \in Nat /\ m[x] \in Nat
      BY <2>4 DEF Near
    <3>2. k # 0 /\ step[x] \in Near(S, m, k - 1)
      BY <2>1, <3>1 DEF Near
    <3>3. g[step[x]] = IF step[x] \in stop THEN out[step[x]] ELSE g[step[step[x]]]
      BY <2>2, <3>2 DEF Loops
    <3> QED
      BY <3>1, <3>3
  <2>5. Loops(f, Near(S, m, k), stop, out, step)
    BY <2>4 DEF Loops, Near
  <2> QED
    BY <2>1, <2>3, <2>5
<1> QED
  BY <1>1

\* ... where it can have only one, ...
LEMMA LoopUnique ==
  ASSUME NEW S, NEW stop, NEW out \in [S -> S], NEW step \in [S -> S], NEW m \in [S -> Nat],
         \A x \in S \ stop : m[step[x]] < m[x], NEW n \in Nat,
         NEW f \in [S -> S], Loops(f, Near(S, m, n), stop, out, step),
         NEW g \in [S -> S], Loops(g, Near(S, m, n), stop, out, step)
  PROVE  \A x \in S : m[x] <= n => f[x] = g[x]
<1> DEFINE X == {x \in S : m[x] <= n /\ f[x] # g[x]}
<1>1. ASSUME X # {} PROVE FALSE
  <2>1. PICK x \in X : \A y \in X : m[x] <= m[y]
    <3>1. X \in SUBSET S
      OBVIOUS
    <3> HIDE DEF X
    <3> QED
      BY <1>1, <3>1, LeastMeasure
  <2>2. x \notin stop
    BY <2>1 DEF Loops, Near
  <2>3. step[x] \in S /\ m[step[x]] < m[x] /\ m[step[x]] \in Nat /\ m[x] \in Nat /\ m[x] <= n
    BY <2>1, <2>2
  <2>4. step[x] \notin X
    BY <2>1, <2>3
  <2>5. f[step[x]] = g[step[x]]
    BY <2>3, <2>4
  <2> QED
    BY <2>1, <2>2, <2>5 DEF Loops, Near
<1> QED
  BY <1>1

\* ... and so from all states.
LEMMA LoopExists ==
  ASSUME NEW S, NEW stop, NEW out \in [S -> S], NEW step \in [S -> S], NEW m \in [S -> Nat],
         \A x \in S \ stop : m[step[x]] < m[x]
  PROVE  \E f \in [S -> S] : Loops(f, S, stop, out, step)
<1> DEFINE UpTo(n) == {g \in [S -> S] : Loops(g, Near(S, m, n), stop, out, step)}
           best(n) == CHOOSE g : g \in UpTo(n)
           f == [x \in S |-> best(m[x])[x]]
<1>1. \A n \in Nat : best(n) \in UpTo(n)
  <2>1. ASSUME NEW n \in Nat PROVE \E g : g \in UpTo(n)
    BY LoopUpTo
  <2> HIDE DEF UpTo
  <2> QED
    BY <2>1
<1>2. ASSUME NEW n \in Nat, NEW g \in UpTo(n), NEW h \in UpTo(n), NEW x \in S, m[x] <= n
      PROVE  g[x] = h[x]
  BY <1>2, LoopUnique
<1> HIDE DEF best
<1>3. \A x \in S : best(m[x]) \in UpTo(m[x])
  BY <1>1
<1>4. ASSUME NEW x \in S, x \notin stop PROVE best(m[x])[x] = best(m[step[x]])[step[x]]
  <2>1. m[x] \in Nat /\ step[x] \in S /\ m[step[x]] \in Nat /\ m[step[x]] < m[x]
    BY <1>4
  <2>2. best(m[x]) \in UpTo(m[x]) /\ best(m[step[x]]) \in UpTo(m[step[x]])
    BY <1>3, <2>1
  <2>3. best(m[x])[x] = best(m[x])[step[x]]
    BY <1>4, <2>1, <2>2 DEF Loops, Near
  <2>4. best(m[x]) \in UpTo(m[step[x]])
    BY <2>1, <2>2 DEF Loops, Near
  <2> HIDE DEF UpTo
  <2>5. best(m[x])[step[x]] = best(m[step[x]])[step[x]]
    BY <1>2, <2>1, <2>2, <2>4
  <2> QED
    BY <2>3, <2>5
<1>5. ASSUME NEW x \in S, x \in stop PROVE best(m[x])[x] = out[x]
  BY <1>3, <1>5 DEF Loops, Near
<1>6. \A x \in S : best(m[x])[x] \in S
  BY <1>3
<1>7. f \in [S -> S]
  BY <1>6
<1>8. \A x \in S : f[x] = best(m[x])[x]
  OBVIOUS
<1> HIDE DEF f
<1>9. Loops(f, S, stop, out, step)
  BY <1>4, <1>5, <1>8 DEF Loops, Near
<1> QED
  BY <1>7, <1>9

\* What every step keeps holds where the loop stops.
LEMMA LoopKeeps ==
  ASSUME NEW S, NEW stop, NEW out, NEW step \in [S -> S], NEW m \in [S -> Nat],
         \A x \in S \ stop : m[step[x]] < m[x],
         NEW f, Loops(f, S, stop, out, step),
         NEW P \in SUBSET S, \A x \in P \ stop : step[x] \in P,
         NEW x0 \in P
  PROVE  \E y \in P \cap stop : f[x0] = out[y]
<1> DEFINE X == {x \in P : ~\E y \in P \cap stop : f[x] = out[y]}
<1>1. ASSUME X # {} PROVE FALSE
  <2>1. PICK x \in X : \A y \in X : m[x] <= m[y]
    <3>1. X \in SUBSET S
      OBVIOUS
    <3> HIDE DEF X
    <3> QED
      BY <1>1, <3>1, LeastMeasure
  <2>2. x \notin stop
    BY <2>1 DEF Loops
  <2>3. step[x] \in P /\ m[step[x]] < m[x] /\ m[step[x]] \in Nat /\ m[x] \in Nat
    BY <2>1, <2>2
  <2>4. step[x] \notin X
    BY <2>1, <2>3
  <2>5. f[x] = f[step[x]]
    BY <2>1, <2>2 DEF Loops
  <2> QED
    BY <2>1, <2>3, <2>4, <2>5
<1> QED
  BY <1>1

-------------------------------------------------------------------------------
(* Tasks.                                                                       *)

LEMMA TaskNumbers ==
  /\ Len(Tasks) \in Nat /\ Task = 1 .. Len(Tasks) /\ Task \subseteq Nat /\ NoTask \notin Task
  /\ IsFiniteSet(Task) /\ Cardinality(Task) = Len(Tasks)
<1>1. Len(Tasks) \in Nat /\ Task = 1 .. Len(Tasks)
  BY QueueAssumption DEF Task
<1>2. \A n \in Nat : IsFiniteSet(1 .. n) /\ Cardinality(1 .. n) = n
  BY FS_Interval
<1> QED
  BY <1>1, <1>2 DEF NoTask

LEMMA DependentsLater ==
  \A t \in Task : Dependents(t) \subseteq Task /\ \A u \in Dependents(t) : t < u
BY DEF Dependents

LEMMA BlockingTasks ==
  \A t \in Task : /\ Blocking(t) \subseteq Task
                  /\ \A d \in Task : d \in Blocking(t) <=> t \in Dependents(d)
BY DEF Blocking

\* The definition of Below says what its values are: they are the least sets closed
\* under Dependents.
LEMMA BelowEquation ==
  \A t \in Task : Below[t] = Dependents(t) \cup UNION {Below[u] : u \in Dependents(t)}
<1> DEFINE Closed(t, C) == Dependents(t) \subseteq C /\ \A v \in C : Dependents(v) \subseteq C
           least(t) == {u \in Task : \A C \in SUBSET Task : Closed(t, C) => u \in C}
           f == [t \in Task |-> least(t)]
           body(g, t) == Dependents(t) \cup UNION {g[u] : u \in Dependents(t)}
<1>1. ASSUME NEW t \in Task PROVE Closed(t, least(t))
  BY <1>1, DependentsLater
<1>2. ASSUME NEW t \in Task, NEW u \in Dependents(t) PROVE least(u) \subseteq least(t)
  <2>1. \A C \in SUBSET Task : Closed(t, C) => Closed(u, C)
    BY <1>2, DependentsLater
  <2> QED
    BY <2>1
<1>3. ASSUME NEW t \in Task PROVE least(t) = body(f, t)
  <2>1. \A x : x \in body(f, t) <=> x \in Dependents(t) \/ \E u \in Dependents(t) : x \in f[u]
    OBVIOUS
  <2>2. \A u \in Dependents(t) : u \in Task /\ f[u] = least(u)
    BY DependentsLater
  <2>3. \A u \in Dependents(t) : least(u) \subseteq least(t)
    BY <1>2
  <2>4. Dependents(t) \subseteq least(t)
    BY <1>1
  <2> HIDE DEF least, body, f
  <2>5. \A x : x \in body(f, t) <=> x \in Dependents(t) \/ \E u \in Dependents(t) : x \in least(u)
    BY <2>1, <2>2
  <2>6. body(f, t) \subseteq least(t)
    BY <2>5, <2>3, <2>4
  <2>7. body(f, t) \subseteq Task
    BY <2>6 DEF least
  <2>8. Closed(t, body(f, t))
    <3>1. ASSUME NEW v \in body(f, t) PROVE Dependents(v) \subseteq body(f, t)
      <4>1. CASE v \in Dependents(t)
        <5>1. Dependents(v) \subseteq least(v)
          BY <1>1, <4>1, DependentsLater
        <5> QED
          BY <2>5, <4>1, <5>1
      <4>2. ASSUME NEW u \in Dependents(t), v \in least(u) PROVE Dependents(v) \subseteq least(u)
        BY <1>1, <4>2, DependentsLater
      <4> QED
        BY <2>5, <3>1, <4>1, <4>2
    <3> QED
      BY <2>5, <3>1
  <2>9. least(t) \subseteq body(f, t)
    BY <2>7, <2>8 DEF least
  <2> QED
    BY <2>6, <2>9
<1> HIDE DEF least, body
<1>4. f = [t \in Task |-> body(f, t)]
  BY <1>3
<1>5. \E g : g = [t \in Task |-> body(g, t)]
  BY <1>4
<1>6. Below = CHOOSE g : g = [t \in Task |-> body(g, t)]
  BY DEF Below, body
<1>7. Below = [t \in Task |-> body(Below, t)]
  BY <1>5, <1>6
<1> QED
  BY <1>7 DEF body

\* An argument from the last task back to the first.
LEMMA Backwards ==
  ASSUME NEW X \in SUBSET Task, X # {}
  PROVE  \E t \in X : \A u \in Task : t < u => u \notin X
<1> DEFINE m == [t \in Task |-> Len(Tasks) - t]
<1>1. m \in [Task -> Nat]
  BY TaskNumbers
<1> HIDE DEF m
<1>2. PICK t \in X : \A u \in X : m[t] <= m[u]
  BY <1>1, LeastMeasure
<1>3. \A u \in X : Len(Tasks) - t <= Len(Tasks) - u
  BY <1>2 DEF m
<1>4. \A u \in X : u <= t
  BY <1>3, TaskNumbers
<1> QED
  BY <1>4, TaskNumbers

LEMMA BelowClosed ==
  ASSUME NEW t \in Task
  PROVE  Below[t] \subseteq Task /\ \A u \in Below[t] : Dependents(u) \subseteq Below[t]
<1> DEFINE Good(x) == Below[x] \subseteq Task /\ \A u \in Below[x] : Dependents(u) \subseteq Below[x]
           X == {x \in Task : ~Good(x)}
<1>1. ASSUME X # {} PROVE FALSE
  <2>1. PICK x \in X : \A u \in Task : x < u => u \notin X
    BY <1>1, Backwards
  <2>2. \A u \in Dependents(x) : u \in Task /\ Good(u)
    BY <2>1, DependentsLater
  <2>3. Below[x] \subseteq Task
    BY <2>1, <2>2, BelowEquation, DependentsLater
  <2>4. \A u \in Dependents(x) : Dependents(u) \subseteq Below[u]
    BY <2>2, BelowEquation
  <2>5. \A u \in Below[x] : Dependents(u) \subseteq Below[x]
    BY <2>1, <2>2, <2>4, BelowEquation
  <2> QED
    BY <2>1, <2>3, <2>5
<1> QED
  BY <1>1

\* If all that blocks the tasks of A is in C, what reaches a task of A is in C.
LEMMA BelowBlocks ==
  ASSUME NEW A \in SUBSET Task, NEW C \in SUBSET A, \A a \in A : Blocking(a) \subseteq C,
         NEW t \in Task, Below[t] \cap A # {}
  PROVE  t \in C
<1> DEFINE X == {x \in Task : Below[x] \cap A # {} /\ x \notin C}
<1>1. ASSUME X # {} PROVE FALSE
  <2>1. PICK x \in X : \A u \in Task : x < u => u \notin X
    BY <1>1, Backwards
  <2>2. ASSUME NEW a \in Dependents(x), a \in A PROVE FALSE
    BY <2>1, <2>2, BlockingTasks
  <2>3. ASSUME NEW u \in Dependents(x), Below[u] \cap A # {} PROVE FALSE
    <3>1. u \in Task /\ u \notin X
      BY <2>1, <2>3, DependentsLater
    <3>2. u \in A
      BY <2>3, <3>1
    <3> QED
      BY <2>2, <2>3, <3>2
  <2> QED
    BY <2>1, <2>2, <2>3, BelowEquation
<1> QED
  BY <1>1

-------------------------------------------------------------------------------
(* The queue.                                                                   *)

Distinct(s) == \A i, j \in 1 .. Len(s) : s[i] = s[j] => i = j

LEMMA Elements ==
  ASSUME NEW S, NEW s \in Seq(S)
  PROVE  /\ Len(s) \in Nat /\ DOMAIN s = 1 .. Len(s)
         /\ ToSet(s) = {s[i] : i \in 1 .. Len(s)} /\ ToSet(s) \subseteq S
         /\ (ToSet(s) = {} <=> s = <<>>)
BY DEF ToSet

LEMMA Removing ==
  ASSUME NEW S, NEW s \in Seq(S), NEW k \in 1 .. Len(s)
  PROVE  /\ RemoveAt(s, k) \in Seq(S) /\ Len(RemoveAt(s, k)) = Len(s) - 1
         /\ \A i \in 1 .. Len(s) - 1 : RemoveAt(s, k)[i] = IF i < k THEN s[i] ELSE s[i + 1]
<1> DEFINE a == SubSeq(s, 1, k - 1)
           b == SubSeq(s, k + 1, Len(s))
<1>1. a \in Seq(S) /\ Len(a) = k - 1 /\ \A i \in 1 .. k - 1 : a[i] = s[i]
  OBVIOUS
<1>2. b \in Seq(S) /\ Len(b) = Len(s) - k /\ \A i \in 1 .. Len(s) - k : b[i] = s[i + k]
  OBVIOUS
<1>3. RemoveAt(s, k) = a \o b
  BY DEF RemoveAt
<1> HIDE DEF a, b
<1>4. a \o b \in Seq(S) /\ Len(a \o b) = Len(s) - 1
  <2>1. a \o b \in Seq(S) /\ Len(a \o b) = Len(a) + Len(b)
    BY <1>1, <1>2, ConcatProperties
  <2>2. Len(s) \in Nat /\ k \in Nat
    OBVIOUS
  <2> QED
    BY <1>1, <1>2, <2>1, <2>2
<1>5. ASSUME NEW i \in 1 .. Len(s) - 1
      PROVE  (a \o b)[i] = IF i < k THEN s[i] ELSE s[i + 1]
  <2>1. CASE i < k
    BY <1>1, <1>2, <2>1
  <2>2. CASE ~(i < k)
    <3>1. i - (k - 1) \in 1 .. Len(s) - k /\ (a \o b)[i] = b[i - (k - 1)]
      BY <1>1, <1>2, <2>2
    <3> QED
      BY <1>2, <2>2, <3>1
  <2> QED
    BY <2>1, <2>2
<1> QED
  BY <1>3, <1>4, <1>5

LEMMA RemovingDistinct ==
  ASSUME NEW S, NEW s \in Seq(S), Distinct(s), NEW k \in 1 .. Len(s)
  PROVE  Distinct(RemoveAt(s, k)) /\ ToSet(RemoveAt(s, k)) = ToSet(s) \ {s[k]}
<1> DEFINE r == RemoveAt(s, k)
           n == Len(s)
<1>1. /\ n \in Nat /\ r \in Seq(S) /\ Len(r) = n - 1
      /\ \A i \in 1 .. n - 1 : r[i] = IF i < k THEN s[i] ELSE s[i + 1]
  BY Removing
<1> HIDE DEF r
<1>2. Distinct(r)
  BY <1>1 DEF Distinct
<1>3. ToSet(r) = {r[i] : i \in 1 .. n - 1} /\ ToSet(s) = {s[i] : i \in 1 .. n}
  BY <1>1, Elements
<1>4. ASSUME NEW i \in 1 .. n - 1 PROVE r[i] \in ToSet(s) \ {s[k]}
  BY <1>1, <1>3 DEF Distinct
<1>5. ASSUME NEW i \in 1 .. n, i # k PROVE s[i] \in ToSet(r)
  <2>1. CASE i < k
    BY <1>1, <1>3, <2>1
  <2>2. CASE i > k
    <3>1. i - 1 \in 1 .. n - 1 /\ r[i - 1] = s[i]
      BY <1>1, <2>2
    <3> QED
      BY <1>3, <3>1
  <2> QED
    BY <1>5, <2>1, <2>2
<1>6. ToSet(r) = ToSet(s) \ {s[k]}
  BY <1>3, <1>4, <1>5
<1> QED
  BY <1>2, <1>6 DEF r

LEMMA FirstFreeTask ==
  ASSUME NEW q \in Queue
  PROVE  LET k == FirstFree(q)
         IN  /\ k \in 0 .. Len(q.tasks)
             /\ k # 0 => q.blockedBy[q.tasks[k]] = {}
             /\ k = 0 => \A i \in 1 .. Len(q.tasks) : q.blockedBy[q.tasks[i]] # {}
<1> DEFINE I == {i \in 1 .. Len(q.tasks) : q.blockedBy[q.tasks[i]] = {}}
<1>1. FirstFree(q) = IF I # {} THEN Min(I) ELSE 0
  BY DEF FirstFree, SelectInSeq
<1>2. Len(q.tasks) \in Nat
  BY DEF Queue
<1>3. CASE I = {}
  BY <1>1, <1>2, <1>3
<1>4. CASE I # {}
  <2>1. I \in SUBSET Nat
    BY <1>2
  <2> HIDE DEF I
  <2>2. \E k \in I : \A j \in I : k <= j
    BY <1>4, <2>1, LeastNat
  <2>3. Min(I) \in I
    BY <2>2 DEF Min
  <2>4. FirstFree(q) = Min(I)
    BY <1>1, <1>4
  <2>5. FirstFree(q) \in 1 .. Len(q.tasks) /\ q.blockedBy[q.tasks[FirstFree(q)]] = {}
    BY <2>3, <2>4 DEF I
  <2> QED
    BY <1>2, <2>5
<1> QED
  BY <1>3, <1>4

LEMMA NextTaskFree ==
  ASSUME NEW q \in Queue, ComputeNextTask(q) # NoTask
  PROVE  LET t == ComputeNextTask(q)
         IN  /\ FirstFree(q) \in 1 .. Len(q.tasks) /\ q.tasks[FirstFree(q)] = t
             /\ t \in Task /\ t \in ToSet(q.tasks) /\ q.blockedBy[t] = {}
<1>1. FirstFree(q) # 0 /\ ComputeNextTask(q) = q.tasks[FirstFree(q)]
  BY DEF ComputeNextTask
<1>2. FirstFree(q) \in 1 .. Len(q.tasks) /\ q.tasks \in Seq(Task) /\ Len(q.tasks) \in Nat
  BY <1>1, FirstFreeTask DEF Queue
<1>3. q.tasks[FirstFree(q)] \in Task /\ q.tasks[FirstFree(q)] \in ToSet(q.tasks)
  BY <1>2, Elements
<1> QED
  BY <1>1, <1>2, <1>3, FirstFreeTask

\* Taking the next task: it leaves the list.
LEMMA TakingShorter ==
  ASSUME NEW q \in Queue, ComputeNextTask(q) # NoTask
  PROVE  LET t == ComputeNextTask(q)
             r == Take(q)
         IN  /\ r \in Queue /\ Len(r.tasks) = Len(q.tasks) - 1
             /\ r.tasks = RemoveAt(q.tasks, FirstFree(q))
             /\ r.inProgress = q.inProgress \cup {t}
             /\ r.blockedBy = q.blockedBy /\ r.toSkip = q.toSkip
<1> DEFINE t == ComputeNextTask(q)
           s == RemoveAt(q.tasks, FirstFree(q))
<1>1. FirstFree(q) \in 1 .. Len(q.tasks) /\ t \in Task
  BY NextTaskFree
<1>2. q.tasks \in Seq(Task)
  BY DEF Queue
<1>3. s \in Seq(Task) /\ Len(s) = Len(q.tasks) - 1
  BY <1>1, <1>2, Removing
<1>4. Take(q) = [q EXCEPT !.tasks = s, !.inProgress = q.inProgress \cup {t}]
  BY DEF Take
<1> HIDE DEF s, t
<1>5. Take(q) = [tasks |-> s, inProgress |-> q.inProgress \cup {t}, blockedBy |-> q.blockedBy,
                 toSkip |-> q.toSkip]
  BY <1>4 DEF Queue
<1>6. q.inProgress \cup {t} \subseteq Task
  BY <1>1 DEF Queue
<1>7. Take(q) \in Queue
  BY <1>3, <1>5, <1>6 DEF Queue
<1> QED
  BY <1>3, <1>5, <1>7 DEF t, s

LEMMA Taking ==
  ASSUME NEW q \in Queue, Distinct(q.tasks), ComputeNextTask(q) # NoTask
  PROVE  Distinct(Take(q).tasks) /\ ToSet(Take(q).tasks) = ToSet(q.tasks) \ {ComputeNextTask(q)}
<1>1. FirstFree(q) \in 1 .. Len(q.tasks) /\ q.tasks[FirstFree(q)] = ComputeNextTask(q)
  BY NextTaskFree
<1>2. q.tasks \in Seq(Task) /\ Take(q).tasks = RemoveAt(q.tasks, FirstFree(q))
  BY TakingShorter DEF Queue
<1> QED
  BY <1>1, <1>2, RemovingDistinct

LEMMA Completing ==
  ASSUME NEW q \in Queue, NEW t \in Task
  PROVE  LET r == MarkAsCompleted(q, t)
         IN  /\ r \in Queue /\ r.tasks = q.tasks /\ r.toSkip = q.toSkip
             /\ r.inProgress = q.inProgress \ {t}
             /\ \A u \in Task : r.blockedBy[u] = IF u \in Dependents(t) THEN q.blockedBy[u] \ {t}
                                                 ELSE q.blockedBy[u]
<1> DEFINE b == [u \in Task |-> IF u \in Dependents(t) THEN q.blockedBy[u] \ {t}
                                ELSE q.blockedBy[u]]
<1>1. b \in [Task -> SUBSET Task]
  BY DEF Queue
<1>2. MarkAsCompleted(q, t) = [q EXCEPT !.inProgress = q.inProgress \ {t}, !.blockedBy = b]
  BY DEF MarkAsCompleted
<1>3. \A u \in Task : b[u] = IF u \in Dependents(t) THEN q.blockedBy[u] \ {t} ELSE q.blockedBy[u]
  OBVIOUS
<1> HIDE DEF b
<1>4. MarkAsCompleted(q, t) = [tasks |-> q.tasks, inProgress |-> q.inProgress \ {t},
                               blockedBy |-> b, toSkip |-> q.toSkip]
  BY <1>2 DEF Queue
<1>5. MarkAsCompleted(q, t) \in Queue
  BY <1>1, <1>4 DEF Queue
<1> QED
  BY <1>3, <1>4, <1>5

\* Every round of the loop of getNextTask() removes a task, ...
LEMMA Skipping ==
  ASSUME NEW q \in Queue, ComputeNextTask(q) \in q.toSkip
  PROVE  LET r == MarkAsCompleted(Take(q), ComputeNextTask(q))
         IN  r \in Queue /\ Len(r.tasks) < Len(q.tasks)
<1>1. ComputeNextTask(q) # NoTask
  BY TaskNumbers DEF Queue
<1>2. Take(q) \in Queue /\ Len(Take(q).tasks) = Len(q.tasks) - 1 /\ ComputeNextTask(q) \in Task
  BY <1>1, TakingShorter, NextTaskFree
<1>3. LET r == MarkAsCompleted(Take(q), ComputeNextTask(q))
      IN  r \in Queue /\ r.tasks = Take(q).tasks
  BY <1>2, Completing
<1>4. Len(q.tasks) \in Nat
  BY DEF Queue
<1> QED
  BY <1>2, <1>3, <1>4

\* ... so that it has a result.
LEMMA SkippedLoops ==
  /\ Skipped \in [Queue -> Queue]
  /\ \A q \in Queue : Skipped[q] = LET t == ComputeNextTask(q)
                                   IN  IF t \in q.toSkip THEN Skipped[MarkAsCompleted(Take(q), t)]
                                                         ELSE q
<1> DEFINE next(q) == MarkAsCompleted(Take(q), ComputeNextTask(q))
           stop == {q \in Queue : ComputeNextTask(q) \notin q.toSkip}
           step == [q \in Queue |-> IF q \in stop THEN q ELSE next(q)]
           out == [q \in Queue |-> q]
           m == [q \in Queue |-> Len(q.tasks)]
           body(f, q) == LET t == ComputeNextTask(q)
                         IN  IF t \in q.toSkip THEN f[MarkAsCompleted(Take(q), t)] ELSE q
<1>1. ASSUME NEW q \in Queue, q \notin stop
      PROVE  next(q) \in Queue /\ Len(next(q).tasks) < Len(q.tasks)
  BY <1>1, Skipping
<1>2. step \in [Queue -> Queue] /\ \A q \in Queue \ stop : step[q] = next(q)
  BY <1>1
<1>3. out \in [Queue -> Queue] /\ \A q \in Queue : out[q] = q
  OBVIOUS
<1>4. m \in [Queue -> Nat] /\ \A q \in Queue : m[q] = Len(q.tasks)
  BY DEF Queue
<1>5. \A q \in Queue \ stop : m[step[q]] < m[q]
  BY <1>1, <1>2, <1>4
<1>6. \A q \in Queue : q \in stop <=> ComputeNextTask(q) \notin q.toSkip
  OBVIOUS
<1> HIDE DEF stop, step, out, m
<1>7. PICK f \in [Queue -> Queue] : Loops(f, Queue, stop, out, step)
  BY <1>2, <1>3, <1>4, <1>5, LoopExists
<1>8. \A q \in Queue : f[q] = body(f, q)
  BY <1>2, <1>3, <1>6, <1>7 DEF Loops
<1>9. f = [q \in Queue |-> body(f, q)]
  BY <1>8
<1> HIDE DEF body
<1>10. Skipped = CHOOSE g : g = [q \in Queue |-> body(g, q)]
  BY DEF Skipped, body
<1>11. Skipped = [q \in Queue |-> body(Skipped, q)]
  BY <1>9, <1>10
<1>12. \A q \in Queue : Skipped[q] = body(Skipped, q)
  BY <1>11
<1>13. Loops(Skipped, Queue, stop, out, step)
  BY <1>2, <1>3, <1>6, <1>12 DEF Loops, body
<1>14. ASSUME NEW q \in Queue PROVE Skipped[q] \in Queue
  <2>1. \A r \in Queue \ stop : step[r] \in Queue
    BY <1>2
  <2>2. \E y \in Queue \cap stop : Skipped[q] = out[y]
    BY <1>2, <1>4, <1>5, <1>13, <2>1, LoopKeeps
  <2> QED
    BY <1>3, <2>2
<1> QED
  BY <1>11, <1>12, <1>14 DEF body

\* What the loop keeps, it leaves.
LEMMA SkippedKeeps ==
  ASSUME NEW P \in SUBSET Queue,
         \A q \in P : ComputeNextTask(q) \in q.toSkip
                        => MarkAsCompleted(Take(q), ComputeNextTask(q)) \in P,
         NEW q0 \in P
  PROVE  Skipped[q0] \in P /\ ComputeNextTask(Skipped[q0]) \notin Skipped[q0].toSkip
<1> DEFINE next(q) == MarkAsCompleted(Take(q), ComputeNextTask(q))
           stop == {q \in Queue : ComputeNextTask(q) \notin q.toSkip}
           step == [q \in Queue |-> IF q \in stop THEN q ELSE next(q)]
           out == [q \in Queue |-> q]
           m == [q \in Queue |-> Len(q.tasks)]
<1>1. ASSUME NEW q \in Queue, q \notin stop
      PROVE  next(q) \in Queue /\ Len(next(q).tasks) < Len(q.tasks)
  BY <1>1, Skipping
<1>2. step \in [Queue -> Queue] /\ \A q \in Queue \ stop : step[q] = next(q)
  BY <1>1
<1>3. \A q \in Queue : out[q] = q
  OBVIOUS
<1>4. m \in [Queue -> Nat] /\ \A q \in Queue : m[q] = Len(q.tasks)
  BY DEF Queue
<1>5. \A q \in Queue \ stop : m[step[q]] < m[q]
  BY <1>1, <1>2, <1>4
<1>6. \A q \in Queue : q \in stop <=> ComputeNextTask(q) \notin q.toSkip
  OBVIOUS
<1> HIDE DEF stop, step, out, m
<1>7. Loops(Skipped, Queue, stop, out, step)
  BY <1>2, <1>3, <1>6, SkippedLoops DEF Loops
<1>8. \A q \in P \ stop : step[q] \in P
  BY <1>2, <1>6
<1>9. \E y \in P \cap stop : Skipped[q0] = out[y]
  BY <1>2, <1>4, <1>5, <1>7, <1>8, LoopKeeps
<1> QED
  BY <1>3, <1>6, <1>9

\* The tasks that are not done, and those that are, be it that they were skipped.
Pending(q) == ToSet(q.tasks) \cup q.inProgress
Completed(q) == Task \ Pending(q)

\* What holds of a queue, given the tasks mk that were processed and fl that failed.
QueueInv(q, mk, fl) ==
  /\ q \in Queue /\ Distinct(q.tasks) /\ ToSet(q.tasks) \cap q.inProgress = {}
  /\ \A t \in Task : q.blockedBy[t] = Blocking(t) \cap Pending(q)
  /\ \A t \in Completed(q) \cup q.inProgress : Blocking(t) \subseteq Completed(q)
  /\ mk \cup fl \subseteq Completed(q) /\ Completed(q) \subseteq mk \cup fl \cup q.toSkip
  /\ q.toSkip = UNION {Below[t] : t \in fl}
  /\ (mk \cup q.inProgress) \cap q.toSkip = {}

LEMMA QueueTypes ==
  ASSUME NEW q \in Queue
  PROVE  /\ q.tasks \in Seq(Task) /\ q.inProgress \subseteq Task /\ q.toSkip \subseteq Task
         /\ q.blockedBy \in [Task -> SUBSET Task]
         /\ ToSet(q.tasks) \subseteq Task /\ Pending(q) \subseteq Task
<1>1. q.tasks \in Seq(Task) /\ q.inProgress \subseteq Task /\ q.toSkip \subseteq Task
      /\ q.blockedBy \in [Task -> SUBSET Task]
  BY DEF Queue
<1>2. ToSet(q.tasks) \subseteq Task
  BY <1>1, Elements
<1> QED
  BY <1>1, <1>2 DEF Pending

\* A task that is taken: all that blocks it is done.
LEMMA TakingFree ==
  ASSUME NEW q, NEW mk, NEW fl, QueueInv(q, mk, fl), ComputeNextTask(q) # NoTask
  PROVE  LET t == ComputeNextTask(q)
             r == Take(q)
         IN  /\ t \in Task /\ t \in ToSet(q.tasks) /\ t \notin q.inProgress
             /\ Blocking(t) \subseteq Completed(q)
             /\ r \in Queue /\ Distinct(r.tasks) /\ ToSet(r.tasks) = ToSet(q.tasks) \ {t}
             /\ r.inProgress = q.inProgress \cup {t} /\ Pending(r) = Pending(q)
             /\ r.blockedBy = q.blockedBy /\ r.toSkip = q.toSkip
<1> DEFINE t == ComputeNextTask(q)
<1>1. q \in Queue /\ Distinct(q.tasks)
  BY DEF QueueInv
<1>2. t \in Task /\ t \in ToSet(q.tasks) /\ q.blockedBy[t] = {}
  BY <1>1, NextTaskFree
<1>3. Blocking(t) \cap Pending(q) = {} /\ Blocking(t) \subseteq Task /\ t \notin q.inProgress
  BY <1>2, BlockingTasks DEF QueueInv
<1>4. /\ Take(q) \in Queue /\ Distinct(Take(q).tasks) /\ ToSet(Take(q).tasks) = ToSet(q.tasks) \ {t}
      /\ Take(q).inProgress = q.inProgress \cup {t}
      /\ Take(q).blockedBy = q.blockedBy /\ Take(q).toSkip = q.toSkip
  BY <1>1, Taking, TakingShorter
<1> QED
  BY <1>2, <1>3, <1>4 DEF Completed, Pending

LEMMA TakingKeeps ==
  ASSUME NEW q, NEW mk, NEW fl, QueueInv(q, mk, fl), ComputeNextTask(q) # NoTask,
         ComputeNextTask(q) \notin q.toSkip
  PROVE  QueueInv(Take(q), mk, fl)
<1> DEFINE t == ComputeNextTask(q)
           r == Take(q)
<1>1. /\ t \in Task /\ t \notin q.inProgress /\ t \notin q.toSkip
      /\ Blocking(t) \subseteq Completed(q)
      /\ r \in Queue /\ Distinct(r.tasks) /\ ToSet(r.tasks) = ToSet(q.tasks) \ {t}
      /\ r.inProgress = q.inProgress \cup {t} /\ Pending(r) = Pending(q)
      /\ r.blockedBy = q.blockedBy /\ r.toSkip = q.toSkip
  BY TakingFree
<1> HIDE DEF t, r
<1>2. Completed(r) = Completed(q)
  BY <1>1 DEF Completed
<1>3. ToSet(r.tasks) \cap r.inProgress = {}
  BY <1>1 DEF QueueInv
<1>4. \A x \in Completed(r) \cup r.inProgress : Blocking(x) \subseteq Completed(r)
  BY <1>1, <1>2 DEF QueueInv
<1>5. \A x \in Task : r.blockedBy[x] = Blocking(x) \cap Pending(r)
  BY <1>1 DEF QueueInv
<1>6. (mk \cup r.inProgress) \cap r.toSkip = {}
  BY <1>1 DEF QueueInv
<1>7. mk \cup fl \subseteq Completed(r) /\ Completed(r) \subseteq mk \cup fl \cup r.toSkip
  BY <1>1, <1>2 DEF QueueInv
<1>8. QueueInv(r, mk, fl)
  BY <1>1, <1>3, <1>4, <1>5, <1>6, <1>7 DEF QueueInv
<1> QED
  BY <1>8 DEF r

\* A task in progress is done.
LEMMA CompletingPending ==
  ASSUME NEW q \in Queue, NEW t \in q.inProgress, t \notin ToSet(q.tasks)
  PROVE  LET r == MarkAsCompleted(q, t)
         IN  /\ r \in Queue /\ r.tasks = q.tasks /\ r.inProgress = q.inProgress \ {t}
             /\ r.toSkip = q.toSkip
             /\ Pending(r) = Pending(q) \ {t} /\ Completed(r) = Completed(q) \cup {t}
             /\ \A u \in Task : q.blockedBy[u] = Blocking(u) \cap Pending(q)
                  => r.blockedBy[u] = Blocking(u) \cap Pending(r)
<1>1. t \in Task
  BY QueueTypes
<1>2. LET r == MarkAsCompleted(q, t)
      IN  /\ r \in Queue /\ r.tasks = q.tasks /\ r.toSkip = q.toSkip
          /\ r.inProgress = q.inProgress \ {t}
          /\ \A u \in Task : r.blockedBy[u] = IF u \in Dependents(t) THEN q.blockedBy[u] \ {t}
                                              ELSE q.blockedBy[u]
  BY <1>1, Completing
<1>3. Pending(MarkAsCompleted(q, t)) = Pending(q) \ {t}
  BY <1>2 DEF Pending
<1>4. \A u \in Task : t \in Blocking(u) <=> u \in Dependents(t)
  BY <1>1, BlockingTasks
<1> QED
  BY <1>1, <1>2, <1>3, <1>4 DEF Completed, Pending

\* The loop of getNextTask() completes what is to be skipped and nothing else.
LEMMA SkippedInv ==
  ASSUME NEW q, NEW mk, NEW fl, QueueInv(q, mk, fl)
  PROVE  /\ QueueInv(Skipped[q], mk, fl) /\ Skipped[q].inProgress = q.inProgress
         /\ ComputeNextTask(Skipped[q]) \notin Skipped[q].toSkip
<1> DEFINE P == {r \in Queue : QueueInv(r, mk, fl) /\ r.inProgress = q.inProgress}
<1>1. ASSUME NEW r \in P, ComputeNextTask(r) \in r.toSkip
      PROVE  MarkAsCompleted(Take(r), ComputeNextTask(r)) \in P
  <2> DEFINE t == ComputeNextTask(r)
             s == MarkAsCompleted(Take(r), t)
  <2>1. QueueInv(r, mk, fl) /\ r \in Queue
    BY <1>1
  <2>2. t # NoTask
    BY <1>1, <2>1, QueueTypes, TaskNumbers
  <2>3. /\ t \in Task /\ t \in ToSet(r.tasks) /\ t \notin r.inProgress
        /\ Blocking(t) \subseteq Completed(r)
        /\ Take(r) \in Queue /\ Distinct(Take(r).tasks) /\ ToSet(Take(r).tasks) = ToSet(r.tasks) \ {t}
        /\ Take(r).inProgress = r.inProgress \cup {t} /\ Pending(Take(r)) = Pending(r)
        /\ Take(r).blockedBy = r.blockedBy /\ Take(r).toSkip = r.toSkip
    BY <2>1, <2>2, TakingFree
  <2>4. /\ s \in Queue /\ s.tasks = Take(r).tasks /\ s.inProgress = Take(r).inProgress \ {t}
        /\ s.toSkip = r.toSkip
        /\ Pending(s) = Pending(r) \ {t} /\ Completed(s) = Completed(Take(r)) \cup {t}
        /\ \A u \in Task : Take(r).blockedBy[u] = Blocking(u) \cap Pending(Take(r))
             => s.blockedBy[u] = Blocking(u) \cap Pending(s)
    BY <2>3, CompletingPending
  <2>5. Completed(s) = Completed(r) \cup {t} /\ s.inProgress = r.inProgress
    BY <2>3, <2>4 DEF Completed
  <2> HIDE DEF s
  <2>6. QueueInv(s, mk, fl)
    BY <1>1, <2>1, <2>3, <2>4, <2>5 DEF QueueInv
  <2> QED
    BY <2>4, <2>5, <2>6, <1>1 DEF s
<1>2. q \in P /\ P \in SUBSET Queue
  BY DEF QueueInv
<1> HIDE DEF P
<1>3. Skipped[q] \in P /\ ComputeNextTask(Skipped[q]) \notin Skipped[q].toSkip
  BY <1>1, <1>2, SkippedKeeps
<1> QED
  BY <1>3 DEF P

\* getNextTask() gives a task that waited, if any, and keeps the queue in order.
LEMMA NextTaskGiven ==
  ASSUME NEW q, NEW mk, NEW fl, QueueInv(q, mk, fl)
  PROVE  /\ QueueInv(AfterNext(q), mk, fl)
         /\ NextTask(q) = NoTask => AfterNext(q).inProgress = q.inProgress
         /\ NextTask(q) # NoTask => /\ NextTask(q) \in Task \ q.inProgress
                                    /\ AfterNext(q).inProgress = q.inProgress \cup {NextTask(q)}
<1>1. /\ QueueInv(Skipped[q], mk, fl) /\ Skipped[q].inProgress = q.inProgress
      /\ ComputeNextTask(Skipped[q]) \notin Skipped[q].toSkip
  BY SkippedInv
<1>2. CASE NextTask(q) = NoTask
  BY <1>1, <1>2 DEF AfterNext
<1>3. CASE NextTask(q) # NoTask
  <2>1. ComputeNextTask(Skipped[q]) # NoTask
    BY <1>3 DEF NextTask
  <2>2. QueueInv(Take(Skipped[q]), mk, fl)
    BY <1>1, <2>1, TakingKeeps
  <2>3. AfterNext(q) = Take(Skipped[q])
    BY <1>3 DEF AfterNext
  <2> QED
    BY <1>1, <1>3, <2>1, <2>2, <2>3, TakingFree DEF NextTask
<1> QED
  BY <1>2, <1>3

\* What an unfinished task reaches is unfinished and not in progress.
LEMMA BelowUnfinished ==
  ASSUME NEW q, NEW mk, NEW fl, QueueInv(q, mk, fl), NEW t \in Pending(q)
  PROVE  Below[t] \cap (Completed(q) \cup q.inProgress) = {}
<1> DEFINE A == Completed(q) \cup q.inProgress
           C == Completed(q)
<1>1. A \in SUBSET Task /\ C \in SUBSET A /\ t \in Task /\ t \notin C
  BY QueueTypes DEF QueueInv, Completed
<1>2. \A a \in A : Blocking(a) \subseteq C
  BY DEF QueueInv
<1> HIDE DEF A, C
<1>3. Below[t] \cap A # {} => t \in C
  BY <1>1, <1>2, BelowBlocks
<1> QED
  BY <1>1, <1>3 DEF A

\* The task in progress t was processed.
LEMMA ProcessedKeeps ==
  ASSUME NEW q, NEW mk, NEW fl, QueueInv(q, mk, fl), NEW t \in q.inProgress
  PROVE  LET r == MarkAsCompleted(q, t)
         IN  QueueInv(r, mk \cup {t}, fl) /\ r.inProgress = q.inProgress \ {t}
<1>1. q \in Queue /\ t \notin ToSet(q.tasks) /\ t \in Task
  BY QueueTypes DEF QueueInv
<1>2. LET r == MarkAsCompleted(q, t)
      IN  /\ r \in Queue /\ r.tasks = q.tasks /\ r.inProgress = q.inProgress \ {t}
          /\ r.toSkip = q.toSkip
          /\ Pending(r) = Pending(q) \ {t} /\ Completed(r) = Completed(q) \cup {t}
          /\ \A u \in Task : q.blockedBy[u] = Blocking(u) \cap Pending(q)
               => r.blockedBy[u] = Blocking(u) \cap Pending(r)
  BY <1>1, CompletingPending
<1> QED
  BY <1>1, <1>2 DEF QueueInv

\* It failed.
LEMMA FailedKeeps ==
  ASSUME NEW q, NEW mk, NEW fl, QueueInv(q, mk, fl), NEW t \in q.inProgress
  PROVE  LET r == MarkAsCompleted(MarkAsFailed(q, t), t)
         IN  QueueInv(r, mk, fl \cup {t}) /\ r.inProgress = q.inProgress \ {t}
<1> DEFINE s == MarkAsFailed(q, t)
           r == MarkAsCompleted(s, t)
<1>1. q \in Queue /\ t \notin ToSet(q.tasks) /\ t \in Task /\ t \in Pending(q)
  BY QueueTypes DEF QueueInv, Pending
<1>2. Below[t] \subseteq Task
  BY <1>1, BelowClosed
<1>3. s = [q EXCEPT !.toSkip = q.toSkip \cup Below[t]]
  BY DEF MarkAsFailed
<1> HIDE DEF s
<1>4. s = [tasks |-> q.tasks, inProgress |-> q.inProgress, blockedBy |-> q.blockedBy,
           toSkip |-> q.toSkip \cup Below[t]]
  BY <1>1, <1>3 DEF Queue
<1>5. q.toSkip \cup Below[t] \subseteq Task
  BY <1>1, <1>2, QueueTypes
<1>6. s \in Queue
  BY <1>1, <1>4, <1>5 DEF Queue
<1>7. Pending(s) = Pending(q) /\ Completed(s) = Completed(q)
  BY <1>4 DEF Pending, Completed
<1>8. /\ r \in Queue /\ r.tasks = q.tasks /\ r.inProgress = q.inProgress \ {t}
      /\ r.toSkip = q.toSkip \cup Below[t]
      /\ Pending(r) = Pending(q) \ {t} /\ Completed(r) = Completed(q) \cup {t}
      /\ \A u \in Task : s.blockedBy[u] = Blocking(u) \cap Pending(s)
           => r.blockedBy[u] = Blocking(u) \cap Pending(r)
  <2>1. t \in s.inProgress /\ t \notin ToSet(s.tasks)
    BY <1>1, <1>4
  <2>2. /\ r \in Queue /\ r.tasks = s.tasks /\ r.inProgress = s.inProgress \ {t}
        /\ r.toSkip = s.toSkip
        /\ Pending(r) = Pending(s) \ {t} /\ Completed(r) = Completed(s) \cup {t}
        /\ \A u \in Task : s.blockedBy[u] = Blocking(u) \cap Pending(s)
             => r.blockedBy[u] = Blocking(u) \cap Pending(r)
    BY <1>6, <2>1, CompletingPending
  <2> QED
    BY <1>4, <1>7, <2>2
<1> HIDE DEF r
<1>9. Below[t] \cap (Completed(q) \cup q.inProgress) = {}
  BY <1>1, BelowUnfinished
<1>10. r.toSkip = UNION {Below[x] : x \in fl \cup {t}}
  BY <1>8 DEF QueueInv
<1>11. \A u \in Task : r.blockedBy[u] = Blocking(u) \cap Pending(r)
  BY <1>4, <1>7, <1>8 DEF QueueInv
<1>12. (mk \cup r.inProgress) \cap r.toSkip = {}
  BY <1>8, <1>9 DEF QueueInv
<1>13. QueueInv(r, mk, fl \cup {t})
  BY <1>8, <1>10, <1>11, <1>12 DEF QueueInv
<1> QED
  BY <1>8, <1>13 DEF r, s

\* It is given back: it waits again, before all others.
LEMMA UnprocessedKeeps ==
  ASSUME NEW q, NEW mk, NEW fl, QueueInv(q, mk, fl), NEW t \in q.inProgress
  PROVE  LET r == MarkAsUnprocessed(q, t)
         IN  QueueInv(r, mk, fl) /\ r.inProgress = q.inProgress \ {t}
<1> DEFINE s == <<t>> \o q.tasks
           r == MarkAsUnprocessed(q, t)
<1>1. q \in Queue /\ q.tasks \in Seq(Task) /\ t \notin ToSet(q.tasks) /\ t \in Task
  BY QueueTypes DEF QueueInv
<1>2. <<t>> \in Seq(Task) /\ Len(<<t>>) = 1 /\ <<t>>[1] = t
  BY <1>1
<1>3. /\ s \in Seq(Task) /\ Len(s) = Len(q.tasks) + 1 /\ s[1] = t
      /\ \A i \in 1 .. Len(q.tasks) : s[i + 1] = q.tasks[i]
  <2>1. s \in Seq(Task) /\ Len(s) = 1 + Len(q.tasks)
    BY <1>1, <1>2, ConcatProperties
  <2>2. \A i \in 1 .. Len(<<t>>) + Len(q.tasks) :
          s[i] = IF i <= Len(<<t>>) THEN <<t>>[i] ELSE q.tasks[i - Len(<<t>>)]
    BY <1>1, <1>2, ConcatProperties
  <2>3. Len(q.tasks) \in Nat
    BY <1>1
  <2> HIDE DEF s
  <2>4. s[1] = t
    BY <1>2, <2>2, <2>3
  <2>5. ASSUME NEW i \in 1 .. Len(q.tasks) PROVE s[i + 1] = q.tasks[i]
    <3>1. i + 1 \in 1 .. 1 + Len(q.tasks) /\ ~(i + 1 <= 1) /\ (i + 1) - 1 = i
      BY <2>3
    <3> QED
      BY <1>2, <2>2, <3>1
  <2> QED
    BY <2>1, <2>3, <2>4, <2>5
<1>4. r = [q EXCEPT !.inProgress = q.inProgress \ {t}, !.tasks = s]
  BY DEF MarkAsUnprocessed
<1> HIDE DEF r, s
<1>5. r = [tasks |-> s, inProgress |-> q.inProgress \ {t}, blockedBy |-> q.blockedBy,
           toSkip |-> q.toSkip]
  BY <1>1, <1>4 DEF Queue
<1>6. r \in Queue
  BY <1>1, <1>3, <1>5 DEF Queue
<1>7. ToSet(s) = {s[i] : i \in 1 .. Len(s)} /\ ToSet(q.tasks) = {q.tasks[i] : i \in 1 .. Len(q.tasks)}
  BY <1>1, <1>3, Elements
<1>8. \A i \in 1 .. Len(s) : i = 1 \/ (i - 1 \in 1 .. Len(q.tasks) /\ s[i] = q.tasks[i - 1])
  <2>1. Len(q.tasks) \in Nat
    BY <1>1
  <2>2. ASSUME NEW i \in 1 .. Len(s), i # 1
        PROVE  i - 1 \in 1 .. Len(q.tasks) /\ s[i] = q.tasks[i - 1]
    <3>1. i \in 1 .. Len(q.tasks) + 1
      BY <1>3
    <3>2. i - 1 \in 1 .. Len(q.tasks) /\ (i - 1) + 1 = i
      BY <2>1, <2>2, <3>1
    <3>3. s[(i - 1) + 1] = q.tasks[i - 1]
      BY <1>3, <3>2
    <3> QED
      BY <3>2, <3>3
  <2> QED
    BY <2>2
<1>9. ToSet(s) = ToSet(q.tasks) \cup {t}
  <2>1. ToSet(s) \subseteq ToSet(q.tasks) \cup {t}
    BY <1>3, <1>7, <1>8
  <2>2. t \in ToSet(s)
    <3>1. Len(s) = Len(q.tasks) + 1 /\ Len(q.tasks) \in Nat
      BY <1>1, <1>3
    <3>2. 1 \in 1 .. Len(s)
      BY <3>1
    <3> QED
      BY <1>3, <1>7, <3>2
  <2>3. ASSUME NEW i \in 1 .. Len(q.tasks) PROVE q.tasks[i] \in ToSet(s)
    <3>1. i + 1 \in 1 .. Len(s)
      BY <1>1, <1>3
    <3> QED
      BY <1>3, <1>7, <3>1
  <2> QED
    BY <1>7, <2>1, <2>2, <2>3
<1>10. Distinct(s)
  <2>1. \A i \in 1 .. Len(q.tasks) : q.tasks[i] # t
    BY <1>1, <1>7
  <2>2. \A i, j \in 1 .. Len(q.tasks) : q.tasks[i] = q.tasks[j] => i = j
    BY DEF QueueInv, Distinct
  <2>3. ASSUME NEW i \in 1 .. Len(s), NEW j \in 1 .. Len(s), s[i] = s[j] PROVE i = j
    <3>1. CASE i = 1 \/ j = 1
      BY <1>3, <1>8, <2>1, <2>3, <3>1
    <3>2. CASE i # 1 /\ j # 1
      <4>1. i - 1 = j - 1
        BY <1>8, <2>2, <2>3, <3>2
      <4> QED
        BY <4>1
    <3> QED
      BY <3>1, <3>2
  <2> QED
    BY <2>3 DEF Distinct
<1>11. Pending(r) = Pending(q) /\ Completed(r) = Completed(q)
  BY <1>5, <1>9 DEF Pending, Completed
<1>12. QueueInv(r, mk, fl)
  BY <1>5, <1>6, <1>9, <1>10, <1>11 DEF QueueInv
<1> QED
  BY <1>5, <1>12 DEF r

\* All that a task in progress depends on was processed, with its typings.
LEMMA InProgressReady ==
  ASSUME NEW q, NEW mk, NEW fl, QueueInv(q, mk, fl), NEW t \in q.inProgress
  PROVE  t \in Task /\ Blocking(t) \subseteq mk
<1>1. t \in Task /\ q.toSkip \subseteq Task /\ fl \subseteq Task
  BY QueueTypes DEF QueueInv, Completed
<1>2. ASSUME NEW d \in Blocking(t) PROVE d \in mk
  <2>1. d \in Task /\ t \in Dependents(d)
    BY <1>1, <1>2, BlockingTasks
  <2>2. d \notin fl
    BY <1>1, <2>1, BelowEquation DEF QueueInv
  <2>3. d \notin q.toSkip
    <3>1. ASSUME NEW f \in fl, d \in Below[f] PROVE t \in Below[f]
      BY <1>1, <2>1, <3>1, BelowClosed
    <3> QED
      BY <3>1 DEF QueueInv
  <2> QED
    BY <1>2, <2>2, <2>3 DEF QueueInv
<1> QED
  BY <1>1, <1>2

\* The order of sortTasksByPriority() is total, ...
LEMMA PriorityOrder ==
  \A t, u, v \in Task : /\ ~Before(t, t)
                        /\ Before(t, u) /\ Before(u, v) => Before(t, v)
                        /\ t # u => Before(t, u) \/ Before(u, t)
<1> DEFINE c(t) == Cardinality(Dependents(t))
<1>1. \A t \in Task : c(t) \in Nat
  BY DependentsLater, TaskNumbers, FS_Subset, FS_CardinalityType
<1>2. \A t, u \in Task : Before(t, u) <=> c(t) > c(u) \/ (c(t) = c(u) /\ t < u)
  BY DEF Before
<1> HIDE DEF c
<1> QED
  BY <1>1, <1>2, TaskNumbers

\* ... so a task's place is the number of those before it, ...
LEMMA PriorityRank ==
  \E r \in [Task -> 1 .. Len(Tasks)] :
    /\ \A t, u \in Task : Before(t, u) <=> r[t] < r[u]
    /\ \A i \in 1 .. Len(Tasks) : \E t \in Task : r[t] = i
<1> DEFINE above(t) == {u \in Task : Before(u, t)}
           r == [t \in Task |-> Cardinality(above(t)) + 1]
<1>1. \A t \in Task : above(t) \subseteq Task /\ t \notin above(t)
  BY PriorityOrder
<1>2. \A t, u \in Task : Before(t, u) => above(t) \subseteq above(u) /\ t \in above(u)
  BY PriorityOrder
<1> HIDE DEF above
<1>3. \A t \in Task : IsFiniteSet(above(t)) /\ Cardinality(above(t)) \in Nat
  BY <1>1, TaskNumbers, FS_Subset, FS_CardinalityType
<1>4. \A t, u \in Task : Before(t, u) => Cardinality(above(t)) < Cardinality(above(u))
  <2>1. ASSUME NEW t \in Task, NEW u \in Task, Before(t, u)
        PROVE  Cardinality(above(t)) < Cardinality(above(u))
    <3>1. /\ Cardinality(above(t)) <= Cardinality(above(u))
          /\ Cardinality(above(u)) = Cardinality(above(t)) => above(u) = above(t)
      BY <1>2, <1>3, <2>1, FS_Subset
    <3> QED
      BY <1>1, <1>2, <1>3, <2>1, <3>1
  <2> QED
    BY <2>1
<1>5. \A t \in Task : Cardinality(above(t)) < Len(Tasks)
  <2>1. ASSUME NEW t \in Task PROVE Cardinality(above(t)) < Len(Tasks)
    <3>1. /\ Cardinality(above(t)) <= Cardinality(Task)
          /\ Cardinality(Task) = Cardinality(above(t)) => Task = above(t)
      BY <1>1, TaskNumbers, FS_Subset
    <3> QED
      BY <1>1, <1>3, <3>1, TaskNumbers
  <2> QED
    BY <2>1
<1>6. r \in [Task -> 1 .. Len(Tasks)] /\ \A t \in Task : r[t] = Cardinality(above(t)) + 1
  BY <1>3, <1>5, TaskNumbers
<1> HIDE DEF r
<1>7. \A t, u \in Task : Before(t, u) => r[t] < r[u]
  BY <1>3, <1>4, <1>6
<1>8. \A t \in Task : r[t] \in Nat
  BY <1>6
<1>9. \A t, u \in Task : Before(t, u) <=> r[t] < r[u]
  BY <1>7, <1>8, PriorityOrder
<1>10. \A t, u \in Task : r[t] = r[u] => t = u
  BY <1>7, <1>8, PriorityOrder
<1>11. r \in Injection(Task, 1 .. Len(Tasks))
  BY <1>6, <1>10 DEF Injection, IsInjective
<1>12. r \in Surjection(Task, 1 .. Len(Tasks))
  BY <1>11, FS_Injection, TaskNumbers
<1>13. \A i \in 1 .. Len(Tasks) : \E t \in Task : r[t] = i
  BY <1>12 DEF Surjection
<1> QED
  BY <1>6, <1>9, <1>13

\* ... and the sorted list has each task once.
LEMMA SortedTasks ==
  Sorted \in Seq(Task) /\ Distinct(Sorted) /\ ToSet(Sorted) = Task
<1> DEFINE n == Len(Tasks)
           Sorts(s) == \A i, j \in 1 .. n : i < j => Before(s[i], s[j])
<1>1. n \in Nat /\ Task = 1 .. n
  BY TaskNumbers
<1>2. PICK r \in [Task -> 1 .. n] : /\ \A t, u \in Task : Before(t, u) <=> r[t] < r[u]
                                    /\ \A i \in 1 .. n : \E t \in Task : r[t] = i
  BY PriorityRank
<1> DEFINE s == [i \in 1 .. n |-> CHOOSE t \in Task : r[t] = i]
<1>3. \A i \in 1 .. n : s[i] \in Task /\ r[s[i]] = i
  BY <1>2
<1>4. s \in [1 .. n -> Task]
  BY <1>3
<1> HIDE DEF s
<1>5. Sorts(s)
  BY <1>2, <1>3
<1>6. Sorted = CHOOSE x \in [1 .. n -> Task] : Sorts(x)
  BY DEF Sorted
<1> HIDE DEF Sorts
<1>7. Sorted \in [1 .. n -> Task] /\ Sorts(Sorted)
  BY <1>4, <1>5, <1>6
<1>8. Sorted \in Seq(Task) /\ Len(Sorted) = n
  BY <1>1, <1>7
<1>9. \A i \in 1 .. n : Sorted[i] \in Task
  BY <1>7
<1>10. \A i, j \in 1 .. n : Sorted[i] = Sorted[j] => i = j
  BY <1>1, <1>7, <1>9, PriorityOrder DEF Sorts
<1>11. Sorted \in Injection(1 .. n, Task)
  BY <1>7, <1>10 DEF Injection, IsInjective
<1>12. Sorted \in Surjection(1 .. n, Task)
  BY <1>1, <1>11, TaskNumbers, FS_Injection
<1>13. \A t \in Task : \E i \in 1 .. n : Sorted[i] = t
  BY <1>12 DEF Surjection
<1>14. ToSet(Sorted) = {Sorted[i] : i \in 1 .. n}
  BY <1>8, Elements
<1>15. ToSet(Sorted) = Task
  BY <1>9, <1>13, <1>14
<1>16. Distinct(Sorted)
  BY <1>8, <1>10 DEF Distinct
<1> QED
  BY <1>8, <1>15, <1>16

LEMMA NewQueueInv == QueueInv(NewQueue, {}, {}) /\ NewQueue.inProgress = {}
<1> DEFINE b == [t \in Task |-> Blocking(t)]
<1>1. b \in [Task -> SUBSET Task] /\ \A t \in Task : b[t] = Blocking(t)
  BY BlockingTasks
<1>2. NewQueue = [tasks |-> Sorted, inProgress |-> {}, blockedBy |-> b, toSkip |-> {}]
  BY DEF NewQueue
<1> HIDE DEF b
<1>3. NewQueue \in Queue
  BY <1>1, <1>2, SortedTasks DEF Queue
<1>4. Pending(NewQueue) = Task /\ Completed(NewQueue) = {}
  BY <1>2, SortedTasks DEF Pending, Completed
<1> QED
  BY <1>1, <1>2, <1>3, <1>4, BlockingTasks, SortedTasks DEF QueueInv

-------------------------------------------------------------------------------
(* The inductive invariant.                                                     *)

\* What is on disk (dk) when the task t is processed under the setting st.
SrcWritten(t, dk, st, lf) ==
  IF st.inPlace THEN st.errorOnFailed \/ t \notin lf => dk[<<t, "src">>].at = "new"
                ELSE dk[<<t, "src">>].copy = "new"
DtsWritten(t, dk, st, lf) ==
  Tasks[t].dts /\ (st.errorOnFailed \/ t \notin lf) => dk[<<t, "dts">>].at = "new"

\* While p writes the files of t: what is left to do, and what is done.
Steps(t) == IF Tasks[t].dts THEN 4 ELSE 2
Step(k, st) == IF k = 1 THEN <<IF st.inPlace THEN "save" ELSE "copy", "src">>
               ELSE IF k = 2 THEN <<IF st.inPlace THEN "write" ELSE "put", "src">>
               ELSE IF k = 3 THEN <<"save", "dts">>
               ELSE <<"write", "dts">>
WritingInv(p, t, dk, st, lf) ==
  /\ Len(p.ops) <= Steps(t)
  /\ \A i \in 1 .. Len(p.ops) : p.ops[i] = Step(Steps(t) - Len(p.ops) + i, st)
  /\ Len(p.ops) <= Steps(t) - 2 => SrcWritten(t, dk, st, lf)
  /\ Len(p.ops) = 0 => DtsWritten(t, dk, st, lf)

\* An outcome is the last message; "processed" tells the truth.
MessagesInv(s, t, fm, dk, st, lf) ==
  \A i \in 1 .. Len(s) :
    /\ s[i] \in {"processed", "failed", "error"} => i = Len(s)
    /\ s[i] = "processed" =>
         /\ SrcWritten(t, dk, st, lf) /\ DtsWritten(t, dk, st, lf)
         /\ st.inPlace \/ t \in fm \/ \E j \in 1 .. i - 1 : s[j] = "update"

\* A worker that is not in the table of the master, one that is and has no task, and one
\* that has the task t.
OfflineInv(p) ==
  /\ p.state \in {"none", "idle", "dead"}
  /\ p.state = "none" => p.sent = <<>>
  /\ p.state = "idle" => p.sent = <<"online">>
  /\ \A i \in 1 .. Len(p.sent) : p.sent[i] = "online" => Len(p.sent) = 1
WaitingInv(p) == p.state \in {"idle", "dead"} /\ p.sent = <<>>
AssignedInv(p, t, fm, dk, st, lf) ==
  /\ p.state # "none" /\ \A i \in 1 .. Len(p.sent) : p.sent[i] # "online"
  /\ p.state = "told" => p.task = t /\ p.sent = <<>>
  /\ p.state = "writing" =>
       /\ p.task = t /\ WritingInv(p, t, dk, st, lf)
       /\ Len(p.sent) <= 1 /\ \A i \in 1 .. Len(p.sent) : p.sent[i] = "files"
  /\ MessagesInv(p.sent, t, fm, dk, st, lf)

\* What the table says of the queue and of the workers.
TableInv(q, kn, a) ==
  /\ kn \in Seq(Worker) /\ Distinct(kn) /\ a \in [Worker -> Task \cup {NoTask}]
  /\ \A w \in Worker : a[w] # NoTask => w \in ToSet(kn) /\ a[w] \in q.inProgress
  /\ \A t \in q.inProgress : \E w \in Worker : a[w] = t
  /\ \A v, w \in Worker : a[v] = a[w] /\ a[v] # NoTask => v = w
WorkerInv(w, kn, a, procs, fm, dk, st, lf) ==
  /\ w \notin ToSet(kn) => OfflineInv(procs[w])
  /\ w \in ToSet(kn) /\ a[w] = NoTask => WaitingInv(procs[w])
  /\ w \in ToSet(kn) /\ a[w] # NoTask => AssignedInv(procs[w], a[w], fm, dk, st, lf)
WorkersInv(kn, a, procs, fm, dk, st, lf) ==
  \A w \in Worker : WorkerInv(w, kn, a, procs, fm, dk, st, lf)

\* Only processes that were forked do anything.
ForkedInv(n, procs) ==
  n \in Nat /\ procs \in [Worker -> Process] /\ \A w \in Worker : w > n => procs[w].state = "none"

\* While the run goes on; and always.
RunInv ==
  /\ QueueInv(queue, marked, failed)
  /\ TableInv(queue, online, assignment)
  /\ WorkersInv(online, assignment, proc, formats, disk, setting, stray)
DiskInv ==
  /\ setting \in Setting
  /\ disk \in [File -> [at : {"orig", "new", "none"}, bak : {"orig", "new", "none"},
                        copy : {"orig", "new", "none"}]]
CompiledInv(procs, mk) ==
  \A w \in Worker : procs[w].state \in {"told", "writing"}
                      => procs[w].task \in Task /\ Blocking(procs[w].task) \subseteq mk
MarkedInv(mk, fm, dk, st, lf) ==
  \A t \in mk : /\ t \in Task /\ SrcWritten(t, dk, st, lf) /\ DtsWritten(t, dk, st, lf)
                /\ st.inPlace \/ t \in fm

\* Unless a task is excepted, no backup is where a worker moves one of its files: there is none
\* of it before a worker has begun, and none of what that worker has still to write.
Clean(t) == \A f \in File : f[1] = t => disk[f].bak = "none"
UntouchedInv ==
  \A t \in Task \ stray :
    \/ t \in marked \cup failed \/ Clean(t)
    \/ \E w \in Worker : assignment[w] = t /\ proc[w].state # "told"
Unsaved(p, dk) ==
  /\ setting.inPlace /\ Len(p.ops) = Steps(p.task) => dk[<<p.task, "src">>].bak = "none"
  /\ Tasks[p.task].dts /\ Len(p.ops) >= 2 => dk[<<p.task, "dts">>].bak = "none"
BackupInv ==
  finished = "pending" =>
    /\ UntouchedInv
    /\ \A w \in Worker : proc[w].state = "writing" /\ proc[w].task \notin stray => Unsaved(proc[w], disk)

IInv == /\ ForkedInv(forks, proc) /\ DiskInv /\ CompiledInv(proc, marked)
        /\ MarkedInv(marked, formats, disk, setting, stray) /\ SkippedIffDependencyFailed
        /\ finished = "pending" => RunInv

-------------------------------------------------------------------------------
(* The loop of maybeDistributeWork().                                           *)

\* Where it stops, its rounds and its result.
Ends(d) == \/ d.rest = <<>>
           \/ /\ d.assignment[Head(d.rest)] = NoTask
              /\ NextTask(d.queue) = NoTask \/ ~Reachable(Head(d.rest))
Passed(d) == [queue |-> d.queue, assignment |-> d.assignment, rest |-> Tail(d.rest),
              told |-> d.told, end |-> d.end]
Given(d, end) ==
  [queue |-> AfterNext(d.queue),
   assignment |-> [d.assignment EXCEPT ![Head(d.rest)] = NextTask(d.queue)],
   rest |-> Tail(d.rest), told |-> d.told \cup {Head(d.rest)}, end |-> end]
NoneLeft(d) == [queue |-> AfterNext(d.queue), assignment |-> d.assignment, rest |-> d.rest,
                told |-> d.told, end |-> "available"]
Goes(d) == IF d.assignment[Head(d.rest)] # NoTask THEN Passed(d) ELSE Given(d, d.end)
Leaves(d) == IF d.rest = <<>> THEN d
             ELSE IF NextTask(d.queue) = NoTask THEN NoneLeft(d) ELSE Given(d, "threw")

LEMMA NextTaskTypes ==
  ASSUME NEW q \in Queue
  PROVE  NextTask(q) \in Task \cup {NoTask} /\ AfterNext(q) \in Queue
<1>1. Skipped[q] \in Queue
  BY SkippedLoops
<1>2. CASE NextTask(q) = NoTask
  BY <1>1, <1>2 DEF AfterNext
<1>3. CASE NextTask(q) # NoTask
  <2>1. ComputeNextTask(Skipped[q]) # NoTask
    BY <1>3 DEF NextTask
  <2>2. Take(Skipped[q]) \in Queue /\ ComputeNextTask(Skipped[q]) \in Task
    BY <1>1, <2>1, TakingShorter, NextTaskFree
  <2> QED
    BY <1>3, <2>2 DEF AfterNext, NextTask
<1> QED
  BY <1>2, <1>3

LEMMA DistributionTypes ==
  ASSUME NEW d \in Distribution
  PROVE  /\ d.rest # <<>> => /\ Head(d.rest) \in Worker
                             /\ Len(Tail(d.rest)) \in Nat /\ Len(Tail(d.rest)) < Len(d.rest)
                             /\ Passed(d) \in Distribution
                             /\ \A e \in {d.end, "threw"} : Given(d, e) \in Distribution
         /\ NoneLeft(d) \in Distribution /\ Len(d.rest) \in Nat
<1>1. /\ d.queue \in Queue /\ d.assignment \in [Worker -> Task \cup {NoTask}]
      /\ d.rest \in Seq(Worker) /\ d.told \in SUBSET Worker
      /\ d.end \in {"assigned", "available", "threw"}
  BY DEF Distribution
<1>2. NextTask(d.queue) \in Task \cup {NoTask} /\ AfterNext(d.queue) \in Queue
  BY <1>1, NextTaskTypes
<1>3. d.rest # <<>> => /\ Head(d.rest) \in Worker /\ Tail(d.rest) \in Seq(Worker)
                       /\ Len(Tail(d.rest)) \in Nat /\ Len(Tail(d.rest)) < Len(d.rest)
  BY <1>1
<1>4. d.rest # <<>> => Passed(d) \in Distribution
  BY <1>1, <1>3 DEF Passed, Distribution
<1>5. d.rest # <<>> => \A e \in {d.end, "threw"} : Given(d, e) \in Distribution
  BY <1>1, <1>2, <1>3 DEF Given, Distribution
<1>6. NoneLeft(d) \in Distribution
  BY <1>1, <1>2 DEF NoneLeft, Distribution
<1> QED
  BY <1>1, <1>3, <1>4, <1>5, <1>6

\* A round as the definition of the loop has it.
Round(f, d) ==
  IF d.rest = <<>> THEN d
  ELSE LET w == Head(d.rest)
           t == NextTask(d.queue)
           given == [d EXCEPT !.queue = AfterNext(d.queue), !.assignment[w] = t,
                              !.told = @ \cup {w}, !.rest = Tail(@)]
       IN CASE d.assignment[w] # NoTask -> f[[d EXCEPT !.rest = Tail(@)]]
            [] d.assignment[w] = NoTask /\ t = NoTask ->
                 [d EXCEPT !.queue = AfterNext(d.queue), !.end = "available"]
            [] d.assignment[w] = NoTask /\ t # NoTask ->
                 IF Reachable(w) THEN f[given] ELSE [given EXCEPT !.end = "threw"]

LEMMA Rounds ==
  ASSUME NEW f, NEW d \in Distribution
  PROVE  Round(f, d) = IF Ends(d) THEN Leaves(d) ELSE f[Goes(d)]
<1> DEFINE w == Head(d.rest)
           t == NextTask(d.queue)
           given == [d EXCEPT !.queue = AfterNext(d.queue), !.assignment[w] = t,
                              !.told = @ \cup {w}, !.rest = Tail(@)]
           passed == [d EXCEPT !.rest = Tail(@)]
           none == [d EXCEPT !.queue = AfterNext(d.queue), !.end = "available"]
           thrown == [given EXCEPT !.end = "threw"]
<1>1. ASSUME NEW r, r = passed PROVE r = Passed(d)
  BY <1>1 DEF Distribution, Passed
<1>2. ASSUME NEW r, r = none PROVE r = NoneLeft(d)
  BY <1>2 DEF Distribution, NoneLeft
<1>3. ASSUME NEW r, r = given PROVE r = Given(d, d.end)
  BY <1>3 DEF Distribution, Given
<1>4. ASSUME NEW r, r = thrown PROVE r = Given(d, "threw")
  <2>1. given = Given(d, d.end)
    BY <1>3
  <2> HIDE DEF given
  <2>2. r = [Given(d, d.end) EXCEPT !.end = "threw"]
    BY <1>4, <2>1
  <2> QED
    BY <2>2 DEF Given
<1>5. passed = Passed(d) /\ none = NoneLeft(d) /\ given = Given(d, d.end) /\ thrown = Given(d, "threw")
  BY <1>1, <1>2, <1>3, <1>4
<1>6. Round(f, d) = IF d.rest = <<>> THEN d
                    ELSE CASE d.assignment[w] # NoTask -> f[passed]
                           [] d.assignment[w] = NoTask /\ t = NoTask -> none
                           [] d.assignment[w] = NoTask /\ t # NoTask ->
                                IF Reachable(w) THEN f[given] ELSE thrown
  BY DEF Round
<1> HIDE DEF passed, none, given, thrown, w, t
<1>7. CASE d.rest = <<>>
  BY <1>6, <1>7 DEF Ends, Leaves
<1>8. CASE d.rest # <<>> /\ d.assignment[w] # NoTask
  BY <1>5, <1>6, <1>8 DEF Ends, Goes, w
<1>9. CASE d.rest # <<>> /\ d.assignment[w] = NoTask /\ t = NoTask
  BY <1>5, <1>6, <1>9 DEF Ends, Leaves, w, t
<1>10. CASE d.rest # <<>> /\ d.assignment[w] = NoTask /\ t # NoTask
  BY <1>5, <1>6, <1>10 DEF Ends, Leaves, Goes, w, t
<1> QED
  BY <1>7, <1>8, <1>9, <1>10

\* What every round keeps holds where the loop stops.
LEMMA DistributedKeeps ==
  ASSUME NEW P \in SUBSET Distribution, \A d \in P : ~Ends(d) => Goes(d) \in P, NEW d0 \in P
  PROVE  \E d \in P : Ends(d) /\ Distributed[d0] = Leaves(d)
<1> DEFINE stop == {d \in Distribution : Ends(d)}
           step == [d \in Distribution |-> IF Ends(d) THEN d ELSE Goes(d)]
           out == [d \in Distribution |-> IF Ends(d) THEN Leaves(d) ELSE d]
           m == [d \in Distribution |-> Len(d.rest)]
<1>1. ASSUME NEW d \in Distribution, ~Ends(d)
      PROVE  Goes(d) \in Distribution /\ Len(Goes(d).rest) < Len(d.rest)
  <2>1. d.rest # <<>>
    BY <1>1 DEF Ends
  <2>2. /\ Len(Tail(d.rest)) < Len(d.rest) /\ Passed(d) \in Distribution
        /\ Given(d, d.end) \in Distribution
    BY <2>1, DistributionTypes
  <2>3. Passed(d).rest = Tail(d.rest) /\ Given(d, d.end).rest = Tail(d.rest)
    BY DEF Passed, Given
  <2> QED
    BY <2>2, <2>3 DEF Goes
<1>2. ASSUME NEW d \in Distribution, Ends(d) PROVE Leaves(d) \in Distribution
  BY DistributionTypes DEF Leaves
<1>3. step \in [Distribution -> Distribution]
      /\ \A d \in Distribution : step[d] = IF Ends(d) THEN d ELSE Goes(d)
  BY <1>1
<1>4. out \in [Distribution -> Distribution]
      /\ \A d \in Distribution : out[d] = IF Ends(d) THEN Leaves(d) ELSE d
  BY <1>2
<1>5. m \in [Distribution -> Nat] /\ \A d \in Distribution : m[d] = Len(d.rest)
  BY DistributionTypes
<1>6. \A d \in Distribution : d \in stop <=> Ends(d)
  OBVIOUS
<1>7. \A d \in Distribution \ stop : m[step[d]] < m[d]
  BY <1>1, <1>3, <1>5, <1>6
<1> HIDE DEF stop, step, out, m
<1>8. PICK f \in [Distribution -> Distribution] : Loops(f, Distribution, stop, out, step)
  BY <1>3, <1>4, <1>5, <1>7, LoopExists
<1>9. \A d \in Distribution : f[d] = Round(f, d)
  BY <1>3, <1>4, <1>6, <1>8, Rounds DEF Loops
<1>10. f = [d \in Distribution |-> Round(f, d)]
  BY <1>9
<1>11. Distributed = CHOOSE g : g = [d \in Distribution |-> Round(g, d)]
  BY DEF Distributed, Round
<1>12. Distributed = [d \in Distribution |-> Round(Distributed, d)]
  BY <1>10, <1>11
<1>13. \A d \in Distribution : Distributed[d] = Round(Distributed, d)
  BY <1>12
<1>14. Loops(Distributed, Distribution, stop, out, step)
  BY <1>3, <1>4, <1>6, <1>13, Rounds DEF Loops
<1>15. \A d \in P \ stop : step[d] \in P
  BY <1>3, <1>6
<1>16. \E d \in P \cap stop : Distributed[d0] = out[d]
  BY <1>3, <1>5, <1>7, <1>14, <1>15, LoopKeeps
<1> QED
  BY <1>4, <1>6, <1>16

\* What it makes of the queue q and the assignments a of the workers kn.
DistributedInv(d, kn, a, mk, fl) ==
  /\ QueueInv(d.queue, mk, fl) /\ TableInv(d.queue, kn, d.assignment)
  /\ \A w \in Worker : w \notin d.told => d.assignment[w] = a[w]
  /\ \A w \in d.told : w \in ToSet(kn) /\ a[w] = NoTask /\ d.assignment[w] # NoTask

\* One more worker is given a task.
LEMMA TableGrows ==
  ASSUME NEW q, NEW r, NEW kn, NEW a, NEW t \in Task, NEW w \in ToSet(kn), TableInv(q, kn, a),
         a[w] = NoTask, q.inProgress \subseteq Task, t \notin q.inProgress,
         r.inProgress = q.inProgress \cup {t}
  PROVE  TableInv(r, kn, [a EXCEPT ![w] = t])
<1>1. kn \in Seq(Worker) /\ a \in [Worker -> Task \cup {NoTask}] /\ NoTask \notin Task
  BY TaskNumbers DEF TableInv
<1>2. w \in Worker
  BY <1>1, Elements
<1>3. \A v \in Worker : [a EXCEPT ![w] = t][v] = IF v = w THEN t ELSE a[v]
  BY <1>1
<1>4. [a EXCEPT ![w] = t] \in [Worker -> Task \cup {NoTask}]
  BY <1>1
<1> DEFINE b == [a EXCEPT ![w] = t]
<1>5. b \in [Worker -> Task \cup {NoTask}] /\ \A v \in Worker : b[v] = IF v = w THEN t ELSE a[v]
  BY <1>3, <1>4
<1> HIDE DEF b
<1>6. \A v \in Worker : b[v] # NoTask => v \in ToSet(kn) /\ b[v] \in r.inProgress
  BY <1>5 DEF TableInv
<1>7. \A u \in r.inProgress : \E v \in Worker : b[v] = u
  <2>1. \A u \in q.inProgress : \E v \in Worker : v # w /\ a[v] = u
    BY <1>1, TaskNumbers DEF TableInv
  <2> QED
    BY <1>2, <1>5, <2>1
<1>8. \A u, v \in Worker : b[u] = b[v] /\ b[u] # NoTask => u = v
  BY <1>5 DEF TableInv
<1>9. TableInv(r, kn, b)
  BY <1>1, <1>5, <1>6, <1>7, <1>8 DEF TableInv
<1> QED
  BY <1>9 DEF b

LEMMA DistributedRounds ==
  ASSUME NEW d \in Distribution, NEW kn, NEW a, NEW mk, NEW fl,
         DistributedInv(d, kn, a, mk, fl), d.rest \in Seq(ToSet(kn)), d.rest # <<>>
  PROVE  /\ DistributedInv(Passed(d), kn, a, mk, fl) /\ Passed(d).rest \in Seq(ToSet(kn))
         /\ NextTask(d.queue) # NoTask /\ d.assignment[Head(d.rest)] = NoTask
              => \A e : /\ DistributedInv(Given(d, e), kn, a, mk, fl)
                        /\ Given(d, e).rest \in Seq(ToSet(kn))
         /\ NextTask(d.queue) = NoTask => DistributedInv(NoneLeft(d), kn, a, mk, fl)
<1> DEFINE w == Head(d.rest)
           t == NextTask(d.queue)
<1>1. w \in ToSet(kn) /\ Tail(d.rest) \in Seq(ToSet(kn))
  OBVIOUS
<1>2. /\ QueueInv(AfterNext(d.queue), mk, fl)
      /\ t = NoTask => AfterNext(d.queue).inProgress = d.queue.inProgress
      /\ t # NoTask => /\ t \in Task \ d.queue.inProgress
                       /\ AfterNext(d.queue).inProgress = d.queue.inProgress \cup {t}
  BY NextTaskGiven DEF DistributedInv
<1> HIDE DEF w, t
<1>3. DistributedInv(Passed(d), kn, a, mk, fl) /\ Passed(d).rest \in Seq(ToSet(kn))
  BY <1>1 DEF DistributedInv, Passed
<1>4. ASSUME t = NoTask PROVE DistributedInv(NoneLeft(d), kn, a, mk, fl)
  <2>1. TableInv(AfterNext(d.queue), kn, d.assignment)
    BY <1>2, <1>4 DEF DistributedInv, TableInv
  <2> QED
    BY <1>2, <2>1 DEF DistributedInv, NoneLeft
<1>5. ASSUME t # NoTask, d.assignment[w] = NoTask, NEW e
      PROVE  DistributedInv(Given(d, e), kn, a, mk, fl) /\ Given(d, e).rest \in Seq(ToSet(kn))
  <2> DEFINE b == [d.assignment EXCEPT ![w] = t]
  <2>1. TableInv(AfterNext(d.queue), kn, b)
    BY <1>1, <1>2, <1>5, TableGrows, QueueTypes DEF DistributedInv, QueueInv
  <2>2. d.assignment \in [Worker -> Task \cup {NoTask}]
    BY DEF Distribution
  <2>3. kn \in Seq(Worker) /\ w \in Worker
    BY <1>1, Elements DEF DistributedInv, TableInv
  <2>4. \A v \in Worker : b[v] = IF v = w THEN t ELSE d.assignment[v]
    BY <2>2
  <2>5. d.told \in SUBSET Worker
    BY DEF Distribution
  <2>6. a[w] = NoTask
    BY <1>5, <2>3 DEF DistributedInv
  <2> HIDE DEF b
  <2>7. \A v \in Worker : v \notin d.told \cup {w} => b[v] = a[v]
    BY <2>4 DEF DistributedInv
  <2>8. \A v \in d.told \cup {w} : v \in ToSet(kn) /\ a[v] = NoTask /\ b[v] # NoTask
    BY <1>1, <1>5, <2>3, <2>4, <2>5, <2>6 DEF DistributedInv
  <2>9. /\ Given(d, e).queue = AfterNext(d.queue) /\ Given(d, e).assignment = b
        /\ Given(d, e).told = d.told \cup {w} /\ Given(d, e).rest = Tail(d.rest)
    BY DEF Given, b, w, t
  <2> QED
    BY <1>1, <1>2, <2>1, <2>7, <2>8, <2>9 DEF DistributedInv
<1> QED
  BY <1>3, <1>4, <1>5 DEF w, t

LEMMA DistributedLeaves ==
  ASSUME NEW q, NEW kn, NEW a, NEW mk, NEW fl, QueueInv(q, mk, fl), TableInv(q, kn, a),
         NEW d, d = Distributed[[queue |-> q, assignment |-> a, rest |-> kn, told |-> {},
                                 end |-> "assigned"]]
  PROVE  DistributedInv(d, kn, a, mk, fl)
<1> DEFINE d0 == [queue |-> q, assignment |-> a, rest |-> kn, told |-> {}, end |-> "assigned"]
           P == {x \in Distribution : DistributedInv(x, kn, a, mk, fl) /\ x.rest \in Seq(ToSet(kn))}
<1>1. d0 \in Distribution
  BY DEF Distribution, QueueInv, TableInv
<1>2. kn \in Seq(ToSet(kn))
  <2>1. kn \in Seq(Worker)
    BY DEF TableInv
  <2>2. Len(kn) \in Nat /\ DOMAIN kn = 1 .. Len(kn) /\ \A i \in 1 .. Len(kn) : kn[i] \in ToSet(kn)
    BY <2>1, Elements
  <2> QED
    BY <2>1, <2>2, SeqDef
<1>3. DistributedInv(d0, kn, a, mk, fl)
  BY DEF DistributedInv
<1>4. d0 \in P
  BY <1>1, <1>2, <1>3
<1>5. ASSUME NEW x \in P, ~Ends(x) PROVE Goes(x) \in P
  <2>1. x.rest # <<>> /\ (x.assignment[Head(x.rest)] = NoTask => NextTask(x.queue) # NoTask)
    BY <1>5 DEF Ends
  <2>2. x \in Distribution /\ DistributedInv(x, kn, a, mk, fl) /\ x.rest \in Seq(ToSet(kn))
    OBVIOUS
  <2>3. Passed(x) \in Distribution /\ Given(x, x.end) \in Distribution
    BY <2>1, <2>2, DistributionTypes
  <2>4. /\ DistributedInv(Passed(x), kn, a, mk, fl) /\ Passed(x).rest \in Seq(ToSet(kn))
        /\ NextTask(x.queue) # NoTask /\ x.assignment[Head(x.rest)] = NoTask
             => /\ DistributedInv(Given(x, x.end), kn, a, mk, fl)
                /\ Given(x, x.end).rest \in Seq(ToSet(kn))
    BY <2>1, <2>2, DistributedRounds
  <2> QED
    BY <2>1, <2>3, <2>4 DEF Goes
<1>6. PICK x \in P : Ends(x) /\ Distributed[d0] = Leaves(x)
  <2>1. P \in SUBSET Distribution
    OBVIOUS
  <2> HIDE DEF P, d0
  <2> QED
    BY <1>4, <1>5, <2>1, DistributedKeeps
<1>7. x \in Distribution /\ DistributedInv(x, kn, a, mk, fl) /\ x.rest \in Seq(ToSet(kn))
  OBVIOUS
<1>8. d = Leaves(x)
  BY <1>6
<1> HIDE DEF P, d0
<1>9. x.rest # <<>> =>
        /\ NextTask(x.queue) # NoTask /\ x.assignment[Head(x.rest)] = NoTask
             => DistributedInv(Given(x, "threw"), kn, a, mk, fl)
        /\ NextTask(x.queue) = NoTask => DistributedInv(NoneLeft(x), kn, a, mk, fl)
  BY <1>7, DistributedRounds
<1> QED
  BY <1>6, <1>7, <1>8, <1>9 DEF Leaves, Ends

-------------------------------------------------------------------------------
(* Processes.                                                                   *)

LEMMA WorkerNumbers == Worker \subseteq Nat
<1>1. Cardinality(Worker) \in Nat /\ Worker = 1 .. Cardinality(Worker)
  BY ClusterAssumption, FS_CardinalityType
<1> QED
  BY <1>1

LEMMA ProcessTypes ==
  ASSUME NEW procs \in [Worker -> Process], NEW w \in Worker
  PROVE  LET p == procs[w]
         IN  /\ p \in Process /\ p.state \in {"none", "idle", "told", "writing", "dead"}
             /\ p.task \in Task \cup {NoTask}
             /\ p.ops \in Seq({"save", "write", "copy", "put"} \X {"src", "dts"})
             /\ p.sent \in Seq({"online", "files", "update", "processed", "failed", "error"})
BY DEF Process

\* A new process has said that it is online.
LEMMA NewProcess ==
  /\ Forked = [state |-> "idle", task |-> NoTask, ops |-> <<>>, sent |-> <<"online">>]
  /\ Forked \in Process /\ NotForked \in Process /\ OfflineInv(Forked) /\ OfflineInv(NotForked)
<1>1. ASSUME NEW r, r = [NotForked EXCEPT !.state = "idle", !.sent = <<"online">>]
      PROVE  r = [state |-> "idle", task |-> NoTask, ops |-> <<>>, sent |-> <<"online">>]
  BY <1>1 DEF NotForked
<1>2. Forked = [state |-> "idle", task |-> NoTask, ops |-> <<>>, sent |-> <<"online">>]
  BY <1>1 DEF Forked
<1>3. Forked \in Process /\ NotForked \in Process
  BY <1>2 DEF Process, NotForked
<1>4. OfflineInv(Forked)
  BY <1>2 DEF OfflineInv
<1>5. OfflineInv(NotForked)
  BY DEF OfflineInv, NotForked
<1> QED
  BY <1>2, <1>3, <1>4, <1>5

LEMMA ForkKeeps ==
  ASSUME NEW procs, NEW kn, NEW a, NEW fm, NEW dk, NEW st, NEW lf,
         ForkedInv(forks, procs), WorkersInv(kn, a, procs, fm, dk, st, lf), Fork(procs)
  PROVE  ForkedInv(forks', proc') /\ WorkersInv(kn, a, proc', fm, dk, st, lf)
<1> DEFINE n == forks + 1
<1>1. forks \in Nat /\ forks' = n /\ procs \in [Worker -> Process]
      /\ \A w \in Worker : w > forks => procs[w].state = "none"
  BY DEF ForkedInv, Fork
<1>2. proc' \in [Worker -> Process] /\ \A w \in Worker : proc'[w] = IF w = n THEN Forked ELSE procs[w]
  BY <1>1, NewProcess DEF Fork
<1>3. ForkedInv(forks', proc')
  BY <1>1, <1>2, WorkerNumbers DEF ForkedInv
<1>4. ASSUME NEW w \in Worker PROVE WorkerInv(w, kn, a, proc', fm, dk, st, lf)
  <2>1. WorkerInv(w, kn, a, procs, fm, dk, st, lf)
    BY DEF WorkersInv
  <2>2. CASE w # n
    BY <1>2, <2>1, <2>2 DEF WorkerInv
  <2>3. CASE w = n
    <3>1. procs[w].state = "none"
      BY <1>1, <2>3
    <3>2. w \notin ToSet(kn)
      BY <2>1, <3>1 DEF WorkerInv, WaitingInv, AssignedInv
    <3> QED
      BY <1>2, <2>3, <3>2, NewProcess DEF WorkerInv
  <2> QED
    BY <2>2, <2>3
<1> QED
  BY <1>3, <1>4 DEF WorkersInv

\* A worker that waits is told its task.
LEMMA TellingKeeps ==
  ASSUME NEW p \in Process, WaitingInv(p), NEW t \in Task, NEW fm, NEW dk, NEW st, NEW lf,
         NEW r, r = [p EXCEPT !.state = "told", !.task = t]
  PROVE  r \in Process /\ AssignedInv(p, t, fm, dk, st, lf) /\ AssignedInv(r, t, fm, dk, st, lf)
<1>1. r = [state |-> "told", task |-> t, ops |-> p.ops, sent |-> p.sent]
  BY DEF Process
<1>2. r \in Process
  BY <1>1 DEF Process
<1>3. p.sent = <<>> /\ p.state \in {"idle", "dead"} /\ Len(<<>>) = 0
  BY DEF WaitingInv
<1>4. AssignedInv(p, t, fm, dk, st, lf)
  BY <1>3 DEF AssignedInv, MessagesInv
<1>5. AssignedInv(r, t, fm, dk, st, lf)
  BY <1>1, <1>3 DEF AssignedInv, MessagesInv
<1> QED
  BY <1>2, <1>4, <1>5

\* maybeDistributeWork() keeps the queue, the table and the workers in agreement.
LEMMA DistributeKeeps ==
  ASSUME NEW q, NEW kn, NEW a, NEW procs, NEW listed, NEW mk, NEW fl, NEW fm, NEW dk, NEW st, NEW lf,
         QueueInv(q, mk, fl), TableInv(q, kn, a), WorkersInv(kn, a, procs, fm, dk, st, lf),
         ForkedInv(forks, procs), MaybeDistributeWork(q, kn, a, procs, listed)
  PROVE  /\ QueueInv(queue', mk, fl) /\ TableInv(queue', online', assignment')
         /\ WorkersInv(online', assignment', proc', fm, dk, st, lf) /\ ForkedInv(forks', proc')
         /\ finished' = "resolved" => AllTasksCompleted(queue')
<1>1. CASE Resolve(q, kn, a, procs)
  BY <1>1 DEF Resolve
<1>2. CASE Distribute(q, kn, a, procs, listed)
  <2> DEFINE d == Distributed[[queue |-> q, assignment |-> a, rest |-> kn, told |-> {},
                               end |-> "assigned"]]
             Told(x, w) == [x EXCEPT !.state = "told", !.task = d.assignment[w]]
             told == [w \in Worker |-> IF w \in d.told /\ Reachable(w) THEN Told(procs[w], w)
                                                                      ELSE procs[w]]
  <2>1. DistributedInv(d, kn, a, mk, fl)
    <3>1. ASSUME NEW x, x = d PROVE DistributedInv(x, kn, a, mk, fl)
      BY <3>1, DistributedLeaves
    <3> HIDE DEF d
    <3> QED
      BY <3>1
  <2>2. /\ online' = kn /\ queue' = d.queue /\ assignment' = d.assignment
        /\ finished' # "resolved"
        /\ Fork(told) \/ (proc' = told /\ UNCHANGED forks)
    BY <1>2 DEF Distribute
  <2> HIDE DEF d
  <2>3. /\ QueueInv(d.queue, mk, fl) /\ TableInv(d.queue, kn, d.assignment)
        /\ \A w \in Worker : w \notin d.told => d.assignment[w] = a[w]
        /\ \A w \in d.told : w \in ToSet(kn) /\ a[w] = NoTask /\ d.assignment[w] # NoTask
        /\ d.assignment \in [Worker -> Task \cup {NoTask}]
    BY <2>1 DEF DistributedInv, TableInv
  <2>4. procs \in [Worker -> Process]
    BY DEF ForkedInv
  <2>5. ASSUME NEW w \in Worker, w \in d.told
        PROVE  /\ w \in ToSet(kn) /\ d.assignment[w] # NoTask
               /\ procs[w].state # "none" /\ AssignedInv(procs[w], d.assignment[w], fm, dk, st, lf)
               /\ Told(procs[w], w) \in Process
               /\ AssignedInv(Told(procs[w], w), d.assignment[w], fm, dk, st, lf)
    <3>1. w \in ToSet(kn) /\ a[w] = NoTask /\ d.assignment[w] \in Task /\ d.assignment[w] # NoTask
      BY <2>3, <2>5
    <3>2. WaitingInv(procs[w]) /\ procs[w] \in Process
      BY <2>4, <3>1 DEF WorkersInv, WorkerInv
    <3>3. AssignedInv(procs[w], d.assignment[w], fm, dk, st, lf)
          /\ Told(procs[w], w) \in Process /\ AssignedInv(Told(procs[w], w), d.assignment[w], fm, dk, st, lf)
      BY <3>1, <3>2, TellingKeeps
    <3> QED
      BY <3>1, <3>2, <3>3 DEF WaitingInv
  <2> HIDE DEF Told
  <2>6. told \in [Worker -> Process]
        /\ \A w \in Worker : told[w] = IF w \in d.told /\ Reachable(w) THEN Told(procs[w], w)
                                                                     ELSE procs[w]
    BY <2>4, <2>5
  <2> HIDE DEF told
  <2>7. ASSUME NEW w \in Worker PROVE WorkerInv(w, kn, d.assignment, told, fm, dk, st, lf)
    <3>1. CASE w \in d.told
      BY <2>5, <2>6, <3>1 DEF WorkerInv
    <3>2. CASE w \notin d.told
      BY <2>3, <2>6, <3>2 DEF WorkersInv, WorkerInv
    <3> QED
      BY <3>1, <3>2
  <2>8. WorkersInv(kn, d.assignment, told, fm, dk, st, lf)
    BY <2>7 DEF WorkersInv
  <2>9. ForkedInv(forks, told)
    BY <2>5, <2>6 DEF ForkedInv
  <2>10. WorkersInv(kn, d.assignment, proc', fm, dk, st, lf) /\ ForkedInv(forks', proc')
    <3>1. CASE Fork(told)
      BY <2>8, <2>9, <3>1, ForkKeeps
    <3>2. CASE proc' = told /\ UNCHANGED forks
      BY <2>8, <2>9, <3>2
    <3> QED
      BY <2>2, <3>1, <3>2
  <2> QED
    BY <2>2, <2>3, <2>10
<1> QED
  BY <1>1, <1>2 DEF MaybeDistributeWork

-------------------------------------------------------------------------------
(* What the agreement means.                                                    *)

LEMMA SkippedTasks ==
  ASSUME NEW q, NEW mk, NEW fl, QueueInv(q, mk, fl)
  PROVE  LET skipped == UNION {Below[t] : t \in fl}
         IN  skipped \cap mk = {} /\ (AllTasksCompleted(q) => mk \cup fl \cup skipped = Task)
<1>1. q \in Queue /\ q.toSkip \subseteq Task /\ q.toSkip = UNION {Below[t] : t \in fl}
  BY QueueTypes DEF QueueInv
<1>2. mk \cup fl \subseteq Completed(q) /\ Completed(q) \subseteq mk \cup fl \cup q.toSkip
      /\ mk \cap q.toSkip = {}
  BY DEF QueueInv
<1>3. AllTasksCompleted(q) => Completed(q) = Task
  <2>1. ToSet(<<>>) = {}
    BY DEF ToSet
  <2> QED
    BY <2>1 DEF AllTasksCompleted, Completed, Pending
<1> QED
  BY <1>1, <1>2, <1>3 DEF Completed

LEMMA CompiledTasks ==
  ASSUME NEW q, NEW mk, NEW fl, NEW kn, NEW a, NEW procs, NEW fm, NEW dk, NEW st, NEW lf,
         QueueInv(q, mk, fl), TableInv(q, kn, a), WorkersInv(kn, a, procs, fm, dk, st, lf)
  PROVE  CompiledInv(procs, mk)
<1>1. ASSUME NEW w \in Worker, procs[w].state \in {"told", "writing"}
      PROVE  procs[w].task \in Task /\ Blocking(procs[w].task) \subseteq mk
  <2>1. WorkerInv(w, kn, a, procs, fm, dk, st, lf)
    BY DEF WorkersInv
  <2>2. a[w] # NoTask /\ procs[w].task = a[w]
    BY <1>1, <2>1 DEF WorkerInv, OfflineInv, WaitingInv, AssignedInv
  <2>3. a[w] \in q.inProgress
    BY <2>2 DEF TableInv
  <2> QED
    BY <2>2, <2>3, InProgressReady
<1> QED
  BY <1>1 DEF CompiledInv

\* A handler that leaves the agreement leaves the invariant.
LEMMA Settled ==
  ASSUME QueueInv(queue', marked', failed'), TableInv(queue', online', assignment'),
         WorkersInv(online', assignment', proc', formats', disk', setting', stray'),
         ForkedInv(forks', proc'), DiskInv', MarkedInv(marked', formats', disk', setting', stray'),
         finished' = "resolved" => AllTasksCompleted(queue')
  PROVE  IInv'
<1>1. CompiledInv(proc', marked')
  BY CompiledTasks
<1>2. SkippedIffDependencyFailed'
  BY SkippedTasks DEF SkippedIffDependencyFailed
<1> QED
  BY <1>1, <1>2 DEF IInv, RunInv

-------------------------------------------------------------------------------
(* The table of the master.                                                     *)

LEMMA TableShrinks ==
  ASSUME TableInv(queue, online, assignment), NEW w \in Worker, assignment[w] # NoTask,
         NEW r, r.inProgress = queue.inProgress \ {assignment[w]}
  PROVE  /\ TableInv(r, online, Unassigned(w))
         /\ \A v \in Worker : Unassigned(w)[v] = IF v = w THEN NoTask ELSE assignment[v]
<1> DEFINE b == Unassigned(w)
<1>1. /\ online \in Seq(Worker) /\ Distinct(online)
      /\ assignment \in [Worker -> Task \cup {NoTask}]
  BY DEF TableInv
<1>2. /\ b \in [Worker -> Task \cup {NoTask}]
      /\ \A v \in Worker : b[v] = IF v = w THEN NoTask ELSE assignment[v]
  BY <1>1 DEF Unassigned
<1> HIDE DEF b
<1>3. \A v \in Worker : b[v] # NoTask => v \in ToSet(online) /\ b[v] \in r.inProgress
  BY <1>2 DEF TableInv
<1>4. \A u \in r.inProgress : \E v \in Worker : b[v] = u
  BY <1>2 DEF TableInv
<1>5. \A u, v \in Worker : b[u] = b[v] /\ b[u] # NoTask => u = v
  BY <1>2 DEF TableInv
<1>6. TableInv(r, online, b)
  BY <1>1, <1>2, <1>3, <1>4, <1>5 DEF TableInv
<1> QED
  BY <1>2, <1>6 DEF b

LEMMA Appending ==
  ASSUME NEW S, NEW s \in Seq(S), Distinct(s), NEW x \in S, x \notin ToSet(s)
  PROVE  Append(s, x) \in Seq(S) /\ Distinct(Append(s, x)) /\ ToSet(Append(s, x)) = ToSet(s) \cup {x}
<1> DEFINE r == Append(s, x)
           n == Len(s)
<1>1. n \in Nat /\ r \in Seq(S) /\ Len(r) = n + 1 /\ r[n + 1] = x /\ \A i \in 1 .. n : r[i] = s[i]
  OBVIOUS
<1> HIDE DEF r
<1>2. ToSet(r) = {r[i] : i \in 1 .. n + 1} /\ ToSet(s) = {s[i] : i \in 1 .. n}
  BY <1>1, Elements
<1>3. \A i \in 1 .. n + 1 : i = n + 1 \/ i \in 1 .. n
  BY <1>1
<1>4. n + 1 \in 1 .. n + 1 /\ \A i \in 1 .. n : i \in 1 .. n + 1
  BY <1>1
<1>5. ToSet(r) = ToSet(s) \cup {x}
  BY <1>1, <1>2, <1>3, <1>4
<1>6. \A i \in 1 .. n : s[i] # x
  BY <1>2
<1>7. Distinct(r)
  BY <1>1, <1>3, <1>6 DEF Distinct
<1> QED
  BY <1>1, <1>5, <1>7 DEF r

LEMMA RemovingFirst ==
  ASSUME NEW S, NEW s \in Seq(S), Distinct(s), NEW x
  PROVE  RemoveFirst(s, x) \in Seq(S) /\ Distinct(RemoveFirst(s, x))
         /\ ToSet(RemoveFirst(s, x)) = ToSet(s) \ {x}
<1> DEFINE I == {i \in 1 .. Len(s) : s[i] = x}
<1>1. Len(s) \in Nat /\ ToSet(s) = {s[i] : i \in 1 .. Len(s)}
  BY Elements
<1>2. SelectInSeq(s, LAMBDA e : e = x) = IF I # {} THEN Min(I) ELSE 0
  BY DEF SelectInSeq
<1>3. CASE I = {}
  <2>1. RemoveFirst(s, x) = s
    BY <1>3 DEF RemoveFirst
  <2> QED
    BY <1>1, <1>3, <2>1
<1>4. CASE I # {}
  <2>1. I \in SUBSET Nat
    BY <1>1
  <2>2. \E i \in 1 .. Len(s) : s[i] = x
    BY <1>4
  <2> HIDE DEF I
  <2>3. Min(I) \in I
    BY <1>4, <2>1, LeastNat DEF Min
  <2>4. Min(I) \in 1 .. Len(s) /\ s[Min(I)] = x
    BY <2>3 DEF I
  <2>5. RemoveFirst(s, x) = RemoveAt(s, Min(I))
    BY <1>2, <1>4, <2>2 DEF RemoveFirst
  <2>6. RemoveAt(s, Min(I)) \in Seq(S)
    BY <2>4, Removing
  <2> QED
    BY <2>4, <2>5, <2>6, RemovingDistinct
<1> QED
  BY <1>3, <1>4

LEMMA TableAppends ==
  ASSUME TableInv(queue, online, assignment), NEW w \in Worker, w \notin ToSet(online)
  PROVE  /\ TableInv(queue, Append(online, w), assignment)
         /\ ToSet(Append(online, w)) = ToSet(online) \cup {w}
BY Appending DEF TableInv

LEMMA TableRemoves ==
  ASSUME NEW q, NEW a, TableInv(q, online, a), NEW w \in Worker, a[w] = NoTask
  PROVE  /\ TableInv(q, WithoutAssignment(w), a)
         /\ ToSet(WithoutAssignment(w)) = ToSet(online) \ {w}
<1> DEFINE ln == WithoutAssignment(w)
<1>1. ln \in Seq(Worker) /\ Distinct(ln) /\ ToSet(ln) = ToSet(online) \ {w}
  BY RemovingFirst DEF TableInv, WithoutAssignment
<1> HIDE DEF ln
<1>2. TableInv(q, ln, a)
  BY <1>1 DEF TableInv
<1> QED
  BY <1>1, <1>2 DEF ln

-------------------------------------------------------------------------------
(* Messages.                                                                    *)

LEMMA LastRead ==
  ASSUME NEW M, NEW s \in Seq(M), Len(s) = 1
  PROVE  Tail(s) = <<>>
<1>1. Tail(s) \in Seq(M) /\ Len(Tail(s)) = 0
  BY EmptySeq
<1> QED
  BY <1>1, EmptySeq

\* A message of w is taken.
LEMMA TakenProcess ==
  ASSUME NEW w \in Worker, NEW n, ForkedInv(n, proc), proc[w].sent # <<>>
  PROVE  /\ ForkedInv(n, Taken(w))
         /\ \A v \in Worker : v # w => Taken(w)[v] = proc[v]
         /\ Taken(w)[w] = [state |-> proc[w].state, task |-> proc[w].task, ops |-> proc[w].ops,
                           sent |-> Tail(proc[w].sent)]
         /\ \A v \in Worker : Taken(w)[v].state = proc[v].state /\ Taken(w)[v].task = proc[v].task
<1> DEFINE p == proc[w]
           r == [p EXCEPT !.sent = Tail(p.sent)]
<1>1. proc \in [Worker -> Process] /\ p \in Process
      /\ p.sent \in Seq({"online", "files", "update", "processed", "failed", "error"})
  BY ProcessTypes DEF ForkedInv
<1>2. Tail(p.sent) \in Seq({"online", "files", "update", "processed", "failed", "error"})
  BY <1>1
<1>3. ASSUME NEW x, x = r
      PROVE  x = [state |-> p.state, task |-> p.task, ops |-> p.ops, sent |-> Tail(p.sent)]
  BY <1>1, <1>3 DEF Process
<1>4. r = [state |-> p.state, task |-> p.task, ops |-> p.ops, sent |-> Tail(p.sent)]
  BY <1>3
<1>5. r \in Process
  BY <1>1, <1>2, <1>4 DEF Process
<1>6. Taken(w) = [proc EXCEPT ![w] = r]
  BY DEF Taken
<1> HIDE DEF r, p
<1>7. Taken(w) \in [Worker -> Process]
      /\ \A v \in Worker : Taken(w)[v] = IF v = w THEN r ELSE proc[v]
  BY <1>1, <1>5, <1>6
<1>8. \A v \in Worker : Taken(w)[v].state = proc[v].state /\ Taken(w)[v].task = proc[v].task
  BY <1>4, <1>7 DEF p
<1> QED
  BY <1>4, <1>7, <1>8 DEF ForkedInv, p

\* What remains to be read after a message is still true.
LEMMA MessagesShrink ==
  ASSUME NEW M, NEW s \in Seq(M), s # <<>>, NEW t, NEW fm, NEW fn, NEW dk, NEW st, NEW lf,
         MessagesInv(s, t, fm, dk, st, lf), t \in fm => t \in fn, Head(s) = "update" => t \in fn
  PROVE  MessagesInv(Tail(s), t, fn, dk, st, lf)
<1>1. Len(s) \in Nat /\ Len(Tail(s)) = Len(s) - 1 /\ Head(s) = s[1]
      /\ \A i \in 1 .. Len(s) - 1 : Tail(s)[i] = s[i + 1]
  OBVIOUS
<1> DEFINE r == Tail(s)
<1> HIDE DEF r
<1>2. ASSUME NEW i \in 1 .. Len(r)
      PROVE  /\ r[i] \in {"processed", "failed", "error"} => i = Len(r)
             /\ r[i] = "processed" =>
                  /\ SrcWritten(t, dk, st, lf) /\ DtsWritten(t, dk, st, lf)
                  /\ st.inPlace \/ t \in fn \/ \E j \in 1 .. i - 1 : r[j] = "update"
  <2>1. i \in 1 .. Len(s) - 1 /\ i + 1 \in 1 .. Len(s) /\ r[i] = s[i + 1] /\ Len(r) = Len(s) - 1
    BY <1>1 DEF r
  <2>2. /\ s[i + 1] \in {"processed", "failed", "error"} => i + 1 = Len(s)
        /\ s[i + 1] = "processed" =>
             /\ SrcWritten(t, dk, st, lf) /\ DtsWritten(t, dk, st, lf)
             /\ st.inPlace \/ t \in fm \/ \E j \in 1 .. i : s[j] = "update"
    <3>1. (i + 1) - 1 = i
      BY <2>1
    <3> QED
      BY <2>1, <3>1 DEF MessagesInv
  <2>3. ASSUME NEW j \in 1 .. i, s[j] = "update", t \notin fn
        PROVE  \E k \in 1 .. i - 1 : r[k] = "update"
    <3>1. j # 1
      BY <1>1, <2>3
    <3>2. j - 1 \in 1 .. i - 1 /\ j - 1 \in 1 .. Len(s) - 1 /\ (j - 1) + 1 = j
      BY <1>1, <2>1, <3>1
    <3>3. r[j - 1] = s[j]
      BY <1>1, <3>2 DEF r
    <3> QED
      BY <2>3, <3>2, <3>3
  <2>4. ASSUME r[i] \in {"processed", "failed", "error"} PROVE i = Len(r)
    <3>1. i + 1 = Len(s)
      BY <2>1, <2>2, <2>4
    <3>2. Len(s) \in Nat /\ i \in Int /\ Len(r) = Len(s) - 1
      BY <1>1, <2>1
    <3> QED
      BY <3>1, <3>2
  <2>5. ASSUME r[i] = "processed"
        PROVE  st.inPlace \/ t \in fn \/ \E j \in 1 .. i - 1 : r[j] = "update"
    BY <2>1, <2>2, <2>3, <2>5
  <2> QED
    BY <2>1, <2>2, <2>4, <2>5
<1>3. MessagesInv(r, t, fn, dk, st, lf)
  BY <1>2 DEF MessagesInv
<1> QED
  BY <1>3 DEF r

LEMMA AssignedReads ==
  ASSUME NEW p \in Process, NEW t, NEW fm, NEW fn, NEW dk, NEW st, NEW lf,
         AssignedInv(p, t, fm, dk, st, lf), p.sent # <<>>,
         t \in fm => t \in fn, Head(p.sent) = "update" => t \in fn,
         NEW r, r = [state |-> p.state, task |-> p.task, ops |-> p.ops, sent |-> Tail(p.sent)]
  PROVE  AssignedInv(r, t, fn, dk, st, lf)
<1>1. p.sent \in Seq({"online", "files", "update", "processed", "failed", "error"})
  BY DEF Process
<1>2. Len(p.sent) \in Nat /\ Len(Tail(p.sent)) = Len(p.sent) - 1
      /\ \A i \in 1 .. Len(p.sent) - 1 : Tail(p.sent)[i] = p.sent[i + 1]
  BY <1>1
<1>3. r.state = p.state /\ r.task = p.task /\ r.ops = p.ops /\ r.sent = Tail(p.sent)
  OBVIOUS
<1> DEFINE s == p.sent
           u == Tail(p.sent)
<1>4. MessagesInv(u, t, fn, dk, st, lf)
  BY <1>1, MessagesShrink DEF AssignedInv
<1> HIDE DEF s, u
<1>5. \A i \in 1 .. Len(u) : i + 1 \in 1 .. Len(s) /\ u[i] = s[i + 1]
  BY <1>2 DEF s, u
<1>6. p.state # "told"
  BY DEF AssignedInv
<1>7. \A i \in 1 .. Len(u) : u[i] # "online"
  BY <1>5 DEF AssignedInv, s
<1>8. p.state = "writing" => Len(u) <= 1 /\ \A i \in 1 .. Len(u) : u[i] = "files"
  BY <1>2, <1>5 DEF AssignedInv, s, u
<1>9. p.state = "writing" => WritingInv(r, t, dk, st, lf)
  BY <1>3 DEF AssignedInv, WritingInv
<1> QED
  BY <1>3, <1>4, <1>6, <1>7, <1>8, <1>9 DEF AssignedInv, u

\* An outcome is true, and the worker waits once it is read.
LEMMA OutcomeRead ==
  ASSUME NEW p \in Process, NEW t, NEW fm, NEW dk, NEW st, NEW lf, AssignedInv(p, t, fm, dk, st, lf),
         p.sent # <<>>, Head(p.sent) \in {"processed", "failed", "error"},
         NEW r, r = [state |-> p.state, task |-> p.task, ops |-> p.ops, sent |-> Tail(p.sent)]
  PROVE  /\ WaitingInv(r)
         /\ Head(p.sent) = "processed" => /\ SrcWritten(t, dk, st, lf) /\ DtsWritten(t, dk, st, lf)
                                          /\ st.inPlace \/ t \in fm
<1>1. p.sent \in Seq({"online", "files", "update", "processed", "failed", "error"})
      /\ p.state \in {"none", "idle", "told", "writing", "dead"}
  BY DEF Process
<1>2. Len(p.sent) \in Nat /\ Head(p.sent) = p.sent[1] /\ 1 \in 1 .. Len(p.sent)
  BY <1>1
<1>3. Len(p.sent) = 1
  BY <1>2 DEF AssignedInv, MessagesInv
<1>4. Tail(p.sent) = <<>>
  BY <1>1, <1>3, LastRead
<1>5. p.state \in {"idle", "dead"}
  BY <1>1, <1>2 DEF AssignedInv
<1>6. ASSUME Head(p.sent) = "processed"
      PROVE  SrcWritten(t, dk, st, lf) /\ DtsWritten(t, dk, st, lf) /\ (st.inPlace \/ t \in fm)
  <2>1. \A j \in 1 .. 1 - 1 : FALSE
    OBVIOUS
  <2> QED
    BY <1>2, <1>6, <2>1 DEF AssignedInv, MessagesInv
<1> QED
  BY <1>4, <1>5, <1>6 DEF WaitingInv

\* What is true of a task stays true as long as its files do.
LEMMA SameFiles ==
  ASSUME NEW p, NEW t, NEW fm, NEW fn, NEW dk, NEW dl, NEW st, NEW lf, t \in fm => t \in fn,
         dl[<<t, "src">>] = dk[<<t, "src">>],
         Tasks[t].dts => dl[<<t, "dts">>] = dk[<<t, "dts">>]
  PROVE  /\ SrcWritten(t, dk, st, lf) => SrcWritten(t, dl, st, lf)
         /\ DtsWritten(t, dk, st, lf) => DtsWritten(t, dl, st, lf)
         /\ AssignedInv(p, t, fm, dk, st, lf) => AssignedInv(p, t, fn, dl, st, lf)
<1>1. SrcWritten(t, dk, st, lf) => SrcWritten(t, dl, st, lf)
  BY DEF SrcWritten
<1>2. DtsWritten(t, dk, st, lf) => DtsWritten(t, dl, st, lf)
  BY DEF DtsWritten
<1>3. WritingInv(p, t, dk, st, lf) => WritingInv(p, t, dl, st, lf)
  BY <1>1, <1>2 DEF WritingInv
<1>4. MessagesInv(p.sent, t, fm, dk, st, lf) => MessagesInv(p.sent, t, fn, dl, st, lf)
  BY <1>1, <1>2 DEF MessagesInv
<1> QED
  BY <1>1, <1>2, <1>3, <1>4 DEF AssignedInv

\* The worker w alone has changed.
LEMMA OthersKeep ==
  ASSUME NEW w \in Worker, NEW kn, NEW ln, NEW a, NEW b, NEW procs, NEW qrocs, NEW fm, NEW fn,
         NEW dk, NEW dl, NEW st, NEW lf, WorkersInv(kn, a, procs, fm, dk, st, lf),
         \A v \in Worker : v # w => /\ qrocs[v] = procs[v] /\ b[v] = a[v]
                                    /\ v \in ToSet(ln) <=> v \in ToSet(kn),
         \A v \in Worker : v # w /\ a[v] # NoTask =>
           /\ a[v] \in fm => a[v] \in fn
           /\ dl[<<a[v], "src">>] = dk[<<a[v], "src">>]
           /\ Tasks[a[v]].dts => dl[<<a[v], "dts">>] = dk[<<a[v], "dts">>],
         WorkerInv(w, ln, b, qrocs, fn, dl, st, lf)
  PROVE  WorkersInv(ln, b, qrocs, fn, dl, st, lf)
<1>1. ASSUME NEW v \in Worker, v # w PROVE WorkerInv(v, ln, b, qrocs, fn, dl, st, lf)
  <2>1. WorkerInv(v, kn, a, procs, fm, dk, st, lf)
    BY DEF WorkersInv
  <2>2. CASE a[v] = NoTask
    BY <1>1, <2>1, <2>2 DEF WorkerInv
  <2>3. CASE a[v] # NoTask
    <3>1. AssignedInv(procs[v], a[v], fm, dk, st, lf) => AssignedInv(procs[v], a[v], fn, dl, st, lf)
      BY <1>1, <2>3, SameFiles
    <3> QED
      BY <1>1, <2>1, <2>3, <3>1 DEF WorkerInv
  <2> QED
    BY <2>2, <2>3
<1> QED
  BY <1>1 DEF WorkersInv

\* Whose message is read, in which state.
LEMMA Reads ==
  ASSUME IInv, NEW w \in Worker, NEW m, Gets(w, m)
  PROVE  /\ RunInv /\ ForkedInv(forks, proc) /\ proc[w] \in Process /\ proc[w].sent # <<>>
         /\ w \notin ToSet(online) =>
              OfflineInv(proc[w]) /\ assignment[w] = NoTask /\ (m = "online" => Tail(proc[w].sent) = <<>>)
         /\ w \in ToSet(online) =>
              /\ assignment[w] # NoTask /\ assignment[w] \in queue.inProgress /\ assignment[w] \in Task
              /\ AssignedInv(proc[w], assignment[w], formats, disk, setting, stray) /\ m # "online"
<1>1. RunInv /\ ForkedInv(forks, proc) /\ proc[w] \in Process /\ proc[w].sent # <<>> /\ Head(proc[w].sent) = m
  BY DEF IInv, ForkedInv, Gets
<1>2. WorkerInv(w, online, assignment, proc, formats, disk, setting, stray)
  BY <1>1 DEF RunInv, WorkersInv
<1>3. proc[w].sent \in Seq({"online", "files", "update", "processed", "failed", "error"})
  BY <1>1 DEF Process
<1>4. Len(proc[w].sent) \in Nat /\ 1 \in 1 .. Len(proc[w].sent) /\ proc[w].sent[1] = m
  BY <1>1, <1>3
<1>5. ASSUME w \notin ToSet(online)
      PROVE  OfflineInv(proc[w]) /\ assignment[w] = NoTask /\ (m = "online" => Tail(proc[w].sent) = <<>>)
  <2>1. OfflineInv(proc[w]) /\ assignment[w] = NoTask
    BY <1>1, <1>2, <1>5 DEF WorkerInv, RunInv, TableInv
  <2>2. m = "online" => Len(proc[w].sent) = 1
    BY <1>4, <2>1 DEF OfflineInv
  <2>3. Len(proc[w].sent) = 1 => Tail(proc[w].sent) = <<>>
    BY <1>3, LastRead
  <2> QED
    BY <2>1, <2>2, <2>3
<1>6. ASSUME w \in ToSet(online)
      PROVE  /\ assignment[w] # NoTask /\ assignment[w] \in queue.inProgress /\ assignment[w] \in Task
             /\ AssignedInv(proc[w], assignment[w], formats, disk, setting, stray) /\ m # "online"
  <2>1. assignment[w] # NoTask
    BY <1>1, <1>2, <1>6 DEF WorkerInv, WaitingInv
  <2>2. AssignedInv(proc[w], assignment[w], formats, disk, setting, stray)
    BY <1>2, <1>6, <2>1 DEF WorkerInv
  <2>3. assignment[w] \in queue.inProgress /\ assignment[w] \in Task
    BY <1>1, <2>1, QueueTypes DEF RunInv, TableInv, QueueInv
  <2> QED
    BY <1>4, <2>1, <2>2, <2>3 DEF AssignedInv
<1> QED
  BY <1>1, <1>5, <1>6

-------------------------------------------------------------------------------
(* The handlers of the master keep the invariant.                               *)

LEMMA DistributeSettles ==
  ASSUME NEW q, NEW kn, NEW a, NEW procs, NEW listed,
         QueueInv(q, marked', failed'), TableInv(q, kn, a), ForkedInv(forks, procs),
         WorkersInv(kn, a, procs, formats', disk', setting', stray'),
         DiskInv', MarkedInv(marked', formats', disk', setting', stray'),
         MaybeDistributeWork(q, kn, a, procs, listed)
  PROVE  IInv'
<1>1. /\ QueueInv(queue', marked', failed') /\ TableInv(queue', online', assignment')
      /\ WorkersInv(online', assignment', proc', formats', disk', setting', stray')
      /\ ForkedInv(forks', proc')
      /\ finished' = "resolved" => AllTasksCompleted(queue')
  BY DistributeKeeps
<1> QED
  BY <1>1, Settled

\* A rejected run: what was processed stays so.
LEMMA Rejected ==
  ASSUME IInv, finished' = "rejected", ForkedInv(forks', proc'),
         \A v \in Worker : proc'[v].state = proc[v].state /\ proc'[v].task = proc[v].task,
         UNCHANGED <<marked, failed, formats, disk, stray, setting>>
  PROVE  IInv'
<1>1. CompiledInv(proc', marked')
  BY DEF IInv, CompiledInv
<1>2. MarkedInv(marked', formats', disk', setting', stray')
  BY DEF IInv
<1>3. DiskInv'
  BY DEF IInv, DiskInv
<1>4. SkippedIffDependencyFailed'
  BY DEF IInv, SkippedIffDependencyFailed
<1> QED
  BY <1>1, <1>2, <1>3, <1>4 DEF IInv

LEMMA OnlineKeeps ==
  ASSUME IInv, NEW w \in Worker, OnWorkerOnline(w)
  PROVE  IInv'
<1> DEFINE r == Taken(w)
           ln == Append(online, w)
<1>1. Gets(w, "online")
  BY DEF OnWorkerOnline
<1>2. /\ RunInv /\ ForkedInv(forks, proc) /\ w \notin ToSet(online) /\ proc[w].sent # <<>>
      /\ OfflineInv(proc[w]) /\ assignment[w] = NoTask /\ Tail(proc[w].sent) = <<>>
      /\ proc[w].state \in {"none", "idle", "told", "writing", "dead"}
  BY <1>1, Reads, ProcessTypes DEF ForkedInv
<1>3. /\ ForkedInv(forks, r) /\ \A v \in Worker : v # w => r[v] = proc[v]
      /\ r[w].state = proc[w].state /\ r[w].sent = <<>>
  <2>1. /\ ForkedInv(forks, r) /\ \A v \in Worker : v # w => r[v] = proc[v]
        /\ r[w] = [state |-> proc[w].state, task |-> proc[w].task, ops |-> proc[w].ops,
                   sent |-> Tail(proc[w].sent)]
    BY <1>2, TakenProcess
  <2> HIDE DEF r
  <2> QED
    BY <1>2, <2>1
<1>4. Unassigned(w) = assignment
  BY <1>2 DEF Unassigned, RunInv, TableInv
<1>5. TableInv(queue, ln, assignment) /\ ToSet(ln) = ToSet(online) \cup {w}
  <2>1. TableInv(queue, online, assignment)
    BY <1>2 DEF RunInv
  <2> QED
    BY <1>2, <2>1, TableAppends
<1>6. WaitingInv(r[w])
  BY <1>2, <1>3 DEF OfflineInv, WaitingInv
<1> HIDE DEF r, ln
<1>7. WorkerInv(w, ln, assignment, r, formats, disk, setting, stray)
  BY <1>2, <1>5, <1>6 DEF WorkerInv
<1>8. WorkersInv(ln, assignment, r, formats, disk, setting, stray)
  BY <1>2, <1>3, <1>5, <1>7, OthersKeep DEF RunInv
<1>9. /\ MaybeDistributeWork(queue, ln, assignment, r, Listed)
      /\ UNCHANGED <<formats, disk, setting, marked, failed, stray>>
  BY <1>4 DEF OnWorkerOnline, r, ln
<1>10. QueueInv(queue, marked', failed')
       /\ WorkersInv(ln, assignment, r, formats', disk', setting', stray')
       /\ DiskInv' /\ MarkedInv(marked', formats', disk', setting', stray')
  BY <1>2, <1>8, <1>9 DEF IInv, RunInv, DiskInv
<1> QED
  BY <1>3, <1>5, <1>9, <1>10, DistributeSettles

LEMMA ErrorKeeps ==
  ASSUME IInv, NEW w \in Worker, OnWorkerError(w)
  PROVE  IInv'
<1>1. PICK m : Gets(w, m)
  BY DEF OnWorkerError
<1>2. ForkedInv(forks, proc) /\ proc[w].sent # <<>>
  BY <1>1, Reads
<1>3. /\ finished' = "rejected" /\ proc' = Taken(w) /\ forks' = forks
      /\ UNCHANGED <<marked, failed, formats, disk, stray, setting>>
  BY DEF OnWorkerError, Reject
<1>4. /\ ForkedInv(forks', proc')
      /\ \A v \in Worker : proc'[v].state = proc[v].state /\ proc'[v].task = proc[v].task
  BY <1>2, <1>3, TakenProcess
<1> QED
  BY <1>3, <1>4, Rejected

\* A message that is not an outcome.
LEMMA ReportKeeps ==
  ASSUME IInv, NEW w \in Worker, NEW m \in {"files", "update"}, Gets(w, m), w \in ToSet(online),
         proc' = Taken(w), formats \subseteq formats', m = "update" => assignment[w] \in formats',
         UNCHANGED <<queue, online, assignment, finished, forks, disk, marked, failed, stray, setting>>
  PROVE  IInv'
<1> DEFINE t == assignment[w]
<1>1. /\ RunInv /\ ForkedInv(forks, proc) /\ proc[w] \in Process /\ proc[w].sent # <<>>
      /\ t # NoTask /\ AssignedInv(proc[w], t, formats, disk, setting, stray)
      /\ Head(proc[w].sent) = m /\ finished = "pending"
  BY Reads DEF Gets
<1>2. /\ ForkedInv(forks, proc') /\ \A v \in Worker : v # w => proc'[v] = proc[v]
      /\ proc'[w] = [state |-> proc[w].state, task |-> proc[w].task, ops |-> proc[w].ops,
                     sent |-> Tail(proc[w].sent)]
  BY <1>1, TakenProcess
<1>3. AssignedInv(proc'[w], t, formats', disk, setting, stray)
  BY <1>1, <1>2, AssignedReads
<1>4. WorkerInv(w, online, assignment, proc', formats', disk, setting, stray)
  BY <1>1, <1>3 DEF WorkerInv
<1>5. WorkersInv(online, assignment, proc', formats', disk, setting, stray)
  BY <1>1, <1>2, <1>4, OthersKeep DEF RunInv
<1>6. MarkedInv(marked', formats', disk', setting', stray')
  BY DEF IInv, MarkedInv
<1>7. DiskInv' /\ ForkedInv(forks', proc') /\ finished' # "resolved"
  BY <1>1, <1>2 DEF IInv, DiskInv
<1>8. QueueInv(queue', marked', failed') /\ TableInv(queue', online', assignment')
  BY <1>1 DEF RunInv
<1> QED
  BY <1>5, <1>6, <1>7, <1>8, Settled

LEMMA FilesKeep ==
  ASSUME IInv, NEW w \in Worker, OnWorkerTransformedFiles(w)
  PROVE  IInv'
<1>1. /\ Gets(w, "files") /\ w \in ToSet(online) /\ proc' = Taken(w) /\ formats \subseteq formats'
      /\ UNCHANGED <<queue, online, assignment, finished, forks, disk, marked, failed, stray, setting>>
  BY DEF OnWorkerTransformedFiles
<1>2. "files" \in {"files", "update"} /\ "files" # "update"
  OBVIOUS
<1> QED
  BY <1>1, <1>2, ReportKeeps

LEMMA UpdateKeeps ==
  ASSUME IInv, NEW w \in Worker, OnWorkerUpdatePackageJson(w)
  PROVE  IInv'
<1>1. /\ Gets(w, "update") /\ w \in ToSet(online) /\ proc' = Taken(w)
      /\ formats \subseteq formats' /\ assignment[w] \in formats'
      /\ UNCHANGED <<queue, online, assignment, finished, forks, disk, marked, failed, stray, setting>>
  BY DEF OnWorkerUpdatePackageJson
<1>2. "update" \in {"files", "update"}
  OBVIOUS
<1> QED
  BY <1>1, <1>2, ReportKeeps

\* What the two outcomes of a task have in common.
LEMMA OutcomeFrees ==
  ASSUME IInv, NEW w \in Worker, NEW m \in {"processed", "failed"}, Gets(w, m),
         w \in ToSet(online), NEW q, q.inProgress = queue.inProgress \ {assignment[w]}
  PROVE  /\ TableInv(q, online, Unassigned(w)) /\ ForkedInv(forks, Taken(w))
         /\ WorkersInv(online, Unassigned(w), Taken(w), formats, disk, setting, stray)
<1> DEFINE t == assignment[w]
           r == Taken(w)
           b == Unassigned(w)
<1>1. /\ RunInv /\ ForkedInv(forks, proc) /\ proc[w] \in Process /\ proc[w].sent # <<>>
      /\ t # NoTask /\ AssignedInv(proc[w], t, formats, disk, setting, stray)
      /\ Head(proc[w].sent) \in {"processed", "failed", "error"}
  BY Reads DEF Gets
<1>2. /\ ForkedInv(forks, r) /\ \A v \in Worker : v # w => r[v] = proc[v]
      /\ r[w] = [state |-> proc[w].state, task |-> proc[w].task, ops |-> proc[w].ops,
                 sent |-> Tail(proc[w].sent)]
  BY <1>1, TakenProcess
<1>3. WaitingInv(r[w])
  BY <1>1, <1>2, OutcomeRead
<1>4. TableInv(q, online, b) /\ \A v \in Worker : b[v] = IF v = w THEN NoTask ELSE assignment[v]
  <2>1. TableInv(queue, online, assignment)
    BY <1>1 DEF RunInv
  <2> QED
    BY <1>1, <2>1, TableShrinks
<1> HIDE DEF r, b
<1>5. WorkerInv(w, online, b, r, formats, disk, setting, stray)
  BY <1>3, <1>4 DEF WorkerInv
<1>6. WorkersInv(online, b, r, formats, disk, setting, stray)
  BY <1>1, <1>2, <1>4, <1>5, OthersKeep DEF RunInv
<1> QED
  BY <1>2, <1>4, <1>6 DEF r, b

LEMMA ProcessedKeepsInv ==
  ASSUME IInv, NEW w \in Worker, OnTaskProcessed(w)
  PROVE  IInv'
<1> DEFINE t == assignment[w]
           q == MarkAsCompleted(queue, t)
<1>1. Gets(w, "processed") /\ w \in ToSet(online) /\ Head(proc[w].sent) = "processed"
  BY DEF OnTaskProcessed, Gets
<1>2. /\ RunInv /\ proc[w] \in Process /\ proc[w].sent # <<>> /\ t \in queue.inProgress /\ t \in Task
      /\ AssignedInv(proc[w], t, formats, disk, setting, stray)
  BY <1>1, Reads
<1>3. QueueInv(q, marked \cup {t}, failed) /\ q.inProgress = queue.inProgress \ {t}
  BY <1>2, ProcessedKeeps DEF RunInv
<1>4. /\ SrcWritten(t, disk, setting, stray) /\ DtsWritten(t, disk, setting, stray)
      /\ setting.inPlace \/ t \in formats
  <2>1. ASSUME NEW r, r = [state |-> proc[w].state, task |-> proc[w].task, ops |-> proc[w].ops,
                           sent |-> Tail(proc[w].sent)]
        PROVE  /\ SrcWritten(t, disk, setting, stray) /\ DtsWritten(t, disk, setting, stray)
               /\ setting.inPlace \/ t \in formats
    BY <1>1, <1>2, <2>1, OutcomeRead
  <2> QED
    BY <2>1
<1> HIDE DEF q
<1>5. /\ TableInv(q, online, Unassigned(w)) /\ ForkedInv(forks, Taken(w))
      /\ WorkersInv(online, Unassigned(w), Taken(w), formats, disk, setting, stray)
  BY <1>1, <1>3, OutcomeFrees
<1>6. /\ MaybeDistributeWork(q, online, Unassigned(w), Taken(w), Listed)
      /\ marked' = marked \cup {t} /\ UNCHANGED <<formats, disk, setting, failed, stray>>
  BY DEF OnTaskProcessed, TaskCompleted, q
<1>7. DiskInv'
  BY <1>6 DEF IInv, DiskInv
<1>8. MarkedInv(marked', formats', disk', setting', stray')
  BY <1>2, <1>4, <1>6 DEF IInv, MarkedInv
<1>9. QueueInv(q, marked', failed')
      /\ WorkersInv(online, Unassigned(w), Taken(w), formats', disk', setting', stray')
  BY <1>3, <1>5, <1>6
<1> QED
  BY <1>5, <1>6, <1>7, <1>8, <1>9, DistributeSettles

LEMMA FailedKeepsInv ==
  ASSUME IInv, NEW w \in Worker, OnTaskFailed(w)
  PROVE  IInv'
<1> DEFINE t == assignment[w]
           q == MarkAsCompleted(MarkAsFailed(queue, t), t)
<1>1. Gets(w, "failed") /\ w \in ToSet(online)
  BY DEF OnTaskFailed
<1>2. RunInv /\ t \in queue.inProgress
  BY <1>1, Reads
<1>3. QueueInv(q, marked, failed \cup {t}) /\ q.inProgress = queue.inProgress \ {t}
  BY <1>2, FailedKeeps DEF RunInv
<1> HIDE DEF q
<1>4. /\ TableInv(q, online, Unassigned(w)) /\ ForkedInv(forks, Taken(w))
      /\ WorkersInv(online, Unassigned(w), Taken(w), formats, disk, setting, stray)
  BY <1>1, <1>3, OutcomeFrees
<1>5. /\ MaybeDistributeWork(q, online, Unassigned(w), Taken(w), Listed)
      /\ failed' = failed \cup {t} /\ UNCHANGED <<formats, disk, setting, marked, stray>>
  BY DEF OnTaskFailed, TaskCompleted, q
<1>6. DiskInv' /\ MarkedInv(marked', formats', disk', setting', stray')
  BY <1>5 DEF IInv, DiskInv
<1>7. QueueInv(q, marked', failed')
      /\ WorkersInv(online, Unassigned(w), Taken(w), formats', disk', setting', stray')
  BY <1>3, <1>4, <1>5
<1> QED
  BY <1>4, <1>5, <1>6, <1>7, DistributeSettles

LEMMA FailedThrowsKeeps ==
  ASSUME IInv, NEW w \in Worker, OnTaskFailedThrows(w)
  PROVE  IInv'
<1> DEFINE t == assignment[w]
<1>1. Gets(w, "failed") /\ w \in ToSet(online)
  BY DEF OnTaskFailedThrows
<1>2. RunInv /\ ForkedInv(forks, proc) /\ proc[w].sent # <<>> /\ t \in queue.inProgress
  BY <1>1, Reads
<1>3. /\ finished' = "rejected" /\ proc' = Taken(w) /\ forks' = forks /\ failed' = failed \cup {t}
      /\ UNCHANGED <<marked, formats, disk, stray, setting>>
  BY DEF OnTaskFailedThrows, Reject
<1>4. /\ ForkedInv(forks', proc')
      /\ \A v \in Worker : proc'[v].state = proc[v].state /\ proc'[v].task = proc[v].task
  BY <1>2, <1>3, TakenProcess
<1>5. Below[t] \cap marked = {}
  BY <1>2, BelowUnfinished DEF RunInv, Pending, QueueInv
<1>6. SkippedIffDependencyFailed'
  BY <1>3, <1>5 DEF IInv, SkippedIffDependencyFailed
<1>7. CompiledInv(proc', marked')
  BY <1>3, <1>4 DEF IInv, CompiledInv
<1>8. DiskInv' /\ MarkedInv(marked', formats', disk', setting', stray')
  BY <1>3 DEF IInv, DiskInv
<1> QED
  BY <1>3, <1>4, <1>6, <1>7, <1>8 DEF IInv

-------------------------------------------------------------------------------
(* So do those of an 'exit' event.                                              *)

LEMMA IdleExitKeeps ==
  ASSUME IInv, NEW w \in Worker, OnIdleWorkerExit(w)
  PROVE  IInv'
<1> DEFINE ln == WithoutAssignment(w)
<1>1. /\ finished = "pending" /\ proc[w].state = "dead" /\ assignment[w] = NoTask
      /\ Fork(proc) /\ online' = ln
      /\ UNCHANGED <<queue, assignment, finished, disk, formats, marked, failed, stray, setting>>
  BY DEF OnIdleWorkerExit, Exits
<1>2. /\ QueueInv(queue, marked, failed) /\ TableInv(queue, online, assignment)
      /\ WorkersInv(online, assignment, proc, formats, disk, setting, stray)
      /\ ForkedInv(forks, proc)
  BY <1>1 DEF IInv, RunInv
<1>3. TableInv(queue, ln, assignment) /\ ToSet(ln) = ToSet(online) \ {w}
  BY <1>1, <1>2, TableRemoves
<1> HIDE DEF ln
<1>4. OfflineInv(proc[w])
  <2>1. WorkerInv(w, online, assignment, proc, formats, disk, setting, stray)
    BY <1>2 DEF WorkersInv
  <2>2. CASE w \in ToSet(online)
    <3>1. proc[w].sent = <<>> /\ Len(<<>>) = 0
      BY <1>1, <2>1, <2>2 DEF WorkerInv, WaitingInv
    <3> QED
      BY <1>1, <3>1 DEF OfflineInv
  <2>3. CASE w \notin ToSet(online)
    BY <2>1, <2>3 DEF WorkerInv
  <2> QED
    BY <2>2, <2>3
<1>5. WorkerInv(w, ln, assignment, proc, formats, disk, setting, stray)
  BY <1>3, <1>4 DEF WorkerInv
<1>6. WorkersInv(ln, assignment, proc, formats, disk, setting, stray)
  BY <1>2, <1>3, <1>5, OthersKeep
<1>7. ForkedInv(forks', proc') /\ WorkersInv(ln, assignment, proc', formats, disk, setting, stray)
  BY <1>1, <1>2, <1>6, ForkKeeps
<1>8. DiskInv' /\ MarkedInv(marked', formats', disk', setting', stray')
  BY <1>1 DEF IInv, DiskInv
<1>9. /\ QueueInv(queue', marked', failed') /\ TableInv(queue', online', assignment')
      /\ WorkersInv(online', assignment', proc', formats', disk', setting', stray')
      /\ finished' # "resolved"
  BY <1>1, <1>2, <1>3, <1>7
<1> QED
  BY <1>7, <1>8, <1>9, Settled

LEMMA RevertThrowsKeeps ==
  ASSUME IInv, NEW w \in Worker, OnExitRevertThrows(w)
  PROVE  IInv'
<1>1. /\ finished' = "rejected" /\ proc' = proc /\ forks' = forks
      /\ UNCHANGED <<marked, failed, formats, disk, stray, setting>>
  BY DEF OnExitRevertThrows
<1>2. ForkedInv(forks', proc')
  BY <1>1 DEF IInv
<1> QED
  BY <1>1, <1>2, Rejected

\* revertBundle() concerns the files of one task.
LEMMA RevertedFiles ==
  ASSUME DiskInv, NEW t \in Task, RevertBundle(t), setting' = setting
  PROVE  /\ DiskInv'
         /\ \A u \in Task \ {t} :
              /\ u \in formats => u \in formats'
              /\ disk'[<<u, "src">>] = disk[<<u, "src">>]
              /\ Tasks[u].dts => disk'[<<u, "dts">>] = disk[<<u, "dts">>]
<1> DEFINE V == {"orig", "new", "none"}
           D == [at : V, bak : V, copy : V]
<1>1. disk \in [File -> D]
  BY DEF DiskInv
<1>2. ASSUME NEW f \in File PROVE Reverted(f) \in D
  <2>1. disk[f] \in D /\ disk[f].bak \in V
    BY <1>1
  <2>2. [disk[f] EXCEPT !.copy = "none"] \in D
    BY <2>1
  <2>3. [disk[f] EXCEPT !.at = disk[f].bak, !.bak = "none"] \in D
    BY <2>1
  <2> HIDE DEF D
  <2> QED
    BY <2>1, <2>2, <2>3 DEF Reverted, RevertInPlace
<1> HIDE DEF D
<1>3. disk' = [f \in File |-> IF f[1] = t THEN Reverted(f) ELSE disk[f]]
  BY DEF RevertBundle
<1>4. disk' \in [File -> D]
  BY <1>1, <1>2, <1>3
<1>5. DiskInv'
  BY <1>4 DEF DiskInv, D
<1>6. ASSUME NEW u \in Task \ {t}
      PROVE  /\ u \in formats => u \in formats'
             /\ disk'[<<u, "src">>] = disk[<<u, "src">>]
             /\ Tasks[u].dts => disk'[<<u, "dts">>] = disk[<<u, "dts">>]
  <2>1. u \in formats => u \in formats'
    BY DEF RevertBundle
  <2>2. <<u, "src">> \in File /\ (Tasks[u].dts => <<u, "dts">> \in File)
    BY DEF File
  <2>3. <<u, "src">>[1] = u /\ <<u, "dts">>[1] = u
    OBVIOUS
  <2> QED
    BY <1>3, <2>1, <2>2, <2>3
<1> QED
  BY <1>5, <1>6

\* The files of the other tasks are as they were.
LEMMA MarkedKeeps ==
  ASSUME NEW mk, NEW fm, NEW fn, NEW dk, NEW dl, NEW st, NEW lf, MarkedInv(mk, fm, dk, st, lf),
         \A u \in mk : /\ u \in fm => u \in fn
                       /\ dl[<<u, "src">>] = dk[<<u, "src">>]
                       /\ Tasks[u].dts => dl[<<u, "dts">>] = dk[<<u, "dts">>]
  PROVE  MarkedInv(mk, fn, dl, st, lf)
BY DEF MarkedInv, SrcWritten, DtsWritten

\* With more tasks that are excepted there is less to show.
LEMMA MoreStray ==
  ASSUME NEW kn, NEW a, NEW procs, NEW mk, NEW fm, NEW dk, NEW st, NEW lf, NEW lg, lf \subseteq lg
  PROVE  /\ WorkersInv(kn, a, procs, fm, dk, st, lf) => WorkersInv(kn, a, procs, fm, dk, st, lg)
         /\ MarkedInv(mk, fm, dk, st, lf) => MarkedInv(mk, fm, dk, st, lg)
<1>1. ASSUME NEW t
      PROVE  /\ SrcWritten(t, dk, st, lf) => SrcWritten(t, dk, st, lg)
             /\ DtsWritten(t, dk, st, lf) => DtsWritten(t, dk, st, lg)
  BY DEF SrcWritten, DtsWritten
<1>2. ASSUME NEW p, NEW t, AssignedInv(p, t, fm, dk, st, lf) PROVE AssignedInv(p, t, fm, dk, st, lg)
  <2>1. p.state = "writing" => WritingInv(p, t, dk, st, lg)
    BY <1>1, <1>2 DEF AssignedInv, WritingInv
  <2>2. MessagesInv(p.sent, t, fm, dk, st, lg)
    BY <1>1, <1>2 DEF AssignedInv, MessagesInv
  <2> QED
    BY <1>2, <2>1, <2>2 DEF AssignedInv
<1> QED
  BY <1>1, <1>2 DEF WorkersInv, WorkerInv, MarkedInv

LEMMA BusyExitKeeps ==
  ASSUME IInv, NEW w \in Worker, OnBusyWorkerExit(w)
  PROVE  IInv'
<1> DEFINE t == assignment[w]
           q == MarkAsUnprocessed(queue, t)
           ln == WithoutAssignment(w)
           b == Unassigned(w)
<1>1. /\ finished = "pending" /\ proc[w].state = "dead" /\ t # NoTask
      /\ RevertBundle(t) \/ UNCHANGED <<disk, formats>>
      /\ GoOnWithout(w, q) /\ UNCHANGED <<marked, failed, setting>> /\ stray \subseteq stray'
  BY DEF OnBusyWorkerExit, Exits, NotesStray
<1>2. /\ QueueInv(queue, marked, failed) /\ TableInv(queue, online, assignment)
      /\ WorkersInv(online, assignment, proc, formats, disk, setting, stray')
      /\ ForkedInv(forks, proc) /\ DiskInv /\ MarkedInv(marked, formats, disk, setting, stray')
  BY <1>1, MoreStray DEF IInv, RunInv
<1>3. w \in ToSet(online) /\ t \in queue.inProgress /\ t \in Task /\ t \notin marked
  BY <1>1, <1>2, QueueTypes DEF TableInv, QueueInv, Completed, Pending
<1>4. QueueInv(q, marked, failed) /\ q.inProgress = queue.inProgress \ {t}
  BY <1>2, <1>3, UnprocessedKeeps
<1>5. /\ DiskInv'
      /\ \A u \in Task \ {t} : /\ u \in formats => u \in formats'
                               /\ disk'[<<u, "src">>] = disk[<<u, "src">>]
                               /\ Tasks[u].dts => disk'[<<u, "dts">>] = disk[<<u, "dts">>]
  <2>1. CASE RevertBundle(t)
    BY <1>1, <1>2, <1>3, <2>1, RevertedFiles
  <2>2. CASE UNCHANGED <<disk, formats>>
    BY <1>1, <1>2, <2>2 DEF DiskInv
  <2> QED
    BY <1>1, <2>1, <2>2
<1> HIDE DEF q
<1>6. TableInv(q, online, b) /\ \A v \in Worker : b[v] = IF v = w THEN NoTask ELSE assignment[v]
  BY <1>1, <1>2, <1>4, TableShrinks
<1> HIDE DEF b
<1>7. TableInv(q, ln, b) /\ ToSet(ln) = ToSet(online) \ {w}
  BY <1>6, TableRemoves
<1> HIDE DEF ln
<1>8. OfflineInv(proc[w])
  BY <1>1, <1>2, <1>3 DEF WorkersInv, WorkerInv, AssignedInv, OfflineInv
<1>9. WorkerInv(w, ln, b, proc, formats', disk', setting, stray')
  BY <1>7, <1>8 DEF WorkerInv
<1>10. \A v \in Worker : v # w /\ assignment[v] # NoTask => assignment[v] \in Task \ {t}
  BY <1>1, <1>2 DEF TableInv
<1>11. WorkersInv(ln, b, proc, formats', disk', setting, stray')
  BY <1>2, <1>5, <1>6, <1>7, <1>9, <1>10, OthersKeep
<1>12. MarkedInv(marked', formats', disk', setting', stray')
  <2>1. \A u \in marked : u \in Task \ {t}
    BY <1>2, <1>3 DEF MarkedInv
  <2>2. MarkedInv(marked, formats', disk', setting, stray')
    BY <1>2, <1>5, <2>1, MarkedKeeps
  <2> QED
    BY <1>1, <2>2
<1>13. QueueInv(q, marked', failed') /\ WorkersInv(ln, b, proc, formats', disk', setting', stray')
  BY <1>1, <1>4, <1>11
<1>14. CASE MaybeDistributeWork(q, ln, b, proc, (1 .. forks) \ removed')
  BY <1>2, <1>5, <1>7, <1>12, <1>13, <1>14, DistributeSettles
<1>15. CASE /\ queue' = q /\ online' = ln /\ assignment' = b
            /\ finished' # "resolved"
            /\ Fork(proc) \/ (proc' = proc /\ forks' = forks)
  <2>1. ForkedInv(forks', proc') /\ WorkersInv(ln, b, proc', formats', disk', setting', stray')
    BY <1>2, <1>13, <1>15, ForkKeeps
  <2>2. /\ QueueInv(queue', marked', failed') /\ TableInv(queue', online', assignment')
        /\ WorkersInv(online', assignment', proc', formats', disk', setting', stray')
        /\ finished' # "resolved"
    BY <1>1, <1>7, <1>13, <1>15, <2>1
  <2> QED
    BY <1>5, <1>12, <2>1, <2>2, Settled
<1>16. \/ MaybeDistributeWork(q, ln, b, proc, (1 .. forks) \ removed')
       \/ /\ queue' = q /\ online' = ln /\ assignment' = b
          /\ finished' # "resolved"
          /\ Fork(proc) \/ (proc' = proc /\ forks' = forks)
  BY <1>1 DEF GoOnWithout, ln, b
<1> QED
  BY <1>14, <1>15, <1>16

-------------------------------------------------------------------------------
(* The steps of the workers keep the invariant.                                 *)

Files == [at : {"orig", "new", "none"}, bak : {"orig", "new", "none"},
          copy : {"orig", "new", "none"}]

\* A worker that was told a task or writes has that task in the table.
LEMMA Active ==
  ASSUME IInv, finished = "pending", NEW w \in Worker, proc[w].state \in {"told", "writing"}
  PROVE  /\ w \in ToSet(online) /\ assignment[w] \in Task /\ assignment[w] # NoTask
         /\ proc[w] \in Process /\ proc[w].task = assignment[w]
         /\ AssignedInv(proc[w], assignment[w], formats, disk, setting, stray)
<1>1. /\ WorkerInv(w, online, assignment, proc, formats, disk, setting, stray)
      /\ QueueInv(queue, marked, failed) /\ TableInv(queue, online, assignment)
      /\ proc[w] \in Process
  BY DEF IInv, RunInv, WorkersInv, ForkedInv
<1>2. w \in ToSet(online) /\ assignment[w] # NoTask
  BY <1>1 DEF WorkerInv, OfflineInv, WaitingInv
<1>3. AssignedInv(proc[w], assignment[w], formats, disk, setting, stray)
  BY <1>1, <1>2 DEF WorkerInv
<1> QED
  BY <1>1, <1>2, <1>3 DEF AssignedInv, TableInv

\* Such a worker goes on, and writes no files but those of its task.
LEMMA WorkKeeps ==
  ASSUME IInv, finished = "pending", NEW w \in Worker, w \in ToSet(online), assignment[w] # NoTask,
         NEW r \in Process, proc' = [proc EXCEPT ![w] = r],
         AssignedInv(r, assignment[w], formats, disk', setting, stray), proc[w].state # "none",
         disk' \in [File -> Files],
         \A u \in Task \ {assignment[w]} :
           /\ disk'[<<u, "src">>] = disk[<<u, "src">>]
           /\ Tasks[u].dts => disk'[<<u, "dts">>] = disk[<<u, "dts">>],
         UNCHANGED <<queue, online, assignment, finished, forks, formats, marked, failed, stray, setting>>
  PROVE  IInv'
<1> DEFINE t == assignment[w]
<1>1. /\ QueueInv(queue, marked, failed) /\ TableInv(queue, online, assignment)
      /\ WorkersInv(online, assignment, proc, formats, disk, setting, stray)
      /\ ForkedInv(forks, proc) /\ DiskInv /\ MarkedInv(marked, formats, disk, setting, stray)
  BY DEF IInv, RunInv
<1>2. proc' \in [Worker -> Process] /\ \A v \in Worker : proc'[v] = IF v = w THEN r ELSE proc[v]
  BY <1>1 DEF ForkedInv
<1>3. ForkedInv(forks', proc')
  BY <1>1, <1>2 DEF ForkedInv
<1>4. WorkerInv(w, online, assignment, proc', formats, disk', setting, stray)
  BY <1>2 DEF WorkerInv
<1>5. \A v \in Worker : v # w /\ assignment[v] # NoTask => assignment[v] \in Task \ {t}
  BY <1>1 DEF TableInv
<1>6. ASSUME NEW v \in Worker, v # w
      PROVE  WorkerInv(v, online, assignment, proc', formats, disk', setting, stray)
  <2>1. WorkerInv(v, online, assignment, proc, formats, disk, setting, stray) /\ proc'[v] = proc[v]
    BY <1>1, <1>2, <1>6 DEF WorkersInv
  <2>2. CASE assignment[v] # NoTask
    <3>1. /\ disk'[<<assignment[v], "src">>] = disk[<<assignment[v], "src">>]
          /\ Tasks[assignment[v]].dts
               => disk'[<<assignment[v], "dts">>] = disk[<<assignment[v], "dts">>]
      BY <1>5, <1>6, <2>2
    <3>2. AssignedInv(proc[v], assignment[v], formats, disk, setting, stray)
            => AssignedInv(proc[v], assignment[v], formats, disk', setting, stray)
      BY <3>1, SameFiles
    <3> QED
      BY <2>1, <2>2, <3>2 DEF WorkerInv
  <2>3. CASE assignment[v] = NoTask
    BY <2>1, <2>3 DEF WorkerInv
  <2> QED
    BY <2>2, <2>3
<1>7. \A u \in marked : u \in Task \ {t}
  BY <1>1 DEF MarkedInv, TableInv, QueueInv, Completed, Pending
<1>8. MarkedInv(marked, formats, disk', setting, stray)
  BY <1>1, <1>7, MarkedKeeps
<1>9. DiskInv'
  BY <1>1 DEF DiskInv, Files
<1>10. /\ QueueInv(queue', marked', failed') /\ TableInv(queue', online', assignment')
       /\ WorkersInv(online', assignment', proc', formats', disk', setting', stray')
       /\ MarkedInv(marked', formats', disk', setting', stray') /\ finished' # "resolved"
  BY <1>1, <1>4, <1>6, <1>8 DEF WorkersInv
<1> QED
  BY <1>3, <1>9, <1>10, Settled

\* As much when it writes nothing.
LEMMA SameDisk ==
  ASSUME IInv, disk' = disk
  PROVE  /\ disk' \in [File -> Files]
         /\ \A u : /\ disk'[<<u, "src">>] = disk[<<u, "src">>]
                   /\ Tasks[u].dts => disk'[<<u, "dts">>] = disk[<<u, "dts">>]
BY DEF IInv, DiskInv, Files

LEMMA WritesSteps ==
  ASSUME NEW t \in Task
  PROVE  /\ Writes(t) \in Seq({"save", "write", "copy", "put"} \X {"src", "dts"})
         /\ Len(Writes(t)) = Steps(t)
         /\ \A i \in 1 .. Steps(t) : Writes(t)[i] = Step(i, setting)
<1> DEFINE O == {"save", "write", "copy", "put"} \X {"src", "dts"}
           x == IF setting.inPlace THEN InPlace("src") ELSE <<<<"copy", "src">>, <<"put", "src">>>>
           y == IF Tasks[t].dts THEN InPlace("dts") ELSE <<>>
<1>1. /\ x \in Seq(O) /\ Len(x) = 2 /\ x[1] = Step(1, setting) /\ x[2] = Step(2, setting)
  <2>1. CASE setting.inPlace
    BY <2>1 DEF InPlace, Step
  <2>2. CASE ~setting.inPlace
    BY <2>2 DEF Step
  <2> QED
    BY <2>1, <2>2
<1>2. /\ y \in Seq(O) /\ Len(y) = Steps(t) - 2
      /\ Tasks[t].dts => y[1] = Step(3, setting) /\ y[2] = Step(4, setting)
  <2>1. CASE Tasks[t].dts
    BY <2>1 DEF InPlace, Step, Steps
  <2>2. CASE ~Tasks[t].dts
    BY <2>2 DEF Steps
  <2> QED
    BY <2>1, <2>2
<1>3. Writes(t) = x \o y
  BY DEF Writes
<1> HIDE DEF x, y, O
<1>4. /\ x \o y \in Seq(O) /\ Len(x \o y) = Len(x) + Len(y)
      /\ \A i \in 1 .. Len(x) + Len(y) : (x \o y)[i] = IF i <= Len(x) THEN x[i] ELSE y[i - Len(x)]
  BY <1>1, <1>2, ConcatProperties
<1>5. Steps(t) \in {2, 4} /\ (Steps(t) = 4 <=> Tasks[t].dts)
  BY DEF Steps
<1>6. ASSUME NEW i \in 1 .. Steps(t) PROVE (x \o y)[i] = Step(i, setting)
  <2>1. (x \o y)[i] = IF i <= 2 THEN x[i] ELSE y[i - 2]
    BY <1>1, <1>2, <1>4, <1>5
  <2>2. CASE i = 1
    BY <1>1, <2>1, <2>2
  <2>3. CASE i = 2
    BY <1>1, <2>1, <2>3
  <2>4. CASE i = 3
    BY <1>2, <1>5, <2>1, <2>4
  <2>5. CASE i = 4
    BY <1>2, <1>5, <2>1, <2>5
  <2>6. i = 1 \/ i = 2 \/ i = 3 \/ i = 4
    BY <1>5
  <2> QED
    BY <2>6, <2>2, <2>3, <2>4, <2>5
<1> QED
  BY <1>1, <1>2, <1>3, <1>4, <1>5, <1>6 DEF O

\* What a worker says comes after what it has said.
LEMMA SaysLast ==
  ASSUME NEW p \in Process, NEW st \in {"idle", "writing"}, NEW t \in Task \cup {NoTask},
         NEW ms \in Seq({"online", "files", "update", "processed", "failed", "error"}),
         NEW os \in Seq({"save", "write", "copy", "put"} \X {"src", "dts"}),
         NEW r, r = [state |-> st, task |-> t, ops |-> os, sent |-> p.sent \o ms]
  PROVE  r \in Process
<1> DEFINE M == Seq({"online", "files", "update", "processed", "failed", "error"})
           O == Seq({"save", "write", "copy", "put"} \X {"src", "dts"})
           sn == p.sent \o ms
<1>1. p.sent \in M
  BY DEF Process
<1>2. sn \in M
  BY <1>1
<1> HIDE DEF M, O, sn
<1>3. [state |-> st, task |-> t, ops |-> os, sent |-> sn]
        \in [state : {"none", "idle", "told", "writing", "dead"}, task : Task \cup {NoTask},
             ops : O, sent : M]
  BY <1>2 DEF O
<1> QED
  BY <1>3 DEF Process, M, O, sn

LEMMA Begins ==
  ASSUME NEW p \in Process, NEW os
  PROVE  [p EXCEPT !.state = "writing", !.ops = os]
           = [state |-> "writing", task |-> p.task, ops |-> os, sent |-> p.sent]
<1>1. ASSUME NEW q, q = [p EXCEPT !.state = "writing", !.ops = os]
      PROVE  q = [state |-> "writing", task |-> p.task, ops |-> os, sent |-> p.sent]
  BY <1>1 DEF Process
<1> QED
  BY <1>1

LEMMA IdlesProcess ==
  ASSUME NEW p \in Process
  PROVE  Idles(p) = [state |-> "idle", task |-> NoTask, ops |-> <<>>, sent |-> p.sent]
<1>1. ASSUME NEW q, q = [p EXCEPT !.state = "idle", !.task = NoTask, !.ops = <<>>]
      PROVE  q = [state |-> "idle", task |-> NoTask, ops |-> <<>>, sent |-> p.sent]
  BY <1>1 DEF Process
<1> QED
  BY <1>1 DEF Idles

LEMMA CompileKeeps ==
  ASSUME IInv, NEW w \in Worker, Compile(w)
  PROVE  IInv'
<1> DEFINE p == proc[w]
           t == assignment[w]
           R(o) == IF o = "files"
                   THEN Says([p EXCEPT !.state = "writing", !.ops = Writes(p.task)], <<o>>)
                   ELSE Says(Idles(p), <<o>>)
<1>1. /\ finished = "pending" /\ p.state = "told" /\ disk' = disk
      /\ UNCHANGED <<queue, online, assignment, finished, forks, formats, marked, failed, stray, setting>>
  BY DEF Compile, MasterVars
<1>2. PICK o \in setting.outcomes : proc' = [proc EXCEPT ![w] = R(o)]
  BY DEF Compile
<1>3. o \in {"files", "failed", "error"}
  BY ClusterAssumption DEF IInv, DiskInv
<1>4. /\ w \in ToSet(online) /\ t \in Task /\ t # NoTask /\ p \in Process
      /\ AssignedInv(p, t, formats, disk, setting, stray)
  BY <1>1, Active
<1>5. p.task = t /\ p.sent = <<>>
  BY <1>1, <1>4 DEF AssignedInv
<1>6. <<>> \o <<o>> = <<o>> /\ Len(<<o>>) = 1 /\ <<o>>[1] = o /\ Len(<<>>) = 0
      /\ <<o>> \in Seq({"online", "files", "update", "processed", "failed", "error"})
  BY <1>3
<1>7. p \in Process
  BY <1>4
<1> HIDE DEF p, t
<1> DEFINE r == R(o)
<1>8. r \in Process /\ AssignedInv(r, t, formats, disk, setting, stray)
  <2>1. CASE o = "files"
    <3>1. /\ Writes(t) \in Seq({"save", "write", "copy", "put"} \X {"src", "dts"})
          /\ Len(Writes(t)) = Steps(t)
          /\ \A i \in 1 .. Steps(t) : Writes(t)[i] = Step(i, setting)
      BY <1>4, WritesSteps
    <3> DEFINE q == [p EXCEPT !.state = "writing", !.ops = Writes(t)]
    <3>2. r = Says(q, <<o>>)
      BY <1>5, <2>1
    <3>3. q = [state |-> "writing", task |-> p.task, ops |-> Writes(t), sent |-> p.sent]
      BY <1>7, Begins
    <3> HIDE DEF q, r
    <3>4. r = [state |-> "writing", task |-> t, ops |-> Writes(t), sent |-> p.sent \o <<o>>]
      BY <1>5, <3>2, <3>3 DEF Says
    <3>5. r \in Process
      BY <1>7, <1>4, <1>6, <3>1, <3>4, SaysLast
    <3>6. r.state = "writing" /\ r.task = t /\ r.ops = Writes(t) /\ r.sent = <<"files">>
      BY <1>5, <1>6, <2>1, <3>4
    <3>7. Steps(t) \in {2, 4}
      BY DEF Steps
    <3>8. WritingInv(r, t, disk, setting, stray)
      BY <3>1, <3>6, <3>7 DEF WritingInv
    <3>9. MessagesInv(r.sent, t, formats, disk, setting, stray)
      BY <1>6, <2>1, <3>6 DEF MessagesInv
    <3> QED
      BY <1>6, <2>1, <3>5, <3>6, <3>8, <3>9 DEF AssignedInv
  <2>2. CASE o \in {"failed", "error"}
    <3> DEFINE q == Idles(p)
    <3>1. r = Says(q, <<o>>)
      BY <2>2
    <3>2. q = [state |-> "idle", task |-> NoTask, ops |-> <<>>, sent |-> p.sent]
      BY <1>7, IdlesProcess
    <3> HIDE DEF q, r
    <3>3. r = [state |-> "idle", task |-> NoTask, ops |-> <<>>, sent |-> p.sent \o <<o>>]
      BY <3>1, <3>2 DEF Says
    <3>4. <<>> \in Seq({"save", "write", "copy", "put"} \X {"src", "dts"})
      OBVIOUS
    <3>5. r \in Process
      BY <1>7, <1>6, <3>3, <3>4, SaysLast
    <3>6. r.state = "idle" /\ r.sent = <<o>>
      BY <1>5, <1>6, <3>3
    <3>7. MessagesInv(r.sent, t, formats, disk, setting, stray)
      BY <1>6, <2>2, <3>6 DEF MessagesInv
    <3> QED
      BY <1>6, <2>2, <3>5, <3>6, <3>7 DEF AssignedInv
  <2> QED
    BY <1>3, <2>1, <2>2
<1>9. proc' = [proc EXCEPT ![w] = r]
  BY <1>2
<1> HIDE DEF r
<1>10. AssignedInv(r, assignment[w], formats, disk', setting, stray) /\ proc[w].state # "none"
  BY <1>1, <1>8 DEF p, t
<1>11. /\ disk' \in [File -> Files]
       /\ \A u \in Task \ {assignment[w]} :
            /\ disk'[<<u, "src">>] = disk[<<u, "src">>]
            /\ Tasks[u].dts => disk'[<<u, "dts">>] = disk[<<u, "dts">>]
  BY <1>1, SameDisk
<1> QED
  BY <1>1, <1>4, <1>8, <1>9, <1>10, <1>11, WorkKeeps DEF t

\* An operation on a file.
LEMMA DoneFiles ==
  ASSUME NEW d \in Files, NEW o \in {"save", "write", "copy", "put"}
  PROVE  /\ Done(o, d) \in Files
         /\ o = "write" => Done(o, d).at = "new"
         /\ o = "put" => Done(o, d).copy = "new"
<1>1. ASSUME o = "save", NEW e, e = [d EXCEPT !.at = "none", !.bak = d.at] PROVE e \in Files
  <2>1. d.at \in {"orig", "new", "none"} /\ d.copy \in {"orig", "new", "none"}
    BY DEF Files
  <2>2. e = [at |-> "none", bak |-> d.at, copy |-> d.copy]
    BY <1>1 DEF Files
  <2> QED
    BY <2>1, <2>2 DEF Files
<1>2. ASSUME NEW e, e = [d EXCEPT !.at = "new"] PROVE e \in Files /\ e.at = "new"
  BY <1>2 DEF Files
<1>3. ASSUME NEW c \in {"orig", "new"}, NEW e, e = [d EXCEPT !.copy = c]
      PROVE  e \in Files /\ e.copy = c
  BY <1>3 DEF Files
<1>4. CASE o = "save"
  BY <1>1, <1>4 DEF Done
<1>5. CASE o = "write"
  BY <1>2, <1>5 DEF Done
<1>6. CASE o = "copy"
  BY <1>3, <1>6 DEF Done
<1>7. CASE o = "put"
  BY <1>3, <1>7 DEF Done
<1> QED
  BY <1>4, <1>5, <1>6, <1>7

\* The first of the steps that are left is done.
LEMMA NextStep ==
  ASSUME NEW t \in Task, NEW os \in Seq({"save", "write", "copy", "put"} \X {"src", "dts"}),
         os # <<>>, NEW k \in Nat, k = Steps(t) - Len(os),
         \A i \in 1 .. Len(os) : os[i] = Step(k + i, setting)
  PROVE  /\ k + 1 \in 1 .. Steps(t) /\ Head(os) = Step(k + 1, setting)
         /\ Tail(os) \in Seq({"save", "write", "copy", "put"} \X {"src", "dts"})
         /\ Len(Tail(os)) = Len(os) - 1
         /\ \A i \in 1 .. Len(Tail(os)) : Tail(os)[i] = Step(k + 1 + i, setting)
<1>1. Len(os) \in Nat /\ Len(os) >= 1 /\ Steps(t) \in Nat
  BY DEF Steps
<1>2. /\ Head(os) = os[1] /\ 1 \in 1 .. Len(os) /\ Len(Tail(os)) = Len(os) - 1
      /\ Tail(os) \in Seq({"save", "write", "copy", "put"} \X {"src", "dts"})
      /\ \A i \in 1 .. Len(os) - 1 : Tail(os)[i] = os[i + 1]
  BY <1>1
<1>3. ASSUME NEW i \in 1 .. Len(os) - 1 PROVE Tail(os)[i] = Step(k + 1 + i, setting)
  <2>1. i + 1 \in 1 .. Len(os) /\ k + (i + 1) = k + 1 + i
    BY <1>1
  <2> QED
    BY <1>2, <2>1
<1> QED
  BY <1>1, <1>2, <1>3

\* What a worker that writes has left to do, and has done.
LEMMA WhileWriting ==
  ASSUME IInv, NEW w \in Worker, finished = "pending", proc[w].state = "writing"
  PROVE  /\ w \in ToSet(online) /\ assignment[w] \in Task /\ assignment[w] # NoTask
         /\ proc[w] \in Process /\ proc[w].task = assignment[w] /\ proc[w].state = "writing"
         /\ WritingInv(proc[w], assignment[w], disk, setting, stray)
         /\ Len(proc[w].sent) <= 1 /\ \A i \in 1 .. Len(proc[w].sent) : proc[w].sent[i] = "files"
         /\ Steps(assignment[w]) - Len(proc[w].ops) \in Nat
         /\ proc[w].ops \in Seq({"save", "write", "copy", "put"} \X {"src", "dts"})
<1>1. /\ w \in ToSet(online) /\ assignment[w] \in Task /\ assignment[w] # NoTask
      /\ proc[w] \in Process /\ proc[w].task = assignment[w] /\ proc[w].state = "writing"
      /\ AssignedInv(proc[w], assignment[w], formats, disk, setting, stray)
  BY Active
<1>2. proc[w].ops \in Seq({"save", "write", "copy", "put"} \X {"src", "dts"})
  BY <1>1 DEF Process
<1>3. WritingInv(proc[w], assignment[w], disk, setting, stray) /\ Len(proc[w].sent) <= 1
      /\ \A i \in 1 .. Len(proc[w].sent) : proc[w].sent[i] = "files"
  BY <1>1 DEF AssignedInv
<1>4. Len(proc[w].ops) \in Nat /\ Len(proc[w].ops) <= Steps(assignment[w])
      /\ Steps(assignment[w]) \in Nat
  BY <1>2, <1>3 DEF WritingInv, Steps
<1> QED
  BY <1>1, <1>2, <1>3, <1>4

\* The next operation of writeBundle() is done.
LEMMA StepDone ==
  ASSUME DiskInv, NEW t \in Task, NEW k \in Nat, k + 1 \in 1 .. Steps(t),
         k >= 2 => SrcWritten(t, disk, setting, stray),
         NEW o, NEW c, Step(k + 1, setting) = <<o, c>>,
         disk' = [f \in File |-> disk'[f]], disk'[<<t, c>>] = Done(o, disk[<<t, c>>]),
         \A f \in File : f # <<t, c>> => disk'[f] = disk[f]
  PROVE  /\ disk' \in [File -> Files]
         /\ \A u \in Task \ {t} :
              /\ disk'[<<u, "src">>] = disk[<<u, "src">>]
              /\ Tasks[u].dts => disk'[<<u, "dts">>] = disk[<<u, "dts">>]
         /\ k + 1 >= 2 => SrcWritten(t, disk', setting, stray)
         /\ k + 1 = Steps(t) => DtsWritten(t, disk', setting, stray)
<1>1. disk \in [File -> Files]
  BY DEF DiskInv, Files
<1>2. \/ k = 0 /\ c = "src" /\ o \in {"save", "copy"}
      \/ k = 1 /\ c = "src" /\ o = IF setting.inPlace THEN "write" ELSE "put"
      \/ k = 2 /\ c = "dts" /\ o = "save" /\ Tasks[t].dts
      \/ k = 3 /\ c = "dts" /\ o = "write" /\ Tasks[t].dts
  <2>1. k = 0 \/ k = 1 \/ (k = 2 /\ Tasks[t].dts) \/ (k = 3 /\ Tasks[t].dts)
    BY DEF Steps
  <2>2. CASE k = 0
    BY <2>2 DEF Step
  <2>3. CASE k = 1
    BY <2>3 DEF Step
  <2>4. CASE k = 2 /\ Tasks[t].dts
    BY <2>4 DEF Step
  <2>5. CASE k = 3 /\ Tasks[t].dts
    BY <2>5 DEF Step
  <2> QED
    BY <2>1, <2>2, <2>3, <2>4, <2>5
<1>3. /\ <<t, c>> \in File /\ <<t, "src">> \in File /\ (Tasks[t].dts => <<t, "dts">> \in File)
      /\ o \in {"save", "write", "copy", "put"}
  BY <1>2 DEF File
<1>4. disk[<<t, c>>] \in Files
  BY <1>1, <1>3
<1> DEFINE d == Done(o, disk[<<t, c>>])
<1>5. d \in Files /\ (o = "write" => d.at = "new") /\ (o = "put" => d.copy = "new")
  BY <1>3, <1>4, DoneFiles
<1>6. disk'[<<t, c>>] = d
  OBVIOUS
<1> HIDE DEF d
<1>7. disk' \in [File -> Files] /\ disk'[<<t, c>>] = d
      /\ \A f \in File : f # <<t, c>> => disk'[f] = disk[f]
  <2>1. ASSUME NEW f \in File PROVE disk'[f] \in Files
    BY <1>6, <1>1, <1>5
  <2> QED
    BY <1>6, <2>1
<1>8. ASSUME NEW u \in Task \ {t}
      PROVE  /\ disk'[<<u, "src">>] = disk[<<u, "src">>]
             /\ Tasks[u].dts => disk'[<<u, "dts">>] = disk[<<u, "dts">>]
  <2>1. <<u, "src">> \in File /\ (Tasks[u].dts => <<u, "dts">> \in File)
    BY DEF File
  <2>2. <<u, "src">> # <<t, c>> /\ <<u, "dts">> # <<t, c>>
    OBVIOUS
  <2> QED
    BY <1>7, <2>1, <2>2
<1>9. ASSUME k + 1 >= 2 PROVE SrcWritten(t, disk', setting, stray)
  <2>1. CASE k = 1
    BY <1>2, <1>5, <1>7, <2>1 DEF SrcWritten
  <2>2. CASE k >= 2
    <3>1. c = "dts" /\ <<t, "src">> # <<t, "dts">>
      BY <1>2, <2>2
    <3>2. disk'[<<t, "src">>] = disk[<<t, "src">>]
      BY <1>3, <1>7, <3>1
    <3> QED
      BY <2>2, <3>2 DEF SrcWritten
  <2> QED
    BY <1>9, <2>1, <2>2
<1>10. ASSUME k + 1 = Steps(t) PROVE DtsWritten(t, disk', setting, stray)
  <2>1. CASE Tasks[t].dts
    BY <1>2, <1>5, <1>7, <1>10, <2>1 DEF DtsWritten, Steps
  <2>2. CASE ~Tasks[t].dts
    BY <2>2 DEF DtsWritten
  <2> QED
    BY <2>1, <2>2
<1> QED
  BY <1>7, <1>8, <1>9, <1>10

LEMMA WriteKeeps ==
  ASSUME IInv, NEW w \in Worker, Write(w)
  PROVE  IInv'
<1> DEFINE p == proc[w]
           t == assignment[w]
           k == Steps(t) - Len(p.ops)
           o == Head(p.ops)[1]
           c == Head(p.ops)[2]
           r == [p EXCEPT !.ops = Tail(p.ops)]
<1>1. /\ finished = "pending" /\ p.state = "writing" /\ p.ops # <<>>
      /\ UNCHANGED <<queue, online, assignment, finished, forks, formats, marked, failed, stray, setting>>
      /\ disk' = [disk EXCEPT ![<<p.task, c>>] = Done(o, disk[<<p.task, c>>])]
      /\ proc' = [proc EXCEPT ![w] = r]
  BY DEF Write, Writing, MasterVars, Operand
<1>2. /\ w \in ToSet(online) /\ t \in Task /\ t # NoTask
      /\ p \in Process /\ p.task = t /\ k \in Nat
      /\ WritingInv(p, t, disk, setting, stray)
      /\ Len(p.sent) <= 1 /\ \A i \in 1 .. Len(p.sent) : p.sent[i] = "files"
      /\ p.ops \in Seq({"save", "write", "copy", "put"} \X {"src", "dts"})
  BY <1>1, WhileWriting
<1>3. /\ k <= Steps(t) /\ Len(p.ops) = Steps(t) - k /\ Steps(t) \in Nat
      /\ \A i \in 1 .. Len(p.ops) : p.ops[i] = Step(k + i, setting)
      /\ k >= 2 => SrcWritten(t, disk, setting, stray)
  <2>1. Len(p.ops) \in Nat /\ Steps(t) \in Nat
    BY <1>2 DEF Steps
  <2> QED
    BY <1>2, <2>1 DEF WritingInv
<1>4. p \in Process
  BY <1>2
<1>5. ASSUME NEW x, x = r
      PROVE  x = [state |-> p.state, task |-> p.task, ops |-> Tail(p.ops), sent |-> p.sent]
  BY <1>4, <1>5 DEF Process
<1>6. r = [state |-> p.state, task |-> p.task, ops |-> Tail(p.ops), sent |-> p.sent]
  BY <1>5
<1> HIDE DEF r, k
<1>7. /\ k + 1 \in 1 .. Steps(t) /\ Head(p.ops) = Step(k + 1, setting)
      /\ Tail(p.ops) \in Seq({"save", "write", "copy", "put"} \X {"src", "dts"})
      /\ Len(Tail(p.ops)) = Len(p.ops) - 1
      /\ \A i \in 1 .. Len(Tail(p.ops)) : Tail(p.ops)[i] = Step(k + 1 + i, setting)
  BY <1>1, <1>2, <1>3, NextStep
<1>8. Step(k + 1, setting) = <<o, c>>
  BY <1>7 DEF Step
<1> HIDE DEF o, c
<1>9. /\ disk' \in [File -> Files]
      /\ \A u \in Task \ {t} :
           /\ disk'[<<u, "src">>] = disk[<<u, "src">>]
           /\ Tasks[u].dts => disk'[<<u, "dts">>] = disk[<<u, "dts">>]
      /\ k + 1 >= 2 => SrcWritten(t, disk', setting, stray)
      /\ k + 1 = Steps(t) => DtsWritten(t, disk', setting, stray)
  <2>1. DiskInv
    BY DEF IInv
  <2>2. <<t, c>> \in File
    <3>1. Step(k + 1, setting)[2] \in {"src", "dts"} /\ (Step(k + 1, setting)[2] = "dts" => Steps(t) = 4)
      BY <1>2, <1>7 DEF Step, Steps
    <3> QED
      BY <1>2, <1>8, <3>1 DEF File, Steps
  <2>3. /\ disk' = [f \in File |-> disk'[f]] /\ disk'[<<t, c>>] = Done(o, disk[<<t, c>>])
        /\ \A f \in File : f # <<t, c>> => disk'[f] = disk[f]
    <3> DEFINE d == Done(o, disk[<<t, c>>])
    <3>1. disk' = [disk EXCEPT ![<<t, c>>] = d]
      BY <1>1, <1>2
    <3> HIDE DEF d
    <3>2. /\ disk' = [f \in File |-> disk'[f]] /\ disk'[<<t, c>>] = d
          /\ \A f \in File : f # <<t, c>> => disk'[f] = disk[f]
      BY <2>1, <2>2, <3>1 DEF DiskInv
    <3> QED
      BY <3>2 DEF d
  <2> QED
    BY <1>2, <1>3, <1>7, <1>8, <2>1, <2>3, StepDone
<1>10. r.state = "writing" /\ r.task = t /\ r.ops = Tail(p.ops) /\ r.sent = p.sent
  BY <1>1, <1>2, <1>6
<1>11. r \in Process
  BY <1>2, <1>6, <1>7 DEF Process
<1>12. WritingInv(r, t, disk', setting, stray)
  <2>1. /\ Len(r.ops) = Steps(t) - (k + 1) /\ Steps(t) - Len(r.ops) = k + 1
        /\ Len(r.ops) \in Nat /\ Len(r.ops) <= Steps(t)
    BY <1>2, <1>3, <1>7, <1>10
  <2>2. \A i \in 1 .. Len(r.ops) : r.ops[i] = Step(Steps(t) - Len(r.ops) + i, setting)
    BY <1>7, <1>10, <2>1
  <2>3. /\ Len(r.ops) <= Steps(t) - 2 => k + 1 >= 2
        /\ Len(r.ops) = 0 => k + 1 = Steps(t)
    BY <1>2, <1>3, <2>1
  <2> QED
    BY <1>9, <2>1, <2>2, <2>3 DEF WritingInv
<1>13. MessagesInv(r.sent, t, formats, disk', setting, stray)
  BY <1>2, <1>10 DEF MessagesInv
<1>14. AssignedInv(r, t, formats, disk', setting, stray)
  BY <1>2, <1>10, <1>12, <1>13 DEF AssignedInv
<1>15. proc[w].state # "none"
  BY <1>1
<1> QED
  BY <1>1, <1>2, <1>9, <1>11, <1>14, <1>15, WorkKeeps

\* The last messages about a task.
LEMMA SaysOutcome ==
  ASSUME NEW s \in Seq({"online", "files", "update", "processed", "failed", "error"}),
         Len(s) <= 1, \A i \in 1 .. Len(s) : s[i] = "files",
         NEW ms \in {<<"error">>, <<"processed">>, <<"update", "processed">>},
         NEW t, NEW fm, NEW dk, NEW st, NEW lf,
         ms # <<"error">> => SrcWritten(t, dk, st, lf) /\ DtsWritten(t, dk, st, lf),
         ms = <<"processed">> => st.inPlace
  PROVE  /\ MessagesInv(s \o ms, t, fm, dk, st, lf)
         /\ \A i \in 1 .. Len(s \o ms) : (s \o ms)[i] # "online"
         /\ ms \in Seq({"online", "files", "update", "processed", "failed", "error"})
<1> DEFINE r == s \o ms
           n == Len(s)
<1>1. n \in Nat /\ n <= 1
  OBVIOUS
<1>2. ASSUME NEW m \in {"error", "processed"}, ms = <<m>>
      PROVE  /\ Len(r) = n + 1 /\ \A i \in 1 .. n + 1 : r[i] = IF i <= n THEN "files" ELSE m
             /\ ms \in Seq({"online", "files", "update", "processed", "failed", "error"})
  BY <1>2
<1>3. ASSUME ms = <<"update", "processed">>
      PROVE  /\ Len(r) = n + 2
             /\ \A i \in 1 .. n + 2 :
                  r[i] = IF i <= n THEN "files" ELSE IF i = n + 1 THEN "update" ELSE "processed"
             /\ ms \in Seq({"online", "files", "update", "processed", "failed", "error"})
  BY <1>3
<1> HIDE DEF r, n
<1>4. ASSUME NEW m \in {"error", "processed"}, ms = <<m>>
      PROVE  /\ MessagesInv(r, t, fm, dk, st, lf) /\ \A i \in 1 .. Len(r) : r[i] # "online"
             /\ ms \in Seq({"online", "files", "update", "processed", "failed", "error"})
  <2>1. /\ Len(r) = n + 1 /\ \A i \in 1 .. n + 1 : r[i] = IF i <= n THEN "files" ELSE m
        /\ ms \in Seq({"online", "files", "update", "processed", "failed", "error"})
    BY <1>2, <1>4
  <2>2. m = "processed" => SrcWritten(t, dk, st, lf) /\ DtsWritten(t, dk, st, lf) /\ st.inPlace
    <3>1. m = "processed" => ms[1] # "error"
      BY <1>4
    <3> QED
      BY <1>4, <3>1
  <2>3. \A i \in 1 .. Len(r) : r[i] = "files" \/ (r[i] = m /\ i = Len(r))
    BY <1>1, <2>1
  <2> QED
    BY <2>1, <2>2, <2>3 DEF MessagesInv
<1>5. ASSUME ms = <<"update", "processed">>
      PROVE  /\ MessagesInv(r, t, fm, dk, st, lf) /\ \A i \in 1 .. Len(r) : r[i] # "online"
             /\ ms \in Seq({"online", "files", "update", "processed", "failed", "error"})
  <2>1. /\ Len(r) = n + 2
        /\ \A i \in 1 .. n + 2 :
             r[i] = IF i <= n THEN "files" ELSE IF i = n + 1 THEN "update" ELSE "processed"
        /\ ms \in Seq({"online", "files", "update", "processed", "failed", "error"})
    BY <1>3, <1>5
  <2>2. SrcWritten(t, dk, st, lf) /\ DtsWritten(t, dk, st, lf)
    <3>1. ms[1] # "error"
      BY <1>5
    <3> QED
      BY <3>1
  <2>3. /\ n + 1 \in 1 .. Len(r) - 1 /\ r[n + 1] = "update"
        /\ \A i \in 1 .. Len(r) :
             r[i] = "files" \/ r[i] = "update" \/ (r[i] = "processed" /\ i = Len(r))
    BY <1>1, <2>1
  <2>4. \A i \in 1 .. Len(r) : r[i] = "processed" => \E j \in 1 .. i - 1 : r[j] = "update"
    BY <2>3
  <2> QED
    BY <2>1, <2>2, <2>3, <2>4 DEF MessagesInv
<1>6. \/ ms = <<"update", "processed">>
      \/ \E m \in {"error", "processed"} : ms = <<m>>
  OBVIOUS
<1>7. MessagesInv(r, t, fm, dk, st, lf) /\ (\A i \in 1 .. Len(r) : r[i] # "online")
      /\ ms \in Seq({"online", "files", "update", "processed", "failed", "error"})
  BY <1>4, <1>5, <1>6
<1> QED
  BY <1>7 DEF r

\* A worker that stops writing has told the outcome.
LEMMA StopsKeeps ==
  ASSUME IInv, NEW w \in Worker, finished = "pending", proc[w].state = "writing",
         NEW ms \in {<<"error">>, <<"processed">>, <<"update", "processed">>},
         ms # <<"error">> => /\ SrcWritten(assignment[w], disk, setting, stray)
                             /\ DtsWritten(assignment[w], disk, setting, stray),
         ms = <<"processed">> => setting.inPlace,
         NEW r, r = Says(Idles(proc[w]), ms), proc' = [proc EXCEPT ![w] = r], disk' = disk,
         UNCHANGED <<queue, online, assignment, finished, forks, formats, marked, failed, stray, setting>>
  PROVE  IInv'
<1> DEFINE p == proc[w]
           t == assignment[w]
<1>1. /\ w \in ToSet(online) /\ t \in Task /\ t # NoTask /\ p \in Process
      /\ Len(p.sent) <= 1 /\ \A i \in 1 .. Len(p.sent) : p.sent[i] = "files"
  BY WhileWriting
<1>2. p.sent \in Seq({"online", "files", "update", "processed", "failed", "error"})
  BY <1>1 DEF Process
<1>3. /\ MessagesInv(p.sent \o ms, t, formats, disk, setting, stray)
      /\ \A i \in 1 .. Len(p.sent \o ms) : (p.sent \o ms)[i] # "online"
      /\ ms \in Seq({"online", "files", "update", "processed", "failed", "error"})
  BY <1>1, <1>2, SaysOutcome
<1>4. p \in Process
  BY <1>1
<1> HIDE DEF p
<1> DEFINE q == Idles(p)
<1>5. q = [state |-> "idle", task |-> NoTask, ops |-> <<>>, sent |-> p.sent]
  BY <1>4, IdlesProcess
<1>6. r = Says(q, ms)
  BY DEF p
<1> HIDE DEF q
<1>7. r = [state |-> "idle", task |-> NoTask, ops |-> <<>>, sent |-> p.sent \o ms]
  BY <1>5, <1>6 DEF Says
<1>8. <<>> \in Seq({"save", "write", "copy", "put"} \X {"src", "dts"})
  OBVIOUS
<1>9. r \in Process
  BY <1>3, <1>4, <1>7, <1>8, SaysLast
<1>10. AssignedInv(r, t, formats, disk', setting, stray)
  <2>1. r.state = "idle" /\ r.sent = p.sent \o ms
    BY <1>7
  <2> QED
    BY <1>3, <2>1 DEF AssignedInv
<1>11. /\ disk' \in [File -> Files]
       /\ \A u \in Task \ {t} :
            /\ disk'[<<u, "src">>] = disk[<<u, "src">>]
            /\ Tasks[u].dts => disk'[<<u, "dts">>] = disk[<<u, "dts">>]
  BY SameDisk
<1>12. proc[w].state # "none"
  OBVIOUS
<1> QED
  BY <1>1, <1>9, <1>10, <1>11, <1>12, WorkKeeps DEF p

LEMMA WrittenKeeps ==
  ASSUME IInv, NEW w \in Worker, Written(w)
  PROVE  IInv'
<1> DEFINE ms == IF setting.inPlace THEN <<"processed">> ELSE <<"update", "processed">>
           r == Says(Idles(proc[w]), ms)
<1>1. /\ finished = "pending" /\ proc[w].state = "writing" /\ proc[w].ops = <<>> /\ disk' = disk
      /\ UNCHANGED <<queue, online, assignment, finished, forks, formats, marked, failed, stray, setting>>
      /\ proc' = [proc EXCEPT ![w] = r]
  BY DEF Written, MasterVars
<1>2. WritingInv(proc[w], assignment[w], disk, setting, stray)
  BY <1>1, WhileWriting
<1>3. SrcWritten(assignment[w], disk, setting, stray) /\ DtsWritten(assignment[w], disk, setting, stray)
  <2>1. Len(proc[w].ops) = 0 /\ Steps(assignment[w]) \in {2, 4}
    BY <1>1 DEF Steps
  <2> QED
    BY <1>2, <2>1 DEF WritingInv
<1>4. /\ ms \in {<<"error">>, <<"processed">>, <<"update", "processed">>}
      /\ ms = <<"processed">> => setting.inPlace
  <2>1. <<"processed">> # <<"update", "processed">>
    <3>1. <<"processed">>[1] # <<"update", "processed">>[1]
      OBVIOUS
    <3> QED
      BY <3>1
  <2> QED
    BY <2>1
<1>5. r = Says(Idles(proc[w]), ms)
  OBVIOUS
<1> HIDE DEF ms, r
<1> QED
  BY <1>1, <1>3, <1>4, <1>5, StopsKeeps

\* A backup is in the way of an excepted task only.
LEMMA InTheWayStray ==
  ASSUME IInv, BackupInv, NEW w \in Worker, BackupInTheWay(w)
  PROVE  proc[w].task = assignment[w] /\ assignment[w] \in stray
<1> DEFINE p == proc[w]
           t == assignment[w]
           k == Steps(t) - Len(p.ops)
<1>1. /\ finished = "pending" /\ p.state = "writing" /\ p.ops # <<>>
      /\ Head(p.ops)[1] = "save" /\ disk[<<p.task, Head(p.ops)[2]>>].bak # "none"
  BY DEF BackupInTheWay, Writing, BackupExists, Operand
<1>2. /\ t \in Task /\ p.task = t /\ k \in Nat /\ WritingInv(p, t, disk, setting, stray)
      /\ p.ops \in Seq({"save", "write", "copy", "put"} \X {"src", "dts"})
  BY <1>1, WhileWriting
<1>3. /\ Len(p.ops) \in Nat /\ Len(p.ops) <= Steps(t) /\ Steps(t) \in {2, 4}
      /\ \A i \in 1 .. Len(p.ops) : p.ops[i] = Step(k + i, setting)
  <2>1. Len(p.ops) \in Nat /\ Steps(t) \in {2, 4}
    BY <1>2 DEF Steps
  <2> QED
    BY <1>2, <2>1 DEF WritingInv
<1> HIDE DEF k
<1>4. k = Steps(t) - Len(p.ops)
  BY DEF k
<1>5. k + 1 \in 1 .. Steps(t) /\ Head(p.ops) = Step(k + 1, setting)
  BY <1>1, <1>2, <1>3, <1>4, NextStep
<1>6. t \notin stray => Unsaved(p, disk)
  BY <1>1, <1>2 DEF BackupInv
<1>7. CASE k = 0
  <2>1. setting.inPlace /\ Head(p.ops)[2] = "src" /\ Len(p.ops) = Steps(t)
    BY <1>1, <1>3, <1>4, <1>5, <1>7 DEF Step
  <2> QED
    BY <1>1, <1>2, <1>6, <2>1 DEF Unsaved
<1>8. CASE k = 2
  <2>1. Steps(t) = 4 /\ Len(p.ops) = 2 /\ Head(p.ops)[2] = "dts"
    <3>1. Steps(t) = 4
      BY <1>3, <1>5, <1>8
    <3>2. Len(p.ops) = 2
      <4>1. Len(p.ops) \in Nat /\ 2 = 4 - Len(p.ops)
        BY <1>3, <1>4, <1>8, <3>1
      <4>2. ASSUME NEW n \in Nat, 2 = 4 - n PROVE n = 2
        BY <4>2
      <4> QED
        BY <4>1, <4>2
    <3>3. Head(p.ops)[2] = "dts"
      BY <1>5, <1>8 DEF Step
    <3> QED
      BY <3>1, <3>2, <3>3
  <2>2. Tasks[t].dts
    BY <2>1 DEF Steps
  <2>3. t \notin stray => disk[<<t, "dts">>].bak = "none"
    BY <1>2, <1>6, <2>1, <2>2 DEF Unsaved
  <2> QED
    BY <1>1, <1>2, <2>1, <2>3
<1>9. k \in {0, 1, 2, 3}
  BY <1>2, <1>3, <1>5
<1>10. k \notin {1, 3}
  BY <1>1, <1>5 DEF Step
<1> QED
  BY <1>2, <1>7, <1>8, <1>9, <1>10

LEMMA BackupInTheWayKeeps ==
  ASSUME IInv, BackupInv, NEW w \in Worker, BackupInTheWay(w)
  PROVE  IInv'
<1> DEFINE p == proc[w]
           t == assignment[w]
           k == Steps(t) - Len(p.ops)
<1>1. /\ finished = "pending" /\ p.state = "writing" /\ p.ops # <<>> /\ disk' = disk
      /\ UNCHANGED <<queue, online, assignment, finished, forks, formats, marked, failed, stray, setting>>
      /\ Head(p.ops)[1] = "save"
  BY DEF BackupInTheWay, Writing, BackupExists, MasterVars
<1>2. /\ w \in ToSet(online) /\ t \in Task /\ t # NoTask
      /\ p \in Process /\ p.task = t /\ k \in Nat
      /\ WritingInv(p, t, disk, setting, stray)
      /\ Len(p.sent) <= 1 /\ \A i \in 1 .. Len(p.sent) : p.sent[i] = "files"
      /\ p.ops \in Seq({"save", "write", "copy", "put"} \X {"src", "dts"})
  BY <1>1, WhileWriting
<1>3. CASE setting.errorOnFailed
  <2> DEFINE r == Says(Idles(p), <<"error">>)
  <2>1. proc' = [proc EXCEPT ![w] = r]
    BY <1>3 DEF BackupInTheWay
  <2>2. r = Says(Idles(proc[w]), <<"error">>)
    OBVIOUS
  <2>3. <<"error">> # <<"processed">>
    <3>1. <<"error">>[1] # <<"processed">>[1]
      OBVIOUS
    <3> QED
      BY <3>1
  <2> HIDE DEF r
  <2> QED
    BY <1>1, <2>1, <2>2, <2>3, StopsKeeps
<1>4. CASE ~setting.errorOnFailed
  <2> DEFINE r == [p EXCEPT !.ops = Tail(Tail(p.ops))]
  <2>1. proc' = [proc EXCEPT ![w] = r]
    BY <1>4 DEF BackupInTheWay
  <2>2. p \in Process
    BY <1>2
  <2>3. ASSUME NEW x, x = r
        PROVE  x = [state |-> p.state, task |-> p.task, ops |-> Tail(Tail(p.ops)), sent |-> p.sent]
    BY <2>2, <2>3 DEF Process
  <2>4. r = [state |-> p.state, task |-> p.task, ops |-> Tail(Tail(p.ops)), sent |-> p.sent]
    BY <2>3
  <2> HIDE DEF r, k
  <2>5. /\ k <= Steps(t) /\ k = Steps(t) - Len(p.ops) /\ Len(p.ops) = Steps(t) - k
        /\ Len(p.ops) \in Nat /\ Steps(t) \in {2, 4}
        /\ \A i \in 1 .. Len(p.ops) : p.ops[i] = Step(k + i, setting)
        /\ k >= 2 => SrcWritten(t, disk, setting, stray)
    <3>1. Len(p.ops) \in Nat /\ Steps(t) \in {2, 4}
      BY <1>2 DEF Steps
    <3> QED
      BY <1>2, <3>1 DEF WritingInv, k
  <2>6. /\ k + 1 \in 1 .. Steps(t) /\ Head(p.ops) = Step(k + 1, setting)
        /\ Tail(p.ops) \in Seq({"save", "write", "copy", "put"} \X {"src", "dts"})
        /\ Len(Tail(p.ops)) = Len(p.ops) - 1
        /\ \A i \in 1 .. Len(Tail(p.ops)) : Tail(p.ops)[i] = Step(k + 1 + i, setting)
    BY <1>1, <1>2, <2>5, NextStep
  <2>7. (k = 0 /\ setting.inPlace) \/ (k = 2 /\ Steps(t) = 4)
    <3>1. k = 0 \/ k = 1 \/ k = 2 \/ k = 3
      BY <1>2, <2>5, <2>6
    <3>2. CASE k = 0
      BY <1>1, <2>6, <3>2 DEF Step
    <3>3. CASE k = 1
      BY <1>1, <2>6, <3>3 DEF Step
    <3>4. CASE k = 2
      BY <2>5, <2>6, <3>4
    <3>5. CASE k = 3
      BY <1>1, <2>6, <3>5 DEF Step
    <3> QED
      BY <3>1, <3>2, <3>3, <3>4, <3>5
  <2>8. /\ Tail(p.ops) # <<>> /\ k + 1 \in Nat /\ k + 1 = Steps(t) - Len(Tail(p.ops))
    <3>1. Len(Tail(p.ops)) = Steps(t) - k - 1 /\ k \in Nat /\ Steps(t) \in Int
      BY <2>5, <2>6, <1>2
    <3>2. (Steps(t) = 2 \/ Steps(t) = 4) /\ Len(<<>>) = 0
      BY <2>5
    <3>3. Len(Tail(p.ops)) >= 1
      BY <2>7, <3>1, <3>2
    <3>4. ASSUME NEW x, Len(x) >= 1 PROVE x # <<>>
      BY <3>2, <3>4
    <3>5. Tail(p.ops) # <<>>
      BY <3>3, <3>4
    <3> QED
      BY <3>1, <3>5
  <2> DEFINE os == Tail(p.ops)
             j == k + 1
  <2> HIDE DEF os, j
  <2>9. /\ Tail(os) \in Seq({"save", "write", "copy", "put"} \X {"src", "dts"})
        /\ Len(Tail(os)) = Len(os) - 1
        /\ \A i \in 1 .. Len(Tail(os)) : Tail(os)[i] = Step(j + 1 + i, setting)
    <3>1. /\ os \in Seq({"save", "write", "copy", "put"} \X {"src", "dts"})
          /\ os # <<>> /\ j \in Nat /\ j = Steps(t) - Len(os)
          /\ \A i \in 1 .. Len(os) : os[i] = Step(j + i, setting)
      BY <2>6, <2>8 DEF os, j
    <3> QED
      BY <1>2, <3>1, NextStep
  <2>10. /\ r.state = "writing" /\ r.task = t /\ r.ops = Tail(os) /\ r.sent = p.sent
    BY <1>1, <1>2, <2>4 DEF os
  <2>11. r \in Process
    <3>1. r = [state |-> p.state, task |-> p.task, ops |-> Tail(os), sent |-> p.sent]
      BY <2>4 DEF os
    <3> QED
      BY <2>2, <2>9, <3>1 DEF Process
  <2>12. SrcWritten(t, disk, setting, stray) /\ DtsWritten(t, disk, setting, stray)
    <3>1. CASE k = 0 /\ setting.inPlace
      BY <1>4, <3>1, InTheWayStray DEF SrcWritten, DtsWritten
    <3>2. CASE k = 2
      <4>1. SrcWritten(t, disk, setting, stray)
        BY <2>5, <3>2
      <4>2. DtsWritten(t, disk, setting, stray)
        BY <1>4, InTheWayStray DEF DtsWritten
      <4> QED
        BY <4>1, <4>2
    <3> QED
      BY <2>7, <3>1, <3>2
  <2>13. WritingInv(r, t, disk, setting, stray)
    <3>1. /\ Len(r.ops) = Steps(t) - (j + 1) /\ Steps(t) - Len(r.ops) = j + 1
          /\ Len(r.ops) <= Steps(t)
      <4>1. Len(r.ops) = Len(p.ops) - 1 - 1
        BY <2>6, <2>9, <2>10 DEF os
      <4>2. Len(p.ops) \in Int /\ Steps(t) \in Int /\ Len(p.ops) <= Steps(t)
        BY <1>2, <2>5 DEF WritingInv
      <4>3. j = Steps(t) - Len(p.ops) + 1
        BY <2>5 DEF j
      <4> QED
        BY <4>1, <4>2, <4>3
    <3>2. \A i \in 1 .. Len(r.ops) : r.ops[i] = Step(Steps(t) - Len(r.ops) + i, setting)
      BY <2>9, <2>10, <3>1
    <3> QED
      BY <2>12, <3>1, <3>2 DEF WritingInv
  <2>14. MessagesInv(r.sent, t, formats, disk, setting, stray)
    BY <1>2, <2>10 DEF MessagesInv
  <2>15. AssignedInv(r, t, formats, disk', setting, stray)
    BY <1>1, <1>2, <2>10, <2>13, <2>14 DEF AssignedInv
  <2>16. /\ disk' \in [File -> Files] /\ proc[w].state # "none"
         /\ \A u \in Task \ {t} :
              /\ disk'[<<u, "src">>] = disk[<<u, "src">>]
              /\ Tasks[u].dts => disk'[<<u, "dts">>] = disk[<<u, "dts">>]
    BY <1>1, SameDisk
  <2> QED
    BY <1>1, <1>2, <2>1, <2>11, <2>15, <2>16, WorkKeeps
<1> QED
  BY <1>3, <1>4

-------------------------------------------------------------------------------
(* A death keeps the invariant.                                                 *)

LEMMA Prefix ==
  ASSUME NEW M, NEW s \in Seq(M), NEW n \in 0 .. Len(s)
  PROVE  /\ SubSeq(s, 1, n) \in Seq(M) /\ Len(SubSeq(s, 1, n)) = n
         /\ \A i \in 1 .. n : SubSeq(s, 1, n)[i] = s[i]
<1>1. Len(s) \in Nat /\ n \in Nat /\ n <= Len(s)
  OBVIOUS
<1> QED
  BY <1>1

\* Whatever messages of p are lost, the first n arrive.
LEMMA Dies ==
  ASSUME NEW w \in Worker, proc[w] \in Process, proc[w].state \in {"idle", "told", "writing"},
         WorkerInv(w, online, assignment, proc, formats, disk, setting, stray),
         NEW n \in 0 .. Len(proc[w].sent),
         NEW r, r = [state |-> "dead", task |-> NoTask, ops |-> <<>>,
                     sent |-> SubSeq(proc[w].sent, 1, n)],
         NEW procs, procs[w] = r
  PROVE  r \in Process /\ WorkerInv(w, online, assignment, procs, formats, disk, setting, stray)
<1> DEFINE s == proc[w].sent
           l == SubSeq(s, 1, n)
           t == assignment[w]
           M == {"online", "files", "update", "processed", "failed", "error"}
<1>1. s \in Seq(M)
  BY DEF Process
<1>2. l \in Seq(M) /\ Len(l) = n /\ \A i \in 1 .. n : l[i] = s[i]
  BY <1>1, Prefix
<1>3. Len(s) \in Nat /\ n \in Nat /\ n <= Len(s)
  BY <1>1
<1>4. r.state = "dead" /\ r.sent = l
  OBVIOUS
<1>5. r = [state |-> "dead", task |-> NoTask, ops |-> <<>>, sent |-> l]
  OBVIOUS
<1>6. <<>> \in Seq({"save", "write", "copy", "put"} \X {"src", "dts"})
  OBVIOUS
<1> HIDE DEF l
<1>7. r \in Process
  BY <1>2, <1>5, <1>6 DEF Process
<1>8. ASSUME w \notin ToSet(online) PROVE OfflineInv(r)
  <2>1. OfflineInv(proc[w])
    BY <1>8 DEF WorkerInv
  <2>2. \A i \in 1 .. Len(l) : l[i] = "online" => Len(l) = 1
    <3>1. \A i \in 1 .. Len(s) : s[i] = "online" => Len(s) = 1
      BY <2>1 DEF OfflineInv
    <3>2. ASSUME NEW i \in 1 .. Len(l), l[i] = "online" PROVE Len(l) = 1
      <4>1. i \in 1 .. n /\ s[i] = "online" /\ i \in 1 .. Len(s)
        BY <1>2, <1>3, <3>2
      <4>2. Len(s) = 1
        BY <3>1, <4>1
      <4> QED
        BY <1>2, <1>3, <4>1, <4>2
    <3> QED
      BY <3>2
  <2> QED
    BY <1>4, <2>2 DEF OfflineInv
<1>9. ASSUME w \in ToSet(online), t = NoTask PROVE WaitingInv(r)
  <2>1. s = <<>> /\ Len(<<>>) = 0
    BY <1>9 DEF WorkerInv, WaitingInv
  <2>2. Len(l) = 0
    BY <1>2, <1>3, <2>1
  <2>3. l = <<>>
    BY <1>2, <2>2, EmptySeq
  <2> QED
    BY <1>4, <2>3 DEF WaitingInv
<1>10. ASSUME w \in ToSet(online), t # NoTask PROVE AssignedInv(r, t, formats, disk, setting, stray)
  <2>1. /\ \A i \in 1 .. Len(s) : s[i] # "online"
        /\ MessagesInv(s, t, formats, disk, setting, stray)
    BY <1>10 DEF WorkerInv, AssignedInv
  <2>2. MessagesInv(l, t, formats, disk, setting, stray)
    BY <1>2, <1>3, <2>1 DEF MessagesInv
  <2>3. \A i \in 1 .. Len(l) : l[i] # "online"
    BY <1>2, <1>3, <2>1
  <2> QED
    BY <1>4, <2>2, <2>3 DEF AssignedInv
<1> QED
  BY <1>7, <1>8, <1>9, <1>10 DEF WorkerInv

LEMMA CrashKeeps ==
  ASSUME IInv, NEW w \in Worker, Crash(w)
  PROVE  IInv'
<1> DEFINE p == proc[w]
<1>1. PICK n \in 0 .. Len(p.sent) :
        proc' = [proc EXCEPT ![w] = [NotForked EXCEPT !.state = "dead",
                                                      !.sent = SubSeq(p.sent, 1, n)]]
  BY DEF Crash
<1>2. /\ finished = "pending" /\ p.state \in {"idle", "told", "writing"} /\ disk' = disk
      /\ UNCHANGED <<queue, online, assignment, finished, forks, formats, marked, failed, stray, setting>>
  BY DEF Crash, MasterVars
<1>3. /\ QueueInv(queue, marked, failed) /\ TableInv(queue, online, assignment)
      /\ WorkersInv(online, assignment, proc, formats, disk, setting, stray)
      /\ ForkedInv(forks, proc) /\ DiskInv /\ MarkedInv(marked, formats, disk, setting, stray)
  BY <1>2 DEF IInv, RunInv
<1> DEFINE l == SubSeq(p.sent, 1, n)
           r == [NotForked EXCEPT !.state = "dead", !.sent = l]
<1>4. ASSUME NEW x, x = r PROVE x = [state |-> "dead", task |-> NoTask, ops |-> <<>>, sent |-> l]
  BY <1>4 DEF NotForked
<1>5. r = [state |-> "dead", task |-> NoTask, ops |-> <<>>, sent |-> l]
  BY <1>4
<1>6. proc' = [proc EXCEPT ![w] = r]
  BY <1>1
<1> HIDE DEF r
<1>7. proc \in [Worker -> Process]
  BY <1>3 DEF ForkedInv
<1>8. proc'[w] = r /\ \A v \in Worker : v # w => proc'[v] = proc[v]
  BY <1>6, <1>7
<1>9. r \in Process /\ WorkerInv(w, online, assignment, proc', formats, disk, setting, stray)
  <2>1. proc[w] \in Process /\ WorkerInv(w, online, assignment, proc, formats, disk, setting, stray)
    BY <1>3, <1>7 DEF WorkersInv
  <2> QED
    BY <1>2, <1>5, <1>8, <2>1, Dies
<1>10. WorkersInv(online, assignment, proc', formats, disk, setting, stray)
  <2>1. ASSUME NEW v \in Worker, v # w
        PROVE  WorkerInv(v, online, assignment, proc', formats, disk, setting, stray)
    BY <1>3, <1>8, <2>1 DEF WorkersInv, WorkerInv
  <2> QED
    BY <1>9, <2>1 DEF WorkersInv
<1>11. ForkedInv(forks', proc')
  <2>1. proc' \in [Worker -> Process]
    BY <1>6, <1>7, <1>9
  <2>2. ~(w > forks)
    BY <1>2, <1>3 DEF ForkedInv
  <2> QED
    BY <1>2, <1>3, <1>8, <2>1, <2>2 DEF ForkedInv
<1>12. DiskInv'
  BY <1>2, <1>3 DEF DiskInv
<1>13. /\ QueueInv(queue', marked', failed') /\ TableInv(queue', online', assignment')
       /\ WorkersInv(online', assignment', proc', formats', disk', setting', stray')
       /\ MarkedInv(marked', formats', disk', setting', stray') /\ finished' # "resolved"
  BY <1>2, <1>3, <1>10
<1> QED
  BY <1>11, <1>12, <1>13, Settled

-------------------------------------------------------------------------------
(* Backups.                                                                     *)

LEMMA InitBackups == Init => BackupInv
<1>1. ASSUME Init, NEW t \in Task PROVE Clean(t)
  BY <1>1 DEF Init, Clean
<1>2. ASSUME Init, NEW w \in Worker PROVE proc[w].state # "writing"
  BY <1>2, NewProcess DEF Init, NotForked
<1> QED
  BY <1>1, <1>2 DEF BackupInv, UntouchedInv

\* Most steps write no file.
LEMMA BackupsKeep ==
  ASSUME BackupInv, finished = "pending", UNCHANGED <<disk, stray, setting>>,
         marked \subseteq marked', failed \subseteq failed',
         \A v \in Worker : assignment[v] # NoTask /\ proc[v].state # "told" =>
           \/ assignment'[v] = assignment[v] /\ proc'[v].state # "told"
           \/ assignment[v] \in marked' \cup failed',
         \A v \in Worker : proc'[v].state = "writing" =>
           /\ proc[v].state = "writing" /\ proc'[v].task = proc[v].task
           /\ proc'[v].ops = proc[v].ops
  PROVE  BackupInv'
<1>1. \A t : Clean(t) => Clean(t)'
  BY DEF Clean
<1>2. ASSUME NEW t \in Task \ stray
      PROVE  \/ t \in marked' \cup failed' \/ Clean(t)'
             \/ \E w \in Worker : assignment'[w] = t /\ proc'[w].state # "told"
  <2>1. t # NoTask
    BY TaskNumbers
  <2> QED
    BY <1>1, <2>1 DEF BackupInv, UntouchedInv
<1>3. ASSUME NEW w \in Worker, proc'[w].state = "writing", proc'[w].task \notin stray
      PROVE  Unsaved(proc[w], disk)'
  <2>1. Unsaved(proc[w], disk)
    BY <1>3 DEF BackupInv
  <2> QED
    BY <1>3, <2>1 DEF Unsaved
<1> QED
  BY <1>2, <1>3 DEF BackupInv, UntouchedInv

\* maybeDistributeWork() concerns the workers that wait.
LEMMA DistributeTells ==
  ASSUME NEW q, NEW kn, NEW a, NEW procs, NEW listed, NEW mk, NEW fl,
         QueueInv(q, mk, fl), TableInv(q, kn, a), ForkedInv(forks, procs),
         MaybeDistributeWork(q, kn, a, procs, listed), NEW w \in Worker
  PROVE  /\ a[w] # NoTask /\ procs[w].state # "told" =>
              assignment'[w] = a[w] /\ proc'[w].state # "told"
         /\ proc'[w].state = "writing" => proc'[w] = procs[w]
<1>1. CASE Resolve(q, kn, a, procs)
  BY <1>1 DEF Resolve
<1>2. CASE Distribute(q, kn, a, procs, listed)
  <2> DEFINE d == Distributed[[queue |-> q, assignment |-> a, rest |-> kn, told |-> {},
                               end |-> "assigned"]]
             Told(x, v) == [x EXCEPT !.state = "told", !.task = d.assignment[v]]
             told == [v \in Worker |-> IF v \in d.told /\ Reachable(v) THEN Told(procs[v], v)
                                                                      ELSE procs[v]]
  <2>1. DistributedInv(d, kn, a, mk, fl)
    <3>1. ASSUME NEW x, x = d PROVE DistributedInv(x, kn, a, mk, fl)
      BY <3>1, DistributedLeaves
    <3> HIDE DEF d
    <3> QED
      BY <3>1
  <2>2. assignment' = d.assignment /\ (Fork(told) \/ proc' = told)
    BY <1>2 DEF Distribute
  <2> HIDE DEF d
  <2>3. procs \in [Worker -> Process]
    BY DEF ForkedInv
  <2>4. procs[w] \in Process
    BY <2>3
  <2>5. Told(procs[w], w).state = "told"
    BY <2>4 DEF Process
  <2> HIDE DEF Told
  <2>6. told[w] = IF w \in d.told /\ Reachable(w) THEN Told(procs[w], w) ELSE procs[w]
    OBVIOUS
  <2>7. DOMAIN told = Worker
    OBVIOUS
  <2> HIDE DEF told
  <2>8. proc'[w] = told[w] \/ proc'[w].state = "idle"
    BY <2>2, <2>7, NewProcess DEF Fork
  <2>9. a[w] # NoTask => w \notin d.told /\ d.assignment[w] = a[w]
    BY <2>1 DEF DistributedInv
  <2> QED
    BY <2>2, <2>5, <2>6, <2>8, <2>9
<1> QED
  BY <1>1, <1>2 DEF MaybeDistributeWork

\* A handler that goes on to distribute work: w, if it had the task t, has done with it.
LEMMA BackupsDistribute ==
  ASSUME IInv, BackupInv, finished = "pending", NEW w \in Worker, UNCHANGED <<disk, stray, setting>>,
         marked \subseteq marked', failed \subseteq failed',
         NEW q, NEW kn, NEW a, NEW procs, NEW listed,
         QueueInv(q, marked', failed'), TableInv(q, kn, a), ForkedInv(forks, procs),
         MaybeDistributeWork(q, kn, a, procs, listed),
         \A v \in Worker : procs[v].state = proc[v].state /\ procs[v].task = proc[v].task
                           /\ procs[v].ops = proc[v].ops,
         \A v \in Worker : assignment[v] # NoTask =>
                             a[v] = assignment[v] \/ assignment[v] \in marked' \cup failed'
  PROVE  BackupInv'
<1>1. ASSUME NEW v \in Worker
      PROVE  /\ a[v] # NoTask /\ procs[v].state # "told" =>
                  assignment'[v] = a[v] /\ proc'[v].state # "told"
             /\ proc'[v].state = "writing" => proc'[v] = procs[v]
  BY DistributeTells
<1>2. ASSUME NEW v \in Worker, assignment[v] # NoTask, proc[v].state # "told"
      PROVE  \/ assignment'[v] = assignment[v] /\ proc'[v].state # "told"
             \/ assignment[v] \in marked' \cup failed'
  BY <1>1, <1>2
<1>3. ASSUME NEW v \in Worker, proc'[v].state = "writing"
      PROVE  /\ proc[v].state = "writing" /\ proc'[v].task = proc[v].task
             /\ proc'[v].ops = proc[v].ops
  BY <1>1, <1>3
<1> QED
  BY <1>2, <1>3, BackupsKeep

LEMMA TakenStays ==
  ASSUME IInv, NEW w \in Worker, NEW m, Gets(w, m)
  PROVE  /\ ForkedInv(forks, Taken(w))
         /\ \A v \in Worker : /\ Taken(w)[v].state = proc[v].state
                              /\ Taken(w)[v].task = proc[v].task /\ Taken(w)[v].ops = proc[v].ops
<1>1. /\ ForkedInv(forks, Taken(w)) /\ \A v \in Worker : v # w => Taken(w)[v] = proc[v]
      /\ Taken(w)[w] = [state |-> proc[w].state, task |-> proc[w].task, ops |-> proc[w].ops,
                        sent |-> Tail(proc[w].sent)]
  BY Reads, TakenProcess
<1> QED
  BY <1>1

LEMMA BackupsOutcome ==
  ASSUME IInv, BackupInv, NEW w \in Worker, OnTaskProcessed(w) \/ OnTaskFailed(w)
  PROVE  BackupInv'
<1> DEFINE t == assignment[w]
<1>1. PICK m \in {"processed", "failed"} : Gets(w, m) /\ w \in ToSet(online)
  BY DEF OnTaskProcessed, OnTaskFailed
<1>2. /\ RunInv /\ t \in queue.inProgress /\ t \in Task /\ finished = "pending"
      /\ TableInv(queue, online, assignment)
  BY <1>1, Reads DEF RunInv, Gets
<1>3. \A v \in Worker : Unassigned(w)[v] = IF v = w THEN NoTask ELSE assignment[v]
  BY <1>2 DEF Unassigned, TableInv
<1>4. CASE OnTaskProcessed(w)
  <2> DEFINE q == MarkAsCompleted(queue, t)
  <2>1. QueueInv(q, marked \cup {t}, failed) /\ q.inProgress = queue.inProgress \ {t}
    BY <1>2, ProcessedKeeps DEF RunInv
  <2>2. /\ MaybeDistributeWork(q, online, Unassigned(w), Taken(w), Listed)
        /\ marked' = marked \cup {t} /\ UNCHANGED <<disk, setting, failed, stray>>
    BY <1>4 DEF OnTaskProcessed, TaskCompleted
  <2> HIDE DEF q
  <2>3. TableInv(q, online, Unassigned(w)) /\ ForkedInv(forks, Taken(w))
    BY <1>1, <2>1, OutcomeFrees
  <2>4. marked \subseteq marked' /\ failed \subseteq failed' /\ t \in marked' \cup failed'
    BY <2>2
  <2>5. QueueInv(q, marked', failed')
    BY <2>1, <2>2
  <2>6. \A v \in Worker : assignment[v] # NoTask =>
          Unassigned(w)[v] = assignment[v] \/ assignment[v] \in marked' \cup failed'
    BY <1>3, <2>4
  <2>7. \A v \in Worker : /\ Taken(w)[v].state = proc[v].state
                           /\ Taken(w)[v].task = proc[v].task /\ Taken(w)[v].ops = proc[v].ops
    BY <1>1, TakenStays
  <2>8. UNCHANGED <<disk, stray, setting>>
    BY <2>2
  <2> DEFINE a == Unassigned(w)
             procs == Taken(w)
             listed == Listed
  <2>9. /\ MaybeDistributeWork(q, online, a, procs, listed)
        /\ TableInv(q, online, a) /\ ForkedInv(forks, procs)
        /\ \A v \in Worker : assignment[v] # NoTask =>
              a[v] = assignment[v] \/ assignment[v] \in marked' \cup failed'
        /\ \A v \in Worker : /\ procs[v].state = proc[v].state
                              /\ procs[v].task = proc[v].task /\ procs[v].ops = proc[v].ops
    BY <2>2, <2>3, <2>6, <2>7
  <2>10. finished = "pending"
    BY <1>2
  <2> HIDE DEF a, procs, listed
  <2> QED
    BY <2>4, <2>5, <2>8, <2>9, <2>10, BackupsDistribute
<1>5. CASE OnTaskFailed(w)
  <2> DEFINE q == MarkAsCompleted(MarkAsFailed(queue, t), t)
  <2>1. QueueInv(q, marked, failed \cup {t}) /\ q.inProgress = queue.inProgress \ {t}
    BY <1>2, FailedKeeps DEF RunInv
  <2>2. /\ MaybeDistributeWork(q, online, Unassigned(w), Taken(w), Listed)
        /\ failed' = failed \cup {t} /\ UNCHANGED <<disk, setting, marked, stray>>
    BY <1>5 DEF OnTaskFailed, TaskCompleted
  <2> HIDE DEF q
  <2>3. TableInv(q, online, Unassigned(w)) /\ ForkedInv(forks, Taken(w))
    BY <1>1, <2>1, OutcomeFrees
  <2>4. marked \subseteq marked' /\ failed \subseteq failed' /\ t \in marked' \cup failed'
    BY <2>2
  <2>5. QueueInv(q, marked', failed')
    BY <2>1, <2>2
  <2>6. \A v \in Worker : assignment[v] # NoTask =>
          Unassigned(w)[v] = assignment[v] \/ assignment[v] \in marked' \cup failed'
    BY <1>3, <2>4
  <2>7. \A v \in Worker : /\ Taken(w)[v].state = proc[v].state
                           /\ Taken(w)[v].task = proc[v].task /\ Taken(w)[v].ops = proc[v].ops
    BY <1>1, TakenStays
  <2>8. UNCHANGED <<disk, stray, setting>>
    BY <2>2
  <2> DEFINE a == Unassigned(w)
             procs == Taken(w)
             listed == Listed
  <2>9. /\ MaybeDistributeWork(q, online, a, procs, listed)
        /\ TableInv(q, online, a) /\ ForkedInv(forks, procs)
        /\ \A v \in Worker : assignment[v] # NoTask =>
              a[v] = assignment[v] \/ assignment[v] \in marked' \cup failed'
        /\ \A v \in Worker : /\ procs[v].state = proc[v].state
                              /\ procs[v].task = proc[v].task /\ procs[v].ops = proc[v].ops
    BY <2>2, <2>3, <2>6, <2>7
  <2>10. finished = "pending"
    BY <1>2
  <2> HIDE DEF a, procs, listed
  <2> QED
    BY <2>4, <2>5, <2>8, <2>9, <2>10, BackupsDistribute
<1> QED
  BY <1>4, <1>5

LEMMA BackupsOnline ==
  ASSUME IInv, BackupInv, NEW w \in Worker, OnWorkerOnline(w)
  PROVE  BackupInv'
<1> DEFINE ln == Append(online, w)
<1>1. Gets(w, "online") /\ finished = "pending"
  BY DEF OnWorkerOnline, Gets
<1>2. /\ RunInv /\ w \notin ToSet(online) /\ assignment[w] = NoTask
      /\ TableInv(queue, online, assignment) /\ QueueInv(queue, marked, failed)
  BY <1>1, Reads DEF RunInv
<1>3. Unassigned(w) = assignment
  BY <1>2 DEF Unassigned, TableInv
<1>4. TableInv(queue, ln, assignment)
  BY <1>2, TableAppends
<1> HIDE DEF ln
<1>5. /\ MaybeDistributeWork(queue, ln, assignment, Taken(w), Listed)
      /\ UNCHANGED <<disk, setting, marked, failed, stray>>
  BY <1>3 DEF OnWorkerOnline, ln
<1>6. QueueInv(queue, marked', failed')
  BY <1>2, <1>5
<1> QED
  BY <1>1, <1>4, <1>5, <1>6, TakenStays, BackupsDistribute

\* The exit of a worker with a task: if that is not excepted it has no backup, and the other
\* files are as they were.
LEMMA BackupsExit ==
  ASSUME IInv, BackupInv, NEW w \in Worker, OnBusyWorkerExit(w)
  PROVE  BackupInv'
<1> DEFINE t == assignment[w]
           q == MarkAsUnprocessed(queue, t)
           ln == WithoutAssignment(w)
           b == Unassigned(w)
<1>1. /\ finished = "pending" /\ proc[w].state = "dead" /\ t # NoTask
      /\ RevertBundle(t) \/ UNCHANGED <<disk, formats>>
      /\ GoOnWithout(w, q) /\ UNCHANGED <<marked, failed, setting>> /\ NotesStray(t)
  BY DEF OnBusyWorkerExit, Exits
<1>2. /\ QueueInv(queue, marked, failed) /\ TableInv(queue, online, assignment)
      /\ WorkersInv(online, assignment, proc, formats, disk, setting, stray)
      /\ ForkedInv(forks, proc) /\ DiskInv
  BY <1>1 DEF IInv, RunInv
<1>3. w \in ToSet(online) /\ t \in queue.inProgress /\ t \in Task /\ t \notin marked
  BY <1>1, <1>2, QueueTypes DEF TableInv, QueueInv, Completed, Pending
<1>4. QueueInv(q, marked, failed) /\ q.inProgress = queue.inProgress \ {t}
  BY <1>2, <1>3, UnprocessedKeeps
<1>5. \A f \in File : f[1] # t => disk'[f] = disk[f]
  BY <1>1 DEF RevertBundle
<1>6. ASSUME NEW f \in File, f[1] = t, t \notin stray' PROVE disk'[f].bak = "none"
  BY <1>1, <1>6 DEF NotesStray
<1>7. stray \subseteq stray'
  BY <1>1 DEF NotesStray
<1> HIDE DEF q
<1>8. TableInv(q, online, b) /\ \A v \in Worker : b[v] = IF v = w THEN NoTask ELSE assignment[v]
  BY <1>1, <1>2, <1>4, TableShrinks
<1> HIDE DEF b
<1>9. TableInv(q, ln, b)
  BY <1>8, TableRemoves
<1> HIDE DEF ln
<1>10. ASSUME NEW v \in Worker
       PROVE  /\ b[v] # NoTask /\ proc[v].state # "told" =>
                   assignment'[v] = b[v] /\ proc'[v].state # "told"
              /\ proc'[v].state = "writing" => proc'[v] = proc[v]
  <2>1. CASE MaybeDistributeWork(q, ln, b, proc, (1 .. forks) \ removed')
    BY <1>2, <1>4, <1>9, <2>1, DistributeTells
  <2>2. CASE assignment' = b /\ (Fork(proc) \/ proc' = proc)
    <3>1. proc'[v] = proc[v] \/ proc'[v].state = "idle"
      BY <1>2, <2>2, NewProcess DEF Fork, ForkedInv
    <3> QED
      BY <2>2, <3>1
  <2> QED
    BY <1>1, <2>1, <2>2 DEF GoOnWithout, ln, b
<1>11. ASSUME NEW u \in Task \ stray'
       PROVE  \/ u \in marked' \cup failed' \/ Clean(u)'
              \/ \E v \in Worker : assignment'[v] = u /\ proc'[v].state # "told"
  <2>1. CASE u = t
    BY <1>6, <1>11, <2>1 DEF Clean
  <2>2. CASE u # t
    <3>1. Clean(u) => Clean(u)'
      BY <1>5, <2>2 DEF Clean
    <3>2. \/ u \in marked \cup failed \/ Clean(u)
          \/ \E v \in Worker : assignment[v] = u /\ proc[v].state # "told"
      BY <1>1, <1>7, <1>11 DEF BackupInv, UntouchedInv
    <3>3. u # NoTask
      BY TaskNumbers
    <3>4. ASSUME NEW v \in Worker, assignment[v] = u, proc[v].state # "told"
          PROVE  assignment'[v] = u /\ proc'[v].state # "told"
      <4>1. b[v] = u
        BY <1>8, <2>2, <3>4
      <4> QED
        BY <1>10, <3>3, <3>4, <4>1
    <3> QED
      BY <1>1, <3>1, <3>2, <3>4
  <2> QED
    BY <2>1, <2>2
<1>12. ASSUME NEW v \in Worker, proc'[v].state = "writing", proc'[v].task \notin stray'
       PROVE  Unsaved(proc[v], disk)'
  <2>1. proc'[v] = proc[v] /\ Unsaved(proc[v], disk)
    BY <1>1, <1>7, <1>10, <1>12 DEF BackupInv
  <2> DEFINE u == proc[v].task
  <2>2. u = assignment[v] /\ u \in Task /\ v # w
    BY <1>1, <1>12, <2>1, Active
  <2>3. u # t
    BY <1>1, <1>2, <2>2 DEF TableInv
  <2>4. <<u, "src">> \in File /\ (Tasks[u].dts => <<u, "dts">> \in File)
    BY <2>2 DEF File
  <2>5. /\ disk'[<<u, "src">>] = disk[<<u, "src">>]
        /\ Tasks[u].dts => disk'[<<u, "dts">>] = disk[<<u, "dts">>]
    BY <1>5, <2>3, <2>4
  <2> QED
    BY <1>1, <2>1, <2>5 DEF Unsaved
<1> QED
  BY <1>11, <1>12 DEF BackupInv, UntouchedInv

LEMMA BackupsMaster ==
  ASSUME IInv, BackupInv, NEW w \in Worker, Master(w)
  PROVE  BackupInv'
<1>1. CASE OnWorkerTransformedFiles(w) \/ OnWorkerUpdatePackageJson(w)
  <2>1. /\ finished = "pending" /\ proc' = Taken(w) /\ \E m : Gets(w, m)
        /\ UNCHANGED <<assignment, disk, marked, failed, stray, setting>>
    BY <1>1 DEF OnWorkerTransformedFiles, OnWorkerUpdatePackageJson, Gets
  <2> QED
    BY <2>1, TakenStays, BackupsKeep
<1>2. CASE OnIdleWorkerExit(w)
  <2>1. /\ finished = "pending" /\ Fork(proc)
        /\ UNCHANGED <<assignment, disk, marked, failed, stray, setting>>
    BY <1>2 DEF OnIdleWorkerExit, Exits
  <2>2. \A v \in Worker : proc'[v] = proc[v] \/ proc'[v].state = "idle"
    BY <2>1, NewProcess DEF Fork, IInv, ForkedInv
  <2> QED
    BY <2>1, <2>2, BackupsKeep
<1>3. CASE finished' # "pending"
  BY <1>3 DEF BackupInv
<1>4. OnWorkerError(w) \/ OnTaskFailedThrows(w) \/ OnExitRevertThrows(w) => finished' = "rejected"
  BY DEF OnWorkerError, OnTaskFailedThrows, OnExitRevertThrows, Reject
<1> QED
  BY <1>1, <1>2, <1>3, <1>4, BackupsOnline, BackupsOutcome, BackupsExit DEF Master

\* The steps of the worker w alone: it writes no files but those of its task.
LEMMA BackupsWork ==
  ASSUME IInv, BackupInv, finished = "pending", NEW w \in Worker, proc[w].state \in {"told", "writing"},
         NEW r, proc' = [proc EXCEPT ![w] = r], r.state # "told",
         \A f \in File : f[1] # proc[w].task => disk'[f] = disk[f],
         r.state = "writing" /\ proc[w].task \notin stray => r.task = proc[w].task /\ Unsaved(r, disk'),
         r.task = proc[w].task \/ r.state # "writing",
         UNCHANGED <<assignment, marked, failed, stray, setting>>
  PROVE  BackupInv'
<1> DEFINE t == proc[w].task
<1>1. t = assignment[w] /\ t \in Task /\ t # NoTask
  BY Active
<1>2. proc'[w] = r /\ \A v \in Worker : v # w => proc'[v] = proc[v]
  BY DEF IInv, ForkedInv
<1>3. ASSUME NEW u \in Task \ stray
      PROVE  \/ u \in marked' \cup failed' \/ Clean(u)'
             \/ \E v \in Worker : assignment'[v] = u /\ proc'[v].state # "told"
  <2>1. CASE u = t
    BY <1>1, <1>2, <2>1
  <2>2. CASE u # t
    <3>1. Clean(u) => Clean(u)'
      BY <2>2 DEF Clean
    <3> QED
      BY <1>1, <1>2, <2>2, <3>1 DEF BackupInv, UntouchedInv
  <2> QED
    BY <2>1, <2>2
<1>4. ASSUME NEW v \in Worker, proc'[v].state = "writing", proc'[v].task \notin stray
      PROVE  Unsaved(proc[v], disk)'
  <2>1. CASE v = w
    BY <1>2, <1>4, <2>1 DEF Unsaved
  <2>2. CASE v # w
    <3> DEFINE u == proc[v].task
    <3>1. proc'[v] = proc[v] /\ Unsaved(proc[v], disk)
      BY <1>2, <1>4, <2>2 DEF BackupInv
    <3>2. u = assignment[v] /\ u \in Task /\ u # NoTask
      BY <1>4, <3>1, Active
    <3>3. u # t
      BY <1>1, <2>2, <3>2 DEF IInv, RunInv, TableInv
    <3>4. <<u, "src">> \in File /\ (Tasks[u].dts => <<u, "dts">> \in File)
      BY <3>2 DEF File
    <3>5. /\ disk'[<<u, "src">>] = disk[<<u, "src">>]
          /\ Tasks[u].dts => disk'[<<u, "dts">>] = disk[<<u, "dts">>]
      BY <3>3, <3>4
    <3> QED
      BY <3>1, <3>5 DEF Unsaved
  <2> QED
    BY <2>1, <2>2
<1> QED
  BY <1>3, <1>4 DEF BackupInv, UntouchedInv

LEMMA BackupsCompile ==
  ASSUME IInv, BackupInv, NEW w \in Worker, Compile(w)
  PROVE  BackupInv'
<1> DEFINE p == proc[w]
           t == p.task
           R(o) == IF o = "files"
                   THEN Says([p EXCEPT !.state = "writing", !.ops = Writes(t)], <<o>>)
                   ELSE Says(Idles(p), <<o>>)
<1>1. /\ finished = "pending" /\ p.state = "told" /\ disk' = disk
      /\ UNCHANGED <<assignment, marked, failed, stray, setting>>
  BY DEF Compile, MasterVars
<1>2. PICK o \in setting.outcomes : proc' = [proc EXCEPT ![w] = R(o)]
  BY DEF Compile
<1>3. p \in Process /\ t = assignment[w] /\ t \in Task /\ t # NoTask
  BY <1>1, Active
<1>4. t \notin stray => Clean(t)
  <2>1. t \in queue.inProgress /\ t \notin marked \cup failed
    BY <1>1, <1>3 DEF IInv, RunInv, TableInv, QueueInv, Completed, Pending
  <2>2. \A v \in Worker : assignment[v] = t => v = w
    BY <1>1, <1>3 DEF IInv, RunInv, TableInv
  <2> QED
    BY <1>1, <1>3, <2>1, <2>2 DEF BackupInv, UntouchedInv
<1>5. Len(Writes(t)) = Steps(t)
  BY <1>3, WritesSteps
<1> DEFINE r == R(o)
<1>6. r.state \in {"writing", "idle"} /\ (r.state = "writing" => r.task = t /\ r.ops = Writes(t))
  <2>1. ASSUME NEW x \in Process, NEW y, y = [x EXCEPT !.state = "writing", !.ops = Writes(t)],
               NEW z, z = Says(y, <<o>>)
        PROVE  z.state = "writing" /\ z.task = x.task /\ z.ops = Writes(t)
    BY <2>1 DEF Process, Says
  <2>2. ASSUME NEW x \in Process, NEW z, z = Says(Idles(x), <<o>>)
        PROVE  z.state = "idle"
    BY <2>2 DEF Process, Says, Idles
  <2>3. CASE o = "files"
    <3>1. r = Says([p EXCEPT !.state = "writing", !.ops = Writes(t)], <<o>>)
      BY <2>3
    <3> HIDE DEF r
    <3> QED
      BY <1>3, <2>1, <3>1
  <2>4. CASE o # "files"
    <3>1. r = Says(Idles(p), <<o>>)
      BY <2>4
    <3> HIDE DEF r
    <3>2. r.state = "idle"
      BY <1>3, <2>2, <3>1
    <3> QED
      BY <3>2
  <2> QED
    BY <2>3, <2>4
<1>7. proc' = [proc EXCEPT ![w] = r]
  BY <1>2
<1> HIDE DEF r
<1>8. ASSUME r.state = "writing", t \notin stray PROVE Unsaved(r, disk')
  <2>1. <<t, "src">> \in File /\ (Tasks[t].dts => <<t, "dts">> \in File)
    BY <1>3 DEF File
  <2>2. /\ disk'[<<t, "src">>].bak = "none"
        /\ Tasks[t].dts => disk'[<<t, "dts">>].bak = "none"
    BY <1>1, <1>4, <1>8, <2>1 DEF Clean
  <2> QED
    BY <1>6, <1>8, <2>2 DEF Unsaved
<1> QED
  BY <1>1, <1>6, <1>7, <1>8, BackupsWork

\* The next operation moves a file only if there is no backup of it, and after it that file
\* is not one that is still to be moved.
LEMMA BackupsWrite ==
  ASSUME IInv, BackupInv, NEW w \in Worker, Write(w)
  PROVE  BackupInv'
<1> DEFINE p == proc[w]
           t == p.task
           k == Steps(t) - Len(p.ops)
           o == Head(p.ops)[1]
           c == Head(p.ops)[2]
           r == [p EXCEPT !.ops = Tail(p.ops)]
<1>1. /\ finished = "pending" /\ p.state = "writing" /\ p.ops # <<>>
      /\ UNCHANGED <<assignment, marked, failed, stray, setting>>
      /\ disk' = [disk EXCEPT ![<<t, c>>] = Done(o, disk[<<t, c>>])]
      /\ proc' = [proc EXCEPT ![w] = r]
  BY DEF Write, Writing, MasterVars, Operand
<1>2. /\ t \in Task /\ p \in Process /\ k \in Nat /\ WritingInv(p, t, disk, setting, stray)
      /\ p.ops \in Seq({"save", "write", "copy", "put"} \X {"src", "dts"})
  BY <1>1, WhileWriting
<1>3. /\ Len(p.ops) \in Nat /\ Len(p.ops) <= Steps(t) /\ Steps(t) \in {2, 4}
      /\ \A i \in 1 .. Len(p.ops) : p.ops[i] = Step(k + i, setting)
  <2>1. Len(p.ops) \in Nat /\ Steps(t) \in {2, 4}
    BY <1>2 DEF Steps
  <2> QED
    BY <1>2, <2>1 DEF WritingInv
<1>4. p \in Process
  BY <1>2
<1>5. ASSUME NEW x, x = r
      PROVE  x.state = "writing" /\ x.task = t /\ x.ops = Tail(p.ops)
  BY <1>1, <1>4, <1>5 DEF Process
<1>6. r.state = "writing" /\ r.task = t /\ r.ops = Tail(p.ops)
  BY <1>5
<1> HIDE DEF r, k
<1>7. /\ k + 1 \in 1 .. Steps(t) /\ Head(p.ops) = Step(k + 1, setting)
      /\ Len(Tail(p.ops)) = Len(p.ops) - 1
  BY <1>1, <1>2, <1>3, NextStep DEF k
<1>8. k = Steps(t) - Len(p.ops)
  BY DEF k
<1>9. disk \in [File -> Files]
  BY DEF IInv, DiskInv, Files
<1>10. \A f \in File : f # <<t, c>> => disk'[f] = disk[f]
  BY <1>1, <1>9
<1>11. /\ <<t, "src">> \in File /\ (Tasks[t].dts => <<t, "dts">> \in File)
       /\ <<t, "src">> # <<t, "dts">>
  BY <1>2 DEF File
<1>12. ASSUME t \notin stray PROVE Unsaved(r, disk')
  <2>1. Unsaved(p, disk)
    BY <1>1, <1>12 DEF BackupInv
  <2>2. Len(r.ops) # Steps(t)
    BY <1>2, <1>3, <1>6, <1>7, <1>8
  <2>3. ASSUME Tasks[t].dts, Len(r.ops) >= 2 PROVE disk'[<<t, "dts">>].bak = "none"
    <3>1. k \in {0, 1} /\ disk[<<t, "dts">>].bak = "none"
      <4>1. Steps(t) = 4
        BY <2>3 DEF Steps
      <4>2. Len(p.ops) >= 3
        BY <1>3, <1>6, <1>7, <2>3
      <4>3. k \in {0, 1}
        <5>1. Len(p.ops) \in Nat /\ Len(p.ops) <= 4 /\ k = 4 - Len(p.ops)
          BY <1>3, <1>8, <4>1
        <5>2. ASSUME NEW n \in Nat, n <= 4, n >= 3 PROVE 4 - n \in {0, 1}
          BY <5>2
        <5> QED
          BY <4>2, <5>1, <5>2
      <4>4. disk[<<t, "dts">>].bak = "none"
        BY <1>3, <2>1, <2>3, <4>2 DEF Unsaved
      <4> QED
        BY <4>3, <4>4
    <3>2. c = "src"
      BY <1>7, <3>1 DEF Step
    <3> QED
      BY <1>10, <1>11, <2>3, <3>1, <3>2
  <2> QED
    BY <1>6, <2>2, <2>3 DEF Unsaved
<1>13. \A f \in File : f[1] # t => disk'[f] = disk[f]
  BY <1>10
<1> QED
  BY <1>1, <1>6, <1>12, <1>13, BackupsWork

\* The writer skips two operations, says that it is done or fails, or dies.
LEMMA BackupsStop ==
  ASSUME IInv, BackupInv, NEW w \in Worker, BackupInTheWay(w) \/ Written(w) \/ Crash(w)
  PROVE  BackupInv'
<1> DEFINE p == proc[w]
<1>1. /\ finished = "pending" /\ disk' = disk
      /\ UNCHANGED <<assignment, marked, failed, stray, setting>>
  BY DEF BackupInTheWay, Written, Crash, Writing, MasterVars
<1>2. p \in Process
  BY DEF IInv, ForkedInv
<1>3. ASSUME NEW r, proc' = [proc EXCEPT ![w] = r], r.state \in {"idle", "dead"}
      PROVE  BackupInv'
  <2>1. proc'[w] = r /\ \A v \in Worker : v # w => proc'[v] = proc[v]
    BY <1>3 DEF IInv, ForkedInv
  <2> QED
    BY <1>1, <1>3, <2>1, BackupsKeep
<1>4. ASSUME NEW ms PROVE Says(Idles(p), ms).state = "idle"
  <2>1. ASSUME NEW x \in Process, NEW z, z = Says(Idles(x), ms) PROVE z.state = "idle"
    BY <2>1 DEF Process, Says, Idles
  <2> QED
    BY <1>2, <2>1
<1>5. CASE Written(w)
  BY <1>3, <1>4, <1>5 DEF Written
<1>6. CASE Crash(w)
  <2>1. PICK n \in 0 .. Len(p.sent) :
          proc' = [proc EXCEPT ![w] = [NotForked EXCEPT !.state = "dead",
                                                        !.sent = SubSeq(p.sent, 1, n)]]
    BY <1>6 DEF Crash
  <2>2. [NotForked EXCEPT !.state = "dead", !.sent = SubSeq(p.sent, 1, n)].state = "dead"
    BY DEF NotForked
  <2> QED
    BY <1>3, <2>1, <2>2
<1>7. CASE BackupInTheWay(w) /\ setting.errorOnFailed
  BY <1>3, <1>4, <1>7 DEF BackupInTheWay
<1>8. CASE BackupInTheWay(w) /\ ~setting.errorOnFailed
  <2> DEFINE t == p.task
             r == [p EXCEPT !.ops = Tail(Tail(p.ops))]
  <2>1. proc' = [proc EXCEPT ![w] = r] /\ p.state = "writing" /\ p.ops # <<>>
    BY <1>8 DEF BackupInTheWay, Writing
  <2>2. ASSUME NEW x, x = r
        PROVE  x.state = "writing" /\ x.task = t /\ x.ops = Tail(Tail(p.ops))
    BY <1>2, <2>1, <2>2 DEF Process
  <2>3. r.state = "writing" /\ r.task = t /\ r.ops = Tail(Tail(p.ops))
    BY <2>2
  <2> HIDE DEF r
  <2>4. t = assignment[w] /\ t \in Task /\ WritingInv(p, t, disk, setting, stray)
    BY <1>1, <2>1, WhileWriting
  <2>5. t \in stray
    BY <1>8, InTheWayStray
  <2> QED
    BY <1>1, <2>1, <2>3, <2>5, BackupsWork
<1> QED
  BY <1>5, <1>6, <1>7, <1>8

LEMMA BackupSteps ==
  ASSUME IInv, BackupInv, NEW w \in Worker, Master(w) \/ Work(w) \/ Crash(w) \/ Disconnect(w)
  PROVE  BackupInv'
<1>1. CASE Disconnect(w)
  <2>1. finished = "pending" /\ UNCHANGED <<assignment, proc, disk, marked, failed, stray, setting>>
    BY <1>1 DEF Disconnect
  <2> QED
    BY <2>1, BackupsKeep
<1> QED
  BY <1>1, BackupsMaster, BackupsCompile, BackupsWrite, BackupsStop DEF Work

-------------------------------------------------------------------------------
(* The invariant.                                                               *)

LEMMA Inits == Init => IInv
<1> SUFFICES ASSUME Init PROVE IInv
  OBVIOUS
<1>1. /\ setting \in Setting /\ queue = NewQueue /\ online = <<>>
      /\ assignment = [w \in Worker |-> NoTask] /\ finished = "pending" /\ forks = 1
      /\ proc = [w \in Worker |-> IF w = 1 THEN Forked ELSE NotForked]
      /\ disk = [f \in File |-> [at |-> "orig", bak |-> "none", copy |-> "none"]]
      /\ formats = {} /\ marked = {} /\ failed = {}
  BY DEF Init
<1>2. QueueInv(queue, {}, {}) /\ queue.inProgress = {}
  BY <1>1, NewQueueInv
<1>3. ToSet(<<>>) = {} /\ <<>> \in Seq(Worker) /\ Distinct(<<>>)
  BY DEF ToSet, Distinct
<1>4. TableInv(queue, online, assignment)
  BY <1>1, <1>2, <1>3 DEF TableInv
<1>5. ForkedInv(forks, proc)
  <2>1. Forked \in Process /\ NotForked \in Process /\ NotForked.state = "none"
    BY NewProcess DEF NotForked
  <2> QED
    BY <1>1, <2>1 DEF ForkedInv
<1>6. WorkersInv(online, assignment, proc, formats, disk, setting, stray)
  <2>1. OfflineInv(Forked) /\ OfflineInv(NotForked)
    BY NewProcess
  <2> QED
    BY <1>1, <1>3, <2>1 DEF WorkersInv, WorkerInv
<1>7. DiskInv
  BY <1>1 DEF DiskInv
<1>8. MarkedInv(marked, formats, disk, setting, stray)
  BY <1>1 DEF MarkedInv
<1>9. CompiledInv(proc, marked)
  BY <1>1, <1>2, <1>4, <1>6, CompiledTasks
<1>10. SkippedIffDependencyFailed
  BY <1>1 DEF SkippedIffDependencyFailed
<1> QED
  BY <1>1, <1>2, <1>4, <1>5, <1>6, <1>7, <1>8, <1>9, <1>10 DEF IInv, RunInv

LEMMA Unchanged ==
  ASSUME IInv, UNCHANGED <<queue, online, assignment, finished, forks, proc, disk, formats,
                           marked, failed, stray, setting>>
  PROVE  IInv'
<1>1. DiskInv' /\ SkippedIffDependencyFailed'
  BY DEF IInv, DiskInv, SkippedIffDependencyFailed
<1>2. finished' = "pending" => RunInv'
  BY DEF IInv, RunInv
<1> QED
  BY <1>1, <1>2 DEF IInv

LEMMA StepKeeps ==
  ASSUME IInv, BackupInv, NEW w \in Worker
  PROVE  /\ Master(w) => IInv'
         /\ Work(w) => IInv'
         /\ Crash(w) => IInv'
         /\ Disconnect(w) => IInv'
<1>1. ASSUME Master(w) PROVE IInv'
  BY <1>1, OnlineKeeps, ErrorKeeps, FilesKeep, UpdateKeeps, ProcessedKeepsInv, FailedKeepsInv,
     FailedThrowsKeeps, IdleExitKeeps, RevertThrowsKeeps, BusyExitKeeps DEF Master
<1>2. ASSUME Work(w) PROVE IInv'
  BY <1>2, CompileKeeps, WriteKeeps, BackupInTheWayKeeps, WrittenKeeps DEF Work
<1>3. ASSUME Crash(w) PROVE IInv'
  BY <1>3, CrashKeeps
<1>4. ASSUME Disconnect(w) PROVE IInv'
  BY <1>4, Unchanged DEF Disconnect
<1> QED
  BY <1>1, <1>2, <1>3, <1>4

LEMMA NextKeeps == IInv /\ BackupInv /\ [Next]_vars => (IInv /\ BackupInv)'
<1> SUFFICES ASSUME IInv, BackupInv, [Next]_vars PROVE IInv' /\ BackupInv'
  OBVIOUS
<1>1. CASE Next
  BY <1>1, StepKeeps, BackupSteps DEF Next
<1>2. CASE UNCHANGED vars
  <2>1. BackupInv'
    <3>1. CASE finished = "pending"
      BY <1>2, <3>1, BackupsKeep DEF vars
    <3>2. CASE finished # "pending"
      BY <1>2, <3>2 DEF vars, BackupInv
    <3> QED
      BY <3>1, <3>2
  <2> QED
    BY <1>2, <2>1, Unchanged DEF vars
<1> QED
  BY <1>1, <1>2

LEMMA Invariant == Spec => []IInv
<1>1. Init => IInv /\ BackupInv
  BY Inits, InitBackups
<1> QED
  BY <1>1, NextKeeps, PTL DEF Spec

-------------------------------------------------------------------------------
(* What it means.                                                               *)

\* The queue of the master and its table agree, however workers die and tasks are
\* returned to the queue (ClusterMaster and BaseTaskQueue): a task is at most once in
\* the queue, or in progress and assigned to one worker, or done.
THEOREM TasksCorrect == Spec => []EachTaskInOnePlace
<1>1. IInv => EachTaskInOnePlace
  <2> SUFFICES ASSUME IInv, finished = "pending" PROVE EachTaskInOnePlace
    BY DEF EachTaskInOnePlace
  <2>1. QueueInv(queue, marked, failed) /\ TableInv(queue, online, assignment)
    BY DEF IInv, RunInv
  <2>2. /\ queue.inProgress \subseteq Task /\ ToSet(queue.tasks) \subseteq Task
        /\ queue.tasks \in Seq(Task) /\ DOMAIN queue.tasks = 1 .. Len(queue.tasks)
    BY <2>1, QueueTypes DEF QueueInv
  <2>3. queue.inProgress = {assignment[w] : w \in Busy(assignment, online)}
    <3>1. \A w \in Worker : w \in Busy(assignment, online) <=> assignment[w] # NoTask
      BY <2>1 DEF TableInv, Busy
    <3>2. Busy(assignment, online) \subseteq Worker
      BY <2>1, Elements DEF TableInv, Busy
    <3>3. NoTask \notin queue.inProgress
      BY <2>2, TaskNumbers
    <3> QED
      BY <2>1, <3>1, <3>2, <3>3 DEF TableInv
  <2>4. \A v, w \in Busy(assignment, online) : assignment[v] = assignment[w] => v = w
    BY <2>1, Elements DEF TableInv, Busy
  <2>5. ASSUME NEW t \in Task
        PROVE  Cardinality({i \in DOMAIN queue.tasks : queue.tasks[i] = t}) <= 1
    <3> DEFINE I == {i \in DOMAIN queue.tasks : queue.tasks[i] = t}
    <3>1. \A i, j \in I : i = j
      BY <2>1, <2>2 DEF QueueInv, Distinct
    <3>2. I = {} \/ \E i : I = {i}
      BY <3>1
    <3> HIDE DEF I
    <3>3. Cardinality(I) = 0 \/ Cardinality(I) = 1
      BY <3>2, FS_EmptySet, FS_Singleton
    <3> QED
      BY <3>3 DEF I
  <2>6. \A t \in ToSet(queue.tasks) : t \notin queue.inProgress \cup marked \cup failed
    BY <2>1 DEF QueueInv, Completed, Pending
  <2>7. queue.inProgress \cap (marked \cup failed) = {}
    BY <2>1 DEF QueueInv, Completed, Pending
  <2> QED
    BY <2>3, <2>4, <2>5, <2>6, <2>7 DEF EachTaskInOnePlace
<1> QED
  BY Invariant, <1>1, PTL

\* A worker compiles a task only when all tasks that block it have been processed and the
\* typings they make are on disk (computeTaskDependencies() and getNextTask()): always
\* where a failed entry point is an error, and with the default, lenient setting unless a
\* dead worker has left a backup of such a task behind, so that its retry skips the file.
THEOREM DependenciesCorrect == Spec => []DependenciesCompiled
<1>1. IInv => DependenciesCompiled
  <2> SUFFICES ASSUME IInv, NEW w \in Worker, proc[w].state \in {"told", "writing"},
                      NEW d \in Blocking(proc[w].task)
               PROVE  /\ d \in marked
                      /\ setting.errorOnFailed \/ d \notin stray => disk[<<d, "dts">>].at = "new"
    BY DEF DependenciesCompiled
  <2>1. proc[w].task \in Task /\ d \in marked
    BY DEF IInv, CompiledInv
  <2>2. Tasks[d].dts
    BY DEF Blocking, Dependents
  <2>3. DtsWritten(d, disk, setting, stray)
    BY <2>1 DEF IInv, MarkedInv
  <2> QED
    BY <2>1, <2>2, <2>3 DEF DtsWritten
<1> QED
  BY Invariant, <1>1, PTL

\* The tasks that skipDependentTasks() marks are those that depend, directly or not, on
\* one that failed; none of them is processed, and all others are if the run succeeds.
THEOREM SkippedCorrect == Spec => []SkippedIffDependencyFailed
<1>1. IInv => SkippedIffDependencyFailed
  BY DEF IInv
<1> QED
  BY Invariant, <1>1, PTL

\* When onTaskCompleted() has marked a task in package.json its files have been written by
\* writeBundle() and no death of another worker reverts them.  In place and with the
\* lenient setting, a task of which a dead worker has left a backup is excepted.
THEOREM WrittenCorrect == Spec => []ProcessedIsWritten
<1>1. IInv => ProcessedIsWritten
  <2> SUFFICES ASSUME IInv, NEW t \in marked
               PROVE  IF setting.inPlace
                      THEN setting.errorOnFailed \/ t \notin stray => disk[<<t, "src">>].at = "new"
                      ELSE disk[<<t, "src">>].copy = "new" /\ t \in formats
    BY DEF ProcessedIsWritten
  <2>1. SrcWritten(t, disk, setting, stray) /\ (setting.inPlace \/ t \in formats)
    BY DEF IInv, MarkedInv
  <2> QED
    BY <2>1 DEF SrcWritten
<1> QED
  BY Invariant, <1>1, PTL
===============================================================================
