----------------------------- MODULE DriverProofs ------------------------------
(***************************************************************************)
(* Proofs about Driver, for any clients, events, manifests, deployments and *)
(* restarts.  Types and the reasons for which a pin moves are proved for    *)
(* any number of update checks at once; that what a client is pinned to is  *)
(* loaded, and that the disk has what is in memory, for one at a time:     *)
(* two that install one manifest can remove it again.                      *)
(***************************************************************************)
EXTENDS Driver, FiniteSetTheorems, SequenceTheorems, TLAPS

EventRecord == [pc : Pc.event, kind : {"fetch", "activate"},
                client : Client \cup {NoClient}, nav : BOOLEAN,
                ver : Hash \cup {NoHash}, app : Nat]
CheckRecord == [pc : Pc.check, kind : {"other", "postLoad"},
                hash : Hash \cup {NoHash}, active : SUBSET Client, obsolete : SUBSET Hash]

Assignments == UNION {[C -> Hash] : C \in SUBSET Client}

-------------------------------------------------------------------------------
(***************************************************************************)
(* The control table and the writes to it.  Due(part, x): once all that is  *)
(* under way has landed, the table holds x under the key `part`.           *)
(***************************************************************************)
Value == [manifests |-> SUBSET Hash, assignments |-> Assignments \cup {NeverWritten},
          latest |-> Hash \cup {NoHash}]
Write == UNION {[part : {p}, by : Writer, s : [{p} -> Value[p]]] : p \in Part}

LastOf(ws, part, i) == /\ i \in DOMAIN ws /\ ws[i].part = part
                       /\ \A j \in DOMAIN ws : j > i => ws[j].part # part
Due(d, ws, part, x) == \/ d[part] = x /\ \A i \in DOMAIN ws : ws[i].part # part
                       \/ \E i \in DOMAIN ws : LastOf(ws, part, i) /\ ws[i].s[part] = x
DueAll(d, ws, p, v, l) ==
  Due(d, ws, "assignments", p) /\ Due(d, ws, "manifests", v) /\ Due(d, ws, "latest", l)

StorageInv == /\ DOMAIN disk = Part /\ \A p \in Part : disk[p] \in Value[p]
              /\ writes \in Seq(Write)

LEMMA WriteFields ==
  ASSUME NEW w \in Write
  PROVE  w.part \in Part /\ w.by \in Writer /\ w.s[w.part] \in Value[w.part]
<1>1. PICK p \in Part : w \in [part : {p}, by : Writer, s : [{p} -> Value[p]]]
  BY DEF Write
<1>2. w.part = p /\ w.by \in Writer /\ w.s \in [{p} -> Value[p]]
  BY <1>1
<1> QED
  BY <1>2

LEMMA WriteBuilt ==
  ASSUME NEW p \in Part, NEW by \in Writer, NEW s, s[p] \in Value[p]
  PROVE  [part |-> p, by |-> by, s |-> [q \in {p} |-> s[q]]] \in Write
<1>1. [q \in {p} |-> s[q]] \in [{p} -> Value[p]]
  OBVIOUS
<1> QED
  BY <1>1 DEF Write

\* What sync() adds to the writes.
LEMMA Added ==
  ASSUME NEW by \in Writer, NEW p \in Assignments, NEW v \in SUBSET Hash, NEW l \in Hash \cup {NoHash},
         NEW w, w = SyncWrites(by, Snapshot(p, v, l))
  PROVE  /\ w \in Seq(Write) /\ Len(w) = 3
         /\ w[1].part = "manifests" /\ w[1].s["manifests"] = v
         /\ w[2].part = "assignments" /\ w[2].s["assignments"] = p
         /\ w[3].part = "latest" /\ w[3].s["latest"] = l
         /\ \A i \in 1..3 : w[i].by = by
<1> DEFINE s == Snapshot(p, v, l)
           W(part) == [part |-> part, by |-> by, s |-> [q \in {part} |-> s[q]]]
<1>1. w = <<W("manifests"), W("assignments"), W("latest")>>
  BY DEF SyncWrites
<1>2. s["manifests"] = v /\ s["assignments"] = p /\ s["latest"] = l
  BY DEF Snapshot
<1>3. /\ s["manifests"] \in Value["manifests"] /\ s["assignments"] \in Value["assignments"]
      /\ s["latest"] \in Value["latest"]
  BY <1>2 DEF Value
<1>4. {"manifests", "assignments", "latest"} = Part
  BY DEF Part
<1> HIDE DEF s
<1>5. W("manifests") \in Write /\ W("assignments") \in Write /\ W("latest") \in Write
  BY <1>3, <1>4, WriteBuilt
<1> QED
  BY <1>1, <1>2, <1>5

LEMMA Joined ==
  ASSUME NEW x \in Seq(Write), NEW y \in Seq(Write)
  PROVE  /\ x \o y \in Seq(Write) /\ Len(x \o y) = Len(x) + Len(y)
         /\ \A i \in 1 .. Len(x) : (x \o y)[i] = x[i]
         /\ \A i \in 1 .. Len(y) : (x \o y)[Len(x) + i] = y[i]
<1>1. /\ x \o y \in Seq(Write) /\ Len(x \o y) = Len(x) + Len(y)
      /\ \A i \in 1 .. Len(x) + Len(y) : (x \o y)[i] = IF i <= Len(x) THEN x[i] ELSE y[i - Len(x)]
  BY ConcatProperties
<1> QED
  BY <1>1

\* Of a sequence that begins with ws, what three more writes are due to leave.
LEMMA ThreeDue ==
  ASSUME NEW d, NEW n \in Nat, NEW new, DOMAIN new = 1 .. n + 3,
         NEW p, NEW v, NEW l,
         new[n + 1].part = "manifests" /\ new[n + 1].s["manifests"] = v,
         new[n + 2].part = "assignments" /\ new[n + 2].s["assignments"] = p,
         new[n + 3].part = "latest" /\ new[n + 3].s["latest"] = l
  PROVE  DueAll(d, new, p, v, l)
<1>1. n + 1 \in 1 .. n + 3 /\ n + 2 \in 1 .. n + 3 /\ n + 3 \in 1 .. n + 3
  OBVIOUS
<1>2. \A j \in 1 .. n + 3 : j > n + 1 => j = n + 2 \/ j = n + 3
  OBVIOUS
<1>3. LastOf(new, "manifests", n + 1)
  BY <1>1, <1>2 DEF LastOf
<1>4. LastOf(new, "assignments", n + 2)
  BY <1>1 DEF LastOf
<1>5. LastOf(new, "latest", n + 3)
  BY <1>1 DEF LastOf
<1> QED
  BY <1>1, <1>3, <1>4, <1>5 DEF DueAll, Due

\* sync() at work: what it copies will be on the disk.
LEMMA SyncDue ==
  ASSUME NEW d, NEW ws \in Seq(Write), NEW by \in Writer, NEW p \in Assignments,
         NEW v \in SUBSET Hash, NEW l \in Hash \cup {NoHash}
  PROVE  LET new == ws \o SyncWrites(by, Snapshot(p, v, l))
         IN  /\ new \in Seq(Write) /\ DueAll(d, new, p, v, l)
             /\ \A i \in DOMAIN new : i > Len(ws) => new[i].by = by
<1>1. PICK w : w = SyncWrites(by, Snapshot(p, v, l))
  OBVIOUS
<1>2. /\ w \in Seq(Write) /\ Len(w) = 3
      /\ w[1].part = "manifests" /\ w[1].s["manifests"] = v
      /\ w[2].part = "assignments" /\ w[2].s["assignments"] = p
      /\ w[3].part = "latest" /\ w[3].s["latest"] = l
      /\ \A i \in 1..3 : w[i].by = by
  BY <1>1, Added
<1>3. PICK n \in Nat : n = Len(ws)
  OBVIOUS
<1>4. PICK new : new = ws \o w
  OBVIOUS
<1>5. /\ new \in Seq(Write) /\ DOMAIN new = 1 .. n + 3
      /\ \A i \in 1..3 : new[n + i] = w[i]
  <2>1. /\ ws \o w \in Seq(Write) /\ Len(ws \o w) = Len(ws) + Len(w)
        /\ \A i \in 1 .. Len(w) : (ws \o w)[Len(ws) + i] = w[i]
    BY <1>2, Joined
  <2> QED
    BY <1>2, <1>3, <1>4, <2>1
<1>6. new[n + 1] = w[1] /\ new[n + 2] = w[2] /\ new[n + 3] = w[3]
  BY <1>5
<1>7. DueAll(d, new, p, v, l)
  BY <1>2, <1>3, <1>5, <1>6, ThreeDue
<1>8. \A i \in DOMAIN new : i > Len(ws) => new[i].by = by
  <2>1. SUFFICES ASSUME NEW i \in 1 .. n + 3, i > n PROVE new[i].by = by
    BY <1>3, <1>5
  <2>2. i = n + 1 \/ i = n + 2 \/ i = n + 3
    BY <1>3, <2>1
  <2> QED
    BY <1>2, <1>6, <2>2
<1> QED
  BY <1>1, <1>4, <1>5, <1>7, <1>8

\* A write lands: the sequence z without its element i.
LEMMA Cut ==
  ASSUME NEW ws \in Seq(Write), NEW i \in 1 .. Len(ws)
  PROVE  /\ SubSeq(ws, 1, i - 1) \in Seq(Write) /\ Len(SubSeq(ws, 1, i - 1)) = i - 1
         /\ \A j \in 1 .. i - 1 : SubSeq(ws, 1, i - 1)[j] = ws[j]
         /\ SubSeq(ws, i + 1, Len(ws)) \in Seq(Write) /\ Len(SubSeq(ws, i + 1, Len(ws))) = Len(ws) - i
         /\ \A j \in 1 .. Len(ws) - i : SubSeq(ws, i + 1, Len(ws))[j] = ws[i + j]
<1>1. PICK n \in Nat : n = Len(ws)
  OBVIOUS
<1>2. PICK x, y : x = SubSeq(ws, 1, i - 1) /\ y = SubSeq(ws, i + 1, n)
  OBVIOUS
<1>3. i \in 1 .. n /\ \A j \in 1 .. n : ws[j] \in Write
  BY <1>1
<1>4. /\ x \in Seq(Write) /\ Len(x) = IF 1 <= i - 1 THEN (i - 1) - 1 + 1 ELSE 0
      /\ \A j \in 1 .. (i - 1) - 1 + 1 : x[j] = ws[1 + j - 1]
  BY <1>1, <1>2, <1>3, SubSeqProperties
<1>5. /\ y \in Seq(Write) /\ Len(y) = IF i + 1 <= n THEN n - (i + 1) + 1 ELSE 0
      /\ \A j \in 1 .. n - (i + 1) + 1 : y[j] = ws[(i + 1) + j - 1]
  BY <1>1, <1>2, <1>3, SubSeqProperties
<1>6. /\ Len(x) = i - 1 /\ \A j \in 1 .. i - 1 : x[j] = ws[j]
      /\ Len(y) = n - i /\ \A j \in 1 .. n - i : y[j] = ws[i + j]
  BY <1>1, <1>3, <1>4, <1>5
<1> QED
  BY <1>1, <1>2, <1>4, <1>5, <1>6

LEMMA Landing ==
  ASSUME NEW ws \in Seq(Write), NEW i \in 1 .. Len(ws)
  PROVE  LET new == SubSeq(ws, 1, i - 1) \o SubSeq(ws, i + 1, Len(ws))
         IN  /\ new \in Seq(Write) /\ Len(new) = Len(ws) - 1
             /\ \A j \in 1 .. Len(ws) - 1 : (j < i => new[j] = ws[j]) /\ (j >= i => new[j] = ws[j + 1])
<1>1. PICK n \in Nat : n = Len(ws)
  OBVIOUS
<1>2. PICK x, y : x = SubSeq(ws, 1, i - 1) /\ y = SubSeq(ws, i + 1, Len(ws))
  OBVIOUS
<1>3. /\ x \in Seq(Write) /\ Len(x) = i - 1
      /\ \A j \in 1 .. i - 1 : x[j] = ws[j]
      /\ y \in Seq(Write) /\ Len(y) = n - i
      /\ \A j \in 1 .. n - i : y[j] = ws[i + j]
  BY <1>1, <1>2, Cut
<1>4. PICK z : z = x \o y
  OBVIOUS
<1>5. i \in 1 .. n /\ i - 1 \in Nat /\ n - i \in Nat /\ (i - 1) + (n - i) = n - 1
  BY <1>1
<1>6. /\ z \in Seq(Write) /\ Len(z) = (i - 1) + (n - i)
      /\ \A j \in 1 .. i - 1 : z[j] = x[j]
      /\ \A j \in 1 .. n - i : z[(i - 1) + j] = y[j]
  <2>1. /\ x \o y \in Seq(Write) /\ Len(x \o y) = Len(x) + Len(y)
        /\ \A j \in 1 .. Len(x) : (x \o y)[j] = x[j]
        /\ \A j \in 1 .. Len(y) : (x \o y)[Len(x) + j] = y[j]
    BY <1>3, Joined
  <2> QED
    BY <1>3, <1>4, <2>1
<1>7. ASSUME NEW j \in 1 .. n - 1, j >= i PROVE z[j] = ws[j + 1]
  <2>1. j - (i - 1) \in 1 .. n - i /\ (i - 1) + (j - (i - 1)) = j /\ i + (j - (i - 1)) = j + 1
    BY <1>5, <1>7
  <2>2. z[(i - 1) + (j - (i - 1))] = y[j - (i - 1)] /\ y[j - (i - 1)] = ws[i + (j - (i - 1))]
    BY <1>3, <1>6, <2>1
  <2> QED
    BY <2>1, <2>2
<1>8. \A j \in 1 .. n - 1 : j < i => j \in 1 .. i - 1
  BY <1>5
<1>9. \A j \in 1 .. n - 1 : (j < i => z[j] = ws[j]) /\ (j >= i => z[j] = ws[j + 1])
  BY <1>3, <1>6, <1>7, <1>8
<1>10. z \in Seq(Write) /\ Len(z) = n - 1
  BY <1>5, <1>6
<1> QED
  BY <1>1, <1>2, <1>4, <1>9, <1>10

LEMMA LandingDue ==
  ASSUME DOMAIN disk = Part, writes \in Seq(Write), NEW part \in Part, NEW i \in 1 .. Len(writes),
         writes[i].part = part, \A j \in 1 .. i - 1 : writes[j].part # part,
         writes' \in Seq(Write), Len(writes') = Len(writes) - 1,
         \A j \in 1 .. Len(writes) - 1 : (j < i => writes'[j] = writes[j]) /\ (j >= i => writes'[j] = writes[j + 1]),
         disk' = [disk EXCEPT ![part] = writes[i].s[part]]
  PROVE  \A x : \A q \in Part : Due(disk, writes, q, x) => Due(disk', writes', q, x)
<1> SUFFICES ASSUME NEW q \in Part, NEW x, Due(disk, writes, q, x)
             PROVE  Due(disk', writes', q, x)
  OBVIOUS
<1>1. PICK n \in Nat : n = Len(writes)
  OBVIOUS
<1>2. DOMAIN writes = 1 .. n /\ i \in 1 .. n
  BY <1>1
<1>3. Len(writes') = n - 1
  BY <1>1
<1>4. DOMAIN writes' = 1 .. n - 1
  BY <1>3
<1>5. \A j \in 1 .. n - 1 : (j < i => writes'[j] = writes[j]) /\ (j >= i => writes'[j] = writes[j + 1])
  BY <1>1
<1>6. /\ n \in Nat /\ DOMAIN writes = 1 .. n /\ DOMAIN writes' = 1 .. n - 1 /\ i \in 1 .. n
      /\ \A j \in 1 .. n - 1 : (j < i => writes'[j] = writes[j]) /\ (j >= i => writes'[j] = writes[j + 1])
  BY <1>2, <1>4, <1>5
<1>7. CASE disk[q] = x /\ \A j \in 1 .. n : writes[j].part # q
  <2>1. q # part /\ disk'[q] = x
    BY <1>6, <1>7
  <2>2. \A j \in 1 .. n - 1 : j \in 1 .. n /\ j + 1 \in 1 .. n /\ (j < i \/ j >= i)
    BY <1>6
  <2>3. \A j \in 1 .. n - 1 : writes'[j].part # q
    BY <1>6, <1>7, <2>2
  <2> QED
    BY <1>6, <2>1, <2>3 DEF Due
<1>8. ASSUME NEW k \in 1 .. n, LastOf(writes, q, k), writes[k].s[q] = x PROVE Due(disk', writes', q, x)
  <2>1. writes[k].part = q /\ \A j \in 1 .. n : j > k => writes[j].part # q
    BY <1>6, <1>8 DEF LastOf
  <2>2. CASE k < i
    <3>1. k \in 1 .. n - 1 /\ writes'[k] = writes[k]
      BY <1>6, <2>2
    <3>2. ASSUME NEW j \in 1 .. n - 1, j > k PROVE writes'[j].part # q
      <4>1. /\ j \in 1 .. n /\ j + 1 \in 1 .. n /\ j + 1 > k
            /\ writes'[j] = writes[j] \/ writes'[j] = writes[j + 1]
        BY <1>6, <3>2
      <4> QED
        BY <1>6, <2>1, <3>2, <4>1
    <3>3. LastOf(writes', q, k) /\ writes'[k].s[q] = x
      BY <1>6, <1>8, <2>1, <3>1, <3>2 DEF LastOf
    <3> QED
      BY <1>6, <3>1, <3>3 DEF Due
  <2>3. CASE k > i
    <3>1. k - 1 \in 1 .. n - 1 /\ k - 1 >= i /\ (k - 1) + 1 = k
      BY <1>6, <2>3
    <3>2. writes'[k - 1] = writes[k]
      BY <1>6, <3>1
    <3>3. ASSUME NEW j \in 1 .. n - 1, j > k - 1 PROVE writes'[j].part # q
      <4>1. j + 1 \in 1 .. n /\ j + 1 > k /\ writes'[j] = writes[j + 1]
        BY <1>6, <2>3, <3>3
      <4> QED
        BY <1>6, <2>1, <4>1
    <3>4. LastOf(writes', q, k - 1) /\ writes'[k - 1].s[q] = x
      BY <1>6, <1>8, <2>1, <3>1, <3>2, <3>3 DEF LastOf
    <3> QED
      BY <1>6, <3>1, <3>4 DEF Due
  <2>4. CASE k = i
    <3>1. q = part /\ disk'[q] = x
      BY <1>6, <1>8, <2>1, <2>4
    <3>2. ASSUME NEW j \in 1 .. n - 1 PROVE writes'[j].part # q
      <4>1. CASE j < i
        <5>1. j \in 1 .. i - 1 /\ writes'[j] = writes[j]
          BY <1>6, <4>1
        <5> QED
          BY <1>6, <3>1, <5>1
      <4>2. CASE j >= i
        <5>1. j + 1 \in 1 .. n /\ j + 1 > k /\ writes'[j] = writes[j + 1]
          BY <1>6, <2>4, <4>2
        <5> QED
          BY <1>6, <2>1, <5>1
      <4> QED
        BY <1>6, <4>1, <4>2
    <3> QED
      BY <1>6, <3>1, <3>2 DEF Due
  <2> QED
    BY <1>6, <2>2, <2>3, <2>4
<1> QED
  BY <1>6, <1>7, <1>8 DEF Due

-------------------------------------------------------------------------------
(***************************************************************************)
(* The invariant for any number of checks.  Before initialize() is over     *)
(* nothing is loaded, pinned or scheduled, and only initialize() writes;   *)
(* what is past `init` has found it successful.                            *)
(***************************************************************************)
Booting == initialized \in {"no", "reading", "saving"}

MemoryInv ==
  /\ state \in {"NORMAL", "EXISTING_CLIENTS_ONLY", "SAFE_MODE"}
  /\ initialized \in {"no", "reading", "saving", "ok", "failed"}
  /\ versions \in [Loaded -> Nat] /\ Loaded \subseteq Hash
  /\ pins \in [Pinned -> Hash] /\ Pinned \subseteq Client
  /\ latest \in Hash \cup {NoHash}
  /\ tasks \subseteq {PostLoad, NavCheck} \cup {InitTask(h) : h \in Hash}
  /\ Booting => tasks = {} /\ Loaded = {}
  /\ initialized # "ok" => Pinned = {} /\ \A h \in Hash : InitTask(h) \notin tasks
  /\ initialized = "ok" => latest \in Hash

\* One event, with the progress of initialize().
EventInv(r, progress) ==
  /\ r \in EventRecord
  /\ r.pc \notin {"idle", "init"} => progress = "ok"
  /\ r.pc = "getClient" => r.client \in Client /\ r.nav = TRUE
  /\ r.kind = "activate" => r.client \in Client
EventsInv == event \in [Event -> EventRecord] /\ \A e \in Event : EventInv(event[e], initialized)

ChecksInv == /\ check \in [Check -> CheckRecord]
             /\ \A k \in Check : check[k].pc = "install" => check[k].hash \in Hash
             /\ Booting => \A k \in Check : check[k].pc \in {"idle", "init"}

TableInv ==
  /\ StorageInv
  /\ Booting => registered = TRUE
  /\ initialized \in {"no", "reading"} => writes = <<>>
  /\ initialized = "saving" => /\ \A i \in DOMAIN writes : writes[i].by = Boot
                               /\ \E h \in Hash : DueAll(disk, writes, NoPins, {h}, h)

WorldInv == /\ clients \in [Client -> {"new", "open", "closed"}]
            /\ server \in Hash /\ registered \in BOOLEAN
            /\ deploys \in 0..MaxDeploy /\ restarts \in 0..MaxRestart /\ doomed \in BOOLEAN

IInv == MemoryInv /\ EventsInv /\ ChecksInv /\ TableInv /\ WorldInv

LEMMA InitHolds == Init => IInv
<1> SUFFICES ASSUME Init PROVE IInv
  OBVIOUS
<1>1. MemoryInv
  BY DEF Init, MemoryInv, Booting, NoVersions, NoPins, Loaded, Pinned
<1>2. EventsInv
  <2>1. ASSUME NEW r, r = NoEvent PROVE EventInv(r, "no")
    BY <2>1 DEF NoEvent, EventInv, EventRecord, Pc
  <2>2. NoEvent \in EventRecord
    BY <2>1 DEF EventInv
  <2> QED
    BY <2>1, <2>2 DEF Init, EventsInv
<1>3. ChecksInv
  <2>1. NoCheck \in CheckRecord /\ NoCheck.pc = "idle"
    BY DEF NoCheck, CheckRecord, Pc
  <2> QED
    BY <2>1 DEF Init, ChecksInv
<1>4. TableInv
  <2>1. DOMAIN EmptyDisk = Part /\ EmptyDisk["manifests"] = {}
        /\ EmptyDisk["assignments"] = NeverWritten /\ EmptyDisk["latest"] = NoHash
    BY DEF EmptyDisk, Part
  <2>2. \A p \in Part : EmptyDisk[p] \in Value[p]
    BY <2>1 DEF Value, Part
  <2>3. <<>> \in Seq(Write)
    OBVIOUS
  <2> QED
    BY <2>1, <2>2, <2>3 DEF Init, TableInv, StorageInv, Booting
<1>5. WorldInv
  <2>1. doomed \in BOOLEAN /\ registered \in BOOLEAN
    BY DEF Init
  <2> QED
    BY <2>1, NamesAssumption DEF Init, WorldInv
<1> QED
  BY <1>1, <1>2, <1>3, <1>4, <1>5 DEF IInv

-------------------------------------------------------------------------------
(***************************************************************************)
(* What leaves a part of the invariant alone, or changes one entry.        *)
(***************************************************************************)
LEMMA MemoryKept ==
  ASSUME MemoryInv, UNCHANGED memory
  PROVE  MemoryInv'
BY DEF MemoryInv, memory, Booting, Loaded, Pinned

LEMMA EventsKept ==
  ASSUME EventsInv, event' = event, initialized = "ok" => initialized' = "ok"
  PROVE  EventsInv'
BY DEF EventsInv, EventInv

LEMMA EventMoved ==
  ASSUME EventsInv, initialized = "ok" => initialized' = "ok",
         NEW e \in Event, NEW r, EventInv(r, initialized'), event' = [event EXCEPT ![e] = r]
  PROVE  EventsInv'
<1>1. r \in EventRecord /\ event' \in [Event -> EventRecord]
  BY DEF EventsInv, EventInv
<1>2. ASSUME NEW f \in Event PROVE EventInv(event'[f], initialized')
  <2>1. CASE f = e
    BY <2>1 DEF EventsInv
  <2>2. CASE f # e
    <3>1. event'[f] = event[f]
      BY <2>2 DEF EventsInv
    <3> QED
      BY <3>1 DEF EventsInv, EventInv
  <2> QED
    BY <2>1, <2>2
<1> QED
  BY <1>1, <1>2 DEF EventsInv

LEMMA ChecksKept ==
  ASSUME ChecksInv, check' = check, Booting' => Booting
  PROVE  ChecksInv'
BY DEF ChecksInv

LEMMA CheckChanged ==
  ASSUME ChecksInv, Booting' => Booting,
         NEW k \in Check, check' = [check EXCEPT ![k] = check'[k]], check'[k] \in CheckRecord,
         check'[k].pc = "install" => check'[k].hash \in Hash,
         Booting' => check'[k].pc \in {"idle", "init"}
  PROVE  ChecksInv'
<1>1. PICK r \in CheckRecord : r = check'[k]
  OBVIOUS
<1>2. check' = [check EXCEPT ![k] = r]
  BY <1>1
<1>3. check' \in [Check -> CheckRecord] /\ \A j \in Check : j # k => check'[j] = check[j]
  BY <1>1, <1>2 DEF ChecksInv
<1> QED
  BY <1>3 DEF ChecksInv

LEMMA TableKept ==
  ASSUME TableInv, UNCHANGED <<disk, writes, registered, initialized>>
  PROVE  TableInv'
BY DEF TableInv, StorageInv, Booting

LEMMA WorldKept ==
  ASSUME WorldInv, UNCHANGED <<world, registered>>
  PROVE  WorldInv'
BY DEF WorldInv, world

\* sync() once initialize() is over.
LEMMA Syncs ==
  ASSUME TableInv, ~Booting', disk' = disk,
         NEW by \in Writer, NEW p \in Assignments, NEW v \in SUBSET Hash, NEW l \in Hash \cup {NoHash},
         Sync(by, p, v, l)
  PROVE  TableInv' /\ DueAll(disk', writes', p, v, l)
<1>1. writes \in Seq(Write)
  BY DEF TableInv, StorageInv
<1>2. writes' = writes \o SyncWrites(by, Snapshot(p, v, l))
  BY DEF Sync
<1>3. writes' \in Seq(Write) /\ DueAll(disk', writes', p, v, l)
  BY <1>1, <1>2, SyncDue
<1> QED
  BY <1>3 DEF TableInv, StorageInv, Booting

-------------------------------------------------------------------------------
(***************************************************************************)
(* initialize().                                                           *)
(***************************************************************************)
\* The first event of a worker's life begins to initialize it.
LEMMA Starting ==
  ASSUME MemoryInv, TableInv, Started, UNCHANGED <<state, versions, pins, latest, tasks>>,
         UNCHANGED <<disk, writes, registered>>
  PROVE  /\ MemoryInv' /\ TableInv' /\ (Booting' <=> Booting)
         /\ initialized = "ok" => initialized' = "ok"
         /\ initialized \in {"ok", "failed"} \/ initialized' \in {"reading", "saving"}
<1>1. initialized' = IF initialized = "no" THEN "reading" ELSE initialized
  BY DEF Started
<1>2. initialized \in {"no", "reading", "saving", "ok", "failed"}
  BY DEF MemoryInv
<1>3. (Booting' <=> Booting) /\ (initialized' = "ok" <=> initialized = "ok")
  BY <1>1, <1>2 DEF Booting
<1>4. MemoryInv'
  BY <1>1, <1>2, <1>3 DEF MemoryInv, Loaded, Pinned
<1>5. TableInv'
  BY <1>1, <1>2, <1>3 DEF TableInv, StorageInv
<1> QED
  BY <1>1, <1>2, <1>3, <1>4, <1>5

LEMMA ActivateKeeps == IInv /\ Activate => IInv'
<1> SUFFICES ASSUME IInv, Activate PROVE IInv'
  OBVIOUS
<1>1. /\ MemoryInv' /\ TableInv' /\ (Booting' <=> Booting)
      /\ initialized = "ok" => initialized' = "ok"
  BY Starting DEF IInv, Activate
<1>2. EventsInv'
  BY <1>1, EventsKept DEF IInv, Activate
<1>3. ChecksInv'
  BY <1>1, ChecksKept DEF IInv, Activate
<1>4. WorldInv'
  BY WorldKept DEF IInv, Activate
<1> QED
  BY <1>1, <1>2, <1>3, <1>4 DEF IInv

\* What is hydrated has its types, and initialize() is over.
LEMMA HydrateKeeps ==
  ASSUME MemoryInv, Booting, NEW m \in SUBSET Hash, NEW a \in Assignments, NEW h \in m,
         NEW s \in SUBSET {PostLoad}, Hydrate(m, a, h, s)
  PROVE  /\ MemoryInv' /\ ~Booting'
         /\ initialized' = "ok" =>
              /\ Loaded' = m /\ latest' = h
              /\ pins' = [c \in DOMAIN a |-> IF a[c] \in m THEN a[c] ELSE h]
<1>1. PICK C \in SUBSET Client : a \in [C -> Hash]
  BY DEF Assignments
<1>2. CASE m \cap Bad = {}
  <2>1. /\ versions' = [x \in m |-> 0] /\ latest' = h /\ initialized' = "ok" /\ state' = state
        /\ pins' = [c \in DOMAIN a |-> IF a[c] \in m THEN a[c] ELSE h]
        /\ tasks' = tasks \cup s \cup {InitTask(x) : x \in m}
    BY <1>2 DEF Hydrate
  <2>2. Loaded' = m /\ versions' \in [Loaded' -> Nat]
    BY <2>1 DEF Loaded
  <2>3. Pinned' = C /\ pins' \in [Pinned' -> Hash]
    BY <1>1, <2>1 DEF Pinned
  <2>4. tasks' \subseteq {PostLoad, NavCheck} \cup {InitTask(x) : x \in Hash}
    BY <2>1 DEF MemoryInv
  <2> QED
    BY <2>1, <2>2, <2>3, <2>4 DEF MemoryInv, Booting
<1>3. CASE m \cap Bad # {}
  <2>1. /\ \E built \in SUBSET (m \ Bad) : versions' = [x \in built |-> 0]
        /\ tasks' = tasks \cup s /\ state' = "SAFE_MODE" /\ initialized' = "failed"
        /\ pins' = pins /\ latest' = latest
    BY <1>3 DEF Hydrate, SafeMode
  <2>2. Loaded' \subseteq Hash /\ versions' \in [Loaded' -> Nat]
    BY <2>1 DEF Loaded
  <2>3. initialized # "ok" /\ Pinned' = {} /\ pins' \in [Pinned' -> Hash] /\ Pinned' \subseteq Client
    BY <2>1 DEF MemoryInv, Booting, Pinned
  <2>4. tasks' \subseteq {PostLoad, NavCheck} /\ \A x : InitTask(x) \notin {PostLoad}
    BY <2>1 DEF MemoryInv, PostLoad, InitTask
  <2>5. tasks = {}
    BY DEF MemoryInv
  <2> QED
    BY <2>1, <2>2, <2>3, <2>4, <2>5 DEF MemoryInv, Booting
<1> QED
  BY <1>2, <1>3

LEMMA Hydrated ==
  ASSUME IInv, UNCHANGED <<event, check, disk, writes, world, registered>>,
         MemoryInv', Booting, ~Booting'
  PROVE  IInv'
<1>1. initialized # "ok"
  BY DEF Booting
<1>2. EventsInv'
  BY <1>1, EventsKept DEF IInv
<1>3. ChecksInv'
  BY ChecksKept DEF IInv
<1>4. TableInv'
  BY DEF IInv, TableInv, StorageInv, Booting
<1>5. WorldInv'
  BY WorldKept DEF IInv
<1> QED
  BY <1>2, <1>3, <1>4, <1>5 DEF IInv

\* What is on a usable disk.
LEMMA UsableDisk ==
  ASSUME StorageInv, DiskUsable
  PROVE  /\ disk.manifests \in SUBSET Hash /\ disk.assignments \in Assignments
         /\ disk.latest \in disk.manifests
<1>1. "manifests" \in Part /\ "assignments" \in Part
  BY DEF Part
<1>2. disk["manifests"] \in SUBSET Hash /\ disk["assignments"] \in Assignments \cup {NeverWritten}
  BY <1>1 DEF StorageInv, Value
<1> QED
  BY <1>2 DEF DiskUsable

\* After the first sync() the disk holds the manifest that was fetched.
LEMMA FirstSaved ==
  ASSUME TableInv, initialized = "saving", Synced(Boot)
  PROVE  /\ disk.manifests \in SUBSET Hash /\ disk.assignments = NoPins
         /\ disk.latest \in disk.manifests /\ writes = <<>>
<1>1. \A i \in DOMAIN writes : writes[i].by = Boot /\ writes[i].by # Boot
  BY DEF TableInv, Synced
<1>2. PICK h \in Hash : DueAll(disk, writes, NoPins, {h}, h)
  BY DEF TableInv
<1>3. disk["assignments"] = NoPins /\ disk["manifests"] = {h} /\ disk["latest"] = h
  BY <1>1, <1>2 DEF DueAll, Due
<1>4. writes = <<>>
  BY <1>1 DEF TableInv, StorageInv
<1> QED
  BY <1>3, <1>4

LEMMA NoPinsType == NoPins \in Assignments /\ DOMAIN NoPins = {}
<1>1. NoPins \in [{} -> Hash]
  BY DEF NoPins
<1> QED
  BY <1>1 DEF Assignments

LEMMA BootFromDiskKeeps == IInv /\ BootFromDisk => IInv'
<1> SUFFICES ASSUME IInv, BootFromDisk PROVE IInv'
  OBVIOUS
<1>1. Booting
  BY DEF BootFromDisk, Booting
<1>2. /\ disk.manifests \in SUBSET Hash /\ disk.assignments \in Assignments
      /\ disk.latest \in disk.manifests
  BY UsableDisk DEF IInv, TableInv, BootFromDisk
<1>3. Hydrate(disk.manifests, disk.assignments, disk.latest, {PostLoad})
  BY DEF BootFromDisk
<1>4. MemoryInv' /\ ~Booting'
  BY <1>1, <1>2, <1>3, HydrateKeeps DEF IInv
<1> QED
  BY <1>1, <1>4, Hydrated DEF BootFromDisk

LEMMA BootSavedKeeps == IInv /\ BootSaved => IInv'
<1> SUFFICES ASSUME IInv, BootSaved PROVE IInv'
  OBVIOUS
<1>1. Booting
  BY DEF BootSaved, Booting
<1>2. /\ disk.manifests \in SUBSET Hash /\ disk.assignments \in Assignments
      /\ disk.latest \in disk.manifests
  <2>1. TableInv /\ initialized = "saving" /\ Synced(Boot)
    BY DEF IInv, BootSaved
  <2> QED
    BY <2>1, FirstSaved, NoPinsType
<1>3. Hydrate(disk.manifests, disk.assignments, disk.latest, {})
  BY DEF BootSaved
<1>4. MemoryInv' /\ ~Booting'
  <2>1. MemoryInv /\ {} \in SUBSET {PostLoad}
    BY DEF IInv
  <2> QED
    BY <1>1, <1>2, <1>3, <2>1, HydrateKeeps
<1> QED
  BY <1>1, <1>4, Hydrated DEF BootSaved

LEMMA BootFetchesKeeps == IInv /\ BootFetches => IInv'
<1> SUFFICES ASSUME IInv, BootFetches PROVE IInv'
  OBVIOUS
<1>1. /\ initialized = "reading" /\ initialized' = "saving" /\ disk' = disk
      /\ Sync(Boot, NoPins, {server}, server) /\ registered' = registered
  BY DEF BootFetches
<1>2. writes = <<>> /\ registered = TRUE /\ server \in Hash /\ writes \in Seq(Write)
  BY <1>1 DEF IInv, TableInv, StorageInv, Booting, WorldInv
<1>3. /\ writes' \in Seq(Write) /\ DueAll(disk', writes', NoPins, {server}, server)
      /\ \A i \in DOMAIN writes' : writes'[i].by = Boot
  <2>1. Boot \in Writer /\ {server} \in SUBSET Hash /\ server \in Hash \cup {NoHash}
    BY <1>2 DEF Writer
  <2>2. writes' = writes \o SyncWrites(Boot, Snapshot(NoPins, {server}, server))
    BY <1>1 DEF Sync
  <2> QED
    <3>1. PICK p \in Assignments : p = NoPins
      BY NoPinsType
    <3>2. PICK v \in SUBSET Hash : v = {server}
      BY <2>1
    <3>3. PICK l \in Hash \cup {NoHash} : l = server
      BY <2>1
    <3>4. writes' = writes \o SyncWrites(Boot, Snapshot(p, v, l))
      BY <2>2, <3>1, <3>2, <3>3
    <3>5. Boot \in Writer /\ writes \in Seq(Write)
      BY <1>2, <2>1
    <3>6. writes' \in Seq(Write) /\ DueAll(disk', writes', p, v, l)
      BY <3>4, <3>5, SyncDue
    <3>7. \A i \in DOMAIN writes' : i > Len(writes) => writes'[i].by = Boot
      BY <3>4, <3>5, <3>6, SyncDue
    <3>8. Len(writes) = 0 /\ \A i \in DOMAIN writes' : i \in Nat /\ i > 0
      BY <1>2, <3>6
    <3> QED
      BY <3>1, <3>2, <3>3, <3>6, <3>7, <3>8
<1>4. TableInv'
  BY <1>1, <1>2, <1>3 DEF IInv, TableInv, StorageInv
<1>5. MemoryInv'
  BY <1>1 DEF IInv, MemoryInv, BootFetches, Booting, Loaded, Pinned
<1>6. EventsInv'
  BY <1>1, EventsKept DEF IInv, BootFetches
<1>7. ChecksInv'
  BY <1>1, ChecksKept DEF IInv, BootFetches, Booting
<1>8. WorldInv'
  BY WorldKept DEF IInv, BootFetches
<1> QED
  BY <1>4, <1>5, <1>6, <1>7, <1>8 DEF IInv

\* A 404 empties the disk and takes the registration with it.
LEMMA Emptied ==
  ASSUME WorldInv, TableInv, writes' = writes, UNCHANGED world, ~Booting',
         UNCHANGED <<disk, registered>> \/ (disk' = EmptyDisk /\ registered' = FALSE)
  PROVE  TableInv' /\ WorldInv'
<1>1. /\ DOMAIN EmptyDisk = Part /\ EmptyDisk["manifests"] = {}
      /\ EmptyDisk["assignments"] = NeverWritten /\ EmptyDisk["latest"] = NoHash
  BY DEF EmptyDisk, Part
<1>2. \A p \in Part : EmptyDisk[p] \in Value[p]
  BY <1>1 DEF Value, Part
<1>3. StorageInv'
  BY <1>1, <1>2 DEF TableInv, StorageInv
<1> QED
  BY <1>3 DEF TableInv, WorldInv, world, Booting

LEMMA BootFetchFailsKeeps == IInv /\ BootFetchFails => IInv'
<1> SUFFICES ASSUME IInv, BootFetchFails PROVE IInv'
  OBVIOUS
<1>1. /\ initialized = "reading" /\ initialized' = "failed" /\ state' = "SAFE_MODE"
      /\ UNCHANGED <<versions, pins, latest, tasks, event, check, writes, world>>
      /\ UNCHANGED <<disk, registered>> \/ (disk' = EmptyDisk /\ registered' = FALSE)
  BY DEF BootFetchFails, SafeMode
<1>2. ~Booting'
  BY <1>1 DEF Booting
<1>3. TableInv' /\ WorldInv'
  BY <1>1, <1>2, Emptied DEF IInv
<1>4. MemoryInv'
  BY <1>1 DEF IInv, MemoryInv, Booting, Loaded, Pinned
<1>5. EventsInv'
  BY <1>1, EventsKept DEF IInv
<1>6. ChecksInv'
  BY <1>1, <1>2, ChecksKept DEF IInv
<1> QED
  BY <1>3, <1>4, <1>5, <1>6 DEF IInv

\* A write lands, or is lost if its table was deleted.
LEMMA LandsDue ==
  ASSUME TableInv, NEW part \in Part, Lands(part)
  PROVE  /\ TableInv'
         /\ registered = TRUE => \A p, v, l : DueAll(disk, writes, p, v, l) => DueAll(disk', writes', p, v, l)
<1>1. PICK i \in DOMAIN writes :
        /\ writes[i].part = part
        /\ \A j \in 1..(i - 1) : writes[j].part # part
        /\ disk' = IF registered THEN [disk EXCEPT ![part] = writes[i].s[part]] ELSE disk
        /\ writes' = SubSeq(writes, 1, i - 1) \o SubSeq(writes, i + 1, Len(writes))
        /\ UNCHANGED <<initialized, registered>>
  BY DEF Lands, memory
<1>2. writes \in Seq(Write) /\ DOMAIN disk = Part /\ \A p \in Part : disk[p] \in Value[p]
  BY DEF TableInv, StorageInv
<1>3. PICK n \in Nat : n = Len(writes)
  BY <1>2
<1>4. i \in 1 .. n /\ DOMAIN writes = 1 .. n
  BY <1>2, <1>3
<1>5. i \in 1 .. Len(writes)
  BY <1>3, <1>4
<1>6. LET new == SubSeq(writes, 1, i - 1) \o SubSeq(writes, i + 1, Len(writes))
      IN  /\ new \in Seq(Write) /\ Len(new) = Len(writes) - 1
          /\ \A j \in 1 .. Len(writes) - 1 : (j < i => new[j] = writes[j]) /\ (j >= i => new[j] = writes[j + 1])
  BY <1>2, <1>5, Landing
<1>7. /\ writes' \in Seq(Write) /\ Len(writes') = Len(writes) - 1
      /\ \A j \in 1 .. Len(writes) - 1 : (j < i => writes'[j] = writes[j]) /\ (j >= i => writes'[j] = writes[j + 1])
  BY <1>1, <1>6
<1>8. /\ writes' \in Seq(Write) /\ DOMAIN writes' = 1 .. n - 1
      /\ \A j \in 1 .. n - 1 : (j < i => writes'[j] = writes[j]) /\ (j >= i => writes'[j] = writes[j + 1])
  BY <1>3, <1>7
<1>9. writes[i].s[part] \in Value[part]
  BY <1>1, <1>2, WriteFields
<1>10. StorageInv'
  BY <1>1, <1>2, <1>8, <1>9 DEF StorageInv
<1>11. ASSUME registered = TRUE
       PROVE  \A x : \A q \in Part : Due(disk, writes, q, x) => Due(disk', writes', q, x)
  <2>1. disk' = [disk EXCEPT ![part] = writes[i].s[part]]
    BY <1>1, <1>11
  <2>2. writes[i].part = part /\ \A j \in 1 .. i - 1 : writes[j].part # part
    BY <1>1
  <2> QED
    BY <1>2, <1>5, <1>7, <2>1, <2>2, LandingDue
<1>12. registered = TRUE => \A p, v, l : DueAll(disk, writes, p, v, l) => DueAll(disk', writes', p, v, l)
  BY <1>11 DEF DueAll, Part
<1>13. ASSUME \A j \in DOMAIN writes : writes[j].by = Boot
       PROVE  \A j \in DOMAIN writes' : writes'[j].by = Boot
  <2> SUFFICES ASSUME NEW j \in 1 .. n - 1 PROVE writes'[j].by = Boot
    BY <1>8
  <2>1. j \in 1 .. n /\ j + 1 \in 1 .. n /\ (j < i \/ j >= i)
    BY <1>3, <1>4
  <2>2. CASE j < i
    <3>1. writes'[j] = writes[j]
      BY <1>8, <2>2
    <3> QED
      BY <1>4, <1>13, <2>1, <3>1
  <2>3. CASE j >= i
    <3>1. writes'[j] = writes[j + 1]
      BY <1>8, <2>3
    <3> QED
      BY <1>4, <1>13, <2>1, <3>1
  <2> QED
    BY <2>1, <2>2, <2>3
<1>14. initialized \notin {"no", "reading"}
  BY <1>1 DEF TableInv
<1>15. TableInv'
  BY <1>1, <1>10, <1>12, <1>13, <1>14 DEF TableInv, Booting
<1> QED
  BY <1>12, <1>15

LEMMA LandsKeeps ==
  ASSUME IInv, NEW part \in Part, Lands(part)
  PROVE  IInv'
<1>1. UNCHANGED <<memory, event, check, world, registered>>
  BY DEF Lands
<1> QED
  BY <1>1, LandsDue, MemoryKept, EventsKept, ChecksKept, WorldKept DEF IInv, memory, Booting

-------------------------------------------------------------------------------
(***************************************************************************)
(* The events.  Repins: pins are only dropped or moved to the latest        *)
(* version, and what has changed will be on the disk.                      *)
(***************************************************************************)
Repins ==
  \/ pins' = pins /\ writes' = writes
  \/ /\ pins' \in Assignments
     /\ \A c \in DOMAIN pins' : pins'[c] = latest \/ (c \in Pinned /\ pins'[c] = pins[c])
     /\ DueAll(disk', writes', pins', Loaded, latest)

AsBefore == UNCHANGED <<initialized, versions, latest, check, disk, registered>>

LEMMA EventChanged ==
  ASSUME EventsInv, initialized = "ok" => initialized' = "ok",
         NEW e \in Event, event' = [event EXCEPT ![e] = event'[e]], EventInv(event'[e], initialized')
  PROVE  EventsInv'
<1>1. PICK r : r = event'[e]
  OBVIOUS
<1> QED
  BY <1>1, EventMoved

LEMMA EndsEvent ==
  ASSUME EventsInv, initialized' = initialized, NEW e \in Event, Ends(e)
  PROVE  EventsInv'
<1>1. PICK r : r = NoEvent
  OBVIOUS
<1>2. EventInv(r, initialized')
  BY <1>1 DEF NoEvent, EventInv, EventRecord, Pc
<1> QED
  BY <1>1, <1>2, EventMoved DEF Ends

LEMMA ServesEvent ==
  ASSUME MemoryInv, EventsInv, initialized = "ok", initialized' = "ok", NEW e \in Event, NEW h, Serves(e, h)
  PROVE  EventsInv'
<1>1. CASE h \in Loaded
  <2>1. event[e] \in EventRecord /\ (event[e].kind = "activate" => event[e].client \in Client)
    BY DEF EventsInv, EventInv
  <2>2. h \in Hash /\ versions[h] \in Nat
    BY <1>1 DEF MemoryInv
  <2>3. event' = [event EXCEPT ![e].pc = "serve", ![e].nav = FALSE,
                               ![e].ver = h, ![e].app = versions[h]]
    BY <1>1 DEF Serves
  <2>4. event \in [Event -> EventRecord]
    BY DEF EventsInv
  <2>5. event'[e] = [pc |-> "serve", kind |-> event[e].kind, client |-> event[e].client,
                     nav |-> FALSE, ver |-> h, app |-> versions[h]]
    BY <2>1, <2>3, <2>4 DEF EventRecord
  <2>6. EventInv(event'[e], initialized')
    BY <2>1, <2>2, <2>5 DEF EventInv, EventRecord, Pc
  <2>7. event' = [event EXCEPT ![e] = event'[e]]
    BY <2>3, <2>4
  <2> QED
    BY <2>6, <2>7, EventChanged
<1>2. CASE h \notin Loaded
  BY <1>2, EndsEvent DEF Serves
<1> QED
  BY <1>1, <1>2

LEMMA WaitsEvent ==
  ASSUME EventsInv, initialized = "ok", initialized' = "ok", NEW e \in Event,
         NEW pc \in {"getClient", "pinSync", "updateSync"}, Waits(e, pc),
         pc = "getClient" => event[e].client \in Client /\ event[e].nav = TRUE
  PROVE  EventsInv' /\ event'[e].pc = pc
<1>1. event[e] \in EventRecord /\ (event[e].kind = "activate" => event[e].client \in Client)
  BY DEF EventsInv, EventInv
<1>2. event' = [event EXCEPT ![e].pc = pc, ![e].nav = event[e].nav /\ pc = "getClient"]
  BY DEF Waits
<1>3. event \in [Event -> EventRecord]
  BY DEF EventsInv
<1>4. event'[e] = [pc |-> pc, kind |-> event[e].kind, client |-> event[e].client,
                   nav |-> (event[e].nav /\ pc = "getClient"), ver |-> event[e].ver, app |-> event[e].app]
  BY <1>1, <1>2, <1>3 DEF EventRecord
<1>5. PICK b \in BOOLEAN : b = (event[e].nav /\ pc = "getClient")
  OBVIOUS
<1>6. pc = "getClient" => b = TRUE
  BY <1>5
<1>7. EventInv(event'[e], initialized')
  BY <1>1, <1>4, <1>5, <1>6 DEF EventInv, EventRecord, Pc
<1>8. event' = [event EXCEPT ![e] = event'[e]]
  BY <1>2, <1>3
<1> QED
  BY <1>4, <1>7, <1>8, EventChanged

\* What is pinned once initialize() has succeeded.
LEMMA PinsType ==
  ASSUME MemoryInv
  PROVE  pins \in Assignments /\ Loaded \in SUBSET Hash /\ (initialized = "ok" => latest \in Hash)
BY DEF MemoryInv, Assignments

LEMMA Repinned ==
  ASSUME MemoryInv, TableInv, initialized = "ok",
         UNCHANGED <<initialized, versions, latest, disk, registered>>,
         state' \in {"NORMAL", "EXISTING_CLIENTS_ONLY", "SAFE_MODE"},
         tasks' \subseteq tasks \cup {NavCheck}, pins' \in Assignments,
         NEW by \in Writer, Sync(by, pins', Loaded, latest)
  PROVE  MemoryInv' /\ TableInv' /\ DueAll(disk', writes', pins', Loaded, latest)
<1>1. PICK p \in Assignments : p = pins'
  OBVIOUS
<1>2. Loaded \in SUBSET Hash /\ latest \in Hash \cup {NoHash}
  BY PinsType DEF MemoryInv
<1>3. ~Booting' /\ disk' = disk
  BY DEF Booting
<1>4. Sync(by, p, Loaded, latest)
  BY <1>1
<1>5. TableInv' /\ DueAll(disk', writes', p, Loaded, latest)
  BY <1>2, <1>3, <1>4, Syncs
<1>6. Pinned' \subseteq Client /\ pins' \in [Pinned' -> Hash]
  BY <1>1 DEF Assignments, Pinned
<1>7. MemoryInv'
  BY <1>6 DEF MemoryInv, Booting, Loaded
<1> QED
  BY <1>1, <1>5, <1>7

LEMMA OnLatest ==
  ASSUME MemoryInv, initialized = "ok", NEW c \in Client, pins' = With(pins, c, latest)
  PROVE  /\ pins' \in Assignments
         /\ \A d \in DOMAIN pins' : pins'[d] = latest \/ (d \in Pinned /\ pins'[d] = pins[d])
         /\ \A d \in Pinned : d # c => pins'[d] = pins[d]
<1>1. pins \in [Pinned -> Hash] /\ Pinned \subseteq Client /\ latest \in Hash
  BY DEF MemoryInv
<1>2. pins' = [d \in Pinned \cup {c} |-> IF d = c THEN latest ELSE pins[d]]
  BY DEF With, Pinned
<1>3. pins' \in [Pinned \cup {c} -> Hash]
  BY <1>1, <1>2
<1> QED
  BY <1>1, <1>2, <1>3 DEF Assignments

\* assignVersion() and updateClient() put a client on the latest version.
LEMMA PinToLatestKeeps ==
  ASSUME IInv, initialized = "ok", AsBefore, state' = state, tasks' \subseteq tasks \cup {NavCheck},
         NEW e \in Event, NEW c \in Client, NEW pc \in {"pinSync", "updateSync"}, PinToLatest(e, c, pc)
  PROVE  /\ MemoryInv' /\ EventsInv' /\ TableInv' /\ Repins /\ event'[e].pc = pc
         /\ \A d \in Pinned : d # c => pins'[d] = pins[d]
<1>1. /\ pins' = With(pins, c, latest) /\ Sync(e, pins', Loaded, latest) /\ Waits(e, pc)
      /\ initialized' = "ok"
  BY DEF PinToLatest, AsBefore
<1>2. /\ pins' \in Assignments
      /\ \A d \in DOMAIN pins' : pins'[d] = latest \/ (d \in Pinned /\ pins'[d] = pins[d])
      /\ \A d \in Pinned : d # c => pins'[d] = pins[d]
  BY <1>1, OnLatest DEF IInv
<1>3. EventsInv' /\ event'[e].pc = pc
  BY <1>1, WaitsEvent DEF IInv
<1>4. e \in Writer /\ state' \in {"NORMAL", "EXISTING_CLIENTS_ONLY", "SAFE_MODE"}
  BY DEF Writer, IInv, MemoryInv
<1>5. MemoryInv' /\ TableInv' /\ DueAll(disk', writes', pins', Loaded, latest)
  BY <1>1, <1>2, <1>4, Repinned DEF IInv, AsBefore
<1> QED
  BY <1>2, <1>3, <1>5 DEF Repins

LEMMA MemoryLeft ==
  ASSUME MemoryInv, initialized' = initialized, UNCHANGED <<versions, pins, latest>>,
         state' \in {"NORMAL", "EXISTING_CLIENTS_ONLY", "SAFE_MODE"},
         tasks' \subseteq tasks \cup {NavCheck}, Booting => tasks' = {}
  PROVE  MemoryInv'
<1>1. \A h : InitTask(h) # NavCheck
  BY DEF InitTask, NavCheck
<1> QED
  BY <1>1 DEF MemoryInv, Booting, Loaded, Pinned

LEMMA UpdateClientKeeps ==
  ASSUME IInv, initialized = "ok", AsBefore, UNCHANGED <<state, tasks>>,
         NEW e \in Event, NEW c \in Client, UpdateClient(e, c)
  PROVE  /\ MemoryInv' /\ EventsInv' /\ TableInv' /\ Repins
         /\ pins' = pins \/ event'[e].pc = "updateSync"
         /\ \A d \in Pinned : d # c => pins'[d] = pins[d]
<1>1. MemoryInv /\ EventsInv /\ TableInv /\ initialized' = "ok" /\ initialized' = initialized
  BY DEF IInv, AsBefore
<1>2. ASSUME UNCHANGED <<pins, writes>>, EventsInv'
      PROVE  MemoryInv' /\ EventsInv' /\ TableInv' /\ Repins /\ pins' = pins
  <2>1. MemoryInv'
    BY <1>1, <1>2, MemoryKept DEF memory, AsBefore
  <2>2. TableInv'
    BY <1>1, <1>2, TableKept DEF AsBefore
  <2> QED
    BY <1>2, <2>1, <2>2 DEF Repins
<1>3. CASE c \in Pinned /\ pins[c] = latest
  <2>1. Serves(e, latest) \/ Ends(e)
    BY <1>3 DEF UpdateClient
  <2>2. EventsInv'
    BY <1>1, <2>1, ServesEvent, EndsEvent
  <2> QED
    BY <1>2, <1>3, <2>2 DEF UpdateClient
<1>4. CASE ~(c \in Pinned /\ pins[c] = latest) /\ c \in Pinned /\ pins[c] \notin Loaded
  <2>1. Ends(e) /\ UNCHANGED <<pins, writes>>
    BY <1>4 DEF UpdateClient
  <2>2. EventsInv'
    BY <1>1, <2>1, EndsEvent
  <2> QED
    BY <1>2, <2>1, <2>2
<1>5. CASE ~(c \in Pinned /\ pins[c] = latest) /\ ~(c \in Pinned /\ pins[c] \notin Loaded)
  <2>1. PinToLatest(e, c, "updateSync")
    BY <1>5 DEF UpdateClient
  <2>2. tasks' \subseteq tasks \cup {NavCheck} /\ state' = state
    OBVIOUS
  <2>3. "updateSync" \in {"pinSync", "updateSync"}
    OBVIOUS
  <2> QED
    BY <2>1, <2>2, <2>3, PinToLatestKeeps
<1> QED
  BY <1>3, <1>4, <1>5

\* versionFailed(): only pins of the broken version change.
LEMMA VersionFailedKeeps ==
  ASSUME MemoryInv, TableInv, initialized = "ok",
         UNCHANGED <<initialized, versions, latest, disk, registered>>, tasks' \subseteq tasks,
         NEW h, NEW app, NEW by \in Writer, VersionFailed(h, app, by)
  PROVE  /\ MemoryInv' /\ TableInv' /\ Repins
         /\ \A c \in Pinned : c \in DOMAIN pins' /\ pins'[c] # pins[c] => pins[c] = h /\ pins'[c] = latest
<1>1. /\ pins \in [Pinned -> Hash] /\ Pinned \subseteq Client /\ latest \in Hash
      /\ state \in {"NORMAL", "EXISTING_CLIENTS_ONLY", "SAFE_MODE"}
      /\ tasks' \subseteq tasks \cup {NavCheck} /\ ~Booting
  BY DEF MemoryInv, Booting
<1>2. CASE UNCHANGED <<state, pins, writes>>
  <2>1. MemoryInv'
    BY <1>1, <1>2, MemoryLeft
  <2>2. TableInv'
    BY <1>2, TableKept
  <2> QED
    BY <1>2, <2>1, <2>2 DEF Repins
<1>3. ASSUME Sync(by, pins', Loaded, latest), state' \in {"EXISTING_CLIENTS_ONLY", state},
             NEW C \in SUBSET Pinned, DOMAIN pins' = C,
             \A c \in C : IF pins[c] = h THEN pins'[c] = latest ELSE pins'[c] = pins[c],
             pins' = [c \in C |-> pins'[c]]
      PROVE  /\ MemoryInv' /\ TableInv' /\ Repins
             /\ \A c \in Pinned : c \in DOMAIN pins' /\ pins'[c] # pins[c] => pins[c] = h /\ pins'[c] = latest
  <2>1. pins' \in [C -> Hash] /\ C \in SUBSET Client
    BY <1>1, <1>3
  <2>2. pins' \in Assignments
    BY <2>1 DEF Assignments
  <2>3. state' \in {"NORMAL", "EXISTING_CLIENTS_ONLY", "SAFE_MODE"}
    BY <1>1, <1>3
  <2>4. MemoryInv' /\ TableInv' /\ DueAll(disk', writes', pins', Loaded, latest)
    BY <1>1, <1>3, <2>2, <2>3, Repinned
  <2> QED
    BY <1>3, <2>2, <2>4 DEF Repins
<1>4. CASE h \in Loaded /\ versions[h] = app /\ h = latest
  <2>1. /\ state' = "EXISTING_CLIENTS_ONLY" /\ pins' = Restricted(pins, Pinned \ Of(h))
        /\ Sync(by, pins', Loaded, latest)
    BY <1>4 DEF VersionFailed
  <2>2. pins' = [c \in Pinned \ Of(h) |-> pins[c]]
    <3>1. DOMAIN pins \cap (Pinned \ Of(h)) = Pinned \ Of(h)
      BY DEF Pinned
    <3> QED
      BY <2>1, <3>1 DEF Restricted
  <2>3. \A c \in Pinned \ Of(h) : pins[c] # h /\ pins'[c] = pins[c]
    BY <2>2 DEF Of
  <2>4. DOMAIN pins' = Pinned \ Of(h) /\ pins' = [c \in Pinned \ Of(h) |-> pins'[c]]
    BY <2>2
  <2> QED
    BY <1>3, <2>1, <2>3, <2>4
<1>5. CASE h \in Loaded /\ versions[h] = app /\ h # latest
  <2>1. /\ state' = state /\ pins' = [c \in Pinned |-> IF c \in Of(h) THEN latest ELSE pins[c]]
        /\ Sync(by, pins', Loaded, latest)
    BY <1>5 DEF VersionFailed
  <2>2. \A c \in Pinned : IF pins[c] = h THEN pins'[c] = latest ELSE pins'[c] = pins[c]
    BY <2>1 DEF Of
  <2>3. DOMAIN pins' = Pinned /\ pins' = [c \in Pinned |-> pins'[c]]
    BY <2>1
  <2> QED
    BY <1>3, <2>1, <2>2, <2>3
<1> QED
  BY <1>2, <1>4, <1>5 DEF VersionFailed

-------------------------------------------------------------------------------
(***************************************************************************)
(* The steps of an event.                                                  *)
(***************************************************************************)
LEMMA Arrived ==
  ASSUME IInv, NEW e \in Event, NEW r, EventInv(r, "no"), event' = [event EXCEPT ![e] = r], Started,
         UNCHANGED <<state, versions, pins, latest, tasks, check, disk, writes, world, registered>>
  PROVE  IInv'
<1>1. /\ MemoryInv' /\ TableInv' /\ (Booting' <=> Booting)
      /\ initialized = "ok" => initialized' = "ok"
  BY Starting DEF IInv
<1>2. EventInv(r, initialized')
  BY DEF EventInv
<1>3. EventsInv'
  BY <1>1, <1>2, EventMoved DEF IInv
<1>4. ChecksInv' /\ WorldInv'
  BY <1>1, ChecksKept, WorldKept DEF IInv
<1> QED
  BY <1>1, <1>3, <1>4 DEF IInv

LEMMA ArrivesKeeps ==
  ASSUME IInv, NEW e \in Event, Arrives(e)
  PROVE  /\ IInv' /\ UNCHANGED <<versions, pins, latest, check, disk, writes, registered>>
         /\ initialized = "ok" <=> initialized' = "ok"
<1>1. /\ Started
      /\ UNCHANGED <<state, versions, pins, latest, tasks, check, disk, writes, world, registered>>
  BY DEF Arrives, FetchArrives, ActivateArrives
<1>2. CASE \E c \in Client \cup {NoClient}, nav \in BOOLEAN : FetchArrives(e, c, nav)
  <2>1. PICK c \in Client \cup {NoClient}, nav \in BOOLEAN : FetchArrives(e, c, nav)
    BY <1>2
  <2>2. PICK r : r = [NoEvent EXCEPT !.pc = "init", !.client = c, !.nav = nav]
    OBVIOUS
  <2>3. EventInv(r, "no")
    BY <2>2 DEF NoEvent, EventInv, EventRecord, Pc
  <2>4. event' = [event EXCEPT ![e] = r]
    BY <2>1, <2>2 DEF FetchArrives
  <2> QED
    BY <1>1, <2>3, <2>4, Arrived DEF Started
<1>3. CASE \E c \in Client : ActivateArrives(e, c)
  <2>1. PICK c \in Client : ActivateArrives(e, c)
    BY <1>3
  <2>2. PICK r : r = [NoEvent EXCEPT !.pc = "init", !.kind = "activate", !.client = c]
    OBVIOUS
  <2>3. EventInv(r, "no")
    BY <2>2 DEF NoEvent, EventInv, EventRecord, Pc
  <2>4. event' = [event EXCEPT ![e] = r]
    BY <2>1, <2>2 DEF ActivateArrives
  <2> QED
    BY <1>1, <2>3, <2>4, Arrived DEF Started
<1> QED
  BY <1>2, <1>3 DEF Arrives

\* An event that leaves memory and the disk alone.
LEMMA OnlyTheEvent ==
  ASSUME IInv, UNCHANGED <<memory, check, disk, writes, world, registered>>, EventsInv'
  PROVE  IInv' /\ AsBefore /\ Repins
BY MemoryKept, TableKept, ChecksKept, WorldKept DEF IInv, memory, AsBefore, Repins, Booting

\* One that does not.
LEMMA TheRest ==
  ASSUME IInv, AsBefore, UNCHANGED world, MemoryInv', EventsInv', TableInv'
  PROVE  IInv'
BY ChecksKept, WorldKept DEF IInv, AsBefore, Booting

LEMMA ActivateProceedsKeeps ==
  ASSUME IInv, NEW e \in Event, ActivateProceeds(e)
  PROVE  /\ IInv' /\ AsBefore /\ Repins
         /\ \A c \in Pinned : Moved(c) => pins'[c] = latest /\ Asks(e, c)
<1>1. /\ initialized = "ok" /\ UNCHANGED <<state, tasks>> /\ UNCHANGED world /\ AsBefore
      /\ UpdateClient(e, event[e].client)
  BY DEF ActivateProceeds, AsBefore
<1>2. event[e].client \in Client
  BY DEF ActivateProceeds, IInv, EventsInv, EventInv
<1>3. PICK c \in Client : c = event[e].client
  BY <1>2
<1>4. /\ MemoryInv' /\ EventsInv' /\ TableInv' /\ Repins
      /\ pins' = pins \/ event'[e].pc = "updateSync"
      /\ \A d \in Pinned : d # c => pins'[d] = pins[d]
  BY <1>1, <1>3, UpdateClientKeeps
<1>5. ASSUME NEW d \in Pinned, Moved(d) PROVE pins'[d] = latest /\ Asks(e, d)
  <2>1. d = c /\ pins'[d] = latest /\ event'[e].pc = "updateSync"
    BY <1>4, <1>5 DEF Moved, Repins
  <2> QED
    BY <1>3, <2>1 DEF Asks, ActivateProceeds
<1> QED
  BY <1>1, <1>4, <1>5, TheRest

LEMMA GetClientKeeps ==
  ASSUME IInv, NEW e \in Event, GetClient(e)
  PROVE  /\ IInv' /\ AsBefore /\ Repins
         /\ \A c \in Pinned : Moved(c) => pins'[c] = latest /\ Asks(e, c)
<1>1. UNCHANGED <<state, tasks>> /\ UNCHANGED world /\ AsBefore
  BY DEF GetClient, AsBefore
<1>2. event[e].client \in Client /\ event[e].nav = TRUE /\ initialized = "ok"
  BY DEF GetClient, EventIs, IInv, EventsInv, EventInv
<1>3. CASE UpdateClient(e, event[e].client)
  <2>1. PICK c \in Client : c = event[e].client
    BY <1>2
  <2>2. /\ MemoryInv' /\ EventsInv' /\ TableInv' /\ Repins
        /\ pins' = pins \/ event'[e].pc = "updateSync"
        /\ \A d \in Pinned : d # c => pins'[d] = pins[d]
    BY <1>1, <1>2, <1>3, <2>1, UpdateClientKeeps
  <2>3. ASSUME NEW d \in Pinned, Moved(d) PROVE pins'[d] = latest /\ Asks(e, d)
    <3>1. d = c /\ pins'[d] = latest /\ event'[e].pc = "updateSync"
      BY <2>2, <2>3 DEF Moved, Repins
    <3> QED
      BY <1>2, <2>1, <3>1 DEF Asks
  <2> QED
    BY <1>1, <2>2, <2>3, TheRest
<1>4. CASE Ends(e) /\ UNCHANGED <<pins, writes>>
  <2>1. UNCHANGED <<memory, check, disk, writes, world, registered>>
    BY <1>1, <1>4 DEF AsBefore, memory
  <2>2. EventsInv'
    BY <1>1, <1>4, EndsEvent DEF IInv, AsBefore
  <2>3. \A c \in Pinned : ~Moved(c)
    BY <1>4 DEF Moved
  <2> QED
    BY <2>1, <2>2, <2>3, OnlyTheEvent
<1> QED
  BY <1>3, <1>4 DEF GetClient

LEMMA FetchProceedsKeeps ==
  ASSUME IInv, NEW e \in Event, FetchProceeds(e)
  PROVE  /\ IInv' /\ AsBefore /\ Repins
         /\ \A c \in Pinned : pins'[c] = pins[c]
<1>1. PICK c : c = event[e].client
  OBVIOUS
<1>2. /\ AsBefore /\ state' = state /\ UNCHANGED world /\ tasks' \subseteq tasks \cup {NavCheck}
      /\ initialized = "ok" /\ initialized' = "ok" /\ initialized' = initialized
  BY DEF FetchProceeds, AsBefore
<1>3. MemoryInv /\ EventsInv /\ TableInv /\ ~Booting
      /\ state' \in {"NORMAL", "EXISTING_CLIENTS_ONLY", "SAFE_MODE"}
  BY <1>2 DEF IInv, MemoryInv, Booting
<1>4. ASSUME UNCHANGED <<pins, writes>>, EventsInv'
      PROVE  IInv' /\ AsBefore /\ Repins /\ \A d \in Pinned : pins'[d] = pins[d]
  <2>1. MemoryInv'
    BY <1>2, <1>3, <1>4, MemoryLeft DEF AsBefore
  <2>2. TableInv'
    BY <1>2, <1>3, <1>4, TableKept DEF AsBefore
  <2>3. IInv'
    BY <1>2, <1>4, <2>1, <2>2, TheRest
  <2> QED
    BY <1>2, <1>4, <2>3 DEF Repins
<1>5. CASE c \in Pinned /\ MayUpdate(e) /\ Waits(e, "getClient") /\ UNCHANGED <<pins, writes>>
  <2>1. c \in Client
    BY <1>3, <1>5 DEF MemoryInv
  <2>2. event[e] \in EventRecord
    BY <1>3 DEF EventsInv
  <2>3. event[e].nav = TRUE
    BY <1>5, <2>2 DEF MayUpdate, EventRecord
  <2>4. EventsInv'
    BY <1>1, <1>2, <1>3, <1>5, <2>1, <2>3, WaitsEvent
  <2> QED
    BY <1>4, <1>5, <2>4
<1>6. ASSUME NEW h, Serves(e, h), UNCHANGED <<pins, writes>>
      PROVE  IInv' /\ AsBefore /\ Repins /\ \A d \in Pinned : pins'[d] = pins[d]
  <2>1. EventsInv'
    BY <1>2, <1>3, <1>6, ServesEvent
  <2> QED
    BY <1>4, <1>6, <2>1
<1>7. CASE Ends(e) /\ UNCHANGED <<pins, writes>>
  <2>1. EventsInv'
    BY <1>2, <1>3, <1>7, EndsEvent
  <2> QED
    BY <1>4, <1>7, <2>1
<1>8. CASE c \in Client \ Pinned /\ PinToLatest(e, c, "pinSync")
  <2>1. PICK d \in Client : d = c
    BY <1>8
  <2>2. PICK pc \in {"pinSync", "updateSync"} : pc = "pinSync"
    OBVIOUS
  <2>3. PinToLatest(e, d, pc)
    BY <1>8, <2>1, <2>2
  <2>4. /\ MemoryInv' /\ EventsInv' /\ TableInv' /\ Repins
        /\ \A x \in Pinned : x # d => pins'[x] = pins[x]
    BY <1>2, <2>3, PinToLatestKeeps
  <2> QED
    BY <1>2, <1>8, <2>1, <2>4, TheRest
<1> QED
  <2>1. \/ c \in Pinned /\ MayUpdate(e) /\ Waits(e, "getClient") /\ UNCHANGED <<pins, writes>>
        \/ Serves(e, pins[c]) /\ UNCHANGED <<pins, writes>>
        \/ Ends(e) /\ UNCHANGED <<pins, writes>>
        \/ c \in Client \ Pinned /\ PinToLatest(e, c, "pinSync")
        \/ Serves(e, latest) /\ UNCHANGED <<pins, writes>>
    BY <1>1 DEF FetchProceeds
  <2> QED
    BY <1>5, <1>6, <1>7, <1>8, <2>1

LEMMA ServeIsCriticalKeeps ==
  ASSUME IInv, NEW e \in Event, ServeIsCritical(e)
  PROVE  /\ IInv' /\ AsBefore /\ Repins
         /\ \A c \in Pinned : c \in DOMAIN pins' /\ pins'[c] # pins[c]
                                => pins[c] = event[e].ver /\ pins'[c] = latest
<1>1. /\ AsBefore /\ UNCHANGED world /\ tasks' \subseteq tasks
      /\ VersionFailed(event[e].ver, event[e].app, e)
      /\ event' = [event EXCEPT ![e] = [NoEvent EXCEPT !.pc = "failSync"]]
  BY DEF ServeIsCritical, AsBefore
<1>2. initialized = "ok"
  BY DEF ServeIsCritical, EventIs, IInv, EventsInv, EventInv
<1>3. PICK h, app : h = event[e].ver /\ app = event[e].app
  OBVIOUS
<1>4. /\ MemoryInv' /\ TableInv' /\ Repins
      /\ \A c \in Pinned : c \in DOMAIN pins' /\ pins'[c] # pins[c] => pins[c] = h /\ pins'[c] = latest
  BY <1>1, <1>2, <1>3, VersionFailedKeeps DEF IInv, AsBefore, Writer
<1>5. PICK r : r = [NoEvent EXCEPT !.pc = "failSync"]
  OBVIOUS
<1>6. EventInv(r, "ok")
  BY <1>5 DEF NoEvent, EventInv, EventRecord, Pc
<1>7. event' = [event EXCEPT ![e] = r] /\ initialized' = "ok"
  BY <1>1, <1>2, <1>5 DEF AsBefore
<1>8. EventsInv'
  BY <1>6, <1>7, EventMoved DEF IInv
<1> QED
  BY <1>1, <1>3, <1>4, <1>8, TheRest

LEMMA HandlesKeeps ==
  ASSUME IInv, NEW e \in Event, Handles(e)
  PROVE  IInv' /\ AsBefore /\ Repins
<1>1. CASE InitRejects(e) \/ Served(e) \/ FailureSaved(e)
  <2>1. Ends(e) /\ UNCHANGED <<memory, check, disk, writes, world, registered>>
    BY <1>1 DEF InitRejects, Served, FailureSaved
  <2>2. EventsInv'
    BY <2>1, EndsEvent DEF IInv, memory
  <2> QED
    BY <2>1, <2>2, OnlyTheEvent
<1>2. CASE PinSaved(e)
  <2>1. /\ Serves(e, latest) \/ Ends(e)
        /\ UNCHANGED <<memory, check, disk, writes, world, registered>>
    BY <1>2 DEF PinSaved
  <2>2. initialized = "ok" /\ initialized' = initialized
    BY <1>2, <2>1 DEF PinSaved, IInv, EventsInv, EventInv, memory
  <2>3. EventsInv'
    BY <2>1, <2>2, EndsEvent, ServesEvent DEF IInv
  <2> QED
    BY <2>1, <2>3, OnlyTheEvent
<1> QED
  BY <1>1, <1>2, ActivateProceedsKeeps, FetchProceedsKeeps, GetClientKeeps, ServeIsCriticalKeeps DEF Handles

\* The idle task initialization(h), which finds the version of h broken or not.
LEMMA InitTaskRunsKeeps ==
  ASSUME IInv, NEW h \in Hash, InitTaskRuns(h)
  PROVE  /\ IInv' /\ AsBefore /\ Repins
         /\ \A c \in Pinned : c \in DOMAIN pins' /\ pins'[c] # pins[c] => pins[c] = h /\ pins'[c] = latest
<1>1. /\ AsBefore /\ UNCHANGED <<event, world>> /\ tasks' \subseteq tasks
      /\ UNCHANGED <<state, pins, writes>> \/ VersionFailed(h, 0, Boot)
      /\ InitTask(h) \in tasks
  BY DEF InitTaskRuns, AsBefore
<1>2. initialized = "ok" /\ ~Booting /\ state \in {"NORMAL", "EXISTING_CLIENTS_ONLY", "SAFE_MODE"}
  BY <1>1 DEF IInv, MemoryInv, Booting
<1>3. /\ MemoryInv' /\ TableInv' /\ Repins
      /\ \A c \in Pinned : c \in DOMAIN pins' /\ pins'[c] # pins[c] => pins[c] = h /\ pins'[c] = latest
  <2>1. CASE UNCHANGED <<state, pins, writes>>
    <3>1. MemoryInv'
      BY <1>1, <1>2, <2>1, MemoryLeft DEF IInv, AsBefore
    <3>2. TableInv'
      BY <1>1, <2>1, TableKept DEF IInv, AsBefore
    <3> QED
      BY <2>1, <3>1, <3>2 DEF Repins
  <2>2. CASE VersionFailed(h, 0, Boot)
    BY <1>1, <1>2, <2>2, VersionFailedKeeps DEF IInv, AsBefore, Writer
  <2> QED
    BY <1>1, <2>1, <2>2
<1>4. EventsInv'
  BY <1>1, EventsKept DEF IInv, AsBefore
<1> QED
  BY <1>1, <1>3, <1>4, TheRest

-------------------------------------------------------------------------------
(***************************************************************************)
(* The steps of an update check and of the cleanup after it.                *)
(***************************************************************************)
\* There are more numbers than events that could still refer to one.
LEMMA FreshType ==
  ASSUME NEW h
  PROVE  Fresh(h) \in Nat
<1> DEFINE n == Cardinality(Event) + 1
           app == [e \in Event |-> event[e].app]
           used == {event[e].app : e \in Event}
<1>1. IsFiniteSet(Event) /\ Cardinality(Event) \in Nat
  BY NamesAssumption, FS_CardinalityType
<1>2. IsFiniteSet(used) /\ Cardinality(used) <= Cardinality(Event)
  <2>1. app \in Surjection(Event, used)
    BY DEF Surjection
  <2> QED
    BY <1>1, <2>1, FS_Surjection
<1>3. \E m \in 1 .. n : m \notin used
  <2> SUFFICES ASSUME 1 .. n \subseteq used PROVE FALSE
    OBVIOUS
  <2>1. Cardinality(1 .. n) <= Cardinality(used) /\ Cardinality(used) \in Nat
    BY <1>2, FS_Subset, FS_CardinalityType
  <2>2. Cardinality(1 .. n) = n
    <3>1. 1 \in Int /\ n \in Int /\ ~(1 > n)
      BY <1>1
    <3>2. Cardinality(1 .. n) = n - 1 + 1
      BY <3>1, FS_Interval
    <3> QED
      BY <3>1, <3>2
  <2> QED
    BY <1>1, <1>2, <2>1, <2>2
<1>4. \E m \in 1 .. n : \A e \in Event : event[e].ver = h => event[e].app # m
  BY <1>3
<1>5. Fresh(h) \in 1 .. n
  BY <1>4 DEF Fresh
<1> QED
  BY <1>1, <1>5

LEMMA EndedCheck ==
  ASSUME ChecksInv, Booting' => Booting, ~Booting', NEW k \in Check, CheckEnds(k)
  PROVE  ChecksInv' /\ check'[k].pc \in {"idle", "matchAll"}
<1>1. check \in [Check -> CheckRecord]
  BY DEF ChecksInv
<1>2. PICK r : r = IF check[k].kind = "postLoad"
                   THEN [NoCheck EXCEPT !.pc = "matchAll", !.kind = "postLoad"]
                   ELSE NoCheck
  OBVIOUS
<1>3. r \in CheckRecord /\ r.pc \in {"idle", "matchAll"}
  BY <1>2 DEF NoCheck, CheckRecord, Pc
<1>4. check' = [check EXCEPT ![k] = r]
  BY <1>2 DEF CheckEnds
<1>5. check'[k] = r /\ check' = [check EXCEPT ![k] = check'[k]]
  BY <1>1, <1>4
<1> QED
  BY <1>3, <1>5, CheckChanged

LEMMA MovedCheck ==
  ASSUME ChecksInv, Booting' => Booting, NEW k \in Check, NEW pc \in Pc.check, Moves(k, pc),
         pc # "install", Booting' => pc \in {"idle", "init"}
  PROVE  ChecksInv'
<1>1. check \in [Check -> CheckRecord] /\ check[k] \in CheckRecord
  BY DEF ChecksInv
<1>2. check' = [check EXCEPT ![k].pc = pc]
  BY DEF Moves
<1>3. check'[k] = [pc |-> pc, kind |-> check[k].kind, hash |-> check[k].hash,
                   active |-> check[k].active, obsolete |-> check[k].obsolete]
  BY <1>1, <1>2 DEF CheckRecord
<1>4. check'[k] \in CheckRecord /\ check'[k].pc = pc
  BY <1>1, <1>3 DEF CheckRecord
<1>5. check' = [check EXCEPT ![k] = check'[k]]
  BY <1>1, <1>2
<1> QED
  BY <1>4, <1>5, CheckChanged

\* A check that has begun, or an idle task, finds initialize() over.
LEMMA CheckAfterBoot ==
  ASSUME IInv, NEW k \in Check, check[k].pc \notin {"idle", "init"}
  PROVE  ~Booting
BY DEF IInv, ChecksInv

\* A check that only moves on, or sets the state.
LEMMA OnlyTheCheck ==
  ASSUME IInv, ~Booting, ChecksInv',
         UNCHANGED <<initialized, versions, pins, latest, event, disk, writes, world, registered>>,
         state' \in {state, "EXISTING_CLIENTS_ONLY", "NORMAL"}, tasks' \subseteq tasks
  PROVE  IInv'
<1>1. MemoryInv /\ state' \in {"NORMAL", "EXISTING_CLIENTS_ONLY", "SAFE_MODE"}
      /\ tasks' \subseteq tasks \cup {NavCheck}
  BY DEF IInv, MemoryInv
<1>2. MemoryInv'
  BY <1>1, MemoryLeft
<1> QED
  BY <1>2, EventsKept, TableKept, WorldKept DEF IInv

LEMMA MessageArrivesKeeps ==
  ASSUME IInv, NEW k \in Check, MessageArrives(k)
  PROVE  IInv'
<1>1. /\ Started /\ Moves(k, "init")
      /\ UNCHANGED <<state, versions, pins, latest, tasks, event, disk, writes, world, registered>>
  BY DEF MessageArrives
<1>2. /\ MemoryInv' /\ TableInv' /\ (Booting' <=> Booting)
      /\ initialized = "ok" => initialized' = "ok"
  BY <1>1, Starting DEF IInv
<1>3. EventsInv'
  BY <1>1, <1>2, EventsKept DEF IInv
<1>4. ChecksInv'
  <2>1. "init" \in Pc.check
    BY DEF Pc
  <2> QED
    BY <1>1, <1>2, <2>1, MovedCheck DEF IInv
<1>5. WorldInv'
  BY <1>1, WorldKept DEF IInv
<1> QED
  BY <1>2, <1>3, <1>4, <1>5 DEF IInv

\* The steps that change neither memory nor the disk.
LEMMA QuietCheckKeeps ==
  ASSUME IInv, NEW k \in Check,
         MessageProceeds(k) \/ CheckOffline(k) \/ MatchAll(k) \/ CleanupSaved(k)
  PROVE  IInv'
<1>1. UNCHANGED <<memory, event, disk, writes, world, registered>>
  BY DEF MessageProceeds, CheckOffline, MatchAll, CleanupSaved
<1>2. ~Booting
  <2>1. check[k].pc \notin {"idle", "init"} \/ initialized \in {"ok", "failed"}
    BY DEF MessageProceeds, CheckOffline, MatchAll, CleanupSaved, CheckIs
  <2> QED
    BY <2>1, CheckAfterBoot DEF Booting
<1>3. ~Booting' /\ ChecksInv
  BY <1>1, <1>2 DEF IInv, Booting, memory
<1>4. ChecksInv'
  <2>1. CASE MessageProceeds(k)
    <3>1. PICK pc \in Pc.check : pc # "install" /\ Moves(k, pc)
      BY <2>1 DEF MessageProceeds, Pc
    <3> QED
      BY <1>3, <3>1, MovedCheck
  <2>2. CASE CheckOffline(k)
    BY <1>3, <2>2, EndedCheck DEF CheckOffline
  <2>3. CASE MatchAll(k)
    <3>1. check \in [Check -> CheckRecord] /\ check[k] \in CheckRecord
      BY <1>3 DEF ChecksInv
    <3>2. PICK active \in SUBSET Client : active = {c \in Client : clients[c] = "open"}
      OBVIOUS
    <3>3. check' = [check EXCEPT ![k].pc = "collect", ![k].active = active]
      BY <2>3, <3>2 DEF MatchAll
    <3>4. check'[k] = [pc |-> "collect", kind |-> check[k].kind, hash |-> check[k].hash,
                       active |-> active, obsolete |-> check[k].obsolete]
      BY <3>1, <3>3 DEF CheckRecord
    <3>5. check'[k] \in CheckRecord /\ check'[k].pc = "collect"
      BY <3>1, <3>4 DEF CheckRecord, Pc
    <3>6. check' = [check EXCEPT ![k] = check'[k]]
      BY <3>1, <3>3
    <3> QED
      BY <1>3, <3>5, <3>6, CheckChanged
  <2>4. CASE CleanupSaved(k)
    <3>1. NoCheck \in CheckRecord /\ NoCheck.pc = "idle"
      BY DEF NoCheck, CheckRecord, Pc
    <3>2. PICK r \in CheckRecord : r = NoCheck /\ r.pc = "idle"
      BY <3>1
    <3>3. check' = [check EXCEPT ![k] = r] /\ check \in [Check -> CheckRecord]
      BY <1>3, <2>4, <3>2 DEF CleanupSaved, ChecksInv
    <3>4. check'[k] = r /\ check' = [check EXCEPT ![k] = check'[k]]
      BY <3>3
    <3> QED
      BY <1>3, <3>2, <3>4, CheckChanged
  <2> QED
    BY <2>1, <2>2, <2>3, <2>4
<1> QED
  BY <1>1, <1>2, <1>4, OnlyTheCheck DEF memory

\* An idle task that checks for updates begins.
LEMMA TaskRunsKeeps ==
  ASSUME IInv, NEW k \in Check, TaskRuns(k)
  PROVE  IInv'
<1>1. PICK t \in tasks \cap {PostLoad, NavCheck} :
        /\ tasks' = tasks \ {t}
        /\ check' = [check EXCEPT ![k].pc = "manifest",
                                  ![k].kind = IF t = PostLoad THEN "postLoad" ELSE "other"]
  BY DEF TaskRuns
<1>2. UNCHANGED <<state, initialized, versions, pins, latest, event, disk, writes, world, registered>>
  BY DEF TaskRuns
<1>3. ~Booting /\ ~Booting'
  BY <1>1, <1>2 DEF IInv, MemoryInv, Booting
<1>4. ChecksInv'
  <2>1. check \in [Check -> CheckRecord] /\ check[k] \in CheckRecord
    BY DEF IInv, ChecksInv
  <2>2. PICK kind \in {"other", "postLoad"} : kind = IF t = PostLoad THEN "postLoad" ELSE "other"
    OBVIOUS
  <2>3. check' = [check EXCEPT ![k].pc = "manifest", ![k].kind = kind]
    BY <1>1, <2>2
  <2>4. check'[k] = [pc |-> "manifest", kind |-> kind, hash |-> check[k].hash,
                     active |-> check[k].active, obsolete |-> check[k].obsolete]
    BY <2>1, <2>3 DEF CheckRecord
  <2>5. check'[k] \in CheckRecord /\ check'[k].pc = "manifest"
    BY <2>1, <2>4 DEF CheckRecord, Pc
  <2>6. check' = [check EXCEPT ![k] = check'[k]]
    BY <2>1, <2>3
  <2> QED
    BY <1>3, <2>5, <2>6, CheckChanged DEF IInv
<1> QED
  BY <1>1, <1>2, <1>3, <1>4, OnlyTheCheck

LEMMA ManifestArrivesKeeps ==
  ASSUME IInv, NEW k \in Check, ManifestArrives(k)
  PROVE  IInv'
<1>1. /\ CheckIs(k, "manifest")
      /\ UNCHANGED <<initialized, versions, pins, latest, tasks, event, disk, writes, world, registered>>
  BY DEF ManifestArrives
<1>2. ~Booting /\ ~Booting' /\ ChecksInv
  BY <1>1, CheckAfterBoot DEF CheckIs, IInv, Booting
<1>3. CASE CheckEnds(k) /\ state' \in {state, "EXISTING_CLIENTS_ONLY"}
  <2>1. ChecksInv'
    BY <1>2, <1>3, EndedCheck
  <2> QED
    BY <1>1, <1>2, <1>3, <2>1, OnlyTheCheck
<1>4. CASE state' = state /\ check' = [check EXCEPT ![k].pc = "install", ![k].hash = server]
  <2>1. check \in [Check -> CheckRecord] /\ check[k] \in CheckRecord /\ server \in Hash
    BY DEF IInv, ChecksInv, WorldInv
  <2>2. check'[k] = [pc |-> "install", kind |-> check[k].kind, hash |-> server,
                     active |-> check[k].active, obsolete |-> check[k].obsolete]
    BY <1>4, <2>1 DEF CheckRecord
  <2>3. check'[k] \in CheckRecord /\ check'[k].hash \in Hash
    BY <2>1, <2>2 DEF CheckRecord, Pc
  <2>4. check' = [check EXCEPT ![k] = check'[k]]
    BY <1>4, <2>1
  <2>5. ChecksInv'
    BY <1>2, <2>3, <2>4, CheckChanged
  <2> QED
    BY <1>1, <1>2, <1>4, <2>5, OnlyTheCheck
<1> QED
  BY <1>3, <1>4 DEF ManifestArrives, UpdateFails

LEMMA ManifestRejectedKeeps ==
  ASSUME IInv, NEW k \in Check, ManifestRejected(k)
  PROVE  IInv'
<1>1. /\ CheckIs(k, "manifest") /\ UpdateFails(k)
      /\ UNCHANGED <<disk, registered>> \/ (disk' = EmptyDisk /\ registered' = FALSE)
      /\ UNCHANGED <<initialized, versions, pins, latest, tasks, event, writes, world>>
  BY DEF ManifestRejected
<1>2. ~Booting /\ ~Booting'
  BY <1>1, CheckAfterBoot DEF CheckIs, Booting
<1>3. TableInv' /\ WorldInv'
  BY <1>1, <1>2, Emptied DEF IInv
<1>4. ChecksInv'
  BY <1>1, <1>2, EndedCheck DEF IInv, UpdateFails
<1>5. state' \in {"NORMAL", "EXISTING_CLIENTS_ONLY", "SAFE_MODE"} /\ tasks' \subseteq tasks \cup {NavCheck}
  BY <1>1 DEF UpdateFails
<1>6. MemoryInv'
  BY <1>1, <1>2, <1>5, MemoryLeft DEF IInv
<1>7. EventsInv'
  BY <1>1, EventsKept DEF IInv
<1> QED
  BY <1>3, <1>4, <1>6, <1>7 DEF IInv

LEMMA InstalledKeeps ==
  ASSUME IInv, NEW k \in Check, Installed(k)
  PROVE  /\ IInv' /\ DueAll(disk', writes', pins, Loaded', latest')
         /\ Loaded' = Loaded \cup {latest'}
<1>1. /\ CheckIs(k, "install")
      /\ versions' = With(versions, check[k].hash, Fresh(check[k].hash)) /\ latest' = check[k].hash
      /\ state' = IF state = "EXISTING_CLIENTS_ONLY" THEN "NORMAL" ELSE state
      /\ Sync(k, pins, Loaded', latest')
      /\ check' = [check EXCEPT ![k].pc = "saved", ![k].hash = NoHash]
      /\ UNCHANGED <<initialized, pins, tasks, event, disk, clients, server, deploys, restarts, registered>>
      /\ doomed' \in BOOLEAN
  BY DEF Installed, Loaded
<1>2. ~Booting /\ ~Booting' /\ ChecksInv /\ MemoryInv /\ TableInv
  BY <1>1, CheckAfterBoot DEF CheckIs, IInv, Booting
<1>3. PICK h \in Hash : h = check[k].hash
  BY <1>1, <1>2 DEF ChecksInv, CheckIs
<1>4. PICK n \in Nat : n = Fresh(h)
  BY FreshType
<1>5. versions \in [Loaded -> Nat] /\ Loaded \subseteq Hash
  BY <1>2 DEF MemoryInv
<1>6. versions' = [x \in Loaded \cup {h} |-> IF x = h THEN n ELSE versions[x]]
  BY <1>1, <1>3, <1>4 DEF With, Loaded
<1>7. Loaded' = Loaded \cup {h} /\ versions' \in [Loaded' -> Nat]
  BY <1>5, <1>6 DEF Loaded
<1>8. state' \in {"NORMAL", "EXISTING_CLIENTS_ONLY", "SAFE_MODE"}
  BY <1>1, <1>2 DEF MemoryInv
<1>9. MemoryInv'
  <2>1. latest' \in Hash /\ Loaded' \subseteq Hash /\ pins' = pins /\ tasks' = tasks /\ initialized' = initialized
    BY <1>1, <1>3, <1>5, <1>7
  <2> QED
    BY <1>2, <1>7, <1>8, <2>1 DEF MemoryInv, Pinned, Booting
<1>10. TableInv' /\ DueAll(disk', writes', pins, Loaded', latest')
  <2>1. PICK p \in Assignments, v \in SUBSET Hash, l \in Hash \cup {NoHash} :
          p = pins /\ v = Loaded' /\ l = latest'
    <3>1. pins \in Assignments /\ Loaded' \in SUBSET Hash /\ latest' \in Hash \cup {NoHash}
      BY <1>1, <1>2, <1>3, <1>5, <1>7, PinsType
    <3> QED
      BY <3>1
  <2>2. Sync(k, p, v, l) /\ disk' = disk /\ k \in Writer
    BY <1>1, <2>1 DEF Writer
  <2>3. TableInv' /\ DueAll(disk', writes', p, v, l)
    BY <1>2, <2>2, Syncs
  <2> QED
    BY <2>1, <2>3
<1>11. ChecksInv'
  <2>1. check \in [Check -> CheckRecord] /\ check[k] \in CheckRecord
    BY <1>2 DEF ChecksInv
  <2>2. check'[k] = [pc |-> "saved", kind |-> check[k].kind, hash |-> NoHash,
                     active |-> check[k].active, obsolete |-> check[k].obsolete]
    BY <1>1, <2>1 DEF CheckRecord
  <2>3. check'[k] \in CheckRecord /\ check'[k].pc = "saved"
    BY <2>1, <2>2 DEF CheckRecord, Pc
  <2>4. check' = [check EXCEPT ![k] = check'[k]]
    BY <1>1, <2>1
  <2> QED
    BY <1>2, <2>3, <2>4, CheckChanged
<1>12. EventsInv' /\ WorldInv'
  BY <1>1, EventsKept DEF IInv, WorldInv
<1> QED
  BY <1>1, <1>3, <1>7, <1>9, <1>10, <1>11, <1>12 DEF IInv

LEMMA UpdateOverKeeps ==
  ASSUME IInv, NEW k \in Check, InstallFails(k) \/ UpdateSaved(k)
  PROVE  IInv'
<1>1. /\ check[k].pc \in {"install", "saved"} /\ CheckEnds(k) /\ state' \in {state, "EXISTING_CLIENTS_ONLY"}
      /\ UNCHANGED <<initialized, versions, pins, latest, tasks, event, disk, writes, world, registered>>
  BY DEF InstallFails, UpdateSaved, UpdateFails, CheckIs
<1>2. ~Booting /\ ~Booting'
  BY <1>1, CheckAfterBoot DEF Booting
<1>3. ChecksInv'
  BY <1>1, <1>2, EndedCheck DEF IInv
<1> QED
  BY <1>1, <1>2, <1>3, OnlyTheCheck

\* The pins and versions that remain keep their types.
LEMMA RestrictedMemory ==
  ASSUME MemoryInv, ~Booting, UNCHANGED <<state, initialized, latest, tasks>>,
         NEW S, NEW T, pins' = Restricted(pins, S), versions' = Restricted(versions, T)
  PROVE  MemoryInv' /\ Loaded' = Loaded \cap T /\ Pinned' = Pinned \cap S
<1>1. pins \in [Pinned -> Hash] /\ versions \in [Loaded -> Nat]
  BY DEF MemoryInv
<1>2. /\ pins' = [c \in Pinned \cap S |-> pins[c]]
      /\ versions' = [h \in Loaded \cap T |-> versions[h]]
  BY DEF Restricted, Pinned, Loaded
<1>3. Pinned' = Pinned \cap S /\ Loaded' = Loaded \cap T
  BY <1>2 DEF Pinned, Loaded
<1>4. pins' \in [Pinned' -> Hash] /\ versions' \in [Loaded' -> Nat]
  BY <1>1, <1>2, <1>3
<1> QED
  BY <1>3, <1>4 DEF MemoryInv, Booting

LEMMA AllKept ==
  ASSUME MemoryInv
  PROVE  pins = Restricted(pins, Pinned) /\ versions = Restricted(versions, Loaded)
BY DEF MemoryInv, Restricted, Pinned, Loaded

LEMMA CollectKeeps ==
  ASSUME IInv, NEW k \in Check, Collect(k)
  PROVE  /\ IInv' /\ Loaded' = Loaded /\ check'[k].pc = "remove"
         /\ \A c \in Pinned' : c \in Pinned /\ pins'[c] = pins[c]
         /\ check'[k].obsolete = Loaded \ ({pins'[c] : c \in Pinned'} \cup {latest})
<1>1. /\ CheckIs(k, "collect") /\ pins' = Restricted(pins, check[k].active)
      /\ check' = [check EXCEPT
                     ![k].pc = "remove", ![k].active = {},
                     ![k].obsolete = Loaded \ ({pins'[c] : c \in DOMAIN pins'} \cup {latest})]
      /\ UNCHANGED <<state, initialized, versions, latest, tasks, event, disk, writes, world, registered>>
  BY DEF Collect
<1>2. ~Booting /\ ~Booting' /\ ChecksInv /\ MemoryInv /\ TableInv
  BY <1>1, CheckAfterBoot DEF CheckIs, IInv, Booting
<1>3. versions' = Restricted(versions, Loaded)
  BY <1>1, <1>2, AllKept
<1>4. MemoryInv' /\ Loaded' = Loaded /\ Pinned' = Pinned \cap check[k].active
  BY <1>1, <1>2, <1>3, RestrictedMemory
<1>5. \A c \in Pinned' : c \in Pinned /\ pins'[c] = pins[c]
  BY <1>1, <1>4 DEF Restricted, Pinned
<1>6. PICK obsolete \in SUBSET Hash : obsolete = Loaded \ ({pins'[c] : c \in DOMAIN pins'} \cup {latest})
  BY <1>2 DEF MemoryInv
<1>7. check \in [Check -> CheckRecord] /\ check[k] \in CheckRecord
  BY <1>2 DEF ChecksInv
<1>8. check' = [check EXCEPT ![k].pc = "remove", ![k].active = {}, ![k].obsolete = obsolete]
  BY <1>1, <1>6
<1>9. check'[k] = [pc |-> "remove", kind |-> check[k].kind, hash |-> check[k].hash,
                   active |-> {}, obsolete |-> obsolete]
  BY <1>7, <1>8 DEF CheckRecord
<1>10. check'[k] \in CheckRecord /\ check'[k].pc = "remove" /\ check'[k].obsolete = obsolete
  BY <1>7, <1>9 DEF CheckRecord, Pc
<1>11. check' = [check EXCEPT ![k] = check'[k]]
  BY <1>7, <1>8
<1>12. ChecksInv'
  BY <1>2, <1>10, <1>11, CheckChanged
<1>13. EventsInv' /\ TableInv' /\ WorldInv'
  BY <1>1, EventsKept, TableKept, WorldKept DEF IInv
<1> QED
  BY <1>4, <1>5, <1>6, <1>10, <1>12, <1>13 DEF IInv, Pinned

LEMMA RemoveVersionKeeps ==
  ASSUME IInv, NEW k \in Check, RemoveVersion(k)
  PROVE  /\ IInv' /\ check[k].pc = "remove" /\ check'[k].pc = "remove"
         /\ \E h \in check[k].obsolete : Loaded' = Loaded \ {h} /\ check'[k].obsolete = check[k].obsolete \ {h}
<1>1. PICK h \in check[k].obsolete :
        /\ versions' = Restricted(versions, Loaded \ {h})
        /\ check' = [check EXCEPT ![k].obsolete = check[k].obsolete \ {h}]
  BY DEF RemoveVersion
<1>2. /\ CheckIs(k, "remove")
      /\ UNCHANGED <<state, initialized, pins, latest, tasks, event, disk, writes, world, registered>>
  BY DEF RemoveVersion
<1>3. ~Booting /\ ~Booting' /\ ChecksInv /\ MemoryInv
  BY <1>2, CheckAfterBoot DEF CheckIs, IInv, Booting
<1>4. pins' = Restricted(pins, Pinned)
  BY <1>2, <1>3, AllKept
<1>5. MemoryInv' /\ Loaded' = Loaded \ {h}
  BY <1>1, <1>2, <1>3, <1>4, RestrictedMemory
<1>6. check \in [Check -> CheckRecord] /\ check[k] \in CheckRecord /\ check[k].pc = "remove"
  BY <1>2, <1>3 DEF ChecksInv, CheckIs
<1>7. check'[k] = [pc |-> "remove", kind |-> check[k].kind, hash |-> check[k].hash,
                   active |-> check[k].active, obsolete |-> check[k].obsolete \ {h}]
  BY <1>1, <1>6 DEF CheckRecord
<1>8. check'[k] \in CheckRecord /\ check'[k].pc = "remove" /\ check'[k].obsolete = check[k].obsolete \ {h}
  BY <1>6, <1>7 DEF CheckRecord
<1>9. check' = [check EXCEPT ![k] = check'[k]]
  BY <1>1, <1>6
<1>10. ChecksInv'
  BY <1>3, <1>8, <1>9, CheckChanged
<1>11. EventsInv' /\ WorldInv'
  BY <1>2, EventsKept, WorldKept DEF IInv
<1>12. TableInv'
  BY <1>2, TableKept DEF IInv
<1> QED
  BY <1>1, <1>5, <1>6, <1>8, <1>10, <1>11, <1>12 DEF IInv

LEMMA CleanupSyncsKeeps ==
  ASSUME IInv, NEW k \in Check, CleanupSyncs(k)
  PROVE  IInv' /\ DueAll(disk', writes', pins, Loaded, latest)
<1>1. /\ CheckIs(k, "remove") /\ Sync(k, pins, Loaded, latest) /\ Moves(k, "cleaned")
      /\ UNCHANGED <<memory, event, disk, world, registered>>
  BY DEF CleanupSyncs
<1>2. ~Booting /\ ~Booting' /\ MemoryInv /\ TableInv /\ disk' = disk
  BY <1>1, CheckAfterBoot DEF CheckIs, IInv, Booting, memory
<1>3. PICK p \in Assignments, v \in SUBSET Hash, l \in Hash \cup {NoHash} :
        p = pins /\ v = Loaded /\ l = latest
  BY <1>2, PinsType DEF MemoryInv
<1>4. Sync(k, p, v, l) /\ k \in Writer
  BY <1>1, <1>3 DEF Writer
<1>5. TableInv' /\ DueAll(disk', writes', p, v, l)
  BY <1>2, <1>4, Syncs
<1>6. ChecksInv'
  <2>1. "cleaned" \in Pc.check
    BY DEF Pc
  <2> QED
    BY <1>1, <1>2, <2>1, MovedCheck DEF IInv
<1>7. EventsInv' /\ WorldInv' /\ MemoryInv'
  BY <1>1, EventsKept, WorldKept, MemoryKept DEF IInv, memory
<1> QED
  BY <1>3, <1>5, <1>6, <1>7 DEF IInv

LEMMA ChecksKeep ==
  ASSUME IInv, NEW k \in Check, Checks(k)
  PROVE  IInv'
BY MessageArrivesKeeps, QuietCheckKeeps, TaskRunsKeeps, ManifestArrivesKeeps, ManifestRejectedKeeps,
   InstalledKeeps, UpdateOverKeeps, CollectKeeps, RemoveVersionKeeps, CleanupSyncsKeeps DEF Checks

-------------------------------------------------------------------------------
(***************************************************************************)
(* The world, and the invariant.                                           *)
(***************************************************************************)
LEMMA WorldKeeps == IInv /\ World => IInv'
<1> SUFFICES ASSUME IInv, World PROVE IInv'
  OBVIOUS
<1>1. CASE Deploy \/ \E c \in Client : OpenClient(c) \/ CloseClient(c)
  <2>1. UNCHANGED <<memory, event, check, disk, writes, registered>>
    BY <1>1 DEF Deploy, OpenClient, CloseClient
  <2>2. WorldInv'
    <3>1. CASE Deploy
      <4>1. /\ deploys' = deploys + 1 /\ deploys < MaxDeploy /\ server' \in Hash
            /\ UNCHANGED <<clients, restarts, doomed, registered>>
        BY <3>1 DEF Deploy
      <4> QED
        BY <4>1, NamesAssumption DEF IInv, WorldInv
    <3>2. ASSUME NEW c \in Client, OpenClient(c) \/ CloseClient(c) PROVE WorldInv'
      BY <3>2 DEF OpenClient, CloseClient, IInv, WorldInv
    <3> QED
      BY <1>1, <3>1, <3>2
  <2> QED
    BY <2>1, <2>2, MemoryKept, EventsKept, ChecksKept, TableKept DEF IInv, memory, Booting
<1>2. CASE Restart
  <2>1. /\ state' = "NORMAL" /\ initialized' = "no" /\ registered
        /\ versions' = NoVersions /\ pins' = NoPins /\ latest' = NoHash /\ tasks' = {}
        /\ event' = [e \in Event |-> NoEvent] /\ check' = [k \in Check |-> NoCheck]
        /\ writes' = <<>> /\ restarts' = restarts + 1 /\ restarts < MaxRestart
        /\ doomed' = FALSE /\ UNCHANGED <<disk, clients, server, deploys, registered>>
    BY <1>2 DEF Restart
  <2>2. MemoryInv'
    BY <2>1 DEF MemoryInv, Booting, NoVersions, NoPins, Loaded, Pinned
  <2>3. EventsInv'
    <3>1. ASSUME NEW r, r = NoEvent PROVE EventInv(r, "no")
      BY <3>1 DEF NoEvent, EventInv, EventRecord, Pc
    <3>2. NoEvent \in EventRecord
      BY <3>1 DEF EventInv
    <3> QED
      BY <2>1, <3>1, <3>2 DEF EventsInv
  <2>4. ChecksInv'
    <3>1. NoCheck \in CheckRecord /\ NoCheck.pc = "idle"
      BY DEF NoCheck, CheckRecord, Pc
    <3> QED
      BY <2>1, <3>1 DEF ChecksInv
  <2>5. TableInv'
    <3>1. <<>> \in Seq(Write) /\ registered = TRUE
      BY <2>1 DEF IInv, WorldInv
    <3> QED
      BY <2>1, <3>1 DEF IInv, TableInv, StorageInv, Booting
  <2>6. WorldInv'
    <3>1. doomed' \in BOOLEAN /\ registered' \in BOOLEAN
      BY <2>1 DEF IInv, WorldInv
    <3> QED
      BY <2>1, <3>1, NamesAssumption DEF IInv, WorldInv
  <2> QED
    BY <2>2, <2>3, <2>4, <2>5, <2>6 DEF IInv
<1> QED
  BY <1>1, <1>2 DEF World

LEMMA NextKeeps == IInv /\ [Next]_vars => IInv'
<1> SUFFICES ASSUME IInv, [Next]_vars PROVE IInv'
  OBVIOUS
<1>1. CASE Boots
  BY <1>1, ActivateKeeps, BootFromDiskKeeps, BootFetchesKeeps, BootFetchFailsKeeps, BootSavedKeeps
     DEF Boots
<1>2. CASE UNCHANGED vars
  BY <1>2, MemoryKept, EventsKept, ChecksKept, TableKept, WorldKept DEF IInv, vars, memory, Booting
<1> QED
  BY <1>1, <1>2, LandsKeeps, InitTaskRunsKeeps, ArrivesKeeps, HandlesKeeps, ChecksKeep, WorldKeeps DEF Next

LEMMA Invariant == Spec => []IInv
<1> QED
  BY InitHolds, NextKeeps, PTL DEF Spec

\* The driver's variables keep their types, whatever number of events and
\* update checks is in progress, and however often the worker is restarted.
THEOREM TypesCorrect == Spec => []TypeOK
<1>1. IInv => TypeOK
  <2> SUFFICES ASSUME IInv PROVE TypeOK
    OBVIOUS
  <2>1. /\ disk["manifests"] \subseteq Hash /\ disk["latest"] \in Hash \cup {NoHash}
    BY DEF IInv, TableInv, StorageInv, Value, Part
  <2>2. \A i \in DOMAIN writes : writes[i].part \in Part /\ writes[i].by \in Writer
    <3>1. \A i \in DOMAIN writes : writes[i] \in Write
      BY DEF IInv, TableInv, StorageInv
    <3> QED
      BY <3>1, WriteFields
  <2>3. /\ Loaded \subseteq Hash /\ \A h \in Loaded : versions[h] \in Nat
        /\ Pinned \subseteq Client /\ \A c \in Pinned : pins[c] \in Hash
    BY DEF IInv, MemoryInv
  <2> QED
    BY <2>1, <2>2, <2>3 DEF TypeOK, IInv, MemoryInv, EventsInv, ChecksInv, WorldInv, EventRecord, CheckRecord
<1> QED
  BY <1>1, Invariant, PTL

-------------------------------------------------------------------------------
(***************************************************************************)
(* Why a pin moves.                                                        *)
(***************************************************************************)
Reason(c) == /\ pins'[c] = latest
             /\ Fails(pins[c]) \/ \E e \in Event : Asks(e, c)

LEMMA HandlesMoves ==
  ASSUME IInv, NEW e \in Event, Handles(e), NEW c \in Pinned, Moved(c)
  PROVE  Reason(c)
<1>1. pins' # pins
  BY DEF Moved
<1>2. CASE ActivateProceeds(e) \/ GetClient(e)
  BY <1>2, ActivateProceedsKeeps, GetClientKeeps DEF Reason
<1>3. CASE FetchProceeds(e)
  BY <1>3, FetchProceedsKeeps DEF Moved
<1>4. CASE ServeIsCritical(e)
  <2>1. pins[c] = event[e].ver /\ pins'[c] = latest
    BY <1>4, ServeIsCriticalKeeps DEF Moved
  <2>2. PICK r : r = [NoEvent EXCEPT !.pc = "failSync"]
    OBVIOUS
  <2>3. r.pc = "failSync"
    BY <2>2 DEF NoEvent
  <2>4. event' = [event EXCEPT ![e] = r] /\ event \in [Event -> EventRecord]
    BY <1>4, <2>2 DEF ServeIsCritical, IInv, EventsInv
  <2>5. event'[e].pc = "failSync"
    BY <2>3, <2>4
  <2>6. Fails(pins[c])
    BY <2>1, <2>5 DEF Fails
  <2> QED
    BY <2>1, <2>6 DEF Reason
<1>5. ~(InitRejects(e) \/ PinSaved(e) \/ Served(e) \/ FailureSaved(e))
  BY <1>1 DEF InitRejects, PinSaved, Served, FailureSaved, memory
<1> QED
  BY <1>2, <1>3, <1>4, <1>5 DEF Handles

LEMMA ChecksMoves ==
  ASSUME IInv, NEW k \in Check, Checks(k), NEW c \in Pinned, Moved(c)
  PROVE  FALSE
<1>1. pins' # pins
  BY DEF Moved
<1>2. CASE Collect(k)
  <2>1. c \in Pinned'
    BY DEF Moved, Pinned
  <2> QED
    BY <1>2, <2>1, CollectKeeps DEF Moved
<1>3. CASE ~Collect(k)
  BY <1>1, <1>3 DEF Checks, MessageArrives, MessageProceeds, TaskRuns, CheckOffline, ManifestArrives,
     ManifestRejected, Installed, InstallFails, UpdateSaved, MatchAll, RemoveVersion, CleanupSyncs,
     CleanupSaved, memory
<1> QED
  BY <1>2, <1>3

LEMMA NextMoves ==
  ASSUME IInv, [Next]_vars, NEW c \in Pinned, Moved(c)
  PROVE  Reason(c)
<1>1. pins' # pins /\ c \in DOMAIN pins'
  BY DEF Moved
<1>2. initialized = "ok"
  BY DEF IInv, MemoryInv
<1>3. CASE \E h \in Hash : InitTaskRuns(h)
  <2>1. PICK h \in Hash : InitTaskRuns(h)
    BY <1>3
  <2>2. pins[c] = h /\ pins'[c] = latest
    BY <2>1, InitTaskRunsKeeps DEF Moved
  <2>3. InitTask(h) \in tasks \ tasks'
    BY <2>1 DEF InitTaskRuns
  <2> QED
    BY <2>2, <2>3 DEF Reason, Fails
<1>4. CASE \E e \in Event : Arrives(e) \/ Handles(e)
  BY <1>1, <1>4, ArrivesKeeps, HandlesMoves
<1>5. CASE \E k \in Check : Checks(k)
  BY <1>5, ChecksMoves
<1>6. ~Boots
  BY <1>1, <1>2 DEF Boots, Activate, BootFromDisk, BootFetches, BootFetchFails, BootSaved
<1>7. ~World
  BY <1>1 DEF World, Deploy, Restart, OpenClient, CloseClient, NoPins, memory
<1>8. ~(\E part \in Part : Lands(part)) /\ ~UNCHANGED vars
  BY <1>1 DEF Lands, vars, memory
<1> QED
  BY <1>3, <1>4, <1>5, <1>6, <1>7, <1>8 DEF Next

\* While the worker lives, a client's pin moves only to the latest version, and
\* only because the client asks for it or the version it was on has failed.
THEOREM PinsCorrect == Spec => PinsMoveForAReason
<1>1. IInv /\ [Next]_vars =>
        [\A c \in Pinned :
           Moved(c) => /\ pins'[c] = latest
                       /\ Fails(pins[c]) \/ \E e \in Event : Asks(e, c)]_vars
  BY NextMoves DEF Reason
<1> QED
  BY <1>1, Invariant, PTL DEF Spec, PinsMoveForAReason

-------------------------------------------------------------------------------
(***************************************************************************)
(* The versions.  As long as no version on the list of a cleanup has been   *)
(* installed again, a cleanup has only versions that nobody needs on its   *)
(* list; and but for the time it works through the list, what memory holds *)
(* is due to be on the disk.                                               *)
(***************************************************************************)
LoadedInv ==
  initialized = "ok" /\ doomed = FALSE =>
    /\ latest \in Loaded /\ \A c \in Pinned : pins[c] \in Loaded
    /\ \A k \in Check : check[k].pc = "remove" =>
         latest \notin check[k].obsolete /\ \A c \in Pinned : pins[c] \notin check[k].obsolete

\* The pins that a worker makes of the assignments a.
Revived(a, loaded, lat) == [c \in DOMAIN a |-> IF a[c] \in loaded THEN a[c] ELSE lat]
Saved(d, ws, p, loaded, lat) ==
  \E a \in Assignments : DueAll(d, ws, a, loaded, lat) /\ p = Revived(a, loaded, lat)

SavedInv ==
  /\ initialized = "ok" /\ registered = TRUE /\ doomed = FALSE
  /\ \A k \in Check : check[k].pc # "remove"
  => Saved(disk, writes, pins, Loaded, latest)

SafeInv == IInv /\ LoadedInv /\ SavedInv

\* Pins to loaded versions are revived as they are.
LEMMA SavedAsIs ==
  ASSUME NEW p \in Assignments, NEW loaded, \A c \in DOMAIN p : p[c] \in loaded, NEW lat,
         NEW d, NEW ws, DueAll(d, ws, p, loaded, lat)
  PROVE  Saved(d, ws, p, loaded, lat)
<1>1. p = [c \in DOMAIN p |-> p[c]]
  BY DEF Assignments
<1>2. p = Revived(p, loaded, lat)
  BY <1>1 DEF Revived
<1> QED
  BY <1>2 DEF Saved

\* The steps of events and idle tasks.
LEMMA RepinsSafe ==
  ASSUME SafeInv, IInv', AsBefore, Repins, doomed' = doomed
  PROVE  SafeInv'
<1>1. Loaded' = Loaded /\ latest' = latest /\ initialized' = initialized /\ check' = check
      /\ disk' = disk /\ registered' = registered /\ doomed' = doomed
  BY DEF AsBefore, Loaded
<1>2. CASE initialized # "ok" \/ doomed # FALSE
  BY <1>1, <1>2 DEF SafeInv, LoadedInv, SavedInv
<1>3. CASE initialized = "ok" /\ doomed = FALSE /\ pins' = pins /\ writes' = writes
  BY <1>1, <1>3 DEF SafeInv, LoadedInv, SavedInv, Pinned
<1>4. CASE /\ initialized = "ok" /\ doomed = FALSE /\ pins' \in Assignments
           /\ \A c \in DOMAIN pins' : pins'[c] = latest \/ (c \in Pinned /\ pins'[c] = pins[c])
           /\ DueAll(disk', writes', pins', Loaded, latest)
  <2>1. LoadedInv'
    BY <1>1, <1>4 DEF SafeInv, LoadedInv, Pinned
  <2>2. PICK p \in Assignments : p = pins'
    BY <1>4
  <2>3. \A c \in DOMAIN p : p[c] \in Loaded
    BY <1>4, <2>2 DEF SafeInv, LoadedInv
  <2>4. Saved(disk', writes', pins', Loaded, latest)
    BY <1>4, <2>2, <2>3, SavedAsIs
  <2>5. SavedInv'
    BY <1>1, <2>4 DEF SavedInv
  <2> QED
    BY <2>1, <2>5 DEF SafeInv
<1> QED
  BY <1>2, <1>3, <1>4 DEF Repins

\* What leaves versions, pins and the disk alone.
LEMMA UntouchedSafe ==
  ASSUME SafeInv, IInv', initialized' = "ok" => initialized = "ok",
         UNCHANGED <<versions, pins, latest, check, disk, writes, registered, doomed>>
  PROVE  SafeInv'
BY DEF SafeInv, LoadedInv, SavedInv, Loaded, Pinned

LEMMA LandsSafe ==
  ASSUME SafeInv, NEW part \in Part, Lands(part)
  PROVE  SafeInv'
<1>1. UNCHANGED <<memory, event, check, world, registered>> /\ IInv'
  BY LandsKeeps DEF Lands, SafeInv
<1>2. LoadedInv'
  BY <1>1 DEF SafeInv, LoadedInv, memory, world, Loaded, Pinned
<1>3. registered = TRUE => \A p, v, l : DueAll(disk, writes, p, v, l) => DueAll(disk', writes', p, v, l)
  BY LandsDue DEF SafeInv, IInv
<1>4. registered = TRUE /\ Saved(disk, writes, pins, Loaded, latest) => Saved(disk', writes', pins, Loaded, latest)
  BY <1>3 DEF Saved
<1>5. SavedInv'
  BY <1>1, <1>4 DEF SafeInv, SavedInv, memory, world, Loaded
<1> QED
  BY <1>1, <1>2, <1>5 DEF SafeInv

\* What is read from the disk, which nothing is being written to.
LEMMA RevivedSafe ==
  ASSUME IInv, IInv', Booting, writes' = <<>>, UNCHANGED <<check, disk>>,
         NEW m \in SUBSET Hash, NEW a \in Assignments, NEW h \in m,
         disk["manifests"] = m, disk["assignments"] = a, disk["latest"] = h,
         initialized' = "ok" => /\ Loaded' = m /\ latest' = h
                                /\ pins' = [c \in DOMAIN a |-> IF a[c] \in m THEN a[c] ELSE h]
  PROVE  SafeInv'
<1>1. SUFFICES ASSUME initialized' = "ok" PROVE LoadedInv' /\ SavedInv'
  BY DEF SafeInv, LoadedInv, SavedInv
<1>2. Loaded' = m /\ latest' = h /\ pins' = Revived(a, m, h)
  BY <1>1 DEF Revived
<1>3. \A k \in Check : check'[k].pc # "remove"
  BY DEF IInv, ChecksInv
<1>4. LoadedInv'
  BY <1>2, <1>3 DEF LoadedInv, Revived, Pinned
<1>5. DueAll(disk', writes', a, m, h)
  BY DEF DueAll, Due
<1>6. Saved(disk', writes', pins', m, h)
  BY <1>2, <1>5 DEF Saved
<1> QED
  BY <1>2, <1>4, <1>6 DEF SavedInv

LEMMA BootsSafe == SafeInv /\ Boots => SafeInv'
<1> SUFFICES ASSUME SafeInv, Boots PROVE SafeInv'
  OBVIOUS
<1>1. IInv /\ IInv'
  BY ActivateKeeps, BootFromDiskKeeps, BootFetchesKeeps, BootFetchFailsKeeps, BootSavedKeeps
     DEF SafeInv, Boots
<1>2. CASE Activate \/ BootFetches \/ BootFetchFails
  <2>1. initialized' # "ok"
    BY <1>2 DEF Activate, Started, BootFetches, BootFetchFails, SafeMode
  <2> QED
    BY <1>1, <2>1 DEF SafeInv, LoadedInv, SavedInv
<1>3. CASE BootFromDisk
  <2>1. Booting /\ initialized = "reading" /\ UNCHANGED <<check, disk, writes>>
    BY <1>3 DEF BootFromDisk, Booting
  <2>2. PICK m \in SUBSET Hash, a \in Assignments, h \in Hash :
          h \in m /\ m = disk.manifests /\ a = disk.assignments /\ h = disk.latest
    BY <1>1, <1>3, UsableDisk DEF IInv, TableInv, BootFromDisk
  <2>3. Hydrate(m, a, h, {PostLoad})
    BY <1>3, <2>2 DEF BootFromDisk
  <2>4. initialized' = "ok" => /\ Loaded' = m /\ latest' = h
                               /\ pins' = [c \in DOMAIN a |-> IF a[c] \in m THEN a[c] ELSE h]
    <3>1. CASE m \cap Bad = {}
      <4>1. /\ versions' = [x \in m |-> 0] /\ latest' = h
            /\ pins' = [c \in DOMAIN a |-> IF a[c] \in m THEN a[c] ELSE h]
        BY <2>3, <3>1 DEF Hydrate
      <4>2. Loaded' = m
        BY <4>1 DEF Loaded
      <4> QED
        BY <4>1, <4>2
    <3>2. CASE m \cap Bad # {}
      <4>1. initialized' = "failed"
        BY <2>3, <3>2 DEF Hydrate, SafeMode
      <4> QED
        BY <4>1
    <3> QED
      BY <3>1, <3>2
  <2>5. writes' = <<>>
    BY <1>1, <2>1 DEF IInv, TableInv
  <2> QED
    BY <1>1, <2>1, <2>2, <2>4, <2>5, RevivedSafe
<1>4. CASE BootSaved
  <2>1. Booting /\ initialized = "saving" /\ Synced(Boot) /\ UNCHANGED <<check, disk, writes>>
    BY <1>4 DEF BootSaved, Booting
  <2>2. /\ disk.manifests \in SUBSET Hash /\ disk.assignments \in Assignments
        /\ disk.latest \in disk.manifests /\ writes = <<>>
    BY <1>1, <2>1, FirstSaved, NoPinsType DEF IInv
  <2>3. PICK m \in SUBSET Hash, a \in Assignments, h \in Hash :
          h \in m /\ m = disk.manifests /\ a = disk.assignments /\ h = disk.latest
    BY <2>2
  <2>4. Hydrate(m, a, h, {})
    BY <1>4, <2>3 DEF BootSaved
  <2>5. initialized' = "ok" => /\ Loaded' = m /\ latest' = h
                               /\ pins' = [c \in DOMAIN a |-> IF a[c] \in m THEN a[c] ELSE h]
    <3>1. CASE m \cap Bad = {}
      <4>1. /\ versions' = [x \in m |-> 0] /\ latest' = h
            /\ pins' = [c \in DOMAIN a |-> IF a[c] \in m THEN a[c] ELSE h]
        BY <2>4, <3>1 DEF Hydrate
      <4>2. Loaded' = m
        BY <4>1 DEF Loaded
      <4> QED
        BY <4>1, <4>2
    <3>2. CASE m \cap Bad # {}
      <4>1. initialized' = "failed"
        BY <2>4, <3>2 DEF Hydrate, SafeMode
      <4> QED
        BY <4>1
    <3> QED
      BY <3>1, <3>2
  <2> QED
    BY <1>1, <2>1, <2>2, <2>3, <2>5, RevivedSafe
<1> QED
  BY <1>2, <1>3, <1>4 DEF Boots

\* A step of a check that neither begins nor ends its removals, or that comes
\* with the registration deleted.
LEMMA NotRemovingSafe ==
  ASSUME SafeInv, IInv', NEW k \in Check, \A j \in Check \ {k} : check'[j] = check[j],
         UNCHANGED <<versions, pins, latest, writes, world>>, initialized' = "ok" => initialized = "ok",
         UNCHANGED <<disk, registered>> \/ registered' = FALSE,
         check[k].pc # "remove", check'[k].pc # "remove"
  PROVE  SafeInv'
<1>1. \A j \in Check : check'[j].pc = "remove" => check'[j] = check[j]
  OBVIOUS
<1>2. (\A j \in Check : check'[j].pc # "remove") => \A j \in Check : check[j].pc # "remove"
  OBVIOUS
<1>3. LoadedInv'
  BY <1>1 DEF SafeInv, LoadedInv, Loaded, Pinned, world
<1>4. SavedInv'
  BY <1>2 DEF SafeInv, SavedInv, Loaded, world
<1> QED
  BY <1>3, <1>4 DEF SafeInv

LEMMA OtherChecksSafe ==
  ASSUME SafeInv, NEW k \in Check, Checks(k),
         ~(Installed(k) \/ Collect(k) \/ RemoveVersion(k) \/ CleanupSyncs(k))
  PROVE  SafeInv'
<1>1. IInv /\ IInv' /\ ChecksInv /\ check \in [Check -> CheckRecord] /\ check[k] \in CheckRecord
  BY ChecksKeep DEF SafeInv, IInv, ChecksInv
<1>2. \A j \in Check \ {k} : check'[j] = check[j]
  BY <1>1 DEF Checks, MessageArrives, MessageProceeds, TaskRuns, CheckOffline, ManifestArrives,
              ManifestRejected, InstallFails, UpdateSaved, MatchAll, CleanupSaved, Moves, CheckEnds,
              UpdateFails
<1>3. CASE MessageArrives(k) \/ MessageProceeds(k)
  <2>1. PICK pc \in {"init", "manifest", "idle"} : check' = [check EXCEPT ![k].pc = pc]
    BY <1>3 DEF MessageArrives, MessageProceeds, Moves
  <2>2. check'[k].pc = pc /\ pc # "remove" /\ check[k].pc # "remove"
    BY <1>1, <1>3, <2>1 DEF CheckRecord, MessageArrives, MessageProceeds, CheckIs
  <2>3. /\ UNCHANGED <<versions, pins, latest, writes, disk, registered, world>>
        /\ initialized' = "ok" => initialized = "ok"
    BY <1>3 DEF MessageArrives, MessageProceeds, Started, memory
  <2> QED
    BY <1>1, <2>2, <2>3, <1>2, NotRemovingSafe
<1>4. CASE TaskRuns(k)
  <2>1. PICK kind : check' = [check EXCEPT ![k].pc = "manifest", ![k].kind = kind]
    BY <1>4 DEF TaskRuns
  <2>2. check'[k].pc = "manifest" /\ check[k].pc # "remove"
    BY <1>1, <1>4, <2>1 DEF CheckRecord, TaskRuns, CheckIs
  <2>3. UNCHANGED <<versions, pins, latest, writes, disk, registered, initialized, world>>
    BY <1>4 DEF TaskRuns
  <2> QED
    BY <1>1, <2>2, <2>3, <1>2, NotRemovingSafe
<1>5. CASE /\ CheckEnds(k) /\ check[k].pc \in {"manifest", "install", "saved"}
           /\ UNCHANGED <<versions, pins, latest, writes, initialized, world>>
           /\ UNCHANGED <<disk, registered>> \/ registered' = FALSE
  <2>1. ~Booting /\ ~Booting'
    BY <1>1, <1>5, CheckAfterBoot DEF Booting
  <2>2. check'[k].pc # "remove"
    BY <1>1, <1>5, <2>1, EndedCheck
  <2> QED
    BY <1>1, <1>5, <2>2, <1>2, NotRemovingSafe
<1>6. CASE ManifestArrives(k)
  <2>1. CASE CheckEnds(k)
    BY <1>5, <1>6, <2>1 DEF ManifestArrives, CheckIs
  <2>2. CASE check' = [check EXCEPT ![k].pc = "install", ![k].hash = server]
    <3>1. check'[k].pc = "install" /\ check[k].pc # "remove"
      BY <1>1, <1>6, <2>2 DEF CheckRecord, ManifestArrives, CheckIs
    <3>2. UNCHANGED <<versions, pins, latest, writes, disk, registered, initialized, world>>
      BY <1>6 DEF ManifestArrives
    <3> QED
      BY <1>1, <3>1, <3>2, <1>2, NotRemovingSafe
  <2> QED
    BY <1>6, <2>1, <2>2 DEF ManifestArrives, UpdateFails
<1>7. CASE CheckOffline(k) \/ ManifestRejected(k) \/ InstallFails(k) \/ UpdateSaved(k)
  <2>1. /\ CheckEnds(k) /\ check[k].pc \in {"manifest", "install", "saved"}
        /\ UNCHANGED <<versions, pins, latest, writes, initialized, world>>
    BY <1>7 DEF CheckOffline, ManifestRejected, InstallFails, UpdateSaved, UpdateFails, CheckIs, memory
  <2>2. UNCHANGED <<disk, registered>> \/ registered' = FALSE
    BY <1>7 DEF CheckOffline, ManifestRejected, InstallFails, UpdateSaved
  <2> QED
    BY <1>5, <2>1, <2>2
<1>8. CASE MatchAll(k)
  <2>1. PICK active : check' = [check EXCEPT ![k].pc = "collect", ![k].active = active]
    BY <1>8 DEF MatchAll
  <2>2. check'[k].pc = "collect" /\ check[k].pc # "remove"
    BY <1>1, <1>8, <2>1 DEF CheckRecord, MatchAll, CheckIs
  <2>3. UNCHANGED <<versions, pins, latest, writes, disk, registered, initialized, world>>
    BY <1>8 DEF MatchAll, memory
  <2> QED
    BY <1>1, <2>2, <2>3, <1>2, NotRemovingSafe
<1>9. CASE CleanupSaved(k)
  <2>1. NoCheck.pc = "idle" /\ check'[k] = NoCheck
    BY <1>1, <1>9 DEF NoCheck, CleanupSaved
  <2>2. check'[k].pc # "remove" /\ check[k].pc # "remove"
    BY <1>9, <2>1 DEF CleanupSaved, CheckIs
  <2>3. UNCHANGED <<versions, pins, latest, writes, disk, registered, initialized, world>>
    BY <1>9 DEF CleanupSaved, memory
  <2> QED
    BY <1>1, <2>2, <2>3, <1>2, NotRemovingSafe
<1> QED
  BY <1>3, <1>4, <1>6, <1>7, <1>8, <1>9 DEF Checks

\* The pins are saved as they are, because each of them is loaded.
LEMMA SyncedSafe ==
  ASSUME MemoryInv, LoadedInv, pins' = pins, initialized' = initialized, Loaded \subseteq Loaded',
         doomed' = FALSE => doomed = FALSE,
         DueAll(disk', writes', pins, Loaded', latest')
  PROVE  SavedInv'
<1> SUFFICES ASSUME initialized = "ok", doomed = FALSE PROVE Saved(disk', writes', pins, Loaded', latest')
  BY DEF SavedInv
<1>1. PICK p \in Assignments : p = pins
  BY PinsType
<1>2. \A c \in DOMAIN p : p[c] \in Loaded'
  BY <1>1 DEF LoadedInv, Pinned
<1> QED
  BY <1>1, <1>2, SavedAsIs

LEMMA InstalledSafe ==
  ASSUME SafeInv, NEW k \in Check, Installed(k)
  PROVE  SafeInv'
<1>1. /\ IInv' /\ DueAll(disk', writes', pins, Loaded', latest')
      /\ Loaded' = Loaded \cup {latest'} /\ pins' = pins /\ initialized' = initialized
  BY InstalledKeeps DEF SafeInv, Installed
<1>2. check'[k].pc # "remove"
  <2>1. check' = [check EXCEPT ![k].pc = "saved", ![k].hash = NoHash] /\ check \in [Check -> CheckRecord]
    BY DEF Installed, SafeInv, IInv, ChecksInv
  <2> QED
    BY <2>1 DEF CheckRecord
<1>3. \A j \in Check : check'[j].pc = "remove" => check'[j] = check[j]
  <2>1. \A j \in Check \ {k} : check'[j] = check[j]
    BY DEF Installed, SafeInv, IInv, ChecksInv
  <2> QED
    BY <1>2, <2>1
<1>4. doomed' = FALSE => doomed = FALSE /\ \A j \in Check : latest' \notin check[j].obsolete
  <2>1. latest' = check[k].hash /\ doomed' = (doomed \/ Obsolete(check[k].hash))
    BY DEF Installed
  <2> QED
    BY <2>1 DEF Obsolete, SafeInv, IInv, WorldInv
<1>5. LoadedInv'
  BY <1>1, <1>3, <1>4 DEF SafeInv, LoadedInv, Pinned
<1>6. SavedInv'
  BY <1>1, <1>4, SyncedSafe DEF SafeInv, IInv
<1> QED
  BY <1>1, <1>5, <1>6 DEF SafeInv

LEMMA CollectSafe ==
  ASSUME SafeInv, NEW k \in Check, Collect(k)
  PROVE  SafeInv'
<1>1. /\ IInv' /\ Loaded' = Loaded /\ check'[k].pc = "remove"
      /\ \A c \in Pinned' : c \in Pinned /\ pins'[c] = pins[c]
      /\ check'[k].obsolete = Loaded \ ({pins'[c] : c \in Pinned'} \cup {latest})
      /\ latest' = latest /\ initialized' = initialized /\ doomed' = doomed
  BY CollectKeeps DEF SafeInv, Collect, world
<1>2. latest \notin check'[k].obsolete /\ \A c \in Pinned' : pins'[c] \notin check'[k].obsolete
  BY <1>1
<1>3. \A j \in Check \ {k} : check'[j] = check[j]
  BY DEF Collect, SafeInv, IInv, ChecksInv
<1>4. LoadedInv'
  BY <1>1, <1>2, <1>3 DEF SafeInv, LoadedInv
<1>5. SavedInv'
  BY <1>1 DEF SavedInv
<1> QED
  BY <1>1, <1>4, <1>5 DEF SafeInv

LEMMA RemoveVersionSafe ==
  ASSUME SafeInv, NEW k \in Check, RemoveVersion(k)
  PROVE  SafeInv'
<1>1. /\ IInv' /\ check[k].pc = "remove" /\ check'[k].pc = "remove"
      /\ pins' = pins /\ Pinned' = Pinned /\ latest' = latest /\ initialized' = initialized
      /\ doomed' = doomed
  BY RemoveVersionKeeps DEF SafeInv, RemoveVersion, Pinned, world
<1>2. PICK h \in check[k].obsolete :
        Loaded' = Loaded \ {h} /\ check'[k].obsolete = check[k].obsolete \ {h}
  BY RemoveVersionKeeps DEF SafeInv
<1>3. \A j \in Check : check'[j].pc = check[j].pc /\ check'[j].obsolete \subseteq check[j].obsolete
  <2>1. \A j \in Check \ {k} : check'[j] = check[j]
    BY DEF RemoveVersion, SafeInv, IInv, ChecksInv
  <2> QED
    BY <1>1, <1>2, <2>1
<1>4. LoadedInv'
  BY <1>1, <1>2, <1>3 DEF SafeInv, LoadedInv
<1>5. SavedInv'
  BY <1>1 DEF SavedInv
<1> QED
  BY <1>1, <1>4, <1>5 DEF SafeInv

LEMMA CleanupSyncsSafe ==
  ASSUME SafeInv, NEW k \in Check, CleanupSyncs(k)
  PROVE  SafeInv'
<1>1. /\ IInv' /\ DueAll(disk', writes', pins, Loaded, latest)
      /\ UNCHANGED <<initialized, pins, latest, doomed>> /\ Loaded' = Loaded
  BY CleanupSyncsKeeps DEF SafeInv, CleanupSyncs, memory, world, Loaded
<1>2. check'[k].pc # "remove"
  <2>1. check' = [check EXCEPT ![k].pc = "cleaned"] /\ check \in [Check -> CheckRecord]
    BY DEF CleanupSyncs, Moves, SafeInv, IInv, ChecksInv
  <2> QED
    BY <2>1 DEF CheckRecord
<1>3. \A j \in Check : check'[j].pc = "remove" => check'[j] = check[j]
  <2>1. \A j \in Check \ {k} : check'[j] = check[j]
    BY DEF CleanupSyncs, Moves, SafeInv, IInv, ChecksInv
  <2> QED
    BY <1>2, <2>1
<1>4. LoadedInv'
  BY <1>1, <1>3 DEF SafeInv, LoadedInv, Pinned
<1>5. SavedInv'
  BY <1>1, SyncedSafe DEF SafeInv, IInv
<1> QED
  BY <1>1, <1>4, <1>5 DEF SafeInv

LEMMA HandlesWorld == ASSUME NEW e \in Event, Handles(e) PROVE doomed' = doomed
BY DEF Handles, InitRejects, ActivateProceeds, FetchProceeds, GetClient, PinSaved, Served,
       ServeIsCritical, FailureSaved, world

LEMMA NextSafe ==
  ASSUME SafeInv, [Next]_vars
  PROVE  SafeInv'
<1>1. IInv /\ IInv'
  BY NextKeeps DEF SafeInv
<1>2. CASE \E part \in Part : Lands(part)
  BY <1>2, LandsSafe
<1>3. CASE \E h \in Hash : InitTaskRuns(h)
  BY <1>1, <1>3, InitTaskRunsKeeps, RepinsSafe DEF InitTaskRuns, world
<1>4. CASE \E e \in Event : Arrives(e)
  BY <1>1, <1>4, ArrivesKeeps, UntouchedSafe DEF Arrives, FetchArrives, ActivateArrives, world
<1>5. CASE \E e \in Event : Handles(e)
  BY <1>1, <1>5, HandlesKeeps, HandlesWorld, RepinsSafe
<1>6. CASE \E k \in Check : Checks(k)
  BY <1>6, OtherChecksSafe, InstalledSafe, CollectSafe, RemoveVersionSafe, CleanupSyncsSafe
<1>7. CASE World \/ UNCHANGED vars
  <2>1. CASE Restart
    <3>1. initialized' = "no"
      BY <2>1 DEF Restart
    <3> QED
      BY <1>1, <3>1 DEF SafeInv, LoadedInv, SavedInv
  <2>2. CASE ~Restart
    <3>1. UNCHANGED <<memory, check, disk, writes, registered, doomed>>
      BY <1>7, <2>2 DEF World, Deploy, OpenClient, CloseClient, vars, world
    <3> QED
      BY <1>1, <3>1, UntouchedSafe DEF memory
  <2> QED
    BY <2>1, <2>2
<1> QED
  BY <1>2, <1>3, <1>4, <1>5, <1>6, <1>7, BootsSafe DEF Next

LEMMA SafeInvariant == Spec => []SafeInv
<1>1. Init => SafeInv
  BY InitHolds DEF SafeInv, LoadedInv, SavedInv, Init
<1>2. SafeInv /\ [Next]_vars => SafeInv'
  BY NextSafe
<1> QED
  BY <1>1, <1>2, PTL DEF Spec

\* However many update checks overlap, the latest version and every version that
\* a client is pinned to are loaded, through updates, failures, cleanups and
\* restarts, until a version is installed that a cleanup under way is to remove.
THEOREM LoadedCorrect == Spec => []VersionsLoaded
<1>1. SafeInv => VersionsLoaded
  BY DEF SafeInv, IInv, WorldInv, LoadedInv, VersionsLoaded, Ready
<1> QED
  BY <1>1, SafeInvariant, PTL

\* However many update checks overlap, a worker that is stopped while nothing is
\* being written or cleaned up comes back with what it had, until a version is
\* installed that a cleanup under way is to remove.
THEOREM RestoresCorrect == Spec => []RestartRestores
<1>1. SafeInv => RestartRestores
  <2> SUFFICES ASSUME SafeInv, AtRest PROVE RestartRestores
    BY DEF RestartRestores
  <2>1. /\ initialized = "ok" /\ registered = TRUE /\ doomed = FALSE /\ writes = <<>>
        /\ \A k \in Check : check[k].pc # "remove"
    BY DEF AtRest, Ready, CheckIs, SafeInv, IInv, WorldInv
  <2>2. PICK a \in Assignments : DueAll(disk, writes, a, Loaded, latest) /\ pins = Revived(a, Loaded, latest)
    BY <2>1 DEF SafeInv, SavedInv, Saved
  <2>3. disk["assignments"] = a /\ disk["manifests"] = Loaded /\ disk["latest"] = latest
    BY <2>1, <2>2 DEF DueAll, Due, LastOf
  <2>4. latest \in Hash /\ latest \in Loaded /\ latest # NoHash
    BY <2>1, NamesAssumption DEF SafeInv, LoadedInv, IInv, MemoryInv
  <2>5. a # NeverWritten
    <3>1. NoClient \notin DOMAIN a
      BY NamesAssumption DEF Assignments
    <3>2. NoClient \in DOMAIN NeverWritten
      BY DEF NeverWritten
    <3> QED
      BY <3>1, <3>2
  <2>6. DiskUsable
    BY <2>3, <2>4, <2>5 DEF DiskUsable
  <2> QED
    BY <2>2, <2>3, <2>6 DEF RestartRestores, Revived
<1> QED
  BY <1>1, SafeInvariant, PTL
===============================================================================
