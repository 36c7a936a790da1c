------------------------------ MODULE LinkProofs -------------------------------
(***************************************************************************)
(* Proofs about ConsoleLink, for any number of nodes, batch and bounds.    *)
(*                                                                         *)
(* Why no list is forgotten: a list leaves the queue or a call's hands     *)
(* only for the queue or once it is settled (Keeps).                       *)
(* Why the order holds (AllInOrder): when a list b is given after the call *)
(* for a was settled, a is settled for good or it is queued, and then so   *)
(* is b, behind it.  From there b can reach the console only through the   *)
(* queue: its own call POSTs it only when nothing is queued, and a pass    *)
(* deals with the rows it has read first to last, so it posts b only when  *)
(* a has left the queue, stored or refused or purged.                      *)
(* Each action is shown to be one of the Moves, and a move keeps LinkInv.  *)
(***************************************************************************)
EXTENDS ConsoleLink, SequenceTheorems, TLAPS

-----------------------------------------------------------------------------
(* Sequences: s holds x before every y.                                     *)
Before(s, x, y) == \E i \in DOMAIN s : s[i] = x /\ \A j \in DOMAIN s : s[j] = y => i < j

LEMMA BeforeNew ==
  ASSUME NEW S, NEW s \in Seq(S), NEW x \in ToSet(s), NEW y, y \notin ToSet(s)
  PROVE  Before(s, x, y)
BY DEF Before, ToSet

LEMMA BeforeAppend ==
  ASSUME NEW S, NEW s \in Seq(S), NEW z \in S, NEW x, NEW y, Before(s, x, y)
  PROVE  Before(Append(s, z), x, y)
BY DEF Before

LEMMA AppendSet ==
  ASSUME NEW S, NEW s \in Seq(S), NEW z \in S
  PROVE  Append(s, z) \in Seq(S) /\ ToSet(Append(s, z)) = ToSet(s) \cup {z}
<1>1. /\ Append(s, z) \in Seq(S) /\ Len(s) \in Nat /\ DOMAIN s = 1 .. Len(s) /\ DOMAIN Append(s, z) = 1 .. Len(s) + 1
      /\ Append(s, z)[Len(s) + 1] = z /\ \A i \in DOMAIN s : Append(s, z)[i] = s[i]
  OBVIOUS
<1>2. QED
  BY <1>1 DEF ToSet

LEMMA ConcatIs ==
  ASSUME NEW S, NEW s \in Seq(S), NEW t \in Seq(S)
  PROVE  /\ s \o t \in Seq(S)
         /\ ToSet(s \o t) = ToSet(s) \cup ToSet(t)
         /\ \A x, y : Before(s, x, y) => Before(s \o t, x, y)
<1>1. /\ s \o t \in Seq(S) /\ Len(s) \in Nat /\ Len(t) \in Nat
      /\ DOMAIN s = 1 .. Len(s) /\ DOMAIN t = 1 .. Len(t) /\ DOMAIN (s \o t) = 1 .. Len(s) + Len(t)
      /\ \A i \in DOMAIN s : (s \o t)[i] = s[i]
      /\ \A i \in DOMAIN t : (s \o t)[Len(s) + i] = t[i]
  OBVIOUS
<1>2. \A i \in DOMAIN (s \o t) : i \in DOMAIN s \/ (i - Len(s) \in DOMAIN t /\ (s \o t)[i] = t[i - Len(s)])
  BY <1>1
<1>3. ToSet(s \o t) = ToSet(s) \cup ToSet(t)
  <2>1. ToSet(s) \subseteq ToSet(s \o t)
    BY <1>1 DEF ToSet
  <2>2. ToSet(t) \subseteq ToSet(s \o t)
    <3>1. \A i \in DOMAIN t : Len(s) + i \in DOMAIN (s \o t)
      BY <1>1
    <3>2. QED
      BY <1>1, <3>1 DEF ToSet
  <2>3. ToSet(s \o t) \subseteq ToSet(s) \cup ToSet(t)
    BY <1>1, <1>2 DEF ToSet
  <2>4. QED
    BY <2>1, <2>2, <2>3
<1>4. ASSUME NEW x, NEW y, Before(s, x, y) PROVE Before(s \o t, x, y)
  BY <1>1, <1>4 DEF Before
<1>5. QED
  BY <1>1, <1>3, <1>4

(* What is read of the queue, and what the purge leaves of it.              *)
LEMMA PrefixIs ==
  ASSUME NEW S, NEW s \in Seq(S), NEW n \in 0 .. Len(s)
  PROVE  /\ SubSeq(s, 1, n) \in Seq(S) /\ Len(SubSeq(s, 1, n)) = n
         /\ ToSet(SubSeq(s, 1, n)) \subseteq ToSet(s)
         /\ \A x, y : Before(s, x, y) /\ y \in ToSet(SubSeq(s, 1, n)) => Before(SubSeq(s, 1, n), x, y)
<1> DEFINE t == SubSeq(s, 1, n)
<1>1. /\ t \in Seq(S) /\ Len(t) = n /\ DOMAIN t = 1 .. n /\ DOMAIN s = 1 .. Len(s) /\ Len(s) \in Nat
      /\ \A i \in 1 .. n : t[i] = s[i]
  OBVIOUS
<1> HIDE DEF t
<1>2. ToSet(t) \subseteq ToSet(s)
  BY <1>1 DEF ToSet
<1>3. ASSUME NEW x, NEW y, Before(s, x, y), y \in ToSet(t) PROVE Before(t, x, y)
  BY <1>1, <1>3 DEF Before, ToSet
<1>4. QED
  BY <1>1, <1>2, <1>3 DEF t

LEMMA SuffixIs ==
  ASSUME NEW S, NEW s \in Seq(S), NEW n \in 1 .. Len(s)
  PROVE  /\ SubSeq(s, n + 1, Len(s)) \in Seq(S)
         /\ ToSet(SubSeq(s, n + 1, Len(s))) \subseteq ToSet(s)
         /\ \A x \in ToSet(s) : x \in ToSet(SubSeq(s, n + 1, Len(s))) \/ \E k \in 1 .. n : s[k] = x
         /\ \A x, y : Before(s, x, y) => Before(SubSeq(s, n + 1, Len(s)), x, y) \/ \E k \in 1 .. n : s[k] = x
<1> DEFINE t == SubSeq(s, n + 1, Len(s))
<1>1. /\ t \in Seq(S) /\ Len(t) = Len(s) - n /\ DOMAIN t = 1 .. Len(s) - n /\ DOMAIN s = 1 .. Len(s) /\ Len(s) \in Nat
      /\ \A i \in DOMAIN t : t[i] = s[n + i]
  OBVIOUS
<1> HIDE DEF t
<1>2. \A i \in DOMAIN s : i > n => i - n \in DOMAIN t /\ t[i - n] = s[i]
  BY <1>1
<1>3. \A i \in DOMAIN t : n + i \in DOMAIN s
  BY <1>1
<1>4. ToSet(t) \subseteq ToSet(s)
  BY <1>1, <1>3 DEF ToSet
<1>5. ASSUME NEW x \in ToSet(s) PROVE x \in ToSet(t) \/ \E k \in 1 .. n : s[k] = x
  BY <1>1, <1>2 DEF ToSet
<1>6. ASSUME NEW x, NEW y, Before(s, x, y), \A k \in 1 .. n : s[k] # x PROVE Before(t, x, y)
  <2>1. PICK i \in DOMAIN s : s[i] = x /\ \A j \in DOMAIN s : s[j] = y => i < j
    BY <1>6 DEF Before
  <2>2. i - n \in DOMAIN t /\ t[i - n] = x
    BY <1>1, <1>2, <1>6, <2>1
  <2>3. \A j \in DOMAIN t : t[j] = y => i - n < j
    BY <1>1, <1>3, <2>1
  <2>4. QED
    BY <2>2, <2>3 DEF Before
<1>7. QED
  BY <1>1, <1>4, <1>5, <1>6 DEF t

LEMMA TailIs ==
  ASSUME NEW S, NEW s \in Seq(S), s # <<>>
  PROVE  /\ Head(s) \in S /\ Head(s) \in ToSet(s) /\ Tail(s) \in Seq(S)
         /\ Len(s) # 1 => Tail(s) # <<>>
         /\ ToSet(Tail(s)) \subseteq ToSet(s)
         /\ \A x, y : Before(s, x, y) => y # Head(s) /\ (x # Head(s) => Before(Tail(s), x, y))
<1> DEFINE t == Tail(s)
<1>1. /\ t \in Seq(S) /\ Len(s) \in Nat /\ Len(s) > 0 /\ DOMAIN s = 1 .. Len(s)
      /\ Len(t) = Len(s) - 1 /\ DOMAIN t = 1 .. Len(s) - 1
      /\ \A i \in DOMAIN t : t[i] = s[i + 1]
      /\ Head(s) = s[1]
  OBVIOUS
<1> HIDE DEF t
<1>2. Len(s) # 1 => t # <<>>
  BY <1>1
<1>3. ToSet(t) \subseteq ToSet(s) /\ Head(s) \in ToSet(s)
  <2>1. \A i \in DOMAIN t : i + 1 \in DOMAIN s
    BY <1>1
  <2>2. QED
    BY <1>1, <2>1 DEF ToSet
<1>4. ASSUME NEW x, NEW y, Before(s, x, y) PROVE y # Head(s) /\ (x # Head(s) => Before(t, x, y))
  <2>1. PICK i \in DOMAIN s : s[i] = x /\ \A j \in DOMAIN s : s[j] = y => i < j
    BY <1>4 DEF Before
  <2>2. y # Head(s)
    BY <1>1, <2>1
  <2>3. ASSUME x # Head(s) PROVE i - 1 \in DOMAIN t /\ t[i - 1] = x
    BY <1>1, <2>1, <2>3
  <2>4. \A j \in DOMAIN t : t[j] = y => i - 1 < j
    BY <1>1, <2>1
  <2>5. QED
    BY <2>2, <2>3, <2>4 DEF Before
<1>5. QED
  BY <1>1, <1>2, <1>3, <1>4 DEF t

LEMMA RemoveIs ==
  ASSUME NEW S, NEW s \in Seq(S), NEW k \in DOMAIN s
  PROVE  /\ RemoveAt(s, k) \in Seq(S)
         /\ ToSet(RemoveAt(s, k)) \subseteq ToSet(s)
         /\ \A x \in ToSet(s) : x # s[k] => x \in ToSet(RemoveAt(s, k))
         /\ \A x, y : Before(s, x, y) /\ x # s[k] => Before(RemoveAt(s, k), x, y)
<1> DEFINE t == RemoveAt(s, k)
<1>1. Len(s) \in Nat /\ DOMAIN s = 1 .. Len(s) /\ k \in Nat /\ k >= 1 /\ k <= Len(s)
  OBVIOUS
<1>2. /\ t \in Seq(S) /\ DOMAIN t = 1 .. Len(s) - 1
      /\ \A i \in DOMAIN t : t[i] = IF i < k THEN s[i] ELSE s[i + 1]
  <2> DEFINE u == SubSeq(s, 1, k - 1)
             v == SubSeq(s, k + 1, Len(s))
  <2>1. u \in Seq(S) /\ Len(u) = k - 1 /\ \A i \in 1 .. k - 1 : u[i] = s[i]
    BY <1>1
  <2>2. v \in Seq(S) /\ Len(v) = Len(s) - k /\ \A i \in 1 .. Len(s) - k : v[i] = s[k + i]
    BY <1>1
  <2>3. t = u \o v
    BY DEF RemoveAt
  <2> HIDE DEF u, v, t
  <2>4. /\ u \o v \in Seq(S) /\ Len(u \o v) = Len(s) - 1 /\ DOMAIN (u \o v) = 1 .. Len(s) - 1
        /\ \A i \in 1 .. Len(s) - 1 : (u \o v)[i] = IF i <= k - 1 THEN u[i] ELSE v[i - (k - 1)]
    <3>1. Len(u) + Len(v) = Len(s) - 1 /\ Len(u) = k - 1 /\ Len(u) \in Nat
      BY <1>1, <2>1, <2>2
    <3>2. /\ u \o v \in Seq(S) /\ Len(u \o v) = Len(u) + Len(v)
          /\ \A i \in 1 .. Len(u) + Len(v) : (u \o v)[i] = IF i <= Len(u) THEN u[i] ELSE v[i - Len(u)]
      BY <2>1, <2>2, ConcatProperties
    <3>3. DOMAIN (u \o v) = 1 .. Len(u \o v)
      BY <3>2
    <3>4. QED
      BY <3>1, <3>2, <3>3
  <2>5. \A i \in 1 .. Len(s) - 1 : ~(i <= k - 1) => i - (k - 1) \in 1 .. Len(s) - k /\ k + (i - (k - 1)) = i + 1
    BY <1>1
  <2>6. ASSUME NEW i \in 1 .. Len(s) - 1 PROVE t[i] = IF i < k THEN s[i] ELSE s[i + 1]
    <3>1. CASE i <= k - 1
      <4>1. i \in 1 .. k - 1 /\ i < k
        BY <1>1, <3>1
      <4>2. t[i] = u[i]
        BY <2>3, <2>4, <3>1
      <4>3. u[i] = s[i]
        BY <2>1, <4>1
      <4>4. QED
        BY <4>1, <4>2, <4>3
    <3>2. CASE ~(i <= k - 1)
      <4>1. t[i] = v[i - (k - 1)]
        BY <2>3, <2>4, <3>2
      <4>2. v[i - (k - 1)] = s[i + 1]
        BY <2>2, <2>5, <3>2
      <4>3. ~(i < k)
        BY <1>1, <3>2
      <4>4. QED
        BY <4>1, <4>2, <4>3
    <3>3. QED
      BY <3>1, <3>2
  <2>7. QED
    BY <2>3, <2>4, <2>6
<1> HIDE DEF t
<1>3. \A i \in DOMAIN s : i # k => \E j \in DOMAIN t : t[j] = s[i] /\ (i < k => j = i) /\ (i > k => j = i - 1)
  <2>1. ASSUME NEW i \in DOMAIN s, i < k PROVE i \in DOMAIN t /\ t[i] = s[i]
    BY <1>1, <1>2, <2>1
  <2>2. ASSUME NEW i \in DOMAIN s, i > k PROVE i - 1 \in DOMAIN t /\ t[i - 1] = s[i]
    BY <1>1, <1>2, <2>2
  <2>3. QED
    BY <1>1, <2>1, <2>2
<1>4. \A j \in DOMAIN t : \E i \in DOMAIN s : s[i] = t[j] /\ i # k /\ (j < k => i = j) /\ (j >= k => i = j + 1)
  BY <1>1, <1>2
<1>5. ToSet(t) \subseteq ToSet(s)
  BY <1>4 DEF ToSet
<1>6. \A x \in ToSet(s) : x # s[k] => x \in ToSet(t)
  BY <1>3 DEF ToSet
<1>7. ASSUME NEW x, NEW y, Before(s, x, y), x # s[k] PROVE Before(t, x, y)
  <2>1. PICK i \in DOMAIN s : s[i] = x /\ \A j \in DOMAIN s : s[j] = y => i < j
    BY <1>7 DEF Before
  <2>2. PICK h \in DOMAIN t : t[h] = x /\ (i < k => h = i) /\ (i > k => h = i - 1)
    BY <1>3, <1>7, <2>1
  <2>3. ASSUME NEW j \in DOMAIN t, t[j] = y PROVE h < j
    BY <1>1, <1>2, <1>4, <1>7, <2>1, <2>2, <2>3
  <2>4. QED
    BY <2>2, <2>3 DEF Before
<1>8. QED
  BY <1>2, <1>5, <1>6, <1>7 DEF t

-----------------------------------------------------------------------------
(* The link.                                                                *)
E(n) == <<"events", n>>

(* Only lists that were given are anywhere.                                 *)
Bounded ==
  /\ ToSet(stored) \subseteq 1 .. emitted
  /\ \A m \in ToSet(queue) \cup ToSet(waiting) \cup ToSet(batch) \cup DOMAIN posting \cup late :
       m[1] = "events" => m[2] \in 1 .. emitted

(* List b was given when the call for a was settled: a is stored, b not or  *)
(* later; or b can still reach the console only through the queue, after a. *)
InOrder(a, b) ==
  \/ a \in dropped \cup crashed \cup purged
  \/ <<a, b>> \in overlapped
  \/ a \in ToSet(stored) /\ \A i, j \in DOMAIN stored : stored[i] = a /\ stored[j] = b => i < j
  \/ /\ b \notin ToSet(stored) /\ E(b) \notin late /\ E(b) \notin DOMAIN posting
     /\ Before(queue, E(a), E(b))
     /\ E(b) \in ToSet(batch) => Before(batch, E(a), E(b))

AllInOrder == \A a, b \in 1 .. emitted : a < b => InOrder(a, b)

LinkInv == TypeOK /\ Accounted /\ Bounded /\ AllInOrder

LEMMA CallIs ==
  /\ \A b \in Base : Fresh(b) \in Call /\ NextBase(b) \in Base
  /\ \A call \in Call, b \in Base : FailsOver(call) => Again(call, b) \in Call
  /\ 0 \in Base /\ NoCall \notin Call
<1>1. 0 \in Base /\ Base \subseteq Nat /\ \A b \in Base : NextBase(b) \in Base
  BY LinkAssumption DEF Base, NextBase
<1>2. /\ \A b \in Base : Fresh(b) \in Call
      /\ \A call \in Call, b \in Base : FailsOver(call) => Again(call, b) \in Call
  BY <1>1, LinkAssumption DEF Fresh, FailsOver, Again, Call, Base
<1>3. NoCall \notin Call
  BY <1>1 DEF NoCall, Call
<1>4. QED
  BY <1>1, <1>2, <1>3

(* A message on its way is settled by the console.                          *)
LEMMA StoredIs ==
  ASSUME TypeOK, NEW m \in Message
  PROVE  /\ Stored(m) \in Seq(Nat)
         /\ ToSet(stored) \subseteq ToSet(Stored(m))
         /\ \A n \in ToSet(Stored(m)) : n \in ToSet(stored) \/ m = E(n)
         /\ m[1] = "events" => m[2] \in ToSet(Stored(m))
<1>1. stored \in Seq(Nat) /\ m[2] \in Nat /\ m = <<m[1], m[2]>>
  BY DEF TypeOK, Message
<1>2. CASE m[1] = "events" /\ m[2] \notin ToSet(stored)
  <2>1. Stored(m) = Append(stored, m[2])
    BY <1>2 DEF Stored
  <2>2. Stored(m) \in Seq(Nat) /\ ToSet(Stored(m)) = ToSet(stored) \cup {m[2]}
    BY <1>1, <2>1, AppendSet
  <2>3. QED
    BY <1>1, <1>2, <2>2 DEF E
<1>3. CASE ~(m[1] = "events" /\ m[2] \notin ToSet(stored))
  BY <1>1, <1>3 DEF Stored
<1>4. QED
  BY <1>2, <1>3

LEMMA AckedIs ==
  ASSUME TypeOK, batch # <<>>
  PROVE  /\ Acked \in Seq(Message)
         /\ ToSet(Acked) \subseteq ToSet(queue)
         /\ \A m \in ToSet(queue) : m # Head(batch) => m \in ToSet(Acked)
         /\ \A x, y : Before(queue, x, y) /\ x # Head(batch) => Before(Acked, x, y)
<1>1. CASE Head(batch) \in ToSet(queue)
  <2>1. PICK k \in DOMAIN queue : queue[k] = Head(batch) /\ Acked = RemoveAt(queue, k)
    BY <1>1 DEF Acked, ToSet
  <2>2. QED
    BY <2>1, RemoveIs DEF TypeOK
<1>2. CASE Head(batch) \notin ToSet(queue)
  BY <1>2 DEF Acked, TypeOK
<1>3. QED
  BY <1>1, <1>2

LEMMA ReadIs ==
  ASSUME NEW rows \in Seq(Message)
  PROVE  /\ Read(rows) \in Seq(Message)
         /\ Read(rows) # <<>> <=> rows # <<>>
         /\ ToSet(Read(rows)) \subseteq ToSet(rows)
         /\ \A x, y : Before(rows, x, y) /\ y \in ToSet(Read(rows)) => Before(Read(rows), x, y)
<1> DEFINE n == IF Len(rows) < Batch THEN Len(rows) ELSE Batch
<1>1. Len(rows) \in Nat /\ n \in 0 .. Len(rows) /\ (Len(rows) > 0 => n > 0)
  BY LinkAssumption
<1>2. Read(rows) = SubSeq(rows, 1, n)
  BY DEF Read
<1> HIDE DEF n
<1>3. Len(Read(rows)) = n /\ Read(rows) \in Seq(Message)
  BY <1>1, <1>2, PrefixIs
<1>4. Read(rows) # <<>> <=> rows # <<>>
  BY <1>1, <1>3
<1>5. QED
  BY <1>1, <1>2, <1>4, PrefixIs

-----------------------------------------------------------------------------
(* What a step may do with the lists under way.                             *)
Settled(m) == m[1] = "events" => m[2] \in ToSet(stored) \cup dropped \cup crashed \cup purged
Places == ToSet(queue) \cup ToSet(waiting) \cup ToSet(batch) \cup DOMAIN posting \cup late
Source == late \cup DOMAIN posting \cup {m \in ToSet(batch) : m = Head(batch)}

(* Nothing leaves the queue or the memory but settled, or for the queue.    *)
Keeps ==
  /\ \A m \in ToSet(queue) : m \in ToSet(queue') \/ Settled(m)'
  /\ \A m \in InMemory : m \in InMemory' \/ m \in ToSet(queue') \/ Settled(m)'

(* The queue and the batch keep their order.                                *)
KeepsOrder ==
  /\ \A x, y : Before(queue, x, y) => Before(queue', x, y) \/ Settled(x)'
  /\ \/ \A x, y : y \in ToSet(batch') /\ Before(queue', x, y) => Before(batch', x, y)
     \/ \A x, y : y \in ToSet(batch') => y \in ToSet(batch) /\ (Before(batch, x, y) => Before(batch', x, y) \/ Settled(x)')

(* A list is POSTed by its own call only when nothing is queued.            *)
PostsLast ==
  \A m \in DOMAIN posting' :
    m \in DOMAIN posting \/ m = E(emitted + 1) \/ (m \in ToSet(waiting) /\ queue' = <<>>)

Moves ==
  /\ \A m \in Places' : m \in Places \/ m[1] # "events" \/ (m[2] = emitted + 1 /\ emitted' = emitted + 1)
  /\ Keeps /\ KeepsOrder /\ PostsLast
  /\ stored' = stored \/ \E m \in Source : stored' = Stored(m)
  /\ late' \subseteq late \cup Source
  /\ dropped \subseteq dropped' /\ crashed \subseteq crashed' /\ purged \subseteq purged'
  /\ overlapped \subseteq overlapped'
  /\ emitted' \in Nat /\ emitted <= emitted'

LEMMA SourceIs ==
  ASSUME LinkInv
  PROVE  /\ Source \subseteq Message /\ Source \subseteq Places /\ emitted \in Nat
         /\ \A a, b \in 1 .. emitted : Before(batch, E(a), E(b)) /\ batch # <<>> => E(b) # Head(batch)
<1>1. Source \subseteq Places
  BY DEF Source, Places
<1>2. Source \subseteq Message
  BY DEF Source, LinkInv, TypeOK, Message, ToSet
<1>3. \A a, b : Before(batch, E(a), E(b)) /\ batch # <<>> => E(b) # Head(batch)
  BY TailIs DEF LinkInv, TypeOK
<1>4. QED
  BY <1>1, <1>2, <1>3 DEF LinkInv, TypeOK

LEMMA MovesAccounted ==
  ASSUME LinkInv, Moves, NEW n \in 1 .. emitted
  PROVE  n \in ToSet(stored') \cup dropped' \cup Queued' \cup {m[2] : m \in InMemory'} \cup crashed' \cup purged'
<1>1. ToSet(stored) \subseteq ToSet(stored')
  BY SourceIs, StoredIs DEF Moves, LinkInv
<1>2. CASE n \in Queued
  <2>1. PICK m \in ToSet(queue) : m[1] = "events" /\ m[2] = n
    BY <1>2 DEF Queued
  <2>2. m \in ToSet(queue') \/ Settled(m)'
    BY DEF Moves, Keeps
  <2>3. QED
    BY <2>1, <2>2 DEF Settled, Queued
<1>3. CASE n \in {m[2] : m \in InMemory}
  <2>1. PICK m \in InMemory : m[2] = n
    BY <1>3
  <2>2. m[1] = "events"
    BY DEF InMemory, LinkInv, TypeOK, ToSet
  <2>3. m \in InMemory' \/ m \in ToSet(queue') \/ Settled(m)'
    BY DEF Moves, Keeps
  <2>4. QED
    BY <2>1, <2>2, <2>3 DEF Settled, Queued
<1>4. QED
  BY <1>1, <1>2, <1>3 DEF LinkInv, Accounted, Moves

LEMMA MovesBounded ==
  ASSUME LinkInv, Moves
  PROVE  Bounded'
<1>1. \A n \in ToSet(stored') : n \in 1 .. emitted
  <2>1. ASSUME NEW m \in Source, stored' = Stored(m), NEW n \in ToSet(stored') PROVE n \in 1 .. emitted
    <3>1. n \in ToSet(stored) \/ m = E(n)
      BY <2>1, SourceIs, StoredIs DEF LinkInv
    <3>2. m = E(n) => n \in 1 .. emitted
      BY SourceIs DEF LinkInv, Bounded, Places, E
    <3>3. QED
      BY <3>1, <3>2 DEF LinkInv, Bounded
  <2>2. QED
    BY <2>1 DEF Moves, LinkInv, Bounded
<1>2. emitted \in Nat /\ emitted' \in Nat /\ emitted <= emitted'
  BY SourceIs DEF Moves
<1>3. \A m \in Places : m[1] = "events" => m[2] \in 1 .. emitted
  BY DEF LinkInv, Bounded, Places
<1>4. \A m \in Places' : m[1] = "events" => m[2] \in 1 .. emitted'
  BY <1>2, <1>3 DEF Moves
<1>5. ToSet(stored') \subseteq 1 .. emitted'
  BY <1>1, <1>2
<1>6. QED
  BY <1>4, <1>5 DEF Bounded, Places

LEMMA MovesInOrder ==
  ASSUME LinkInv, Moves, NEW a \in 1 .. emitted, NEW b \in 1 .. emitted, InOrder(a, b)
  PROVE  InOrder(a, b)'
<1>1. PICK m : stored' = stored \/ (m \in Source /\ stored' = Stored(m))
  BY DEF Moves
<1>2. emitted \in Nat /\ stored \in Seq(Nat)
  BY DEF LinkInv, TypeOK
<1>3. CASE a \in dropped \cup crashed \cup purged \/ <<a, b>> \in overlapped
  BY <1>3 DEF Moves, InOrder
<1>4. CASE a \in ToSet(stored) /\ \A i, j \in DOMAIN stored : stored[i] = a /\ stored[j] = b => i < j
  <2>1. CASE stored' = stored
    BY <1>4, <2>1 DEF InOrder
  <2>2. CASE m \in Source /\ stored' = Stored(m) /\ stored' # stored
    <3>1. m[2] \in Nat /\ m[2] \notin ToSet(stored) /\ stored' = Append(stored, m[2])
      BY <2>2, SourceIs DEF Stored, Message
    <3>2. /\ Len(stored) \in Nat /\ DOMAIN stored = 1 .. Len(stored) /\ DOMAIN stored' = 1 .. Len(stored) + 1
          /\ stored'[Len(stored) + 1] = m[2] /\ \A i \in DOMAIN stored : stored'[i] = stored[i]
      BY <1>2, <3>1
    <3>3. m[2] # a
      BY <1>4, <3>1
    <3>4. a \in ToSet(stored')
      BY <1>4, <3>2 DEF ToSet
    <3>5. \A i, j \in DOMAIN stored' : stored'[i] = a /\ stored'[j] = b => i < j
      BY <1>4, <3>2, <3>3
    <3>6. QED
      BY <3>4, <3>5 DEF InOrder
  <2>3. QED
    BY <1>1, <2>1, <2>2
<1>5. CASE /\ b \notin ToSet(stored) /\ E(b) \notin late /\ E(b) \notin DOMAIN posting
           /\ Before(queue, E(a), E(b))
           /\ E(b) \in ToSet(batch) => Before(batch, E(a), E(b))
  <2>1. E(b) \notin Source
    <3>1. ASSUME E(b) \in ToSet(batch), E(b) = Head(batch) PROVE FALSE
      <4>1. batch # <<>>
        BY <3>1 DEF ToSet
      <4>2. QED
        BY <1>5, <3>1, <4>1, SourceIs
    <3>2. QED
      BY <1>5, <3>1 DEF Source
  <2>2. b \notin ToSet(stored')
    <3>1. m \in Source /\ stored' = Stored(m) => \A n \in ToSet(stored') : n \in ToSet(stored) \/ m = E(n)
      BY SourceIs, StoredIs DEF LinkInv
    <3>2. QED
      BY <1>1, <1>5, <2>1, <3>1
  <2>3. CASE Settled(E(a))'
    <3>1. a \in ToSet(stored') \cup dropped' \cup crashed' \cup purged'
      BY <2>3 DEF Settled, E
    <3>2. \A j \in DOMAIN stored' : stored'[j] # b
      BY <2>2 DEF ToSet
    <3>3. QED
      BY <3>1, <3>2 DEF InOrder
  <2>4. CASE ~Settled(E(a))'
    <3>1. Before(queue', E(a), E(b))
      BY <1>5, <2>4 DEF Moves, KeepsOrder
    <3>2. E(b) \in ToSet(batch') => Before(batch', E(a), E(b))
      BY <1>5, <2>4, <3>1 DEF Moves, KeepsOrder
    <3>3. E(b) \notin late'
      BY <1>5, <2>1 DEF Moves
    <3>4. E(b) \notin DOMAIN posting'
      <4>1. queue' # <<>>
        BY <3>1 DEF Before
      <4>2. E(b) # E(emitted + 1)
        BY <1>2 DEF E
      <4>3. QED
        BY <1>5, <4>1, <4>2 DEF Moves, PostsLast
    <3>5. QED
      BY <2>2, <3>1, <3>2, <3>3, <3>4 DEF InOrder
  <2>5. QED
    BY <2>3, <2>4
<1>6. QED
  BY <1>3, <1>4, <1>5 DEF InOrder

(* A step that is given nothing new.                                        *)
LEMMA MovesKeep ==
  ASSUME LinkInv, Moves, emitted' = emitted, TypeOK'
  PROVE  LinkInv'
<1>1. Accounted'
  BY MovesAccounted DEF Accounted
<1>2. AllInOrder'
  BY MovesInOrder DEF LinkInv, AllInOrder
<1>3. QED
  BY <1>1, <1>2, MovesBounded DEF LinkInv

-----------------------------------------------------------------------------
(* A pass begins, or goes on with the rows it now reads.                    *)
LEMMA PassReads ==
  ASSUME TypeOK, NEW rows \in Seq(Message), queue' = rows, ReadRows(rows)
  PROVE  /\ batch' \in Seq(Message) /\ draining' \in Call \cup {NoCall}
         /\ draining' # NoCall <=> batch' # <<>>
         /\ ToSet(batch') \subseteq ToSet(queue')
         /\ \A x, y : y \in ToSet(batch') /\ Before(queue', x, y) => Before(batch', x, y)
<1>1. Fresh(cur) \in Call /\ NoCall \notin Call
  BY CallIs DEF TypeOK
<1>2. QED
  BY <1>1, ReadIs DEF ReadRows

LEMMA BatchStays ==
  ASSUME TypeOK, UNCHANGED passVars
  PROVE  /\ batch' \in Seq(Message) /\ draining' \in Call \cup {NoCall}
         /\ draining' # NoCall <=> batch' # <<>>
         /\ ToSet(batch') = ToSet(batch)
         /\ \A x, y : y \in ToSet(batch') => y \in ToSet(batch) /\ (Before(batch, x, y) => Before(batch', x, y))
BY DEF passVars, TypeOK, Flushing

(* The pass ends: those who awaited it go on.                               *)
LEMMA PassStops ==
  ASSUME TypeOK, NEW rest \in Seq(Message), EndPass(rest),
         \A m \in ToSet(queue) : m \in ToSet(rest) \/ Settled(m)',
         \A x, y : Before(queue, x, y) => Before(rest, x, y) \/ Settled(x)',
         ToSet(rest) \subseteq ToSet(queue)
  PROVE  /\ queue' \in Seq(Message) /\ waiting' \in Seq({"events"} \X Nat)
         /\ DOMAIN posting' \subseteq {"events"} \X Nat /\ \A m \in DOMAIN posting' : posting'[m] \in Call
         /\ batch' \in Seq(Message) /\ draining' \in Call \cup {NoCall}
         /\ draining' # NoCall <=> batch' # <<>>
         /\ Keeps /\ KeepsOrder /\ PostsLast
         /\ ToSet(queue') \cup ToSet(waiting') \cup ToSet(batch') \cup DOMAIN posting' \subseteq Places
<1>1. /\ waiting \in Seq(Message) /\ waiting \in Seq({"events"} \X Nat) /\ ToSet(waiting) \subseteq {"events"} \X Nat
      /\ Fresh(cur) \in Call
  <2>1. waiting \in Seq({"events"} \X Nat)
    BY DEF TypeOK
  <2>2. {"events"} \X Nat \subseteq Message
    BY DEF Message
  <2>3. ToSet(waiting) \subseteq {"events"} \X Nat
    BY <2>1 DEF ToSet
  <2>4. QED
    BY <2>1, <2>2, <2>3, CallIs, SeqMonotonic DEF TypeOK
<1>2. /\ draining' = NoCall /\ batch' = <<>> /\ waiting' = <<>>
      /\ ToSet(batch') = {} /\ ToSet(waiting') = {}
  BY DEF EndPass, ToSet
<1>3. CASE rest # <<>>
  <2>1. queue' = rest \o waiting /\ posting' = posting
    BY <1>3 DEF EndPass
  <2>2. /\ queue' \in Seq(Message) /\ ToSet(queue') = ToSet(rest) \cup ToSet(waiting)
        /\ \A x, y : Before(rest, x, y) => Before(queue', x, y)
    BY <1>1, <2>1, ConcatIs
  <2>3. Keeps
    BY <2>1, <2>2 DEF Keeps, InMemory
  <2>4. KeepsOrder
    BY <1>2, <2>2 DEF KeepsOrder
  <2>5. PostsLast
    BY <2>1 DEF PostsLast
  <2>6. QED
    BY <1>2, <2>1, <2>2, <2>3, <2>4, <2>5 DEF TypeOK, Places
<1>4. CASE rest = <<>>
  <2>1. /\ queue' = <<>> /\ DOMAIN posting' = DOMAIN posting \cup ToSet(waiting)
        /\ \A m \in DOMAIN posting' : posting'[m] = IF m \in DOMAIN posting THEN posting[m] ELSE Fresh(cur)
    BY <1>4 DEF EndPass
  <2>2. queue' \in Seq(Message) /\ ToSet(queue') = {} /\ ToSet(rest) = {}
    BY <1>4, <2>1 DEF ToSet
  <2>3. Keeps
    BY <2>1, <2>2 DEF Keeps, InMemory
  <2>4. KeepsOrder
    <3>1. \A x, y : ~Before(rest, x, y)
      BY <1>4 DEF Before
    <3>2. QED
      BY <1>2, <3>1 DEF KeepsOrder
  <2>5. PostsLast
    BY <2>1 DEF PostsLast
  <2>6. DOMAIN posting' \subseteq {"events"} \X Nat /\ \A m \in DOMAIN posting' : posting'[m] \in Call
    BY <1>1, <2>1 DEF TypeOK
  <2>7. QED
    BY <1>2, <2>1, <2>2, <2>3, <2>4, <2>5, <2>6 DEF TypeOK, Places
<1>5. QED
  BY <1>3, <1>4

(* The row at hand is done with.                                            *)
LEMMA RowDone ==
  ASSUME TypeOK, Flushing, NextRow, NEW h, h = Head(batch), Settled(h)'
  PROVE  /\ queue' \in Seq(Message) /\ waiting' \in Seq({"events"} \X Nat)
         /\ DOMAIN posting' \subseteq {"events"} \X Nat /\ \A m \in DOMAIN posting' : posting'[m] \in Call
         /\ batch' \in Seq(Message) /\ draining' \in Call \cup {NoCall}
         /\ draining' # NoCall <=> batch' # <<>>
         /\ Keeps /\ KeepsOrder /\ PostsLast
         /\ ToSet(queue') \cup ToSet(waiting') \cup ToSet(batch') \cup DOMAIN posting' \subseteq Places
<1>1. batch # <<>> /\ batch \in Seq(Message) /\ Len(batch) \in Nat /\ Len(batch) # 0
  BY DEF TypeOK
<1>2. /\ Acked \in Seq(Message) /\ ToSet(Acked) \subseteq ToSet(queue)
      /\ \A m \in ToSet(queue) : m \in ToSet(Acked) \/ Settled(m)'
      /\ \A x, y : Before(queue, x, y) => Before(Acked, x, y) \/ Settled(x)'
  BY <1>1, AckedIs
<1>3. CASE EndPass(<<>>) /\ Acked = <<>>
  BY <1>2, <1>3, PassStops
<1>4. CASE queue' = Acked /\ UNCHANGED <<waiting, posting>> /\ ReadRows(Acked)
  <2>1. /\ batch' \in Seq(Message) /\ draining' \in Call \cup {NoCall}
        /\ draining' # NoCall <=> batch' # <<>>
        /\ ToSet(batch') \subseteq ToSet(queue')
        /\ \A x, y : y \in ToSet(batch') /\ Before(queue', x, y) => Before(batch', x, y)
    BY <1>2, <1>4, PassReads
  <2>2. Keeps
    BY <1>2, <1>4 DEF Keeps, InMemory
  <2>3. KeepsOrder
    BY <1>2, <1>4, <2>1 DEF KeepsOrder
  <2>4. PostsLast
    BY <1>4 DEF PostsLast
  <2>5. QED
    BY <1>2, <1>4, <2>1, <2>2, <2>3, <2>4 DEF TypeOK, Places
<1>5. CASE queue' = Acked /\ UNCHANGED <<waiting, posting>> /\ Len(batch) # 1 /\ batch' = Tail(batch) /\ draining' = Fresh(cur)
  <2>1. /\ batch' \in Seq(Message) /\ batch' # <<>> /\ ToSet(batch') \subseteq ToSet(batch)
        /\ \A x, y : Before(batch, x, y) => Before(batch', x, y) \/ Settled(x)'
    BY <1>1, <1>5, TailIs
  <2>2. draining' \in Call /\ draining' # NoCall
    BY <1>5, CallIs DEF TypeOK
  <2>3. Keeps
    BY <1>2, <1>5 DEF Keeps, InMemory
  <2>4. KeepsOrder
    BY <1>2, <1>5, <2>1 DEF KeepsOrder
  <2>5. PostsLast
    BY <1>5 DEF PostsLast
  <2>6. QED
    BY <1>2, <1>5, <2>1, <2>2, <2>3, <2>4, <2>5 DEF TypeOK, Places
<1>6. QED
  BY <1>1, <1>3, <1>4, <1>5 DEF NextRow

(* A step that leaves the queue and the pass alone.                         *)
LEMMA NothingMoves ==
  ASSUME TypeOK, UNCHANGED <<queue, passVars>>,
         \A m \in InMemory : m \in InMemory' \/ Settled(m)',
         DOMAIN posting' \subseteq DOMAIN posting
  PROVE  Keeps /\ KeepsOrder /\ PostsLast
BY BatchStays DEF Keeps, KeepsOrder, PostsLast

LEMMA LeftBehindIs ==
  ASSUME LinkInv, NEW m \in Source, NEW unreachable, LeftBehind(m, unreachable)
  PROVE  /\ stored' = stored \/ stored' = Stored(m)
         /\ stored' \in Seq(Nat)
         /\ late' \subseteq late \cup Source /\ late' \subseteq Message
BY SourceIs, StoredIs DEF LeftBehind, LinkInv, TypeOK

-----------------------------------------------------------------------------
(* The steps, one by one.                                                   *)
LEMMA PostSteps ==
  ASSUME LinkInv, NEW m \in DOMAIN posting,
         \/ PostAnswered(m) \/ PostRefused(m) \/ PostFailsOver(m)
         \/ \E unreachable \in BOOLEAN : PostFails(m, unreachable)
  PROVE  LinkInv'
<1> USE DEF purgeVars
<1>1. m \in Source /\ m \in Message /\ m[1] = "events" /\ m[2] \in Nat /\ TypeOK
  BY DEF Source, LinkInv, TypeOK, Message
<1>2. CASE PostAnswered(m)
  <2>1. Settled(m)'
    BY <1>1, <1>2, StoredIs DEF PostAnswered, Settled
  <2>2. DOMAIN posting' = DOMAIN posting \ {m} /\ \A x \in DOMAIN posting' : posting'[x] = posting[x]
    BY <1>2 DEF PostAnswered, Without
  <2>3. Keeps /\ KeepsOrder /\ PostsLast
    BY <1>1, <1>2, <2>1, <2>2, NothingMoves DEF PostAnswered, InMemory
  <2>4. Moves
    BY <1>1, <1>2, <2>2, <2>3, SourceIs DEF PostAnswered, passVars, Moves, Places
  <2>5. TypeOK'
    BY <1>1, <1>2, <2>2, StoredIs DEF PostAnswered, passVars, TypeOK, Flushing
  <2>6. QED
    BY <1>2, <2>4, <2>5, MovesKeep DEF PostAnswered
<1>3. CASE PostRefused(m)
  <2>1. Settled(m)' /\ dropped \subseteq dropped' /\ dropped' \subseteq Nat
    BY <1>1, <1>3 DEF PostRefused, Refused, Settled, TypeOK
  <2>2. DOMAIN posting' = DOMAIN posting \ {m} /\ \A x \in DOMAIN posting' : posting'[x] = posting[x]
    BY <1>3 DEF PostRefused, Without
  <2>3. Keeps /\ KeepsOrder /\ PostsLast
    BY <1>1, <1>3, <2>1, <2>2, NothingMoves DEF PostRefused, InMemory
  <2>4. Moves
    BY <1>3, <2>1, <2>2, <2>3, SourceIs DEF PostRefused, passVars, Moves, Places
  <2>5. TypeOK'
    BY <1>1, <1>3, <2>1, <2>2 DEF PostRefused, passVars, TypeOK, Flushing
  <2>6. QED
    BY <1>3, <2>4, <2>5, MovesKeep DEF PostRefused
<1>4. CASE PostFailsOver(m)
  <2>1. /\ DOMAIN posting' = DOMAIN posting /\ \A x \in DOMAIN posting' : posting'[x] \in Call
        /\ cur' \in Base
    BY <1>1, <1>4, CallIs DEF PostFailsOver, Put, TypeOK
  <2>2. Keeps /\ KeepsOrder /\ PostsLast
    BY <1>1, <1>4, <2>1, NothingMoves DEF PostFailsOver, InMemory
  <2>3. /\ stored' = stored \/ stored' = Stored(m)
        /\ stored' \in Seq(Nat)
        /\ late' \subseteq late \cup Source /\ late' \subseteq Message
    BY <1>1, <1>4, LeftBehindIs DEF PostFailsOver
  <2>4. Moves
    BY <1>1, <1>4, <2>1, <2>2, <2>3, SourceIs DEF PostFailsOver, passVars, Moves, Places
  <2>5. TypeOK'
    BY <1>1, <1>4, <2>1, <2>3 DEF PostFailsOver, passVars, TypeOK, Flushing
  <2>6. QED
    BY <1>4, <2>4, <2>5, MovesKeep DEF PostFailsOver
<1>5. ASSUME NEW unreachable \in BOOLEAN, PostFails(m, unreachable) PROVE LinkInv'
  <2>1. DOMAIN posting' = DOMAIN posting \ {m} /\ \A x \in DOMAIN posting' : posting'[x] = posting[x]
    BY <1>5 DEF PostFails, Without
  <2>2. /\ queue' \in Seq(Message) /\ ToSet(queue') = ToSet(queue) \cup {m}
        /\ \A x, y : Before(queue, x, y) => Before(queue', x, y)
    BY <1>1, <1>5, AppendSet, BeforeAppend DEF PostFails, TypeOK
  <2>3. /\ UNCHANGED <<passVars, waiting>>
        /\ stored' = stored \/ stored' = Stored(m)
        /\ stored' \in Seq(Nat)
        /\ late' \subseteq late \cup Source /\ late' \subseteq Message
    BY <1>1, <1>5, LeftBehindIs DEF PostFails
  <2>4. Keeps /\ PostsLast
    BY <2>1, <2>2, <2>3 DEF Keeps, InMemory, PostsLast
  <2>5. KeepsOrder
    BY <1>1, <2>2, <2>3, BatchStays DEF KeepsOrder
  <2>6. Moves
    BY <1>1, <1>5, <2>1, <2>2, <2>3, <2>4, <2>5, SourceIs DEF PostFails, passVars, Moves, Places
  <2>7. TypeOK'
    BY <1>1, <1>5, <2>1, <2>2, <2>3 DEF PostFails, passVars, TypeOK, Flushing
  <2>8. QED
    BY <1>5, <2>6, <2>7, MovesKeep DEF PostFails
<1>6. QED
  BY <1>2, <1>3, <1>4, <1>5

LEMMA RowSteps ==
  ASSUME LinkInv, RowAnswered \/ RowRefused \/ RowFailsOver \/ \E unreachable \in BOOLEAN : RowFails(unreachable)
  PROVE  LinkInv'
<1> USE DEF purgeVars
<1> DEFINE h == Head(batch)
<1>1. TypeOK /\ Flushing /\ batch # <<>> /\ h \in ToSet(batch) /\ h \in Message
  <2>1. batch # <<>> /\ batch \in Seq(Message) /\ TypeOK /\ Flushing
    BY DEF RowAnswered, RowRefused, RowFailsOver, RowFails, LinkInv, TypeOK
  <2>2. QED
    BY <2>1, TailIs
<1>2. h \in Source /\ (h[1] = "events" => h[2] \in Nat)
  BY <1>1 DEF Source, Message
<1>3. PICK g : g = h
  OBVIOUS
<1>4. g \in Source /\ g \in Message
  BY <1>1, <1>2, <1>3
<1>5. CASE RowAnswered
  <2>1. stored' = Stored(g) /\ NextRow /\ resting' = FALSE
        /\ UNCHANGED <<emitted, batches, cur, late, dropped, crashed, overlapped, faults, restarts, purgeVars>>
    BY <1>3, <1>5 DEF RowAnswered
  <2>2. Settled(g)' /\ stored' \in Seq(Nat)
    BY <1>1, <1>4, <2>1, StoredIs DEF Settled
  <2> HIDE DEF h
  <2>3. /\ queue' \in Seq(Message) /\ waiting' \in Seq({"events"} \X Nat)
        /\ DOMAIN posting' \subseteq {"events"} \X Nat /\ \A m \in DOMAIN posting' : posting'[m] \in Call
        /\ batch' \in Seq(Message) /\ draining' \in Call \cup {NoCall}
        /\ draining' # NoCall <=> batch' # <<>>
        /\ Keeps /\ KeepsOrder /\ PostsLast
        /\ ToSet(queue') \cup ToSet(waiting') \cup ToSet(batch') \cup DOMAIN posting' \subseteq Places
    BY <1>1, <1>3, <2>1, <2>2, RowDone DEF h
  <2>4. Moves
    BY <1>4, <2>1, <2>3, SourceIs DEF Moves, Places
  <2>5. TypeOK'
    BY <1>1, <2>1, <2>2, <2>3 DEF TypeOK, Flushing
  <2>6. QED
    BY <2>1, <2>4, <2>5, MovesKeep
<1>6. CASE RowRefused
  <2>1. dropped' = Refused(g) /\ NextRow
        /\ UNCHANGED <<emitted, batches, resting, cur, late, stored, crashed, overlapped, restarts, purgeVars>>
    BY <1>3, <1>6 DEF RowRefused
  <2>2. Settled(g)' /\ dropped \subseteq dropped' /\ dropped' \subseteq Nat
    BY <1>1, <1>2, <1>3, <2>1 DEF Refused, Settled, TypeOK
  <2> HIDE DEF h
  <2>3. /\ queue' \in Seq(Message) /\ waiting' \in Seq({"events"} \X Nat)
        /\ DOMAIN posting' \subseteq {"events"} \X Nat /\ \A m \in DOMAIN posting' : posting'[m] \in Call
        /\ batch' \in Seq(Message) /\ draining' \in Call \cup {NoCall}
        /\ draining' # NoCall <=> batch' # <<>>
        /\ Keeps /\ KeepsOrder /\ PostsLast
        /\ ToSet(queue') \cup ToSet(waiting') \cup ToSet(batch') \cup DOMAIN posting' \subseteq Places
    BY <1>1, <1>3, <2>1, <2>2, RowDone DEF h
  <2>4. Moves
    BY <2>1, <2>2, <2>3, SourceIs DEF Moves, Places
  <2>5. TypeOK'
    BY <1>1, <2>1, <2>2, <2>3 DEF TypeOK, Flushing
  <2>6. QED
    BY <2>1, <2>4, <2>5, MovesKeep
<1>7. CASE RowFailsOver
  <2>1. /\ UNCHANGED <<emitted, batches, queue, waiting, posting, batch, resting, dropped, crashed, overlapped, restarts, purgeVars>>
        /\ cur' = NextBase(cur) /\ FailsOver(draining) /\ draining' = Again(draining, cur') /\ LeftBehind(g, TRUE)
    BY <1>3, <1>7 DEF RowFailsOver
  <2>2. /\ stored' = stored \/ stored' = Stored(g)
        /\ stored' \in Seq(Nat)
        /\ late' \subseteq late \cup Source /\ late' \subseteq Message
    BY <1>4, <2>1, LeftBehindIs
  <2>3. cur' \in Base /\ draining' \in Call /\ draining' # NoCall
    <3>1. draining \in Call /\ cur' \in Base
      BY <1>1, <1>7, <2>1, CallIs DEF RowFailsOver, Flushing, TypeOK
    <3>2. QED
      BY <2>1, <3>1, CallIs
  <2> HIDE DEF h
  <2>4. Keeps /\ KeepsOrder /\ PostsLast
    BY <2>1 DEF Keeps, InMemory, KeepsOrder, PostsLast
  <2>5. Moves
    BY <1>4, <2>1, <2>2, <2>4, SourceIs DEF Moves, Places
  <2>6. TypeOK'
    BY <1>1, <2>1, <2>2, <2>3 DEF TypeOK, Flushing
  <2>7. QED
    BY <2>1, <2>5, <2>6, MovesKeep
<1>8. ASSUME NEW unreachable \in BOOLEAN, RowFails(unreachable) PROVE LinkInv'
  <2>1. /\ EndPass(queue) /\ LeftBehind(g, unreachable) /\ resting' = TRUE
        /\ UNCHANGED <<emitted, batches, cur, dropped, crashed, overlapped, restarts, purgeVars>>
    BY <1>3, <1>8 DEF RowFails
  <2>2. /\ stored' = stored \/ stored' = Stored(g)
        /\ stored' \in Seq(Nat)
        /\ late' \subseteq late \cup Source /\ late' \subseteq Message
    BY <1>4, <2>1, LeftBehindIs
  <2> HIDE DEF h
  <2>3. /\ queue' \in Seq(Message) /\ waiting' \in Seq({"events"} \X Nat)
        /\ DOMAIN posting' \subseteq {"events"} \X Nat /\ \A m \in DOMAIN posting' : posting'[m] \in Call
        /\ batch' \in Seq(Message) /\ draining' \in Call \cup {NoCall}
        /\ draining' # NoCall <=> batch' # <<>>
        /\ Keeps /\ KeepsOrder /\ PostsLast
        /\ ToSet(queue') \cup ToSet(waiting') \cup ToSet(batch') \cup DOMAIN posting' \subseteq Places
    <3>1. queue \in Seq(Message)
      BY <1>1 DEF TypeOK
    <3>2. QED
      BY <1>1, <2>1, <3>1, PassStops
  <2>4. Moves
    BY <1>4, <2>1, <2>2, <2>3, SourceIs DEF Moves, Places
  <2>5. TypeOK'
    BY <1>1, <2>1, <2>2, <2>3 DEF TypeOK, Flushing
  <2>6. QED
    BY <2>1, <2>4, <2>5, MovesKeep
<1>9. QED
  BY <1>5, <1>6, <1>7, <1>8

(* A pass that may begin over the queue as it is after the step.            *)
LEMMA PassMayBegin ==
  ASSUME TypeOK, queue' \in Seq(Message), UNCHANGED passVars \/ ReadRows(queue')
  PROVE  /\ batch' \in Seq(Message) /\ draining' \in Call \cup {NoCall}
         /\ draining' # NoCall <=> batch' # <<>>
         /\ ToSet(batch') \subseteq ToSet(queue') \cup ToSet(batch)
         /\ (\A x, y : Before(queue, x, y) => Before(queue', x, y)) => KeepsOrder
<1>1. CASE UNCHANGED passVars
  BY <1>1, BatchStays DEF KeepsOrder
<1>2. CASE ReadRows(queue')
  <2>1. PICK rows \in Seq(Message) : rows = queue'
    OBVIOUS
  <2>2. ReadRows(rows)
    BY <1>2, <2>1 DEF ReadRows
  <2>3. /\ batch' \in Seq(Message) /\ draining' \in Call \cup {NoCall}
        /\ draining' # NoCall <=> batch' # <<>>
        /\ ToSet(batch') \subseteq ToSet(queue')
        /\ \A x, y : y \in ToSet(batch') /\ Before(queue', x, y) => Before(batch', x, y)
    BY <2>1, <2>2, PassReads
  <2>4. QED
    BY <2>3 DEF KeepsOrder
<1>3. QED
  BY <1>1, <1>2

LEMMA OtherSteps ==
  ASSUME LinkInv,
         \/ Telemetry \/ Flush \/ RestOver \/ OtherFailsOver \/ Restart
         \/ \E m \in late : LateArrival(m)
         \/ \E n \in DOMAIN queue : PurgeOld(n)
  PROVE  LinkInv'
<1> USE DEF purgeVars
<1>1. TypeOK
  BY DEF LinkInv
<1>2. CASE Telemetry
  <2> DEFINE t == <<"telemetry", batches + 1>>
  <2>1. t \in Message /\ t[1] # "events"
    BY <1>1 DEF Message, TypeOK
  <2>2. queue' = Append(queue, t) /\ (UNCHANGED passVars \/ ReadRows(queue')) /\ batches' \in Nat
    BY <1>1, <1>2 DEF Telemetry, TypeOK
  <2> HIDE DEF t
  <2>3. /\ queue' \in Seq(Message) /\ ToSet(queue') = ToSet(queue) \cup {t}
        /\ \A x, y : Before(queue, x, y) => Before(queue', x, y)
    BY <1>1, <2>1, <2>2, AppendSet, BeforeAppend DEF TypeOK
  <2>4. /\ batch' \in Seq(Message) /\ draining' \in Call \cup {NoCall}
        /\ draining' # NoCall <=> batch' # <<>>
        /\ ToSet(batch') \subseteq ToSet(queue') \cup ToSet(batch)
        /\ KeepsOrder
    BY <1>1, <2>2, <2>3, PassMayBegin
  <2>5. Keeps /\ PostsLast
    BY <1>2, <2>3 DEF Telemetry, Keeps, InMemory, PostsLast
  <2>6. UNCHANGED <<emitted, waiting, posting, resting, cur, late, stored, dropped, crashed, overlapped, purged>>
    BY <1>2 DEF Telemetry
  <2>7. \A m \in Places' : m \in Places \/ m[1] # "events"
    BY <2>1, <2>3, <2>4, <2>6 DEF Places
  <2>8. Moves
    BY <2>4, <2>5, <2>6, <2>7, SourceIs DEF Moves
  <2>9. TypeOK'
    BY <1>1, <2>2, <2>3, <2>4, <2>6 DEF TypeOK, Flushing
  <2>10. QED
    BY <2>6, <2>8, <2>9, MovesKeep
<1>3. CASE Flush \/ RestOver \/ OtherFailsOver
  <2>1. /\ UNCHANGED <<emitted, batches, queue, waiting, posting, late, stored, dropped, crashed, overlapped, restarts, purgeVars>>
        /\ UNCHANGED passVars \/ ReadRows(queue)
        /\ resting' \in BOOLEAN /\ cur' \in Base
    BY <1>1, <1>3, CallIs DEF Flush, RestOver, OtherFailsOver, StartPass, TypeOK
  <2>2. UNCHANGED passVars \/ ReadRows(queue')
    BY <2>1
  <2>3. queue' \in Seq(Message)
    BY <1>1, <2>1 DEF TypeOK
  <2>4. /\ batch' \in Seq(Message) /\ draining' \in Call \cup {NoCall}
        /\ draining' # NoCall <=> batch' # <<>>
        /\ ToSet(batch') \subseteq ToSet(queue') \cup ToSet(batch)
        /\ KeepsOrder
    BY <1>1, <2>1, <2>2, <2>3, PassMayBegin
  <2>5. Keeps /\ PostsLast
    BY <2>1 DEF Keeps, InMemory, PostsLast
  <2>6. Moves
    BY <2>1, <2>4, <2>5, SourceIs DEF Moves, Places
  <2>7. TypeOK'
    BY <1>1, <2>1, <2>3, <2>4 DEF TypeOK, Flushing
  <2>8. QED
    BY <2>1, <2>6, <2>7, MovesKeep
<1>4. CASE Restart
  <2>1. /\ waiting' = <<>> /\ DOMAIN posting' = {} /\ draining' = NoCall /\ batch' = <<>> /\ resting' = FALSE /\ cur' = 0
        /\ crashed' = crashed \cup {m[2] : m \in InMemory}
        /\ UNCHANGED <<emitted, batches, queue, stored, dropped, overlapped, purgeVars>>
    BY <1>4 DEF Restart
  <2>2. late' \subseteq late \cup Source
    <3>1. Flushing => Head(batch) \in Source
      BY <1>1, TailIs DEF Source, TypeOK
    <3>2. QED
      BY <1>4, <3>1 DEF Restart, Source
  <2>3. ToSet(batch') = {} /\ ToSet(waiting') = {}
    BY <2>1 DEF ToSet
  <2>4. Keeps /\ PostsLast
    <3>1. \A m \in InMemory : Settled(m)'
      BY <2>1 DEF Settled
    <3>2. QED
      BY <2>1, <3>1 DEF Keeps, PostsLast
  <2>5. KeepsOrder
    BY <2>1, <2>3 DEF KeepsOrder
  <2>6. Moves
    BY <2>1, <2>2, <2>3, <2>4, <2>5, SourceIs DEF Moves, Places
  <2>7. TypeOK'
    <3>1. crashed' \subseteq Nat
      <4>1. ToSet(waiting) \subseteq {"events"} \X Nat
        BY <1>1 DEF TypeOK, ToSet
      <4>2. \A m \in InMemory : m \in {"events"} \X Nat
        BY <1>1, <4>1 DEF InMemory, TypeOK
      <4>3. \A m \in InMemory : m[2] \in Nat
        BY <4>2
      <4>4. QED
        BY <1>1, <2>1, <4>3 DEF TypeOK
    <3>2. late' \subseteq Message
      BY <1>1, <2>2, SourceIs DEF TypeOK
    <3>3. QED
      <4>1. /\ draining' \in Call \cup {NoCall} /\ (draining' # NoCall <=> batch' # <<>>)
            /\ batch' \in Seq(Message) /\ waiting' \in Seq({"events"} \X Nat)
        BY <2>1
      <4>2. DOMAIN posting' \subseteq {"events"} \X Nat /\ \A m \in DOMAIN posting' : posting'[m] \in Call
        BY <2>1
      <4>3. QED
        BY <1>1, <2>1, <3>1, <3>2, <4>1, <4>2, CallIs DEF TypeOK, Flushing
  <2>8. QED
    BY <2>1, <2>6, <2>7, MovesKeep
<1>5. ASSUME NEW m \in late, LateArrival(m) PROVE LinkInv'
  <2>1. m \in Source /\ m \in Message
    BY <1>1 DEF Source, TypeOK
  <2>2. /\ UNCHANGED <<emitted, batches, queue, waiting, posting, draining, batch, resting, cur, dropped, crashed, overlapped, purged>>
        /\ stored' = Stored(m) /\ late' \subseteq late
    BY <1>5 DEF LateArrival, linkVars
  <2>3. Keeps /\ KeepsOrder /\ PostsLast
    BY <2>2 DEF Keeps, InMemory, KeepsOrder, PostsLast
  <2>4. Moves
    BY <2>1, <2>2, <2>3, SourceIs DEF Moves, Places
  <2>5. TypeOK'
    BY <1>1, <2>1, <2>2, StoredIs DEF TypeOK, Flushing
  <2>6. QED
    BY <2>2, <2>4, <2>5, MovesKeep
<1>6. ASSUME NEW n \in DOMAIN queue, PurgeOld(n) PROVE LinkInv'
  <2>1. /\ UNCHANGED <<emitted, batches, waiting, posting, passVars, resting, cur, late, stored, dropped, crashed, overlapped>>
        /\ queue' = SubSeq(queue, n + 1, Len(queue))
        /\ purged' = purged \cup {x[2] : x \in {queue[k] : k \in {y \in 1 .. n : queue[y][1] = "events"}}}
    BY <1>6 DEF PurgeOld
  <2>2. queue \in Seq(Message) /\ n \in 1 .. Len(queue)
    BY <1>1 DEF TypeOK
  <2>3. \A x : (\E k \in 1 .. n : queue[k] = x) => Settled(x)'
    BY <2>1 DEF Settled
  <2>4. /\ queue' \in Seq(Message) /\ ToSet(queue') \subseteq ToSet(queue)
        /\ \A x \in ToSet(queue) : x \in ToSet(queue') \/ Settled(x)'
        /\ \A x, y : Before(queue, x, y) => Before(queue', x, y) \/ Settled(x)'
    BY <2>1, <2>2, <2>3, SuffixIs
  <2>5. Keeps /\ PostsLast
    BY <2>1, <2>4 DEF Keeps, InMemory, PostsLast
  <2>6. KeepsOrder
    BY <1>1, <2>1, <2>4, BatchStays DEF KeepsOrder
  <2>7. Moves
    BY <2>1, <2>4, <2>5, <2>6, SourceIs DEF passVars, Moves, Places
  <2>8. TypeOK'
    <3>1. purged' \subseteq Nat
      <4>1. \A k \in 1 .. n : queue[k] \in Message
        BY <2>2
      <4>2. \A k \in 1 .. n : queue[k][2] \in Nat
        BY <4>1 DEF Message
      <4>3. QED
        BY <1>1, <2>1, <4>2 DEF TypeOK
    <3>2. QED
      BY <1>1, <2>1, <2>4, <3>1 DEF passVars, TypeOK, Flushing
  <2>9. QED
    BY <2>1, <2>7, <2>8, MovesKeep
<1>7. QED
  BY <1>2, <1>3, <1>4, <1>5, <1>6

(* A list is given to events().                                             *)
LEMMA EventsStep ==
  ASSUME LinkInv, Events
  PROVE  LinkInv'
<1> DEFINE m == E(emitted + 1)
<1>1. TypeOK /\ emitted \in Nat /\ emitted' = emitted + 1
  BY DEF Events, LinkInv, TypeOK
<1>2. m \in Message /\ m \in {"events"} \X Nat /\ m[1] = "events" /\ m[2] = emitted + 1
  BY <1>1 DEF E, Message
<1>3. /\ UNCHANGED <<batches, resting, cur, late, stored, dropped, crashed, faults, restarts, purgeVars>>
      /\ overlapped' = overlapped \cup {<<x[2], emitted + 1>> : x \in InMemory}
  BY DEF Events
<1>4. \/ /\ queue = <<>> /\ UNCHANGED <<queue, waiting, passVars>>
         /\ posting' = Put(posting, m, Fresh(cur))
      \/ /\ UNCHANGED <<queue, posting>> /\ waiting' = Append(waiting, m)
         /\ UNCHANGED passVars \/ ReadRows(queue)
      \/ queue' = Append(queue, m) /\ UNCHANGED <<waiting, posting, passVars>>
  BY DEF Events, StartPass, E
<1> HIDE DEF m
<1> DEFINE Kept == /\ queue' \in Seq(Message) /\ ToSet(queue') \subseteq ToSet(queue) \cup {m} /\ ToSet(queue) \subseteq ToSet(queue')
                   /\ waiting' \in Seq({"events"} \X Nat)
                   /\ ToSet(waiting') \subseteq ToSet(waiting) \cup {m} /\ ToSet(waiting) \subseteq ToSet(waiting')
                   /\ DOMAIN posting' \subseteq DOMAIN posting \cup {m} /\ DOMAIN posting \subseteq DOMAIN posting'
                   /\ \A x \in DOMAIN posting' : posting'[x] \in Call
                   /\ m \in DOMAIN posting' => m \in DOMAIN posting \/ queue = <<>>
                   /\ m \in ToSet(queue') \/ m \in ToSet(waiting') \/ m \in DOMAIN posting'
           OrderKept == \A x, y : Before(queue, x, y) => Before(queue', x, y)
<1>5. Kept /\ OrderKept
  <2>1. CASE queue = <<>> /\ UNCHANGED <<queue, waiting>> /\ posting' = Put(posting, m, Fresh(cur))
    <3>1. DOMAIN posting' = DOMAIN posting \cup {m} /\ \A x \in DOMAIN posting' : posting'[x] \in Call
      BY <1>1, <2>1, CallIs DEF Put, TypeOK
    <3>2. QED
      BY <1>1, <2>1, <3>1 DEF TypeOK
  <2>2. CASE UNCHANGED <<queue, posting>> /\ waiting' = Append(waiting, m)
    <3>1. waiting' \in Seq({"events"} \X Nat) /\ ToSet(waiting') = ToSet(waiting) \cup {m}
      <4> DEFINE S == {"events"} \X Nat
      <4>1. waiting \in Seq(S) /\ m \in S
        BY <1>1, <1>2 DEF TypeOK
      <4> HIDE DEF S
      <4>2. Append(waiting, m) \in Seq(S) /\ ToSet(Append(waiting, m)) = ToSet(waiting) \cup {m}
        BY <4>1, AppendSet
      <4>3. QED
        BY <2>2, <4>2 DEF S
    <3>2. QED
      BY <1>1, <2>2, <3>1 DEF TypeOK
  <2>3. CASE queue' = Append(queue, m) /\ UNCHANGED <<waiting, posting>>
    <3>1. queue' \in Seq(Message) /\ ToSet(queue') = ToSet(queue) \cup {m}
      BY <1>1, <1>2, <2>3, AppendSet DEF TypeOK
    <3>2. OrderKept
      BY <1>1, <1>2, <2>3, BeforeAppend DEF TypeOK
    <3>3. QED
      BY <1>1, <2>3, <3>1, <3>2 DEF TypeOK
  <2>4. QED
    BY <1>4, <2>1, <2>2, <2>3
<1>9. /\ batch' \in Seq(Message) /\ draining' \in Call \cup {NoCall}
      /\ draining' # NoCall <=> batch' # <<>>
      /\ ToSet(batch') \subseteq ToSet(queue') \cup ToSet(batch)
      /\ KeepsOrder
  <2>1. UNCHANGED passVars \/ ReadRows(queue')
    BY <1>4
  <2>2. QED
    BY <1>1, <1>5, <2>1, PassMayBegin
<1>10. TypeOK'
  BY <1>1, <1>2, <1>3, <1>5, <1>9 DEF purgeVars, TypeOK, Flushing
<1>11. Moves
  <2>1. Keeps
    BY <1>5 DEF Keeps, InMemory
  <2>2. PostsLast
    BY <1>5 DEF m, PostsLast
  <2>3. QED
    BY <1>1, <1>2, <1>3, <1>5, <1>9, <2>1, <2>2 DEF purgeVars, Moves, Places
<1>12. Accounted'
  <2>1. emitted + 1 \in Queued' \/ emitted + 1 \in {x[2] : x \in InMemory'}
    BY <1>2, <1>5 DEF Queued, InMemory
  <2>2. \A n \in 1 .. emitted' : n \in 1 .. emitted \/ n = emitted + 1
    BY <1>1
  <2>3. QED
    BY <1>11, <2>1, <2>2, MovesAccounted DEF Accounted
<1>13. ASSUME NEW a \in 1 .. emitted, NEW b, b = emitted + 1, ~InOrder(a, b)' PROVE FALSE
  <2>1. a \notin dropped \cup crashed \cup purged /\ <<a, b>> \notin overlapped'
    BY <1>3, <1>13 DEF purgeVars, InOrder
  <2>2. b \notin ToSet(stored) /\ E(b) = m /\ m \notin late /\ m \notin ToSet(queue) /\ m \notin ToSet(batch) /\ m \notin DOMAIN posting
    BY <1>1, <1>2, <1>13 DEF m, LinkInv, Bounded
  <2>3. a \notin ToSet(stored)
    <3>1. \A j \in DOMAIN stored : stored[j] # b
      BY <2>2 DEF ToSet
    <3>2. QED
      BY <1>3, <1>13, <3>1 DEF purgeVars, InOrder
  <2>4. a \notin {x[2] : x \in InMemory}
    BY <1>3, <1>13, <2>1
  <2>5. a \in Queued
    BY <2>1, <2>3, <2>4 DEF LinkInv, Accounted
  <2>6. E(a) \in ToSet(queue)
    <3>1. PICK x \in ToSet(queue) : x[1] = "events" /\ x[2] = a
      BY <2>5 DEF Queued
    <3>2. x \in Message
      BY <1>1 DEF TypeOK, ToSet
    <3>3. x = E(a)
      BY <3>1, <3>2 DEF Message, E
    <3>4. QED
      BY <3>3
  <2>7. Before(queue, E(a), m)
    BY <1>1, <2>2, <2>6, BeforeNew DEF TypeOK
  <2>8. Before(queue', E(a), m)
    BY <1>5, <2>7
  <2>9. m \notin DOMAIN posting'
    <3>1. queue # <<>>
      BY <2>6 DEF ToSet
    <3>2. QED
      BY <1>5, <2>2, <3>1
  <2>10. m \in ToSet(batch') => Before(batch', E(a), m)
    BY <1>9, <2>2, <2>8 DEF KeepsOrder
  <2>11. InOrder(a, b)'
    BY <1>3, <2>2, <2>8, <2>9, <2>10 DEF purgeVars, InOrder
  <2>12. QED
    BY <1>13, <2>11
<1>14. AllInOrder'
  <2>1. \A a, b \in 1 .. emitted' : a < b => a \in 1 .. emitted /\ (b \in 1 .. emitted \/ b = emitted + 1)
    BY <1>1
  <2>2. \A a, b \in 1 .. emitted : a < b => InOrder(a, b)'
    BY <1>11, MovesInOrder DEF LinkInv, AllInOrder
  <2>3. \A a \in 1 .. emitted : \A b : b = emitted + 1 => InOrder(a, b)'
    BY <1>13
  <2>4. QED
    BY <2>1, <2>2, <2>3 DEF AllInOrder
<1>15. QED
  BY <1>10, <1>11, <1>12, <1>14, MovesBounded DEF LinkInv

-----------------------------------------------------------------------------
LEMMA LinkInit == Init => LinkInv
<1> SUFFICES ASSUME Init PROVE LinkInv
  OBVIOUS
<1>1. /\ emitted = 0 /\ queue = <<>> /\ waiting = <<>> /\ batch = <<>> /\ stored = <<>>
      /\ DOMAIN posting = {} /\ late = {} /\ draining = NoCall
  BY DEF Init
<1>2. TypeOK
  <2>1. /\ queue \in Seq(Message) /\ batch \in Seq(Message)
        /\ waiting \in Seq({"events"} \X Nat) /\ stored \in Seq(Nat)
    <3>1. \A S : <<>> \in Seq(S)
      OBVIOUS
    <3>2. QED
      BY <1>1, <3>1
  <2>2. cur \in Base /\ batches \in Nat /\ resting \in BOOLEAN /\ crashed = {} /\ dropped = {} /\ purged = {}
    BY CallIs DEF Init
  <2>3. QED
    BY <1>1, <2>1, <2>2 DEF TypeOK, Flushing
<1>3. Bounded
  BY <1>1 DEF Bounded, ToSet
<1>4. QED
  BY <1>1, <1>2, <1>3 DEF LinkInv, Accounted, AllInOrder

LEMMA LinkStep == LinkInv /\ [Next]_vars => LinkInv'
<1> SUFFICES ASSUME LinkInv, [Next]_vars PROVE LinkInv'
  OBVIOUS
<1>1. CASE Events
  BY <1>1, EventsStep
<1>2. CASE \/ Telemetry \/ Flush \/ RestOver \/ OtherFailsOver \/ Restart
           \/ \E m \in late : LateArrival(m)
           \/ \E n \in DOMAIN queue : PurgeOld(n)
  BY <1>2, OtherSteps
<1>3. CASE \/ \E m \in DOMAIN posting : PostAnswered(m) \/ PostRefused(m) \/ PostFailsOver(m)
           \/ \E m \in DOMAIN posting, unreachable \in BOOLEAN : PostFails(m, unreachable)
  BY <1>3, PostSteps
<1>4. CASE RowAnswered \/ RowRefused \/ RowFailsOver \/ \E unreachable \in BOOLEAN : RowFails(unreachable)
  BY <1>4, RowSteps
<1>5. CASE UNCHANGED vars
  <2>1. TypeOK'
    BY <1>5 DEF LinkInv, vars, linkVars, passVars, purgeVars, TypeOK, Flushing
  <2>2. Accounted' /\ Bounded' /\ AllInOrder'
    BY <1>5 DEF LinkInv, vars, linkVars, passVars, purgeVars, Accounted, Queued, InMemory, Bounded, AllInOrder, InOrder
  <2>3. QED
    BY <2>1, <2>2 DEF LinkInv
<1>6. QED
  BY <1>1, <1>2, <1>3, <1>4, <1>5 DEF Next

LEMMA LinkHolds == Spec => []LinkInv
BY LinkInit, LinkStep, PTL DEF Spec

(* client.js and buffer.js: every variable keeps its type through all calls,*)
(* and a flush pass is under way exactly when it has rows left to deal with.*)
THEOREM TypeCorrect == Spec => []TypeOK
<1>1. LinkInv => TypeOK
  BY DEF LinkInv
<1>2. QED
  BY <1>1, LinkHolds, PTL

(* client.js events(), flush() and buffer.js: whatever the callers and the  *)
(* answers do, each list given to events() is stored, refused, queued or in *)
(* the hands of a call, unless the process died or the retention took it.   *)
THEOREM NoListForgotten == Spec => []Accounted
<1>1. LinkInv => Accounted
  BY DEF LinkInv
<1>2. QED
  BY <1>1, LinkHolds, PTL

(* client.js 179-182, "anything waiting goes first": a list given to        *)
(* events() once the call for an earlier one was settled never reaches the  *)
(* console before it, through failovers, late arrivals and restarts.        *)
THEOREM ListsInOrder == Spec => []OrderedApart
<1>1. LinkInv => OrderedApart
  <2> SUFFICES ASSUME LinkInv, NEW i \in DOMAIN stored, NEW j \in DOMAIN stored, i < j, stored[j] < stored[i]
               PROVE  \/ stored[j] \in dropped \cup crashed \cup purged
                      \/ <<stored[j], stored[i]>> \in overlapped
    BY DEF OrderedApart
  <2>1. stored[i] \in ToSet(stored) /\ stored[j] \in ToSet(stored) /\ i \in Nat /\ j \in Nat
    BY DEF ToSet, LinkInv, TypeOK
  <2>2. stored[i] \in 1 .. emitted /\ stored[j] \in 1 .. emitted
    BY <2>1 DEF LinkInv, Bounded
  <2>3. InOrder(stored[j], stored[i])
    BY <2>2 DEF LinkInv, AllInOrder
  <2>4. QED
    BY <2>1, <2>3 DEF InOrder
<1>2. QED
  BY <1>1, LinkHolds, PTL
====
