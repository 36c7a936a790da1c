----------------------------- MODULE IngestProofs -----------------------------
(***************************************************************************)
(* Proofs about Ingest, for every value of its constants: any number of    *)
(* collectors, events in any order, lost or replayed.                      *)
(*                                                                         *)
(* Why the tables agree (OpenWhileHeld): a transaction changes the holders *)
(* of one FMS alarm only, and its state with them.                         *)
(* Why the ledger is true (SettledIsTrue, MergeKept), when events come in  *)
(* order: an engine raises an alarm once and speaks of it only while it is *)
(* open (LogInv), and of each collector the ledger has read a prefix, its  *)
(* sources being what that prefix leaves (LedgerInv).  So an update or a   *)
(* clear finds its alarm open, and a raise finds it unknown.               *)
(***************************************************************************)
EXTENDS Ingest, FiniteSetTheorems, TLAPS

(* A mapped alarm keeps its FMS alarm; a new one gets its own, or an open   *)
(* one of the same condition.                                               *)
LEMMA TargetFact ==
  ASSUME TypeOK, NEW kind, NEW a \in AlarmId, NEW b \in Target(kind, a)
  PROVE  /\ b \in AlarmId
         /\ a \in DOMAIN sources => b = sources[a].alarm
         /\ a \notin DOMAIN sources => b[2] = a[2]
<1>1. CASE a \in DOMAIN sources
  BY <1>1 DEF Target, TypeOK, Source
<1>2. CASE a \notin DOMAIN sources
  <2>1. b \in OpenFor(a) \/ b = a
    BY <1>2 DEF Target
  <2>2. QED
    BY <1>2, <2>1 DEF OpenFor, TypeOK
<1>3. QED
  BY <1>1, <1>2

LEMMA RaiseCountNat ==
  ASSUME TypeOK, NEW c \in Collector, NEW k
  PROVE  RaiseCount(c, k) \in Nat
<1> DEFINE S == {i \in DOMAIN log[c] : log[c][i].kind = "alarm_raise" /\ log[c][i].alarm[2] = k}
<1>1. Len(log[c]) \in Nat /\ S \subseteq 1 .. Len(log[c])
  BY DEF TypeOK
<1>2. IsFiniteSet(1 .. Len(log[c]))
  BY <1>1, FS_Interval
<1>3. IsFiniteSet(S)
  BY <1>1, <1>2, FS_Subset
<1>4. QED
  BY <1>3, FS_CardinalityType DEF RaiseCount

(* An event read back from a log is one that was sent.                      *)
LEMMA EventRead ==
  ASSUME TypeOK, NEW c \in Collector, NEW id \in Position(c)
  PROVE  /\ id \in EventId
         /\ log[id[1]][id[2]].kind \in Kind
         /\ log[id[1]][id[2]].alarm \in AlarmId
<1>1. PICK i \in DOMAIN log[c] : id = <<c, i>>
  BY DEF Position
<1>2. i \in Nat /\ log[c][i] \in [kind : Kind, alarm : AlarmId]
  <2> DEFINE E == [kind : Kind, alarm : AlarmId]
  <2>1. log[c] \in Seq(E)
    BY DEF TypeOK
  <2> HIDE DEF E
  <2>2. i \in 1 .. Len(log[c]) /\ Len(log[c]) \in Nat
    BY <1>1, <2>1
  <2>3. log[c][i] \in E
    BY <2>1, <2>2
  <2>4. QED
    BY <2>2, <2>3 DEF E
<1>3. QED
  BY <1>1, <1>2 DEF EventId

TablesTyped ==
  /\ stored \subseteq EventId
  /\ DOMAIN sources \subseteq AlarmId
  /\ \A a \in DOMAIN sources : sources[a] \in Source
  /\ DOMAIN alarms \subseteq AlarmId
  /\ \A a \in DOMAIN alarms : alarms[a] \in {"open", "cleared"}

LEMMA StoreType ==
  ASSUME TypeOK, NEW id \in EventId, NEW kind, NEW a \in AlarmId, Store(id, kind, a)
  PROVE  TablesTyped'
<1>1. PICK b \in Target(kind, a) :
        /\ stored' = stored \cup {id}
        /\ sources' = Put(sources, a, [alarm |-> b, state |-> IF kind = "alarm_clear" THEN "cleared" ELSE "open"])
        /\ alarms' = Applied(kind, b) \/ alarms' = alarms
  BY DEF Store
<1>2. b \in AlarmId
  BY TargetFact
<1>3. DOMAIN sources' \subseteq AlarmId /\ \A x \in DOMAIN sources' : sources'[x] \in Source
  <2>1. [alarm |-> b, state |-> IF kind = "alarm_clear" THEN "cleared" ELSE "open"] \in Source
    BY <1>2 DEF Source
  <2>2. QED
    BY <1>1, <2>1 DEF Put, TypeOK
<1>4. DOMAIN alarms' \subseteq AlarmId /\ \A x \in DOMAIN alarms' : alarms'[x] \in {"open", "cleared"}
  <2>1. \/ alarms' = alarms
        \/ alarms' = Put(alarms, b, "open")
        \/ alarms' = Put(alarms, b, "cleared")
    BY <1>1 DEF Applied
  <2>2. QED
    BY <1>2, <2>1 DEF Put, TypeOK
<1>5. QED
  BY <1>1, <1>3, <1>4 DEF TablesTyped, TypeOK

(* Every variable of the ledger and its collectors keeps its type.          *)
THEOREM LedgerTypeCorrect == Spec => []TypeOK
<1>1. Init => TypeOK
  BY IngestAssumption DEF Init, TypeOK
<1>2. TypeOK /\ [Next]_vars => TypeOK'
  <2> SUFFICES ASSUME TypeOK, [Next]_vars PROVE TypeOK'
    OBVIOUS
  <2>1. ASSUME NEW c \in Collector, NEW kind \in Kind, NEW a \in AlarmId, Send(c, kind, a)
        PROVE  /\ log' \in [Collector -> Seq([kind : Kind, alarm : AlarmId])]
               /\ UNCHANGED <<orderly, lost, stored, sources, alarms>>
    <3> DEFINE E == [kind : Kind, alarm : AlarmId]
               e == [kind |-> kind, alarm |-> a]
    <3>1. e \in E /\ log \in [Collector -> Seq(E)]
      BY DEF TypeOK
    <3>2. log' = [log EXCEPT ![c] = Append(@, e)] /\ UNCHANGED <<orderly, lost, tables>>
      BY <2>1 DEF Send
    <3> HIDE DEF E, e
    <3>3. log' \in [Collector -> Seq(E)]
      BY <3>1, <3>2
    <3>4. QED
      BY <3>2, <3>3 DEF E, tables
  <2>2. ASSUME NEW c \in Collector, NEW k \in Key, Raise(c, k) PROVE TypeOK'
    <3> DEFINE a == <<c, k, RaiseCount(c, k) + 1>>
    <3>1. a \in AlarmId
      BY RaiseCountNat DEF AlarmId
    <3>2. Send(c, "alarm_raise", a) /\ standing' = standing \cup {a}
      BY <2>2 DEF Raise
    <3> HIDE DEF a
    <3>3. QED
      BY <2>1, <3>1, <3>2 DEF Kind, TypeOK
  <2>3. ASSUME NEW a \in standing, Update(a) \/ Clear(a) PROVE TypeOK'
    <3>1. a \in AlarmId /\ a[1] \in Collector
      BY DEF TypeOK, AlarmId
    <3>2. Send(a[1], "alarm_update", a) \/ Send(a[1], "alarm_clear", a)
      BY <2>3 DEF Update, Clear
    <3>3. standing' \subseteq standing
      BY <2>3 DEF Update, Clear
    <3>4. QED
      BY <2>1, <3>1, <3>2, <3>3 DEF Kind, TypeOK
  <2>4. ASSUME NEW c \in Collector, NEW id \in Position(c), Lose(id) PROVE TypeOK'
    BY <2>4, EventRead DEF Lose, tables, TypeOK
  <2>5. ASSUME NEW c \in Collector, NEW id \in Position(c), Receive(id) PROVE TypeOK'
    <3>1. /\ UNCHANGED <<orderly, log, standing, lost>>
          /\ UNCHANGED tables \/ Store(id, log[id[1]][id[2]].kind, log[id[1]][id[2]].alarm)
      BY <2>5 DEF Receive, collectorVars
    <3>2. TablesTyped'
      BY <3>1, EventRead, StoreType DEF tables, TypeOK, TablesTyped
    <3>3. QED
      BY <3>1, <3>2 DEF TypeOK, TablesTyped
  <2>6. CASE UNCHANGED vars
    BY <2>6 DEF vars, collectorVars, tables, TypeOK
  <2>7. QED
    BY <2>2, <2>3, <2>4, <2>5, <2>6 DEF Next
<1>3. QED
  BY <1>1, <1>2, PTL DEF Spec

-----------------------------------------------------------------------------
(* The two tables agree after every transaction.                            *)
LEMMA StoreKeepsAgreement ==
  ASSUME TypeOK, OpenWhileHeld, NEW id, NEW kind \in Kind, NEW a \in AlarmId, Store(id, kind, a)
  PROVE  OpenWhileHeld'
<1> DEFINE state == IF kind = "alarm_clear" THEN "cleared" ELSE "open"
<1>1. PICK b \in Target(kind, a) :
        /\ sources' = Put(sources, a, [alarm |-> b, state |-> state])
        /\ IF Effective(kind, a, b) THEN alarms' = Applied(kind, b) ELSE alarms' = alarms
  BY DEF Store
<1>2. /\ a \in DOMAIN sources => b = sources[a].alarm
      /\ b[2] = a[2]
  BY TargetFact DEF OpenWhileHeld
<1>3. /\ DOMAIN sources' = DOMAIN sources \cup {a}
      /\ sources'[a] = [alarm |-> b, state |-> state]
      /\ \A s \in DOMAIN sources : s # a => sources'[s] = sources[s]
  BY <1>1 DEF Put
<1>4. \A x : x # b => Holders(x)' = Holders(x)
  <2> TAKE x
  <2> HAVE x # b
  <2>1. a \notin Holders(x) /\ a \notin Holders(x)'
    BY <1>2, <1>3 DEF Holders
  <2>2. QED
    BY <1>3, <2>1 DEF Holders
<1>5. Holders(b)' = IF state = "open" THEN Holders(b) \cup {a} ELSE Holders(b) \ {a}
  BY <1>3 DEF Holders
<1>6. \A s \in DOMAIN sources' : sources'[s].alarm[2] = s[2]
  BY <1>2, <1>3 DEF OpenWhileHeld
<1>7. CASE kind # "alarm_clear"
  <2>1. state = "open" /\ Holders(b)' # {}
    BY <1>5, <1>7
  <2>2. \/ alarms' = Put(alarms, b, "open")
        \/ alarms' = alarms /\ IsOpen(b)
    BY <1>1, <1>7 DEF Effective, Applied
  <2>3. /\ DOMAIN alarms' = DOMAIN alarms \cup {b}
        /\ alarms'[b] = "open"
        /\ \A x \in DOMAIN alarms : x # b => alarms'[x] = alarms[x]
    BY <2>2 DEF Put, IsOpen
  <2>4. \A x \in DOMAIN alarms' : IsOpen(x)' <=> Holders(x)' # {}
    BY <1>4, <2>1, <2>3 DEF OpenWhileHeld, IsOpen
  <2>5. \A s \in DOMAIN sources' : sources'[s].state = "open" => sources'[s].alarm \in DOMAIN alarms'
    BY <1>3, <2>3 DEF OpenWhileHeld
  <2>6. QED
    BY <1>6, <2>4, <2>5 DEF OpenWhileHeld
<1>8. CASE kind = "alarm_clear"
  <2>0. state = "cleared" /\ Holders(b)' = Holders(b) \ {a}
    BY <1>5, <1>8
  <2>1. OthersOpen(b, a) <=> Holders(b)' # {}
    BY <2>0 DEF OthersOpen, Holders
  <2>2. DOMAIN alarms' = DOMAIN alarms /\ \A x \in DOMAIN alarms : x # b => alarms'[x] = alarms[x]
    BY <1>1, <1>8 DEF Put, Applied
  <2>3. b \in DOMAIN alarms => (IsOpen(b)' <=> Holders(b)' # {})
    <3> HAVE b \in DOMAIN alarms
    <3>1. CASE OthersOpen(b, a)
      <4>1. alarms' = alarms /\ Holders(b) # {}
        BY <1>1, <1>8, <2>0, <2>1, <3>1 DEF Effective
      <4>2. QED
        BY <2>1, <3>1, <4>1 DEF OpenWhileHeld, IsOpen
    <3>2. CASE ~OthersOpen(b, a)
      <4>1. alarms' = Put(alarms, b, "cleared")
        BY <1>1, <1>8, <3>2 DEF Effective, Applied
      <4>2. alarms'[b] = "cleared"
        BY <4>1 DEF Put
      <4>3. QED
        BY <2>1, <3>2, <4>2 DEF IsOpen
    <3>3. QED
      BY <3>1, <3>2
  <2>4. \A x \in DOMAIN alarms' : IsOpen(x)' <=> Holders(x)' # {}
    BY <1>4, <2>2, <2>3 DEF OpenWhileHeld, IsOpen
  <2>5. \A s \in DOMAIN sources' : sources'[s].state = "open" => sources'[s].alarm \in DOMAIN alarms'
    BY <1>3, <2>0, <2>2 DEF OpenWhileHeld
  <2>6. QED
    BY <1>6, <2>4, <2>5 DEF OpenWhileHeld
<1>9. QED
  BY <1>7, <1>8

(* An FMS alarm is open exactly while a collector alarm mapped to it is,    *)
(* for any number of collectors and any order of delivery.                  *)
THEOREM HeldOpen == Spec => []OpenWhileHeld
<1>1. Init => OpenWhileHeld
  BY DEF Init, OpenWhileHeld
<1>2. TypeOK /\ OpenWhileHeld /\ [Next]_vars => OpenWhileHeld'
  <2> SUFFICES ASSUME TypeOK, OpenWhileHeld, [Next]_vars PROVE OpenWhileHeld'
    OBVIOUS
  <2>1. ASSUME UNCHANGED tables PROVE OpenWhileHeld'
    BY <2>1 DEF tables, OpenWhileHeld, IsOpen, Holders
  <2>2. ASSUME NEW c \in Collector, NEW id \in Position(c), Receive(id) PROVE OpenWhileHeld'
    <3>1. UNCHANGED tables \/ Store(id, log[id[1]][id[2]].kind, log[id[1]][id[2]].alarm)
      BY <2>2 DEF Receive
    <3>2. QED
      BY <2>1, <3>1, EventRead, StoreKeepsAgreement
  <2>3. ASSUME NEW c \in Collector, NEW k \in Key, Raise(c, k) PROVE OpenWhileHeld'
    BY <2>1, <2>3 DEF Raise, Send
  <2>4. ASSUME NEW a \in standing, Update(a) \/ Clear(a) PROVE OpenWhileHeld'
    BY <2>1, <2>4 DEF Update, Clear, Send
  <2>5. ASSUME NEW c \in Collector, NEW id \in Position(c), Lose(id) PROVE OpenWhileHeld'
    BY <2>1, <2>5 DEF Lose
  <2>6. CASE UNCHANGED vars
    BY <2>1, <2>6 DEF vars
  <2>7. QED
    BY <2>2, <2>3, <2>4, <2>5, <2>6 DEF Next
<1>3. QED
  BY <1>1, <1>2, LedgerTypeCorrect, PTL DEF Spec

-----------------------------------------------------------------------------
(* What a collector's alarm is after the first p events of the log l.       *)
Event(kind, a) == [kind |-> kind, alarm |-> a]
Raised(l, a, p) == \E i \in 1 .. p : l[i] = Event("alarm_raise", a)
OpenAfter(l, a, p) ==
  \E i \in 1 .. p :
    l[i] = Event("alarm_raise", a) /\ \A j \in i + 1 .. p : l[j] # Event("alarm_clear", a)

(* An engine raises an alarm once, and speaks of it only while it is open.  *)
LogLegal ==
  \A c \in Collector : \A i \in DOMAIN log[c] :
    LET a == log[c][i].alarm IN
    /\ a[1] = c /\ a[3] <= RaiseCount(c, a[2]) /\ a[3] \in 1 .. MaxSent
    /\ log[c][i].kind = "alarm_raise" => ~Raised(log[c], a, i - 1)
    /\ log[c][i].kind # "alarm_raise" => OpenAfter(log[c], a, i - 1)

StandingIsOpen ==
  \A a \in AlarmId : a \in standing <=> OpenAfter(log[a[1]], a, Len(log[a[1]]))

LogInv == LogLegal /\ StandingIsOpen /\ IsFiniteSet(Sent)

(* The ledger has read p events of c, in the order they were sent.          *)
ReadTo(c, p) ==
  /\ \A i \in Nat : <<c, i>> \in stored <=> i \in 1 .. p
  /\ \A a \in AlarmId : a[1] = c =>
       /\ a \in DOMAIN sources <=> Raised(log[c], a, p)
       /\ a \in DOMAIN sources => (sources[a].state = "open" <=> OpenAfter(log[c], a, p))

LedgerInv ==
  orderly => /\ lost = {}
             /\ DOMAIN alarms \subseteq DOMAIN sources
             /\ \A c \in Collector : \E p \in 0 .. Len(log[c]) : ReadTo(c, p)

LEMMA NextEvent ==
  ASSUME NEW l, NEW a, NEW p \in Nat
  PROVE  /\ Raised(l, a, p + 1) <=> Raised(l, a, p) \/ l[p + 1] = Event("alarm_raise", a)
         /\ OpenAfter(l, a, p + 1) <=> \/ l[p + 1] = Event("alarm_raise", a)
                                       \/ OpenAfter(l, a, p) /\ l[p + 1] # Event("alarm_clear", a)
         /\ OpenAfter(l, a, p) => Raised(l, a, p)
         /\ ~Raised(l, a, 0)
<1>1. 1 .. p + 1 = 1 .. p \cup {p + 1} /\ 1 .. 0 = {}
  OBVIOUS
<1>2. \A i \in 1 .. p : i + 1 .. p + 1 = i + 1 .. p \cup {p + 1}
  OBVIOUS
<1>3. (p + 1) + 1 .. p + 1 = {}
  OBVIOUS
<1>4. Raised(l, a, p + 1) <=> Raised(l, a, p) \/ l[p + 1] = Event("alarm_raise", a)
  BY <1>1 DEF Raised
<1>5. /\ OpenAfter(l, a, p) => Raised(l, a, p)
      /\ ~Raised(l, a, 0)
  BY <1>1 DEF Raised, OpenAfter
<1>6. ASSUME OpenAfter(l, a, p + 1)
      PROVE  \/ l[p + 1] = Event("alarm_raise", a)
             \/ OpenAfter(l, a, p) /\ l[p + 1] # Event("alarm_clear", a)
  <2>1. PICK i \in 1 .. p + 1 : l[i] = Event("alarm_raise", a) /\ \A j \in i + 1 .. p + 1 : l[j] # Event("alarm_clear", a)
    BY <1>6 DEF OpenAfter
  <2>2. CASE i \in 1 .. p
    <3>1. i \in Nat /\ p + 1 \in i + 1 .. p + 1 /\ \A j \in i + 1 .. p : j \in i + 1 .. p + 1
      BY <2>2
    <3>2. l[p + 1] # Event("alarm_clear", a) /\ \A j \in i + 1 .. p : l[j] # Event("alarm_clear", a)
      BY <2>1, <3>1
    <3>3. QED
      BY <2>1, <2>2, <3>2 DEF OpenAfter
  <2>3. CASE i = p + 1
    BY <2>1, <2>3
  <2>4. QED
    BY <1>1, <2>2, <2>3
<1>7. ASSUME l[p + 1] = Event("alarm_raise", a) PROVE OpenAfter(l, a, p + 1)
  BY <1>1, <1>3, <1>7 DEF OpenAfter
<1>8. ASSUME OpenAfter(l, a, p), l[p + 1] # Event("alarm_clear", a) PROVE OpenAfter(l, a, p + 1)
  BY <1>1, <1>2, <1>8 DEF OpenAfter
<1>9. QED
  BY <1>4, <1>5, <1>6, <1>7, <1>8

LEMMA EarlierEvents ==
  ASSUME NEW S, NEW l \in Seq(S), NEW e \in S, NEW a, NEW p \in 0 .. Len(l)
  PROVE  /\ Raised(Append(l, e), a, p) <=> Raised(l, a, p)
         /\ OpenAfter(Append(l, e), a, p) <=> OpenAfter(l, a, p)
<1>1. Len(l) \in Nat /\ \A i \in 1 .. p : Append(l, e)[i] = l[i]
  OBVIOUS
<1>2. \A i \in 1 .. p : \A j \in i + 1 .. p : j \in 1 .. p
  OBVIOUS
<1>3. QED
  BY <1>1, <1>2 DEF Raised, OpenAfter

(* An event added to a log.                                                 *)
LEMMA LogGrows ==
  ASSUME TypeOK, NEW c \in Collector, NEW kind \in Kind, NEW a \in AlarmId, Send(c, kind, a)
  PROVE  /\ log'[c] = Append(log[c], Event(kind, a)) /\ \A d \in Collector \ {c} : log'[d] = log[d]
         /\ \A d \in Collector : log[d] \in Seq([kind : Kind, alarm : AlarmId])
         /\ Event(kind, a) \in [kind : Kind, alarm : AlarmId]
         /\ UNCHANGED <<orderly, lost, stored, sources, alarms>>
<1>1. Event(kind, a) \in [kind : Kind, alarm : AlarmId]
  BY DEF Event
<1>2. log' = [log EXCEPT ![c] = Append(@, Event(kind, a))]
  BY DEF Send, Event
<1>3. QED
  BY <1>1, <1>2 DEF Send, tables, TypeOK

(* A log's entries are the events put into it.                              *)
LEMMA EventIs ==
  ASSUME NEW e \in [kind : Kind, alarm : AlarmId], NEW kind, NEW a
  PROVE  e = Event(kind, a) <=> e.kind = kind /\ e.alarm = a
BY DEF Event

(* One event more in a log adds one alarm at most to the count.             *)
LEMMA RaiseCountStep ==
  ASSUME TypeOK, NEW c \in Collector, NEW kind \in Kind, NEW a \in AlarmId, Send(c, kind, a),
         NEW d \in Collector, NEW k
  PROVE  /\ RaiseCount(d, k) \in Nat
         /\ RaiseCount(d, k)' = IF d = c /\ kind = "alarm_raise" /\ a[2] = k
                                THEN RaiseCount(d, k) + 1 ELSE RaiseCount(d, k)
<1> DEFINE E == [kind : Kind, alarm : AlarmId]
           n == Len(log[c])
           S == {i \in DOMAIN log[d] : log[d][i].kind = "alarm_raise" /\ log[d][i].alarm[2] = k}
           T == {i \in DOMAIN log'[d] : log'[d][i].kind = "alarm_raise" /\ log'[d][i].alarm[2] = k}
<1>1. log'[c] = Append(log[c], Event(kind, a)) /\ log[c] \in Seq(E) /\ (d # c => log'[d] = log[d])
  BY LogGrows
<1>2. RaiseCount(d, k) \in Nat /\ RaiseCount(d, k) = Cardinality(S) /\ RaiseCount(d, k)' = Cardinality(T)
  BY RaiseCountNat DEF RaiseCount
<1>3. Event(kind, a).kind = kind /\ Event(kind, a).alarm = a
  BY DEF Event
<1>4. CASE d # c
  BY <1>1, <1>2, <1>4
<1>5. CASE d = c
  <2> HIDE DEF E
  <2>1. /\ n \in Nat /\ DOMAIN log[c] = 1 .. n /\ DOMAIN log'[c] = 1 .. n \cup {n + 1} /\ n + 1 \notin 1 .. n
        /\ log'[c][n + 1] = Event(kind, a) /\ \A i \in 1 .. n : log'[c][i] = log[c][i]
    BY <1>1
  <2> HIDE DEF n
  <2>2. T = IF kind = "alarm_raise" /\ a[2] = k THEN S \cup {n + 1} ELSE S
    BY <1>3, <1>5, <2>1
  <2>3. IsFiniteSet(S) /\ n + 1 \notin S
    <3>1. S \subseteq 1 .. n
      BY <1>5, <2>1
    <3>2. IsFiniteSet(1 .. n)
      BY <2>1, FS_Interval
    <3>3. QED
      BY <2>1, <3>1, <3>2, FS_Subset
  <2> HIDE DEF S, T
  <2>4. Cardinality(S \cup {n + 1}) = Cardinality(S) + 1
    BY <2>3, FS_AddElement
  <2>5. QED
    BY <1>2, <1>5, <2>2, <2>4
<1>6. QED
  BY <1>4, <1>5

(* No more alarms were raised than events sent.                             *)
LEMMA RaiseCountBound ==
  ASSUME TypeOK, IsFiniteSet(Sent), NEW c \in Collector, NEW k
  PROVE  RaiseCount(c, k) <= Cardinality(Sent)
<1> DEFINE S == {i \in DOMAIN log[c] : log[c][i].kind = "alarm_raise" /\ log[c][i].alarm[2] = k}
           f == [i \in S |-> <<c, i>>]
<1>1. \A i \in S : <<c, i>> \in Sent
  BY DEF Sent, Position
<1>2. f \in Injection(S, Sent)
  BY <1>1 DEF Injection, IsInjective
<1> HIDE DEF S, f
<1>3. Cardinality(S) <= Cardinality(Sent)
  BY <1>2, FS_Injection
<1>4. QED
  BY <1>3 DEF RaiseCount, S

(* What the collectors send, they go on sending in order.                   *)
LEMMA SendKeepsLog ==
  ASSUME TypeOK, LogInv, NEW c \in Collector, NEW kind \in Kind, NEW a \in AlarmId, a[1] = c, Send(c, kind, a),
         kind = "alarm_raise" => a[3] = RaiseCount(c, a[2]) + 1,
         kind # "alarm_raise" => a \in standing,
         standing' = IF kind = "alarm_raise" THEN standing \cup {a}
                     ELSE IF kind = "alarm_clear" THEN standing \ {a} ELSE standing
  PROVE  LogInv'
<1> DEFINE E == [kind : Kind, alarm : AlarmId]
           n == Len(log[c])
           e == Event(kind, a)
<1>1. /\ log'[c] = Append(log[c], e) /\ \A d \in Collector \ {c} : log'[d] = log[d]
      /\ e \in E /\ \A d \in Collector : log[d] \in Seq(E)
  BY LogGrows
<1>2. e.kind = kind /\ e.alarm = a
  BY DEF Event
<1>3. \A x \in E : \A k, s : x = Event(k, s) <=> x.kind = k /\ x.alarm = s
  BY EventIs
<1> HIDE DEF E, e
<1>4. /\ n \in Nat /\ DOMAIN log[c] = 1 .. n /\ DOMAIN log'[c] = 1 .. n \cup {n + 1}
      /\ log'[c][n + 1] = e /\ \A i \in 1 .. n : log'[c][i] = log[c][i] /\ log[c][i] \in E
  BY <1>1
<1>5. \A s : \A p \in 0 .. n :
        /\ Raised(log'[c], s, p) <=> Raised(log[c], s, p)
        /\ OpenAfter(log'[c], s, p) <=> OpenAfter(log[c], s, p)
  BY <1>1, EarlierEvents
<1>6. \A d \in Collector : \A k :
        /\ RaiseCount(d, k) \in Nat
        /\ RaiseCount(d, k)' = IF d = c /\ kind = "alarm_raise" /\ a[2] = k
                               THEN RaiseCount(d, k) + 1 ELSE RaiseCount(d, k)
  BY RaiseCountStep
<1>7. /\ kind = "alarm_raise" => ~Raised(log[c], a, n)
      /\ kind # "alarm_raise" => OpenAfter(log[c], a, n)
  <2>1. ASSUME kind = "alarm_raise", NEW i \in 1 .. n, log[c][i] = Event("alarm_raise", a) PROVE FALSE
    <3>1. log[c][i].alarm = a
      BY <2>1 DEF Event
    <3>2. a[3] <= RaiseCount(c, a[2])
      BY <1>4, <2>1, <3>1 DEF LogInv, LogLegal
    <3>3. QED
      BY <1>6, <2>1, <3>2
  <2>2. QED
    BY <2>1 DEF Raised, LogInv, StandingIsOpen
<1>8. a[3] \in 1 .. MaxSent
  <2>1. CASE kind = "alarm_raise"
    <3>1. RaiseCount(c, a[2]) <= Cardinality(Sent) /\ Cardinality(Sent) \in Nat
      BY RaiseCountBound, FS_CardinalityType DEF LogInv
    <3>2. Cardinality(Sent) < MaxSent
      BY DEF Send
    <3>3. QED
      BY <1>6, <2>1, <3>1, <3>2, IngestAssumption
  <2>2. CASE kind # "alarm_raise"
    <3>1. PICK i \in 1 .. n : log[c][i] = Event("alarm_raise", a)
      BY <1>7, <2>2 DEF OpenAfter
    <3>2. log[c][i].alarm = a
      BY <3>1 DEF Event
    <3>3. QED
      BY <1>4, <3>2 DEF LogInv, LogLegal
  <2>3. QED
    BY <2>1, <2>2
<1>9. a[3] <= RaiseCount(c, a[2])'
  <2>1. CASE kind = "alarm_raise"
    BY <1>6, <2>1
  <2>2. CASE kind # "alarm_raise"
    <3>1. PICK i \in 1 .. n : log[c][i] = Event("alarm_raise", a)
      BY <1>7, <2>2 DEF OpenAfter
    <3>2. log[c][i].alarm = a
      BY <3>1 DEF Event
    <3>3. QED
      BY <1>4, <1>6, <2>2, <3>2 DEF LogInv, LogLegal
  <2>3. QED
    BY <2>1, <2>2
<1>10. LogLegal'
  <2> SUFFICES ASSUME NEW d \in Collector, NEW i \in DOMAIN log'[d], NEW s, s = log'[d][i].alarm
               PROVE  /\ s[1] = d /\ s[3] <= RaiseCount(d, s[2])' /\ s[3] \in 1 .. MaxSent
                      /\ log'[d][i].kind = "alarm_raise" => ~Raised(log'[d], s, i - 1)
                      /\ log'[d][i].kind # "alarm_raise" => OpenAfter(log'[d], s, i - 1)
    BY DEF LogLegal
  <2>1. CASE d # c
    BY <1>1, <1>6, <2>1 DEF LogInv, LogLegal
  <2>2. CASE d = c /\ i \in 1 .. n
    <3>1. /\ log'[c][i] = log[c][i] /\ i - 1 \in 0 .. n
          /\ s[1] = c /\ s[3] <= RaiseCount(c, s[2]) /\ s[3] \in 1 .. MaxSent
          /\ log[c][i].kind = "alarm_raise" => ~Raised(log[c], s, i - 1)
          /\ log[c][i].kind # "alarm_raise" => OpenAfter(log[c], s, i - 1)
      BY <1>4, <2>2 DEF LogInv, LogLegal
    <3>2. s[3] \in Int /\ RaiseCount(c, s[2]) \in Nat /\ RaiseCount(c, s[2])' >= RaiseCount(c, s[2])
      BY <1>6, <3>1, IngestAssumption
    <3>3. RaiseCount(c, s[2])' \in Nat
      BY <1>6
    <3>4. s[3] <= RaiseCount(c, s[2])'
      BY <3>1, <3>2, <3>3
    <3>5. QED
      BY <1>5, <2>2, <3>1, <3>4
  <2>3. CASE d = c /\ i = n + 1
    <3>1. s = a /\ log'[d][i].kind = kind /\ i - 1 = n
      BY <1>2, <1>4, <2>3
    <3>2. QED
      BY <1>4, <1>5, <1>7, <1>8, <1>9, <2>3, <3>1
  <2>4. QED
    BY <1>4, <2>1, <2>2, <2>3
<1>11. StandingIsOpen'
  <2> SUFFICES ASSUME NEW s \in AlarmId
               PROVE  s \in standing' <=> OpenAfter(log'[s[1]], s, Len(log'[s[1]]))
    BY DEF StandingIsOpen
  <2>1. s[1] \in Collector /\ (s \in standing <=> OpenAfter(log[s[1]], s, Len(log[s[1]])))
    BY DEF AlarmId, LogInv, StandingIsOpen
  <2>2. CASE s[1] # c
    BY <1>1, <2>1, <2>2
  <2>3. CASE s[1] = c
    <3>1. Len(log'[c]) = n + 1
      BY <1>1
    <3>2. OpenAfter(log'[c], s, n + 1) <=> (\/ e = Event("alarm_raise", s)
                                            \/ OpenAfter(log'[c], s, n) /\ e # Event("alarm_clear", s))
      <4>1. \A l : OpenAfter(l, s, n + 1) <=> (\/ l[n + 1] = Event("alarm_raise", s)
                                               \/ OpenAfter(l, s, n) /\ l[n + 1] # Event("alarm_clear", s))
        BY <1>4, NextEvent
      <4>2. QED
        BY <1>4, <4>1
    <3>3. OpenAfter(log'[c], s, n) <=> s \in standing
      BY <1>4, <1>5, <2>1, <2>3
    <3>4. /\ e = Event("alarm_raise", s) <=> kind = "alarm_raise" /\ a = s
          /\ e = Event("alarm_clear", s) <=> kind = "alarm_clear" /\ a = s
      BY <1>1, <1>2, <1>3
    <3>5. QED
      BY <2>3, <3>1, <3>2, <3>3, <3>4
  <2>4. QED
    BY <2>2, <2>3
<1>12. IsFiniteSet(Sent)'
  <2>1. Position(c)' = Position(c) \cup {<<c, n + 1>>} /\ \A d \in Collector \ {c} : Position(d)' = Position(d)
    BY <1>1, <1>4 DEF Position
  <2>2. Sent' = Sent \cup {<<c, n + 1>>}
    BY <2>1 DEF Sent
  <2>3. QED
    BY <2>2, FS_AddElement DEF LogInv
<1>13. QED
  BY <1>10, <1>11, <1>12 DEF LogInv

(* And the ledger has read what it had read.                                *)
LEMMA SendKeepsLedger ==
  ASSUME TypeOK, LedgerInv, NEW c \in Collector, NEW kind \in Kind, NEW a \in AlarmId, Send(c, kind, a)
  PROVE  LedgerInv'
<1> DEFINE E == [kind : Kind, alarm : AlarmId]
<1>1. /\ log'[c] = Append(log[c], Event(kind, a)) /\ \A d \in Collector \ {c} : log'[d] = log[d]
      /\ Event(kind, a) \in E /\ \A d \in Collector : log[d] \in Seq(E)
      /\ UNCHANGED <<orderly, lost, stored, sources, alarms>>
  BY LogGrows
<1> HIDE DEF E
<1>2. ASSUME NEW d \in Collector, NEW p \in 0 .. Len(log[d]), ReadTo(d, p)
      PROVE  p \in 0 .. Len(log'[d]) /\ ReadTo(d, p)'
  <2>1. \A s : /\ Raised(log'[d], s, p) <=> Raised(log[d], s, p)
               /\ OpenAfter(log'[d], s, p) <=> OpenAfter(log[d], s, p)
    <3>1. CASE d = c
      <4>1. log[c] \in Seq(E) /\ p \in 0 .. Len(log[c])
        BY <1>1, <3>1
      <4>2. \A s : /\ Raised(Append(log[c], Event(kind, a)), s, p) <=> Raised(log[c], s, p)
                   /\ OpenAfter(Append(log[c], Event(kind, a)), s, p) <=> OpenAfter(log[c], s, p)
        BY <1>1, <4>1, EarlierEvents
      <4>3. QED
        BY <1>1, <3>1, <4>2
    <3>2. CASE d # c
      BY <1>1, <3>2
    <3>3. QED
      BY <3>1, <3>2
  <2>2. p \in 0 .. Len(log'[d])
    BY <1>1
  <2>3. QED
    BY <1>1, <1>2, <2>1, <2>2 DEF ReadTo
<1>3. QED
  BY <1>1, <1>2 DEF LedgerInv

(* The next event of c is read in its turn, or it was read before.          *)
LEMMA EventTurn ==
  ASSUME TypeOK, LogInv, LedgerInv, orderly, NEW c \in Collector, NEW id \in Position(c), Receive(id)
  PROVE  \/ UNCHANGED <<tables, log>> /\ fresh' = {}
         \/ \E p \in 0 .. Len(log[c]) :
              /\ p + 1 \in 1 .. Len(log[c]) /\ id = <<c, p + 1>> /\ ReadTo(c, p) /\ UNCHANGED collectorVars
              /\ log[c][p + 1] \in [kind : Kind, alarm : AlarmId]
              /\ Store(id, log[c][p + 1].kind, log[c][p + 1].alarm)
<1>1. PICK i \in 1 .. Len(log[c]) : id = <<c, i>>
  BY DEF Position, TypeOK
<1>2. PICK p \in 0 .. Len(log[c]) : ReadTo(c, p)
  BY DEF LedgerInv
<1>3. Len(log[c]) \in Nat /\ id[1] = c /\ id[2] = i
  BY <1>1 DEF TypeOK
<1>4. \A j \in 1 .. i - 1 : <<c, j>> \in stored
  BY <1>3 DEF Receive, Arrives, LedgerInv
<1>5. CASE Seen(id)
  BY <1>5 DEF Receive, collectorVars
<1>6. CASE ~Seen(id)
  <2>1. ~(i <= p)
    BY <1>1, <1>2, <1>3, <1>6 DEF ReadTo, Seen
  <2>2. i - 1 = 0 \/ i - 1 <= p
    <3>1. PICK h \in Nat : h = i - 1 /\ (h = 0 \/ h \in 1 .. i - 1)
      BY <1>3
    <3>2. h \in 1 .. i - 1 => h \in 1 .. p
      BY <1>2, <1>4, <3>1 DEF ReadTo
    <3>3. QED
      BY <3>1, <3>2
  <2>3. i = p + 1
    BY <1>3, <2>1, <2>2
  <2>4. log[c][i] \in [kind : Kind, alarm : AlarmId]
    <3> DEFINE E == [kind : Kind, alarm : AlarmId]
    <3>1. log[c] \in Seq(E)
      BY DEF TypeOK
    <3> HIDE DEF E
    <3>2. log[c][i] \in E
      BY <1>3, <3>1
    <3>3. QED
      BY <3>2 DEF E
  <2>5. Store(id, log[c][i].kind, log[c][i].alarm) /\ UNCHANGED collectorVars
    BY <1>3, <1>6 DEF Receive
  <2>6. QED
    BY <1>1, <1>2, <2>3, <2>4, <2>5
<1>7. QED
  BY <1>5, <1>6

(* What the ledger knows of the alarm an event in its turn is about.        *)
LEMMA EventInTurn ==
  ASSUME TypeOK, LogInv, NEW c \in Collector, NEW p \in 0 .. Len(log[c]), p + 1 \in 1 .. Len(log[c]), ReadTo(c, p),
         NEW kind \in Kind, NEW a \in AlarmId, log[c][p + 1] = Event(kind, a)
  PROVE  /\ a[1] = c /\ a[3] \in 1 .. MaxSent
         /\ IF kind = "alarm_raise" THEN a \notin DOMAIN sources
            ELSE a \in DOMAIN sources /\ sources[a].state = "open"
<1>1. log[c][p + 1].kind = kind /\ log[c][p + 1].alarm = a
  BY DEF Event
<1>2. p + 1 \in DOMAIN log[c] /\ (p + 1) - 1 = p /\ p \in Nat
  BY DEF TypeOK
<1>3. /\ a[1] = c /\ a[3] \in 1 .. MaxSent
      /\ kind = "alarm_raise" => ~Raised(log[c], a, p)
      /\ kind # "alarm_raise" => OpenAfter(log[c], a, p)
  BY <1>1, <1>2 DEF LogInv, LogLegal
<1>4. OpenAfter(log[c], a, p) => Raised(log[c], a, p)
  BY <1>2, NextEvent
<1>5. QED
  BY <1>3, <1>4 DEF ReadTo

LEMMA ReceiveKeepsLedger ==
  ASSUME TypeOK, LogInv, OpenWhileHeld, LedgerInv, NEW c \in Collector, NEW id \in Position(c), Receive(id)
  PROVE  LedgerInv'
<1> SUFFICES ASSUME orderly
             PROVE  /\ lost' = {} /\ DOMAIN alarms' \subseteq DOMAIN sources'
                    /\ \A d \in Collector : \E p \in 0 .. Len(log'[d]) : ReadTo(d, p)'
  BY DEF LedgerInv, Receive, collectorVars
<1>1. lost' = {} /\ log' = log
  BY DEF LedgerInv, Receive, collectorVars
<1>2. CASE UNCHANGED tables
  BY <1>1, <1>2 DEF tables, LedgerInv, ReadTo
<1>3. ASSUME NEW p \in 0 .. Len(log[c]), p + 1 \in 1 .. Len(log[c]), id = <<c, p + 1>>, ReadTo(c, p),
             NEW kind \in Kind, NEW a \in AlarmId, log[c][p + 1] = Event(kind, a), Store(id, kind, a)
      PROVE  /\ DOMAIN alarms' \subseteq DOMAIN sources'
             /\ \A d \in Collector : \E q \in 0 .. Len(log'[d]) : ReadTo(d, q)'
  <2> DEFINE state == IF kind = "alarm_clear" THEN "cleared" ELSE "open"
  <2>1. PICK b \in Target(kind, a) :
          /\ stored' = stored \cup {id}
          /\ sources' = Put(sources, a, [alarm |-> b, state |-> state])
          /\ alarms' = Applied(kind, b) \/ alarms' = alarms
    BY <1>3 DEF Store
  <2>2. a[1] = c /\ (IF kind = "alarm_raise" THEN a \notin DOMAIN sources
                     ELSE a \in DOMAIN sources /\ sources[a].state = "open")
    BY <1>3, EventInTurn
  <2>3. /\ DOMAIN sources' = DOMAIN sources \cup {a} /\ sources'[a].state = state
        /\ \A s \in DOMAIN sources : s # a => sources'[s] = sources[s]
    BY <2>1 DEF Put
  <2>4. DOMAIN alarms \subseteq DOMAIN sources
    BY DEF LedgerInv
  <2>5. DOMAIN alarms' \subseteq DOMAIN sources'
    <3>1. b \in DOMAIN alarms \/ b = a
      <4>1. CASE a \in DOMAIN sources
        <5>1. b = sources[a].alarm /\ sources[a].state = "open"
          BY <2>2, <4>1, TargetFact
        <5>2. QED
          BY <4>1, <5>1 DEF OpenWhileHeld
      <4>2. CASE a \notin DOMAIN sources
        BY <4>2 DEF Target, OpenFor
      <4>3. QED
        BY <4>1, <4>2
    <3>2. DOMAIN alarms' \subseteq DOMAIN alarms \cup {b}
      BY <2>1 DEF Applied, Put
    <3>3. QED
      BY <2>3, <2>4, <3>1, <3>2
  <2>6. ReadTo(c, p + 1)'
    <3>1. \A i \in Nat : <<c, i>> \in stored' <=> i \in 1 .. p + 1
      BY <1>3, <2>1 DEF ReadTo
    <3>2. \A s : /\ Raised(log[c], s, p + 1) <=> Raised(log[c], s, p) \/ (kind = "alarm_raise" /\ a = s)
                 /\ OpenAfter(log[c], s, p + 1) <=> (\/ kind = "alarm_raise" /\ a = s
                                                     \/ OpenAfter(log[c], s, p) /\ ~(kind = "alarm_clear" /\ a = s))
                 /\ OpenAfter(log[c], s, p) => Raised(log[c], s, p)
      <4>1. \A k, s : Event(kind, a) = Event(k, s) <=> kind = k /\ a = s
        BY DEF Event
      <4>2. p \in Nat
        OBVIOUS
      <4>3. \A l, s :
              /\ Raised(l, s, p + 1) <=> Raised(l, s, p) \/ l[p + 1] = Event("alarm_raise", s)
              /\ OpenAfter(l, s, p + 1) <=> (\/ l[p + 1] = Event("alarm_raise", s)
                                             \/ OpenAfter(l, s, p) /\ l[p + 1] # Event("alarm_clear", s))
              /\ OpenAfter(l, s, p) => Raised(l, s, p)
        BY <4>2, NextEvent
      <4>4. QED
        BY <1>3, <4>1, <4>3
    <3>3. ASSUME NEW s \in AlarmId, s[1] = c
          PROVE  /\ s \in DOMAIN sources' <=> Raised(log[c], s, p + 1)
                 /\ s \in DOMAIN sources' => (sources'[s].state = "open" <=> OpenAfter(log[c], s, p + 1))
      <4>1. /\ s \in DOMAIN sources <=> Raised(log[c], s, p)
            /\ s \in DOMAIN sources => (sources[s].state = "open" <=> OpenAfter(log[c], s, p))
        BY <1>3, <3>3 DEF ReadTo
      <4>2. CASE s # a
        BY <2>3, <3>2, <4>1, <4>2
      <4>3. CASE s = a
        BY <2>2, <2>3, <3>2, <4>1, <4>3 DEF Kind
      <4>4. QED
        BY <4>2, <4>3
    <3>4. QED
      BY <1>1, <3>1, <3>3 DEF ReadTo
  <2>7. ASSUME NEW d \in Collector, d # c PROVE \E q \in 0 .. Len(log'[d]) : ReadTo(d, q)'
    <3>1. PICK q \in 0 .. Len(log[d]) : ReadTo(d, q)
      BY DEF LedgerInv
    <3>2. \A i \in Nat : <<d, i>> \in stored' <=> <<d, i>> \in stored
      BY <1>3, <2>1, <2>7
    <3>3. \A s : s[1] = d => (/\ s \in DOMAIN sources' <=> s \in DOMAIN sources
                              /\ s \in DOMAIN sources => sources'[s] = sources[s])
      BY <2>2, <2>3, <2>7
    <3>4. ReadTo(d, q)'
      BY <1>1, <3>1, <3>2, <3>3 DEF ReadTo
    <3>5. QED
      BY <1>1, <3>4
  <2>8. p + 1 \in 0 .. Len(log'[c])
    BY <1>1, <1>3
  <2>9. QED
    BY <2>5, <2>6, <2>7, <2>8
<1>4. \A e \in [kind : Kind, alarm : AlarmId] : e.kind \in Kind /\ e.alarm \in AlarmId /\ e = Event(e.kind, e.alarm)
  BY DEF Event
<1>5. QED
  BY <1>1, <1>2, <1>3, <1>4, EventTurn

LEMMA InitLedger == Init => LogInv /\ LedgerInv
<1> SUFFICES ASSUME Init PROVE LogInv /\ LedgerInv
  OBVIOUS
<1>1. /\ \A c \in Collector : log[c] = <<>>
      /\ standing = {} /\ lost = {} /\ stored = {} /\ DOMAIN sources = {} /\ DOMAIN alarms = {}
  BY DEF Init
<1>2. \A l, s, p : p = 0 => ~Raised(l, s, p) /\ ~OpenAfter(l, s, p)
  BY NextEvent
<1>3. LogLegal
  BY <1>1 DEF LogLegal
<1>4. StandingIsOpen
  <2> SUFFICES ASSUME NEW a \in AlarmId PROVE ~OpenAfter(log[a[1]], a, Len(log[a[1]]))
    BY <1>1 DEF StandingIsOpen
  <2>1. Len(log[a[1]]) = 0
    BY <1>1 DEF AlarmId
  <2>2. QED
    BY <1>2, <2>1
<1>5. IsFiniteSet(Sent)
  <2>1. Sent = {}
    BY <1>1 DEF Sent, Position
  <2>2. QED
    BY <2>1, FS_EmptySet
<1>6. LedgerInv
  <2>1. ASSUME NEW c \in Collector PROVE 0 \in 0 .. Len(log[c]) /\ ReadTo(c, 0)
    <3>1. 0 \in 0 .. Len(log[c]) /\ 1 .. 0 = {}
      BY <1>1
    <3>2. QED
      BY <1>1, <1>2, <3>1 DEF ReadTo
  <2>2. QED
    BY <1>1, <2>1 DEF LedgerInv
<1>7. QED
  BY <1>3, <1>4, <1>5, <1>6 DEF LogInv

LEMMA StepKeepsLedger ==
  TypeOK /\ OpenWhileHeld /\ LogInv /\ LedgerInv /\ [Next]_vars => LogInv' /\ LedgerInv'
<1> SUFFICES ASSUME TypeOK, OpenWhileHeld, LogInv, LedgerInv, [Next]_vars PROVE LogInv' /\ LedgerInv'
  OBVIOUS
<1>1. ASSUME UNCHANGED <<log, standing>> PROVE LogInv'
  BY <1>1 DEF LogInv, LogLegal, RaiseCount, StandingIsOpen, Sent, Position
<1>2. ASSUME NEW c \in Collector, NEW k \in Key, Raise(c, k) PROVE LogInv' /\ LedgerInv'
  <2> DEFINE a == <<c, k, RaiseCount(c, k) + 1>>
  <2>1. a \in AlarmId /\ a[1] = c /\ a[3] = RaiseCount(c, a[2]) + 1
    BY RaiseCountNat DEF AlarmId
  <2>2. Send(c, "alarm_raise", a) /\ standing' = standing \cup {a}
    BY <1>2 DEF Raise
  <2> HIDE DEF a
  <2>3. QED
    BY <2>1, <2>2, SendKeepsLog, SendKeepsLedger DEF Kind
<1>3. ASSUME NEW a \in standing, Update(a) \/ Clear(a) PROVE LogInv' /\ LedgerInv'
  <2>1. a \in AlarmId /\ a[1] \in Collector
    BY DEF TypeOK, AlarmId
  <2>2. \/ Send(a[1], "alarm_update", a) /\ standing' = standing
        \/ Send(a[1], "alarm_clear", a) /\ standing' = standing \ {a}
    BY <1>3 DEF Update, Clear
  <2>3. QED
    BY <2>1, <2>2, SendKeepsLog, SendKeepsLedger DEF Kind
<1>4. ASSUME NEW c \in Collector, NEW id \in Position(c), Lose(id) PROVE LogInv' /\ LedgerInv'
  BY <1>1, <1>4 DEF Lose, LedgerInv
<1>5. ASSUME NEW c \in Collector, NEW id \in Position(c), Receive(id) PROVE LogInv' /\ LedgerInv'
  BY <1>1, <1>5, ReceiveKeepsLedger DEF Receive, collectorVars
<1>6. CASE UNCHANGED vars
  BY <1>1, <1>6 DEF vars, collectorVars, tables, LedgerInv, ReadTo
<1>7. QED
  BY <1>2, <1>3, <1>4, <1>5, <1>6 DEF Next

LEMMA LedgerRead == Spec => [](LogInv /\ LedgerInv)
BY InitLedger, StepKeepsLedger, LedgerTypeCorrect, HeldOpen, PTL DEF Spec

(* ingest.js with the collectors' engines: once everything a collector sent *)
(* has been read in order, replays included, the alarms the ledger holds    *)
(* open from it are exactly those its engine holds open.                    *)
THEOREM LedgerIsTrue == Spec => []SettledIsTrue
<1>1. TypeOK /\ LogInv /\ LedgerInv => SettledIsTrue
  <2> SUFFICES ASSUME TypeOK, LogInv, LedgerInv, orderly, NEW c \in Collector, Position(c) \subseteq stored
               PROVE  {s \in DOMAIN sources : s[1] = c /\ sources[s].state = "open"} = {a \in standing : a[1] = c}
    BY DEF SettledIsTrue
  <2>1. PICK p \in 0 .. Len(log[c]) : ReadTo(c, p)
    BY DEF LedgerInv
  <2>2. p = Len(log[c])
    <3>1. PICK n \in Nat : n = Len(log[c])
      BY DEF TypeOK
    <3>2. n # 0 => <<c, n>> \in stored
      BY <3>1 DEF Position, TypeOK
    <3>3. n # 0 => n \in 1 .. p
      BY <2>1, <3>1, <3>2 DEF ReadTo
    <3>4. QED
      BY <3>1, <3>3
  <2>3. \A a \in AlarmId : a[1] = c =>
          (a \in standing <=> a \in DOMAIN sources /\ sources[a].state = "open")
    <3> SUFFICES ASSUME NEW a \in AlarmId, a[1] = c
                 PROVE  a \in standing <=> a \in DOMAIN sources /\ sources[a].state = "open"
      OBVIOUS
    <3>1. a \in standing <=> OpenAfter(log[c], a, p)
      BY <2>2 DEF LogInv, StandingIsOpen
    <3>2. OpenAfter(log[c], a, p) => Raised(log[c], a, p)
      BY NextEvent
    <3>3. QED
      BY <2>1, <3>1, <3>2 DEF ReadTo
  <2>4. standing \subseteq AlarmId /\ DOMAIN sources \subseteq AlarmId
    BY DEF TypeOK
  <2>5. QED
    BY <2>3, <2>4
<1>2. QED
  BY <1>1, LedgerTypeCorrect, LedgerRead, PTL

-----------------------------------------------------------------------------
(* What a transaction tells is a step of the merged stream.                 *)
LEMMA TellsRaise ==
  ASSUME TypeOK, OpenWhileHeld, DOMAIN alarms \subseteq DOMAIN sources,
         NEW id, NEW a \in Collector \X Key \X (1 .. MaxSent), a \in AlarmId,
         a \notin DOMAIN sources, Store(id, "alarm_raise", a)
  PROVE  Merged!MergedNext
<1>1. PICK b \in Target("alarm_raise", a) :
        /\ sources' = Put(sources, a, [alarm |-> b, state |-> "open"])
        /\ IF Effective("alarm_raise", a, b)
           THEN alarms' = Applied("alarm_raise", b) /\ fresh' = {[kind |-> "alarm_raise", alarm |-> b]}
           ELSE alarms' = alarms /\ fresh' = {}
  BY DEF Store
<1>2. /\ DOMAIN sources' = DOMAIN sources \cup {a} /\ sources'[a] = [alarm |-> b, state |-> "open"]
      /\ \A s \in DOMAIN sources : sources'[s] = sources[s]
  BY <1>1 DEF Put
<1>3. \A x : Holders(x)' = IF x = b THEN Holders(x) \cup {a} ELSE Holders(x)
  BY <1>2 DEF Holders
<1>4. {s \in DOMAIN sources : sources[s].state = "cleared"}' = {s \in DOMAIN sources : sources[s].state = "cleared"}
  BY <1>2
<1>5. ~Merged!Begun(a)
  BY DEF Merged!Begun, Holders
<1>6. CASE b = a
  <2>1. alarms' = Put(alarms, a, "open") /\ fresh' = {[kind |-> "alarm_raise", alarm |-> a]}
    BY <1>1, <1>6 DEF Effective, Applied
  <2>2. Holders(a) = {}
    BY DEF OpenWhileHeld, Holders
  <2>3. a \notin DOMAIN alarms /\ DOMAIN alarms' = DOMAIN alarms \cup {a}
    BY <2>1 DEF Put
  <2>4. Merged!Open(a)
    BY <1>3, <1>4, <1>5, <1>6, <2>1, <2>2, <2>3 DEF Merged!Open
  <2>5. QED
    BY <2>4 DEF Merged!MergedNext
<1>7. CASE b # a
  <2>1. b \in OpenFor(a)
    BY <1>7 DEF Target
  <2>2. b \in DOMAIN alarms /\ IsOpen(b) /\ b[2] = a[2]
    BY <2>1 DEF OpenFor
  <2>3. alarms' = alarms /\ fresh' = {}
    BY <1>1, <1>7, <2>2 DEF Effective
  <2>4. Holders(b) # {}
    BY <2>2 DEF OpenWhileHeld
  <2>5. Merged!Join(a, b)
    BY <1>3, <1>4, <1>5, <2>2, <2>3, <2>4 DEF Merged!Join, KeyOf
  <2>6. QED
    BY <2>2, <2>5 DEF Merged!MergedNext
<1>8. QED
  BY <1>6, <1>7

LEMMA TellsUpdate ==
  ASSUME TypeOK, OpenWhileHeld,
         NEW id, NEW a \in Collector \X Key \X (1 .. MaxSent),
         a \in DOMAIN sources, sources[a].state = "open", Store(id, "alarm_update", a)
  PROVE  Merged!MergedNext
<1>0. PICK b : b = sources[a].alarm
  OBVIOUS
<1>1. b \in DOMAIN alarms /\ sources[a] = [alarm |-> b, state |-> "open"]
  BY <1>0 DEF OpenWhileHeld, TypeOK, Source
<1>2. Target("alarm_update", a) = {b} /\ Effective("alarm_update", a, b)
  BY <1>0 DEF Target, Effective
<1>3. /\ sources' = Put(sources, a, [alarm |-> b, state |-> "open"])
      /\ alarms' = Put(alarms, b, "open") /\ fresh' = {[kind |-> "alarm_update", alarm |-> b]}
  BY <1>2 DEF Store, Applied
<1>4. DOMAIN sources' = DOMAIN sources /\ \A s \in DOMAIN sources : sources'[s] = sources[s]
  BY <1>1, <1>3 DEF Put
<1>5. DOMAIN alarms' = DOMAIN alarms /\ \A x : Holders(x)' = Holders(x)
  BY <1>1, <1>3, <1>4 DEF Put, Holders
<1>6. {s \in DOMAIN sources : sources[s].state = "cleared"}' = {s \in DOMAIN sources : sources[s].state = "cleared"}
  BY <1>4
<1>7. a \in Holders(b)
  BY <1>1 DEF Holders
<1>8. Merged!Update(a, b)
  BY <1>1, <1>3, <1>5, <1>6, <1>7 DEF Merged!Update
<1>9. QED
  BY <1>1, <1>8 DEF Merged!MergedNext

LEMMA TellsClear ==
  ASSUME TypeOK, OpenWhileHeld,
         NEW id, NEW a \in Collector \X Key \X (1 .. MaxSent),
         a \in DOMAIN sources, sources[a].state = "open", Store(id, "alarm_clear", a)
  PROVE  Merged!MergedNext
<1>0. PICK b : b = sources[a].alarm
  OBVIOUS
<1>1. b \in DOMAIN alarms /\ sources[a] = [alarm |-> b, state |-> "open"]
  BY <1>0 DEF OpenWhileHeld, TypeOK, Source
<1>2. Target("alarm_clear", a) = {b} /\ (Effective("alarm_clear", a, b) <=> ~OthersOpen(b, a))
  BY <1>0 DEF Target, Effective
<1>3. /\ sources' = Put(sources, a, [alarm |-> b, state |-> "cleared"])
      /\ IF OthersOpen(b, a) THEN alarms' = alarms /\ fresh' = {}
         ELSE alarms' = Put(alarms, b, "cleared") /\ fresh' = {[kind |-> "alarm_clear", alarm |-> b]}
  BY <1>1, <1>2 DEF Store, Applied
<1>4. /\ DOMAIN sources' = DOMAIN sources /\ sources'[a] = [alarm |-> b, state |-> "cleared"]
      /\ \A s \in DOMAIN sources : s # a => sources'[s] = sources[s]
  BY <1>3 DEF Put
<1>5. \A x : Holders(x)' = IF x = b THEN Holders(x) \ {a} ELSE Holders(x)
  BY <1>1, <1>4 DEF Holders
<1>6. {s \in DOMAIN sources : sources[s].state = "cleared"}' = {s \in DOMAIN sources : sources[s].state = "cleared"} \cup {a}
  BY <1>4
<1>7. a \in Holders(b) /\ (OthersOpen(b, a) <=> Holders(b) # {a})
  BY <1>1 DEF Holders, OthersOpen
<1>8. DOMAIN alarms' = DOMAIN alarms
  BY <1>1, <1>3 DEF Put
<1>9. Merged!Leave(a, b)
  <2>1. [x \in DOMAIN alarms' |-> Holders(x)'] = [[x \in DOMAIN alarms |-> Holders(x)] EXCEPT ![b] = @ \ {a}]
    BY <1>1, <1>5, <1>8
  <2>2. {<<e.kind, e.alarm>> : e \in fresh'} = IF Holders(b) = {a} THEN {<<"alarm_clear", b>>} ELSE {}
    <3>1. CASE OthersOpen(b, a)
      BY <1>3, <1>7, <3>1
    <3>2. CASE ~OthersOpen(b, a)
      <4>1. fresh' = {[kind |-> "alarm_clear", alarm |-> b]} /\ Holders(b) = {a}
        BY <1>3, <1>7, <3>2
      <4>2. QED
        BY <4>1
    <3>3. QED
      BY <3>1, <3>2
  <2>3. QED
    BY <1>1, <1>6, <1>7, <2>1, <2>2 DEF Merged!Leave
<1>10. QED
  BY <1>1, <1>9 DEF Merged!MergedNext

(* ingest.js 14-18: when the collectors' events come in order, what the     *)
(* ledger passes on is the stream MergedFeed promises: one raise and one    *)
(* clear for each FMS alarm, and nothing twice.                             *)
THEOREM FeedIsMerged == Spec => MergeKept
<1>1. Init => (orderly => Merged!MergedInit)
  <2> SUFFICES ASSUME Init PROVE Merged!MergedInit
    OBVIOUS
  <2>1. DOMAIN sources = {} /\ DOMAIN alarms = {} /\ fresh = {}
    BY DEF Init
  <2>2. QED
    BY <2>1 DEF Merged!MergedInit
<1>2. TypeOK /\ OpenWhileHeld /\ LogInv /\ LedgerInv /\ [Next]_vars
        => [orderly => Merged!MergedNext]_(Merged!mergedVars)
  <2> SUFFICES ASSUME TypeOK, OpenWhileHeld, LogInv, LedgerInv, [Next]_vars, orderly
               PROVE  Merged!MergedNext \/ UNCHANGED Merged!mergedVars
    BY DEF Merged!mergedVars
  <2>1. ASSUME UNCHANGED <<tables, fresh>> PROVE UNCHANGED Merged!mergedVars
    BY <2>1 DEF tables, Merged!mergedVars, Holders
  <2>2. ASSUME UNCHANGED tables, fresh' = {} PROVE Merged!MergedNext
    BY <2>2 DEF tables, Merged!MergedNext, Merged!Replay, Holders
  <2>3. ASSUME NEW c \in Collector, NEW id \in Position(c), Receive(id) PROVE Merged!MergedNext
    <3>1. CASE UNCHANGED tables /\ fresh' = {}
      BY <2>2, <3>1
    <3>2. ASSUME NEW p \in 0 .. Len(log[c]), p + 1 \in 1 .. Len(log[c]), ReadTo(c, p),
                 NEW kind \in Kind, NEW a \in AlarmId, log[c][p + 1] = Event(kind, a), Store(id, kind, a)
          PROVE  Merged!MergedNext
      <4>1. /\ a[3] \in 1 .. MaxSent
            /\ IF kind = "alarm_raise" THEN a \notin DOMAIN sources
               ELSE a \in DOMAIN sources /\ sources[a].state = "open"
        BY <3>2, EventInTurn
      <4>2. a \in Collector \X Key \X (1 .. MaxSent)
        BY <4>1 DEF AlarmId
      <4>3. DOMAIN alarms \subseteq DOMAIN sources
        BY DEF LedgerInv
      <4>4. QED
        BY <3>2, <4>1, <4>2, <4>3, TellsRaise, TellsUpdate, TellsClear DEF Kind
    <3>3. \A e \in [kind : Kind, alarm : AlarmId] : e.kind \in Kind /\ e.alarm \in AlarmId /\ e = Event(e.kind, e.alarm)
      BY DEF Event
    <3>4. QED
      BY <2>3, <3>1, <3>2, <3>3, EventTurn
  <2>4. ASSUME NEW c \in Collector, NEW k \in Key, Raise(c, k) PROVE UNCHANGED <<tables, fresh>>
    BY <2>4 DEF Raise, Send
  <2>5. ASSUME NEW a \in standing, Update(a) \/ Clear(a) PROVE UNCHANGED <<tables, fresh>>
    BY <2>5 DEF Update, Clear, Send
  <2>6. ASSUME NEW c \in Collector, NEW id \in Position(c), Lose(id) PROVE UNCHANGED <<tables, fresh>>
    BY <2>6 DEF Lose
  <2>7. CASE UNCHANGED vars
    BY <2>1, <2>7 DEF vars
  <2>8. QED
    BY <2>1, <2>3, <2>4, <2>5, <2>6, <2>7 DEF Next
<1>3. QED
  BY <1>1, <1>2, LedgerTypeCorrect, HeldOpen, LedgerRead, PTL DEF Spec, MergeKept
====
