---------------------------- MODULE TriageProofs ----------------------------
(***************************************************************************)
(* Proofs about Triage, for any debounce, hour, cap and bounds.            *)
(*                                                                         *)
(* Why an accepted trigger is looked at: until the opinion has seen what is*)
(* due, a timer is armed or a triage that has seen it is under way, and a  *)
(* run that ends otherwise is an excuse (Owed).  Why the cap holds: the timer is    *)
(* armed only when fewer than the cap of the remembered starts are within  *)
(* an hour, every such start is remembered (Remembered), and no other start*)
(* can come before the timer's own (Room).                                 *)
(***************************************************************************)
EXTENDS Triage, FunctionTheorems, FiniteSetTheorems, TLAPS

(* What the runs have seen, and that something is left to look at news.     *)
Owed ==
  /\ accepted <= news
  /\ ~(Due \subseteq opinion) /\ ~excused =>
       timer # 0 \/ \E r \in running : Due \subseteq r.seen

Increasing == \A i, j \in DOMAIN starts : i < j => starts[i] < starts[j]

Past ==
  /\ stamps \subseteq 1 .. now
  /\ \A i \in DOMAIN starts : starts[i] <= now
  /\ timer # 0 => \A i \in DOMAIN starts : starts[i] < timer

Remembered == \A i \in DOMAIN starts : starts[i] + HOUR > now => starts[i] \in stamps

Room ==
  timer # 0 /\ Len(starts) >= MAX_PER_HOUR =>
    starts[Len(starts) - MAX_PER_HOUR + 1] + HOUR <= now

CapInv == Increasing /\ Past /\ Remembered /\ Room /\ CapKept

-----------------------------------------------------------------------------
(* The variables have their types.                                          *)
LEMMA BeginTyped ==
  ASSUME TypeOK, Begin
  PROVE  running' \subseteq Run /\ opinion' \subseteq Nat /\ excused' \in BOOLEAN
<1>0. evidence \subseteq Nat
  BY DEF TypeOK
<1>1. Len(starts) \in Nat
  BY DEF TypeOK
<1>2. [id |-> direct + Len(starts) + 1, seen |-> evidence] \in Run
  BY <1>0, <1>1 DEF TypeOK, Run
<1>3. ASSUME NEW seen \in SUBSET Nat, Save(seen) PROVE opinion' \subseteq Nat /\ excused' \in BOOLEAN
  BY <1>3 DEF TypeOK, Save
<1>4. NoRule => opinion' \subseteq Nat /\ excused' \in BOOLEAN
  BY DEF TypeOK, NoRule
<1>5. CASE (Save(evidence) \/ NoRule) /\ UNCHANGED running
  BY <1>0, <1>3, <1>4, <1>5 DEF TypeOK
<1>6. CASE /\ running' = running \cup {[id |-> direct + Len(starts) + 1, seen |-> evidence]}
           /\ UNCHANGED <<opinion, excused>>
  BY <1>2, <1>6 DEF TypeOK
<1>7. QED
  BY <1>5, <1>6 DEF Begin

LEMMA TypeInit == Init => TypeOK
<1> SUFFICES ASSUME Init PROVE TypeOK
  OBVIOUS
<1>1. /\ stamps \subseteq Nat /\ running \subseteq Run /\ opinion \subseteq Nat
      /\ evidence \subseteq 1 .. news /\ excused \in BOOLEAN
  BY Zenon DEF Init
<1>2. starts \in Seq(Nat)
  BY DEF Init
<1>3. /\ now \in Nat \ {0} /\ news \in Nat /\ timer \in Nat
      /\ accepted \in Nat /\ direct \in Nat /\ restarts \in Nat
  BY DEF Init
<1>4. QED
  BY <1>1, <1>2, <1>3, Zenon DEF TypeOK

LEMMA TypeStep ==
  ASSUME TypeOK, [Next]_vars
  PROVE  TypeOK'
<1> USE TriageAssumption DEF TriageAssumption, newsVars, queueVars, boundVars
<1>0. ASSUME NEW kind, Happens(kind) PROVE news' \in Nat /\ evidence' \subseteq 1 .. news'
  BY <1>0 DEF TypeOK, Happens
<1>1. CASE Trigger
  <2>1. Recent \subseteq Nat
    BY DEF TypeOK, Recent
  <2>2. QED
    BY <1>0, <1>1, <2>1 DEF TypeOK, Trigger
<1>2. CASE Silently
  BY <1>0, <1>2 DEF TypeOK, Silently
<1>3. CASE Fire
  <2>1. running' \subseteq Run /\ opinion' \subseteq Nat /\ excused' \in BOOLEAN
    BY <1>3, BeginTyped DEF Fire
  <2>2. starts' \in Seq(Nat) /\ stamps' \subseteq Nat
    BY <1>3 DEF TypeOK, Fire
  <2>3. QED
    BY <1>3, <2>1, <2>2 DEF TypeOK, Fire
<1>4. CASE Direct
  <2>1. running' \subseteq Run /\ opinion' \subseteq Nat /\ excused' \in BOOLEAN
    BY <1>4, BeginTyped DEF Direct
  <2>2. QED
    BY <1>4, <2>1 DEF TypeOK, Direct
<1>5. ASSUME NEW r \in running, Finish(r) PROVE TypeOK'
  <2>1. r.seen \subseteq Nat /\ running' \subseteq Run
    BY <1>5 DEF TypeOK, Run, Finish
  <2>2. opinion' \subseteq Nat /\ excused' \in BOOLEAN
    BY <1>5, <2>1 DEF TypeOK, Finish, Save, NoRule
  <2>3. QED
    BY <1>5, <2>1, <2>2 DEF TypeOK, Finish
<1>6. CASE Restart
  BY <1>6 DEF TypeOK, Restart
<1>7. CASE Tick
  BY <1>7 DEF TypeOK, Tick
<1>8. CASE UNCHANGED vars
  BY <1>8 DEF TypeOK, vars
<1>9. QED
  BY <1>1, <1>2, <1>3, <1>4, <1>5, <1>6, <1>7, <1>8 DEF Next

(* The variables of a triage have their types (TypeOK).                     *)
THEOREM TypeCorrect == Spec => []TypeOK
<1>1. QED
  BY TypeInit, TypeStep, PTL DEF Spec

-----------------------------------------------------------------------------
(* A triage that begins with all the evidence pays what is owed.            *)
LEMMA BeginPays ==
  ASSUME Owed, Begin, UNCHANGED <<newsVars, accepted>>
  PROVE  Owed'
<1> DEFINE new == [id |-> direct + Len(starts) + 1, seen |-> evidence]
<1>0. Due' = Due /\ Due \subseteq evidence /\ (accepted <= news)'
  BY DEF Due, Owed, newsVars
<1>1. CASE Save(evidence) /\ UNCHANGED running
  BY <1>0, <1>1 DEF Owed, Save
<1>2. CASE NoRule /\ UNCHANGED running
  BY <1>0, <1>2 DEF Owed, NoRule
<1>3. CASE running' = running \cup {new} /\ UNCHANGED <<opinion, excused>>
  <2>1. new \in running' /\ Due \subseteq new.seen
    BY <1>0, <1>3
  <2>2. QED
    BY <1>0, <2>1 DEF Owed
<1>4. QED
  BY <1>1, <1>2, <1>3 DEF Begin

(* News that comes after the last accepted trigger is not due.              *)
LEMMA NotYetDue ==
  ASSUME TypeOK, Owed, NEW kind, Happens(kind), accepted' = accepted
  PROVE  Due' = Due /\ (accepted <= news)'
<1>1. /\ news \in Nat /\ accepted \in Nat /\ accepted <= news /\ news' = news + 1
      /\ evidence' = evidence \/ evidence' = evidence \cup {news + 1}
  BY DEF TypeOK, Owed, Happens
<1>2. ~(news + 1 <= accepted)
  BY <1>1
<1>3. Due' = Due
  BY <1>1, <1>2 DEF Due
<1>4. QED
  BY <1>1, <1>3

LEMMA OwedStep ==
  ASSUME TypeOK, Owed, [Next]_vars
  PROVE  Owed'
<1> USE DEF queueVars, boundVars
<1>0. /\ accepted \in Nat /\ news \in Nat /\ timer \in Nat /\ now \in Nat \ {0}
      /\ running \subseteq Run /\ excused \in BOOLEAN
  BY DEF TypeOK
<1>1. CASE Trigger
  <2>1. PICK kind \in Told : Happens(kind)
    BY <1>1 DEF Trigger
  <2>2. CASE AtCap /\ UNCHANGED <<timer, accepted>>
    <3>1. Due' = Due /\ (accepted <= news)' /\ UNCHANGED <<opinion, excused, running, timer>>
      BY <1>1, <2>1, <2>2, NotYetDue DEF Trigger
    <3>2. QED
      BY <3>1 DEF Owed
  <2>3. CASE accepted' = news + 1 /\ timer' = IF Coalesces THEN timer ELSE now + DEBOUNCE
    <3>1. timer' # 0
      BY <1>0, <2>3, TriageAssumption DEF Coalesces, TriageAssumption
    <3>2. (accepted <= news)'
      BY <1>0, <2>1, <2>3 DEF Happens
    <3>3. QED
      BY <3>1, <3>2 DEF Owed
  <2>4. QED
    BY <1>1, <2>2, <2>3 DEF Trigger
<1>2. CASE Silently
  <2>1. PICK kind \in Untold : Happens(kind)
    BY <1>2 DEF Silently
  <2>2. Due' = Due /\ (accepted <= news)' /\ UNCHANGED <<opinion, excused, running, timer>>
    BY <1>2, <2>1, NotYetDue DEF Silently
  <2>3. QED
    BY <2>2 DEF Owed
<1>3. CASE Fire
  BY <1>3, BeginPays DEF Fire
<1>4. CASE Direct
  BY <1>4, BeginPays DEF Direct
<1>5. ASSUME NEW r \in running, Finish(r) PROVE Owed'
  <2>1. UNCHANGED timer /\ running' = running \ {r} /\ Due' = Due /\ (accepted <= news)'
    BY <1>5 DEF Finish, newsVars, Due, Owed
  <2>2. CASE NoRule
    BY <2>1, <2>2 DEF Owed, NoRule
  <2>3. CASE Save(r.seen) /\ Due \subseteq r.seen
    BY <2>1, <2>3 DEF Owed, Save
  <2>4. CASE Save(r.seen) /\ ~(Due \subseteq r.seen)
    <3>1. opinion' = r.seen /\ excused' = (~(Due \subseteq r.seen) /\ (excused \/ ~(opinion \subseteq r.seen)))
      BY <2>4 DEF Save
    <3>2. SUFFICES ASSUME ~excused'
                   PROVE timer # 0 \/ \E q \in running' : Due \subseteq q.seen
      BY <2>1 DEF Owed
    <3>3. ~excused /\ opinion \subseteq r.seen
      BY <2>4, <3>1, <3>2, Zenon
    <3>4. ~(Due \subseteq opinion)
      BY <2>4, <3>3
    <3>5. timer # 0 \/ \E q \in running : Due \subseteq q.seen
      BY <3>3, <3>4 DEF Owed
    <3>6. QED
      BY <2>1, <2>4, <3>5
  <2>5. QED
    BY <1>5, <2>2, <2>3, <2>4 DEF Finish
<1>6. CASE Restart
  <2>1. Due' = Due /\ (accepted <= news)' /\ UNCHANGED opinion
    BY <1>6 DEF Restart, newsVars, Due, Owed
  <2>2. excused' = (excused \/ timer # 0 \/ running # {})
    BY <1>6 DEF Restart
  <2>3. QED
    BY <2>1, <2>2 DEF Owed
<1>7. CASE UNCHANGED <<newsVars, accepted, opinion, excused, timer, running>>
  BY <1>7 DEF Owed, Due, newsVars
<1>8. QED
  BY <1>1, <1>2, <1>3, <1>4, <1>5, <1>6, <1>7 DEF Next, Tick, vars

(* Every accepted trigger is looked at: with nothing queued or under way    *)
(* the stored opinion has seen the evidence there was when it came, but for *)
(* runs lost, empty or overtaken (fms-reeval.js 41-70, fms-triage.js        *)
(* collectContext, triageIncident).                                         *)
THEOREM OpinionKept == Spec => []OpinionFollowsNews
<1>1. Init => TypeOK /\ Owed
  BY TypeInit DEF Init, Owed, Due
<1>2. TypeOK /\ Owed /\ [Next]_vars => (TypeOK /\ Owed)'
  BY TypeStep, OwedStep
<1>3. TypeOK /\ Owed => OpinionFollowsNews
  BY DEF TypeOK, Owed, OpinionFollowsNews
<1>4. QED
  BY <1>1, <1>2, <1>3, PTL DEF Spec

-----------------------------------------------------------------------------
(* Fewer than the cap remembered: the start that many before is an hour old.*)
LEMMA RoomUnderCap ==
  ASSUME TypeOK, Increasing, Past, Remembered, ~AtCap, Len(starts) >= MAX_PER_HOUR
  PROVE  starts[Len(starts) - MAX_PER_HOUR + 1] + HOUR <= now
<1> DEFINE first == Len(starts) - MAX_PER_HOUR
           f == [k \in 1 .. MAX_PER_HOUR |-> starts[first + k]]
<1>0. /\ MAX_PER_HOUR \in Nat \ {0} /\ HOUR \in Nat /\ now \in Nat
      /\ starts \in Seq(Nat) /\ Len(starts) \in Nat /\ DOMAIN starts = 1 .. Len(starts)
  BY TriageAssumption DEF TypeOK, TriageAssumption
<1>1. SUFFICES ASSUME ~(starts[first + 1] + HOUR <= now) PROVE FALSE
  OBVIOUS
<1>2. \A k \in 1 .. MAX_PER_HOUR : first + k \in DOMAIN starts /\ starts[first + k] \in Nat
  BY <1>0
<1>3. \A k \in 1 .. MAX_PER_HOUR : starts[first + k] \in Recent
  <2> TAKE k \in 1 .. MAX_PER_HOUR
  <2>1. first + 1 \in DOMAIN starts /\ starts[first + 1] \in Nat
    BY <1>0, <1>2
  <2>2. starts[first + k] >= starts[first + 1]
    <3>1. CASE k = 1
      BY <2>1, <3>1
    <3>2. CASE k # 1
      <4>1. first + 1 < first + k
        BY <1>0, <3>2
      <4>2. starts[first + 1] < starts[first + k]
        BY <1>2, <2>1, <4>1 DEF Increasing
      <4>3. QED
        BY <1>2, <2>1, <4>2
    <3>3. QED
      BY <3>1, <3>2
  <2>3. starts[first + k] + HOUR > now
    BY <1>0, <1>1, <1>2, <2>1, <2>2
  <2>4. QED
    BY <1>2, <2>3 DEF Remembered, Recent
<1>4. f \in Injection(1 .. MAX_PER_HOUR, Recent)
  <2>1. f \in [1 .. MAX_PER_HOUR -> Recent]
    BY <1>3
  <2>2. ASSUME NEW a \in 1 .. MAX_PER_HOUR, NEW b \in 1 .. MAX_PER_HOUR, f[a] = f[b]
        PROVE a = b
    <3>1. starts[first + a] = starts[first + b]
      BY <2>2
    <3>2. ~(first + a < first + b) /\ ~(first + b < first + a)
      BY <1>2, <3>1 DEF Increasing
    <3>3. QED
      BY <1>0, <3>2
  <2>3. QED
    BY <2>1, <2>2, Fun_IsInj
<1>5. IsFiniteSet(Recent) /\ Cardinality(Recent) \in Nat
  <2>1. IsFiniteSet(1 .. now)
    BY <1>0, FS_Interval
  <2>2. Recent \subseteq 1 .. now
    BY DEF Past, Recent
  <2>3. QED
    BY <2>1, <2>2, FS_Subset, FS_CardinalityType
<1>6. Cardinality(1 .. MAX_PER_HOUR) = MAX_PER_HOUR
  BY <1>0, FS_Interval
<1>7. MAX_PER_HOUR <= Cardinality(Recent)
  BY <1>4, <1>5, <1>6, FS_Injection
<1>8. QED
  BY <1>0, <1>5, <1>7 DEF AtCap

LEMMA CapStep ==
  ASSUME TypeOK, CapInv, [Next]_vars
  PROVE  CapInv'
<1> USE DEF queueVars, boundVars
<1>0. /\ now \in Nat \ {0} /\ timer \in Nat /\ HOUR \in Nat \ {0} /\ DEBOUNCE \in Nat \ {0}
      /\ MAX_PER_HOUR \in Nat \ {0} /\ starts \in Seq(Nat) /\ Len(starts) \in Nat
      /\ DOMAIN starts = 1 .. Len(starts) /\ \A i \in DOMAIN starts : starts[i] \in Nat
  BY TriageAssumption DEF TypeOK, TriageAssumption
<1>1. CASE Trigger
  <2>1. UNCHANGED <<now, starts>> /\ stamps' = Recent
    BY <1>1 DEF Trigger
  <2>2. Increasing' /\ CapKept'
    BY <2>1 DEF CapInv, Increasing, CapKept
  <2>3. Remembered'
    BY <2>1 DEF CapInv, Remembered, Recent
  <2>4. Past'
    <3>1. timer' # 0 => \A i \in DOMAIN starts : starts[i] < timer'
      BY <1>0, <1>1 DEF Trigger, CapInv, Past, Coalesces
    <3>2. QED
      BY <2>1, <3>1 DEF CapInv, Past, Recent
  <2>5. Room'
    <3>1. CASE timer' = timer
      BY <2>1, <3>1 DEF CapInv, Room
    <3>2. CASE ~AtCap
      <4>1. Len(starts) >= MAX_PER_HOUR => starts[Len(starts) - MAX_PER_HOUR + 1] + HOUR <= now
        BY <3>2, RoomUnderCap DEF CapInv
      <4>2. QED
        BY <2>1, <4>1 DEF Room
    <3>3. QED
      BY <1>1, <3>1, <3>2 DEF Trigger
  <2>6. QED
    BY <2>2, <2>3, <2>4, <2>5 DEF CapInv
<1>2. CASE Silently
  BY <1>2 DEF Silently, CapInv, Increasing, Past, Remembered, Room, CapKept
<1>3. CASE Fire
  <2>1. /\ timer # 0 /\ now >= timer /\ timer' = 0 /\ now' = now
        /\ stamps' = stamps \cup {now} /\ starts' = Append(starts, now)
    BY <1>3 DEF Fire
  <2>2. /\ Len(starts') = Len(starts) + 1 /\ DOMAIN starts' = 1 .. Len(starts) + 1
        /\ starts'[Len(starts) + 1] = now
        /\ \A i \in DOMAIN starts : i \in DOMAIN starts' /\ starts'[i] = starts[i]
    BY <1>0, <2>1
  <2>3. \A i \in DOMAIN starts : starts[i] < now
    BY <1>0, <2>1 DEF CapInv, Past
  <2>4. Increasing'
    BY <1>0, <2>2, <2>3 DEF CapInv, Increasing
  <2>5. Past'
    BY <1>0, <2>1, <2>2, <2>3 DEF CapInv, Past
  <2>6. Remembered'
    BY <1>0, <2>1, <2>2 DEF CapInv, Remembered
  <2>7. Room'
    BY <2>1 DEF Room
  <2>8. CapKept'
    <3>1. SUFFICES ASSUME NEW i \in DOMAIN starts', i + MAX_PER_HOUR <= Len(starts')
                   PROVE starts'[i + MAX_PER_HOUR] - starts'[i] >= HOUR
      BY DEF CapKept
    <3>2. CASE i + MAX_PER_HOUR <= Len(starts)
      BY <1>0, <2>2, <3>1, <3>2 DEF CapInv, CapKept
    <3>3. CASE i + MAX_PER_HOUR = Len(starts) + 1
      <4>0. i \in Nat /\ i >= 1
        BY <1>0, <2>2, <3>1
      <4>1. i = Len(starts) - MAX_PER_HOUR + 1 /\ Len(starts) >= MAX_PER_HOUR
        <5>1. Len(starts) \in Nat /\ MAX_PER_HOUR \in Nat
          BY <1>0
        <5>2. QED
          BY ONLY <3>3, <4>0, <5>1
      <4>2. starts[i] + HOUR <= now /\ i \in DOMAIN starts
        BY <1>0, <2>1, <2>2, <3>1, <4>1 DEF CapInv, Room
      <4>3. QED
        BY <1>0, <2>2, <3>3, <4>0, <4>2
    <3>4. QED
      BY <1>0, <2>2, <3>1, <3>2, <3>3
  <2>9. QED
    BY <2>4, <2>5, <2>6, <2>7, <2>8 DEF CapInv
<1>4. CASE Direct
  BY <1>4 DEF Direct, CapInv, Increasing, Past, Remembered, Room, CapKept
<1>5. ASSUME NEW r \in running, Finish(r) PROVE CapInv'
  BY <1>5 DEF Finish, CapInv, Increasing, Past, Remembered, Room, CapKept
<1>6. CASE Restart
  BY <1>6 DEF Restart, CapInv, Increasing, Past, Remembered, Room, CapKept
<1>7. CASE Tick
  <2>1. now' = now + 1 /\ UNCHANGED <<timer, stamps, starts>>
    BY <1>7 DEF Tick
  <2>2. Increasing' /\ CapKept'
    BY <2>1 DEF CapInv, Increasing, CapKept
  <2>3. Past'
    BY <1>0, <2>1 DEF CapInv, Past
  <2>4. Remembered'
    BY <1>0, <2>1 DEF CapInv, Remembered
  <2>5. Room'
    <3>1. SUFFICES ASSUME timer # 0, Len(starts) >= MAX_PER_HOUR
                   PROVE starts[Len(starts) - MAX_PER_HOUR + 1] + HOUR <= now + 1
      BY <2>1 DEF Room
    <3>2. Len(starts) - MAX_PER_HOUR + 1 \in DOMAIN starts
      BY <1>0, <3>1
    <3>3. QED
      BY <1>0, <3>1, <3>2 DEF CapInv, Room
  <2>6. QED
    BY <2>2, <2>3, <2>4, <2>5 DEF CapInv
<1>8. CASE UNCHANGED vars
  BY <1>8 DEF vars, CapInv, Increasing, Past, Remembered, Room, CapKept
<1>9. QED
  BY <1>1, <1>2, <1>3, <1>4, <1>5, <1>6, <1>7, <1>8 DEF Next

(* The hourly cap holds, whatever is queued and when (fms-reeval.js 46-63). *)
THEOREM CapHolds == Spec => []CapKept
<1>1. Init => TypeOK /\ CapInv
  BY TypeInit DEF Init, CapInv, Increasing, Past, Remembered, Room, CapKept
<1>2. TypeOK /\ CapInv /\ [Next]_vars => (TypeOK /\ CapInv)'
  BY TypeStep, CapStep
<1>3. CapInv => CapKept
  BY DEF CapInv
<1>4. QED
  BY <1>1, <1>2, <1>3, PTL DEF Spec
=============================================================================
