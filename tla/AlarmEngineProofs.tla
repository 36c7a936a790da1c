--------------------------- MODULE AlarmEngineProofs ---------------------------
(***************************************************************************)
(* Proofs about AlarmEngine and its drivers in Collector, for every value  *)
(* of their constants.                                                     *)
(*                                                                         *)
(* Every action of the engine is a turn, a restart or neither (NextIsTurn, *)
(* NextIsStep), and of a turn Effects tells alarm by alarm what it does.   *)
(*   RowInv    when the store does not fail, the row is the open alarms    *)
(*   Told      an open alarm outside maintenance has been announced        *)
(*   WatchInv  nothing was observed since a quiet time began, and what was *)
(*             observed since the latest poll belongs to the cycle of it   *)
(*   TimesInv  the engine's own times are those of the history             *)
(*   FlapInv   the flap history holds every recent raise, and leaves room  *)
(*             for one more unless the alarm flaps                         *)
(* Of the Collector, CollectorMoves shows each step to be one of the       *)
(* engine's, and DriverInv ties what the drivers hold back, the alerts of  *)
(* a poll, the silences, the held losses, to the histories that the        *)
(* properties speak of.                                                    *)
(***************************************************************************)
EXTENDS Collector, FiniteSetTheorems, TLAPS

(* The alarms after the observations of a turn are well-formed alarms.      *)
LEMMA ObservedType ==
  ASSUME TypeOK, NEW obs \in SUBSET Key, NEW ts \in Time, NEW latched \in BOOLEAN
  PROVE  /\ DOMAIN Observed(obs, ts, latched) = DOMAIN open \cup Raising(obs, ts)
         /\ Raising(obs, ts) \subseteq Key
         /\ DOMAIN Observed(obs, ts, latched) \subseteq Key
         /\ \A k \in DOMAIN Observed(obs, ts, latched) : Observed(obs, ts, latched)[k] \in Alarm
<1> DEFINE mid == Observed(obs, ts, latched)
<1>1. /\ Raising(obs, ts) \subseteq Key
      /\ DOMAIN mid = DOMAIN open \cup Raising(obs, ts)
  BY DEF Raising, Observed
<1>2. ASSUME NEW k \in Raising(obs, ts) PROVE Created(k, ts, latched) \in Alarm
  <2>1. k \in Key /\ k[1] \in Device
    BY <1>1, <1>2 DEF Key
  <2>2. Len(raisedAt[k]) + 1 \in Nat /\ cycle[k[1]] \in Nat
    BY <2>1 DEF TypeOK
  <2>3. /\ (Cardinality(RecentRaises(k, ts)) >= FlapRaises) \in BOOLEAN
        /\ InMaintenance(k[1], ts) \in BOOLEAN
    BY DEF InMaintenance
  <2>4. QED
    BY <2>2, <2>3 DEF Created, Alarm, Time
<1>3. ASSUME NEW k \in DOMAIN open PROVE Refreshed(k, ts, latched) \in Alarm
  <2>1. k \in Key /\ k[1] \in Device /\ open[k] \in Alarm /\ cycle[k[1]] \in Nat
    BY <1>3 DEF TypeOK, Key
  <2>2. InMaintenance(k[1], ts) \in BOOLEAN
    BY DEF InMaintenance
  <2>3. QED
    BY <2>1, <2>2 DEF Refreshed, Alarm, Time
<1>4. ASSUME NEW k \in DOMAIN open \cup Raising(obs, ts) PROVE mid[k] \in Alarm
  <2>1. k \in DOMAIN open => open[k] \in Alarm
    BY DEF TypeOK
  <2>2. mid[k] = IF k \notin obs THEN open[k]
                 ELSE IF k \in DOMAIN open THEN Refreshed(k, ts, latched)
                 ELSE Created(k, ts, latched)
    BY <1>4 DEF Observed
  <2>3. k \notin DOMAIN open => k \in Raising(obs, ts) /\ k \in obs
    BY <1>4 DEF Raising
  <2>4. QED
    BY <1>2, <1>3, <2>1, <2>2, <2>3
<1>5. DOMAIN mid \subseteq Key
  BY <1>1 DEF TypeOK
<1>6. QED
  BY <1>1, <1>4, <1>5

(* What a turn writes is well-typed.                                        *)
StepTyped ==
  /\ DOMAIN open' \subseteq Key
  /\ \A k \in DOMAIN open' : open'[k] \in Alarm
  /\ raises' \in [Key -> SUBSET Nat]
  /\ batteryAt' \in [Device -> Time \cup {Never}]
  /\ DOMAIN disk'.open \subseteq Key
  /\ \A k \in DOMAIN disk'.open : disk'.open[k] \in SavedAlarm
  /\ disk'.batteryAt \in [Device -> Time \cup {Never}]
  /\ raisedAt' \in [Key -> Seq(Time)]
  /\ announced' \subseteq Key
  /\ toldAt' \in [Key -> Time \cup {Never}]
  /\ seenAt' \in [Key -> Time \cup {Never}]
  /\ polledSince' \subseteq Key
  /\ batterySeen' \in [Device -> Time \cup {Never}]

LEMMA StepType ==
  ASSUME TypeOK, NEW obs \in SUBSET Key, NEW clr \in SUBSET Key, NEW latched \in BOOLEAN, NEW polled,
         EngineStep(obs, clr, clock, latched, polled)
  PROVE  StepTyped
<1> DEFINE mid == Observed(obs, clock, latched)
           raising == Raising(obs, clock)
           standing == obs \cap DOMAIN open
           updating == {k \in standing : UpdateDue(k, clock)}
           ended == {k \in clr \cap DOMAIN mid : Over(mid[k], clock)}
<1>0. clock \in Time
  BY DEF TypeOK
<1>1. /\ raising \subseteq Key
      /\ DOMAIN mid \subseteq Key
      /\ \A k \in DOMAIN mid : mid[k] \in Alarm
  BY <1>0, ObservedType
<1> HIDE DEF mid, raising
<1>2. DOMAIN open' \subseteq Key /\ \A k \in DOMAIN open' : open'[k] \in Alarm
  <2>1. open' = [k \in DOMAIN mid \ ended |-> IF k \in clr THEN Quieted(mid[k], clock) ELSE mid[k]]
    BY DEF EngineStep, mid
  <2>2. \A k \in DOMAIN mid : Quieted(mid[k], clock) \in Alarm
    BY <1>0, <1>1 DEF Quieted, Alarm
  <2> HIDE DEF ended
  <2>3. QED
    BY <1>1, <2>1, <2>2
<1>3. raises' \in [Key -> SUBSET Nat]
  <2>1. raises' = [k \in Key |-> IF k \in raising THEN RecentRaises(k, clock) ELSE raises[k]]
    BY DEF EngineStep, raising
  <2>2. \A k \in Key : RecentRaises(k, clock) \in SUBSET Nat
    BY DEF RecentRaises, TypeOK
  <2>3. QED
    BY <2>1, <2>2 DEF TypeOK
<1>4. batteryAt' \in [Device -> Time \cup {Never}]
  BY <1>0 DEF EngineStep, TypeOK
<1>5. /\ DOMAIN disk'.open \subseteq Key
      /\ \A k \in DOMAIN disk'.open : disk'.open[k] \in SavedAlarm
      /\ disk'.batteryAt \in [Device -> Time \cup {Never}]
  <2>1. disk' = disk \/ disk' = Row(open', batteryAt')
    BY DEF EngineStep
  <2>2. \A k \in DOMAIN open' : Saved(open'[k]) \in SavedAlarm
    BY <1>2 DEF Saved, SavedAlarm, Alarm
  <2>3. QED
    BY <1>2, <1>4, <2>1, <2>2 DEF Row, TypeOK
<1>6. raisedAt' \in [Key -> Seq(Time)]
  <2>1. raisedAt' = [k \in Key |-> IF k \in raising THEN Append(raisedAt[k], clock) ELSE raisedAt[k]]
    BY DEF EngineStep, raising
  <2>2. QED
    BY <1>0, <2>1 DEF TypeOK
<1>7. announced' \subseteq Key
  <2>1. \A e \in emitted' : e.key \in raising \cup updating \cup ended
    BY DEF EngineStep, Event, mid, raising
  <2>2. updating \subseteq Key /\ ended \subseteq Key
    OBVIOUS
  <2>3. announced' = (announced \ raising) \cup {e.key : e \in {f \in emitted' : f.announces}}
    BY DEF EngineStep, raising
  <2>4. QED
    BY <1>1, <2>1, <2>2, <2>3 DEF TypeOK
<1>8. toldAt' \in [Key -> Time \cup {Never}] /\ seenAt' \in [Key -> Time \cup {Never}]
  BY <1>0 DEF EngineStep, TypeOK
<1>9. polledSince' \subseteq Key /\ batterySeen' \in [Device -> Time \cup {Never}]
  BY <1>0 DEF EngineStep, TypeOK
<1>10. QED
  BY <1>2, <1>3, <1>4, <1>5, <1>6, <1>7, <1>8, <1>9 DEF StepTyped

(* No step changes a variable's type.                                       *)
LEMMA TypeKept ==
  ASSUME TypeOK, [Next]_vars
  PROVE  TypeOK'
<1>1. ASSUME NEW k \in Key, NEW latched \in BOOLEAN, Observe(k, latched) PROVE TypeOK'
  <2> DEFINE obs == {k}
  <2>1. EngineStep(obs, {}, clock, latched, NoDevice)
    BY <1>1 DEF Observe
  <2>2. UNCHANGED <<clock, cycle, commDown, windows, restarts>>
    BY <1>1 DEF Observe
  <2>3. obs \in SUBSET Key
    BY <1>1
  <2> HIDE DEF obs
  <2>4. StepTyped
    BY <1>1, <2>1, <2>3, StepType, Zenon
  <2>5. QED
    BY <2>2, <2>4 DEF StepTyped, TypeOK
<1>2. ASSUME NEW k \in Key, Clear(k) PROVE TypeOK'
  <2> DEFINE clr == {k}
  <2>1. EngineStep({}, clr, clock, FALSE, NoDevice)
    BY <1>2 DEF Clear
  <2>2. UNCHANGED <<clock, cycle, commDown, windows, restarts>>
    BY <1>2 DEF Clear
  <2>3. clr \in SUBSET Key
    BY <1>2
  <2> HIDE DEF clr
  <2>4. StepTyped
    BY <1>2, <2>1, <2>3, StepType, Zenon
  <2>5. QED
    BY <2>2, <2>4 DEF StepTyped, TypeOK
<1>3. ASSUME NEW obs \in SUBSET {k \in Key : k[2] = CommLost /\ CommLost \in TrapOnly}, NEW clr \in SUBSET Key,
             Sweep(obs, clr)
      PROVE  TypeOK'
  <2>1. EngineStep(obs, clr, clock, TRUE, NoDevice)
    BY <1>3 DEF Sweep
  <2>2. UNCHANGED <<clock, cycle, commDown, windows, restarts>>
    BY <1>3 DEF Sweep
  <2>3. obs \in SUBSET Key
    OBVIOUS
  <2>4. StepTyped
    BY <1>3, <2>1, <2>3, StepType, Zenon
  <2>5. QED
    BY <2>2, <2>4 DEF StepTyped, TypeOK
<1>4. ASSUME NEW d \in Device, PollAnswered(d) PROVE TypeOK'
  <2>1. EngineStep({}, Unseen(d), clock, FALSE, d)
    BY <1>4 DEF PollAnswered
  <2>2. Unseen(d) \in SUBSET Key
    BY DEF Unseen, TypeOK
  <2>3. /\ UNCHANGED <<clock, windows, restarts>>
        /\ cycle' = [cycle EXCEPT ![d] = @ + 1]
        /\ commDown' = [commDown EXCEPT ![d] = Never]
    BY <1>4 DEF PollAnswered
  <2>4. cycle' \in [Device -> Nat] /\ commDown' \in [Device -> Time \cup {Never}]
    BY <2>3 DEF TypeOK
  <2>5. StepTyped
    BY <2>1, <2>2, StepType
  <2>6. QED
    BY <2>3, <2>4, <2>5 DEF StepTyped, TypeOK
<1>5. ASSUME NEW d \in Device, PollFailed(d) PROVE TypeOK'
  <2> DEFINE k == <<d, CommLost>>
             obs == IF k \in DOMAIN open \/ clock - SilentSince(d) >= CommLostAfter THEN {k} ELSE {}
  <2>1. EngineStep(obs, {}, clock, FALSE, NoDevice) /\ k \in Key
    BY <1>5 DEF PollFailed
  <2>2. obs \in SUBSET Key
    BY <2>1
  <2>3. /\ UNCHANGED <<clock, cycle, windows, restarts>>
        /\ commDown' = [commDown EXCEPT ![d] = SilentSince(d)]
    BY <1>5 DEF PollFailed
  <2>4. commDown' \in [Device -> Time \cup {Never}]
    BY <2>3 DEF TypeOK, SilentSince
  <2> HIDE DEF obs
  <2>5. StepTyped
    BY <2>1, <2>2, StepType
  <2>6. QED
    BY <2>3, <2>4, <2>5 DEF StepTyped, TypeOK
<1>6. ASSUME NEW list \in SUBSET Window, SetMaintenance(list) PROVE TypeOK'
  BY <1>6 DEF SetMaintenance, TypeOK, historyVars
<1>7. CASE Restart
  <2>1. ASSUME NEW row, Restore(row),
               DOMAIN row.open \subseteq Key,
               \A k \in DOMAIN row.open : row.open[k] \in SavedAlarm,
               row.batteryAt \in [Device -> Time \cup {Never}]
        PROVE  /\ DOMAIN open' \subseteq Key
               /\ \A k \in DOMAIN open' : open'[k] \in Alarm
               /\ batteryAt' \in [Device -> Time \cup {Never}]
    BY <2>1 DEF Restore, Restored, Alarm, SavedAlarm, Time
  <2>2. Restore(disk) \/ Restore(EmptyRow)
    BY <1>7 DEF Restart
  <2>3. /\ DOMAIN open' \subseteq Key
        /\ \A k \in DOMAIN open' : open'[k] \in Alarm
        /\ batteryAt' \in [Device -> Time \cup {Never}]
    BY <2>1, <2>2 DEF EmptyRow, TypeOK
  <2>4. QED
    BY <1>7, <2>3 DEF Restart, TypeOK, historyVars
<1>8. CASE Tick
  BY <1>8 DEF Tick, TypeOK, Time, engineVars, historyVars
<1>9. CASE UNCHANGED vars
  BY <1>9 DEF TypeOK, vars, engineVars, historyVars
<1>10. QED
  BY <1>1, <1>2, <1>3, <1>4, <1>5, <1>6, <1>7, <1>8, <1>9 DEF Next

(* Every variable keeps its type, restarts and store failures included.     *)
THEOREM TypeCorrect == Spec => []TypeOK
<1>1. Init => TypeOK
  BY DEF Init, TypeOK, EmptyRow, Time, Key
<1>2. TypeOK /\ [Next]_vars => TypeOK'
  BY TypeKept
<1>3. QED
  BY <1>1, <1>2, PTL DEF Spec

-----------------------------------------------------------------------------
(* A turn of the engine, whatever called it.                                *)
Turn(obs, clr, latched) == \E polled : EngineStep(obs, clr, clock, latched, polled)

Quiet == UNCHANGED <<open, disk, historyVars>> /\ emitted' = {}

(* Every step is a turn, a restart, or leaves the alarms alone.             *)
LEMMA NextIsTurn ==
  ASSUME TypeOK, Next
  PROVE  \/ \E obs \in SUBSET Key, clr \in SUBSET Key, latched \in BOOLEAN : Turn(obs, clr, latched)
         \/ Restart
         \/ Quiet
<1> DEFINE Some == \E obs \in SUBSET Key, clr \in SUBSET Key, latched \in BOOLEAN : Turn(obs, clr, latched)
<1>0. ASSUME NEW obs \in SUBSET Key, NEW clr \in SUBSET Key, NEW latched \in BOOLEAN,
             NEW polled, EngineStep(obs, clr, clock, latched, polled)
      PROVE  Some
  BY <1>0, Zenon DEF Turn
<1> HIDE DEF Some
<1>1. ASSUME NEW k \in Key, NEW latched \in BOOLEAN, Observe(k, latched) PROVE Some
  <2>1. {k} \in SUBSET Key /\ {} \in SUBSET Key
    OBVIOUS
  <2>2. EngineStep({k}, {}, clock, latched, NoDevice)
    BY <1>1, Zenon DEF Observe
  <2>3. QED
    BY <1>0, <2>1, <2>2, Zenon
<1>2. ASSUME NEW k \in Key, Clear(k) PROVE Some
  <2>1. {k} \in SUBSET Key /\ {} \in SUBSET Key
    OBVIOUS
  <2>2. EngineStep({}, {k}, clock, FALSE, NoDevice)
    BY <1>2, Zenon DEF Clear
  <2>3. QED
    BY <1>0, <2>1, <2>2, Zenon
<1>3. ASSUME NEW obs \in SUBSET {k \in Key : k[2] = CommLost /\ CommLost \in TrapOnly}, NEW clr \in SUBSET Key,
             Sweep(obs, clr)
      PROVE  Some
  <2>1. obs \in SUBSET Key
    OBVIOUS
  <2>2. EngineStep(obs, clr, clock, TRUE, NoDevice)
    BY <1>3, Zenon DEF Sweep
  <2>3. QED
    BY <1>0, <2>1, <2>2, Zenon
<1>4. ASSUME NEW d \in Device, PollAnswered(d) PROVE Some
  <2>1. Unseen(d) \in SUBSET Key /\ {} \in SUBSET Key
    BY DEF Unseen, TypeOK
  <2>2. EngineStep({}, Unseen(d), clock, FALSE, d)
    BY <1>4, Zenon DEF PollAnswered
  <2>3. QED
    BY <1>0, <2>1, <2>2, Zenon
<1>5. ASSUME NEW d \in Device, PollFailed(d) PROVE Some
  <2> DEFINE obs == IF <<d, CommLost>> \in DOMAIN open \/ clock - SilentSince(d) >= CommLostAfter
                    THEN {<<d, CommLost>>} ELSE {}
  <2>1. EngineStep(obs, {}, clock, FALSE, NoDevice) /\ <<d, CommLost>> \in Key
    BY <1>5 DEF PollFailed
  <2>2. obs \in SUBSET Key /\ {} \in SUBSET Key
    BY <2>1
  <2> HIDE DEF obs
  <2>3. QED
    BY <1>0, <2>1, <2>2, Zenon
<1>6. ASSUME NEW list \in SUBSET Window, SetMaintenance(list) PROVE Quiet
  BY <1>6 DEF SetMaintenance, Quiet
<1>7. Tick => Quiet
  BY DEF Tick, Quiet, engineVars
<1>8. QED
  BY <1>1, <1>2, <1>3, <1>4, <1>5, <1>6, <1>7 DEF Next, Some

-----------------------------------------------------------------------------
(* The write-through row: what a turn changes of an alarm that the row      *)
(* keeps, the same turn saves.                                              *)
LEMMA TurnKeepsRow ==
  ASSUME TypeOK, RowIsCurrent, StoreFails = FALSE,
         NEW obs \in SUBSET Key, NEW clr \in SUBSET Key, NEW latched \in BOOLEAN,
         Turn(obs, clr, latched)
  PROVE  RowIsCurrent'
<1> DEFINE mid == Observed(obs, clock, latched)
           raising == Raising(obs, clock)
           standing == obs \cap DOMAIN open
           updating == {k \in standing : UpdateDue(k, clock)}
           ended == {k \in clr \cap DOMAIN mid : Over(mid[k], clock)}
           begun == {k \in standing : MaintenanceBegun(k, clock)}
<1>1. /\ open' = [k \in DOMAIN mid \ ended |-> IF k \in clr THEN Quieted(mid[k], clock) ELSE mid[k]]
      /\ IF NeedsSave(raising, updating, begun, ended)
         THEN disk' = Row(open', batteryAt')
         ELSE disk' = disk
  BY DEF Turn, EngineStep
<1>2. CASE NeedsSave(raising, updating, begun, ended)
  BY <1>1, <1>2 DEF RowIsCurrent, Row, Saved
<1>3. CASE ~NeedsSave(raising, updating, begun, ended)
  <2>1. raising = {} /\ updating = {} /\ begun = {} /\ ended = {}
    BY <1>3 DEF NeedsSave
  <2>2. DOMAIN mid = DOMAIN open
    BY <2>1 DEF Observed
  <2>3. disk' = disk
    BY <1>1, <1>3
  <2>4. ASSUME NEW k \in DOMAIN open
        PROVE  /\ mid[k].n = open[k].n
               /\ mid[k].emittedAt = open[k].emittedAt
               /\ mid[k].flapping = open[k].flapping
               /\ mid[k].maintenance = open[k].maintenance
    <3>1. open[k] \in Alarm
      BY <2>4 DEF TypeOK
    <3>2. mid[k] = IF k \in obs THEN Refreshed(k, clock, latched) ELSE open[k]
      BY <2>4 DEF Observed
    <3>3. k \in obs => ~UpdateDue(k, clock) /\ ~MaintenanceBegun(k, clock)
      BY <2>1, <2>4
    <3>4. k \in obs => InMaintenance(k[1], clock) = open[k].maintenance
      <4>1. InMaintenance(k[1], clock) \in BOOLEAN /\ open[k].maintenance \in BOOLEAN
        BY <3>1 DEF InMaintenance, Alarm
      <4>2. QED
        BY <3>3, <4>1 DEF UpdateDue, MaintenanceEnded, MaintenanceBegun
    <3>5. QED
      BY <3>1, <3>2, <3>3, <3>4 DEF Refreshed, Alarm
  <2>5. ASSUME NEW al \in Alarm
        PROVE  LET q == Quieted(al, clock) IN
               q.n = al.n /\ q.emittedAt = al.emittedAt /\ q.flapping = al.flapping /\ q.maintenance = al.maintenance
    BY DEF Quieted, Alarm
  <2>6. \A k \in DOMAIN open : mid[k] \in Alarm
    BY <2>2, ObservedType DEF TypeOK
  <2> HIDE DEF mid, ended
  <2>7. DOMAIN open' = DOMAIN open
    BY <1>1, <2>1, <2>2
  <2>8. ASSUME NEW k \in DOMAIN open
        PROVE  /\ open'[k].n = open[k].n
               /\ open'[k].emittedAt = open[k].emittedAt
               /\ open'[k].flapping = open[k].flapping
               /\ open'[k].maintenance = open[k].maintenance
    <3>1. open'[k] = IF k \in clr THEN Quieted(mid[k], clock) ELSE mid[k]
      BY <1>1, <2>1, <2>2
    <3>2. QED
      BY <2>4, <2>5, <2>6, <3>1
  <2>9. QED
    BY <2>3, <2>7, <2>8 DEF RowIsCurrent
<1>4. QED
  BY <1>2, <1>3

LEMMA RestartKeepsRow ==
  ASSUME TypeOK, RowIsCurrent, StoreFails = FALSE, Restart
  PROVE  /\ RowIsCurrent'
         /\ DOMAIN open' = DOMAIN open
         /\ \A k \in DOMAIN open : open'[k].n = open[k].n /\ open'[k].maintenance = open[k].maintenance
<1>1. /\ open' = [k \in DOMAIN disk.open |-> Restored(disk.open[k])]
      /\ disk' = disk
  BY DEF Restart, Restore
<1>2. QED
  BY <1>1 DEF RowIsCurrent, Restored

RowInv == TypeOK /\ RowIsCurrent

LEMMA RowInvHolds == ASSUME StoreFails = FALSE PROVE Spec => []RowInv
<1>1. Init => RowIsCurrent
  BY DEF Init, RowIsCurrent, EmptyRow
<1>2. TypeOK /\ RowIsCurrent /\ [Next]_vars => RowIsCurrent'
  <2> SUFFICES ASSUME TypeOK, RowIsCurrent, [Next]_vars PROVE RowIsCurrent'
    OBVIOUS
  <2>1. ASSUME NEW obs \in SUBSET Key, NEW clr \in SUBSET Key, NEW latched \in BOOLEAN,
               Turn(obs, clr, latched)
        PROVE  RowIsCurrent'
    BY <2>1, TurnKeepsRow, Zenon
  <2>2. CASE Restart
    BY <2>2, RestartKeepsRow
  <2>3. Quiet => RowIsCurrent'
    BY DEF Quiet, RowIsCurrent
  <2>4. UNCHANGED vars => RowIsCurrent'
    BY DEF vars, engineVars, RowIsCurrent
  <2>5. QED
    BY <2>1, <2>2, <2>3, <2>4, NextIsTurn, Zenon
<1>3. QED
  BY <1>1, <1>2, TypeCorrect, PTL DEF Spec, RowInv

(* When the store does not fail, a crash between any two steps finds every  *)
(* open alarm in the row.                                                   *)
THEOREM RowCurrent == ASSUME StoreFails = FALSE PROVE Spec => []RowIsCurrent
<1>1. RowInv => RowIsCurrent
  BY DEF RowInv
<1>2. QED
  BY <1>1, RowInvHolds, PTL

-----------------------------------------------------------------------------
(* Whoever was told of nothing is not told of an end: an open alarm outside *)
(* a maintenance window has been announced.                                 *)
Told == \A k \in DOMAIN open : ~open[k].maintenance => k \in announced

ClearAction ==
  \A e \in emitted' : e.kind = "alarm_clear" /\ ~e.suppressed => e.key \in announced'

LEMMA TurnTells ==
  ASSUME TypeOK, Told,
         NEW obs \in SUBSET Key, NEW clr \in SUBSET Key, NEW latched \in BOOLEAN,
         Turn(obs, clr, latched)
  PROVE  Told' /\ ClearAction
<1> DEFINE mid == Observed(obs, clock, latched)
           raising == Raising(obs, clock)
           standing == obs \cap DOMAIN open
           updating == {k \in standing : UpdateDue(k, clock)}
           ended == {k \in clr \cap DOMAIN mid : Over(mid[k], clock)}
           raises_ == {Event("alarm_raise", k, mid[k], ~mid[k].maintenance) : k \in raising}
           updates == {Event("alarm_update", k, mid[k], MaintenanceEnded(k, clock)) : k \in updating}
           clears == {Event("alarm_clear", k, mid[k], FALSE) : k \in ended}
<1>1. /\ open' = [k \in DOMAIN mid \ ended |-> IF k \in clr THEN Quieted(mid[k], clock) ELSE mid[k]]
      /\ emitted' = raises_ \cup updates \cup clears
      /\ announced' = (announced \ raising) \cup {e.key : e \in {f \in emitted' : f.announces}}
  BY DEF Turn, EngineStep
<1>2. DOMAIN mid = DOMAIN open \cup raising /\ raising \cap DOMAIN open = {}
  BY DEF Observed, Raising
<1>3. \A k \in DOMAIN mid : mid[k] \in Alarm
  BY ObservedType DEF TypeOK
<1>4. ASSUME NEW k \in DOMAIN mid, ~mid[k].maintenance PROVE k \in announced'
  <2>1. CASE k \in raising
    <3> DEFINE e == Event("alarm_raise", k, mid[k], ~mid[k].maintenance)
    <3>1. e \in emitted'
      BY <1>1, <2>1
    <3>2. e.key = k /\ e.announces
      BY <1>4 DEF Event
    <3>3. QED
      BY <1>1, <3>1, <3>2
  <2>2. CASE k \in updating /\ MaintenanceEnded(k, clock)
    <3> DEFINE e == Event("alarm_update", k, mid[k], MaintenanceEnded(k, clock))
    <3>1. e \in emitted'
      BY <1>1, <2>2
    <3>2. e.key = k /\ e.announces
      BY <2>2 DEF Event
    <3>3. QED
      BY <1>1, <3>1, <3>2
  <2>3. CASE k \in DOMAIN open /\ ~(k \in updating /\ MaintenanceEnded(k, clock))
    <3>1. open[k] \in Alarm
      BY <2>3 DEF TypeOK
    <3>2. mid[k] = IF k \in obs THEN Refreshed(k, clock, latched) ELSE open[k]
      BY <2>3 DEF Observed
    <3>3. k \in obs => mid[k].maintenance = InMaintenance(k[1], clock)
      BY <3>1, <3>2 DEF Refreshed, Alarm
    <3>4. k \in obs => ~MaintenanceEnded(k, clock)
      BY <2>3 DEF UpdateDue
    <3>5. ~open[k].maintenance
      BY <1>4, <3>2, <3>3, <3>4 DEF MaintenanceEnded
    <3>6. k \in announced /\ k \notin raising
      BY <1>2, <2>3, <3>5 DEF Told
    <3>7. QED
      BY <1>1, <3>6
  <2>4. QED
    BY <1>2, <1>4, <2>1, <2>2, <2>3
<1>5. Told'
  <2>1. ASSUME NEW k \in DOMAIN open', ~open'[k].maintenance PROVE k \in announced'
    <3>1. k \in DOMAIN mid /\ open'[k] = IF k \in clr THEN Quieted(mid[k], clock) ELSE mid[k]
      BY <1>1, <2>1
    <3> HIDE DEF mid
    <3>2. open'[k].maintenance = mid[k].maintenance
      BY <1>3, <3>1 DEF Quieted, Alarm
    <3>3. QED
      BY <1>4, <2>1, <3>1, <3>2
  <2>2. QED
    BY <2>1 DEF Told
<1>6. ClearAction
  <2>1. ASSUME NEW e \in emitted', e.kind = "alarm_clear", ~e.suppressed PROVE e.key \in announced'
    <3>1. e \in clears
      BY <1>1, <2>1 DEF Event
    <3>2. PICK k \in ended : e = Event("alarm_clear", k, mid[k], FALSE)
      BY <3>1
    <3>3. e.key = k /\ e.suppressed = mid[k].maintenance /\ k \in DOMAIN mid
      BY <3>2 DEF Event
    <3>4. QED
      BY <1>4, <2>1, <3>3
  <2>2. QED
    BY <2>1 DEF ClearAction
<1>7. QED
  BY <1>5, <1>6

(* When the store does not fail, no reader of the events hears of the end   *)
(* of an alarm whose beginning was suppressed.                              *)
THEOREM ClearsAreTold == ASSUME StoreFails = FALSE PROVE Spec => ClearOnlyIfTold
<1>1. Init => Told
  BY DEF Init, Told
<1>2. RowInv /\ Told /\ [Next]_vars => Told' /\ [ClearAction]_vars
  <2> SUFFICES ASSUME RowInv, Told, [Next]_vars PROVE Told' /\ [ClearAction]_vars
    OBVIOUS
  <2> USE DEF RowInv
  <2>1. ASSUME NEW obs \in SUBSET Key, NEW clr \in SUBSET Key, NEW latched \in BOOLEAN,
               Turn(obs, clr, latched)
        PROVE  Told' /\ ClearAction
    BY <2>1, TurnTells, Zenon
  <2>2. Restart => Told' /\ ClearAction
    <3> HAVE Restart
    <3>1. announced' = announced /\ emitted' = {}
      BY DEF Restart, historyVars
    <3>2. QED
      BY <3>1, RestartKeepsRow DEF Told, ClearAction
  <2>3. Quiet => Told' /\ ClearAction
    BY DEF Quiet, historyVars, Told, ClearAction
  <2>4. UNCHANGED vars => Told'
    BY DEF vars, engineVars, historyVars, Told
  <2>5. QED
    BY <2>1, <2>2, <2>3, <2>4, NextIsTurn, Zenon
<1>3. QED
  BY <1>1, <1>2, RowInvHolds, PTL DEF Spec, ClearOnlyIfTold, ClearAction

-----------------------------------------------------------------------------
(* The engine implements AlarmFeed.                                         *)
Standing(f) == {<<k, f[k].n>> : k \in DOMAIN f}

LEMMA TurnIsFeedStep ==
  ASSUME TypeOK,
         NEW obs \in SUBSET Key, NEW clr \in SUBSET Key, NEW latched \in BOOLEAN,
         Turn(obs, clr, latched)
  PROVE  Feed!FeedNext
<1> DEFINE mid == Observed(obs, clock, latched)
           opening == Raising(obs, clock)
           updated == {k \in obs \cap DOMAIN open : UpdateDue(k, clock)}
           ended == {k \in clr \cap DOMAIN mid : Over(mid[k], clock)}
           updating == {<<k, open[k].n>> : k \in updated}
           closing == {<<k, mid[k].n>> : k \in ended}
           fresh == {<<k, Len(raisedAt[k]) + 1>> : k \in opening}
<1>1. /\ open' = [k \in DOMAIN mid \ ended |-> IF k \in clr THEN Quieted(mid[k], clock) ELSE mid[k]]
      /\ raisedAt' = [k \in Key |-> IF k \in opening THEN Append(raisedAt[k], clock) ELSE raisedAt[k]]
      /\ emitted' = {Event("alarm_raise", k, mid[k], ~mid[k].maintenance) : k \in opening}
                      \cup {Event("alarm_update", k, mid[k], MaintenanceEnded(k, clock)) : k \in updated}
                      \cup {Event("alarm_clear", k, mid[k], FALSE) : k \in ended}
  BY DEF Turn, EngineStep
<1>2. /\ DOMAIN mid = DOMAIN open \cup opening
      /\ opening \cap DOMAIN open = {}
      /\ opening \subseteq Key
      /\ \A k \in DOMAIN mid : mid[k] \in Alarm
  <2>1. opening \cap DOMAIN open = {} /\ DOMAIN mid = DOMAIN open \cup opening
    BY DEF Raising, Observed
  <2>2. opening \subseteq Key /\ \A k \in DOMAIN mid : mid[k] \in Alarm
    BY ObservedType DEF TypeOK
  <2>3. QED
    BY <2>1, <2>2
<1>3. \A k \in opening : mid[k].n = Len(raisedAt[k]) + 1
  BY <1>2 DEF Observed, Created, Raising
<1>4. \A k \in DOMAIN open : mid[k].n = open[k].n
  <2> TAKE k \in DOMAIN open
  <2>1. open[k] \in Alarm
    BY DEF TypeOK
  <2>2. mid[k] = IF k \in obs THEN Refreshed(k, clock, latched) ELSE open[k]
    BY DEF Observed
  <2>3. QED
    BY <2>1, <2>2 DEF Refreshed, Alarm
<1> HIDE DEF mid, opening
<1>5. Standing(mid) = Standing(open) \cup fresh
  BY <1>2, <1>3, <1>4 DEF Standing
<1>6. Standing(open') = Standing(mid) \ closing
  <2>1. \A k \in DOMAIN open' : open'[k].n = mid[k].n
    BY <1>1, <1>2 DEF Quieted, Alarm
  <2>2. DOMAIN open' = DOMAIN mid \ ended /\ ended \subseteq DOMAIN mid
    BY <1>1
  <2> HIDE DEF ended
  <2>3. QED
    BY <2>1, <2>2 DEF Standing
<1>7. [k \in Key |-> Len(raisedAt'[k])]
        = [k \in Key |-> IF k \in opening THEN [j \in Key |-> Len(raisedAt[j])][k] + 1
                                          ELSE [j \in Key |-> Len(raisedAt[j])][k]]
  BY <1>1 DEF TypeOK
<1>8. {<<e.kind, <<e.key, e.n>>>> : e \in emitted'}
        = {<<"alarm_raise", a>> : a \in fresh} \cup {<<"alarm_update", a>> : a \in updating}
            \cup {<<"alarm_clear", a>> : a \in closing}
  <2> DEFINE raises_ == {Event("alarm_raise", k, mid[k], ~mid[k].maintenance) : k \in opening}
             updates == {Event("alarm_update", k, mid[k], MaintenanceEnded(k, clock)) : k \in updated}
             clears == {Event("alarm_clear", k, mid[k], FALSE) : k \in ended}
             Heard(e) == <<e.kind, <<e.key, e.n>>>>
  <2>1. /\ \A k \in opening : Heard(Event("alarm_raise", k, mid[k], ~mid[k].maintenance))
                              = <<"alarm_raise", <<k, mid[k].n>>>>
        /\ \A k \in updated : Heard(Event("alarm_update", k, mid[k], MaintenanceEnded(k, clock)))
                              = <<"alarm_update", <<k, mid[k].n>>>>
        /\ \A k \in ended : Heard(Event("alarm_clear", k, mid[k], FALSE)) = <<"alarm_clear", <<k, mid[k].n>>>>
    BY DEF Event
  <2>2. \A k \in updated : mid[k].n = open[k].n
    BY <1>4
  <2> HIDE DEF Heard, updated, ended
  <2>3. {Heard(e) : e \in raises_} = {<<"alarm_raise", a>> : a \in fresh}
    <3>1. {Heard(e) : e \in raises_} = {<<"alarm_raise", <<k, mid[k].n>>>> : k \in opening}
      BY <2>1
    <3>2. fresh = {<<k, mid[k].n>> : k \in opening}
      BY <1>3
    <3> HIDE DEF raises_, fresh
    <3>3. QED
      BY <3>1, <3>2
  <2>4. {Heard(e) : e \in updates} = {<<"alarm_update", a>> : a \in updating}
    <3>1. {Heard(e) : e \in updates} = {<<"alarm_update", <<k, mid[k].n>>>> : k \in updated}
      BY <2>1
    <3>2. updating = {<<k, mid[k].n>> : k \in updated}
      BY <2>2
    <3> HIDE DEF updates, updating
    <3>3. QED
      BY <3>1, <3>2
  <2>5. {Heard(e) : e \in clears} = {<<"alarm_clear", a>> : a \in closing}
    <3>1. {Heard(e) : e \in clears} = {<<"alarm_clear", <<k, mid[k].n>>>> : k \in ended}
      BY <2>1
    <3>2. closing = {<<k, mid[k].n>> : k \in ended}
      OBVIOUS
    <3> HIDE DEF clears, closing
    <3>3. QED
      BY <3>1, <3>2
  <2>6. emitted' = raises_ \cup updates \cup clears
    BY <1>1 DEF updated, ended
  <2> HIDE DEF raises_, updates, clears, fresh, updating, closing
  <2>7. {Heard(e) : e \in emitted'}
          = {Heard(e) : e \in raises_} \cup {Heard(e) : e \in updates} \cup {Heard(e) : e \in clears}
    BY <2>6
  <2>8. QED
    BY <2>3, <2>4, <2>5, <2>7 DEF Heard
<1>9. Feed!Fresh(opening) = fresh
  BY <1>2 DEF Feed!Fresh
<1>10. Feed!Turn(opening, updating, closing)
  BY <1>2, <1>5, <1>6, <1>7, <1>8, <1>9 DEF Feed!Turn, Standing
<1>11. /\ updating \in SUBSET Standing(open)
       /\ closing \in SUBSET (Standing(open) \cup Feed!Fresh(opening))
  BY <1>5, <1>9 DEF Standing
<1>12. opening \in SUBSET Key
  BY <1>2
<1> HIDE DEF updating, closing
<1>13. QED
  BY <1>10, <1>11, <1>12, Zenon DEF Feed!FeedNext, Feed!Turn, Standing

(* When the store does not fail, the events are those of AlarmFeed: at most *)
(* one alarm of a key open at a time, a fresh number for each raise, nothing*)
(* said of a closed alarm, and restarts invisible.                          *)
THEOREM EngineImplementsFeed == ASSUME StoreFails = FALSE PROVE Spec => FeedKept
<1>1. Init => Feed!FeedInit
  BY DEF Init, Feed!FeedInit
<1>2. RowInv /\ [Next]_vars => [Feed!FeedNext]_(Feed!feedVars)
  <2> SUFFICES ASSUME RowInv, [Next]_vars PROVE [Feed!FeedNext]_(Feed!feedVars)
    OBVIOUS
  <2> USE DEF RowInv
  <2>1. ASSUME NEW obs \in SUBSET Key, NEW clr \in SUBSET Key, NEW latched \in BOOLEAN,
               Turn(obs, clr, latched)
        PROVE  Feed!FeedNext
    BY <2>1, TurnIsFeedStep, Zenon
  <2>2. ASSUME Standing(open') = Standing(open), raisedAt' = raisedAt, emitted' = {}
        PROVE  Feed!FeedNext
    <3>1. Feed!Turn({}, {}, {})
      BY <2>2 DEF Feed!Turn, Feed!Fresh, Standing
    <3>2. QED
      BY <3>1 DEF Feed!FeedNext, Feed!Fresh
  <2>3. ASSUME Restart PROVE Feed!FeedNext
    <3>1. raisedAt' = raisedAt /\ emitted' = {}
      BY <2>3 DEF Restart, historyVars
    <3>2. Standing(open') = Standing(open)
      BY <2>3, RestartKeepsRow DEF Standing
    <3>3. QED
      BY <2>2, <3>1, <3>2
  <2>4. Quiet => Feed!FeedNext
    BY <2>2 DEF Quiet, historyVars
  <2>5. UNCHANGED vars => UNCHANGED Feed!feedVars
    BY DEF vars, engineVars, historyVars, Feed!feedVars
  <2>6. QED
    BY <2>1, <2>3, <2>4, <2>5, NextIsTurn, Zenon
<1>3. QED
  BY <1>1, <1>2, RowInvHolds, PTL DEF Spec, FeedKept, Feed!FeedSpec

-----------------------------------------------------------------------------
(* A turn with what it leaves alone: of the polls only an answered one      *)
(* opens a cycle.                                                           *)
Step(obs, clr, latched, polled) ==
  /\ EngineStep(obs, clr, clock, latched, polled)
  /\ UNCHANGED <<clock, restarts>>
  /\ \/ UNCHANGED cycle
     \/ /\ polled \in Device /\ obs = {} /\ clr = Unseen(polled)
        /\ cycle' = [cycle EXCEPT ![polled] = @ + 1]

Idle ==
  /\ UNCHANGED <<open, raises, batteryAt, cycle, disk, restarts, historyVars>> /\ emitted' = {}
  /\ clock' = clock \/ clock' = clock + 1

LEMMA NextIsStep ==
  ASSUME TypeOK, Next
  PROVE  \/ \E obs \in SUBSET Key, clr \in SUBSET Key, latched \in BOOLEAN : \E polled : Step(obs, clr, latched, polled)
         \/ Restart
         \/ Idle
<1> DEFINE Some == \E obs \in SUBSET Key, clr \in SUBSET Key, latched \in BOOLEAN :
                     \E polled : Step(obs, clr, latched, polled)
<1>0. ASSUME NEW obs \in SUBSET Key, NEW clr \in SUBSET Key, NEW latched \in BOOLEAN,
             NEW polled, Step(obs, clr, latched, polled)
      PROVE  Some
  BY <1>0, Zenon
<1> HIDE DEF Some
<1>1. ASSUME NEW k \in Key, NEW latched \in BOOLEAN, Observe(k, latched) PROVE Some
  <2>1. {k} \in SUBSET Key /\ {} \in SUBSET Key
    OBVIOUS
  <2>2. Step({k}, {}, latched, NoDevice)
    BY <1>1, Zenon DEF Observe, Step
  <2>3. QED
    BY <1>0, <2>1, <2>2, Zenon
<1>2. ASSUME NEW k \in Key, Clear(k) PROVE Some
  <2>1. {k} \in SUBSET Key /\ {} \in SUBSET Key
    OBVIOUS
  <2>2. Step({}, {k}, FALSE, NoDevice)
    BY <1>2, Zenon DEF Clear, Step
  <2>3. QED
    BY <1>0, <2>1, <2>2, Zenon
<1>3. ASSUME NEW obs \in SUBSET {k \in Key : k[2] = CommLost /\ CommLost \in TrapOnly}, NEW clr \in SUBSET Key,
             Sweep(obs, clr)
      PROVE  Some
  <2>1. obs \in SUBSET Key
    OBVIOUS
  <2>2. Step(obs, clr, TRUE, NoDevice)
    BY <1>3, Zenon DEF Sweep, Step
  <2>3. QED
    BY <1>0, <2>1, <2>2, Zenon
<1>4. ASSUME NEW d \in Device, PollAnswered(d) PROVE Some
  <2>1. Unseen(d) \in SUBSET Key /\ {} \in SUBSET Key
    BY DEF Unseen, TypeOK
  <2>2. Step({}, Unseen(d), FALSE, d)
    BY <1>4, Zenon DEF PollAnswered, Step
  <2>3. QED
    BY <1>0, <2>1, <2>2, Zenon
<1>5. ASSUME NEW d \in Device, PollFailed(d) PROVE Some
  <2> DEFINE obs == IF <<d, CommLost>> \in DOMAIN open \/ clock - SilentSince(d) >= CommLostAfter
                    THEN {<<d, CommLost>>} ELSE {}
  <2>1. EngineStep(obs, {}, clock, FALSE, NoDevice) /\ <<d, CommLost>> \in Key /\ UNCHANGED <<clock, restarts, cycle>>
    BY <1>5 DEF PollFailed
  <2>2. obs \in SUBSET Key /\ {} \in SUBSET Key
    BY <2>1
  <2> HIDE DEF obs
  <2>3. Step(obs, {}, FALSE, NoDevice)
    BY <2>1, Zenon DEF Step
  <2>4. QED
    BY <1>0, <2>2, <2>3, Zenon
<1>6. ASSUME NEW list \in SUBSET Window, SetMaintenance(list) PROVE Idle
  BY <1>6 DEF SetMaintenance, Idle
<1>7. Tick => Idle
  BY DEF Tick, Idle, engineVars
<1>8. QED
  BY <1>1, <1>2, <1>3, <1>4, <1>5, <1>6, <1>7 DEF Next, Some

(* What a turn does to an alarm, field by field.                            *)
Updating(obs) == {k \in obs \cap DOMAIN open : UpdateDue(k, clock)}
Ended(obs, clr, latched) ==
  {k \in clr \cap DOMAIN Observed(obs, clock, latched) : Over(Observed(obs, clock, latched)[k], clock)}

Effects(obs, clr, raising, ended) ==
  /\ raising \subseteq obs /\ raising \cap DOMAIN open = {} /\ ended \subseteq clr /\ ended \subseteq DOMAIN open \cup raising
  /\ DOMAIN open' = (DOMAIN open \cup raising) \ ended
  /\ \A k \in DOMAIN open' \cap raising :
       /\ open'[k].seen = cycle[k[1]] /\ open'[k].emittedAt = clock
       /\ open'[k].quietSince \in {Never, clock}
       /\ open'[k].flapping = (Cardinality(RecentRaises(k, clock)) >= FlapRaises)
  /\ \A k \in DOMAIN open' \cap DOMAIN open :
       /\ open'[k].flapping = open[k].flapping
       /\ open'[k].emittedAt = IF k \in Updating(obs) THEN clock ELSE open[k].emittedAt
       /\ k \in obs => /\ open'[k].seen = cycle[k[1]] /\ open'[k].quietSince \in {Never, clock}
       /\ k \notin obs => /\ open'[k].seen = open[k].seen /\ open'[k].latched = open[k].latched
                          /\ open'[k].quietSince \in {open[k].quietSince, clock}
                          /\ open[k].quietSince # Never => open'[k].quietSince = open[k].quietSince
  /\ \A k \in ended \cap DOMAIN open : open[k].flapping =>
       k \notin obs /\ open[k].quietSince # Never /\ clock - open[k].quietSince >= FlapQuiet
  /\ \A k \in ended \cap raising : ~(Cardinality(RecentRaises(k, clock)) >= FlapRaises)

LEMMA StepIs ==
  ASSUME TypeOK, NEW obs \in SUBSET Key, NEW clr \in SUBSET Key, NEW latched \in BOOLEAN, NEW polled,
         EngineStep(obs, clr, clock, latched, polled)
  PROVE  Effects(obs, clr, Raising(obs, clock), Ended(obs, clr, latched))
<1>0. SUFFICES ASSUME NEW raising, raising = Raising(obs, clock), NEW ended, ended = Ended(obs, clr, latched)
              PROVE  Effects(obs, clr, raising, ended)
  BY Zenon
<1> DEFINE mid == Observed(obs, clock, latched)
<1>1. /\ raising \subseteq obs /\ raising \cap DOMAIN open = {} /\ DOMAIN mid = DOMAIN open \cup raising
      /\ ended = {k \in clr \cap DOMAIN mid : Over(mid[k], clock)}
  BY <1>0 DEF Raising, Observed, Ended
<1>2. open' = [k \in DOMAIN mid \ ended |-> IF k \in clr THEN Quieted(mid[k], clock) ELSE mid[k]]
  BY <1>0 DEF EngineStep, Ended
<1>3. \A k \in DOMAIN mid : mid[k] \in Alarm
  BY ObservedType DEF TypeOK
<1>4. \A k \in raising : mid[k] = Created(k, clock, latched)
  BY <1>1 DEF Observed
<1>5. \A k \in DOMAIN open : mid[k] = IF k \in obs THEN Refreshed(k, clock, latched) ELSE open[k]
  BY DEF Observed
<1> HIDE DEF mid
<1>6. \A al \in Alarm : LET q == Quieted(al, clock) IN
        /\ q.seen = al.seen /\ q.emittedAt = al.emittedAt /\ q.flapping = al.flapping /\ q.latched = al.latched
        /\ q.quietSince \in {al.quietSince, clock} /\ (al.quietSince # Never => q.quietSince = al.quietSince)
  BY DEF Quieted, Alarm
<1>7. \A k \in DOMAIN open' : LET al == mid[k] IN
        /\ open'[k].seen = al.seen /\ open'[k].emittedAt = al.emittedAt
        /\ open'[k].flapping = al.flapping /\ open'[k].latched = al.latched
        /\ open'[k].quietSince \in {al.quietSince, clock}
        /\ (al.quietSince # Never => open'[k].quietSince = al.quietSince)
  BY <1>2, <1>3, <1>6
<1>8. \A k \in raising :
        /\ mid[k].seen = cycle[k[1]] /\ mid[k].emittedAt = clock /\ mid[k].quietSince = Never
        /\ mid[k].flapping = (Cardinality(RecentRaises(k, clock)) >= FlapRaises)
  <2> TAKE k \in raising
  <2> DEFINE flaps == Cardinality(RecentRaises(k, clock)) >= FlapRaises
             maint == InMaintenance(k[1], clock)
  <2>1. mid[k] = [n |-> Len(raisedAt[k]) + 1, emittedAt |-> clock, seen |-> cycle[k[1]], quietSince |-> Never,
                  flapping |-> flaps, maintenance |-> maint, latched |-> latched]
    BY <1>4 DEF Created
  <2> HIDE DEF flaps, maint
  <2>2. /\ mid[k].seen = cycle[k[1]] /\ mid[k].emittedAt = clock /\ mid[k].quietSince = Never
        /\ mid[k].flapping = flaps
    BY <2>1
  <2>3. QED
    BY <2>2 DEF flaps
<1>9. \A k \in DOMAIN open \cap obs :
        /\ mid[k].seen = cycle[k[1]] /\ mid[k].quietSince = Never /\ mid[k].flapping = open[k].flapping
        /\ mid[k].emittedAt = IF k \in Updating(obs) THEN clock ELSE open[k].emittedAt
  <2> TAKE k \in DOMAIN open \cap obs
  <2>1. open[k] \in Alarm
    BY DEF TypeOK
  <2>2. mid[k] = Refreshed(k, clock, latched)
    BY <1>5
  <2>3. k \in Updating(obs) <=> UpdateDue(k, clock)
    BY DEF Updating
  <2>4. QED
    BY <2>1, <2>2, <2>3 DEF Refreshed, Alarm
<1>10. \A k \in DOMAIN open \ obs : mid[k] = open[k] /\ k \notin Updating(obs)
  BY <1>5 DEF Updating
<1>11. DOMAIN open' = (DOMAIN open \cup raising) \ ended /\ ended \subseteq clr /\ ended \subseteq DOMAIN open \cup raising
  BY <1>1, <1>2
<1>12. \A k \in DOMAIN open' \cap raising :
              /\ open'[k].seen = cycle[k[1]] /\ open'[k].emittedAt = clock
              /\ open'[k].quietSince \in {Never, clock}
              /\ open'[k].flapping = (Cardinality(RecentRaises(k, clock)) >= FlapRaises)
  BY <1>7, <1>8
<1>13. ASSUME NEW k \in DOMAIN open' \cap DOMAIN open
       PROVE  /\ open'[k].flapping = open[k].flapping
              /\ open'[k].emittedAt = IF k \in Updating(obs) THEN clock ELSE open[k].emittedAt
              /\ k \in obs => /\ open'[k].seen = cycle[k[1]] /\ open'[k].quietSince \in {Never, clock}
              /\ k \notin obs => /\ open'[k].seen = open[k].seen /\ open'[k].latched = open[k].latched
                                 /\ open'[k].quietSince \in {open[k].quietSince, clock}
                                 /\ open[k].quietSince # Never => open'[k].quietSince = open[k].quietSince
  <2>1. CASE k \in obs
    BY <1>7, <1>9, <2>1
  <2>2. CASE k \notin obs
    BY <1>7, <1>10, <2>2
  <2>3. QED
    BY <2>1, <2>2
<1>14. \A k \in ended : mid[k].flapping => mid[k].quietSince # Never /\ clock - mid[k].quietSince >= FlapQuiet
  BY <1>1 DEF Over
<1>15. \A k \in ended \cap DOMAIN open : open[k].flapping =>
         k \notin obs /\ open[k].quietSince # Never /\ clock - open[k].quietSince >= FlapQuiet
  BY <1>9, <1>10, <1>14
<1>16. \A k \in ended \cap raising : ~(Cardinality(RecentRaises(k, clock)) >= FlapRaises)
  BY <1>8, <1>14
<1>17. QED
  BY <1>1, <1>11, <1>12, <1>13, <1>15, <1>16 DEF Effects

(* What a turn says.                                                        *)
LEMMA StepSays ==
  ASSUME NEW obs, NEW clr, NEW latched, NEW polled, EngineStep(obs, clr, clock, latched, polled),
         NEW e \in emitted'
  PROVE  /\ e.kind = "alarm_raise" => e.key \in Raising(obs, clock)
         /\ e.kind = "alarm_update" => e.key \in Updating(obs) /\ e.announces = MaintenanceEnded(e.key, clock)
         /\ e.kind = "alarm_clear" => e.key \in Ended(obs, clr, latched)
<1> DEFINE mid == Observed(obs, clock, latched)
           raises_ == {Event("alarm_raise", k, mid[k], ~mid[k].maintenance) : k \in Raising(obs, clock)}
           updates == {Event("alarm_update", k, mid[k], MaintenanceEnded(k, clock)) : k \in Updating(obs)}
           clears == {Event("alarm_clear", k, mid[k], FALSE) : k \in Ended(obs, clr, latched)}
<1>1. emitted' = raises_ \cup updates \cup clears
  BY DEF EngineStep, Ended, Updating
<1> HIDE DEF mid
<1>2. CASE e \in raises_
  BY <1>2 DEF Event
<1>3. CASE e \in updates
  BY <1>3 DEF Event
<1>4. CASE e \in clears
  BY <1>4 DEF Event
<1>5. QED
  BY <1>1, <1>2, <1>3, <1>4

-----------------------------------------------------------------------------
(* When a quiet time runs, the alarm was not observed since it began; and   *)
(* an alarm observed since the poll before belongs to the cycle under way.  *)
QuietUnseen ==
  /\ \A k \in Key : seenAt[k] <= clock
  /\ \A k \in DOMAIN open : open[k].quietSince # Never => seenAt[k] <= open[k].quietSince

SeenThisCycle ==
  \A k \in DOMAIN open \cap polledSince : open[k].latched \/ open[k].seen >= cycle[k[1]]

WatchInv == QuietUnseen /\ SeenThisCycle

LEMMA StepWatches ==
  ASSUME TypeOK, WatchInv, NEW obs \in SUBSET Key, NEW clr \in SUBSET Key, NEW latched \in BOOLEAN, NEW polled,
         Step(obs, clr, latched, polled)
  PROVE  WatchInv'
<1>1. PICK raising, ended : raising = Raising(obs, clock) /\ ended = Ended(obs, clr, latched)
  OBVIOUS
<1>2. EngineStep(obs, clr, clock, latched, polled) /\ clock' = clock /\ clock \in Nat
  BY DEF Step, TypeOK, Time
<1>3. /\ raising \subseteq obs /\ DOMAIN open' = (DOMAIN open \cup raising) \ ended
      /\ \A k \in DOMAIN open' \cap raising : open'[k].seen = cycle[k[1]] /\ open'[k].quietSince \in {Never, clock}
      /\ \A k \in DOMAIN open' \cap DOMAIN open :
              /\ k \in obs => /\ open'[k].seen = cycle[k[1]] /\ open'[k].quietSince \in {Never, clock}
              /\ k \notin obs => /\ open'[k].seen = open[k].seen /\ open'[k].latched = open[k].latched
                                 /\ open'[k].quietSince \in {open[k].quietSince, clock}
                                 /\ open[k].quietSince # Never => open'[k].quietSince = open[k].quietSince
  <2>1. Effects(obs, clr, raising, ended)
    BY <1>1, <1>2, StepIs, Zenon
  <2>2. QED
    BY <2>1 DEF Effects
<1>4. \A k \in Key : /\ seenAt'[k] = IF k \in ended THEN Never
                                     ELSE IF k \in (obs \cap DOMAIN open) \cup raising THEN clock ELSE seenAt[k]
                     /\ seenAt[k] \in Nat \cup {Never} /\ seenAt[k] <= clock
  BY <1>1, <1>2 DEF EngineStep, Ended, WatchInv, QuietUnseen, TypeOK, Time
<1>5. polledSince' = {k \in (polledSince \cup obs) \ ended : k[1] # polled}
  BY <1>1, <1>2 DEF EngineStep, Ended
<1>6. DOMAIN open' \subseteq Key /\ \A k \in Key : k[1] \in Device /\ cycle[k[1]] \in Nat
  <2>1. StepTyped
    BY <1>2, StepType, Zenon
  <2>2. QED
    BY <2>1 DEF StepTyped, TypeOK, Key
<1>7. \A k \in DOMAIN open' : open'[k].quietSince # Never => seenAt'[k] <= open'[k].quietSince
  <2> SUFFICES ASSUME NEW k \in DOMAIN open', open'[k].quietSince # Never
               PROVE  seenAt'[k] <= open'[k].quietSince
    OBVIOUS
  <2>1. CASE k \in obs \/ k \in raising
    BY <1>2, <1>3, <1>4, <1>6, <2>1 DEF Never
  <2>2. CASE k \notin obs /\ k \notin raising
    <3>1. k \in DOMAIN open /\ k \notin ended /\ seenAt'[k] = seenAt[k]
      BY <1>3, <1>4, <1>6, <2>2
    <3>2. open[k].quietSince # Never => seenAt[k] <= open[k].quietSince
      BY <3>1 DEF WatchInv, QuietUnseen
    <3>3. QED
      BY <1>3, <1>4, <1>6, <2>2, <3>1, <3>2
  <2>3. QED
    BY <2>1, <2>2
<1>8. QuietUnseen'
  BY <1>2, <1>4, <1>7 DEF QuietUnseen, Never
<1>9. \A k \in DOMAIN open' \cap polledSince' : k[1] # polled => cycle'[k[1]] = cycle[k[1]]
  <2>1. cycle' = cycle \/ (polled \in Device /\ cycle' = [cycle EXCEPT ![polled] = @ + 1])
    BY DEF Step
  <2>2. QED
    BY <1>6, <2>1 DEF TypeOK
<1>10. ASSUME NEW k \in DOMAIN open' \cap polledSince' PROVE open'[k].latched \/ open'[k].seen >= cycle'[k[1]]
  <2>1. k[1] # polled /\ cycle'[k[1]] = cycle[k[1]] /\ cycle[k[1]] \in Nat /\ k \in polledSince \cup obs
    BY <1>5, <1>6, <1>9
  <2>2. CASE k \in obs \/ k \in raising
    <3>1. open'[k].seen = cycle[k[1]]
      BY <1>3, <2>2
    <3>2. QED
      BY <2>1, <3>1
  <2>3. CASE k \notin obs /\ k \notin raising
    <3>1. k \in DOMAIN open \cap polledSince /\ open'[k].seen = open[k].seen /\ open'[k].latched = open[k].latched
      BY <1>3, <2>1, <2>3
    <3>2. open[k].latched \/ open[k].seen >= cycle[k[1]]
      BY <3>1 DEF WatchInv, SeenThisCycle
    <3>3. QED
      BY <2>1, <3>1, <3>2
  <2>4. QED
    BY <2>2, <2>3
<1>11. QED
  BY <1>8, <1>10 DEF WatchInv, SeenThisCycle

LEMMA WatchHolds == Spec => [](TypeOK /\ WatchInv)
<1>1. Init => WatchInv
  BY DEF Init, WatchInv, QuietUnseen, SeenThisCycle, Never
<1>2. TypeOK /\ WatchInv /\ [Next]_vars => WatchInv'
  <2> SUFFICES ASSUME TypeOK, WatchInv, [Next]_vars PROVE WatchInv'
    OBVIOUS
  <2>1. ASSUME NEW obs \in SUBSET Key, NEW clr \in SUBSET Key, NEW latched \in BOOLEAN, NEW polled,
               Step(obs, clr, latched, polled)
        PROVE  WatchInv'
    BY <2>1, StepWatches, Zenon
  <2>2. CASE Restart
    <3>1. \A k \in DOMAIN open' : k \in Key /\ open'[k].quietSince = Never /\ open'[k].seen = 0
      BY <2>2 DEF Restart, Restore, Restored, EmptyRow, TypeOK
    <3>2. \A k \in DOMAIN open' : cycle'[k[1]] = 0
      BY <2>2, <3>1 DEF Restart, Key
    <3>3. UNCHANGED <<clock, seenAt, polledSince>>
      BY <2>2 DEF Restart, historyVars
    <3>4. QED
      BY <3>1, <3>2, <3>3 DEF WatchInv, QuietUnseen, SeenThisCycle
  <2>3. CASE Idle
    <3>1. UNCHANGED <<open, cycle, seenAt, polledSince>> /\ clock \in Nat /\ clock' >= clock /\ clock' \in Nat
      BY <2>3 DEF Idle, historyVars, TypeOK, Time
    <3>2. \A k \in Key : seenAt[k] \in Int /\ seenAt[k] <= clock
      BY DEF WatchInv, QuietUnseen, TypeOK, Time, Never
    <3>3. \A k \in Key : seenAt'[k] <= clock'
      BY <3>1, <3>2
    <3>4. QED
      BY <3>1, <3>3 DEF WatchInv, QuietUnseen, SeenThisCycle
  <2>4. CASE UNCHANGED vars
    BY <2>4 DEF vars, engineVars, historyVars, WatchInv, QuietUnseen, SeenThisCycle
  <2>5. QED
    BY <2>1, <2>2, <2>3, <2>4, NextIsStep, Zenon
<1>3. QED
  BY <1>1, <1>2, TypeCorrect, PTL DEF Spec

(* inactive(): a flapping alarm is cleared only after FlapQuiet without an  *)
(* observation, restarts and a failing store included.                      *)
FlapQuietStep ==
  \A e \in emitted' :
    e.kind = "alarm_clear" /\ e.key \in DOMAIN open /\ open[e.key].flapping => clock - seenAt[e.key] >= FlapQuiet

THEOREM FlapQuietHolds == Spec => FlapQuietKept
<1>1. TypeOK /\ WatchInv /\ [Next]_vars => [FlapQuietStep]_vars
  <2> SUFFICES ASSUME TypeOK, WatchInv, Next PROVE FlapQuietStep
    OBVIOUS
  <2>1. ASSUME NEW obs \in SUBSET Key, NEW clr \in SUBSET Key, NEW latched \in BOOLEAN, NEW polled,
               Step(obs, clr, latched, polled)
        PROVE  FlapQuietStep
    <3>1. EngineStep(obs, clr, clock, latched, polled)
      BY <2>1 DEF Step
    <3> SUFFICES ASSUME NEW e \in emitted', e.kind = "alarm_clear", e.key \in DOMAIN open, open[e.key].flapping
                 PROVE  clock - seenAt[e.key] >= FlapQuiet
      BY DEF FlapQuietStep
    <3>2. PICK k : k = e.key
      OBVIOUS
    <3>3. k \in Ended(obs, clr, latched) \cap DOMAIN open
      BY <3>1, <3>2, StepSays
    <3>4. open[k].quietSince # Never /\ clock - open[k].quietSince >= FlapQuiet
      <4>1. Effects(obs, clr, Raising(obs, clock), Ended(obs, clr, latched))
        BY <3>1, StepIs, Zenon
      <4>2. QED
        BY <3>2, <3>3, <4>1 DEF Effects
    <3>5. seenAt[k] <= open[k].quietSince
      BY <3>3, <3>4 DEF WatchInv, QuietUnseen
    <3>6. clock \in Int /\ seenAt[k] \in Int /\ open[k].quietSince \in Int /\ FlapQuiet \in Int
      BY <3>3, EngineAssumption DEF TypeOK, Alarm, Time, Never
    <3>7. QED
      BY <3>2, <3>4, <3>5, <3>6
  <2>2. Restart \/ Idle => FlapQuietStep
    BY DEF Restart, Idle, FlapQuietStep
  <2>3. QED
    BY <2>1, <2>2, NextIsStep, Zenon
<1>2. QED
  BY <1>1, WatchHolds, PTL DEF Spec, FlapQuietKept, FlapQuietStep

(* beginCycle(): a poll clears no alarm whose condition was observed since  *)
(* the device's poll before, restarts and a failing store included.         *)
StandingStep ==
  \A d \in Device : cycle'[d] = cycle[d] + 1 =>
    \A e \in emitted' :
      e.kind = "alarm_clear" /\ e.key[1] = d /\ e.key[2] # CommLost => e.key \notin polledSince

THEOREM StandingAlarmHolds == Spec => StandingAlarmKept
<1>1. TypeOK /\ WatchInv /\ [Next]_vars => [StandingStep]_vars
  <2> SUFFICES ASSUME TypeOK, WatchInv, Next PROVE StandingStep
    OBVIOUS
  <2>1. ASSUME NEW obs \in SUBSET Key, NEW clr \in SUBSET Key, NEW latched \in BOOLEAN, NEW polled,
               Step(obs, clr, latched, polled)
        PROVE  StandingStep
    <3>1. EngineStep(obs, clr, clock, latched, polled)
      BY <2>1 DEF Step
    <3> SUFFICES ASSUME NEW d \in Device, cycle'[d] = cycle[d] + 1,
                        NEW e \in emitted', e.kind = "alarm_clear", e.key[1] = d, e.key[2] # CommLost
                 PROVE  e.key \notin polledSince
      BY DEF StandingStep
    <3>2. PICK k : k = e.key
      OBVIOUS
    <3>3. cycle[d] \in Nat /\ cycle'[d] # cycle[d]
      BY DEF TypeOK
    <3>4. polled = d /\ obs = {} /\ clr = Unseen(d)
      BY <2>1, <3>3 DEF Step, TypeOK
    <3>5. k \in Ended(obs, clr, latched) /\ Raising(obs, clock) = {}
      BY <3>1, <3>2, <3>4, StepSays DEF Raising
    <3>6. k \in Unseen(d)
      <4>1. Effects(obs, clr, Raising(obs, clock), Ended(obs, clr, latched))
        BY <3>1, StepIs, Zenon
      <4>2. QED
        BY <3>4, <3>5, <4>1 DEF Effects
    <3>7. k \in DOMAIN open /\ ~open[k].latched /\ open[k].seen < cycle[d]
      BY <3>2, <3>6 DEF Unseen
    <3>8. open[k].seen \in Nat
      BY <3>7 DEF TypeOK, Alarm
    <3>9. QED
      BY <3>2, <3>3, <3>7, <3>8 DEF WatchInv, SeenThisCycle
  <2>2. Restart \/ Idle => StandingStep
    BY DEF Restart, Idle, StandingStep
  <2>3. QED
    BY <2>1, <2>2, NextIsStep, Zenon
<1>2. QED
  BY <1>1, WatchHolds, PTL DEF Spec, StandingAlarmKept, StandingStep

-----------------------------------------------------------------------------
(* When the store does not fail: an open alarm knows when it was last told, *)
(* and memory and row know when the battery was last in use, but while the  *)
(* alarm that says so is open.                                              *)
ToldTimes == \A k \in DOMAIN open : toldAt[k] = open[k].emittedAt

BatteryTimes ==
  \A d \in Device : <<d, OnBattery>> \in DOMAIN open \/ (batteryAt[d] = batterySeen[d] /\ disk.batteryAt[d] = batterySeen[d])

TimesInv == ToldTimes /\ BatteryTimes

LEMMA StepKeepsTimes ==
  ASSUME TypeOK, TimesInv, StoreFails = FALSE,
         NEW obs \in SUBSET Key, NEW clr \in SUBSET Key, NEW latched \in BOOLEAN, NEW polled,
         EngineStep(obs, clr, clock, latched, polled)
  PROVE  TimesInv'
<1>1. PICK raising, ended : raising = Raising(obs, clock) /\ ended = Ended(obs, clr, latched)
  OBVIOUS
<1>2. Effects(obs, clr, raising, ended) /\ StepTyped
  BY <1>1, StepIs, StepType, Zenon
<1>3. ToldTimes'
  <2>1. \A k \in Key : toldAt'[k] = IF k \in ended THEN Never
                                   ELSE IF k \in raising \cup Updating(obs) THEN clock ELSE toldAt[k]
    BY <1>1 DEF EngineStep, Ended, Updating
  <2>2. ASSUME NEW k \in DOMAIN open' PROVE toldAt'[k] = open'[k].emittedAt
    <3>1. k \in Key /\ k \notin ended
      BY <1>2 DEF StepTyped, Effects
    <3>2. CASE k \in raising
      BY <1>2, <2>1, <3>1, <3>2 DEF Effects
    <3>3. CASE k \in DOMAIN open
      <4>1. k \notin raising /\ toldAt[k] = open[k].emittedAt
        BY <1>2, <3>3 DEF Effects, TimesInv, ToldTimes
      <4>2. QED
        BY <1>2, <2>1, <3>1, <3>3, <4>1 DEF Effects
    <3>4. QED
      BY <1>2, <3>2, <3>3 DEF Effects
  <2>3. QED
    BY <2>2 DEF ToldTimes
<1>4. BatteryTimes'
  <2> SUFFICES ASSUME NEW d \in Device, <<d, OnBattery>> \notin DOMAIN open'
               PROVE  batteryAt'[d] = batterySeen'[d] /\ disk'.batteryAt[d] = batterySeen'[d]
    BY DEF BatteryTimes
  <2> DEFINE k == <<d, OnBattery>>
  <2>1. /\ batteryAt'[d] = IF k \in obs \cup ended THEN clock ELSE batteryAt[d]
        /\ batterySeen'[d] = IF k \in obs \cup ended THEN clock ELSE batterySeen[d]
    BY <1>1 DEF EngineStep, Ended
  <2>2. \/ disk' = Row(open', batteryAt')
        \/ disk' = disk /\ raising = {} /\ ended = {}
    BY <1>1 DEF EngineStep, Ended, NeedsSave
  <2>3. DOMAIN open' = (DOMAIN open \cup raising) \ ended
    BY <1>2 DEF Effects
  <2>4. CASE k \in ended
    BY <2>1, <2>2, <2>4 DEF Row
  <2>5. CASE k \notin ended
    <3>1. k \notin DOMAIN open /\ k \notin raising
      BY <2>3, <2>5
    <3>2. batteryAt[d] = batterySeen[d] /\ disk.batteryAt[d] = batterySeen[d]
      BY <3>1 DEF TimesInv, BatteryTimes
    <3>3. k \notin obs
      BY <1>1, <3>1, EngineAssumption DEF Raising
    <3>4. QED
      BY <2>1, <2>2, <2>5, <3>2, <3>3 DEF Row
  <2>6. QED
    BY <2>4, <2>5
<1>5. QED
  BY <1>3, <1>4 DEF TimesInv

LEMMA TimesHold == ASSUME StoreFails = FALSE PROVE Spec => [](RowInv /\ TimesInv)
<1>1. Init => TimesInv
  BY DEF Init, TimesInv, ToldTimes, BatteryTimes, EmptyRow
<1>2. RowInv /\ TimesInv /\ [Next]_vars => TimesInv'
  <2> SUFFICES ASSUME RowInv, TimesInv, [Next]_vars PROVE TimesInv'
    OBVIOUS
  <2>0. TypeOK /\ RowIsCurrent
    BY DEF RowInv
  <2>1. ASSUME NEW obs \in SUBSET Key, NEW clr \in SUBSET Key, NEW latched \in BOOLEAN, NEW polled,
               Step(obs, clr, latched, polled)
        PROVE  TimesInv'
    <3>1. EngineStep(obs, clr, clock, latched, polled)
      BY <2>1 DEF Step
    <3>2. QED
      BY <2>0, <3>1, StepKeepsTimes, Zenon
  <2>2. CASE Restart
    <3>1. /\ open' = [k \in DOMAIN disk.open |-> Restored(disk.open[k])]
          /\ batteryAt' = disk.batteryAt
          /\ UNCHANGED <<disk, toldAt, batterySeen>>
      BY <2>2 DEF Restart, Restore, historyVars
    <3>2. \A k \in DOMAIN open : open'[k].emittedAt = open[k].emittedAt
      BY <2>0, <3>1 DEF RowIsCurrent, Restored
    <3>3. DOMAIN open' = DOMAIN open
      BY <2>0, <3>1 DEF RowIsCurrent
    <3>4. QED
      BY <3>1, <3>2, <3>3 DEF TimesInv, ToldTimes, BatteryTimes
  <2>3. CASE Idle
    BY <2>3 DEF Idle, historyVars, TimesInv, ToldTimes, BatteryTimes
  <2>4. CASE UNCHANGED vars
    BY <2>4 DEF vars, engineVars, historyVars, TimesInv, ToldTimes, BatteryTimes
  <2>5. QED
    BY <2>0, <2>1, <2>2, <2>3, <2>4, NextIsStep, Zenon
<1>3. QED
  BY <1>1, <1>2, RowInvHolds, PTL DEF Spec

(* observe(): when the store does not fail, an alarm that stands is         *)
(* repeated at most once per UpdateEvery, restarts included.                *)
SpacedStep ==
  \A e \in emitted' : e.kind = "alarm_update" /\ ~e.announces => clock - toldAt[e.key] >= UpdateEvery

THEOREM UpdatesAreSpaced == ASSUME StoreFails = FALSE PROVE Spec => UpdatesSpaced
<1>1. TypeOK /\ TimesInv /\ [Next]_vars => [SpacedStep]_vars
  <2> SUFFICES ASSUME TypeOK, TimesInv, Next PROVE SpacedStep
    OBVIOUS
  <2>1. ASSUME NEW obs \in SUBSET Key, NEW clr \in SUBSET Key, NEW latched \in BOOLEAN, NEW polled,
               Step(obs, clr, latched, polled)
        PROVE  SpacedStep
    <3>1. EngineStep(obs, clr, clock, latched, polled)
      BY <2>1 DEF Step
    <3> SUFFICES ASSUME NEW e \in emitted', e.kind = "alarm_update", ~e.announces
                 PROVE  clock - toldAt[e.key] >= UpdateEvery
      BY DEF SpacedStep
    <3>2. PICK k : k = e.key
      OBVIOUS
    <3>3. k \in Updating(obs) /\ ~MaintenanceEnded(k, clock)
      BY <3>1, <3>2, StepSays, Zenon
    <3>4. k \in DOMAIN open /\ clock - open[k].emittedAt >= UpdateEvery
      BY <3>3 DEF Updating, UpdateDue
    <3>5. QED
      BY <3>2, <3>4 DEF TimesInv, ToldTimes
  <2>2. Restart \/ Idle => SpacedStep
    BY DEF Restart, Idle, SpacedStep
  <2>3. QED
    BY <2>1, <2>2, NextIsStep, Zenon
<1>2. RowInv => TypeOK
  BY DEF RowInv
<1>3. QED
  BY <1>1, <1>2, TimesHold, PTL DEF Spec, UpdatesSpaced, SpacedStep

(* What no step does while the hold lasts.                                  *)
HoldStep ==
  \A e \in emitted' :
    e.kind = "alarm_raise" /\ e.key[2] = CapacityLow =>
      /\ <<e.key[1], OnBattery>> \notin DOMAIN open
      /\ batterySeen[e.key[1]] # Never => clock - batterySeen[e.key[1]] >= CapacityHold

LEMMA StepHolds ==
  ASSUME TypeOK, TimesInv, Next
  PROVE  HoldStep
<1>1. ASSUME NEW obs \in SUBSET Key, NEW clr \in SUBSET Key, NEW latched \in BOOLEAN, NEW polled,
             Step(obs, clr, latched, polled)
      PROVE  HoldStep
  <2>1. EngineStep(obs, clr, clock, latched, polled)
    BY <1>1 DEF Step
  <2> SUFFICES ASSUME NEW e \in emitted', e.kind = "alarm_raise", e.key[2] = CapacityLow
               PROVE  /\ <<e.key[1], OnBattery>> \notin DOMAIN open
                      /\ batterySeen[e.key[1]] # Never => clock - batterySeen[e.key[1]] >= CapacityHold
    BY DEF HoldStep
  <2>2. e.key \in Raising(obs, clock)
    BY <2>1, StepSays, Zenon
  <2>3. ~CapacityHeld(e.key[1], clock) /\ e.key[1] \in Device
    BY <2>2 DEF Raising, Key
  <2>4. PICK d \in Device : d = e.key[1]
    BY <2>3
  <2>5. <<d, OnBattery>> \notin DOMAIN open /\ (batteryAt[d] # Never => ~(clock - batteryAt[d] < CapacityHold))
    BY <2>3, <2>4 DEF CapacityHeld
  <2>6. batteryAt[d] = batterySeen[d]
    BY <2>5 DEF TimesInv, BatteryTimes
  <2>7. clock \in Nat /\ CapacityHold \in Nat /\ batterySeen[d] \in Nat \cup {Never}
    BY EngineAssumption DEF TypeOK, Time
  <2>8. QED
    BY <2>4, <2>5, <2>6, <2>7 DEF Never
<1>2. Restart \/ Idle => HoldStep
  BY DEF Restart, Idle, HoldStep
<1>3. QED
  BY <1>1, <1>2, NextIsStep, Zenon

(* capacityHeld(): when the store does not fail, no capacity warning is     *)
(* raised on battery or within CapacityHold of it, restarts included.       *)
THEOREM CapacityIsHeld == ASSUME StoreFails = FALSE PROVE Spec => CapacityHoldKept
<1>1. TypeOK /\ TimesInv /\ [Next]_vars => [HoldStep]_vars
  BY StepHolds
<1>2. RowInv => TypeOK
  BY DEF RowInv
<1>3. QED
  BY <1>1, <1>2, TimesHold, PTL DEF Spec, CapacityHoldKept, HoldStep

-----------------------------------------------------------------------------
(* The flap rule.  While the process lives its flap history holds every     *)
(* recent raise; an alarm that does not flap leaves room for another; and a *)
(* flapping one was observed since all of them.                             *)
Recent(k) == {n \in DOMAIN raisedAt[k] : clock - raisedAt[k][n] < FlapWindow}
Flaps(k) == k \in DOMAIN open /\ open[k].flapping

HistoryKept ==
  \A k \in Key : /\ Recent(k) \subseteq raises[k] /\ raises[k] \subseteq DOMAIN raisedAt[k]
                 /\ \A n \in DOMAIN raisedAt[k] : raisedAt[k][n] <= clock
RoomLeft ==
  \A k \in Key : /\ Cardinality(Recent(k)) <= FlapRaises
                 /\ ~Flaps(k) => Cardinality(Recent(k)) < FlapRaises
RaisedBefore == \A k \in Key : Flaps(k) => \A n \in DOMAIN raisedAt[k] : raisedAt[k][n] <= seenAt[k]

FlapInv == restarts = 0 => HistoryKept /\ RoomLeft /\ RaisedBefore

LEMMA RecentIs ==
  ASSUME TypeOK, NEW k \in Key
  PROVE  IsFiniteSet(Recent(k)) /\ Cardinality(Recent(k)) \in Nat
<1>1. IsFiniteSet(DOMAIN raisedAt[k])
  <2>1. DOMAIN raisedAt[k] = 1 .. Len(raisedAt[k]) /\ Len(raisedAt[k]) \in Nat
    BY DEF TypeOK
  <2>2. QED
    BY <2>1, FS_Interval
<1>2. QED
  BY <1>1, FS_Subset, FS_CardinalityType DEF Recent

(* A raise is one recent raise more.                                        *)
LEMMA RaiseCounts ==
  ASSUME TypeOK, HistoryKept, NEW k \in Key
  PROVE  /\ RecentRaises(k, clock) = Recent(k) \cup {Len(raisedAt[k]) + 1}
         /\ IsFiniteSet(RecentRaises(k, clock))
         /\ Cardinality(RecentRaises(k, clock)) \in Nat
         /\ Cardinality(RecentRaises(k, clock)) <= Cardinality(Recent(k)) + 1
<1>1. RecentRaises(k, clock) = Recent(k) \cup {Len(raisedAt[k]) + 1}
  BY DEF RecentRaises, Recent, HistoryKept
<1>2. IsFiniteSet(Recent(k)) /\ Cardinality(Recent(k)) \in Nat
  BY RecentIs
<1>3. ASSUME NEW S, NEW x, IsFiniteSet(S)
      PROVE  /\ IsFiniteSet(S \cup {x}) /\ Cardinality(S \cup {x}) \in Nat
             /\ Cardinality(S \cup {x}) <= Cardinality(S) + 1
  <2>1. /\ IsFiniteSet(S \cup {x})
        /\ Cardinality(S \cup {x}) = IF x \in S THEN Cardinality(S) ELSE Cardinality(S) + 1
    BY <1>3, FS_AddElement, Zenon
  <2>2. Cardinality(S) \in Nat
    BY <1>3, FS_CardinalityType, Zenon
  <2>3. QED
    BY <2>1, <2>2
<1>4. /\ IsFiniteSet(Recent(k) \cup {Len(raisedAt[k]) + 1})
      /\ Cardinality(Recent(k) \cup {Len(raisedAt[k]) + 1}) \in Nat
      /\ Cardinality(Recent(k) \cup {Len(raisedAt[k]) + 1}) <= Cardinality(Recent(k)) + 1
  BY <1>2, <1>3
<1>5. QED
  BY <1>1, <1>4

LEMMA StepKeepsFlap ==
  ASSUME TypeOK, QuietUnseen, HistoryKept, RoomLeft, RaisedBefore, FlapRaises >= 1, FlapWindow <= FlapQuiet,
         NEW obs \in SUBSET Key, NEW clr \in SUBSET Key, NEW latched \in BOOLEAN, NEW polled,
         Step(obs, clr, latched, polled)
  PROVE  HistoryKept' /\ RoomLeft' /\ RaisedBefore'
<1>1. PICK raising, ended : raising = Raising(obs, clock) /\ ended = Ended(obs, clr, latched)
  OBVIOUS
<1>2. EngineStep(obs, clr, clock, latched, polled) /\ clock' = clock /\ clock \in Nat
  BY DEF Step, TypeOK, Time
<1>3. Effects(obs, clr, raising, ended) /\ StepTyped
  BY <1>1, <1>2, StepIs, StepType, Zenon
<1>4. /\ raises' = [k \in Key |-> IF k \in raising THEN RecentRaises(k, clock) ELSE raises[k]]
      /\ raisedAt' = [k \in Key |-> IF k \in raising THEN Append(raisedAt[k], clock) ELSE raisedAt[k]]
      /\ seenAt' = [k \in Key |-> IF k \in ended THEN Never
                                  ELSE IF k \in (obs \cap DOMAIN open) \cup raising THEN clock ELSE seenAt[k]]
  BY <1>1, <1>2 DEF EngineStep, Ended
<1>5. FlapRaises \in Nat /\ FlapWindow \in Nat /\ FlapQuiet \in Nat
  BY EngineAssumption
<1> SUFFICES ASSUME NEW k \in Key
             PROVE  /\ Recent(k)' \subseteq raises'[k] /\ raises'[k] \subseteq DOMAIN raisedAt'[k]
                    /\ \A n \in DOMAIN raisedAt'[k] : raisedAt'[k][n] <= clock
                    /\ Cardinality(Recent(k)') <= FlapRaises
                    /\ ~Flaps(k)' => Cardinality(Recent(k)') < FlapRaises
                    /\ Flaps(k)' => \A n \in DOMAIN raisedAt'[k] : raisedAt'[k][n] <= seenAt'[k]
  BY <1>2 DEF HistoryKept, RoomLeft, RaisedBefore
<1>6. /\ Recent(k) \subseteq raises[k] /\ raises[k] \subseteq DOMAIN raisedAt[k]
      /\ \A n \in DOMAIN raisedAt[k] : raisedAt[k][n] <= clock
      /\ Cardinality(Recent(k)) <= FlapRaises
      /\ ~Flaps(k) => Cardinality(Recent(k)) < FlapRaises
      /\ Flaps(k) => \A n \in DOMAIN raisedAt[k] : raisedAt[k][n] <= seenAt[k]
  BY DEF HistoryKept, RoomLeft, RaisedBefore
<1>7. Cardinality(Recent(k)) \in Nat /\ IsFiniteSet(Recent(k))
  BY RecentIs
<1>8. CASE k \in raising
  <2> DEFINE c == Len(raisedAt[k]) + 1
             R == RecentRaises(k, clock)
  <2>1. k \notin DOMAIN open /\ ~Flaps(k)
    BY <1>3, <1>8 DEF Effects, Flaps
  <2>2. R = Recent(k) \cup {c} /\ Cardinality(R) \in Nat /\ Cardinality(R) <= FlapRaises /\ IsFiniteSet(R)
    <3>1. /\ R = Recent(k) \cup {c} /\ IsFiniteSet(R)
          /\ Cardinality(R) \in Nat /\ Cardinality(R) <= Cardinality(Recent(k)) + 1
      BY RaiseCounts
    <3>2. QED
      BY <1>5, <1>6, <1>7, <2>1, <3>1
  <2>3. /\ DOMAIN raisedAt'[k] = DOMAIN raisedAt[k] \cup {c} /\ raisedAt'[k][c] = clock
        /\ \A n \in DOMAIN raisedAt[k] : raisedAt'[k][n] = raisedAt[k][n]
    <3>1. raisedAt[k] \in Seq(Nat) /\ raisedAt'[k] = Append(raisedAt[k], clock)
      BY <1>4, <1>8 DEF TypeOK, Time
    <3>2. QED
      BY <1>2, <3>1
  <2> HIDE DEF c
  <2>4. raises'[k] = R
    BY <1>4, <1>8
  <2> HIDE DEF R
  <2>5. Recent(k)' \subseteq R
    BY <1>2, <2>2, <2>3 DEF Recent
  <2>6. Cardinality(Recent(k)') <= Cardinality(R) /\ Cardinality(Recent(k)') \in Nat
    BY <2>2, <2>5, FS_Subset, FS_CardinalityType
  <2>7. R \subseteq DOMAIN raisedAt'[k]
    BY <1>6, <2>2, <2>3 DEF Recent
  <2>8. ~Flaps(k)' => Cardinality(R) < FlapRaises
    <3>1. CASE k \in ended
      <4>1. ~(Cardinality(R) >= FlapRaises)
        BY <1>3, <1>8, <3>1 DEF R, Effects
      <4>2. QED
        BY <1>5, <2>2, <4>1
    <3>2. CASE k \notin ended
      <4>1. k \in DOMAIN open' /\ open'[k].flapping = (Cardinality(R) >= FlapRaises)
        BY <1>3, <1>8, <3>2 DEF R, Effects
      <4>2. ~Flaps(k)' => ~(Cardinality(R) >= FlapRaises)
        BY <4>1, Zenon DEF Flaps
      <4>3. QED
        BY <1>5, <2>2, <4>2
    <3>3. QED
      BY <3>1, <3>2
  <2>9. Flaps(k)' => seenAt'[k] = clock
    <3>1. Flaps(k)' => k \notin ended
      BY <1>3 DEF Flaps, Effects
    <3>2. QED
      BY <1>4, <1>8, <3>1
  <2>10. \A n \in DOMAIN raisedAt'[k] : raisedAt'[k][n] <= clock
    BY <1>2, <1>6, <2>3
  <2>11. QED
    BY <1>5, <2>2, <2>4, <2>5, <2>6, <2>7, <2>8, <2>9, <2>10
<1>9. CASE k \notin raising
  <2>1. raises'[k] = raises[k] /\ raisedAt'[k] = raisedAt[k]
    BY <1>4, <1>9
  <2>2. Recent(k)' = Recent(k)
    BY <1>2, <2>1 DEF Recent
  <2>3. CASE k \in ended /\ Flaps(k)
    <3>1. open[k].quietSince # Never /\ clock - open[k].quietSince >= FlapQuiet /\ k \in DOMAIN open
      BY <1>3, <2>3 DEF Effects, Flaps
    <3>2. seenAt[k] <= open[k].quietSince
      BY <3>1 DEF QuietUnseen
    <3>3. seenAt[k] \in Int /\ open[k].quietSince \in Int /\ \A n \in DOMAIN raisedAt[k] : raisedAt[k][n] \in Nat
      BY <3>1 DEF TypeOK, Alarm, Time, Never
    <3>4. Recent(k) = {}
      BY <1>2, <1>5, <1>6, <2>3, <3>1, <3>2, <3>3 DEF Recent
    <3>5. Cardinality(Recent(k)) = 0
      BY <3>4, FS_EmptySet
    <3>6. ~Flaps(k)'
      BY <1>3, <2>3 DEF Flaps, Effects
    <3>7. QED
      BY <1>5, <1>6, <2>1, <2>2, <3>5, <3>6
  <2>4. CASE k \notin ended /\ Flaps(k)
    <3>1. Flaps(k)'
      BY <1>3, <2>4 DEF Flaps, Effects
    <3>2. seenAt'[k] = seenAt[k] \/ seenAt'[k] = clock
      BY <1>4, <2>4
    <3>3. QED
      BY <1>6, <2>1, <2>2, <2>4, <3>1, <3>2
  <2>5. CASE ~Flaps(k)
    <3>1. ~Flaps(k)'
      BY <1>3, <1>9, <2>5 DEF Flaps, Effects
    <3>2. QED
      BY <1>6, <2>1, <2>2, <2>5, <3>1
  <2>6. QED
    BY <2>3, <2>4, <2>5
<1>10. QED
  BY <1>8, <1>9

(* observe() and inactive(): a loose sensor pages at most FlapRaises times  *)
(* within FlapWindow, while the process lives and provided the quiet time   *)
(* is no shorter than the window (both are 15 minutes in engine.js 37-40).  *)
THEOREM RaisesAreBounded ==
  ASSUME FlapRaises >= 1, FlapWindow <= FlapQuiet
  PROVE  Spec => []RaisesBounded
<1>1. Init => FlapInv
  <2> SUFFICES ASSUME Init PROVE FlapInv
    OBVIOUS
  <2>1. \A k \in Key : raisedAt[k] = <<>> /\ raises[k] = {} /\ ~Flaps(k)
    BY DEF Init, Flaps
  <2>2. \A k \in Key : Recent(k) = {}
    BY <2>1 DEF Recent
  <2>3. \A k \in Key : Cardinality(Recent(k)) = 0
    BY <2>2, FS_EmptySet
  <2>4. FlapRaises \in Nat
    BY EngineAssumption
  <2>5. QED
    BY <2>1, <2>2, <2>3, <2>4 DEF FlapInv, HistoryKept, RoomLeft, RaisedBefore
<1>2. TypeOK /\ WatchInv /\ FlapInv /\ [Next]_vars => FlapInv'
  <2> SUFFICES ASSUME TypeOK, WatchInv, FlapInv, [Next]_vars PROVE FlapInv'
    OBVIOUS
  <2>1. ASSUME NEW obs \in SUBSET Key, NEW clr \in SUBSET Key, NEW latched \in BOOLEAN, NEW polled,
               Step(obs, clr, latched, polled)
        PROVE  FlapInv'
    <3> SUFFICES ASSUME restarts = 0 PROVE HistoryKept' /\ RoomLeft' /\ RaisedBefore'
      BY <2>1 DEF Step, FlapInv
    <3>1. HistoryKept /\ RoomLeft /\ RaisedBefore /\ QuietUnseen
      BY DEF FlapInv, WatchInv
    <3>2. QED
      BY <2>1, <3>1, StepKeepsFlap, Zenon
  <2>2. CASE Restart
    BY <2>2 DEF Restart, FlapInv, TypeOK
  <2>3. CASE Idle
    <3> SUFFICES ASSUME restarts = 0 PROVE HistoryKept' /\ RoomLeft' /\ RaisedBefore'
      BY <2>3 DEF Idle, FlapInv
    <3>1. HistoryKept /\ RoomLeft /\ RaisedBefore
      BY DEF FlapInv
    <3>2. UNCHANGED <<open, raises, raisedAt, seenAt>> /\ clock \in Nat /\ clock' \in Nat /\ clock <= clock'
      BY <2>3 DEF Idle, historyVars, TypeOK, Time
    <3>3. \A k \in Key : Flaps(k)' = Flaps(k)
      BY <3>2 DEF Flaps
    <3>4. \A k \in Key : \A n \in DOMAIN raisedAt[k] : raisedAt[k][n] \in Nat
      BY DEF TypeOK, Time
    <3>5. \A k \in Key : Recent(k)' \subseteq Recent(k)
      BY <3>2, <3>4, EngineAssumption DEF Recent
    <3>6. ASSUME NEW k \in Key
          PROVE  Cardinality(Recent(k)') \in Nat /\ Cardinality(Recent(k)) \in Nat
                 /\ Cardinality(Recent(k)') <= Cardinality(Recent(k))
      BY <3>5, RecentIs, FS_Subset, FS_CardinalityType
    <3>7. HistoryKept'
      BY <3>1, <3>2, <3>4, <3>5 DEF HistoryKept
    <3>8. RoomLeft'
      BY <3>1, <3>3, <3>6, EngineAssumption DEF RoomLeft
    <3>9. RaisedBefore'
      BY <3>1, <3>2, <3>3 DEF RaisedBefore
    <3>10. QED
      BY <3>7, <3>8, <3>9
  <2>4. CASE UNCHANGED vars
    BY <2>4 DEF vars, engineVars, historyVars, FlapInv, HistoryKept, RoomLeft, RaisedBefore, Recent, Flaps
  <2>5. QED
    BY <2>1, <2>2, <2>3, <2>4, NextIsStep, Zenon
<1>3. FlapInv => RaisesBounded
  BY DEF FlapInv, RoomLeft, Recent, RaisesBounded
<1>4. QED
  BY <1>1, <1>2, <1>3, WatchHolds, PTL DEF Spec

-----------------------------------------------------------------------------
(* The Collector.  Its two drivers use the engine only through its own      *)
(* operations; what they keep of their own agrees with the histories of     *)
(* what the polls and the traps said.                                       *)
OpenIsMap == open = [k \in DOMAIN open |-> open[k]]

DriverTyped ==
  /\ pollAlerts \in [Device -> SUBSET PollSeen] /\ reading \in [Device -> SUBSET PollSeen]
  /\ lost \in [Device -> Time \cup {Never}]
  /\ silentFrom \in [Device -> Time \cup {Never}] /\ lostFrom \in [Device -> Time \cup {Never}]
  /\ clearing \subseteq Key

LossesFound ==
  \A d \in Device : /\ lostFrom[d] <= clock
                    /\ lost[d] # Never => /\ CommKey(d) \in Key \cap trapHolds
                                          /\ lostFrom[d] # Never /\ lostFrom[d] <= lost[d]

SilenceFound ==
  \A d \in Device : /\ silentFrom[d] <= clock
                    /\ commDown[d] # Never => silentFrom[d] # Never /\ silentFrom[d] <= commDown[d]

BatteryFirst ==
  \A d \in Device : OnBattery \in reading[d] \ pollAlerts[d] /\ pollAlerts[d] # {} => batterySeen[d] # Never

DriverInv == OpenIsMap /\ DriverTyped /\ LossesFound /\ SilenceFound /\ BatteryFirst

(* A held loss changes nothing the engine keeps: to it, it is a clear of an *)
(* alarm that is not open.                                                  *)
LEMMA HeldIsClear ==
  ASSUME TypeOK, OpenIsMap, NEW k \in Key, k \notin DOMAIN open,
         emitted' = {}, UNCHANGED <<clock, engineVars, historyVars>>
  PROVE  Clear(k)
<1>1. UNCHANGED <<open, raises, cycle, commDown, batteryAt, windows, disk, restarts,
                  raisedAt, announced, toldAt, seenAt, polledSince, batterySeen, clock>>
  BY DEF engineVars, historyVars
<1> DEFINE raising == Raising({}, clock)
           standing == {} \cap DOMAIN open
           updating == {j \in standing : UpdateDue(j, clock)}
           mid == Observed({}, clock, FALSE)
           ended == {j \in {k} \cap DOMAIN mid : Over(mid[j], clock)}
           begun == {j \in standing : MaintenanceBegun(j, clock)}
           onBattery == {d \in Device : <<d, OnBattery>> \in {} \cup ended}
<1>2. raising = {} /\ standing = {} /\ updating = {} /\ begun = {}
  BY DEF Raising
<1>3. mid = open
  BY <1>2 DEF Observed, OpenIsMap
<1>4. ended = {} /\ onBattery = {}
  BY <1>3
<1> HIDE DEF raising, standing, updating, mid, ended, begun, onBattery
<1>5. /\ raising # {} => Cardinality(AlarmsSoFar \cup (raising \X {0})) <= MaxAlarms
      /\ open' = [j \in DOMAIN mid \ ended |-> IF j \in {k} THEN Quieted(mid[j], clock) ELSE mid[j]]
  BY <1>1, <1>2, <1>3, <1>4 DEF OpenIsMap
<1>6. /\ raises' = [j \in Key |-> IF j \in raising THEN RecentRaises(j, clock) ELSE raises[j]]
      /\ raisedAt' = [j \in Key |-> IF j \in raising THEN Append(raisedAt[j], clock) ELSE raisedAt[j]]
  BY <1>1, <1>2 DEF TypeOK
<1>7. /\ toldAt' = [j \in Key |-> IF j \in ended THEN Never
                                 ELSE IF j \in raising \cup updating THEN clock ELSE toldAt[j]]
      /\ seenAt' = [j \in Key |-> IF j \in ended THEN Never
                                 ELSE IF j \in standing \cup raising THEN clock ELSE seenAt[j]]
  BY <1>1, <1>2, <1>4 DEF TypeOK
<1>8. /\ batteryAt' = [d \in Device |-> IF d \in onBattery THEN clock ELSE batteryAt[d]]
      /\ batterySeen' = [d \in Device |-> IF d \in onBattery THEN clock ELSE batterySeen[d]]
  BY <1>1, <1>4 DEF TypeOK
<1>9. ~NeedsSave(raising, updating, begun, ended) /\ disk' = disk
  BY <1>1, <1>2, <1>4 DEF NeedsSave
<1>10. emitted' = {Event("alarm_raise", j, mid[j], ~mid[j].maintenance) : j \in raising}
                     \cup {Event("alarm_update", j, mid[j], MaintenanceEnded(j, clock)) : j \in updating}
                     \cup {Event("alarm_clear", j, mid[j], FALSE) : j \in ended}
  BY <1>2, <1>4
<1>11. announced' = (announced \ raising) \cup {e.key : e \in {f \in emitted' : f.announces}}
  BY <1>1, <1>2
<1>12. polledSince' = {j \in (polledSince \cup {}) \ ended : j[1] # NoDevice}
  BY <1>1, <1>4, CollectorAssumption DEF TypeOK, Key
<1>13. EngineStep({}, {k}, clock, FALSE, NoDevice)
  BY <1>5, <1>6, <1>7, <1>8, <1>9, <1>10, <1>11, <1>12, Zenon
     DEF EngineStep, raising, standing, updating, mid, ended, begun, onBattery
<1>14. QED
  BY <1>1, <1>13, Zenon DEF Clear

LEMMA CollectorMoves ==
  ASSUME TypeOK, OpenIsMap, DriverTyped, LossesFound, CollectorNext
  PROVE  Next
<1>1. ASSUME NEW d \in Device, NEW conditions \in SUBSET PollSeen, PollAnswers(d, conditions) PROVE Next
  BY <1>1, Zenon DEF PollAnswers, Next
<1>2. ASSUME NEW d \in Device, NEW c \in NextAlerts(d), PollAlert(d, c) PROVE Next
  <2>1. <<d, c>> \in Key /\ FALSE \in BOOLEAN
    BY DEF NextAlerts, DriverTyped, PollSeen, Key
  <2>2. Observe(<<d, c>>, FALSE)
    BY <1>2 DEF PollAlert
  <2>3. QED
    BY <2>1, <2>2, Zenon DEF Next
<1>3. ASSUME NEW d \in Device, PollFails(d) PROVE Next
  BY <1>3, Zenon DEF PollFails, Next
<1>4. ASSUME NEW d \in Device, TrapHeld(d) PROVE Next
  <2>1. PICK k \in Key : k = CommKey(d) /\ k \notin DOMAIN open
    BY <1>4 DEF TrapHeld
  <2>2. emitted' = {} /\ UNCHANGED <<clock, engineVars, historyVars>>
    BY <1>4 DEF TrapHeld
  <2>3. Clear(k)
    BY <2>1, <2>2, HeldIsClear, Zenon
  <2>4. QED
    BY <2>3, Zenon DEF Next
<1>5. ASSUME NEW k \in Key, TrapRaise(k) PROVE Next
  <2>1. (k[2] \in TrapOnly) \in BOOLEAN
    OBVIOUS
  <2>2. Observe(k, k[2] \in TrapOnly) /\ ((k[2] \in TrapOnly) => k[2] \in TrapOnly)
    BY <1>5, Zenon DEF TrapRaise
  <2>3. QED
    BY <2>1, <2>2, Zenon DEF Next
<1>6. ASSUME NEW k \in Key, TrapClear(k) PROVE Next
  BY <1>6, Zenon DEF TrapClear, Next
<1>7. CASE TrapTick
  <2>1. PICK obs : obs = {CommKey(d) : d \in LostLongEnough}
    OBVIOUS
  <2>2. obs \in SUBSET {k \in Key : k[2] = CommLost /\ CommLost \in TrapOnly}
    BY <2>1, CollectorAssumption DEF LostLongEnough, LossesFound, CommKey, Key
  <2>3. clearing \in SUBSET Key
    BY DEF DriverTyped
  <2>4. Sweep(obs, clearing)
    BY <1>7, <2>1, Zenon DEF TrapTick
  <2>5. QED
    BY <2>2, <2>3, <2>4, Zenon DEF Next
<1>8. ASSUME NEW list \in SUBSET Window, ConfigPull(list) PROVE Next
  BY <1>8, Zenon DEF ConfigPull, Next
<1>9. CollectorRestart \/ CollectorTick => Next
  BY Zenon DEF CollectorRestart, CollectorTick, Next
<1>10. QED
  BY <1>1, <1>2, <1>3, <1>4, <1>5, <1>6, <1>7, <1>8, <1>9 DEF CollectorNext

(* What the engine's step leaves the drivers to rely on.                    *)
LEMMA EngineKeeps ==
  ASSUME TypeOK, OpenIsMap, Next
  PROVE  OpenIsMap' /\ \A d \in Device : batterySeen[d] # Never => batterySeen'[d] # Never
<1>1. ASSUME NEW obs \in SUBSET Key, NEW clr \in SUBSET Key, NEW latched \in BOOLEAN, NEW polled,
             Step(obs, clr, latched, polled)
      PROVE  OpenIsMap' /\ \A d \in Device : batterySeen[d] # Never => batterySeen'[d] # Never
  <2> DEFINE mid == Observed(obs, clock, latched)
             ended == Ended(obs, clr, latched)
  <2>1. EngineStep(obs, clr, clock, latched, polled)
    BY <1>1 DEF Step
  <2>2. open' = [k \in DOMAIN mid \ ended |-> IF k \in clr THEN Quieted(mid[k], clock) ELSE mid[k]]
    BY <2>1 DEF EngineStep, Ended
  <2>3. batterySeen' = [d \in Device |-> IF <<d, OnBattery>> \in obs \cup ended THEN clock ELSE batterySeen[d]]
    BY <2>1 DEF EngineStep, Ended
  <2> HIDE DEF mid, ended
  <2>4. OpenIsMap'
    BY <2>2 DEF OpenIsMap
  <2>5. clock \in Nat /\ clock # Never
    BY DEF TypeOK, Time, Never
  <2>6. QED
    BY <2>3, <2>4, <2>5
<1>2. CASE Restart
  BY <1>2 DEF Restart, Restore, historyVars, OpenIsMap
<1>3. CASE Idle
  BY <1>3 DEF Idle, historyVars, OpenIsMap
<1>4. QED
  BY <1>1, <1>2, <1>3, NextIsStep, Zenon

LEMMA DriverTypeKept ==
  ASSUME TypeOK, DriverTyped, CollectorNext
  PROVE  DriverTyped'
<1>0. clock \in Time
  BY DEF TypeOK
<1>1. ASSUME NEW d \in Device, NEW conditions \in SUBSET PollSeen, PollAnswers(d, conditions) PROVE DriverTyped'
  BY <1>1 DEF PollAnswers, trapVars, DriverTyped
<1>2. ASSUME NEW d \in Device, NEW c \in NextAlerts(d), PollAlert(d, c) PROVE DriverTyped'
  <2>1. pollAlerts' = [pollAlerts EXCEPT ![d] = pollAlerts[d] \ {c}]
        /\ UNCHANGED <<lost, clearing, reading, trapHolds, silentFrom, lostFrom>>
    BY <1>2 DEF PollAlert, trapVars
  <2>2. QED
    BY <2>1 DEF DriverTyped
<1>3. ASSUME NEW d \in Device, PollFails(d) PROVE DriverTyped'
  <2>1. silentFrom' = [silentFrom EXCEPT ![d] = IF silentFrom[d] = Never THEN clock ELSE silentFrom[d]]
        /\ UNCHANGED <<pollAlerts, lost, clearing, reading, trapHolds, lostFrom>>
    BY <1>3 DEF PollFails, trapVars
  <2>2. QED
    BY <1>0, <2>1 DEF DriverTyped
<1>4. ASSUME NEW d \in Device, TrapHeld(d) PROVE DriverTyped'
  BY <1>0, <1>4 DEF TrapHeld, DriverTyped
<1>5. ASSUME NEW k \in Key, TrapRaise(k) PROVE DriverTyped'
  <2>1. /\ lostFrom' = [d \in Device |-> IF k = CommKey(d) /\ lostFrom[d] = Never THEN clock ELSE lostFrom[d]]
        /\ UNCHANGED <<pollAlerts, lost, clearing, reading, silentFrom>>
    BY <1>5 DEF TrapRaise, trapVars
  <2>2. QED
    BY <1>0, <2>1 DEF DriverTyped
<1>6. ASSUME NEW k \in Key, TrapClear(k) PROVE DriverTyped'
  <2>1. /\ lostFrom' = [d \in Device |-> IF k = CommKey(d) THEN Never ELSE lostFrom[d]]
        /\ lost' = [d \in Device |-> IF k = CommKey(d) THEN Never ELSE lost[d]]
        /\ clearing' \subseteq clearing \cup {k}
        /\ UNCHANGED <<pollAlerts, reading, silentFrom>>
    BY <1>6 DEF TrapClear
  <2>2. QED
    BY <2>1 DEF DriverTyped
<1>7. CASE TrapTick
  <2>1. /\ lost' = [d \in Device |-> IF d \in LostLongEnough THEN Never ELSE lost[d]]
        /\ clearing' \subseteq clearing
        /\ UNCHANGED <<pollAlerts, reading, silentFrom, lostFrom>>
    BY <1>7 DEF TrapTick
  <2>2. QED
    BY <2>1 DEF DriverTyped
<1>8. ASSUME NEW list \in SUBSET Window, ConfigPull(list) PROVE DriverTyped'
  BY <1>8 DEF ConfigPull, trapVars, DriverTyped
<1>9. CollectorRestart \/ CollectorTick => DriverTyped'
  BY DEF CollectorRestart, CollectorTick, trapVars, DriverTyped
<1>10. QED
  BY <1>1, <1>2, <1>3, <1>4, <1>5, <1>6, <1>7, <1>8, <1>9 DEF CollectorNext

LEMMA LossesKept ==
  ASSUME TypeOK, DriverTyped, LossesFound, CollectorNext
  PROVE  LossesFound'
<1>0. clock \in Nat /\ \A d \in Device : lost[d] \in Int /\ lostFrom[d] \in Int /\ Never \in Int /\ Never <= clock
  BY DEF TypeOK, DriverTyped, Time, Never
<1>1. UNCHANGED <<clock, lost, trapHolds, lostFrom>> => LossesFound'
  BY DEF LossesFound
<1>2. ASSUME NEW d \in Device, NEW conditions \in SUBSET PollSeen, PollAnswers(d, conditions) PROVE LossesFound'
  BY <1>1, <1>2 DEF PollAnswers, PollAnswered, trapVars
<1>3. ASSUME NEW d \in Device, NEW c \in NextAlerts(d), PollAlert(d, c) PROVE LossesFound'
  BY <1>1, <1>3 DEF PollAlert, Observe, trapVars
<1>4. ASSUME NEW d \in Device, PollFails(d) PROVE LossesFound'
  BY <1>1, <1>4 DEF PollFails, PollFailed, trapVars
<1>5. ASSUME NEW d \in Device, TrapHeld(d) PROVE LossesFound'
  <2>1. /\ CommKey(d) \in Key /\ clock' = clock /\ trapHolds' = trapHolds \cup {CommKey(d)}
        /\ lost' = [lost EXCEPT ![d] = IF lost[d] = Never THEN clock ELSE lost[d]]
        /\ lostFrom' = [lostFrom EXCEPT ![d] = IF lostFrom[d] = Never THEN clock ELSE lostFrom[d]]
    BY <1>5 DEF TrapHeld
  <2>2. QED
    BY <1>0, <2>1 DEF LossesFound, DriverTyped, CommKey
<1>6. ASSUME NEW k \in Key, TrapRaise(k) PROVE LossesFound'
  <2>1. /\ lostFrom' = [d \in Device |-> IF k = CommKey(d) /\ lostFrom[d] = Never THEN clock ELSE lostFrom[d]]
        /\ UNCHANGED <<clock, lost>> /\ trapHolds \subseteq trapHolds'
    BY <1>6 DEF TrapRaise, Observe, trapVars
  <2>2. QED
    BY <1>0, <2>1 DEF LossesFound
<1>7. ASSUME NEW k \in Key, TrapClear(k) PROVE LossesFound'
  <2>1. /\ lostFrom' = [d \in Device |-> IF k = CommKey(d) THEN Never ELSE lostFrom[d]]
        /\ lost' = [d \in Device |-> IF k = CommKey(d) THEN Never ELSE lost[d]]
        /\ clock' = clock /\ trapHolds' = trapHolds \ {k}
    BY <1>7 DEF TrapClear, Clear
  <2>2. ASSUME NEW d \in Device
        PROVE  /\ lostFrom'[d] <= clock
               /\ lost'[d] # Never => /\ CommKey(d) \in Key \cap trapHolds'
                                      /\ lostFrom'[d] # Never /\ lostFrom'[d] <= lost'[d]
    <3>1. CASE k = CommKey(d)
      BY <1>0, <2>1, <3>1
    <3>2. CASE k # CommKey(d)
      BY <1>0, <2>1, <3>2 DEF LossesFound
    <3>3. QED
      BY <3>1, <3>2
  <2>3. QED
    BY <2>1, <2>2 DEF LossesFound, CommKey
<1>8. CASE TrapTick
  <2>1. /\ lost' = [d \in Device |-> IF d \in LostLongEnough THEN Never ELSE lost[d]]
        /\ UNCHANGED <<clock, trapHolds, lostFrom>>
    BY <1>8 DEF TrapTick, Sweep
  <2>2. QED
    BY <2>1 DEF LossesFound
<1>9. ASSUME NEW list \in SUBSET Window, ConfigPull(list) PROVE LossesFound'
  BY <1>1, <1>9 DEF ConfigPull, SetMaintenance, trapVars
<1>10. CASE CollectorRestart
  BY <1>10 DEF CollectorRestart, Restart, LossesFound
<1>11. CASE CollectorTick
  <2>1. clock' = clock + 1 /\ UNCHANGED <<lost, trapHolds, lostFrom>>
    BY <1>11 DEF CollectorTick, Tick, trapVars
  <2>2. QED
    BY <1>0, <2>1 DEF LossesFound
<1>12. QED
  BY <1>2, <1>3, <1>4, <1>5, <1>6, <1>7, <1>8, <1>9, <1>10, <1>11 DEF CollectorNext

LEMMA SilenceKept ==
  ASSUME TypeOK, DriverTyped, SilenceFound, CollectorNext
  PROVE  SilenceFound'
<1>0. clock \in Nat /\ \A d \in Device : commDown[d] \in Int /\ silentFrom[d] \in Int /\ Never \in Int /\ Never <= clock
  BY DEF TypeOK, DriverTyped, Time, Never
<1>1. UNCHANGED <<clock, commDown, silentFrom>> => SilenceFound'
  BY DEF SilenceFound
<1>2. ASSUME NEW d \in Device, NEW conditions \in SUBSET PollSeen, PollAnswers(d, conditions) PROVE SilenceFound'
  <2>1. /\ commDown' = [commDown EXCEPT ![d] = Never] /\ clock' = clock
        /\ silentFrom' = [silentFrom EXCEPT ![d] = Never]
    BY <1>2 DEF PollAnswers, PollAnswered
  <2>2. /\ \A e \in Device \ {d} : commDown'[e] = commDown[e] /\ silentFrom'[e] = silentFrom[e]
        /\ commDown'[d] = Never /\ silentFrom'[d] = Never
    BY <2>1 DEF TypeOK, DriverTyped
  <2>3. QED
    BY <1>0, <2>1, <2>2 DEF SilenceFound
<1>3. ASSUME NEW d \in Device, NEW c \in NextAlerts(d), PollAlert(d, c) PROVE SilenceFound'
  BY <1>1, <1>3 DEF PollAlert, Observe
<1>4. ASSUME NEW d \in Device, PollFails(d) PROVE SilenceFound'
  <2>1. /\ commDown' = [commDown EXCEPT ![d] = IF commDown[d] = Never THEN clock ELSE commDown[d]]
        /\ silentFrom' = [silentFrom EXCEPT ![d] = IF silentFrom[d] = Never THEN clock ELSE silentFrom[d]]
        /\ clock' = clock
    BY <1>4 DEF PollFails, PollFailed, SilentSince
  <2>2. QED
    BY <1>0, <2>1 DEF SilenceFound, TypeOK, DriverTyped
<1>5. ASSUME NEW d \in Device, TrapHeld(d) PROVE SilenceFound'
  BY <1>1, <1>5 DEF TrapHeld, engineVars
<1>6. ASSUME NEW k \in Key, TrapRaise(k) PROVE SilenceFound'
  BY <1>1, <1>6 DEF TrapRaise, Observe
<1>7. ASSUME NEW k \in Key, TrapClear(k) PROVE SilenceFound'
  BY <1>1, <1>7 DEF TrapClear, Clear
<1>8. CASE TrapTick
  BY <1>1, <1>8 DEF TrapTick, Sweep
<1>9. ASSUME NEW list \in SUBSET Window, ConfigPull(list) PROVE SilenceFound'
  BY <1>1, <1>9 DEF ConfigPull, SetMaintenance
<1>10. CASE CollectorRestart
  BY <1>10 DEF CollectorRestart, Restart, SilenceFound
<1>11. CASE CollectorTick
  <2>1. clock' = clock + 1 /\ UNCHANGED <<commDown, silentFrom>>
    BY <1>11 DEF CollectorTick, Tick, engineVars
  <2>2. QED
    BY <1>0, <2>1 DEF SilenceFound
<1>12. QED
  BY <1>2, <1>3, <1>4, <1>5, <1>6, <1>7, <1>8, <1>9, <1>10, <1>11 DEF CollectorNext

LEMMA BatteryKept ==
  ASSUME TypeOK, DriverTyped, BatteryFirst, CollectorNext,
         \A d \in Device : batterySeen[d] # Never => batterySeen'[d] # Never
  PROVE  BatteryFirst'
<1>1. UNCHANGED <<reading, pollAlerts>> => BatteryFirst'
  BY DEF BatteryFirst
<1>2. ASSUME NEW d \in Device, NEW conditions \in SUBSET PollSeen, PollAnswers(d, conditions) PROVE BatteryFirst'
  BY <1>2 DEF PollAnswers, BatteryFirst, DriverTyped
<1>3. ASSUME NEW d \in Device, NEW c \in NextAlerts(d), PollAlert(d, c) PROVE BatteryFirst'
  <2>1. reading' = reading /\ pollAlerts' = [pollAlerts EXCEPT ![d] = pollAlerts[d] \ {c}] /\ Observe(<<d, c>>, FALSE)
    BY <1>3 DEF PollAlert
  <2>2. c \in pollAlerts[d] /\ (OnBattery \in pollAlerts[d] => c = OnBattery)
    BY DEF NextAlerts
  <2>3. c = OnBattery => batterySeen'[d] # Never
    BY <2>1 DEF Observe, EngineStep, TypeOK, Time, Never
  <2>4. QED
    BY <2>1, <2>2, <2>3 DEF BatteryFirst, DriverTyped
<1>4. CASE CollectorRestart
  BY <1>4 DEF CollectorRestart, BatteryFirst
<1>5. CASE TrapTick \/ CollectorTick
  BY <1>1, <1>5 DEF TrapTick, CollectorTick
<1>6. ASSUME NEW d \in Device, PollFails(d) \/ TrapHeld(d) PROVE BatteryFirst'
  BY <1>1, <1>6 DEF PollFails, TrapHeld
<1>7. ASSUME NEW k \in Key, TrapRaise(k) \/ TrapClear(k) PROVE BatteryFirst'
  BY <1>1, <1>7 DEF TrapRaise, TrapClear
<1>8. ASSUME NEW list \in SUBSET Window, ConfigPull(list) PROVE BatteryFirst'
  BY <1>1, <1>8 DEF ConfigPull
<1>9. QED
  BY <1>2, <1>3, <1>4, <1>5, <1>6, <1>7, <1>8 DEF CollectorNext

LEMMA DriversHold == CollectorSpec => [](TypeOK /\ DriverInv) /\ [][Next]_vars
<1>1. CollectorInit => TypeOK /\ DriverInv
  <2>1. Init => TypeOK
    BY DEF Init, TypeOK, EmptyRow, Time, Key
  <2>2. CollectorInit => DriverInv
    BY DEF CollectorInit, Init, DriverInv, OpenIsMap, DriverTyped, LossesFound, SilenceFound, BatteryFirst, Never
  <2>3. QED
    BY <2>1, <2>2 DEF CollectorInit
<1>2. TypeOK /\ DriverInv /\ [CollectorNext]_collectorVars => [Next]_vars
  BY CollectorMoves DEF DriverInv, collectorVars
<1>3. TypeOK /\ DriverInv /\ [CollectorNext]_collectorVars => TypeOK' /\ DriverInv'
  <2> SUFFICES ASSUME TypeOK, DriverInv, [CollectorNext]_collectorVars PROVE TypeOK' /\ DriverInv'
    OBVIOUS
  <2>1. TypeOK'
    BY <1>2, TypeKept
  <2>2. CASE CollectorNext
    <3>1. Next
      BY <2>2, CollectorMoves DEF DriverInv
    <3>2. OpenIsMap' /\ \A d \in Device : batterySeen[d] # Never => batterySeen'[d] # Never
      BY <3>1, EngineKeeps DEF DriverInv
    <3>3. DriverTyped' /\ LossesFound' /\ SilenceFound' /\ BatteryFirst'
      BY <2>2, <3>2, DriverTypeKept, LossesKept, SilenceKept, BatteryKept DEF DriverInv
    <3>4. QED
      BY <2>1, <3>2, <3>3 DEF DriverInv
  <2>3. CASE UNCHANGED collectorVars
    BY <2>1, <2>3 DEF collectorVars, vars, engineVars, historyVars, trapVars, DriverInv,
                      OpenIsMap, DriverTyped, LossesFound, SilenceFound, BatteryFirst
  <2>4. QED
    BY <2>2, <2>3
<1>4. QED
  BY <1>1, <1>2, <1>3, PTL DEF CollectorSpec

(* pollAll and the trap handler together implement the engine: every step   *)
(* of theirs is one of AlarmEngine's, so each theorem above holds of them.  *)
THEOREM CollectorImplementsEngine == CollectorSpec => EngineKept
<1>1. CollectorInit => Init
  BY DEF CollectorInit
<1>2. QED
  BY <1>1, DriversHold, PTL DEF CollectorSpec, EngineKept, Spec

(* Whence a raise comes: an alert of a poll, a silence or a held loss that  *)
(* has lasted, or a trap of another kind.                                   *)
LEMMA RaiseComesFrom ==
  ASSUME CollectorNext, NEW e \in emitted', e.kind = "alarm_raise"
  PROVE  \/ \E d \in Device : \E c \in NextAlerts(d) : PollAlert(d, c) /\ e.key = <<d, c>>
         \/ \E d \in Device : PollFails(d) /\ e.key = CommKey(d) /\ clock - SilentSince(d) >= CommLostAfter
         \/ \E k \in Key : e.key = k /\ k[2] \in TrapCode /\ k[2] # CommLost
         \/ \E d \in LostLongEnough : TrapTick /\ e.key = CommKey(d)
<1>1. ASSUME NEW obs, NEW clr, NEW latched, NEW polled, EngineStep(obs, clr, clock, latched, polled)
      PROVE  e.key \in obs \ DOMAIN open
  <2>1. e.key \in Raising(obs, clock)
    BY <1>1, StepSays, Zenon
  <2>2. QED
    BY <2>1 DEF Raising
<1>2. ASSUME NEW d \in Device, NEW conditions \in SUBSET PollSeen, PollAnswers(d, conditions) PROVE FALSE
  <2>1. EngineStep({}, Unseen(d), clock, FALSE, d)
    BY <1>2, Zenon DEF PollAnswers, PollAnswered
  <2>2. e.key \in {} \ DOMAIN open
    BY <1>1, <2>1, Zenon
  <2>3. QED
    BY <2>2
<1>3. ASSUME NEW d \in Device, NEW c \in NextAlerts(d), PollAlert(d, c) PROVE e.key = <<d, c>>
  <2>1. EngineStep({<<d, c>>}, {}, clock, FALSE, NoDevice)
    BY <1>3, Zenon DEF PollAlert, Observe
  <2>2. e.key \in {<<d, c>>} \ DOMAIN open
    BY <1>1, <2>1, Zenon
  <2>3. QED
    BY <2>2
<1>4. ASSUME NEW d \in Device, PollFails(d)
      PROVE  e.key = CommKey(d) /\ clock - SilentSince(d) >= CommLostAfter
  <2>1. PICK obs : /\ EngineStep(obs, {}, clock, FALSE, NoDevice)
                   /\ obs = IF <<d, CommLost>> \in DOMAIN open \/ clock - SilentSince(d) >= CommLostAfter
                            THEN {<<d, CommLost>>} ELSE {}
    BY <1>4, Zenon DEF PollFails, PollFailed
  <2>2. e.key \in obs \ DOMAIN open
    BY <1>1, <2>1, Zenon
  <2>3. QED
    BY <2>1, <2>2 DEF CommKey
<1>5. ASSUME NEW d \in Device, TrapHeld(d) PROVE FALSE
  BY <1>5 DEF TrapHeld
<1>6. ASSUME NEW k \in Key, TrapRaise(k) PROVE e.key = k /\ k[2] # CommLost
  <2>1. EngineStep({k}, {}, clock, k[2] \in TrapOnly, NoDevice) /\ (k[2] = CommLost => k \in DOMAIN open)
    BY <1>6, Zenon DEF TrapRaise, Observe
  <2>2. e.key \in {k} \ DOMAIN open
    BY <1>1, <2>1, Zenon
  <2>3. QED
    BY <2>1, <2>2
<1>7. ASSUME NEW k \in Key, TrapClear(k) PROVE FALSE
  <2>1. EngineStep({}, {k}, clock, FALSE, NoDevice)
    BY <1>7, Zenon DEF TrapClear, Clear
  <2>2. e.key \in {} \ DOMAIN open
    BY <1>1, <2>1, Zenon
  <2>3. QED
    BY <2>2
<1>8. ASSUME TrapTick PROVE \E d \in LostLongEnough : e.key = CommKey(d)
  <2>1. EngineStep({CommKey(d) : d \in LostLongEnough}, clearing, clock, TRUE, NoDevice)
    BY <1>8, Zenon DEF TrapTick, Sweep
  <2>2. e.key \in {CommKey(d) : d \in LostLongEnough} \ DOMAIN open
    BY <1>1, <2>1, Zenon
  <2>3. QED
    BY <2>2
<1>9. ASSUME NEW list \in SUBSET Window, ConfigPull(list) PROVE FALSE
  BY <1>9 DEF ConfigPull, SetMaintenance
<1>10. CollectorRestart \/ CollectorTick => FALSE
  BY DEF CollectorRestart, CollectorTick, Restart, Tick
<1>11. QED
  BY <1>2, <1>3, <1>4, <1>5, <1>6, <1>7, <1>8, <1>9, <1>10 DEF CollectorNext

(* Appendix B, "UPS_COMM_LOST (30 min)": whichever driver raises it, the    *)
(* silence or the loss has lasted, restarts included.                       *)
PatientStep ==
  \A e \in emitted' : e.kind = "alarm_raise" /\ e.key[2] = CommLost =>
    \/ silentFrom'[e.key[1]] # Never /\ clock - silentFrom'[e.key[1]] >= CommLostAfter
    \/ lostFrom[e.key[1]] # Never /\ clock - lostFrom[e.key[1]] >= CommLostAfter

THEOREM CommLossIsPatient == CollectorSpec => CommLossPatient
<1>1. TypeOK /\ DriverInv /\ [CollectorNext]_collectorVars => [PatientStep]_collectorVars
  <2> SUFFICES ASSUME TypeOK, DriverInv, CollectorNext,
                      NEW e \in emitted', e.kind = "alarm_raise", e.key[2] = CommLost
               PROVE  \/ silentFrom'[e.key[1]] # Never /\ clock - silentFrom'[e.key[1]] >= CommLostAfter
                      \/ lostFrom[e.key[1]] # Never /\ clock - lostFrom[e.key[1]] >= CommLostAfter
    BY DEF PatientStep
  <2>0. clock \in Nat /\ CommLostAfter \in Nat /\ Never \in Int /\ Never < clock
    BY EngineAssumption DEF TypeOK, Time, Never
  <2>1. ASSUME NEW d \in Device, NEW c \in NextAlerts(d), e.key = <<d, c>> PROVE FALSE
    <3>1. c \in PollSeen /\ c = CommLost
      BY <2>1 DEF NextAlerts, DriverInv, DriverTyped
    <3>2. QED
      BY <3>1, CollectorAssumption DEF PollSeen
  <2>2. ASSUME NEW d \in Device, PollFails(d), e.key = CommKey(d), clock - SilentSince(d) >= CommLostAfter
        PROVE  silentFrom'[e.key[1]] # Never /\ clock - silentFrom'[e.key[1]] >= CommLostAfter
    <3>1. e.key[1] = d
      BY <2>2 DEF CommKey
    <3>2. silentFrom'[d] = IF silentFrom[d] = Never THEN clock ELSE silentFrom[d]
      BY <2>2 DEF PollFails, DriverInv, DriverTyped
    <3>3. SilentSince(d) = IF commDown[d] = Never THEN clock ELSE commDown[d]
      BY DEF SilentSince
    <3>4. /\ silentFrom[d] \in Int /\ commDown[d] \in Int /\ silentFrom[d] <= clock
          /\ commDown[d] # Never => silentFrom[d] # Never /\ silentFrom[d] <= commDown[d]
      BY <2>0 DEF DriverInv, DriverTyped, SilenceFound, TypeOK, Time
    <3>5. QED
      BY <2>0, <2>2, <3>1, <3>2, <3>3, <3>4
  <2>3. ASSUME NEW d \in LostLongEnough, e.key = CommKey(d)
        PROVE  lostFrom[e.key[1]] # Never /\ clock - lostFrom[e.key[1]] >= CommLostAfter
    <3>1. e.key[1] = d /\ d \in Device /\ lost[d] # Never /\ clock - lost[d] >= CommLostAfter
      BY <2>3 DEF CommKey, LostLongEnough
    <3>2. lostFrom[d] # Never /\ lostFrom[d] <= lost[d] /\ lost[d] \in Int /\ lostFrom[d] \in Int
      BY <2>0, <3>1 DEF DriverInv, DriverTyped, LossesFound, Time
    <3>3. QED
      BY <2>0, <3>1, <3>2
  <2>4. QED
    BY <2>1, <2>2, <2>3, RaiseComesFrom
<1>2. QED
  BY <1>1, DriversHold, PTL DEF CollectorSpec, CommLossPatient, PatientStep

(* pollDevice() and capacityHeld(): when the store does not fail, a poll    *)
(* that read "on battery" raises no capacity warning, though its alerts go  *)
(* out one by one, until the whole hold has passed since the battery was    *)
(* last in use.                                                             *)
SilentStep ==
  \A e \in emitted' : e.kind = "alarm_raise" /\ e.key[2] = CapacityLow =>
    (OnBattery \in reading[e.key[1]] =>
       batterySeen[e.key[1]] # Never /\ clock - batterySeen[e.key[1]] >= CapacityHold)

THEOREM CapacityIsSilent == ASSUME StoreFails = FALSE PROVE CollectorSpec => CapacitySilentOnBattery
<1>1. TypeOK /\ DriverInv /\ TimesInv /\ [CollectorNext]_collectorVars => [SilentStep]_collectorVars
  <2> SUFFICES ASSUME TypeOK, DriverInv, TimesInv, CollectorNext,
                      NEW e \in emitted', e.kind = "alarm_raise", e.key[2] = CapacityLow,
                      OnBattery \in reading[e.key[1]]
               PROVE  batterySeen[e.key[1]] # Never /\ clock - batterySeen[e.key[1]] >= CapacityHold
    BY DEF SilentStep
  <2>1. ASSUME NEW k \in Key, e.key = k, k[2] \in TrapCode PROVE FALSE
    BY <2>1, CollectorAssumption
  <2>2. ASSUME NEW d \in Device, e.key = CommKey(d), CommKey(d) \in Key PROVE FALSE
    BY <2>2, CollectorAssumption DEF CommKey, Key
  <2>3. ASSUME NEW d \in Device, NEW c \in NextAlerts(d), e.key = <<d, c>> PROVE batterySeen[e.key[1]] # Never
    <3>1. c = CapacityLow /\ c # OnBattery /\ e.key[1] = d
      BY <2>3, EngineAssumption
    <3>2. c \in pollAlerts[d] /\ OnBattery \notin pollAlerts[d]
      BY <3>1 DEF NextAlerts
    <3>3. QED
      BY <3>1, <3>2 DEF DriverInv, BatteryFirst
  <2>4. batterySeen[e.key[1]] # Never
    <3>1. \A d \in Device : PollFails(d) => CommKey(d) \in Key
      BY DEF PollFails, PollFailed, CommKey
    <3>2. \A d \in LostLongEnough : d \in Device /\ CommKey(d) \in Key
      BY DEF LostLongEnough, DriverInv, LossesFound
    <3>3. QED
      BY <2>1, <2>2, <2>3, <3>1, <3>2, RaiseComesFrom
  <2>5. Next
    BY CollectorMoves DEF DriverInv
  <2>6. HoldStep
    BY <2>5, StepHolds
  <2>7. QED
    BY <2>4, <2>6 DEF HoldStep
<1>2. CollectorSpec => Spec
  BY CollectorImplementsEngine DEF EngineKept
<1>3. QED
  BY <1>1, <1>2, DriversHold, TimesHold, PTL DEF CollectorSpec, CapacitySilentOnBattery, SilentStep

(* An alarm is latched only by an observation that latches.                 *)
LEMMA LatchComesFrom ==
  ASSUME TypeOK, NEW obs \in SUBSET Key, NEW clr \in SUBSET Key, NEW latched \in BOOLEAN, NEW polled,
         EngineStep(obs, clr, clock, latched, polled), NEW k \in DOMAIN open', open'[k].latched
  PROVE  (k \in obs /\ latched) \/ (k \in DOMAIN open /\ open[k].latched)
<1> DEFINE mid == Observed(obs, clock, latched)
<1>1. open' = [j \in DOMAIN mid \ Ended(obs, clr, latched) |-> IF j \in clr THEN Quieted(mid[j], clock) ELSE mid[j]]
  BY DEF EngineStep, Ended
<1>2. mid[k] \in Alarm /\ k \in DOMAIN mid
  BY <1>1, ObservedType DEF TypeOK
<1>3. k \notin obs => k \in DOMAIN open /\ mid[k] = open[k]
  BY <1>2 DEF Observed, Raising
<1>4. k \in obs \cap DOMAIN open => mid[k] = Refreshed(k, clock, latched)
  BY DEF Observed
<1>5. k \in obs \ DOMAIN open => mid[k] = Created(k, clock, latched)
  BY <1>2 DEF Observed
<1> HIDE DEF mid
<1>6. open'[k].latched = mid[k].latched
  BY <1>1, <1>2 DEF Quieted, Alarm
<1>7. k \in DOMAIN open => open[k] \in Alarm
  BY DEF TypeOK
<1>8. k \in obs \cap DOMAIN open => mid[k].latched = (open[k].latched \/ latched)
  BY <1>4, <1>7 DEF Refreshed, Alarm
<1>9. k \in obs \ DOMAIN open => mid[k].latched = latched
  BY <1>5 DEF Created
<1>10. QED
  BY <1>3, <1>6, <1>8, <1>9

(* handler.js 169-170: no clear that the flap rule deferred is forgotten    *)
(* while the process lives, a failing store included.                       *)
THEOREM DeferredClearsKept == CollectorSpec => []DeferredClearKept
<1>1. CollectorInit => DeferredClearKept
  BY DEF CollectorInit, Init, DeferredClearKept
<1>2. TypeOK /\ DriverInv /\ DeferredClearKept /\ [CollectorNext]_collectorVars => DeferredClearKept'
  <2> SUFFICES ASSUME TypeOK, DriverInv, DeferredClearKept, [CollectorNext]_collectorVars PROVE DeferredClearKept'
    OBVIOUS
  <2>1. ASSUME NEW obs \in SUBSET Key, NEW clr \in SUBSET Key, NEW latched \in BOOLEAN, NEW polled,
               EngineStep(obs, clr, clock, latched, polled), restarts' = restarts,
               trapHolds \cap DOMAIN open' \subseteq trapHolds' \cup clearing', clearing \cap DOMAIN open' \subseteq clearing',
               latched => obs \subseteq trapHolds'
        PROVE  DeferredClearKept'
    <3> SUFFICES ASSUME restarts = 0, NEW k \in DOMAIN open', open'[k].latched, k \notin trapHolds'
                 PROVE  k \in clearing'
      BY <2>1 DEF DeferredClearKept
    <3>1. (k \in obs /\ latched) \/ (k \in DOMAIN open /\ open[k].latched)
      BY <2>1, LatchComesFrom, Zenon
    <3>2. k \notin obs \/ ~latched
      BY <2>1
    <3>3. k \in trapHolds \/ k \in clearing
      BY <3>1, <3>2 DEF DeferredClearKept
    <3>4. QED
      BY <2>1, <3>3
  <2>2. \A k \in Key : {k} \in SUBSET Key /\ {} \in SUBSET Key /\ FALSE \in BOOLEAN /\ TRUE \in BOOLEAN
    OBVIOUS
  <2>3. ASSUME NEW d \in Device, NEW conditions \in SUBSET PollSeen, PollAnswers(d, conditions) PROVE DeferredClearKept'
    <3>1. EngineStep({}, Unseen(d), clock, FALSE, d) /\ restarts' = restarts /\ UNCHANGED <<trapHolds, clearing>>
      BY <2>3 DEF PollAnswers, PollAnswered, trapVars
    <3>2. Unseen(d) \in SUBSET Key /\ {} \in SUBSET Key /\ FALSE \in BOOLEAN
      BY DEF Unseen, TypeOK
    <3>3. trapHolds \cap DOMAIN open' \subseteq trapHolds' \cup clearing' /\ clearing \cap DOMAIN open' \subseteq clearing'
      BY <3>1
    <3>4. QED
      BY <2>1, <3>1, <3>2, <3>3, Zenon
  <2>4. ASSUME NEW d \in Device, NEW c \in NextAlerts(d), PollAlert(d, c) PROVE DeferredClearKept'
    <3>1. PICK k \in Key : k = <<d, c>>
      BY DEF NextAlerts, DriverInv, DriverTyped, PollSeen, Key
    <3>2. EngineStep({k}, {}, clock, FALSE, NoDevice) /\ restarts' = restarts /\ UNCHANGED <<trapHolds, clearing>>
      BY <2>4, <3>1 DEF PollAlert, Observe, trapVars
    <3>3. trapHolds \cap DOMAIN open' \subseteq trapHolds' \cup clearing' /\ clearing \cap DOMAIN open' \subseteq clearing'
      BY <3>2
    <3>4. QED
      BY <2>1, <2>2, <3>2, <3>3, Zenon
  <2>5. ASSUME NEW d \in Device, PollFails(d) PROVE DeferredClearKept'
    <3>1. PICK obs : /\ EngineStep(obs, {}, clock, FALSE, NoDevice)
                     /\ obs = IF <<d, CommLost>> \in DOMAIN open \/ clock - SilentSince(d) >= CommLostAfter
                              THEN {<<d, CommLost>>} ELSE {}
      BY <2>5, Zenon DEF PollFails, PollFailed
    <3>2. <<d, CommLost>> \in Key /\ restarts' = restarts /\ UNCHANGED <<trapHolds, clearing>>
      BY <2>5 DEF PollFails, PollFailed, trapVars
    <3>3. obs \in SUBSET Key /\ {} \in SUBSET Key /\ FALSE \in BOOLEAN
      BY <3>1, <3>2
    <3>4. trapHolds \cap DOMAIN open' \subseteq trapHolds' \cup clearing' /\ clearing \cap DOMAIN open' \subseteq clearing'
      BY <3>2
    <3>5. QED
      BY <2>1, <3>1, <3>2, <3>3, <3>4, Zenon
  <2>6. ASSUME NEW d \in Device, TrapHeld(d) PROVE DeferredClearKept'
    BY <2>6 DEF TrapHeld, engineVars, DeferredClearKept
  <2>7. ASSUME NEW k \in Key, TrapRaise(k) PROVE DeferredClearKept'
    <3>1. /\ EngineStep({k}, {}, clock, k[2] \in TrapOnly, NoDevice) /\ restarts' = restarts
          /\ trapHolds' = trapHolds \cup {k} /\ clearing' = clearing
      BY <2>7 DEF TrapRaise, Observe, trapVars
    <3>2. (k[2] \in TrapOnly) \in BOOLEAN
      OBVIOUS
    <3>3. /\ trapHolds \cap DOMAIN open' \subseteq trapHolds' \cup clearing'
          /\ clearing \cap DOMAIN open' \subseteq clearing' /\ {k} \subseteq trapHolds'
      BY <3>1
    <3>4. QED
      BY <2>1, <2>2, <3>1, <3>2, <3>3, Zenon
  <2>8. ASSUME NEW k \in Key, TrapClear(k) PROVE DeferredClearKept'
    <3>1. /\ EngineStep({}, {k}, clock, FALSE, NoDevice) /\ restarts' = restarts
          /\ trapHolds' = trapHolds \ {k}
          /\ clearing' = IF k \in DOMAIN open' THEN clearing \cup {k} ELSE clearing
      BY <2>8 DEF TrapClear, Clear
    <3>2. trapHolds \cap DOMAIN open' \subseteq trapHolds' \cup clearing' /\ clearing \cap DOMAIN open' \subseteq clearing'
      BY <3>1
    <3>3. QED
      BY <2>1, <2>2, <3>1, <3>2, Zenon
  <2>9. CASE TrapTick
    <3>1. PICK obs : obs = {CommKey(d) : d \in LostLongEnough}
      OBVIOUS
    <3>2. /\ EngineStep(obs, clearing, clock, TRUE, NoDevice) /\ restarts' = restarts
          /\ trapHolds' = trapHolds /\ clearing' = clearing \cap DOMAIN open'
      BY <2>9, <3>1 DEF TrapTick, Sweep
    <3>3. obs \in SUBSET Key /\ obs \subseteq trapHolds /\ clearing \in SUBSET Key /\ TRUE \in BOOLEAN
      BY <3>1 DEF LostLongEnough, DriverInv, DriverTyped, LossesFound
    <3>4. trapHolds \cap DOMAIN open' \subseteq trapHolds' \cup clearing' /\ clearing \cap DOMAIN open' \subseteq clearing'
          /\ obs \subseteq trapHolds'
      BY <3>2, <3>3
    <3>5. QED
      BY <2>1, <3>2, <3>3, <3>4, Zenon
  <2>10. ASSUME NEW list \in SUBSET Window, ConfigPull(list) PROVE DeferredClearKept'
    BY <2>10 DEF ConfigPull, SetMaintenance, trapVars, DeferredClearKept
  <2>11. CASE CollectorRestart
    BY <2>11 DEF CollectorRestart, Restart, TypeOK, DeferredClearKept
  <2>12. CASE CollectorTick
    BY <2>12 DEF CollectorTick, Tick, engineVars, trapVars, DeferredClearKept
  <2>13. CASE UNCHANGED collectorVars
    BY <2>13 DEF collectorVars, vars, engineVars, trapVars, DeferredClearKept
  <2>14. QED
    BY <2>3, <2>4, <2>5, <2>6, <2>7, <2>8, <2>9, <2>10, <2>11, <2>12, <2>13 DEF CollectorNext
<1>3. QED
  BY <1>1, <1>2, DriversHold, PTL DEF CollectorSpec
=============================================================================
