------------------------------ MODULE AlarmEngine ------------------------------
(***************************************************************************)
(* The Collector's alarm engine, probe-agent/src/alarms/engine.js, with    *)
(* the store that keeps its open alarms across a restart (persist.js) and  *)
(* the two codes whose rules differ (codes.js).                            *)
(*                                                                         *)
(* Node runs every engine call to its end before anything else happens, so *)
(* one call, or the calls one handler makes before its first await, is one *)
(* action.  A crash may come between two actions.                          *)
(*                                                                         *)
(* An alarm_id is a random UUID in the code; here it is the pair of the    *)
(* alarm's key and its number among the alarms of that key.  Titles,       *)
(* details, sites and severities (a function of the code) are left out.    *)
(***************************************************************************)
EXTENDS Integers, Sequences, FiniteSets

CONSTANTS
  Device, Code,
  OnBattery, CapacityLow, CommLost,  \* the codes with rules of their own
  TrapOnly,       \* codes no poll can see: observed `latched`
  Window,         \* the maintenance windows the console may serve
  UpdateEvery, FlapWindow, FlapRaises, FlapQuiet, CommLostAfter, CapacityHold,
  StoreFails,     \* whether writing or reading the row may fail
  MaxTime, MaxAlarms, MaxCycle, MaxRestarts  \* bounds of a model, no counterpart in the code

Time == Nat
Never == -1
Key == Device \X Code

ASSUME EngineAssumption ==
  /\ {UpdateEvery, FlapWindow, CommLostAfter, CapacityHold} \subseteq Nat
  /\ FlapQuiet \in Nat \ {0}
  /\ FlapRaises \in Nat
  /\ StoreFails \in BOOLEAN
  /\ OnBattery # CapacityLow
  /\ \A w \in Window : w.from \in Time /\ w.until \in Time /\ w.devices \subseteq Device

VARIABLES
  clock,
  open,       \* Map key -> alarm; a key is in its domain while the alarm is open
  raises,     \* raises[k]: the numbers of the recent alarms of k, the flap history
  cycle,      \* cycle[d]: successful polls since the process started
  commDown,   \* commDown[d]: first failed poll of the silence, or Never
  batteryAt,  \* batteryAt[d]: last time seen on battery, or Never
  windows,    \* the maintenance windows in force
  disk,       \* the row persist.js keeps: open alarms and batteryAt
  restarts,
  emitted,    \* the events of the latest step
  raisedAt,   \* history: raisedAt[k][n] is when the n-th alarm of k was raised
  announced,  \* history: the keys whose latest alarm was announced unsuppressed
  toldAt,     \* history: when the latest raise or update of the open alarm of k was emitted
  seenAt,     \* history: when the open alarm of k was last observed
  polledSince,\* history: the keys observed since the last successful poll of their device
  batterySeen \* history: when d was last known to be on battery

engineVars == <<open, raises, cycle, commDown, batteryAt, windows, disk, restarts>>
historyVars == <<raisedAt, announced, toldAt, seenAt, polledSince, batterySeen>>
vars == <<clock, engineVars, emitted, historyVars>>

Alarm == [n : Nat, emittedAt : Time, seen : Nat, quietSince : Time \cup {Never},
          flapping : BOOLEAN, maintenance : BOOLEAN, latched : BOOLEAN]

(* `seen` and `quietSince` are written to the row too, and never read back: *)
(* restore() resets both.                                                   *)
SavedAlarm == [n : Nat, emittedAt : Time, flapping : BOOLEAN, maintenance : BOOLEAN, latched : BOOLEAN]

Saved(al) == [n |-> al.n, emittedAt |-> al.emittedAt, flapping |-> al.flapping,
              maintenance |-> al.maintenance, latched |-> al.latched]

(* Mutant: a restored alarm counts as never seen.                           *)
RestoredUnseen(s) == [n |-> s.n, emittedAt |-> s.emittedAt, seen |-> Never, quietSince |-> Never,
                      flapping |-> s.flapping, maintenance |-> s.maintenance, latched |-> s.latched]

Restored(s) == [n |-> s.n, emittedAt |-> s.emittedAt, seen |-> 0, quietSince |-> Never,
                flapping |-> s.flapping, maintenance |-> s.maintenance, latched |-> s.latched]

-----------------------------------------------------------------------------
(* The rules.                                                               *)

InMaintenance(d, ts) == \E w \in windows : d \in w.devices /\ w.from <= ts /\ ts < w.until

CapacityHeld(d, ts) ==
  \/ <<d, OnBattery>> \in DOMAIN open
  \/ batteryAt[d] # Never /\ ts - batteryAt[d] < CapacityHold

(* The keys of obs that get a new alarm.                                    *)
Raising(obs, ts) ==
  {k \in obs \ DOMAIN open : ~(k[2] = CapacityLow /\ CapacityHeld(k[1], ts))}

RecentRaises(k, ts) ==
  {n \in raises[k] : ts - raisedAt[k][n] < FlapWindow} \cup {Len(raisedAt[k]) + 1}

(* Mutant: flapping only from the raise after the FlapRaises-th.            *)
CreatedFlapLate(k, ts, latched) ==
  [n |-> Len(raisedAt[k]) + 1, emittedAt |-> ts, seen |-> cycle[k[1]], quietSince |-> Never,
   flapping |-> Cardinality(RecentRaises(k, ts)) > FlapRaises,
   maintenance |-> InMaintenance(k[1], ts), latched |-> latched]

Created(k, ts, latched) ==
  [n |-> Len(raisedAt[k]) + 1, emittedAt |-> ts, seen |-> cycle[k[1]], quietSince |-> Never,
   flapping |-> Cardinality(RecentRaises(k, ts)) >= FlapRaises,
   maintenance |-> InMaintenance(k[1], ts), latched |-> latched]

(* The window the alarm was raised in has ended, and it is still there.     *)
MaintenanceEnded(k, ts) == open[k].maintenance /\ ~InMaintenance(k[1], ts)
MaintenanceBegun(k, ts) == ~open[k].maintenance /\ InMaintenance(k[1], ts)

(* Mutant: the end of the window announces nothing.                         *)
UpdateDueOnTimeOnly(k, ts) == ts - open[k].emittedAt >= UpdateEvery

UpdateDue(k, ts) == MaintenanceEnded(k, ts) \/ ts - open[k].emittedAt >= UpdateEvery

(* Mutant: an observation does not interrupt the quiet time.                *)
RefreshedStillQuiet(k, ts, latched) ==
  [open[k] EXCEPT !.seen = cycle[k[1]],
                  !.latched = @ \/ latched,
                  !.maintenance = InMaintenance(k[1], ts),
                  !.emittedAt = IF UpdateDue(k, ts) THEN ts ELSE @]

Refreshed(k, ts, latched) ==
  [open[k] EXCEPT !.seen = cycle[k[1]], !.quietSince = Never,
                  !.latched = @ \/ latched,
                  !.maintenance = InMaintenance(k[1], ts),
                  !.emittedAt = IF UpdateDue(k, ts) THEN ts ELSE @]

(* The open alarms once the conditions of obs have been observed.           *)
Observed(obs, ts, latched) ==
  [k \in DOMAIN open \cup Raising(obs, ts) |->
     IF k \notin obs THEN open[k]
     ELSE IF k \in DOMAIN open THEN Refreshed(k, ts, latched)
     ELSE Created(k, ts, latched)]

(* inactive(): an alarm that is not flapping is over at once, a flapping    *)
(* one after FlapQuiet without an observation.                              *)
Over(al, ts) == al.flapping => al.quietSince # Never /\ ts - al.quietSince >= FlapQuiet
Quieted(al, ts) == IF al.flapping /\ al.quietSince = Never THEN [al EXCEPT !.quietSince = ts] ELSE al

-----------------------------------------------------------------------------
(* One turn: the conditions of obs observed, then those of clr reported     *)
(* absent, with what the calls save and emit.  `polled` is the device whose *)
(* poll cycle the turn opens, or NoDevice.                                  *)
NoDevice == "none"

Event(kind, k, al, announces) ==
  [kind |-> kind, key |-> k, n |-> al.n, suppressed |-> al.maintenance, announces |-> announces]

(* Mutants: a clear is not saved; an update is not saved.                   *)
NeedsSaveNotOnClear(raising, updating, begun, ended) == raising \cup updating \cup begun # {}
NeedsSaveNotOnUpdate(raising, updating, begun, ended) == raising \cup begun \cup ended # {}

(* The calls after which save() runs.                                       *)
NeedsSave(raising, updating, begun, ended) == raising \cup updating \cup begun \cup ended # {}

Row(f, battery) == [open |-> [k \in DOMAIN f |-> Saved(f[k])], batteryAt |-> battery]

(* What MaxAlarms bounds, over all keys.                                    *)
AlarmsSoFar == UNION {{k} \X DOMAIN raisedAt[k] : k \in Key}

EngineStep(obs, clr, ts, latched, polled) ==
  LET raising == Raising(obs, ts)
      standing == obs \cap DOMAIN open
      updating == {k \in standing : UpdateDue(k, ts)}
      mid == Observed(obs, ts, latched)
      ended == {k \in clr \cap DOMAIN mid : Over(mid[k], ts)}
      begun == {k \in standing : MaintenanceBegun(k, ts)}
      onBattery == {d \in Device : <<d, OnBattery>> \in obs \cup ended}
  IN
  /\ raising # {} => Cardinality(AlarmsSoFar \cup (raising \X {0})) <= MaxAlarms
  /\ open' = [k \in DOMAIN mid \ ended |-> IF k \in clr THEN Quieted(mid[k], ts) ELSE mid[k]]
  /\ raises' = [k \in Key |-> IF k \in raising THEN RecentRaises(k, ts) ELSE raises[k]]
  /\ batteryAt' = [d \in Device |-> IF d \in onBattery THEN ts ELSE batteryAt[d]]
  /\ IF NeedsSave(raising, updating, begun, ended)
     THEN \/ disk' = Row(open', batteryAt')
          \/ StoreFails /\ disk' = disk
     ELSE disk' = disk
  /\ emitted' = {Event("alarm_raise", k, mid[k], ~mid[k].maintenance) : k \in raising}
                   \cup {Event("alarm_update", k, mid[k], MaintenanceEnded(k, ts)) : k \in updating}
                   \cup {Event("alarm_clear", k, mid[k], FALSE) : k \in ended}
  /\ raisedAt' = [k \in Key |-> IF k \in raising THEN Append(raisedAt[k], ts) ELSE raisedAt[k]]
  /\ announced' = (announced \ raising) \cup {e.key : e \in {f \in emitted' : f.announces}}
  /\ toldAt' = [k \in Key |-> IF k \in ended THEN Never
                             ELSE IF k \in raising \cup updating THEN ts ELSE toldAt[k]]
  /\ seenAt' = [k \in Key |-> IF k \in ended THEN Never
                             ELSE IF k \in standing \cup raising THEN ts ELSE seenAt[k]]
  /\ polledSince' = {k \in (polledSince \cup obs) \ ended : k[1] # polled}
  /\ batterySeen' = [d \in Device |-> IF d \in onBattery THEN ts ELSE batterySeen[d]]

-----------------------------------------------------------------------------
EmptyRow == [open |-> [k \in {} |-> k], batteryAt |-> [d \in Device |-> Never]]

Init ==
  /\ clock = 0
  /\ open = [k \in {} |-> k]
  /\ raises = [k \in Key |-> {}]
  /\ cycle = [d \in Device |-> 0]
  /\ commDown = [d \in Device |-> Never]
  /\ batteryAt = [d \in Device |-> Never]
  /\ windows = {}
  /\ disk = EmptyRow
  /\ restarts = 0
  /\ emitted = {}
  /\ raisedAt = [k \in Key |-> <<>>]
  /\ announced = {}
  /\ toldAt = [k \in Key |-> Never]
  /\ seenAt = [k \in Key |-> Never]
  /\ polledSince = {}
  /\ batterySeen = [d \in Device |-> Never]

(* observe(): a poller's threshold alert or a trap.                         *)
Observe(k, latched) ==
  /\ EngineStep({k}, {}, clock, latched, NoDevice)
  /\ UNCHANGED <<clock, cycle, commDown, windows, restarts>>

(* clear(): a clear trap.                                                   *)
Clear(k) ==
  /\ EngineStep({}, {k}, clock, FALSE, NoDevice)
  /\ UNCHANGED <<clock, cycle, commDown, windows, restarts>>

(* The trap handler's minute: comm losses that have lasted long enough are  *)
(* observed, then the deferred clears are tried, all in one turn.           *)
Sweep(obs, clr) ==
  /\ EngineStep(obs, clr, clock, TRUE, NoDevice)
  /\ UNCHANGED <<clock, cycle, commDown, windows, restarts>>

(* Mutant: off by one, the observations of the cycle that ends count as old.*)
UnseenTooSoon(d) ==
  {k \in DOMAIN open : /\ k[1] = d
                       /\ \/ k[2] = CommLost
                          \/ ~open[k].latched /\ open[k].seen <= cycle[d]}

(* The alarms the poll cycle that now opens finds no trace of, and the comm *)
(* loss that the answer ends.                                               *)
Unseen(d) ==
  {k \in DOMAIN open : /\ k[1] = d
                       /\ \/ k[2] = CommLost
                          \/ ~open[k].latched /\ open[k].seen < cycle[d]}

(* A poll was answered: commStatus(ok), then beginCycle, in one turn.       *)
PollAnswered(d) ==
  /\ cycle[d] < MaxCycle
  /\ EngineStep({}, Unseen(d), clock, FALSE, d)
  /\ cycle' = [cycle EXCEPT ![d] = @ + 1]
  /\ commDown' = [commDown EXCEPT ![d] = Never]
  /\ UNCHANGED <<clock, windows, restarts>>

SilentSince(d) == IF commDown[d] = Never THEN clock ELSE commDown[d]

(* A poll was not answered: commStatus(not ok).  (A model whose Code leaves *)
(* CommLost out leaves failed polls out too: they change nothing else.)     *)
PollFailed(d) ==
  LET k == <<d, CommLost>>
      lost == k \in DOMAIN open \/ clock - SilentSince(d) >= CommLostAfter
  IN
  /\ k \in Key
  /\ EngineStep(IF lost THEN {k} ELSE {}, {}, clock, FALSE, NoDevice)
  /\ commDown' = [commDown EXCEPT ![d] = SilentSince(d)]
  /\ UNCHANGED <<clock, cycle, windows, restarts>>

(* The windows of a config pull replace those of the one before.            *)
SetMaintenance(list) ==
  /\ list # windows
  /\ windows' = list
  /\ emitted' = {}
  /\ UNCHANGED <<clock, open, raises, cycle, commDown, batteryAt, disk, restarts, historyVars>>

(* Mutant: the battery times do not survive the restart.                    *)
RestoreAlarmsOnly(row) ==
  /\ open' = [k \in DOMAIN row.open |-> Restored(row.open[k])]
  /\ batteryAt' = [d \in Device |-> Never]

(* restore(): what the row holds, or nothing when it cannot be read.        *)
Restore(row) ==
  /\ open' = [k \in DOMAIN row.open |-> Restored(row.open[k])]
  /\ batteryAt' = row.batteryAt

(* The process dies and comes back with what the row holds.                 *)
Restart ==
  /\ restarts < MaxRestarts
  /\ restarts' = restarts + 1
  /\ \/ Restore(disk)
     \/ StoreFails /\ Restore(EmptyRow)
  /\ raises' = [k \in Key |-> {}]
  /\ cycle' = [d \in Device |-> 0]
  /\ commDown' = [d \in Device |-> Never]
  /\ windows' = {}
  /\ emitted' = {}
  /\ UNCHANGED <<clock, disk, historyVars>>

Tick ==
  /\ clock < MaxTime
  /\ clock' = clock + 1
  /\ emitted' = {}
  /\ UNCHANGED <<engineVars, historyVars>>

Next ==
  \/ \E k \in Key, latched \in BOOLEAN : (latched => k[2] \in TrapOnly) /\ Observe(k, latched)
  \/ \E k \in Key : Clear(k)
  \/ \E obs \in SUBSET {k \in Key : k[2] = CommLost /\ CommLost \in TrapOnly}, clr \in SUBSET Key : Sweep(obs, clr)
  \/ \E d \in Device : PollAnswered(d) \/ PollFailed(d)
  \/ \E list \in SUBSET Window : SetMaintenance(list)
  \/ Restart
  \/ Tick

Spec == Init /\ [][Next]_vars

-----------------------------------------------------------------------------
TypeOK ==
  /\ clock \in Time
  /\ DOMAIN open \subseteq Key
  /\ \A k \in DOMAIN open : open[k] \in Alarm
  /\ raises \in [Key -> SUBSET Nat]
  /\ cycle \in [Device -> Nat]
  /\ commDown \in [Device -> Time \cup {Never}]
  /\ batteryAt \in [Device -> Time \cup {Never}]
  /\ windows \subseteq Window
  /\ DOMAIN disk.open \subseteq Key
  /\ \A k \in DOMAIN disk.open : disk.open[k] \in SavedAlarm
  /\ disk.batteryAt \in [Device -> Time \cup {Never}]
  /\ restarts \in Nat
  /\ raisedAt \in [Key -> Seq(Time)]
  /\ announced \subseteq Key
  /\ toldAt \in [Key -> Time \cup {Never}]
  /\ seenAt \in [Key -> Time \cup {Never}]
  /\ polledSince \subseteq Key
  /\ batterySeen \in [Device -> Time \cup {Never}]

(* The row holds every open alarm, under its alarm_id and with what decides *)
(* its next announcement: a crash between any two steps loses none of it    *)
(* (the save() calls of observe and inactive).                              *)
RowIsCurrent ==
  /\ DOMAIN disk.open = DOMAIN open
  /\ \A k \in DOMAIN open :
       /\ disk.open[k].n = open[k].n
       /\ disk.open[k].emittedAt = open[k].emittedAt
       /\ disk.open[k].flapping = open[k].flapping
       /\ disk.open[k].maintenance = open[k].maintenance

(* The event stream keeps the promise of AlarmFeed, restarts included: the  *)
(* alarm open after a restart is the one open before it, under its alarm_id.*)
Feed == INSTANCE AlarmFeed WITH
          raised <- [k \in Key |-> Len(raisedAt[k])],
          standing <- {<<k, open[k].n>> : k \in DOMAIN open},
          heard <- {<<e.kind, <<e.key, e.n>>>> : e \in emitted}
FeedKept == Feed!FeedSpec

(* Nobody is told that an alarm is over who was never told it had begun: a  *)
(* clear goes out unsuppressed only for an alarm that was announced, by its *)
(* raise or, raised inside a maintenance window, when the window ended.     *)
ClearOnlyIfTold ==
  [][\A e \in emitted' :
       e.kind = "alarm_clear" /\ ~e.suppressed => e.key \in announced']_vars

(* beginCycle: a poll never clears a condition that an observation since    *)
(* the device's poll before showed to hold, across restarts too.            *)
StandingAlarmKept ==
  [][\A d \in Device : cycle'[d] = cycle[d] + 1 =>
       \A e \in emitted' :
         e.kind = "alarm_clear" /\ e.key[1] = d /\ e.key[2] # CommLost => e.key \notin polledSince]_vars

(* A flapping alarm is cleared only after FlapQuiet without an observation. *)
FlapQuietKept ==
  [][\A e \in emitted' :
       e.kind = "alarm_clear" /\ e.key \in DOMAIN open /\ open[e.key].flapping
         => clock - seenAt[e.key] >= FlapQuiet]_vars

(* However a condition comes and goes, it is raised at most FlapRaises      *)
(* times within FlapWindow: engine.js "a loose sensor cannot page someone   *)
(* every two minutes".  A restart forgets the flap history, and with it the *)
(* bound (engine.js 29-30).                                                 *)
RaisesBounded ==
  restarts = 0 => \A k \in Key :
    Cardinality({n \in DOMAIN raisedAt[k] : clock - raisedAt[k][n] < FlapWindow}) <= FlapRaises

(* An alarm that stands is repeated at most once per UpdateEvery, restarts  *)
(* included; only the end of a maintenance window breaks the spacing.       *)
UpdatesSpaced ==
  [][\A e \in emitted' :
       e.kind = "alarm_update" /\ ~e.announces => clock - toldAt[e.key] >= UpdateEvery]_vars

(* Appendix B v1.1: no capacity warning is raised while the UPS is on       *)
(* battery or within CapacityHold of when it last was, restarts included.   *)
CapacityHoldKept ==
  [][\A e \in emitted' :
       e.kind = "alarm_raise" /\ e.key[2] = CapacityLow =>
         /\ <<e.key[1], OnBattery>> \notin DOMAIN open
         /\ batterySeen[e.key[1]] # Never => clock - batterySeen[e.key[1]] >= CapacityHold]_vars
=============================================================================
