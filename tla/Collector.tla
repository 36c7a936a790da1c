------------------------------- MODULE Collector -------------------------------
(***************************************************************************)
(* The Collector's two drivers of the alarm engine in one process: the     *)
(* poll loop (index.js pollAll, pollers/ups.js pollDevice, forwarder.js    *)
(* sendEvent) and the SNMP trap handler (trap/handler.js).  A poll hands   *)
(* its alerts over one by one, each send awaited, so traps, polls of other *)
(* devices and the handler's minute tick come in between.                  *)
(*                                                                         *)
(* Decoding a trap, its credential check and the inventory lookup decide   *)
(* only whether a trap counts; a trap here is one that does.               *)
(***************************************************************************)
EXTENDS AlarmEngine

CONSTANT TrapCode   \* the codes of the traps in apc-mib.js

ASSUME CollectorAssumption ==
  /\ TrapOnly \subseteq TrapCode
  /\ CapacityLow \notin TrapCode
  /\ OnBattery \notin TrapOnly
  /\ CommLost \in Code => CommLost \in TrapOnly   \* POLL_SEEN leaves it out
  /\ NoDevice \notin Device

VARIABLES
  pollAlerts,   \* pollAlerts[d]: alerts of the poll under way not handed over yet
  lost,         \* lost[d]: first communicationLost not yet an alarm, or Never
  clearing,     \* clears the flap rule deferred
  reading,      \* history: reading[d], the conditions the latest poll saw
  trapHolds,    \* history: the keys whose latest trap said the condition holds
  silentFrom,   \* history: first failed poll since the last answered one, or Never
  lostFrom      \* history: first communicationLost since the last communicationEstablished

trapVars == <<lost, clearing>>
collectorVars == <<vars, pollAlerts, trapVars, reading, trapHolds, silentFrom, lostFrom>>

PollSeen == Code \ TrapOnly
CommKey(d) == <<d, CommLost>>

CollectorInit ==
  /\ Init
  /\ pollAlerts = [d \in Device |-> {}]
  /\ lost = [d \in Device |-> Never]
  /\ clearing = {}
  /\ reading = [d \in Device |-> {}]
  /\ trapHolds = {}
  /\ silentFrom = [d \in Device |-> Never]
  /\ lostFrom = [d \in Device |-> Never]

-----------------------------------------------------------------------------
(* pollAll never polls a device again before its poll has ended.            *)
PollIdle(d) == pollAlerts[d] = {}

(* A poll is answered and its telemetry handed over; conditions is what     *)
(* evaluateAlerts makes of the reading.                                     *)
PollAnswers(d, conditions) ==
  /\ PollIdle(d)
  /\ PollAnswered(d)
  /\ pollAlerts' = [pollAlerts EXCEPT ![d] = conditions]
  /\ reading' = [reading EXCEPT ![d] = conditions]
  /\ silentFrom' = [silentFrom EXCEPT ![d] = Never]
  /\ UNCHANGED <<trapVars, trapHolds, lostFrom>>

(* Mutant: the alerts of a poll go out in any order.                        *)
NextAlertsUnordered(d) == pollAlerts[d]

(* evaluateAlerts lists the output source first.                            *)
NextAlerts(d) ==
  IF OnBattery \in pollAlerts[d] THEN {OnBattery} ELSE pollAlerts[d]

PollAlert(d, c) ==
  /\ c \in NextAlerts(d)
  /\ Observe(<<d, c>>, FALSE)
  /\ pollAlerts' = [pollAlerts EXCEPT ![d] = @ \ {c}]
  /\ UNCHANGED <<trapVars, reading, trapHolds, silentFrom, lostFrom>>

PollFails(d) ==
  /\ PollIdle(d)
  /\ PollFailed(d)
  /\ silentFrom' = [silentFrom EXCEPT ![d] = IF @ = Never THEN clock ELSE @]
  /\ UNCHANGED <<pollAlerts, trapVars, reading, trapHolds, lostFrom>>

-----------------------------------------------------------------------------
(* A raise trap.  communicationLost is held back until it has lasted.       *)
TrapHeld(d) ==
  /\ CommLost \in TrapCode
  /\ CommKey(d) \in Key \ DOMAIN open
  /\ lost' = [lost EXCEPT ![d] = IF @ = Never THEN clock ELSE @]
  /\ trapHolds' = trapHolds \cup {CommKey(d)}
  /\ lostFrom' = [lostFrom EXCEPT ![d] = IF @ = Never THEN clock ELSE @]
  /\ emitted' = {}
  /\ UNCHANGED <<clock, engineVars, historyVars, pollAlerts, clearing, reading, silentFrom>>

(* Mutant: every trap latches its alarm.                                    *)
TrapRaiseLatching(k) ==
  /\ k[2] = CommLost => k \in DOMAIN open
  /\ Observe(k, TRUE)
  /\ trapHolds' = trapHolds \cup {k}
  /\ lostFrom' = [d \in Device |-> IF k = CommKey(d) /\ lostFrom[d] = Never THEN clock ELSE lostFrom[d]]
  /\ UNCHANGED <<pollAlerts, trapVars, reading, silentFrom>>

TrapRaise(k) ==
  /\ k[2] = CommLost => k \in DOMAIN open
  /\ Observe(k, k[2] \in TrapOnly)
  /\ trapHolds' = trapHolds \cup {k}
  /\ lostFrom' = [d \in Device |-> IF k = CommKey(d) /\ lostFrom[d] = Never THEN clock ELSE lostFrom[d]]
  /\ UNCHANGED <<pollAlerts, trapVars, reading, silentFrom>>

(* Mutant: communicationEstablished leaves the held loss in place.          *)
TrapClearLossKept(k) ==
  /\ Clear(k)
  /\ clearing' = IF k \in DOMAIN open' THEN clearing \cup {k} ELSE clearing
  /\ trapHolds' = trapHolds \ {k}
  /\ lostFrom' = [d \in Device |-> IF k = CommKey(d) THEN Never ELSE lostFrom[d]]
  /\ UNCHANGED <<pollAlerts, lost, reading, silentFrom>>

(* A clear trap; what the flap rule defers is kept for the tick.            *)
TrapClear(k) ==
  /\ Clear(k)
  /\ lost' = [d \in Device |-> IF k = CommKey(d) THEN Never ELSE lost[d]]
  /\ clearing' = IF k \in DOMAIN open' THEN clearing \cup {k} ELSE clearing
  /\ trapHolds' = trapHolds \ {k}
  /\ lostFrom' = [d \in Device |-> IF k = CommKey(d) THEN Never ELSE lostFrom[d]]
  /\ UNCHANGED <<pollAlerts, reading, silentFrom>>

LostLongEnough == {d \in Device : lost[d] # Never /\ clock - lost[d] >= CommLostAfter}

(* Mutant: a deferred clear is tried once and dropped.                      *)
TrapTickOnce ==
  /\ Sweep({CommKey(d) : d \in LostLongEnough}, clearing)
  /\ lost' = [d \in Device |-> IF d \in LostLongEnough THEN Never ELSE lost[d]]
  /\ clearing' = {}
  /\ UNCHANGED <<pollAlerts, reading, trapHolds, silentFrom, lostFrom>>

(* tick(): every minute.                                                    *)
TrapTick ==
  /\ Sweep({CommKey(d) : d \in LostLongEnough}, clearing)
  /\ lost' = [d \in Device |-> IF d \in LostLongEnough THEN Never ELSE lost[d]]
  /\ clearing' = clearing \cap DOMAIN open'
  /\ UNCHANGED <<pollAlerts, reading, trapHolds, silentFrom, lostFrom>>

-----------------------------------------------------------------------------
ConfigPull(list) ==
  /\ SetMaintenance(list)
  /\ UNCHANGED <<pollAlerts, trapVars, reading, trapHolds, silentFrom, lostFrom>>

(* The handler keeps nothing on disk.                                       *)
CollectorRestart ==
  /\ Restart
  /\ pollAlerts' = [d \in Device |-> {}]
  /\ lost' = [d \in Device |-> Never]
  /\ clearing' = {}
  /\ UNCHANGED <<reading, trapHolds, silentFrom, lostFrom>>

CollectorTick ==
  /\ Tick
  /\ UNCHANGED <<pollAlerts, trapVars, reading, trapHolds, silentFrom, lostFrom>>

CollectorNext ==
  \/ \E d \in Device, conditions \in SUBSET PollSeen : PollAnswers(d, conditions)
  \/ \E d \in Device : \E c \in NextAlerts(d) : PollAlert(d, c)
  \/ \E d \in Device : PollFails(d)
  \/ \E d \in Device : TrapHeld(d)
  \/ \E k \in Key : k[2] \in TrapCode /\ (TrapRaise(k) \/ TrapClear(k))
  \/ TrapTick
  \/ \E list \in SUBSET Window : ConfigPull(list)
  \/ CollectorRestart
  \/ CollectorTick

CollectorSpec == CollectorInit /\ [][CollectorNext]_collectorVars

-----------------------------------------------------------------------------
(* Polls and traps together use the engine only in the ways AlarmEngine     *)
(* allows, so what holds of every engine holds here.                        *)
EngineKept == Spec

(* Appendix B, "UPS_COMM_LOST (30 min)": it is raised only when polls have  *)
(* gone unanswered, or communicationLost has stood without its              *)
(* communicationEstablished, for CommLostAfter.                             *)
CommLossPatient ==
  [][\A e \in emitted' : e.kind = "alarm_raise" /\ e.key[2] = CommLost =>
       LET d == e.key[1] IN
       \/ silentFrom'[d] # Never /\ clock - silentFrom'[d] >= CommLostAfter
       \/ lostFrom[d] # Never /\ clock - lostFrom[d] >= CommLostAfter]_collectorVars

(* The alerts of one poll are handed over with awaits between them, yet a   *)
(* poll that read "on battery" raises no capacity warning, whatever traps   *)
(* came in between (ups.js 14-16), unless the engine knew of the battery    *)
(* and the hand-over then outlasted the whole hold.                         *)
CapacitySilentOnBattery ==
  [][\A e \in emitted' : e.kind = "alarm_raise" /\ e.key[2] = CapacityLow =>
       LET d == e.key[1] IN
       OnBattery \in reading[d] =>
         batterySeen[d] # Never /\ clock - batterySeen[d] >= CapacityHold]_collectorVars

(* handler.js 169-170: "a clear the flap rule deferred is tried again".  As  *)
(* long as the process lives, an alarm that only a clear can end, and whose *)
(* clear trap has come, is still on the list of the tick.                   *)
DeferredClearKept ==
  restarts = 0 => \A k \in DOMAIN open : open[k].latched /\ k \notin trapHolds => k \in clearing
=============================================================================
