------------------------------ MODULE MergedFeed ------------------------------
(***************************************************************************)
(* What the Local Console promises whoever reads its alarm events          *)
(* (apps/console/src/ingest.js 14-18): an FMS alarm begins with the alarm  *)
(* of one collector, later ones for the same condition may join it, and it *)
(* ends, once, when the last of them has ended.  An FMS alarm goes by the  *)
(* id of the collector alarm that opened it.                               *)
(***************************************************************************)
EXTENDS Integers

CONSTANTS Alarm,         \* the collectors' alarms
          Condition(_)   \* what an alarm is about

VARIABLES holders,  \* FMS alarm -> the collector alarms that keep it open
          over,     \* the collector alarms that have ended
          heard     \* the events of the latest step, as <<kind, FMS alarm>>

mergedVars == <<holders, over, heard>>

MergedInit ==
  /\ holders = [a \in {} |-> {}]
  /\ over = {}
  /\ heard = {}

Begun(s) == s \in over \/ \E a \in DOMAIN holders : s \in holders[a]

Open(s) ==
  /\ ~Begun(s) /\ s \notin DOMAIN holders
  /\ holders' = [a \in DOMAIN holders \cup {s} |-> IF a = s THEN {s} ELSE holders[a]]
  /\ heard' = {<<"alarm_raise", s>>}
  /\ UNCHANGED over

Join(s, a) ==
  /\ ~Begun(s)
  /\ holders[a] # {} /\ Condition(a) = Condition(s)
  /\ holders' = [holders EXCEPT ![a] = @ \cup {s}]
  /\ heard' = {}
  /\ UNCHANGED over

Update(s, a) ==
  /\ s \in holders[a]
  /\ heard' = {<<"alarm_update", a>>}
  /\ UNCHANGED <<holders, over>>

Leave(s, a) ==
  /\ s \in holders[a]
  /\ holders' = [holders EXCEPT ![a] = @ \ {s}]
  /\ over' = over \cup {s}
  /\ heard' = IF holders[a] = {s} THEN {<<"alarm_clear", a>>} ELSE {}

(* A replayed event: nothing happens and nobody hears of it.                *)
Replay == heard' = {} /\ UNCHANGED <<holders, over>>

MergedNext ==
  \/ \E s \in Alarm : Open(s)
  \/ \E s \in Alarm, a \in DOMAIN holders : Join(s, a) \/ Update(s, a) \/ Leave(s, a)
  \/ Replay

MergedSpec == MergedInit /\ [][MergedNext]_mergedVars
=============================================================================
