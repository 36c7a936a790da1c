------------------------------- MODULE AlarmFeed -------------------------------
(***************************************************************************)
(* What a Collector promises whoever reads its alarm events                *)
(* (probe-agent/src/alarms/engine.js, "one alarm per (device, code) while  *)
(* it lasts"), with nothing said of how: at most one alarm of a key is     *)
(* open, a raise opens a fresh alarm, updates and clears speak of an alarm *)
(* that is open, and a closed alarm is never heard of again.  Crashes and  *)
(* restarts of the Collector are invisible here.                           *)
(*                                                                         *)
(* The alarms of a key are numbered in the order they were raised; the     *)
(* pair <<key, number>> stands for the alarm_id.                           *)
(***************************************************************************)
EXTENDS Integers

CONSTANT Key

VARIABLES raised,    \* raised[k]: how many alarms of k were ever raised
          standing,  \* the alarms that are open
          heard      \* the events of the latest turn, as <<kind, alarm>>

feedVars == <<raised, standing, heard>>

FeedInit ==
  /\ raised = [k \in Key |-> 0]
  /\ standing = {}
  /\ heard = {}

Fresh(opening) == {<<k, raised[k] + 1>> : k \in opening}

(* One turn of the Collector.  An alarm may be raised and cleared in the    *)
(* same turn.                                                               *)
Turn(opening, updating, closing) ==
  /\ \A a \in standing : a[1] \notin opening
  /\ raised' = [k \in Key |-> IF k \in opening THEN raised[k] + 1 ELSE raised[k]]
  /\ standing' = (standing \cup Fresh(opening)) \ closing
  /\ heard' = {<<"alarm_raise", a>> : a \in Fresh(opening)}
                \cup {<<"alarm_update", a>> : a \in updating}
                \cup {<<"alarm_clear", a>> : a \in closing}

FeedNext ==
  \E opening \in SUBSET Key, updating \in SUBSET standing :
    \E closing \in SUBSET (standing \cup Fresh(opening)) : Turn(opening, updating, closing)

FeedSpec == FeedInit /\ [][FeedNext]_feedVars
=============================================================================
