----------------------------- MODULE ProbeHealth -----------------------------
(***************************************************************************)
(* services/fms-probe-health.js on the incidents it raises and resolves: a *)
(* collector that falls silent becomes an incident, once, and its next     *)
(* heartbeat resolves it.  What calls heartbeat() and sweep() is outside;  *)
(* the sweep runs every minute for ever.  Each probe belongs to a tenant.  *)
(***************************************************************************)
EXTENDS Incidents

CONSTANTS
  DownAfter    \* silence that makes a probe down

ASSUME ProbeHealthAssumption == DownAfter \in Nat \ {0}

VARIABLES
  lastSeen,    \* table probe_status
  down,        \* down_alerted_at is set
  tells,       \* history: alerts about the silence since the last heartbeat
  touched      \* history: probes whose ticket somebody moved since

probeVars == <<lastSeen, down, tells, touched>>
vars == <<incidentVars, probeVars>>

Silent(p) == now - lastSeen[p] >= DownAfter

(* One probe of a sweep: the flag is set although the incident failed.      *)
Sweep(p) ==
  /\ Silent(p)
  /\ ~down[p]
  /\ \/ tickets' = Ensured(p) /\ touched' = touched \ {p} /\ UNCHANGED faults
     \/ /\ faults < MaxFaults
        /\ faults' = faults + 1
        /\ touched' = touched \cup {p}
        /\ UNCHANGED tickets
  /\ down' = [down EXCEPT ![p] = TRUE]
  /\ tells' = [tells EXCEPT ![p] = @ + 1]
  /\ UNCHANGED <<now, alarmVars, excused, good, dispatching, acts, lastSeen>>

(* Mutant: only a ticket nobody has taken up is resolved.                   *)
NewestOpen(p) ==
  LET of == {i \in DOMAIN tickets : tickets[i].cause = p /\ tickets[i].status = "open"}
  IN {i \in of : \A j \in of : j <= i}

(* The newest active ticket of the probe, whoever made it.                  *)
Newest(p) ==
  LET of == {i \in DOMAIN tickets : /\ tickets[i].cause = p
                                    /\ tickets[i].status \in ACTIVE_STATES}
  IN {i \in of : \A j \in of : j <= i}

(* Mutant: the flag of the outage stays set.                                *)
FlagStays(p) == UNCHANGED down

FlagCleared(p) == down' = [down EXCEPT ![p] = FALSE]

(* heartbeat() and recovered(): no verification is armed.                   *)
Heartbeat(p) ==
  /\ lastSeen' = [lastSeen EXCEPT ![p] = now]
  /\ FlagCleared(p)
  /\ tells' = [tells EXCEPT ![p] = 0]
  /\ touched' = IF down[p] THEN touched \ {p} ELSE touched
  /\ LET closing == IF down[p] THEN Newest(p) ELSE {} IN
     /\ tickets' = [i \in DOMAIN tickets |->
          IF i \in closing THEN Moved(tickets[i], "resolved") ELSE tickets[i]]
     /\ excused' = excused \cup closing
  /\ UNCHANGED <<now, alarmVars, good, dispatching, boundVars>>

-----------------------------------------------------------------------------
Init ==
  /\ InitIncidents
  /\ lastSeen = [p \in Probe |-> now]
  /\ down = [p \in Probe |-> FALSE]
  /\ tells = [p \in Probe |-> 0]
  /\ touched = {}

(* An incident step, and whose outage a person or a verification handled.   *)
ByOthers ==
  /\ NextIncidents
  /\ touched' = touched \cup {p \in Probe : \E i \in DOMAIN tickets :
       tickets[i].cause = p /\ tickets'[i].status # tickets[i].status}
  /\ UNCHANGED <<lastSeen, down, tells>>

Next ==
  \/ ByOthers
  \/ \E p \in Probe : Sweep(p) \/ Heartbeat(p)

Spec == Init /\ [][Next]_vars
FairSpec == Spec /\ \A p \in Probe : WF_vars(Sweep(p))

-----------------------------------------------------------------------------
(* An outage has one alert, and an incident until somebody touches it or it *)
(* could not be written; when the probe is back the incident is resolved,   *)
(* unless a person or a verification moved it since, or made a ticket by    *)
(* hand that was resolved in its place (fms-probe-health.js 72-99, 149).   *)
OutageFollowed == \A p \in Probe :
  /\ tells[p] <= 1
  /\ p \notin touched /\ down[p] => Active(p) # {}
  /\ p \notin touched /\ ~down[p] /\ (\A i \in DOMAIN tickets : ~tickets[i].byHand)
       => Active(p) = {}

(* A probe that stays silent is told of: an earlier outage's flag does not  *)
(* hide a new one (fms-probe-health.js 62-67).                              *)
SilenceIsTold == \A p \in Probe : Silent(p) ~> (tells[p] > 0 \/ ~Silent(p))
=============================================================================
