------------------------------ MODULE Incidents ------------------------------
(***************************************************************************)
(* The incidents of the backend: services/fms-incident.js and              *)
(* incident/state_machine.js, under the routes that drive them             *)
(* (probe.routes.js for alarms, incidents.routes.js for people, the        *)
(* from-alert route of fms.routes.js), and the unique index of migration   *)
(* 005.                                                                    *)
(*                                                                         *)
(* A cause stands for a (tenant, dedup_key): one metric of one device, P1  *)
(* and P2 together, or one silent probe (ProbeHealth adds the probes).  A  *)
(* handler runs to its end or its first await in one step: the backend is  *)
(* one process on a synchronous store.  A tick is the dedup window's ten   *)
(* minutes or less; the timeline, alarm links and wording are left out.    *)
(***************************************************************************)
EXTENDS Integers, Sequences, FiniteSets

CONSTANTS
  Device,       \* causes that a device alarm reports
  Priority,     \* of an alarm that makes an incident: P1, P2
  Probe,        \* collectors; each is the cause of its own outage
  Window,       \* dedup window of device alarms
  Ahead,        \* how far a device's time may be off the server's
  VerifyWindow, \* time a verification waits for its condition
  MaxTime, MaxTickets, MaxActs, MaxFaults   \* bounds; MaxTickets is for Device

ASSUME IncidentsAssumption ==
  /\ Device \cap Probe = {}
  /\ Window \in Nat \ {0} /\ Ahead \in Nat /\ VerifyWindow \in Nat
  /\ MaxTime \in Nat /\ MaxTickets \in Nat /\ MaxActs \in Nat /\ MaxFaults \in Nat

VARIABLES
  now,
  stored,       \* alerts: newest received_at by cause and priority, 0 for none
  tickets,      \* table tickets, in the order of their ids
  good,         \* newest sample that meets the verify condition, 0 for none
  dispatching,  \* dispatches under way that read the status open or ack
  swallowed,    \* history: first and last alarm dropped while nothing was active
  excused,      \* history: resolutions that armed no verification, reopens refused
  acts, faults

ticketVars == <<tickets, excused>>
alarmVars == <<stored, swallowed>>
boundVars == <<acts, faults>>
incidentVars == <<now, alarmVars, ticketVars, good, dispatching, boundVars>>

Cause == Device \cup Probe
ACTIVE_STATES == {"open", "ack", "in_progress"}
STATES == ACTIVE_STATES \cup {"resolved", "closed"}
VerifyState == {"none", "pending", "ok", "failed"}

Ticket == [cause : Cause, byHand : BOOLEAN, status : STATES, resolvedAt : Nat,
           check : BOOLEAN, verify : VerifyState]

NewTicket(c, byHand) ==
  [cause |-> c, byHand |-> byHand, status |-> "open", resolvedAt |-> 0,
   check |-> FALSE, verify |-> "none"]

(* Rows under the unique index: one made by hand has no dedup_key.          *)
Active(c) == {i \in DOMAIN tickets : /\ tickets[i].cause = c
                                     /\ ~tickets[i].byHand
                                     /\ tickets[i].status \in ACTIVE_STATES}

TRANSITIONS ==
  [s \in STATES |->
     CASE s = "open" -> {"ack", "in_progress", "resolved", "closed"}
       [] s = "ack" -> {"in_progress", "resolved", "closed"}
       [] s = "in_progress" -> {"resolved", "closed"}
       [] s = "resolved" -> {"closed", "open"}
       [] s = "closed" -> {}]

CanTransition(i, to) == to \in TRANSITIONS[tickets[i].status]

(* The index refuses a second active row of a cause: the UPDATE throws.     *)
IndexAllows(i) == tickets[i].byHand \/ Active(tickets[i].cause) \subseteq {i}

Moved(t, to) ==
  [t EXCEPT !.status = to, !.resolvedAt = IF to = "resolved" THEN now ELSE @]

ActsLeft == acts < MaxActs /\ acts' = acts + 1 /\ UNCHANGED faults

-----------------------------------------------------------------------------
(* Alarms of devices: POST /v1/probe/event.                                 *)

Swallow(c, p) ==
  swallowed' = IF Active(c) # {} THEN swallowed
               ELSE [swallowed EXCEPT ![c][p] =
                       [first |-> IF @.first = 0 THEN now ELSE @.first, last |-> now]]

(* Mutant: a dropped duplicate counts as the newest alert.                  *)
DuplicateKeepsWindow(c, p, ts) ==
  /\ stored[c][p] > now - Window
  /\ stored' = [stored EXCEPT ![c][p] = IF ts > @ THEN ts ELSE @]
  /\ Swallow(c, p)
  /\ UNCHANGED <<now, ticketVars, good, dispatching, boundVars>>

(* An alert of the device, metric and priority less than a window old: the  *)
(* alarm is dropped, whatever became of its incident.                       *)
Duplicate(c, p, ts) ==
  /\ stored[c][p] > now - Window
  /\ Swallow(c, p)
  /\ UNCHANGED <<now, stored, ticketVars, good, dispatching, boundVars>>

(* ensureIncidentForAlert: the active incident of the cause, or a new one.  *)
Ensured(c) ==
  IF Active(c) # {} THEN tickets ELSE Append(tickets, NewTicket(c, FALSE))

RoomForTicket ==
  Cardinality({i \in DOMAIN tickets : tickets[i].cause \in Device /\ ~tickets[i].byHand})
    < MaxTickets

(* The alert is stored; an incident that cannot be written is only logged.  *)
Accept(c, p, ts) ==
  /\ stored[c][p] <= now - Window
  /\ stored' = [stored EXCEPT ![c][p] = IF ts > @ THEN ts ELSE @]
  /\ swallowed' = [swallowed EXCEPT ![c][p] = [first |-> 0, last |-> 0]]
  /\ \/ /\ Active(c) # {} \/ RoomForTicket
        /\ tickets' = Ensured(c)
        /\ UNCHANGED faults
     \/ /\ faults < MaxFaults
        /\ faults' = faults + 1
        /\ UNCHANGED tickets
  /\ UNCHANGED <<now, excused, good, dispatching, acts>>

Alarm(c, p) == \E ts \in (now - Ahead) .. (now + Ahead) :
  ts > 0 /\ (Duplicate(c, p, ts) \/ Accept(c, p, ts))

-----------------------------------------------------------------------------
(* People: POST /v1/incidents/:id/state and the dispatch of an engineer.    *)

(* Mutant: a verification that has answered once is not armed again.        *)
ArmedOnce(t) ==
  IF t.status = "resolved" /\ t.check /\ t.verify = "none" THEN [t EXCEPT !.verify = "pending"] ELSE t

(* Resolving arms the verification the triage of the moment asks for.       *)
Armed(t) ==
  IF t.status = "resolved" /\ t.check THEN [t EXCEPT !.verify = "pending"] ELSE t

PostState(i, to) ==
  /\ ActsLeft
  /\ to = tickets[i].status \/ CanTransition(i, to)
  /\ to \in ACTIVE_STATES => IndexAllows(i)
  /\ LET t == IF to = tickets[i].status THEN tickets[i] ELSE Moved(tickets[i], to) IN
     /\ tickets' = [tickets EXCEPT ![i] = Armed(t)]
     /\ excused' = CASE to # "resolved" -> excused
                     [] tickets[i].check -> excused \ {i}
                     [] OTHER -> excused \cup {i}
  /\ UNCHANGED <<now, alarmVars, good, dispatching>>

(* The status is read before the procedure is drafted and the channels are  *)
(* called ...                                                               *)
Dispatch(i) ==
  /\ ActsLeft
  /\ tickets[i].status \in {"open", "ack"}
  /\ dispatching' = dispatching \cup {i}
  /\ UNCHANGED <<now, alarmVars, ticketVars, good>>

(* Mutant: the row is moved as it was when it was read.                     *)
DispatchedBlindly(i) ==
  /\ i \in dispatching
  /\ dispatching' = dispatching \ {i}
  /\ tickets' = [tickets EXCEPT ![i] = Moved(@, "in_progress")]
  /\ UNCHANGED <<now, alarmVars, excused, good, boundVars>>

(* ... and transition() reads it again: a refusal is ignored.               *)
Dispatched(i) ==
  /\ i \in dispatching
  /\ dispatching' = dispatching \ {i}
  /\ tickets' = IF CanTransition(i, "in_progress")
                THEN [tickets EXCEPT ![i] = Moved(@, "in_progress")] ELSE tickets
  /\ UNCHANGED <<now, alarmVars, excused, good, boundVars>>

(* POST /v1/fms/tickets/from-alert: a row without a dedup_key.              *)
FromAlert(c) ==
  /\ ActsLeft
  /\ \A i \in DOMAIN tickets : ~tickets[i].byHand
  /\ \E i \in DOMAIN tickets : tickets[i].cause = c
  /\ tickets' = Append(tickets, NewTicket(c, TRUE))
  /\ UNCHANGED <<now, alarmVars, excused, good, dispatching>>

(* A triage is saved, with or without a condition to verify.                *)
Retriage(i) ==
  /\ ActsLeft
  /\ tickets' = [tickets EXCEPT ![i].check = ~@]
  /\ UNCHANGED <<now, alarmVars, excused, good, dispatching>>

-----------------------------------------------------------------------------
(* Verification: GET /v1/incidents/:id/verify, when somebody asks for it.   *)

ResolvedAt(t) == IF t.resolvedAt = 0 THEN now ELSE t.resolvedAt

(* A probe is no row of ups_metrics: its condition is never met.            *)
Verdict(t) ==
  CASE t.cause \in Device /\ good[t.cause] >= ResolvedAt(t) -> "ok"
    [] t.cause \in Device /\ good[t.cause] < ResolvedAt(t) /\ now > ResolvedAt(t) + VerifyWindow
         -> "failed"
    [] t.cause \in Probe /\ now > ResolvedAt(t) + VerifyWindow -> "failed"
    [] OTHER -> "pending"

(* The verdict is written first; a reopening that throws leaves it.         *)
Verify(i) ==
  LET t == tickets[i]
      verdict == Verdict(t)
      fails == verdict = "failed" /\ t.status = "resolved"
  IN
  /\ ActsLeft
  /\ t.check
  /\ verdict # IF t.verify = "none" THEN "pending" ELSE t.verify
  /\ tickets' = [tickets EXCEPT ![i] =
       [IF fails /\ IndexAllows(i) THEN Moved(t, "open") ELSE t EXCEPT !.verify = verdict]]
  /\ excused' = IF fails /\ ~IndexAllows(i) THEN excused \cup {i} ELSE excused
  /\ UNCHANGED <<now, alarmVars, good, dispatching>>

(* A sample that meets the condition is stored.                             *)
Sample(c) ==
  /\ good' = [good EXCEPT ![c] = now]
  /\ UNCHANGED <<now, alarmVars, ticketVars, dispatching, boundVars>>

Tick ==
  /\ now < MaxTime
  /\ now' = now + 1
  /\ UNCHANGED <<alarmVars, ticketVars, good, dispatching, boundVars>>

-----------------------------------------------------------------------------
InitIncidents ==
  /\ now = Window
  /\ stored = [c \in Device |-> [p \in Priority |-> 0]]
  /\ tickets = <<>>
  /\ good = [c \in Device |-> 0]
  /\ dispatching = {}
  /\ swallowed = [c \in Device |-> [p \in Priority |-> [first |-> 0, last |-> 0]]]
  /\ excused = {}
  /\ acts = 0 /\ faults = 0

NextIncidents ==
  \/ \E c \in Device, p \in Priority : Alarm(c, p)
  \/ \E i \in DOMAIN tickets :
       \/ \E to \in STATES : PostState(i, to)
       \/ Dispatch(i) \/ Dispatched(i) \/ Retriage(i) \/ Verify(i)
  \/ \E c \in Cause : FromAlert(c)
  \/ \E c \in Device : Sample(c)
  \/ Tick

IncidentTypeOK ==
  /\ now \in Nat
  /\ stored \in [Device -> [Priority -> Int]]
  /\ tickets \in Seq(Ticket)
  /\ good \in [Device -> Nat]
  /\ dispatching \subseteq DOMAIN tickets
  /\ swallowed \in [Device -> [Priority -> [first : Nat, last : Nat]]]
  /\ excused \subseteq DOMAIN tickets
  /\ acts \in Nat /\ faults \in Nat

-----------------------------------------------------------------------------
(* A fault that goes on being reported while no incident of it is active is *)
(* dropped for less than the window and the error of the device's clock:    *)
(* dropped alarms do not keep the window open (probe.routes.js 237).        *)
SwallowedBriefly == \A c \in Device, p \in Priority :
  swallowed[c][p].last - swallowed[c][p].first < Window + Ahead

(* An incident does not rest resolved on a verification that failed: it was *)
(* reopened, unless another incident of the cause was active or the last    *)
(* resolution armed none (incidents.routes.js 442-447).                     *)
FailedIsReopened == \A i \in DOMAIN tickets :
  tickets[i].status = "resolved" /\ tickets[i].verify = "failed" => i \in excused

(* An incident has one way back: a person or a verification reopens what is *)
(* resolved, and nothing a slow dispatch still does revives it              *)
(* (state_machine.js 9-15, incidents.routes.js 335).                        *)
NoRevival == [][\A i \in DOMAIN tickets :
  LET from == tickets[i].status
      to == tickets'[i].status
  IN /\ from = "closed" => to = "closed"
     /\ from = "resolved" => to \in {"resolved", "closed", "open"}]_tickets
=============================================================================
