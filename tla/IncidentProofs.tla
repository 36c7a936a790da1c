--------------------------- MODULE IncidentProofs ---------------------------
(***************************************************************************)
(* Proofs about Incidents and ProbeHealth, for any devices, probes,        *)
(* windows and bounds.                                                     *)
(*                                                                         *)
(* Every step leaves the table of tickets, appends a ticket, or edits one  *)
(* along TRANSITIONS under the unique index (Shape): one lemma per action  *)
(* gives that, and what holds of tickets follows from the three cases.     *)
(***************************************************************************)
EXTENDS ProbeHealth, TLAPS

(* At most one incident of a cause is active.                               *)
OneActivePerCause == \A c \in Cause : \A i, j \in Active(c) : i = j

ProbeTypeOK ==
  /\ lastSeen \in [Probe -> Nat]
  /\ down \in [Probe -> BOOLEAN]
  /\ tells \in [Probe -> Nat]
  /\ touched \subseteq Probe

Edit(i, t) ==
  /\ tickets' = [tickets EXCEPT ![i] = t]
  /\ t.cause = tickets[i].cause /\ t.byHand = tickets[i].byHand
  /\ t.status = tickets[i].status \/ t.status \in TRANSITIONS[tickets[i].status]
  /\ t.status \in ACTIVE_STATES /\ tickets[i].status \notin ACTIVE_STATES => IndexAllows(i)

Addition(c, byHand) ==
  /\ tickets' = Append(tickets, NewTicket(c, byHand))
  /\ ~byHand => Active(c) = {}

Shape ==
  \/ UNCHANGED tickets
  \/ \E c \in Cause, byHand \in BOOLEAN : Addition(c, byHand)
  \/ \E i \in DOMAIN tickets, t \in Ticket : Edit(i, t)

-----------------------------------------------------------------------------
LEMMA TicketFacts ==
  ASSUME IncidentTypeOK
  PROVE  /\ tickets \in Seq(Ticket) /\ now \in Nat /\ Len(tickets) \in Nat
         /\ DOMAIN tickets = 1 .. Len(tickets)
         /\ \A i \in DOMAIN tickets : tickets[i] \in Ticket
BY DEF IncidentTypeOK

LEMMA NewIsTicket ==
  ASSUME NEW c \in Cause, NEW byHand \in BOOLEAN
  PROVE  NewTicket(c, byHand) \in Ticket
BY DEF NewTicket, Ticket, STATES, ACTIVE_STATES, VerifyState

LEMMA MovedFacts ==
  ASSUME IncidentTypeOK, NEW t \in Ticket, NEW to \in STATES
  PROVE  /\ Moved(t, to) \in Ticket /\ Moved(t, to).status = to
         /\ Moved(t, to).cause = t.cause /\ Moved(t, to).byHand = t.byHand
         /\ Moved(t, to).check = t.check /\ Moved(t, to).verify = t.verify
BY TicketFacts DEF Moved, Ticket

LEMMA ArmedFacts ==
  ASSUME NEW t \in Ticket
  PROVE  /\ Armed(t) \in Ticket /\ Armed(t).status = t.status
         /\ Armed(t).cause = t.cause /\ Armed(t).byHand = t.byHand
         /\ t.status = "resolved" /\ t.check => Armed(t).verify = "pending"
BY DEF Armed, Ticket, VerifyState

LEMMA VerdictFacts ==
  ASSUME NEW t \in Ticket
  PROVE  Verdict(t) \in {"ok", "failed", "pending"}
BY DEF Verdict

-----------------------------------------------------------------------------
(* What each action does to the table of tickets.                           *)
LEMMA EnsuredShape ==
  ASSUME NEW c \in Cause, tickets' = Ensured(c)
  PROVE  Shape
BY DEF Ensured, Shape, Addition

LEMMA PostShape ==
  ASSUME IncidentTypeOK, NEW i \in DOMAIN tickets, NEW to \in STATES, PostState(i, to)
  PROVE  Shape
<1> DEFINE t == IF to = tickets[i].status THEN tickets[i] ELSE Moved(tickets[i], to)
<1>1. tickets[i] \in Ticket
  BY TicketFacts
<1>2. /\ t \in Ticket /\ t.status = to
      /\ t.cause = tickets[i].cause /\ t.byHand = tickets[i].byHand
  BY <1>1, MovedFacts
<1>3. Armed(t) \in Ticket
  BY <1>2, ArmedFacts
<1>4. Edit(i, Armed(t))
  <2>1. tickets' = [tickets EXCEPT ![i] = Armed(t)]
    BY DEF PostState
  <2>2. /\ Armed(t).status = to
        /\ Armed(t).cause = tickets[i].cause /\ Armed(t).byHand = tickets[i].byHand
    BY <1>2, ArmedFacts
  <2>3. /\ to = tickets[i].status \/ to \in TRANSITIONS[tickets[i].status]
        /\ to \in ACTIVE_STATES => IndexAllows(i)
    BY DEF PostState, CanTransition
  <2>4. QED
    BY <2>1, <2>2, <2>3 DEF Edit
<1>5. QED
  BY <1>3, <1>4 DEF Shape

LEMMA DispatchedShape ==
  ASSUME IncidentTypeOK, NEW i \in DOMAIN tickets, Dispatched(i)
  PROVE  Shape
<1>1. tickets[i] \in Ticket /\ "in_progress" \in STATES
  BY TicketFacts DEF STATES, ACTIVE_STATES
<1>2. CASE CanTransition(i, "in_progress")
  <2>1. tickets' = [tickets EXCEPT ![i] = Moved(tickets[i], "in_progress")]
    BY <1>2 DEF Dispatched
  <2>2. tickets[i].status \in ACTIVE_STATES
    BY <1>1, <1>2 DEF CanTransition, TRANSITIONS, Ticket, STATES, ACTIVE_STATES
  <2>3. Edit(i, Moved(tickets[i], "in_progress"))
    BY <1>1, <1>2, <2>1, <2>2, MovedFacts DEF Edit, CanTransition
  <2>4. QED
    BY <1>1, <2>3, MovedFacts DEF Shape
<1>3. CASE ~CanTransition(i, "in_progress")
  BY <1>3 DEF Dispatched, Shape
<1>4. QED
  BY <1>2, <1>3

LEMMA RetriageShape ==
  ASSUME IncidentTypeOK, NEW i \in DOMAIN tickets, Retriage(i)
  PROVE  Shape
<1> DEFINE t == [tickets[i] EXCEPT !.check = ~tickets[i].check]
<1>1. tickets[i] \in Ticket
  BY TicketFacts
<1>2. /\ t \in Ticket /\ t.status = tickets[i].status
      /\ t.cause = tickets[i].cause /\ t.byHand = tickets[i].byHand
  BY <1>1 DEF Ticket
<1>3. tickets' = [tickets EXCEPT ![i] = t]
  BY TicketFacts DEF Retriage
<1>4. QED
  BY <1>2, <1>3 DEF Shape, Edit

LEMMA VerifyShape ==
  ASSUME IncidentTypeOK, NEW i \in DOMAIN tickets, Verify(i)
  PROVE  Shape
<1> DEFINE t == tickets[i]
           fails == Verdict(t) = "failed" /\ t.status = "resolved"
           u == IF fails /\ IndexAllows(i) THEN Moved(t, "open") ELSE t
           v == [u EXCEPT !.verify = Verdict(t)]
<1>1. t \in Ticket /\ "open" \in STATES
  BY TicketFacts DEF STATES, ACTIVE_STATES
<1>2. tickets' = [tickets EXCEPT ![i] = v]
  BY DEF Verify
<1>3. u \in Ticket /\ u.cause = t.cause /\ u.byHand = t.byHand
  BY <1>1, MovedFacts
<1>4. v \in Ticket /\ v.cause = u.cause /\ v.byHand = u.byHand /\ v.status = u.status
  BY <1>1, <1>3, VerdictFacts DEF Ticket, VerifyState
<1>5. CASE fails /\ IndexAllows(i)
  <2>1. u.status = "open"
    BY <1>1, <1>5, MovedFacts
  <2>2. "open" \in TRANSITIONS[t.status]
    BY <1>5 DEF TRANSITIONS, STATES
  <2>3. Edit(i, v)
    BY <1>2, <1>3, <1>4, <1>5, <2>1, <2>2 DEF Edit
  <2>4. QED
    BY <1>4, <2>3 DEF Shape
<1>6. CASE ~(fails /\ IndexAllows(i))
  <2>1. u = t
    BY <1>6
  <2>2. Edit(i, v)
    BY <1>2, <1>4, <2>1 DEF Edit
  <2>3. QED
    BY <1>4, <2>2 DEF Shape
<1>7. QED
  BY <1>5, <1>6

(* The ticket a recovery resolves, if any, is one.                          *)
LEMMA NewestIsOne ==
  ASSUME IncidentTypeOK, NEW p \in Probe
  PROVE  /\ Newest(p) \subseteq DOMAIN tickets
         /\ \A i, j \in Newest(p) : i = j
         /\ \A i \in Newest(p) : tickets[i].cause = p /\ tickets[i].status \in ACTIVE_STATES
<1>1. \A i \in DOMAIN tickets : i \in Int
  BY TicketFacts
<1>2. QED
  BY <1>1 DEF Newest

LEMMA HeartbeatShape ==
  ASSUME IncidentTypeOK, NEW p \in Probe, Heartbeat(p)
  PROVE  /\ Shape
         /\ DOMAIN tickets' = DOMAIN tickets
         /\ \A i \in DOMAIN tickets : tickets'[i] =
              IF down[p] /\ i \in Newest(p) THEN Moved(tickets[i], "resolved") ELSE tickets[i]
<1> DEFINE closing == IF down[p] THEN Newest(p) ELSE {}
<1>1. tickets' = [i \in DOMAIN tickets |->
                    IF i \in closing THEN Moved(tickets[i], "resolved") ELSE tickets[i]]
  BY DEF Heartbeat
<1>2. closing \subseteq DOMAIN tickets /\ \A i, j \in closing : i = j
  BY NewestIsOne
<1>3. \A i \in closing : tickets[i].status \in ACTIVE_STATES
  BY NewestIsOne
<1>4. tickets \in Seq(Ticket) /\ \A i \in DOMAIN tickets : tickets[i] \in Ticket
  BY TicketFacts
<1>5. Shape
  <2>1. CASE closing = {}
    <3>1. tickets' = tickets
      BY <1>1, <1>4, <2>1
    <3>2. QED
      BY <3>1 DEF Shape
  <2>2. CASE closing # {}
    <3>1. PICK k \in closing : closing = {k}
      BY <1>2, <2>2
    <3>2. tickets' = [tickets EXCEPT ![k] = Moved(tickets[k], "resolved")]
      BY <1>1, <1>2, <1>4, <3>1
    <3>3. k \in DOMAIN tickets /\ tickets[k] \in Ticket /\ "resolved" \in STATES
      BY <1>2, <1>4, <3>1 DEF STATES
    <3>4. "resolved" \in TRANSITIONS[tickets[k].status]
      BY <1>3, <3>1 DEF TRANSITIONS, ACTIVE_STATES, STATES
    <3>5. Edit(k, Moved(tickets[k], "resolved"))
      BY <3>2, <3>3, <3>4, MovedFacts DEF Edit, ACTIVE_STATES
    <3>6. QED
      BY <3>3, <3>5, MovedFacts DEF Shape
  <2>3. QED
    BY <2>1, <2>2
<1>6. QED
  BY <1>1, <1>5

LEMMA IncidentShape ==
  ASSUME IncidentTypeOK, NextIncidents
  PROVE  Shape
<1>1. ASSUME NEW c \in Device, NEW p \in Priority, Alarm(c, p) PROVE Shape
  <2>1. c \in Cause
    BY DEF Cause
  <2>2. UNCHANGED tickets \/ tickets' = Ensured(c)
    BY <1>1 DEF Alarm, Duplicate, Accept, ticketVars
  <2>3. QED
    BY <2>1, <2>2, EnsuredShape DEF Shape
<1>2. ASSUME NEW i \in DOMAIN tickets, Dispatch(i) PROVE Shape
  BY <1>2 DEF Dispatch, ticketVars, Shape
<1>3. ASSUME NEW c \in Cause, FromAlert(c) PROVE Shape
  BY <1>3 DEF FromAlert, Shape, Addition
<1>4. ASSUME NEW c \in Device, Sample(c) PROVE Shape
  BY <1>4 DEF Sample, ticketVars, Shape
<1>5. CASE Tick
  BY <1>5 DEF Tick, ticketVars, Shape
<1>6. QED
  BY <1>1, <1>2, <1>3, <1>4, <1>5, PostShape, DispatchedShape, RetriageShape, VerifyShape
     DEF NextIncidents

LEMMA StepShape ==
  ASSUME IncidentTypeOK, [Next]_vars
  PROVE  Shape
<1>1. CASE ByOthers
  BY <1>1, IncidentShape DEF ByOthers
<1>2. ASSUME NEW p \in Probe, Sweep(p) PROVE Shape
  <2>1. p \in Cause
    BY DEF Cause
  <2>2. UNCHANGED tickets \/ tickets' = Ensured(p)
    BY <1>2 DEF Sweep
  <2>3. QED
    BY <2>1, <2>2, EnsuredShape DEF Shape
<1>3. ASSUME NEW p \in Probe, Heartbeat(p) PROVE Shape
  BY <1>3, HeartbeatShape
<1>4. CASE UNCHANGED vars
  BY <1>4 DEF vars, incidentVars, ticketVars, Shape
<1>5. QED
  BY <1>1, <1>2, <1>3, <1>4 DEF Next

-----------------------------------------------------------------------------
(* Types.                                                                   *)
LEMMA ShapeTyped ==
  ASSUME IncidentTypeOK, Shape
  PROVE  tickets' \in Seq(Ticket) /\ DOMAIN tickets \subseteq DOMAIN tickets'
<1>0. tickets \in Seq(Ticket) /\ Len(tickets) \in Nat /\ DOMAIN tickets = 1 .. Len(tickets)
  BY TicketFacts
<1>1. CASE UNCHANGED tickets
  BY <1>0, <1>1
<1>2. ASSUME NEW c \in Cause, NEW byHand \in BOOLEAN, Addition(c, byHand)
      PROVE  tickets' \in Seq(Ticket) /\ DOMAIN tickets \subseteq DOMAIN tickets'
  <2>1. tickets' = Append(tickets, NewTicket(c, byHand)) /\ NewTicket(c, byHand) \in Ticket
    BY <1>2, NewIsTicket DEF Addition
  <2>2. tickets' \in Seq(Ticket) /\ Len(tickets') = Len(tickets) + 1
    BY <1>0, <2>1
  <2>3. DOMAIN tickets' = 1 .. Len(tickets) + 1
    BY <2>2
  <2>4. QED
    BY <1>0, <2>2, <2>3
<1>3. ASSUME NEW i \in DOMAIN tickets, NEW t \in Ticket, Edit(i, t)
      PROVE  tickets' \in Seq(Ticket) /\ DOMAIN tickets \subseteq DOMAIN tickets'
  BY <1>0, <1>3 DEF Edit
<1>4. QED
  BY <1>1, <1>2, <1>3 DEF Shape

Typed == IncidentTypeOK /\ ProbeTypeOK

LEMMA TypeInit == Init => Typed
<1> SUFFICES ASSUME Init PROVE Typed
  OBVIOUS
<1> USE IncidentsAssumption, ProbeHealthAssumption DEF IncidentsAssumption
<1>1. tickets \in Seq(Ticket)
  BY DEF Init, InitIncidents
<1>2. /\ now \in Nat /\ acts \in Nat /\ faults \in Nat
      /\ dispatching \subseteq DOMAIN tickets /\ excused \subseteq DOMAIN tickets
  BY DEF Init, InitIncidents
<1>3. /\ stored \in [Device -> [Priority -> Int]] /\ good \in [Device -> Nat]
      /\ swallowed \in [Device -> [Priority -> [first : Nat, last : Nat]]]
  BY DEF Init, InitIncidents
<1>4. ProbeTypeOK
  <2>1. down \in [Probe -> BOOLEAN]
    BY Zenon DEF Init
  <2>2. QED
    BY <1>2, <2>1 DEF Init, ProbeTypeOK
<1>5. QED
  BY <1>1, <1>2, <1>3, <1>4 DEF Typed, IncidentTypeOK

(* The parts of the type other than the tickets.                            *)
Rest ==
  /\ now \in Nat /\ acts \in Nat /\ faults \in Nat
  /\ stored \in [Device -> [Priority -> Int]] /\ good \in [Device -> Nat]
  /\ swallowed \in [Device -> [Priority -> [first : Nat, last : Nat]]]

LEMMA SwallowTyped ==
  ASSUME Rest, NEW c \in Device, NEW p \in Priority, Swallow(c, p)
  PROVE  swallowed' \in [Device -> [Priority -> [first : Nat, last : Nat]]]
<1>1. swallowed[c] \in [Priority -> [first : Nat, last : Nat]] /\ now \in Nat
  BY DEF Rest
<1>2. swallowed[c][p] \in [first : Nat, last : Nat]
  BY <1>1
<1>3. (IF swallowed[c][p].first = 0 THEN now ELSE swallowed[c][p].first) \in Nat
  BY <1>1, <1>2
<1>4. QED
  BY <1>1, <1>3 DEF Rest, Swallow

LEMMA IncidentTyped ==
  ASSUME Typed, NextIncidents
  PROVE  /\ Rest'
         /\ dispatching' \subseteq DOMAIN tickets /\ excused' \subseteq DOMAIN tickets
<1> USE DEF alarmVars, ticketVars, boundVars
<1>0. /\ Rest /\ dispatching \subseteq DOMAIN tickets /\ excused \subseteq DOMAIN tickets
  BY DEF Typed, IncidentTypeOK, Rest
<1>1. ASSUME NEW c \in Device, NEW p \in Priority, NEW ts \in Int, Duplicate(c, p, ts)
      PROVE  Rest' /\ UNCHANGED <<dispatching, excused>>
  BY <1>0, <1>1, SwallowTyped DEF Duplicate, Rest
<1>2. ASSUME NEW c \in Device, NEW p \in Priority, NEW ts \in Int, Accept(c, p, ts)
      PROVE  Rest' /\ UNCHANGED <<dispatching, excused>>
  BY <1>0, <1>2 DEF Accept, Rest
<1>3. ASSUME NEW c \in Device, NEW p \in Priority, Alarm(c, p)
      PROVE  Rest' /\ UNCHANGED <<dispatching, excused>>
  BY <1>0, <1>1, <1>2, <1>3, IncidentsAssumption DEF Alarm, Rest, IncidentsAssumption
<1>4. ASSUME NEW i \in DOMAIN tickets, NEW to \in STATES, PostState(i, to)
      PROVE  Rest' /\ dispatching' = dispatching /\ excused' \subseteq excused \cup {i}
  BY <1>0, <1>4 DEF PostState, ActsLeft, Rest
<1>5. ASSUME NEW i \in DOMAIN tickets, Dispatch(i) \/ Dispatched(i) \/ Retriage(i)
      PROVE  Rest' /\ dispatching' \subseteq dispatching \cup {i} /\ excused' = excused
  BY <1>0, <1>5 DEF Dispatch, Dispatched, Retriage, ActsLeft, Rest
<1>6. ASSUME NEW i \in DOMAIN tickets, Verify(i)
      PROVE  Rest' /\ dispatching' = dispatching /\ excused' \subseteq excused \cup {i}
  BY <1>0, <1>6 DEF Verify, ActsLeft, Rest
<1>7. ASSUME NEW c \in Cause, FromAlert(c)
      PROVE  Rest' /\ UNCHANGED <<dispatching, excused>>
  BY <1>0, <1>7 DEF FromAlert, ActsLeft, Rest
<1>8. ASSUME NEW c \in Device, Sample(c) PROVE Rest' /\ UNCHANGED <<dispatching, excused>>
  BY <1>0, <1>8 DEF Sample, Rest
<1>9. CASE Tick
  BY <1>0, <1>9 DEF Tick, Rest
<1>10. QED
  BY <1>0, <1>3, <1>4, <1>5, <1>6, <1>7, <1>8, <1>9 DEF NextIncidents

LEMMA TypeStep ==
  ASSUME Typed, [Next]_vars
  PROVE  Typed'
<1> USE DEF alarmVars, ticketVars, boundVars
<1>0. /\ Rest /\ dispatching \subseteq DOMAIN tickets /\ excused \subseteq DOMAIN tickets
      /\ IncidentTypeOK /\ ProbeTypeOK
  BY DEF Typed, IncidentTypeOK, Rest
<1>1. tickets' \in Seq(Ticket) /\ DOMAIN tickets \subseteq DOMAIN tickets'
  BY <1>0, StepShape, ShapeTyped
<1>2. /\ Rest' /\ ProbeTypeOK'
      /\ dispatching' \subseteq DOMAIN tickets /\ excused' \subseteq DOMAIN tickets
  <2>1. CASE ByOthers
    BY <1>0, <2>1, IncidentTyped DEF ByOthers, ProbeTypeOK
  <2>2. ASSUME NEW p \in Probe, Sweep(p)
        PROVE  Rest' /\ ProbeTypeOK' /\ UNCHANGED <<dispatching, excused>>
    <3>1. Rest' /\ UNCHANGED <<dispatching, excused, lastSeen>>
      BY <1>0, <2>2 DEF Sweep, Rest
    <3>2. down' \in [Probe -> BOOLEAN]
      BY <1>0, <2>2, Zenon DEF Sweep, ProbeTypeOK
    <3>3. tells' \in [Probe -> Nat] /\ touched' \subseteq Probe
      BY <1>0, <2>2 DEF Sweep, ProbeTypeOK
    <3>4. QED
      BY <1>0, <3>1, <3>2, <3>3 DEF ProbeTypeOK
  <2>3. ASSUME NEW p \in Probe, Heartbeat(p)
        PROVE  Rest' /\ ProbeTypeOK' /\ dispatching' = dispatching
               /\ excused' \subseteq excused \cup Newest(p)
    <3>1. Rest' /\ dispatching' = dispatching /\ excused' \subseteq excused \cup Newest(p)
      BY <1>0, <2>3 DEF Heartbeat, Rest
    <3>2. down' \in [Probe -> BOOLEAN]
      BY <1>0, <2>3, Zenon DEF Heartbeat, FlagCleared, ProbeTypeOK
    <3>3. tells' \in [Probe -> Nat] /\ touched' \subseteq Probe /\ lastSeen' \in [Probe -> Nat]
      BY <1>0, <2>3 DEF Heartbeat, ProbeTypeOK, Rest
    <3>4. QED
      BY <3>1, <3>2, <3>3 DEF ProbeTypeOK
  <2>4. CASE UNCHANGED vars
    BY <1>0, <2>4 DEF vars, incidentVars, probeVars, Rest, ProbeTypeOK
  <2>5. QED
    BY <1>0, <2>1, <2>2, <2>3, <2>4, NewestIsOne DEF Next
<1>3. QED
  BY <1>1, <1>2 DEF Typed, IncidentTypeOK, Rest

(* The tickets, alarms and probes have their types, and what refers to a    *)
(* ticket refers to one that exists.                                        *)
THEOREM TypeCorrect == Spec => []Typed
<1>1. QED
  BY TypeInit, TypeStep, PTL DEF Spec

-----------------------------------------------------------------------------
(* An incident's way through its states.                                    *)
LEMMA ShapeNoRevival ==
  ASSUME IncidentTypeOK, Shape, NEW i \in DOMAIN tickets
  PROVE  /\ tickets[i].status = "closed" => tickets'[i].status = "closed"
         /\ tickets[i].status = "resolved" =>
              tickets'[i].status \in {"resolved", "closed", "open"}
<1>0. tickets \in Seq(Ticket) /\ Len(tickets) \in Nat /\ DOMAIN tickets = 1 .. Len(tickets)
  BY TicketFacts
<1>1. CASE UNCHANGED tickets
  BY <1>1
<1>2. ASSUME NEW c \in Cause, NEW byHand \in BOOLEAN, Addition(c, byHand)
      PROVE  tickets'[i] = tickets[i]
  BY <1>0, <1>2, NewIsTicket DEF Addition
<1>3. ASSUME NEW j \in DOMAIN tickets, NEW t \in Ticket, Edit(j, t)
      PROVE  \/ tickets'[i] = tickets[i]
             \/ tickets'[i].status = tickets[i].status
             \/ tickets'[i].status \in TRANSITIONS[tickets[i].status]
  BY <1>0, <1>3 DEF Edit
<1>4. /\ TRANSITIONS["closed"] = {}
      /\ TRANSITIONS["resolved"] = {"closed", "open"}
  BY DEF TRANSITIONS, STATES
<1>5. QED
  BY <1>1, <1>2, <1>3, <1>4 DEF Shape

(* Nothing but a reopening of a resolved incident revives one: no slow      *)
(* dispatch, recovery or verification (incidents.routes.js 335).            *)
THEOREM NothingRevives == Spec => NoRevival
<1>1. Typed /\ [Next]_vars =>
        [\A i \in DOMAIN tickets :
           LET from == tickets[i].status
               to == tickets'[i].status
           IN /\ from = "closed" => to = "closed"
              /\ from = "resolved" => to \in {"resolved", "closed", "open"}]_tickets
  BY StepShape, ShapeNoRevival DEF Typed
<1>2. QED
  BY <1>1, TypeCorrect, PTL DEF Spec, NoRevival

-----------------------------------------------------------------------------
(* How long alarms are dropped.                                             *)

(* The newest alert is not further ahead than a device's clock can be, of   *)
(* now or of the first alarm dropped after it.                              *)
WindowEnds ==
  \A c \in Device, p \in Priority :
    LET s == swallowed[c][p] IN
    /\ stored[c][p] <= now + Ahead
    /\ s.first <= now /\ s.last <= now
    /\ s.first # 0 => stored[c][p] <= s.first + Ahead
    /\ s.first = 0 => s.last = 0
    /\ s.last - s.first < Window + Ahead

LEMMA WindowStep ==
  ASSUME Typed, WindowEnds, now > 0, [Next]_vars
  PROVE  WindowEnds' /\ now' > 0
<1> USE DEF alarmVars, ticketVars, boundVars
<1>0. /\ now \in Nat /\ Window \in Nat \ {0} /\ Ahead \in Nat
      /\ stored \in [Device -> [Priority -> Int]]
      /\ swallowed \in [Device -> [Priority -> [first : Nat, last : Nat]]]
  BY IncidentsAssumption DEF Typed, IncidentTypeOK, IncidentsAssumption
<1>00. \A c \in Device, p \in Priority :
         /\ stored[c] \in [Priority -> Int] /\ stored[c][p] \in Int
         /\ swallowed[c] \in [Priority -> [first : Nat, last : Nat]]
         /\ swallowed[c][p] \in [first : Nat, last : Nat]
         /\ swallowed[c][p].first \in Nat /\ swallowed[c][p].last \in Nat
  BY <1>0
<1>1. ASSUME NEW c \in Device, NEW p \in Priority, NEW ts \in Int, Duplicate(c, p, ts)
      PROVE  WindowEnds' /\ now' = now
  <2> DEFINE s == swallowed[c][p]
             to == [first |-> IF s.first = 0 THEN now ELSE s.first, last |-> now]
  <2>1. stored[c][p] > now - Window /\ UNCHANGED <<now, stored>> /\ Swallow(c, p)
    BY <1>1 DEF Duplicate
  <2>2. CASE UNCHANGED swallowed
    BY <2>1, <2>2 DEF WindowEnds
  <2>3. CASE swallowed' = [swallowed EXCEPT ![c][p] = to]
    <3>1. ASSUME NEW d \in Device, NEW q \in Priority
          PROVE  swallowed'[d][q] = IF d = c /\ q = p THEN to ELSE swallowed[d][q]
      BY <1>0, <1>00, <2>3
    <3>2. /\ to.first = IF s.first = 0 THEN now ELSE s.first
          /\ to.last = now
      OBVIOUS
    <3>3. /\ stored[c][p] <= now + Ahead /\ s.first <= now
          /\ s.first # 0 => stored[c][p] <= s.first + Ahead
      BY DEF WindowEnds
    <3>4. /\ to.first <= now /\ to.first # 0
          /\ stored[c][p] <= to.first + Ahead
          /\ to.last - to.first < Window + Ahead
      BY <1>0, <1>00, <2>1, <3>2, <3>3
    <3>5. ASSUME NEW d \in Device, NEW q \in Priority
          PROVE  LET r == swallowed'[d][q] IN
                 /\ stored[d][q] <= now + Ahead
                 /\ r.first <= now /\ r.last <= now
                 /\ r.first # 0 => stored[d][q] <= r.first + Ahead
                 /\ r.first = 0 => r.last = 0
                 /\ r.last - r.first < Window + Ahead
      <4>1. CASE d = c /\ q = p
        <5>1. swallowed'[d][q] = to
          BY <3>1, <4>1
        <5>2. QED
          BY <1>0, <3>2, <3>3, <3>4, <4>1, <5>1
      <4>2. CASE ~(d = c /\ q = p)
        BY <3>1, <4>2 DEF WindowEnds
      <4>3. QED
        BY <4>1, <4>2
    <3>6. QED
      BY <2>1, <3>5 DEF WindowEnds
  <2>4. QED
    BY <2>1, <2>2, <2>3 DEF Swallow
<1>2. ASSUME NEW c \in Device, NEW p \in Priority, NEW ts \in (now - Ahead) .. (now + Ahead),
             Accept(c, p, ts)
      PROVE  WindowEnds' /\ now' = now
  <2> DEFINE at == IF ts > stored[c][p] THEN ts ELSE stored[c][p]
             none == [first |-> 0, last |-> 0]
  <2>1. /\ now' = now
        /\ stored' = [stored EXCEPT ![c][p] = at]
        /\ swallowed' = [swallowed EXCEPT ![c][p] = none]
    BY <1>0, <1>00, <1>2 DEF Accept
  <2>2. ASSUME NEW d \in Device, NEW q \in Priority
        PROVE  /\ stored'[d][q] = IF d = c /\ q = p THEN at ELSE stored[d][q]
               /\ swallowed'[d][q] = IF d = c /\ q = p THEN none ELSE swallowed[d][q]
    BY <1>0, <1>00, <2>1
  <2>3. at <= now + Ahead
    BY <1>0, <1>00 DEF WindowEnds
  <2>4. none.first = 0 /\ none.last = 0 /\ 0 < Window + Ahead
    BY <1>0
  <2>5. QED
    BY <1>0, <2>1, <2>2, <2>3, <2>4 DEF WindowEnds
<1>3. ASSUME UNCHANGED <<now, stored, swallowed>> PROVE WindowEnds'
  BY <1>3 DEF WindowEnds
<1>4. ASSUME Tick PROVE WindowEnds'
  <2>1. now' = now + 1 /\ UNCHANGED <<stored, swallowed>>
    BY <1>4 DEF Tick
  <2>2. QED
    BY <1>0, <1>00, <2>1 DEF WindowEnds
<1>5. ASSUME NextIncidents PROVE WindowEnds'
  <2>1. ASSUME NEW c \in Device, NEW p \in Priority, Alarm(c, p) PROVE WindowEnds'
    <3>1. PICK ts \in (now - Ahead) .. (now + Ahead) : Duplicate(c, p, ts) \/ Accept(c, p, ts)
      BY <2>1 DEF Alarm
    <3>2. ts \in Int
      BY <1>0, <3>1
    <3>3. QED
      BY <1>1, <1>2, <3>1, <3>2
  <2>2. ASSUME NEW i \in DOMAIN tickets, NEW to \in STATES, PostState(i, to) PROVE WindowEnds'
    BY <1>3, <2>2 DEF PostState
  <2>3. ASSUME NEW i \in DOMAIN tickets,
               Dispatch(i) \/ Dispatched(i) \/ Retriage(i) \/ Verify(i)
        PROVE  WindowEnds'
    BY <1>3, <2>3 DEF Dispatch, Dispatched, Retriage, Verify
  <2>4. ASSUME NEW c \in Cause, FromAlert(c) PROVE WindowEnds'
    BY <1>3, <2>4 DEF FromAlert
  <2>5. ASSUME NEW c \in Device, Sample(c) PROVE WindowEnds'
    BY <1>3, <2>5 DEF Sample
  <2>6. QED
    BY <1>4, <1>5, <2>1, <2>2, <2>3, <2>4, <2>5 DEF NextIncidents
<1>6. ASSUME ~NextIncidents PROVE WindowEnds'
  BY <1>3, <1>6 DEF Next, ByOthers, Sweep, Heartbeat, vars, incidentVars
<1>7. QED
  <2>1. now' = now \/ now' = now + 1
    BY DEF Next, ByOthers, NextIncidents, Alarm, Duplicate, Accept, PostState, Dispatch,
           Dispatched, Retriage, Verify, FromAlert, Sample, Tick, Sweep, Heartbeat,
           vars, incidentVars
  <2>2. QED
    BY <1>0, <1>5, <1>6, <2>1

(* A fault that is reported on and on is dropped, with no incident of it    *)
(* active, for less than the window and the clock's error                   *)
(* (probe.routes.js 237).                                                   *)
THEOREM SwallowedShortly == Spec => []SwallowedBriefly
<1>1. Init => Typed /\ WindowEnds /\ now > 0
  <2> SUFFICES ASSUME Init PROVE WindowEnds /\ now > 0
    BY TypeInit
  <2>1. QED
    BY IncidentsAssumption DEF Init, InitIncidents, WindowEnds, IncidentsAssumption
<1>2. (Typed /\ WindowEnds /\ now > 0) /\ [Next]_vars => (Typed /\ WindowEnds /\ now > 0)'
  BY TypeStep, WindowStep
<1>3. WindowEnds => SwallowedBriefly
  BY DEF WindowEnds, SwallowedBriefly
<1>4. QED
  BY <1>1, <1>2, <1>3, PTL DEF Spec

-----------------------------------------------------------------------------
(* Verification.                                                            *)
LEMMA FailedStep ==
  ASSUME Typed, FailedIsReopened, [Next]_vars
  PROVE  FailedIsReopened'
<1> USE DEF alarmVars, ticketVars, boundVars
<1>0. /\ tickets \in Seq(Ticket) /\ Len(tickets) \in Nat /\ DOMAIN tickets = 1 .. Len(tickets)
      /\ IncidentTypeOK
  BY TicketFacts DEF Typed
<1>00. \A i \in DOMAIN tickets : tickets[i] \in Ticket
  BY <1>0, TicketFacts
<1>1. CASE UNCHANGED <<tickets, excused>>
  BY <1>1 DEF FailedIsReopened
<1>2. ASSUME NEW c \in Cause, NEW byHand \in BOOLEAN, excused' = excused,
             tickets' = Append(tickets, NewTicket(c, byHand))
      PROVE  FailedIsReopened'
  <2>1. /\ Len(tickets') = Len(tickets) + 1 /\ DOMAIN tickets' = 1 .. Len(tickets) + 1
        /\ tickets'[Len(tickets) + 1] = NewTicket(c, byHand)
        /\ \A i \in DOMAIN tickets : tickets'[i] = tickets[i]
    BY <1>0, <1>2, NewIsTicket
  <2>2. NewTicket(c, byHand).verify = "none"
    BY DEF NewTicket
  <2>3. QED
    BY <1>0, <1>2, <2>1, <2>2 DEF FailedIsReopened
<1>3. ASSUME NEW c \in Cause, excused' = excused, tickets' = Ensured(c)
      PROVE  FailedIsReopened'
  BY <1>1, <1>2, <1>3 DEF Ensured
<1>4. ASSUME NEW i \in DOMAIN tickets, NEW t, tickets' = [tickets EXCEPT ![i] = t],
             excused \ {i} \subseteq excused',
             t.status = "resolved" /\ t.verify = "failed" => i \in excused'
      PROVE  FailedIsReopened'
  BY <1>0, <1>4 DEF FailedIsReopened
<1>5. ASSUME NEW i \in DOMAIN tickets, NEW to \in STATES, PostState(i, to)
      PROVE  FailedIsReopened'
  <2> DEFINE t == IF to = tickets[i].status THEN tickets[i] ELSE Moved(tickets[i], to)
  <2>1. /\ t \in Ticket /\ t.status = to /\ t.check = tickets[i].check
    BY <1>0, <1>00, MovedFacts
  <2>2. Armed(t).status = to /\ (to = "resolved" /\ t.check => Armed(t).verify = "pending")
    BY <2>1, ArmedFacts
  <2>3. tickets' = [tickets EXCEPT ![i] = Armed(t)]
    BY <1>5 DEF PostState
  <2>4. /\ excused \ {i} \subseteq excused'
        /\ to = "resolved" /\ ~tickets[i].check => i \in excused'
    BY <1>5 DEF PostState
  <2>5. Armed(t).status = "resolved" /\ Armed(t).verify = "failed" => i \in excused'
    BY <2>1, <2>2, <2>4
  <2>6. QED
    BY <1>4, <2>3, <2>4, <2>5
<1>6. ASSUME NEW i \in DOMAIN tickets, Dispatched(i) PROVE FailedIsReopened'
  <2>1. Moved(tickets[i], "in_progress").status = "in_progress"
    BY <1>0, <1>00, MovedFacts DEF STATES, ACTIVE_STATES
  <2>2. excused' = excused
    BY <1>6 DEF Dispatched
  <2>3. QED
    BY <1>1, <1>4, <1>6, <2>1, <2>2 DEF Dispatched
<1>7. ASSUME NEW i \in DOMAIN tickets, Retriage(i) PROVE FailedIsReopened'
  <2> DEFINE t == [tickets[i] EXCEPT !.check = ~tickets[i].check]
  <2>1. tickets' = [tickets EXCEPT ![i] = t] /\ excused' = excused
    BY <1>0, <1>7 DEF Retriage
  <2>2. t.status = tickets[i].status /\ t.verify = tickets[i].verify
    BY <1>00 DEF Ticket
  <2>3. QED
    BY <1>4, <2>1, <2>2 DEF FailedIsReopened
<1>8. ASSUME NEW i \in DOMAIN tickets, Verify(i) PROVE FailedIsReopened'
  <2> DEFINE t == tickets[i]
             fails == Verdict(t) = "failed" /\ t.status = "resolved"
             u == IF fails /\ IndexAllows(i) THEN Moved(t, "open") ELSE t
             v == [u EXCEPT !.verify = Verdict(t)]
  <2>1. tickets' = [tickets EXCEPT ![i] = v]
    BY <1>8 DEF Verify
  <2>2. excused' = IF fails /\ ~IndexAllows(i) THEN excused \cup {i} ELSE excused
    BY <1>8 DEF Verify
  <2>3. t \in Ticket /\ u \in Ticket /\ (fails /\ IndexAllows(i) => u.status = "open")
    BY <1>0, <1>00, MovedFacts DEF STATES, ACTIVE_STATES
  <2>4. v.status = u.status /\ v.verify = Verdict(t)
    BY <2>3 DEF Ticket
  <2>5. v.status = "resolved" /\ v.verify = "failed" => i \in excused'
    BY <2>2, <2>3, <2>4
  <2>6. QED
    BY <1>4, <2>1, <2>2, <2>5
<1>9. ASSUME NEW p \in Probe, Heartbeat(p) PROVE FailedIsReopened'
  <2>1. /\ DOMAIN tickets' = DOMAIN tickets
        /\ \A i \in DOMAIN tickets : tickets'[i] =
             IF down[p] /\ i \in Newest(p) THEN Moved(tickets[i], "resolved") ELSE tickets[i]
    BY <1>0, <1>9, HeartbeatShape
  <2>2. excused' = excused \cup (IF down[p] THEN Newest(p) ELSE {})
    BY <1>9 DEF Heartbeat
  <2>3. QED
    BY <2>1, <2>2 DEF FailedIsReopened
<1>10. CASE NextIncidents
  <2>1. ASSUME NEW c \in Device, NEW p \in Priority, Alarm(c, p) PROVE FailedIsReopened'
    BY <1>1, <1>3, <2>1 DEF Alarm, Duplicate, Accept, Cause
  <2>2. ASSUME NEW c \in Cause, FromAlert(c) PROVE FailedIsReopened'
    BY <1>2, <2>2 DEF FromAlert
  <2>3. ASSUME NEW c \in Device, Sample(c) PROVE FailedIsReopened'
    BY <1>1, <2>3 DEF Sample
  <2>4. ASSUME NEW i \in DOMAIN tickets, Dispatch(i) PROVE FailedIsReopened'
    BY <1>1, <2>4 DEF Dispatch
  <2>5. CASE Tick
    BY <1>1, <2>5 DEF Tick
  <2>6. QED
    BY <1>5, <1>6, <1>7, <1>8, <1>10, <2>1, <2>2, <2>3, <2>4, <2>5 DEF NextIncidents
<1>11. ASSUME NEW p \in Probe, Sweep(p) PROVE FailedIsReopened'
  BY <1>1, <1>3, <1>11 DEF Sweep, Cause
<1>12. CASE UNCHANGED vars
  BY <1>1, <1>12 DEF vars, incidentVars
<1>13. QED
  BY <1>9, <1>10, <1>11, <1>12 DEF Next, ByOthers

(* An incident does not rest on a failed verification (incidents.routes.js  *)
(* 404-408), but where a resolution armed none or the reopening was refused.*)
THEOREM FailedReopens == Spec => []FailedIsReopened
<1>1. Init => Typed /\ FailedIsReopened
  BY TypeInit DEF Init, InitIncidents, FailedIsReopened
<1>2. (Typed /\ FailedIsReopened) /\ [Next]_vars => (Typed /\ FailedIsReopened)'
  BY TypeStep, FailedStep
<1>3. QED
  BY <1>1, <1>2, PTL DEF Spec

-----------------------------------------------------------------------------
(* One incident of a cause at a time.                                       *)
LEMMA AdditionFacts ==
  ASSUME IncidentTypeOK, NEW c \in Cause, NEW byHand \in BOOLEAN, Addition(c, byHand)
  PROVE  /\ DOMAIN tickets' = 1 .. Len(tickets) + 1
         /\ tickets'[Len(tickets) + 1] = NewTicket(c, byHand)
         /\ \A i \in DOMAIN tickets : tickets'[i] = tickets[i]
BY TicketFacts, NewIsTicket DEF Addition

LEMMA LongerFacts ==
  ASSUME IncidentTypeOK, NEW t \in Ticket, tickets' = Append(tickets, t)
  PROVE  /\ DOMAIN tickets' = 1 .. Len(tickets) + 1
         /\ tickets'[Len(tickets) + 1] = t
         /\ \A i \in DOMAIN tickets : tickets'[i] = tickets[i]
BY TicketFacts

LEMMA Filed ==
  ASSUME NEW c \in Cause, Addition(c, FALSE)
  PROVE  \E t \in Ticket : tickets' = Append(tickets, t) /\ t.cause = c /\ ~t.byHand /\ t.status \in ACTIVE_STATES
<1> DEFINE t == NewTicket(c, FALSE)
<1>1. t \in Ticket /\ t.cause = c /\ ~t.byHand /\ t.status \in ACTIVE_STATES
  BY DEF NewTicket, Ticket, STATES, ACTIVE_STATES, VerifyState
<1>2. tickets' = Append(tickets, t)
  BY DEF Addition
<1> HIDE DEF t
<1>3. QED
  BY <1>1, <1>2

LEMMA MadeByHand ==
  ASSUME NEW c \in Cause, Addition(c, TRUE)
  PROVE  \E t \in Ticket : tickets' = Append(tickets, t) /\ t.byHand
<1> DEFINE t == NewTicket(c, TRUE)
<1>1. t \in Ticket /\ t.byHand
  BY DEF NewTicket, Ticket, STATES, ACTIVE_STATES, VerifyState
<1>2. tickets' = Append(tickets, t)
  BY DEF Addition
<1> HIDE DEF t
<1>3. QED
  BY <1>1, <1>2

LEMMA EditFacts ==
  ASSUME IncidentTypeOK, NEW i \in DOMAIN tickets, NEW t \in Ticket, Edit(i, t)
  PROVE  /\ DOMAIN tickets' = DOMAIN tickets
         /\ tickets'[i] = t
         /\ \A j \in DOMAIN tickets : j # i => tickets'[j] = tickets[j]
BY TicketFacts DEF Edit

LEMMA ShapeOne ==
  ASSUME IncidentTypeOK, OneActivePerCause, Shape
  PROVE  OneActivePerCause'
<1>0. DOMAIN tickets = 1 .. Len(tickets) /\ Len(tickets) \in Nat
  BY TicketFacts
<1>1. CASE UNCHANGED tickets
  BY <1>1 DEF OneActivePerCause, Active
<1>2. ASSUME NEW c \in Cause, NEW byHand \in BOOLEAN, Addition(c, byHand)
      PROVE  OneActivePerCause'
  <2> DEFINE n == Len(tickets) + 1
  <2>1. ASSUME NEW d \in Cause
        PROVE  Active(d)' \subseteq IF d = c /\ ~byHand THEN {n} ELSE Active(d)
    <3>1. NewTicket(c, byHand).cause = c /\ NewTicket(c, byHand).byHand = byHand
      BY DEF NewTicket
    <3>2. Active(d)' \subseteq Active(d) \cup (IF d = c /\ ~byHand THEN {n} ELSE {})
      BY <1>0, <1>2, <3>1, AdditionFacts DEF Active
    <3>3. d = c /\ ~byHand => Active(d) = {}
      BY <1>2 DEF Addition
    <3>4. QED
      BY <3>2, <3>3
  <2>2. QED
    BY <2>1 DEF OneActivePerCause
<1>3. ASSUME NEW i \in DOMAIN tickets, NEW t \in Ticket, Edit(i, t)
      PROVE  OneActivePerCause'
  <2>1. t.cause = tickets[i].cause /\ t.byHand = tickets[i].byHand
    BY <1>3 DEF Edit
  <2>2. ASSUME NEW d \in Cause
        PROVE  Active(d)' \subseteq Active(d) \cup {i} /\ (i \in Active(d)' => tickets[i].cause = d)
    BY <1>3, <2>1, EditFacts DEF Active
  <2>3. CASE tickets[i].status \in ACTIVE_STATES
    <3>1. \A d \in Cause : Active(d)' \subseteq Active(d)
      BY <1>3, <2>1, <2>3, EditFacts DEF Active
    <3>2. QED
      BY <3>1 DEF OneActivePerCause
  <2>4. CASE tickets[i].status \notin ACTIVE_STATES
    <3>1. ASSUME NEW d \in Cause, i \in Active(d)' PROVE Active(d) \subseteq {i}
      <4>1. t.status \in ACTIVE_STATES /\ ~t.byHand
        BY <1>3, <3>1, EditFacts DEF Active
      <4>2. IndexAllows(i)
        BY <1>3, <2>4, <4>1 DEF Edit
      <4>3. QED
        BY <2>1, <2>2, <3>1, <4>1, <4>2 DEF IndexAllows
    <3>2. QED
      BY <2>2, <3>1 DEF OneActivePerCause
  <2>5. QED
    BY <2>3, <2>4
<1>4. QED
  BY <1>1, <1>2, <1>3 DEF Shape

(* However alarms, people, verifications and recoveries interleave, a cause *)
(* has at most one active incident, besides those made by hand              *)
(* (fms-incident.js 98-100, the unique index of migration 005).             *)
THEOREM OneAtATime == Spec => []OneActivePerCause
<1>1. Init => Typed /\ OneActivePerCause
  BY TypeInit DEF Init, InitIncidents, OneActivePerCause, Active
<1>2. (Typed /\ OneActivePerCause) /\ [Next]_vars => (Typed /\ OneActivePerCause)'
  BY TypeStep, StepShape, ShapeOne DEF Typed
<1>3. QED
  BY <1>1, <1>2, PTL DEF Spec

-----------------------------------------------------------------------------
(* Outages.                                                                 *)
NoneByHand == \A i \in DOMAIN tickets : ~tickets[i].byHand

Outage(p) ==
  /\ tells[p] = IF down[p] THEN 1 ELSE 0
  /\ p \notin touched /\ down[p] => Active(p) # {}
  /\ p \notin touched /\ ~down[p] /\ NoneByHand => Active(p) = {}

OutageInv == Typed /\ OneActivePerCause /\ \A p \in Probe : Outage(p)

(* Tickets keep their cause and their maker.                                *)
LEMMA TicketsKept ==
  ASSUME IncidentTypeOK, Shape, NEW i \in DOMAIN tickets
  PROVE  /\ i \in DOMAIN tickets'
         /\ tickets'[i].cause = tickets[i].cause /\ tickets'[i].byHand = tickets[i].byHand
<1>0. DOMAIN tickets = 1 .. Len(tickets) /\ Len(tickets) \in Nat
  BY TicketFacts
<1>1. ASSUME NEW c \in Cause, NEW byHand \in BOOLEAN, Addition(c, byHand)
      PROVE  i \in DOMAIN tickets' /\ tickets'[i] = tickets[i]
  BY <1>0, <1>1, AdditionFacts
<1>2. ASSUME NEW j \in DOMAIN tickets, NEW t \in Ticket, Edit(j, t)
      PROVE  /\ i \in DOMAIN tickets'
             /\ tickets'[i].cause = tickets[i].cause /\ tickets'[i].byHand = tickets[i].byHand
  BY <1>2, EditFacts DEF Edit
<1>3. QED
  BY <1>1, <1>2 DEF Shape

(* Only a sweep makes a ticket of a probe, but for people.                  *)
LEMMA OthersMakeNone ==
  ASSUME IncidentTypeOK, NextIncidents, NEW i \in DOMAIN tickets' \ DOMAIN tickets
  PROVE  tickets'[i].byHand \/ tickets'[i].cause \notin Probe
<1>0. DOMAIN tickets = 1 .. Len(tickets) /\ Len(tickets) \in Nat /\ tickets \in Seq(Ticket)
  BY TicketFacts
<1>1. DOMAIN tickets' # DOMAIN tickets
  OBVIOUS
<1>2. ASSUME NEW c \in Device, NEW p \in Priority, Alarm(c, p)
      PROVE  tickets'[i].cause \notin Probe
  <2>1. c \in Cause /\ c \notin Probe
    BY IncidentsAssumption DEF Cause, IncidentsAssumption
  <2>2. UNCHANGED tickets \/ tickets' = Ensured(c)
    BY <1>2 DEF Alarm, Duplicate, Accept, ticketVars
  <2>3. Addition(c, FALSE)
    BY <1>1, <2>2 DEF Ensured, Addition
  <2>4. PICK t \in Ticket : tickets' = Append(tickets, t) /\ t.cause = c
    BY <2>1, <2>3, Filed
  <2>5. i = Len(tickets) + 1 /\ tickets'[i] = t
    BY <1>0, <2>4, LongerFacts
  <2>6. QED
    BY <2>1, <2>4, <2>5
<1>3. ASSUME NEW c \in Cause, FromAlert(c) PROVE tickets'[i].byHand
  <2>1. Addition(c, TRUE)
    BY <1>3 DEF FromAlert, Addition
  <2>2. PICK t \in Ticket : tickets' = Append(tickets, t) /\ t.byHand
    BY <1>3, <2>1, MadeByHand
  <2>3. i = Len(tickets) + 1 /\ tickets'[i] = t
    BY <1>0, <2>2, LongerFacts
  <2>4. QED
    BY <2>2, <2>3
<1>4. ASSUME NEW j \in DOMAIN tickets,
             (\E to \in STATES : PostState(j, to)) \/ Dispatch(j) \/ Dispatched(j) \/ Retriage(j) \/ Verify(j)
      PROVE  FALSE
  <2>1. \E t : tickets' = tickets \/ tickets' = [tickets EXCEPT ![j] = t]
    BY <1>4 DEF PostState, Dispatch, Dispatched, Retriage, Verify, ticketVars
  <2>2. QED
    BY <1>0, <1>1, <2>1
<1>5. ASSUME NEW c \in Device, Sample(c) \/ Tick PROVE FALSE
  BY <1>1, <1>5 DEF Sample, Tick, ticketVars
<1>6. QED
  BY <1>2, <1>3, <1>4, <1>5 DEF NextIncidents, Tick, ticketVars

LEMMA OthersKeepOutages ==
  ASSUME OutageInv, ByOthers, NEW p \in Probe
  PROVE  Outage(p)'
<1>0. IncidentTypeOK /\ Shape /\ Outage(p)
  BY IncidentShape DEF OutageInv, Typed, ByOthers
<1>1. UNCHANGED <<down, tells>> /\ touched \subseteq touched'
  BY DEF ByOthers
<1>2. CASE p \in touched'
  BY <1>0, <1>1, <1>2 DEF Outage
<1>3. CASE p \notin touched'
  <2>1. \A i \in DOMAIN tickets : tickets[i].cause = p => tickets'[i].status = tickets[i].status
    BY <1>3 DEF ByOthers
  <2>2. Active(p)' = Active(p)
    <3>1. ASSUME NEW i \in DOMAIN tickets PROVE i \in Active(p)' <=> i \in Active(p)
      BY <1>0, <2>1, TicketsKept DEF Active
    <3>2. ASSUME NEW i \in Active(p)' PROVE i \in DOMAIN tickets
      BY <1>0, OthersMakeNone DEF Active, ByOthers
    <3>3. QED
      BY <3>1, <3>2 DEF Active
  <2>3. NoneByHand' => NoneByHand
    BY <1>0, TicketsKept DEF NoneByHand
  <2>4. QED
    BY <1>0, <1>1, <2>2, <2>3 DEF Outage
<1>4. QED
  BY <1>2, <1>3

(* Another probe's outage leaves this one alone.                            *)
LEMMA OtherProbeKeeps ==
  ASSUME OutageInv, NEW p \in Probe, NEW q \in Probe, q # p, Shape,
         UNCHANGED <<down[q], tells[q]>>, q \in touched => q \in touched',
         \A i \in DOMAIN tickets : tickets[i].cause = q => tickets'[i] = tickets[i],
         \A i \in DOMAIN tickets' \ DOMAIN tickets : tickets'[i].cause # q
  PROVE  Outage(q)'
<1>0. IncidentTypeOK /\ Outage(q)
  BY DEF OutageInv, Typed
<1>1. Active(q)' = Active(q)
  <2>1. ASSUME NEW i \in DOMAIN tickets PROVE i \in Active(q)' <=> i \in Active(q)
    BY <1>0, TicketsKept DEF Active
  <2>2. QED
    BY <2>1 DEF Active
<1>2. NoneByHand' => NoneByHand
  BY <1>0, TicketsKept DEF NoneByHand
<1>3. QED
  BY <1>0, <1>1, <1>2 DEF Outage

LEMMA SweepKeepsOutages ==
  ASSUME OutageInv, NEW p \in Probe, Sweep(p), NEW q \in Probe
  PROVE  Outage(q)'
<1>0. IncidentTypeOK /\ ProbeTypeOK /\ Outage(p) /\ p \in Cause
  BY DEF OutageInv, Typed, Cause
<1>00. DOMAIN tickets = 1 .. Len(tickets) /\ Len(tickets) \in Nat
  BY <1>0, TicketFacts
<1>1. UNCHANGED tickets \/ Addition(p, FALSE)
  BY DEF Sweep, Ensured, Addition
<1>2. Shape
  BY <1>0, <1>1 DEF Shape
<1>3. CASE q = p
  <2>1. down'[p] = TRUE /\ ~down[p]
    BY <1>0, Zenon DEF Sweep, ProbeTypeOK
  <2>2. tells[p] = 0
    BY <1>0, <2>1 DEF Outage
  <2>3. tells'[p] = 1
    BY <1>0, <2>2 DEF Sweep, ProbeTypeOK
  <2>4. p \notin touched' => Active(p)' # {}
    <3>1. CASE Active(p) # {} /\ tickets' = tickets
      BY <3>1 DEF Active
    <3>2. CASE Addition(p, FALSE)
      <4>1. PICK t \in Ticket : /\ tickets' = Append(tickets, t)
                                /\ t.cause = p /\ ~t.byHand /\ t.status \in ACTIVE_STATES
        BY <1>0, <3>2, Filed
      <4>2. Len(tickets) + 1 \in DOMAIN tickets' /\ tickets'[Len(tickets) + 1] = t
        BY <1>0, <1>00, <4>1, LongerFacts
      <4>3. QED
        BY <4>1, <4>2 DEF Active
    <3>3. CASE p \in touched'
      BY <3>3
    <3>4. QED
      BY <3>1, <3>2, <3>3 DEF Sweep, Ensured, Addition
  <2>5. QED
    BY <1>3, <2>1, <2>3, <2>4 DEF Outage
<1>4. CASE q # p
  <2>1. down'[q] = down[q]
    BY <1>0, <1>4, Zenon DEF Sweep, ProbeTypeOK
  <2>2. tells'[q] = tells[q] /\ (q \in touched => q \in touched')
    BY <1>0, <1>4 DEF Sweep, ProbeTypeOK
  <2>3. /\ \A i \in DOMAIN tickets : tickets'[i] = tickets[i]
        /\ \A i \in DOMAIN tickets' \ DOMAIN tickets : tickets'[i].cause = p
    <3>1. CASE UNCHANGED tickets
      BY <3>1
    <3>2. CASE Addition(p, FALSE)
      <4>1. PICK t \in Ticket : tickets' = Append(tickets, t) /\ t.cause = p
        BY <1>0, <3>2, Filed
      <4>2. /\ DOMAIN tickets' = 1 .. Len(tickets) + 1
            /\ tickets'[Len(tickets) + 1] = t
            /\ \A i \in DOMAIN tickets : tickets'[i] = tickets[i]
        BY <1>0, <4>1, LongerFacts
      <4>3. QED
        BY <1>00, <4>1, <4>2
    <3>3. QED
      BY <1>1, <3>1, <3>2
  <2>4. QED
    BY <1>2, <1>4, <2>1, <2>2, <2>3, OtherProbeKeeps
<1>5. QED
  BY <1>3, <1>4

LEMMA HeartbeatKeepsOutages ==
  ASSUME OutageInv, NEW p \in Probe, Heartbeat(p), NEW q \in Probe
  PROVE  Outage(q)'
<1>0. IncidentTypeOK /\ ProbeTypeOK /\ Outage(p) /\ OneActivePerCause /\ p \in Cause
  BY DEF OutageInv, Typed, Cause
<1>1. /\ Shape /\ DOMAIN tickets' = DOMAIN tickets
      /\ \A i \in DOMAIN tickets : tickets'[i] =
           IF down[p] /\ i \in Newest(p) THEN Moved(tickets[i], "resolved") ELSE tickets[i]
  BY <1>0, HeartbeatShape
<1>2. \A i \in Newest(p) : tickets[i].cause = p
  BY <1>0, NewestIsOne
<1>3. CASE q = p
  <2>1. down'[p] = FALSE
    BY <1>0, Zenon DEF Heartbeat, FlagCleared, ProbeTypeOK
  <2>2. tells'[p] = 0
    BY <1>0 DEF Heartbeat, ProbeTypeOK
  <2>3. ASSUME p \notin touched', NoneByHand' PROVE Active(p)' = {}
    <3>1. NoneByHand
      BY <1>0, <1>1, <2>3, TicketsKept DEF NoneByHand
    <3>2. CASE down[p]
      <4>1. Active(p) \subseteq Newest(p)
        <5>1. \A i \in DOMAIN tickets : i \in Int
          BY <1>0, TicketFacts
        <5>2. \A i, j \in DOMAIN tickets :
                i \in Active(p) /\ tickets[j].cause = p /\ tickets[j].status \in ACTIVE_STATES => j = i
          BY <1>0, <3>1 DEF Active, NoneByHand, OneActivePerCause
        <5>3. QED
          BY <5>1, <5>2 DEF Active, Newest
      <4>2. \A i \in Newest(p) : tickets'[i].status = "resolved"
        <5>1. \A i \in Newest(p) : i \in DOMAIN tickets /\ tickets[i] \in Ticket /\ "resolved" \in STATES
          BY <1>0, NewestIsOne, TicketFacts DEF STATES
        <5>2. QED
          BY <1>0, <1>1, <3>2, <5>1, MovedFacts
      <4>3. ASSUME NEW i \in Active(p)' PROVE FALSE
        <5>1. i \in DOMAIN tickets /\ i \notin Newest(p)
          BY <1>1, <4>2, <4>3 DEF Active, ACTIVE_STATES
        <5>2. tickets'[i] = tickets[i]
          BY <1>1, <5>1
        <5>3. QED
          BY <4>1, <4>3, <5>1, <5>2 DEF Active
      <4>4. QED
        BY <4>3
    <3>3. CASE ~down[p]
      <4>1. p \notin touched
        BY <2>3, <3>3 DEF Heartbeat
      <4>2. Active(p) = {}
        BY <1>0, <3>1, <3>3, <4>1 DEF Outage
      <4>3. QED
        BY <1>1, <3>3, <4>2 DEF Active
    <3>4. QED
      BY <3>2, <3>3
  <2>4. QED
    BY <1>3, <2>1, <2>2, <2>3 DEF Outage
<1>4. CASE q # p
  <2>1. down'[q] = down[q]
    BY <1>0, <1>4, Zenon DEF Heartbeat, FlagCleared, ProbeTypeOK
  <2>2. tells'[q] = tells[q] /\ (q \in touched => q \in touched')
    BY <1>0, <1>4 DEF Heartbeat, ProbeTypeOK
  <2>3. \A i \in DOMAIN tickets : tickets[i].cause = q => tickets'[i] = tickets[i]
    BY <1>1, <1>2, <1>4
  <2>4. QED
    BY <1>1, <1>4, <2>1, <2>2, <2>3, OtherProbeKeeps
<1>5. QED
  BY <1>3, <1>4

(* An outage is told once, has an incident while it lasts and none when it  *)
(* is over, but for what people and verifications did to it and for an      *)
(* incident that could not be written (fms-probe-health.js 72-99, 149).     *)
THEOREM OutagesFollowed == Spec => []OutageFollowed
<1>1. Init => OutageInv
  <2> SUFFICES ASSUME Init PROVE OutageInv
    OBVIOUS
  <2>1. tickets = <<>> /\ DOMAIN tickets = {}
    BY DEF Init, InitIncidents
  <2>2. \A c : Active(c) = {}
    BY <2>1 DEF Active
  <2>3. \A p \in Probe : Outage(p)
    BY <2>2 DEF Init, Outage
  <2>4. QED
    BY <2>2, <2>3, TypeInit DEF OutageInv, OneActivePerCause
<1>2. OutageInv /\ [Next]_vars => OutageInv'
  <2> SUFFICES ASSUME OutageInv, [Next]_vars PROVE OutageInv'
    OBVIOUS
  <2>1. Typed' /\ OneActivePerCause'
    BY TypeStep, StepShape, ShapeOne DEF OutageInv, Typed
  <2>2. ASSUME NEW q \in Probe, UNCHANGED vars PROVE Outage(q)'
    BY <2>2 DEF vars, incidentVars, ticketVars, probeVars, OutageInv, Outage, Active, NoneByHand
  <2>3. \A q \in Probe : Outage(q)'
    BY <2>2, OthersKeepOutages, SweepKeepsOutages, HeartbeatKeepsOutages DEF Next
  <2>4. QED
    BY <2>1, <2>3 DEF OutageInv
<1>3. OutageInv => OutageFollowed
  BY DEF OutageInv, Outage, OutageFollowed, NoneByHand
<1>4. QED
  BY <1>1, <1>2, <1>3, PTL DEF Spec
=============================================================================
