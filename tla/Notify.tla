------------------------------- MODULE Notify -------------------------------
(***************************************************************************)
(* apps/console/src/notify.js and its policy, local-notify.js, under the   *)
(* route that runs them (server.js 319-333): after the ledger has committed*)
(* an event, the request it came in tells people and ServiceNow about it   *)
(* and records what was delivered.                                         *)
(*                                                                         *)
(* The ledger is seen through what it promises (MergedFeed): of one FMS    *)
(* alarm it commits a raise, then updates, then a clear.  A request carries*)
(* one event; a body of several behaves as that many requests that begin   *)
(* in order or end together.  The reads before the channels are called are *)
(* one step, then a step ends where the code awaits ServiceNow or a write. *)
(* An event sent again is a duplicate to the ledger (Ingest) and is not    *)
(* passed on.  E-mail and Teams are one channel, "mail", of no effect here.*)
(***************************************************************************)
EXTENDS Naturals, Sequences, FiniteSets

CONSTANTS
  Alarm,      \* FMS alarm_ids
  MaxEvents,  \* bound: events committed about an alarm
  MaxFaults   \* bound: calls that fail, requests that die, channels switched off

ASSUME NotifyAssumption == MaxEvents \in [Alarm -> Nat] /\ MaxFaults \in Nat

VARIABLES
  log,        \* alarm -> kinds of its events in the order of their commits
  requests,   \* event in flight -> how far its request is
  itsmMap,    \* table itsm_map: alarm -> its ticket, 0 for no row
  tickets,    \* ServiceNow: [event, state] of each incident ever opened
  wire,       \* calls on their way to ServiceNow
  notified,   \* event -> local_notified.itsm as recorded with the event
  channels,   \* those that are configured and switched on
  passedBy,   \* history: events that were handled with ServiceNow off
  failed,     \* history: events of which the call or the request failed
  crossed,    \* history: events committed while another of the alarm was in flight
  faults

tableVars == <<itsmMap, notified>>
outsideVars == <<tickets, wire>>
historyVars == <<failed, crossed, faults>>
vars == <<log, requests, tableVars, outsideVars, channels, passedBy, historyVars>>

Channel == {"mail", "itsm"}

Kind == {"raise", "update", "late_raise", "clear"}
Event == UNION {{a} \X (1 .. MaxEvents[a]) : a \in Alarm}
KindOf(e) == log[e[1]][e[2]]

Request == [step : {"begin", "calling", "answered", "flushed"}, rec : Nat, ticket : Nat]
Call == [op : {"create", "update", "resolve"}, event : Event, ticket : Nat]

Known(e) == e[2] <= Len(log[e[1]])
InFlight(a) == {e \in DOMAIN requests : e[1] = a}
Newest(a) == <<a, Len(log[a])>>
TicketsOf(a) == {i \in DOMAIN tickets : tickets[i].event[1] = a}

At(e, step) == e \in DOMAIN requests /\ requests[e].step = step
Goes(e, step, ticket) == requests' = [requests EXCEPT ![e].step = step, ![e].ticket = ticket]
Ends(e) == requests' = [f \in DOMAIN requests \ {e} |-> requests[f]]
Begins(e) ==
  requests' = [f \in DOMAIN requests \cup {e} |->
                 IF f = e THEN [step |-> "begin", rec |-> 0, ticket |-> 0] ELSE requests[f]]

-----------------------------------------------------------------------------
(* The ledger commits an event, and its request goes on to the notifier.    *)
Follows(kind, past) ==
  IF past = <<>> THEN kind = "raise"
  ELSE past[Len(past)] # "clear" /\ kind # "raise"

Commit(a, kind) ==
  LET e == <<a, Len(log[a]) + 1>> IN
  /\ Len(log[a]) < MaxEvents[a]
  /\ Follows(kind, log[a])
  /\ log' = [log EXCEPT ![a] = Append(@, kind)]
  /\ Begins(e)
  /\ crossed' = IF InFlight(a) # {} THEN crossed \cup {e} ELSE crossed
  /\ UNCHANGED <<tableVars, outsideVars, channels, passedBy, failed, faults>>

-----------------------------------------------------------------------------
(* forEvents() and handle().                                                *)

(* The call an event makes: a suppressed one none but the resolution.       *)
(* Mutant: a raise does not look at the ticket the row has.                 *)
OpOfUnread(kind, suppressed, ticket) ==
  CASE kind \in {"raise", "late_raise"} /\ ~suppressed -> {"create"}
    [] kind = "update" /\ ticket # 0 /\ ~suppressed -> {"update"}
    [] kind = "clear" /\ ticket # 0 -> {"resolve"}
    [] OTHER -> {}

(* Mutant: an event in a maintenance window calls nobody.                   *)
OpOfQuiet(kind, suppressed, ticket) ==
  CASE suppressed -> {}
    [] kind \in {"raise", "late_raise"} /\ ticket = 0 -> {"create"}
    [] kind = "update" /\ ticket # 0 -> {"update"}
    [] kind = "clear" /\ ticket # 0 -> {"resolve"}
    [] OTHER -> {}

OpOf(kind, suppressed, ticket) ==
  CASE kind \in {"raise", "late_raise"} /\ ticket = 0 /\ ~suppressed -> {"create"}
    [] kind = "update" /\ ticket # 0 /\ ~suppressed -> {"update"}
    [] kind = "clear" /\ ticket # 0 -> {"resolve"}
    [] OTHER -> {}

(* The channels and the row are read and the event is handed to its        *)
(* channels.  With ServiceNow off no ticket is touched, not even to resolve *)
(* it.  Whether the event is suppressed depends on windows, its age and its *)
(* severity.                                                                *)
Load(e) ==
  LET ticket == itsmMap[e[1]]
      itsm == "itsm" \in channels
  IN
  /\ channels # {}
  /\ At(e, "begin")
  /\ \E suppressed \in BOOLEAN :
       LET ops == IF itsm THEN OpOf(KindOf(e), suppressed, ticket) ELSE {} IN
       /\ wire' = wire \cup {[op |-> o, event |-> e, ticket |-> ticket] : o \in ops}
       /\ requests' = [requests EXCEPT ![e] =
            IF ops # {} THEN [step |-> "calling", rec |-> ticket, ticket |-> ticket]
            ELSE [step |-> "flushed", rec |-> ticket,
                  ticket |-> IF itsm /\ ~suppressed THEN ticket ELSE 0]]
  /\ passedBy' = IF itsm THEN passedBy ELSE passedBy \cup {e}
  /\ UNCHANGED <<log, tableVars, tickets, channels, historyVars>>

(* No channel is on: the events of the body are not handled.                *)
Unhandled(e) ==
  /\ channels = {}
  /\ At(e, "begin")
  /\ Ends(e)
  /\ passedBy' = passedBy \cup {e}
  /\ UNCHANGED <<log, tableVars, outsideVars, channels, historyVars>>

(* ServiceNow does what a call asks, while its request waits or after.      *)
Serve(c) ==
  LET ticket == IF c.op = "create" THEN Len(tickets) + 1 ELSE c.ticket IN
  /\ c \in wire
  /\ wire' = wire \ {c}
  /\ tickets' = CASE c.op = "create" -> Append(tickets, [event |-> c.event, state |-> "open"])
                  [] c.op = "update" -> tickets
                  [] c.op = "resolve" -> [tickets EXCEPT ![ticket].state = "resolved"]
  /\ IF At(c.event, "calling") THEN Goes(c.event, "answered", ticket) ELSE UNCHANGED requests
  /\ UNCHANGED <<log, tableVars, channels, passedBy, historyVars>>

(* The call fails or times out: it is logged, nothing is stored, nothing is *)
(* tried again.  What was sent may still be served.  An update or a         *)
(* resolution still reports the number it had.                              *)
(* Mutant: what failed is sent again.                                       *)
CallFailsRetried(e) ==
  /\ faults < MaxFaults
  /\ At(e, "calling") \/ At(e, "answered")
  /\ Goes(e, "calling", requests[e].rec)
  /\ wire' = wire \cup {[op |-> o, event |-> e, ticket |-> requests[e].rec] :
                         o \in OpOf(KindOf(e), FALSE, requests[e].rec)}
  /\ failed' = failed \cup {e}
  /\ faults' = faults + 1
  /\ UNCHANGED <<log, tableVars, tickets, channels, passedBy, crossed>>

CallFails(e) ==
  /\ faults < MaxFaults
  /\ At(e, "calling") \/ At(e, "answered")
  /\ Goes(e, "flushed", requests[e].rec)
  /\ failed' = failed \cup {e}
  /\ faults' = faults + 1
  /\ UNCHANGED <<log, tableVars, outsideVars, channels, passedBy, crossed>>

(* set() or patch(), and flush(): the row is written as this request has it.*)
(* Mutant: the row takes whichever ticket was opened last.                  *)
FlushLatest(e) ==
  /\ At(e, "answered")
  /\ itsmMap' = [itsmMap EXCEPT ![e[1]] = Len(tickets)]
  /\ Goes(e, "flushed", requests[e].ticket)
  /\ UNCHANGED <<log, notified, outsideVars, channels, passedBy, historyVars>>

Flush(e) ==
  /\ At(e, "answered")
  /\ itsmMap' = [itsmMap EXCEPT ![e[1]] = requests[e].ticket]
  /\ Goes(e, "flushed", requests[e].ticket)
  /\ UNCHANGED <<log, notified, outsideVars, channels, passedBy, historyVars>>

(* recordNotified(): what was delivered is written with the event.          *)
RecordNotified(e) ==
  /\ At(e, "flushed")
  /\ notified' = [notified EXCEPT ![e] = requests[e].ticket]
  /\ Ends(e)
  /\ UNCHANGED <<log, itsmMap, outsideVars, channels, passedBy, historyVars>>

(* The process goes down, or the database does not answer and the route     *)
(* ends with an error.  The event is in the ledger: sent again it is a      *)
(* duplicate.                                                               *)
Dies(e) ==
  /\ faults < MaxFaults
  /\ e \in DOMAIN requests
  /\ Ends(e)
  /\ failed' = failed \cup {e}
  /\ faults' = faults + 1
  /\ UNCHANGED <<log, tableVars, outsideVars, channels, passedBy, crossed>>

(* An administrator changes the channels; it counts from the next request.  *)
Switch ==
  /\ \E on \in SUBSET Channel :
       /\ on # channels
       /\ channels' = on
       /\ faults' = IF channels \subseteq on THEN faults ELSE faults + 1
  /\ faults' <= MaxFaults
  /\ UNCHANGED <<log, requests, tableVars, outsideVars, passedBy, failed, crossed>>

-----------------------------------------------------------------------------
Init ==
  /\ log = [a \in Alarm |-> <<>>]
  /\ requests = [e \in {} |-> e]
  /\ itsmMap = [a \in Alarm |-> 0]
  /\ tickets = <<>>
  /\ wire = {}
  /\ notified = [e \in Event |-> 0]
  /\ channels = Channel
  /\ passedBy = {}
  /\ failed = {}
  /\ crossed = {}
  /\ faults = 0

RequestStep(e) == Load(e) \/ Unhandled(e) \/ Flush(e) \/ RecordNotified(e)

Next ==
  \/ \E a \in Alarm, kind \in Kind : Commit(a, kind)
  \/ \E e \in Event : RequestStep(e) \/ CallFails(e) \/ Dies(e)
  \/ \E c \in wire : Serve(c)
  \/ Switch

Spec == Init /\ [][Next]_vars

(* Every await of a request ends, for the channels' calls and the queries   *)
(* have timeouts; a call that does not fail is served.                      *)
Fairness ==
  /\ \A e \in Event : WF_vars(RequestStep(e))
  /\ \A e \in Event : WF_vars(\E c \in wire : c.event = e /\ Serve(c))

FairSpec == Spec /\ Fairness

-----------------------------------------------------------------------------
TypeOK ==
  /\ log \in [Alarm -> Seq(Kind)]
  /\ DOMAIN requests \subseteq Event
  /\ \A e \in DOMAIN requests : requests[e] \in Request /\ Known(e)
  /\ itsmMap \in [Alarm -> 0 .. Len(tickets)]
  /\ tickets \in Seq([event : Event, state : {"open", "resolved"}])
  /\ wire \subseteq Call
  /\ notified \in [Event -> 0 .. Len(tickets)]
  /\ channels \subseteq Channel
  /\ passedBy \subseteq Event
  /\ failed \subseteq Event
  /\ crossed \subseteq Event
  /\ faults \in 0 .. MaxFaults

(* No request about the alarm failed and no two were under way at once.     *)
Undisturbed(a) == \A e \in failed \cup crossed : e[1] # a

IsOver(a) == log[a] # <<>> /\ log[a][Len(log[a])] = "clear"
Resolved(a) == \A i \in TicketsOf(a) : tickets[i].state = "resolved"

(* One ticket per alarm (servicenow.js 5-6) and local-notify.js 15-16:      *)
(* "tickets do not outlive their alarms".  Both hold of an alarm whose      *)
(* requests came one after another and none failed: whatever was suppressed *)
(* or switched off, it has one ticket at most, open till the clear, and     *)
(* resolved once the request of the clear is over, unless that one found    *)
(* ServiceNow off.                                                          *)
TicketFollowsAlarm ==
  \A a \in Alarm : Undisturbed(a) =>
    /\ Cardinality(TicketsOf(a)) <= 1
    /\ IsOver(a) /\ InFlight(a) = {} /\ Newest(a) \notin passedBy => Resolved(a)
    /\ ~IsOver(a) => \A i \in TicketsOf(a) : tickets[i].state = "open"

(* local-notify.js 7-9: local_notified says what was delivered.  Through    *)
(* failures, late answers and requests that cross, the row of an alarm and  *)
(* what is recorded with its events name a ticket of that alarm.            *)
NotifiedIsTrue ==
  /\ \A a \in Alarm : itsmMap[a] # 0 => itsmMap[a] \in TicketsOf(a)
  /\ \A e \in Event : notified[e] # 0 => notified[e] \in TicketsOf(e[1])

(* servicenow.js 5-6 where requests do fail and cross: no event opens two   *)
(* tickets, however late ServiceNow does what it was asked, and of two      *)
(* tickets of one alarm the first one's request had failed, or the other's  *)
(* event was committed while a request of the alarm was under way.          *)
SecondTicketExplained ==
  \A i, j \in DOMAIN tickets :
    LET e == tickets[i].event
        f == tickets[j].event
    IN i # j /\ e[1] = f[1] =>
         /\ e # f
         /\ e[2] < f[2] => e \in failed \/ f \in crossed

(* A ticket is resolved in the end when its alarm is over, unless a request *)
(* of the alarm failed, or two crossed, or the clear found ServiceNow off.  *)
TicketEnds ==
  \A a \in Alarm :
    IsOver(a) ~> (~Undisturbed(a) \/ Newest(a) \in passedBy \/ Resolved(a))
=============================================================================
