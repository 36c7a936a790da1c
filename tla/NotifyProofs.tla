---------------------------- MODULE NotifyProofs ----------------------------
(***************************************************************************)
(* Proofs about Notify, for any alarms and bounds.                         *)
(*                                                                         *)
(* Why what is recorded is true: whatever a request, a call on its way or a*)
(* row remembers as a ticket is a ticket of the same alarm (Honest), and   *)
(* tickets are never taken away.  Why a second ticket has its reason: an   *)
(* event asks once, and when its request is over the row knows a ticket or *)
(* the request failed, so that a later event can ask only before that, and *)
(* then it crossed (Explained).  Why a ticket follows its alarm: while no  *)
(* request failed or crossed, the newest event alone is in flight and its  *)
(* call alone on its way, and the row, or the request that has the answer, *)
(* knows the one ticket there is (Calm).                                   *)
(***************************************************************************)
EXTENDS Notify, FiniteSetTheorems, TLAPS

USE DEF tableVars, outsideVars, historyVars

Ticket == [event : Event, state : {"open", "resolved"}]

(* What is remembered as a ticket of an alarm is one.                       *)
Honest ==
  /\ \A a \in Alarm : itsmMap[a] \in {0} \cup TicketsOf(a)
  /\ \A e \in Event : notified[e] \in {0} \cup TicketsOf(e[1])
  /\ \A e \in DOMAIN requests :
       requests[e].rec \in {0} \cup TicketsOf(e[1]) /\ requests[e].ticket \in {0} \cup TicketsOf(e[1])
  /\ \A c \in wire : c.op # "create" => c.ticket \in TicketsOf(c.event[1])

Typed == TypeOK /\ Honest

-----------------------------------------------------------------------------
(* Facts about events, logs and tickets.                                    *)
LEMMA EventFacts ==
  ASSUME NEW e \in Event
  PROVE  e[1] \in Alarm /\ e[2] \in 1 .. MaxEvents[e[1]] /\ e = <<e[1], e[2]>>
<1>1. PICK a \in Alarm : e \in {a} \X (1 .. MaxEvents[a])
  BY DEF Event
<1>2. QED
  BY <1>1

LEMMA EventOf ==
  ASSUME NEW a \in Alarm, NEW n \in 1 .. MaxEvents[a]
  PROVE  <<a, n>> \in Event
<1>1. <<a, n>> \in {a} \X (1 .. MaxEvents[a])
  OBVIOUS
<1>2. QED
  BY <1>1 DEF Event

LEMMA TicketFacts ==
  ASSUME TypeOK
  PROVE  /\ Len(tickets) \in Nat /\ DOMAIN tickets = 1 .. Len(tickets)
         /\ \A i \in DOMAIN tickets : tickets[i] \in Ticket
         /\ \A a \in Alarm : TicketsOf(a) \subseteq 1 .. Len(tickets)
<1>1. tickets \in Seq(Ticket)
  BY DEF TypeOK, Ticket
<1>2. QED
  BY <1>1 DEF TicketsOf

LEMMA LogFacts ==
  ASSUME TypeOK, NEW a \in Alarm
  PROVE  Len(log[a]) \in Nat /\ log[a] \in Seq(Kind) /\ MaxEvents[a] \in Nat
BY NotifyAssumption DEF TypeOK, NotifyAssumption

LEMMA CommitFacts ==
  ASSUME TypeOK, NEW a \in Alarm, NEW kind \in Kind, Commit(a, kind)
  PROVE  /\ log' \in [Alarm -> Seq(Kind)]
         /\ Len(log'[a]) = Len(log[a]) + 1 /\ log'[a][Len(log[a]) + 1] = kind
         /\ \A n \in 1 .. Len(log[a]) : log'[a][n] = log[a][n]
         /\ \A b \in Alarm : b # a => log'[b] = log[b]
         /\ <<a, Len(log[a]) + 1>> \in Event
         /\ \A e \in Event : Known(e)' <=> Known(e) \/ e = <<a, Len(log[a]) + 1>>
<1>1. Len(log[a]) \in Nat /\ log[a] \in Seq(Kind) /\ MaxEvents[a] \in Nat
  BY LogFacts
<1>2. log' = [log EXCEPT ![a] = Append(@, kind)] /\ log \in [Alarm -> Seq(Kind)]
  BY DEF Commit, TypeOK
<1>3. log'[a] = Append(log[a], kind)
  BY <1>2
<1>4. /\ log'[a] \in Seq(Kind) /\ Len(log'[a]) = Len(log[a]) + 1
      /\ log'[a][Len(log[a]) + 1] = kind
      /\ \A n \in 1 .. Len(log[a]) : log'[a][n] = log[a][n]
  BY <1>1, <1>3
<1>5. log' \in [Alarm -> Seq(Kind)] /\ \A b \in Alarm : b # a => log'[b] = log[b]
  BY <1>2, <1>3, <1>4
<1>6. <<a, Len(log[a]) + 1>> \in Event
  <2>1. Len(log[a]) < MaxEvents[a]
    BY DEF Commit
  <2>2. Len(log[a]) + 1 \in 1 .. MaxEvents[a]
    BY <1>1, <2>1
  <2>3. QED
    BY <2>2, EventOf
<1>7. ASSUME NEW e \in Event PROVE Known(e)' <=> Known(e) \/ e = <<a, Len(log[a]) + 1>>
  <2>1. e[1] \in Alarm /\ e[2] \in Nat /\ e = <<e[1], e[2]>>
    BY EventFacts, LogFacts
  <2>2. CASE e[1] = a
    BY <1>1, <1>4, <2>1, <2>2 DEF Known
  <2>3. CASE e[1] # a
    BY <1>5, <2>1, <2>3 DEF Known
  <2>4. QED
    BY <2>2, <2>3
<1>8. QED
  BY <1>4, <1>5, <1>6, <1>7

(* What ServiceNow does to its tickets, by call.                            *)
LEMMA CreateFacts ==
  ASSUME TypeOK, NEW e \in Event, tickets' = Append(tickets, [event |-> e, state |-> "open"])
  PROVE  /\ tickets' \in Seq(Ticket) /\ Len(tickets') = Len(tickets) + 1
         /\ \A i \in 1 .. Len(tickets) : tickets'[i] = tickets[i]
         /\ tickets'[Len(tickets) + 1] = [event |-> e, state |-> "open"]
         /\ \A b \in Alarm : TicketsOf(b)' =
              IF b = e[1] THEN TicketsOf(b) \cup {Len(tickets) + 1} ELSE TicketsOf(b)
<1> DEFINE t == [event |-> e, state |-> "open"]
<1>1. tickets \in Seq(Ticket) /\ t \in Ticket /\ t.event = e
  BY DEF TypeOK, Ticket
<1> HIDE DEF t
<1>2. tickets' = Append(tickets, t)
  BY DEF t
<1>3. /\ tickets' \in Seq(Ticket) /\ Len(tickets') = Len(tickets) + 1 /\ Len(tickets) \in Nat
      /\ \A i \in 1 .. Len(tickets) : tickets'[i] = tickets[i]
      /\ tickets'[Len(tickets) + 1] = t
  BY <1>1, <1>2
<1>4. DOMAIN tickets = 1 .. Len(tickets) /\ DOMAIN tickets' = 1 .. Len(tickets) + 1
  BY <1>1, <1>3
<1>5. ASSUME NEW b \in Alarm
      PROVE  TicketsOf(b)' = IF b = e[1] THEN TicketsOf(b) \cup {Len(tickets) + 1} ELSE TicketsOf(b)
  BY <1>1, <1>3, <1>4 DEF TicketsOf
<1>6. QED
  BY <1>3, <1>5 DEF t

LEMMA ResolveFacts ==
  ASSUME TypeOK, NEW i \in DOMAIN tickets, tickets' = [tickets EXCEPT ![i].state = "resolved"]
  PROVE  /\ tickets' \in Seq(Ticket) /\ Len(tickets') = Len(tickets)
         /\ \A j \in DOMAIN tickets : j # i => tickets'[j] = tickets[j]
         /\ tickets'[i].state = "resolved" /\ tickets'[i].event = tickets[i].event
         /\ \A b \in Alarm : TicketsOf(b)' = TicketsOf(b)
<1> DEFINE t == [tickets[i] EXCEPT !.state = "resolved"]
<1>1. tickets \in Seq(Ticket) /\ tickets[i] \in Ticket
  BY TicketFacts DEF TypeOK, Ticket
<1>2. t \in Ticket /\ t.event = tickets[i].event /\ t.state = "resolved"
  BY <1>1 DEF Ticket
<1>3. tickets' = [tickets EXCEPT ![i] = t]
  OBVIOUS
<1> HIDE DEF t
<1>4. /\ tickets' \in Seq(Ticket) /\ Len(tickets') = Len(tickets)
      /\ DOMAIN tickets' = DOMAIN tickets
      /\ \A j \in DOMAIN tickets : j # i => tickets'[j] = tickets[j]
      /\ tickets'[i] = t
  BY <1>1, <1>2, <1>3
<1>5. \A b \in Alarm : TicketsOf(b)' = TicketsOf(b)
  BY <1>2, <1>4 DEF TicketsOf
<1>6. QED
  BY <1>2, <1>4, <1>5

LEMMA ServeFacts ==
  ASSUME Typed, NEW c \in wire, Serve(c)
  PROVE  /\ tickets' \in Seq(Ticket) /\ Len(tickets) <= Len(tickets')
         /\ \A b \in Alarm : TicketsOf(b) \subseteq TicketsOf(b)'
         /\ (IF c.op = "create" THEN Len(tickets) + 1 ELSE c.ticket) \in TicketsOf(c.event[1])'
<1>0. c \in Call /\ c.event \in Event /\ c.event[1] \in Alarm /\ Len(tickets) \in Nat
  BY EventFacts, TicketFacts DEF Typed, TypeOK, Call
<1>1. CASE c.op = "create"
  <2>1. tickets' = Append(tickets, [event |-> c.event, state |-> "open"])
    BY <1>1 DEF Serve
  <2>2. QED
    BY <1>0, <1>1, <2>1, CreateFacts DEF Typed
<1>2. CASE c.op # "create"
  <2>1. c.ticket \in TicketsOf(c.event[1]) /\ c.ticket \in DOMAIN tickets
    BY <1>2 DEF Typed, Honest, TicketsOf
  <2>2. CASE c.op = "update"
    <3>1. tickets' = tickets
      BY <2>2 DEF Serve
    <3>2. QED
      BY <1>0, <1>2, <2>1, <3>1 DEF Typed, TypeOK, Ticket, TicketsOf
  <2>3. CASE c.op = "resolve"
    <3>1. tickets' = [tickets EXCEPT ![c.ticket].state = "resolved"]
      BY <2>3 DEF Serve
    <3>2. TypeOK
      BY DEF Typed
    <3>3. /\ tickets' \in Seq(Ticket) /\ Len(tickets') = Len(tickets)
          /\ \A b \in Alarm : TicketsOf(b)' = TicketsOf(b)
      BY ONLY <2>1, <3>1, <3>2, ResolveFacts
    <3>4. QED
      BY <1>0, <1>2, <2>1, <3>3
  <2>4. QED
    BY <1>0, <1>2, <2>2, <2>3 DEF Call
<1>3. QED
  BY <1>1, <1>2

-----------------------------------------------------------------------------
LEMMA TypeInit == Init => Typed
<1> SUFFICES ASSUME Init PROVE Typed
  OBVIOUS
<1>1. tickets = <<>> /\ \A a \in Alarm : TicketsOf(a) = {}
  BY DEF Init, TicketsOf
<1>2. TypeOK
  <2>1. log \in [Alarm -> Seq(Kind)] /\ tickets \in Seq([event : Event, state : {"open", "resolved"}])
    BY DEF Init
  <2>2. itsmMap \in [Alarm -> 0 .. Len(tickets)] /\ notified \in [Event -> 0 .. Len(tickets)]
    BY <1>1 DEF Init
  <2>3. channels \subseteq Channel
    BY DEF Init
  <2>4. faults \in 0 .. MaxFaults
    BY NotifyAssumption DEF Init, NotifyAssumption
  <2>5. DOMAIN requests = {} /\ wire = {} /\ passedBy = {} /\ failed = {} /\ crossed = {}
    BY DEF Init
  <2>6. QED
    BY <2>1, <2>2, <2>3, <2>4, <2>5 DEF TypeOK
<1>3. Honest
  BY DEF Init, Honest
<1>4. QED
  BY <1>2, <1>3 DEF Typed

(* A request that goes on, or ends, and nothing else of requests.           *)
RequestsSound ==
  /\ DOMAIN requests \subseteq Event
  /\ \A e \in DOMAIN requests :
       /\ requests[e] \in Request /\ Known(e)
       /\ requests[e].rec \in {0} \cup TicketsOf(e[1]) /\ requests[e].ticket \in {0} \cup TicketsOf(e[1])

LEMMA GoesSound ==
  ASSUME Typed, NEW e \in DOMAIN requests, NEW step \in {"begin", "calling", "answered", "flushed"},
         NEW ticket \in Nat, Goes(e, step, ticket), log' = log,
         \A b \in Alarm : TicketsOf(b) \subseteq TicketsOf(b)', ticket \in {0} \cup TicketsOf(e[1])'
  PROVE  RequestsSound'
<1>1. e[1] \in Alarm /\ \A f \in DOMAIN requests : f[1] \in Alarm /\ requests[f] \in Request /\ Known(f)
  BY EventFacts DEF Typed, TypeOK
<1>2. /\ DOMAIN requests' = DOMAIN requests
      /\ \A f \in DOMAIN requests : f # e => requests'[f] = requests[f]
      /\ requests'[e] = [requests[e] EXCEPT !.step = step, !.ticket = ticket]
  BY DEF Goes
<1>3. requests'[e] \in Request /\ requests'[e].rec = requests[e].rec /\ requests'[e].ticket = ticket
  BY <1>1, <1>2 DEF Request
<1>4. \A f \in DOMAIN requests : Known(f)'
  BY <1>1 DEF Known
<1>5. QED
  BY <1>1, <1>2, <1>3, <1>4 DEF RequestsSound, Typed, TypeOK, Honest

LEMMA EndsSound ==
  ASSUME Typed, NEW e, Ends(e), UNCHANGED <<log, tickets>>
  PROVE  RequestsSound'
BY EventFacts DEF Ends, RequestsSound, Typed, TypeOK, Honest, Known, TicketsOf

TablesSound ==
  /\ itsmMap \in [Alarm -> Nat] /\ notified \in [Event -> Nat]
  /\ \A a \in Alarm : itsmMap[a] \in {0} \cup TicketsOf(a)
  /\ \A e \in Event : notified[e] \in {0} \cup TicketsOf(e[1])

WireSound ==
  /\ wire \subseteq Call
  /\ \A c \in wire : c.op # "create" => c.ticket \in TicketsOf(c.event[1])

HistoryTyped ==
  /\ channels \subseteq Channel /\ passedBy \subseteq Event
  /\ failed \subseteq Event /\ crossed \subseteq Event /\ faults \in 0 .. MaxFaults

LEMMA Parts ==
  ASSUME log' \in [Alarm -> Seq(Kind)], tickets' \in Seq(Ticket),
         RequestsSound', TablesSound', WireSound', HistoryTyped'
  PROVE  Typed'
<1>1. DOMAIN tickets' = 1 .. Len(tickets') /\ Len(tickets') \in Nat
  OBVIOUS
<1>2. \A a \in Alarm : TicketsOf(a)' \subseteq 1 .. Len(tickets')
  BY <1>1 DEF TicketsOf
<1>3. itsmMap' \in [Alarm -> 0 .. Len(tickets')]
  <2>1. \A a \in Alarm : itsmMap'[a] \in 0 .. Len(tickets')
    BY <1>1, <1>2 DEF TablesSound
  <2>2. QED
    BY <2>1 DEF TablesSound
<1>4. notified' \in [Event -> 0 .. Len(tickets')]
  <2>1. \A e \in Event : notified'[e] \in 0 .. Len(tickets')
    BY <1>1, <1>2, EventFacts DEF TablesSound
  <2>2. QED
    BY <2>1 DEF TablesSound
<1>5. TypeOK'
  BY <1>3, <1>4, Zenon DEF TypeOK, Ticket, RequestsSound, WireSound, HistoryTyped
<1>6. Honest'
  BY DEF Honest, RequestsSound, TablesSound, WireSound
<1>7. QED
  BY <1>5, <1>6 DEF Typed

(* As long as no ticket goes, tables and calls that stay are sound.         *)
LEMMA StaySound ==
  ASSUME Typed, \A b \in Alarm : TicketsOf(b) \subseteq TicketsOf(b)'
  PROVE  /\ UNCHANGED <<itsmMap, notified>> => TablesSound'
         /\ wire' \subseteq wire => WireSound'
         /\ UNCHANGED <<log, requests>> => RequestsSound'
<1>1. UNCHANGED <<itsmMap, notified>> => TablesSound'
  <2>1. itsmMap \in [Alarm -> Nat] /\ notified \in [Event -> Nat]
    BY TicketFacts DEF Typed, TypeOK
  <2>2. QED
    BY <2>1, EventFacts DEF Typed, Honest, TablesSound
<1>2. wire' \subseteq wire => WireSound'
  BY EventFacts DEF Typed, TypeOK, Honest, WireSound, Call
<1>3. UNCHANGED <<log, requests>> => RequestsSound'
  BY EventFacts DEF Typed, TypeOK, Honest, RequestsSound, Known
<1>4. QED
  BY <1>1, <1>2, <1>3

(* What the handling of an event does: it makes the calls of ops, and its   *)
(* request goes on to wait for them or has nothing to wait for.             *)
LEMMA LoadFacts ==
  ASSUME NEW e, Load(e)
  PROVE  \E ops, t :
           /\ t \in {0, itsmMap[e[1]]}
           /\ \/ ops = {} /\ passedBy' = passedBy \cup {e}
              \/ /\ passedBy' = passedBy
                 /\ \E suppressed \in BOOLEAN : ops = OpOf(KindOf(e), suppressed, itsmMap[e[1]])
           /\ wire' = wire \cup {[op |-> o, event |-> e, ticket |-> itsmMap[e[1]]] : o \in ops}
           /\ requests' = [requests EXCEPT ![e] =
                IF ops # {} THEN [step |-> "calling", rec |-> itsmMap[e[1]], ticket |-> itsmMap[e[1]]]
                ELSE [step |-> "flushed", rec |-> itsmMap[e[1]], ticket |-> t]]
<1> DEFINE itsm == "itsm" \in channels
           ticket == itsmMap[e[1]]
<1>1. PICK suppressed \in BOOLEAN :
        LET ops == IF itsm THEN OpOf(KindOf(e), suppressed, ticket) ELSE {} IN
        /\ wire' = wire \cup {[op |-> o, event |-> e, ticket |-> ticket] : o \in ops}
        /\ requests' = [requests EXCEPT ![e] =
             IF ops # {} THEN [step |-> "calling", rec |-> ticket, ticket |-> ticket]
             ELSE [step |-> "flushed", rec |-> ticket,
                   ticket |-> IF itsm /\ ~suppressed THEN ticket ELSE 0]]
  BY Zenon DEF Load
<1>2. passedBy' = IF itsm THEN passedBy ELSE passedBy \cup {e}
  BY Zenon DEF Load
<1> DEFINE called == OpOf(KindOf(e), suppressed, ticket)
           ops == IF itsm THEN called ELSE {}
           t == IF itsm /\ ~suppressed THEN ticket ELSE 0
<1>3. /\ wire' = wire \cup {[op |-> o, event |-> e, ticket |-> ticket] : o \in ops}
      /\ requests' = [requests EXCEPT ![e] =
           IF ops # {} THEN [step |-> "calling", rec |-> ticket, ticket |-> ticket]
           ELSE [step |-> "flushed", rec |-> ticket, ticket |-> t]]
  BY <1>1, Zenon
<1>4. t \in {0, ticket}
  OBVIOUS
<1>5. \/ ops = {} /\ passedBy' = passedBy \cup {e}
      \/ passedBy' = passedBy /\ \E s \in BOOLEAN : ops = OpOf(KindOf(e), s, ticket)
  <2> HIDE DEF called
  <2>1. CASE itsm
    <3>1. ops = called /\ passedBy' = passedBy
      BY <1>2, <2>1
    <3>2. QED
      BY <3>1, Zenon DEF called
  <2>2. CASE ~itsm
    BY <1>2, <2>2
  <2>3. QED
    BY <2>1, <2>2
<1> HIDE DEF ops, t
<1>6. QED
  BY <1>3, <1>4, <1>5, Zenon

LEMMA TypeStep ==
  ASSUME Typed, [Next]_vars
  PROVE  Typed'
<1> USE NotifyAssumption DEF NotifyAssumption
<1>0. /\ log \in [Alarm -> Seq(Kind)] /\ tickets \in Seq(Ticket) /\ HistoryTyped
      /\ DOMAIN requests \subseteq Event
  BY DEF Typed, TypeOK, Ticket, HistoryTyped
<1>00. ASSUME tickets' = tickets PROVE \A b \in Alarm : TicketsOf(b) \subseteq TicketsOf(b)'
  BY <1>00 DEF TicketsOf
<1>1. ASSUME NEW a \in Alarm, NEW kind \in Kind, Commit(a, kind) PROVE Typed'
  <2> DEFINE new == <<a, Len(log[a]) + 1>>
  <2>1. log' \in [Alarm -> Seq(Kind)] /\ new \in Event /\ \A e \in Event : Known(e)' <=> Known(e) \/ e = new
    BY <1>1, CommitFacts DEF Typed
  <2>2. RequestsSound'
    <3>1. requests' = [f \in DOMAIN requests \cup {new} |->
                         IF f = new THEN [step |-> "begin", rec |-> 0, ticket |-> 0] ELSE requests[f]]
      BY <1>1 DEF Commit, Begins
    <3>2. [step |-> "begin", rec |-> 0, ticket |-> 0] \in Request
      BY DEF Request
    <3>3. tickets' = tickets
      BY <1>1 DEF Commit
    <3> HIDE DEF new
    <3>4. QED
      BY <1>0, <1>00, <2>1, <3>1, <3>2, <3>3, EventFacts DEF Typed, TypeOK, Honest, RequestsSound
  <2>3. HistoryTyped'
    BY <1>0, <1>1, <2>1 DEF Commit, HistoryTyped
  <2>4. UNCHANGED <<tickets, itsmMap, notified, wire>>
    BY <1>1 DEF Commit
  <2>5. QED
    BY <1>0, <1>00, <2>1, <2>2, <2>3, <2>4, StaySound, Parts
<1>2. ASSUME NEW e \in Event, Load(e) PROVE Typed'
  <2>1. UNCHANGED <<log, tickets, itsmMap, notified>> /\ e \in DOMAIN requests
    BY <1>2 DEF Load, At
  <2>2. HistoryTyped'
    <3>1. passedBy' \subseteq passedBy \cup {e} /\ UNCHANGED <<channels, failed, crossed, faults>>
      BY <1>2 DEF Load
    <3>2. QED
      BY <1>0, <3>1 DEF HistoryTyped
  <2>3. itsmMap[e[1]] \in Nat /\ itsmMap[e[1]] \in {0} \cup TicketsOf(e[1])
    BY EventFacts, TicketFacts DEF Typed, TypeOK, Honest
  <2>4. WireSound' /\ RequestsSound'
    <3> DEFINE ticket == itsmMap[e[1]]
    <3>1. PICK ops, told0 :
            /\ told0 \in {0, ticket}
            /\ \/ ops = {} /\ passedBy' = passedBy \cup {e}
               \/ /\ passedBy' = passedBy
                  /\ \E suppressed \in BOOLEAN : ops = OpOf(KindOf(e), suppressed, ticket)
            /\ wire' = wire \cup {[op |-> o, event |-> e, ticket |-> ticket] : o \in ops}
            /\ requests' = [requests EXCEPT ![e] =
                 IF ops # {} THEN [step |-> "calling", rec |-> ticket, ticket |-> ticket]
                 ELSE [step |-> "flushed", rec |-> ticket, ticket |-> told0]]
      BY <1>2, LoadFacts, Zenon
    <3> DEFINE r == IF ops # {} THEN [step |-> "calling", rec |-> ticket, ticket |-> ticket]
                    ELSE [step |-> "flushed", rec |-> ticket, ticket |-> told0]
    <3>2. wire' = wire \cup {[op |-> o, event |-> e, ticket |-> ticket] : o \in ops}
          /\ requests' = [requests EXCEPT ![e] = r]
      BY <3>1, Zenon
    <3>3. /\ ops \subseteq {"create", "update", "resolve"}
          /\ \A o \in ops : o # "create" => ticket # 0
      <4>1. CASE ops = {}
        BY <4>1
      <4>2. ASSUME NEW suppressed \in BOOLEAN, ops = OpOf(KindOf(e), suppressed, ticket)
            PROVE  ops \subseteq {"create", "update", "resolve"} /\ \A o \in ops : o # "create" => ticket # 0
        BY <4>2 DEF OpOf
      <4>3. QED
        BY <3>1, <4>1, <4>2
    <3>4. ticket \in Nat /\ ticket \in {0} \cup TicketsOf(e[1])
      BY <2>3
    <3>5. told0 \in {0, ticket}
      BY <3>1
    <3> HIDE DEF ticket
    <3>6. r \in Request /\ r.rec \in {0, ticket} /\ r.ticket \in {0, ticket}
      <4>1. told0 \in Nat
        BY <3>4, <3>5
      <4>2. CASE ops # {}
        BY <3>4, <4>2 DEF Request
      <4>3. CASE ops = {}
        BY <3>4, <3>5, <4>1, <4>3 DEF Request
      <4>4. QED
        BY <4>2, <4>3
    <3> HIDE DEF r
    <3>7. RequestsSound'
      BY <1>00, <2>1, <3>2, <3>4, <3>6, EventFacts DEF Typed, TypeOK, Honest, RequestsSound, Known
    <3>8. \A c \in wire' : c \in wire \/ \E o \in ops : c = [op |-> o, event |-> e, ticket |-> ticket]
      BY <3>2
    <3>9. WireSound'
      <4>1. ASSUME NEW o \in ops, NEW c, c = [op |-> o, event |-> e, ticket |-> ticket]
            PROVE  c \in Call /\ (c.op # "create" => c.ticket \in TicketsOf(c.event[1])')
        BY <1>00, <2>1, <3>3, <3>4, <4>1, EventFacts DEF Call
      <4>2. ASSUME NEW c \in wire
            PROVE  c \in Call /\ (c.op # "create" => c.ticket \in TicketsOf(c.event[1])')
        BY <1>00, <2>1, EventFacts DEF Typed, TypeOK, Honest, Call
      <4>3. QED
        BY <3>8, <4>1, <4>2 DEF WireSound
    <3>10. QED
      BY <3>7, <3>9
  <2>5. QED
    BY <1>0, <1>00, <2>1, <2>2, <2>4, StaySound, Parts
<1>3. ASSUME NEW e \in Event, Unhandled(e) \/ Dies(e) PROVE Typed'
  <2>1. UNCHANGED <<log, tickets, itsmMap, notified, wire>> /\ Ends(e)
    BY <1>3 DEF Unhandled, Dies
  <2>2. HistoryTyped'
    BY <1>0, <1>3, EventFacts DEF Unhandled, Dies, HistoryTyped
  <2>3. QED
    BY <1>0, <1>00, <2>1, <2>2, EndsSound, StaySound, Parts
<1>4. ASSUME NEW c \in wire, Serve(c) PROVE Typed'
  <2> DEFINE ticket == IF c.op = "create" THEN Len(tickets) + 1 ELSE c.ticket
  <2>1. /\ tickets' \in Seq(Ticket) /\ \A b \in Alarm : TicketsOf(b) \subseteq TicketsOf(b)'
        /\ ticket \in TicketsOf(c.event[1])' /\ ticket \in Nat
    <3>1. tickets' \in Seq(Ticket) => \A b \in Alarm : TicketsOf(b)' \subseteq Nat
      BY DEF TicketsOf
    <3>2. c.event[1] \in Alarm
      BY EventFacts DEF Typed, TypeOK, Call
    <3>3. QED
      BY <1>4, <3>1, <3>2, ServeFacts
  <2>2. UNCHANGED <<log, itsmMap, notified>> /\ wire' \subseteq wire
    BY <1>4 DEF Serve
  <2>3. RequestsSound'
    <3>1. CASE At(c.event, "calling")
      <4>1. c.event \in DOMAIN requests /\ Goes(c.event, "answered", ticket)
        BY <1>4, <3>1 DEF At, Serve
      <4> HIDE DEF ticket
      <4>2. QED
        BY <2>1, <2>2, <4>1, GoesSound
    <3>2. CASE ~At(c.event, "calling")
      <4>1. UNCHANGED requests
        BY <1>4, <3>2 DEF Serve
      <4>2. QED
        BY <2>1, <2>2, <4>1, StaySound
    <3>3. QED
      BY <3>1, <3>2
  <2>4. HistoryTyped'
    BY <1>0, <1>4 DEF Serve, HistoryTyped
  <2>5. QED
    BY <1>0, <2>1, <2>2, <2>3, <2>4, StaySound, Parts
<1>5. ASSUME NEW e \in Event, CallFails(e) PROVE Typed'
  <2>1. UNCHANGED <<log, tickets, itsmMap, notified, wire>> /\ e \in DOMAIN requests
        /\ Goes(e, "flushed", requests[e].rec)
    BY <1>5 DEF CallFails, At
  <2>2. requests[e].rec \in Nat /\ requests[e].rec \in {0} \cup TicketsOf(e[1])'
    BY <1>00, <2>1, EventFacts DEF Typed, TypeOK, Honest, Request
  <2>3. RequestsSound'
    BY <1>00, <2>1, <2>2, GoesSound
  <2>4. HistoryTyped'
    BY <1>0, <1>5, EventFacts DEF CallFails, HistoryTyped
  <2>5. QED
    BY <1>0, <1>00, <2>1, <2>3, <2>4, StaySound, Parts
<1>6. ASSUME NEW e \in Event, Flush(e) PROVE Typed'
  <2>1. UNCHANGED <<log, tickets, notified, wire>> /\ e \in DOMAIN requests
        /\ Goes(e, "flushed", requests[e].ticket) /\ itsmMap' = [itsmMap EXCEPT ![e[1]] = requests[e].ticket]
    BY <1>6 DEF Flush, At
  <2>2. requests[e].ticket \in Nat /\ requests[e].ticket \in {0} \cup TicketsOf(e[1])'
    BY <1>00, <2>1, EventFacts DEF Typed, TypeOK, Honest, Request
  <2>3. RequestsSound'
    BY <1>00, <2>1, <2>2, GoesSound
  <2>4. TablesSound'
    <3>1. itsmMap \in [Alarm -> Nat] /\ notified \in [Event -> Nat]
      BY TicketFacts DEF Typed, TypeOK
    <3>2. QED
      BY <1>00, <2>1, <2>2, <3>1, EventFacts DEF Typed, Honest, TablesSound
  <2>5. HistoryTyped'
    BY <1>0, <1>6 DEF Flush, HistoryTyped
  <2>6. QED
    BY <1>0, <1>00, <2>1, <2>3, <2>4, <2>5, StaySound, Parts
<1>7. ASSUME NEW e \in Event, RecordNotified(e) PROVE Typed'
  <2>1. UNCHANGED <<log, tickets, itsmMap, wire>> /\ e \in DOMAIN requests
        /\ Ends(e) /\ notified' = [notified EXCEPT ![e] = requests[e].ticket]
    BY <1>7 DEF RecordNotified, At
  <2>2. requests[e].ticket \in Nat /\ requests[e].ticket \in {0} \cup TicketsOf(e[1])'
    BY <1>00, <2>1, EventFacts DEF Typed, TypeOK, Honest, Request
  <2>3. TablesSound'
    <3>1. itsmMap \in [Alarm -> Nat] /\ notified \in [Event -> Nat]
      BY TicketFacts DEF Typed, TypeOK
    <3>2. QED
      BY <1>00, <2>1, <2>2, <3>1, EventFacts DEF Typed, Honest, TablesSound
  <2>4. HistoryTyped'
    BY <1>0, <1>7 DEF RecordNotified, HistoryTyped
  <2>5. QED
    BY <1>0, <1>00, <2>1, <2>3, <2>4, EndsSound, StaySound, Parts
<1>8. CASE Switch
  <2>1. UNCHANGED <<log, requests, tickets, itsmMap, notified, wire>>
    BY <1>8 DEF Switch
  <2>2. HistoryTyped'
    <3>1. channels' \subseteq Channel /\ faults' \in {faults, faults + 1} /\ faults' <= MaxFaults
          /\ UNCHANGED <<passedBy, failed, crossed>>
      BY <1>8 DEF Switch
    <3>2. QED
      BY <1>0, <3>1 DEF HistoryTyped
  <2>3. QED
    BY <1>0, <1>00, <2>1, <2>2, StaySound, Parts
<1>9. ASSUME UNCHANGED vars PROVE Typed'
  <2>1. UNCHANGED <<log, requests, tickets, itsmMap, notified, wire, channels, passedBy, failed, crossed, faults>>
    BY <1>9 DEF vars
  <2>2. HistoryTyped'
    BY <1>0, <2>1 DEF HistoryTyped
  <2>3. QED
    BY <1>0, <1>00, <2>1, <2>2, StaySound, Parts
<1>10. QED
  BY <1>1, <1>2, <1>3, <1>4, <1>5, <1>6, <1>7, <1>8, <1>9 DEF Next, RequestStep

(* The variables have their types, and what is remembered as a ticket is    *)
(* one of the alarm.                                                        *)
THEOREM TypeCorrect == Spec => []Typed
<1>1. QED
  BY TypeInit, TypeStep, PTL DEF Spec

(* Rows and records name tickets of their own alarm, through failures, late *)
(* answers and requests that cross (local-notify.js 7-9).                   *)
THEOREM RecordsTrue == Spec => []NotifiedIsTrue
<1>1. Typed => NotifiedIsTrue
  BY DEF Typed, Honest, NotifiedIsTrue
<1>2. QED
  BY <1>1, TypeCorrect, PTL

-----------------------------------------------------------------------------
(* Second tickets have their reason.                                        *)
Opened(e) == \E i \in DOMAIN tickets : tickets[i].event = e
Creating(e) == \E c \in wire : c.op = "create" /\ c.event = e
Asked(e) == Opened(e) \/ Creating(e)

(* An event asks for a ticket once, and not before it is handled.           *)
AskedOnce ==
  /\ \A i, j \in DOMAIN tickets : tickets[i].event = tickets[j].event => i = j
  /\ \A c \in wire : c.op = "create" => c.ticket = 0 /\ ~Opened(c.event)
  /\ \A e \in Event : Asked(e) => Known(e) /\ ~At(e, "begin")

(* Once the request is over the row has a ticket, unless it failed.         *)
RowKnows ==
  /\ \A e \in DOMAIN requests : requests[e].step = "answered" => requests[e].ticket # 0
  /\ \A e \in Event : Asked(e) /\ e \notin failed =>
       At(e, "calling") \/ At(e, "answered") \/ itsmMap[e[1]] # 0

(* What was committed after an event whose request is in flight has crossed.*)
Overlaps ==
  \A e \in DOMAIN requests, f \in Event :
    e[1] = f[1] /\ e[2] < f[2] /\ Known(f) => f \in crossed

Reasons ==
  \A e, f \in Event :
    Asked(e) /\ Asked(f) /\ e[1] = f[1] /\ e[2] < f[2] => e \in failed \/ f \in crossed

Explained == AskedOnce /\ RowKnows /\ Overlaps /\ Reasons

LEMMA QuietAsked ==
  ASSUME UNCHANGED <<tickets, wire>>
  PROVE  \A e : /\ Opened(e)' <=> Opened(e)
                /\ Asked(e)' <=> Asked(e)
BY DEF Opened, Creating, Asked

(* A step that asks for nothing and commits nothing: what is left is where  *)
(* it leaves the requests and the row.                                      *)
LEMMA QuietExplained ==
  ASSUME Typed, Explained, UNCHANGED <<log, tickets, wire, crossed>>, failed \subseteq failed',
         DOMAIN requests' \subseteq DOMAIN requests,
         \A e \in DOMAIN requests' : requests'[e].step = "begin" => requests[e].step = "begin",
         RowKnows'
  PROVE  Explained'
<1>1. \A e : (Opened(e)' <=> Opened(e)) /\ (Asked(e)' <=> Asked(e)) /\ (Known(e)' <=> Known(e))
  BY QuietAsked DEF Known
<1>2. \A e : At(e, "begin")' => At(e, "begin")
  BY DEF At
<1>3. AskedOnce'
  BY <1>1, <1>2 DEF Explained, AskedOnce
<1>4. Overlaps'
  BY <1>1 DEF Explained, Overlaps
<1>5. Reasons'
  BY <1>1 DEF Explained, Reasons
<1>6. QED
  BY <1>3, <1>4, <1>5 DEF Explained

LEMMA ExplainedCommit ==
  ASSUME Typed, Explained, NEW a \in Alarm, NEW kind \in Kind, Commit(a, kind)
  PROVE  Explained'
<1> DEFINE new == <<a, Len(log[a]) + 1>>
<1>1. new \in Event /\ \A e \in Event : Known(e)' <=> Known(e) \/ e = new
  BY CommitFacts DEF Typed
<1>2. ~Known(new) /\ Len(log[a]) \in Nat /\ \A f \in Event : f[1] = a /\ Known(f)' => f[2] <= new[2]
  <2>1. Len(log[a]) \in Nat /\ Len(log'[a]) = Len(log[a]) + 1
    BY CommitFacts, LogFacts DEF Typed
  <2>2. QED
    BY <2>1 DEF Known
<1>3. UNCHANGED <<tickets, wire, itsmMap, failed>> /\ crossed \subseteq crossed'
      /\ (InFlight(a) # {} => new \in crossed') /\ new[1] = a
  BY DEF Commit
<1>4. DOMAIN requests' = DOMAIN requests \cup {new} /\ requests'[new].step = "begin"
      /\ \A f \in DOMAIN requests : f # new => requests'[f] = requests[f]
  BY DEF Commit, Begins
<1>5. DOMAIN requests \subseteq Event /\ \A e \in DOMAIN requests : Known(e)
  BY DEF Typed, TypeOK
<1> HIDE DEF new
<1>6. \A e : (Opened(e)' <=> Opened(e)) /\ (Asked(e)' <=> Asked(e))
  BY <1>3, QuietAsked
<1>7. \A e \in Event : Asked(e) => Known(e) /\ e # new
  BY <1>2 DEF Explained, AskedOnce
<1>8. \A e, step : e # new => (At(e, step)' <=> At(e, step)) /\ (At(e, step) => requests'[e] = requests[e])
  BY <1>4 DEF At
<1>9. AskedOnce'
  BY <1>1, <1>3, <1>6, <1>7, <1>8 DEF Explained, AskedOnce
<1>10. RowKnows'
  <2>1. \A e \in DOMAIN requests' : requests'[e].step = "answered" => requests'[e].ticket # 0
    BY <1>4 DEF Explained, RowKnows
  <2>2. \A e \in Event : Asked(e)' /\ e \notin failed' =>
          At(e, "calling")' \/ At(e, "answered")' \/ itsmMap'[e[1]] # 0
    BY <1>3, <1>6, <1>7, <1>8 DEF Explained, RowKnows
  <2>3. QED
    BY <2>1, <2>2 DEF RowKnows
<1>11. Overlaps'
  <2> SUFFICES ASSUME NEW e \in DOMAIN requests', NEW f \in Event, e[1] = f[1], e[2] < f[2], Known(f)'
               PROVE  f \in crossed'
    BY DEF Overlaps
  <2>1. CASE e = new
    <3>1. f[1] = a /\ new[2] \in Int /\ f[2] \in Int
      BY <1>2, <1>3, <2>1, EventFacts DEF new
    <3>2. QED
      BY <1>2, <2>1, <3>1
  <2>2. CASE e # new /\ f = new
    <3>1. e \in InFlight(a)
      BY <1>3, <1>4, <2>2 DEF InFlight
    <3>2. QED
      BY <1>3, <2>2, <3>1
  <2>3. CASE e # new /\ f # new
    BY <1>1, <1>3, <1>4, <2>3 DEF Explained, Overlaps
  <2>4. QED
    BY <2>1, <2>2, <2>3
<1>12. Reasons'
  BY <1>3, <1>6 DEF Explained, Reasons
<1>13. QED
  BY <1>9, <1>10, <1>11, <1>12 DEF Explained

LEMMA ExplainedLoad ==
  ASSUME Typed, Explained, NEW e \in Event, Load(e)
  PROVE  Explained'
<1> DEFINE ticket == itsmMap[e[1]]
<1>1. PICK ops, t :
        /\ \/ ops = {} /\ passedBy' = passedBy \cup {e}
           \/ \E suppressed \in BOOLEAN : ops = OpOf(KindOf(e), suppressed, ticket)
        /\ wire' = wire \cup {[op |-> o, event |-> e, ticket |-> ticket] : o \in ops}
        /\ requests' = [requests EXCEPT ![e] =
             IF ops # {} THEN [step |-> "calling", rec |-> ticket, ticket |-> ticket]
             ELSE [step |-> "flushed", rec |-> ticket, ticket |-> t]]
  BY LoadFacts, Zenon
<1> DEFINE r == IF ops # {} THEN [step |-> "calling", rec |-> ticket, ticket |-> ticket]
                ELSE [step |-> "flushed", rec |-> ticket, ticket |-> t]
<1>2. wire' = wire \cup {[op |-> o, event |-> e, ticket |-> ticket] : o \in ops}
      /\ requests' = [requests EXCEPT ![e] = r]
  BY <1>1, Zenon
<1>3. r.step = IF ops # {} THEN "calling" ELSE "flushed"
  OBVIOUS
<1> HIDE DEF r
<1>4. UNCHANGED <<log, tickets, itsmMap, failed, crossed>> /\ At(e, "begin") /\ e \in DOMAIN requests
  BY DEF Load, At
<1>5. "create" \in ops => ticket = 0
  <2>1. \A suppressed \in BOOLEAN : "create" \in OpOf(KindOf(e), suppressed, ticket) => ticket = 0
    BY DEF OpOf
  <2>2. QED
    BY <1>1, <2>1
<1>6. /\ ~Asked(e) /\ Known(e)
      /\ \A f \in Event : Asked(f) => Known(f) /\ f # e
  BY <1>4 DEF Explained, AskedOnce, Typed, TypeOK
<1>7. \A c \in wire' : c \in wire \/ (c.event = e /\ c.ticket = ticket /\ c.op \in ops)
  BY <1>2
<1>8. /\ \A f : Opened(f)' <=> Opened(f)
      /\ \A f : Asked(f)' => Asked(f) \/ (f = e /\ "create" \in ops)
      /\ \A f : Known(f)' <=> Known(f)
  BY <1>4, <1>7 DEF Opened, Creating, Asked, Known
<1>9. /\ DOMAIN requests' = DOMAIN requests /\ requests'[e] = r
      /\ \A f \in DOMAIN requests : f # e => requests'[f] = requests[f]
  BY <1>2, <1>4
<1>10. \A f, step : f # e => (At(f, step)' <=> At(f, step))
  BY <1>9 DEF At
<1>11. AskedOnce'
  <2>1. \A c \in wire' : c.op = "create" => c.ticket = 0 /\ ~Opened(c.event)'
    BY <1>5, <1>6, <1>7, <1>8 DEF Explained, AskedOnce, Asked
  <2>2. \A f \in Event : Asked(f)' => Known(f)' /\ ~At(f, "begin")'
    <3>1. ~At(e, "begin")'
      BY <1>3, <1>9 DEF At
    <3>2. QED
      BY <1>6, <1>8, <1>10, <3>1 DEF Explained, AskedOnce
  <2>3. QED
    BY <1>4, <2>1, <2>2 DEF Explained, AskedOnce
<1>12. RowKnows'
  <2>1. \A f \in DOMAIN requests' : requests'[f].step = "answered" => requests'[f].ticket # 0
    BY <1>3, <1>9 DEF Explained, RowKnows
  <2>2. "create" \in ops => At(e, "calling")'
    BY <1>3, <1>4, <1>9 DEF At
  <2>3. \A f \in Event : Asked(f)' /\ f \notin failed' =>
          At(f, "calling")' \/ At(f, "answered")' \/ itsmMap'[f[1]] # 0
    BY <1>4, <1>6, <1>8, <1>10, <2>2 DEF Explained, RowKnows
  <2>4. QED
    BY <2>1, <2>3 DEF RowKnows
<1>13. Overlaps'
  BY <1>4, <1>8, <1>9 DEF Explained, Overlaps
<1>14. Reasons'
  <2> SUFFICES ASSUME NEW g \in Event, NEW f \in Event, Asked(g)', Asked(f)', g[1] = f[1], g[2] < f[2]
               PROVE  g \in failed \/ f \in crossed
    BY <1>4 DEF Reasons
  <2>1. CASE Asked(g) /\ Asked(f)
    BY <2>1 DEF Explained, Reasons
  <2>2. CASE g = e /\ Asked(f)
    BY <1>4, <1>6, <2>2 DEF Explained, Overlaps
  <2>3. CASE f = e /\ Asked(g) /\ "create" \in ops
    <3>1. itsmMap[g[1]] = 0
      BY <1>5, <2>3
    <3>2. g \in failed \/ g \in DOMAIN requests
      BY <2>3, <3>1 DEF Explained, RowKnows, At
    <3>3. QED
      BY <1>6, <2>3, <3>2 DEF Explained, Overlaps
  <2>4. CASE g = e /\ f = e
    BY <2>4, EventFacts
  <2>5. QED
    BY <1>8, <2>1, <2>2, <2>3, <2>4
<1>15. QED
  BY <1>11, <1>12, <1>13, <1>14 DEF Explained

LEMMA CallsEqual ==
  ASSUME NEW c \in Call, NEW d \in Call, c.op = d.op, c.event = d.event, c.ticket = d.ticket
  PROVE  d = c
<1>1. /\ c = [op |-> c.op, event |-> c.event, ticket |-> c.ticket]
      /\ d = [op |-> d.op, event |-> d.event, ticket |-> d.ticket]
  BY DEF Call
<1>2. QED
  BY <1>1

(* ServiceNow opens the ticket an event asked for, or changes one there is. *)
LEMMA ServeOpens ==
  ASSUME Typed, NEW c \in wire, Serve(c)
  PROVE  \/ /\ c.op = "create" /\ DOMAIN tickets' = DOMAIN tickets \cup {Len(tickets) + 1}
            /\ tickets'[Len(tickets) + 1].event = c.event
            /\ \A i \in DOMAIN tickets : tickets'[i].event = tickets[i].event
         \/ /\ c.op # "create" /\ DOMAIN tickets' = DOMAIN tickets
            /\ \A i \in DOMAIN tickets : tickets'[i].event = tickets[i].event
<1>0. c \in Call /\ c.event \in Event /\ TypeOK /\ DOMAIN tickets = 1 .. Len(tickets) /\ Len(tickets) \in Nat
  BY TicketFacts DEF Typed, TypeOK, Call
<1>1. CASE c.op = "create"
  <2>1. tickets' = Append(tickets, [event |-> c.event, state |-> "open"])
    BY <1>1 DEF Serve
  <2>2. /\ tickets' \in Seq(Ticket) /\ Len(tickets') = Len(tickets) + 1
        /\ \A i \in 1 .. Len(tickets) : tickets'[i] = tickets[i]
        /\ tickets'[Len(tickets) + 1] = [event |-> c.event, state |-> "open"]
    BY <1>0, <2>1, CreateFacts
  <2>3. QED
    BY <1>0, <1>1, <2>2
<1>2. CASE c.op = "update"
  BY <1>2 DEF Serve
<1>3. CASE c.op = "resolve"
  <2>1. tickets' = [tickets EXCEPT ![c.ticket].state = "resolved"] /\ c.ticket \in DOMAIN tickets
    BY <1>3 DEF Serve, Typed, Honest, TicketsOf
  <2>2. /\ Len(tickets') = Len(tickets) /\ tickets' \in Seq(Ticket)
        /\ \A j \in DOMAIN tickets : j # c.ticket => tickets'[j] = tickets[j]
        /\ tickets'[c.ticket].event = tickets[c.ticket].event
    BY ONLY <1>0, <2>1, ResolveFacts
  <2>3. QED
    BY <1>0, <1>3, <2>2
<1>4. QED
  BY <1>0, <1>1, <1>2, <1>3 DEF Call

LEMMA ExplainedServe ==
  ASSUME Typed, Explained, NEW c \in wire, Serve(c)
  PROVE  Explained'
<1> DEFINE ticket == IF c.op = "create" THEN Len(tickets) + 1 ELSE c.ticket
<1>1. UNCHANGED <<log, itsmMap, failed, crossed>> /\ wire' = wire \ {c} /\ c \in Call /\ wire \subseteq Call
      /\ IF At(c.event, "calling") THEN Goes(c.event, "answered", ticket) ELSE UNCHANGED requests
  BY DEF Serve, Typed, TypeOK
<1>2. ticket # 0 /\ Len(tickets) \in Nat /\ DOMAIN tickets = 1 .. Len(tickets)
  BY TicketFacts DEF Typed, Honest, TicketsOf
<1>3. c.op = "create" => ~Opened(c.event) /\ c.ticket = 0
  BY DEF Explained, AskedOnce
<1>4. \A f : Opened(f)' => Opened(f) \/ (c.op = "create" /\ f = c.event)
  BY ServeOpens DEF Opened
<1>5. \A f : (Asked(f)' => Asked(f)) /\ (Known(f)' <=> Known(f))
  BY <1>1, <1>4 DEF Asked, Creating, Known
<1>6. \A i, j \in DOMAIN tickets' : tickets'[i].event = tickets'[j].event => i = j
  BY <1>2, <1>3, ServeOpens DEF Explained, AskedOnce, Opened
<1>7. ASSUME NEW d \in wire', d.op = "create" PROVE d.ticket = 0 /\ ~Opened(d.event)'
  <2>1. d \in wire /\ d # c /\ d.ticket = 0 /\ ~Opened(d.event)
    BY <1>1, <1>7 DEF Explained, AskedOnce
  <2>2. ~(c.op = "create" /\ d.event = c.event)
    BY <1>1, <1>3, <1>7, <2>1, CallsEqual
  <2>3. QED
    BY <1>4, <2>1, <2>2
<1> HIDE DEF ticket
<1>8. /\ DOMAIN requests' = DOMAIN requests
      /\ \A f \in DOMAIN requests : f # c.event => requests'[f] = requests[f]
      /\ At(c.event, "calling") => /\ requests'[c.event].step = "answered"
                                   /\ requests'[c.event].ticket = ticket
      /\ ~At(c.event, "calling") => requests' = requests
  <2>1. CASE At(c.event, "calling")
    <3>1. requests[c.event] \in Request /\ c.event \in DOMAIN requests
      BY <2>1 DEF At, Typed, TypeOK
    <3>2. requests' = [requests EXCEPT ![c.event].step = "answered", ![c.event].ticket = ticket]
      BY <1>1, <2>1 DEF Goes
    <3>3. QED
      BY <2>1, <3>1, <3>2 DEF Request
  <2>2. QED
    BY <1>1, <2>1
<1>9. \A f : /\ At(f, "begin")' => At(f, "begin")
             /\ At(f, "calling") \/ At(f, "answered") => At(f, "calling")' \/ At(f, "answered")'
  BY <1>8 DEF At
<1>10. AskedOnce'
  BY <1>5, <1>6, <1>7, <1>9 DEF Explained, AskedOnce
<1>11. RowKnows'
  <2>1. \A f \in DOMAIN requests' : requests'[f].step = "answered" => requests'[f].ticket # 0
    BY <1>2, <1>8 DEF Explained, RowKnows
  <2>2. QED
    BY <1>1, <1>5, <1>9, <2>1 DEF Explained, RowKnows
<1>12. Overlaps' /\ Reasons'
  BY <1>1, <1>5, <1>8 DEF Explained, Overlaps, Reasons
<1>13. QED
  BY <1>10, <1>11, <1>12 DEF Explained

(* A request that goes on, or ends, with no call made and none served.      *)
LEMMA ExplainedOnward ==
  ASSUME Typed, Explained, NEW e \in Event,
         CallFails(e) \/ Dies(e) \/ Unhandled(e) \/ RecordNotified(e) \/ Flush(e)
  PROVE  Explained'
<1>1. UNCHANGED <<log, tickets, wire, crossed>> /\ failed \subseteq failed' /\ e \in DOMAIN requests
  BY DEF CallFails, Dies, Unhandled, RecordNotified, Flush, At
<1>2. /\ DOMAIN requests' \subseteq DOMAIN requests /\ DOMAIN requests \ {e} \subseteq DOMAIN requests'
      /\ \A f \in DOMAIN requests' : f # e => requests'[f] = requests[f]
      /\ e \in DOMAIN requests' => requests'[e].step = "flushed"
  <2>1. CASE Ends(e)
    BY <2>1 DEF Ends
  <2>2. ASSUME NEW ticket, Goes(e, "flushed", ticket)
        PROVE  /\ DOMAIN requests' = DOMAIN requests /\ requests'[e].step = "flushed"
               /\ \A f \in DOMAIN requests' : f # e => requests'[f] = requests[f]
    <3>1. requests[e] \in Request
      BY <1>1 DEF Typed, TypeOK
    <3>2. QED
      BY <1>1, <2>2, <3>1 DEF Goes, Request
  <2>3. QED
    BY <2>1, <2>2 DEF CallFails, Dies, Unhandled, RecordNotified, Flush
<1>3. \A f, step : f # e => (At(f, step)' <=> At(f, step))
  BY <1>2 DEF At
<1>4. \A f : Asked(f)' <=> Asked(f)
  BY <1>1, QuietAsked
<1>5. \A f \in DOMAIN requests' : requests'[f].step = "answered" => requests'[f].ticket # 0
  BY <1>2 DEF Explained, RowKnows
<1>6. \A f \in Event : itsmMap[f[1]] # 0 => itsmMap'[f[1]] # 0
  <2>1. CASE Flush(e)
    <3>1. requests[e].ticket # 0 /\ itsmMap' = [itsmMap EXCEPT ![e[1]] = requests[e].ticket]
          /\ DOMAIN itsmMap = Alarm
      BY <2>1 DEF Flush, At, Explained, RowKnows, Typed, TypeOK
    <3>2. QED
      BY <3>1, EventFacts
  <2>2. CASE ~Flush(e)
    <3>1. itsmMap' = itsmMap
      BY <2>2 DEF CallFails, Dies, Unhandled, RecordNotified
    <3>2. QED
      BY <3>1
  <2>3. QED
    BY <2>1, <2>2
<1>7. Asked(e) => e \in failed' \/ itsmMap'[e[1]] # 0
  <2>1. CASE CallFails(e) \/ Dies(e)
    BY <2>1 DEF CallFails, Dies
  <2>2. CASE Unhandled(e)
    BY <2>2 DEF Unhandled, Explained, AskedOnce
  <2>3. CASE RecordNotified(e)
    <3>1. ~At(e, "calling") /\ ~At(e, "answered") /\ itsmMap' = itsmMap /\ failed' = failed
      BY <2>3 DEF RecordNotified, At
    <3>2. QED
      BY <3>1 DEF Explained, RowKnows
  <2>4. CASE Flush(e)
    <3>1. requests[e].ticket # 0 /\ itsmMap' = [itsmMap EXCEPT ![e[1]] = requests[e].ticket]
          /\ DOMAIN itsmMap = Alarm /\ e[1] \in Alarm
      BY <2>4, EventFacts DEF Flush, At, Explained, RowKnows, Typed, TypeOK
    <3>2. QED
      BY <3>1
  <2>5. QED
    BY <2>1, <2>2, <2>3, <2>4
<1>8. RowKnows'
  <2>1. \A f \in Event : Asked(f)' /\ f \notin failed' =>
          At(f, "calling")' \/ At(f, "answered")' \/ itsmMap'[f[1]] # 0
    BY <1>1, <1>3, <1>4, <1>6, <1>7 DEF Explained, RowKnows
  <2>2. QED
    BY <1>5, <2>1 DEF RowKnows
<1>9. \A f \in DOMAIN requests' : requests'[f].step = "begin" => requests[f].step = "begin"
  BY <1>2
<1>10. QED
  BY <1>1, <1>2, <1>8, <1>9, QuietExplained

LEMMA ExplainedStep ==
  ASSUME Typed, Explained, [Next]_vars
  PROVE  Explained'
<1>1. ASSUME Switch \/ UNCHANGED vars PROVE Explained'
  <2>1. UNCHANGED <<log, requests, tickets, wire, itsmMap, failed, crossed>>
    BY <1>1 DEF Switch, vars
  <2>2. RowKnows'
    BY <2>1, QuietAsked DEF Explained, RowKnows, At
  <2>3. QED
    BY <2>1, <2>2, QuietExplained
<1>2. QED
  BY <1>1, ExplainedCommit, ExplainedLoad, ExplainedServe, ExplainedOnward DEF Next, RequestStep

(* However requests cross and fail and whenever ServiceNow does what it was *)
(* asked, no event opens two tickets, and a second ticket of an alarm comes *)
(* of a request that failed or of an event that crossed another             *)
(* (servicenow.js 5-6, local-notify.js 151-157).                            *)
THEOREM SecondTicketsExplained == Spec => []SecondTicketExplained
<1>1. Init => Typed /\ Explained
  <2> SUFFICES ASSUME Init PROVE Explained
    BY TypeInit
  <2>1. DOMAIN requests = {} /\ wire = {} /\ DOMAIN tickets = {}
    BY DEF Init
  <2>2. \A e : ~Asked(e)
    BY <2>1 DEF Asked, Opened, Creating
  <2>3. QED
    BY <2>1, <2>2 DEF Explained, AskedOnce, RowKnows, Overlaps, Reasons
<1>2. (Typed /\ Explained) /\ [Next]_vars => (Typed /\ Explained)'
  BY TypeStep, ExplainedStep
<1>3. Typed /\ Explained => SecondTicketExplained
  <2> SUFFICES ASSUME Typed, Explained, NEW i \in DOMAIN tickets, NEW j \in DOMAIN tickets,
                      i # j, tickets[i].event[1] = tickets[j].event[1]
               PROVE  /\ tickets[i].event # tickets[j].event
                      /\ tickets[i].event[2] < tickets[j].event[2] =>
                           tickets[i].event \in failed \/ tickets[j].event \in crossed
    BY DEF SecondTicketExplained
  <2>1. tickets[i].event \in Event /\ tickets[j].event \in Event
    BY TicketFacts DEF Typed, Ticket
  <2>2. Asked(tickets[i].event) /\ Asked(tickets[j].event)
    BY DEF Asked, Opened
  <2>3. QED
    BY <2>1, <2>2 DEF Explained, AskedOnce, Reasons
<1>4. QED
  BY <1>1, <1>2, <1>3, PTL DEF Spec

-----------------------------------------------------------------------------
(* Tickets follow their alarms.                                             *)
OpFor == [kind \in Kind |->
  CASE kind = "update" -> "update" [] kind = "clear" -> "resolve" [] OTHER -> "create"]

NewestOnly(a) == \A e \in DOMAIN requests : e[1] = a => e = Newest(a)

OneCall(a) == \A c \in wire : c.event[1] = a =>
  /\ c.event = Newest(a) /\ At(Newest(a), "calling")
  /\ c.ticket = itsmMap[a] /\ c.op = OpFor[KindOf(Newest(a))]
  /\ c.op = "create" => itsmMap[a] = 0

OneTicket(a) ==
  TicketsOf(a) \subseteq
    {IF At(Newest(a), "answered") THEN requests[Newest(a)].ticket ELSE itsmMap[a]}

StateFollows(a) ==
  /\ ~IsOver(a) => \A i \in TicketsOf(a) : tickets[i].state = "open"
  /\ IsOver(a) /\ ~At(Newest(a), "begin") /\ ~At(Newest(a), "calling") /\ Newest(a) \notin passedBy
       => Resolved(a)

Calm(a) == NewestOnly(a) /\ OneCall(a) /\ OneTicket(a) /\ StateFollows(a)

AllCalm == \A a \in Alarm : Undisturbed(a) => Calm(a)

LEMMA OverFacts ==
  ASSUME TypeOK, NEW a \in Alarm
  PROVE  /\ IsOver(a) <=> Len(log[a]) # 0 /\ KindOf(Newest(a)) = "clear"
         /\ KindOf(Newest(a)) = log[a][Len(log[a])]
         /\ Newest(a)[1] = a
         /\ \A e \in DOMAIN requests : e = Newest(a) => Len(log[a]) # 0 /\ KindOf(e) \in Kind
<1>1. log[a] \in Seq(Kind) /\ Len(log[a]) \in Nat
  BY LogFacts
<1>2. log[a] = <<>> <=> Len(log[a]) = 0
  BY <1>1
<1>3. Newest(a)[1] = a /\ KindOf(Newest(a)) = log[a][Len(log[a])]
  BY DEF Newest, KindOf
<1>4. ASSUME NEW e \in DOMAIN requests, e = Newest(a) PROVE Len(log[a]) # 0 /\ KindOf(e) \in Kind
  <2>1. e \in Event
    BY DEF TypeOK
  <2>2. e[2] \in Nat /\ e[2] # 0 /\ e[2] = Len(log[a])
    <3>1. MaxEvents[e[1]] \in Nat
      BY <2>1, EventFacts, NotifyAssumption DEF NotifyAssumption
    <3>2. QED
      BY <1>4, <2>1, <3>1, EventFacts DEF Newest
  <2>3. log[a][Len(log[a])] \in Kind
    BY <1>1, <2>2
  <2>4. QED
    BY <1>3, <1>4, <2>2, <2>3
<1>5. QED
  BY <1>2, <1>3, <1>4 DEF IsOver

(* What does not concern an alarm leaves it calm.                           *)
LEMMA CalmKept ==
  ASSUME NEW a \in Alarm, Calm(a), log'[a] = log[a], itsmMap'[a] = itsmMap[a],
         \A e : e[1] = a => /\ e \in DOMAIN requests' <=> e \in DOMAIN requests
                            /\ e \in DOMAIN requests => requests'[e] = requests[e],
         \A c \in wire' : c.event[1] = a => c \in wire,
         TicketsOf(a)' = TicketsOf(a), \A i \in TicketsOf(a) : tickets'[i] = tickets[i],
         passedBy \subseteq passedBy'
  PROVE  Calm(a)'
<1>1. Newest(a)' = Newest(a) /\ Newest(a)[1] = a /\ KindOf(Newest(a))' = KindOf(Newest(a))
      /\ IsOver(a)' = IsOver(a)
  BY DEF Newest, KindOf, IsOver
<1>2. \A step \in {"begin", "calling", "answered"} : At(Newest(a), step)' <=> At(Newest(a), step)
  BY <1>1 DEF At
<1>3. NewestOnly(a)'
  BY <1>1 DEF Calm, NewestOnly
<1>4. OneCall(a)'
  BY <1>1, <1>2 DEF Calm, OneCall
<1>5. OneTicket(a)'
  <2>1. At(Newest(a), "answered") => requests'[Newest(a)] = requests[Newest(a)]
    BY <1>1 DEF At
  <2>2. CASE At(Newest(a), "answered")
    BY <1>1, <1>2, <2>1, <2>2 DEF Calm, OneTicket
  <2>3. CASE ~At(Newest(a), "answered")
    BY <1>1, <1>2, <2>3 DEF Calm, OneTicket
  <2>4. QED
    BY <2>2, <2>3
<1>6. StateFollows(a)'
  BY <1>1, <1>2 DEF Calm, StateFollows, Resolved
<1>7. QED
  BY <1>3, <1>4, <1>5, <1>6 DEF Calm

LEMMA CalmCommit ==
  ASSUME Typed, AllCalm, NEW a \in Alarm, NEW kind \in Kind, Commit(a, kind),
         NEW b \in Alarm, Undisturbed(b)'
  PROVE  Calm(b)'
<1>0. /\ UNCHANGED <<itsmMap, tickets, wire, passedBy, failed>> /\ TypeOK
      /\ crossed' = IF InFlight(a) # {} THEN crossed \cup {<<a, Len(log[a]) + 1>>} ELSE crossed
      /\ requests' = [f \in DOMAIN requests \cup {<<a, Len(log[a]) + 1>>} |->
           IF f = <<a, Len(log[a]) + 1>> THEN [step |-> "begin", rec |-> 0, ticket |-> 0]
           ELSE requests[f]]
  BY DEF Commit, Begins, Typed
<1>1. Calm(b) /\ (b = a => InFlight(a) = {})
  <2>1. crossed \subseteq crossed' /\ (InFlight(a) # {} => <<a, Len(log[a]) + 1>> \in crossed')
    BY <1>0
  <2>2. Undisturbed(b) /\ (b = a => InFlight(a) = {})
    BY <1>0, <2>1 DEF Undisturbed
  <2>3. QED
    BY <2>2 DEF AllCalm
<1>2. TicketsOf(b)' = TicketsOf(b)
  BY <1>0 DEF TicketsOf
<1>3. CASE b # a
  <2>1. log'[b] = log[b]
    BY <1>0, <1>3, CommitFacts
  <2>2. \A e : e[1] = b => /\ e \in DOMAIN requests' <=> e \in DOMAIN requests
                           /\ e \in DOMAIN requests => requests'[e] = requests[e]
    BY <1>0, <1>3
  <2>3. QED
    BY <1>0, <1>1, <1>2, <2>1, <2>2, CalmKept
<1>4. CASE b = a
  <2>1. /\ Newest(a)' = <<a, Len(log[a]) + 1>> /\ Len(log'[a]) = Len(log[a]) + 1
        /\ Newest(a) = <<a, Len(log[a])>> /\ Len(log[a]) \in Nat
        /\ log'[a][Len(log[a]) + 1] = kind
    BY <1>0, CommitFacts, LogFacts DEF Newest
  <2>2. \A e \in DOMAIN requests : e[1] # a
    BY <1>1, <1>4 DEF InFlight
  <2>3. At(Newest(a), "answered") = FALSE /\ At(Newest(a), "calling") = FALSE
    <3>1. Newest(a) \notin DOMAIN requests
      BY <2>1, <2>2
    <3>2. QED
      BY <3>1 DEF At
  <2>4. /\ Newest(a)' \in DOMAIN requests' /\ requests'[Newest(a)'].step = "begin"
        /\ \A e \in DOMAIN requests' : e \in DOMAIN requests \/ e = Newest(a)'
    BY <1>0, <2>1
  <2>5. NewestOnly(a)'
    BY <2>2, <2>4 DEF NewestOnly
  <2>6. OneCall(a)'
    BY <1>0, <1>1, <1>4, <2>3 DEF Calm, OneCall
  <2>7. OneTicket(a)'
    <3>1. ~At(Newest(a), "answered")' /\ TicketsOf(a) \subseteq {itsmMap[a]}
      BY <1>1, <1>4, <2>3, <2>4 DEF At, Calm, OneTicket
    <3>2. QED
      BY <1>0, <1>2, <1>4, <3>1 DEF OneTicket
  <2>8. StateFollows(a)'
    <3>1. At(Newest(a), "begin")'
      BY <2>4 DEF At
    <3>2. ~IsOver(a)
      BY <1>0, <2>1 DEF IsOver, Commit, Follows
    <3>3. QED
      BY <1>0, <1>1, <1>2, <1>4, <3>1, <3>2 DEF Calm, StateFollows
  <2>9. QED
    BY <1>4, <2>5, <2>6, <2>7, <2>8 DEF Calm
<1>5. QED
  BY <1>3, <1>4

(* The request of an alarm goes on, and nothing else does.                  *)
LEMMA CalmElsewhere ==
  ASSUME Typed, AllCalm, NEW e, NEW b \in Alarm, Undisturbed(b), b # e[1],
         UNCHANGED <<log, tickets>>, passedBy \subseteq passedBy',
         \/ Ends(e)
         \/ \E r : requests' = [requests EXCEPT ![e] = r],
         \A c \in wire' : c \in wire \/ c.event = e,
         itsmMap'[b] = itsmMap[b]
  PROVE  Calm(b)'
<1>1. Calm(b) /\ TicketsOf(b)' = TicketsOf(b)
  BY DEF AllCalm, TicketsOf
<1>2. \A f : f[1] = b => /\ f \in DOMAIN requests' <=> f \in DOMAIN requests
                         /\ f \in DOMAIN requests => requests'[f] = requests[f]
  BY DEF Ends
<1>3. QED
  BY <1>1, <1>2, CalmKept

LEMMA OpFacts ==
  ASSUME NEW kind \in Kind, NEW suppressed \in BOOLEAN, NEW ticket
  PROVE  /\ OpOf(kind, suppressed, ticket) \subseteq {OpFor[kind]}
         /\ "create" \in OpOf(kind, suppressed, ticket) => ticket = 0
         /\ kind = "clear" /\ ticket # 0 => OpOf(kind, suppressed, ticket) # {}
<1>1. OpFor[kind] = CASE kind = "update" -> "update" [] kind = "clear" -> "resolve" [] OTHER -> "create"
  BY DEF OpFor
<1>2. OpOf(kind, suppressed, ticket) \subseteq {OpFor[kind]}
  BY <1>1 DEF OpOf, Kind
<1>3. "create" \in OpOf(kind, suppressed, ticket) => ticket = 0
  BY DEF OpOf, Kind
<1>4. kind = "clear" /\ ticket # 0 => OpOf(kind, suppressed, ticket) # {}
  BY DEF OpOf, Kind
<1>5. QED
  BY <1>2, <1>3, <1>4

LEMMA CalmLoad ==
  ASSUME Typed, AllCalm, NEW e \in Event, Load(e), NEW b \in Alarm, Undisturbed(b)'
  PROVE  Calm(b)'
<1>0. /\ UNCHANGED <<log, tickets, itsmMap, failed, crossed>> /\ TypeOK
      /\ e \in DOMAIN requests /\ requests[e].step = "begin" /\ e[1] \in Alarm
      /\ passedBy \subseteq passedBy'
  BY EventFacts DEF Load, At, Typed
<1>1. Undisturbed(b) /\ Calm(b)
  BY <1>0 DEF AllCalm, Undisturbed
<1> DEFINE ticket == itsmMap[e[1]]
<1>2. PICK ops, t :
        /\ \/ ops = {} /\ passedBy' = passedBy \cup {e}
           \/ \E suppressed \in BOOLEAN : ops = OpOf(KindOf(e), suppressed, ticket)
        /\ wire' = wire \cup {[op |-> o, event |-> e, ticket |-> ticket] : o \in ops}
        /\ requests' = [requests EXCEPT ![e] =
             IF ops # {} THEN [step |-> "calling", rec |-> ticket, ticket |-> ticket]
             ELSE [step |-> "flushed", rec |-> ticket, ticket |-> t]]
  BY LoadFacts, Zenon
<1> DEFINE r == IF ops # {} THEN [step |-> "calling", rec |-> ticket, ticket |-> ticket]
                ELSE [step |-> "flushed", rec |-> ticket, ticket |-> t]
<1>3. /\ wire' = wire \cup {[op |-> o, event |-> e, ticket |-> ticket] : o \in ops}
      /\ requests' = [requests EXCEPT ![e] = r]
  BY <1>2, Zenon
<1>4. r.step = IF ops # {} THEN "calling" ELSE "flushed"
  OBVIOUS
<1> HIDE DEF r
<1>5. \A c \in wire' : c \in wire \/ (c.event = e /\ c.ticket = ticket /\ c.op \in ops)
  BY <1>3
<1>6. CASE b # e[1]
  BY <1>0, <1>1, <1>3, <1>5, <1>6, CalmElsewhere
<1>7. CASE b = e[1]
  <2>1. e = Newest(b) /\ Newest(b)' = Newest(b) /\ KindOf(e)' = KindOf(e) /\ KindOf(e) \in Kind
        /\ (IsOver(b) <=> KindOf(e) = "clear") /\ IsOver(b)' = IsOver(b)
    <3>1. e = Newest(b)
      BY <1>0, <1>1, <1>7 DEF Calm, NewestOnly
    <3>2. KindOf(e) \in Kind /\ (IsOver(b) <=> KindOf(e) = "clear")
      BY <1>0, <3>1, OverFacts
    <3>3. QED
      BY <1>0, <3>1, <3>2 DEF Newest, KindOf, IsOver
  <2>2. /\ ops \subseteq {OpFor[KindOf(e)]}
        /\ "create" \in ops => ticket = 0
        /\ KindOf(e) = "clear" /\ ticket # 0 => ops # {} \/ e \in passedBy'
    <3>1. CASE ops = {} /\ passedBy' = passedBy \cup {e}
      BY <3>1
    <3>2. ASSUME NEW suppressed \in BOOLEAN, ops = OpOf(KindOf(e), suppressed, ticket)
          PROVE  /\ ops \subseteq {OpFor[KindOf(e)]}
                 /\ "create" \in ops => ticket = 0
                 /\ KindOf(e) = "clear" /\ ticket # 0 => ops # {}
      BY <2>1, <3>2, OpFacts
    <3>3. QED
      BY <1>2, <3>1, <3>2
  <2>3. /\ DOMAIN requests' = DOMAIN requests /\ requests'[e] = r
        /\ \A step : At(e, step)' <=> r.step = step
    BY <1>0, <1>3 DEF At
  <2>4. ~At(e, "answered") /\ ~At(e, "calling") /\ \A c \in wire : c.event[1] # b
    BY <1>0, <1>1, <2>1 DEF At, Calm, OneCall
  <2>5. NewestOnly(b)'
    BY <1>1, <2>1, <2>3 DEF Calm, NewestOnly
  <2>6. OneCall(b)'
    <3>1. ASSUME NEW c \in wire', c.event[1] = b
          PROVE  /\ c.event = e /\ At(e, "calling")' /\ c.ticket = itsmMap'[b]
                 /\ c.op = OpFor[KindOf(e)] /\ (c.op = "create" => itsmMap'[b] = 0)
      <4>1. c.event = e /\ c.ticket = ticket /\ c.op \in ops
        BY <1>5, <2>4, <3>1
      <4>2. ops # {}
        BY <4>1
      <4>3. QED
        BY <1>0, <1>4, <1>7, <2>2, <2>3, <4>1, <4>2
    <3>2. QED
      BY <2>1, <3>1 DEF OneCall
  <2>7. TicketsOf(b)' = TicketsOf(b) /\ TicketsOf(b) \subseteq {itsmMap[b]}
    BY <1>0, <1>1, <2>1, <2>4 DEF TicketsOf, Calm, OneTicket
  <2>8. OneTicket(b)'
    BY <1>0, <1>4, <2>1, <2>3, <2>7 DEF OneTicket
  <2>9. StateFollows(b)'
    <3>1. CASE ~IsOver(b)
      BY <1>0, <1>1, <2>1, <2>7, <3>1 DEF Calm, StateFollows
    <3>2. CASE IsOver(b) /\ ops # {}
      BY <1>4, <2>1, <2>3, <3>2 DEF StateFollows
    <3>3. CASE IsOver(b) /\ e \in passedBy'
      BY <2>1, <3>3 DEF StateFollows
    <3>4. CASE IsOver(b) /\ ops = {} /\ e \notin passedBy'
      <4>1. itsmMap[b] = 0
        BY <1>7, <2>1, <2>2, <3>4
      <4>2. TicketsOf(b) = {}
        BY <1>0, <2>7, <4>1, TicketFacts
      <4>3. QED
        BY <2>1, <2>7, <3>4, <4>2 DEF StateFollows, Resolved
    <3>5. QED
      BY <3>1, <3>2, <3>3, <3>4
  <2>10. QED
    BY <2>5, <2>6, <2>8, <2>9 DEF Calm
<1>8. QED
  BY <1>6, <1>7

LEMMA ServeOwn ==
  ASSUME Typed, NEW c \in wire, NEW b \in Alarm, Calm(b), c.event[1] = b
  PROVE  /\ c.event = Newest(b) /\ At(c.event, "calling") /\ c.ticket = itsmMap[b]
         /\ TicketsOf(b) \subseteq {c.ticket}
         /\ \A d \in wire : d.event[1] = b => d = c
         /\ c.op = "create" => c.ticket = 0
         /\ IsOver(b) <=> c.op = "resolve"
<1>0. TypeOK /\ c \in Call
  BY DEF Typed, TypeOK
<1>1. c.event = Newest(b) /\ At(c.event, "calling") /\ c.ticket = itsmMap[b]
      /\ c.op = OpFor[KindOf(Newest(b))] /\ (c.op = "create" => c.ticket = 0)
  BY DEF Calm, OneCall
<1>2. TicketsOf(b) \subseteq {c.ticket}
  BY <1>1 DEF Calm, OneTicket, At
<1>3. \A d \in wire : d.event[1] = b => d = c
  <2>1. \A d \in wire : d.event[1] = b => d.event = c.event /\ d.ticket = c.ticket /\ d.op = c.op
    BY <1>1 DEF Calm, OneCall
  <2>2. \A d \in wire : d \in Call
    BY <1>0 DEF TypeOK
  <2>3. QED
    BY <1>0, <2>1, <2>2, CallsEqual
<1>4. IsOver(b) <=> c.op = "resolve"
  <2>1. KindOf(Newest(b)) \in Kind /\ (IsOver(b) <=> KindOf(Newest(b)) = "clear")
    BY <1>0, <1>1, OverFacts DEF At
  <2>2. QED
    BY <1>1, <2>1 DEF OpFor
<1>5. QED
  BY <1>1, <1>2, <1>3, <1>4

LEMMA AnsweredCalm ==
  ASSUME NEW b \in Alarm, NEW ticket, UNCHANGED log, NewestOnly(b)',
         At(Newest(b), "answered")', requests'[Newest(b)].ticket = ticket,
         \A d \in wire' : d.event[1] # b, TicketsOf(b)' \subseteq {ticket},
         \A i \in TicketsOf(b)' : tickets'[i].state = IF IsOver(b) THEN "resolved" ELSE "open"
  PROVE  Calm(b)'
<1>1. Newest(b)' = Newest(b) /\ IsOver(b)' = IsOver(b)
  BY DEF Newest, IsOver
<1>2. ~At(Newest(b), "begin")' /\ ~At(Newest(b), "calling")'
  BY DEF At
<1>3. OneCall(b)' /\ OneTicket(b)' /\ StateFollows(b)'
  BY <1>1, <1>2 DEF OneCall, OneTicket, StateFollows, Resolved
<1>4. QED
  BY <1>3 DEF Calm

LEMMA CalmServe ==
  ASSUME Typed, AllCalm, NEW c \in wire, Serve(c), NEW b \in Alarm, Undisturbed(b)'
  PROVE  Calm(b)'
<1> DEFINE a == c.event[1]
           ticket == IF c.op = "create" THEN Len(tickets) + 1 ELSE c.ticket
<1>0. /\ UNCHANGED <<log, itsmMap, passedBy, failed, crossed>> /\ wire' = wire \ {c} /\ TypeOK
      /\ IF At(c.event, "calling") THEN Goes(c.event, "answered", ticket) ELSE UNCHANGED requests
      /\ a \in Alarm /\ c.event \in Event /\ c.op \in {"create", "update", "resolve"}
  BY EventFacts DEF Serve, Typed, TypeOK, Call
<1>1. Undisturbed(b) /\ Calm(b)
  BY <1>0 DEF AllCalm, Undisturbed
<1>2. c.op # "create" => c.ticket \in DOMAIN tickets /\ c.ticket \in TicketsOf(a)
  BY DEF Typed, Honest, TicketsOf
<1>3. CASE b # a
  <2>1. \A f : f[1] = b => /\ f \in DOMAIN requests' <=> f \in DOMAIN requests
                           /\ f \in DOMAIN requests => requests'[f] = requests[f]
    BY <1>0, <1>3 DEF Goes
  <2>2. TicketsOf(b)' = TicketsOf(b) /\ \A i \in TicketsOf(b) : tickets'[i] = tickets[i]
    <3>1. CASE c.op = "create"
      <4>1. tickets' = Append(tickets, [event |-> c.event, state |-> "open"])
        BY <3>1 DEF Serve
      <4>2. QED
        BY <1>0, <1>3, <4>1, CreateFacts, TicketFacts
    <3>2. CASE c.op = "update"
      BY <3>2 DEF Serve, TicketsOf
    <3>3. CASE c.op = "resolve"
      <4>1. tickets' = [tickets EXCEPT ![c.ticket].state = "resolved"]
        BY <3>3 DEF Serve
      <4>2. /\ \A j \in DOMAIN tickets : j # c.ticket => tickets'[j] = tickets[j]
            /\ TicketsOf(b)' = TicketsOf(b)
        BY ONLY <1>0, <1>2, <3>3, <4>1, ResolveFacts, b \in Alarm
      <4>3. c.ticket \notin TicketsOf(b) /\ TicketsOf(b) \subseteq DOMAIN tickets
        BY <1>2, <1>3, <3>3 DEF TicketsOf
      <4>4. QED
        BY <4>2, <4>3
    <3>4. QED
      BY <1>0, <3>1, <3>2, <3>3
  <2>3. QED
    BY <1>0, <1>1, <2>1, <2>2, CalmKept
<1>4. CASE b = a
  <2>0. c.event[1] = b
    BY <1>4
  <2>1. /\ c.event = Newest(b) /\ At(c.event, "calling")
        /\ TicketsOf(b) \subseteq {c.ticket}
        /\ \A d \in wire : d.event[1] = b => d = c
        /\ c.op = "create" => c.ticket = 0
        /\ IsOver(b) <=> c.op = "resolve"
    BY ONLY Typed, c \in wire, b \in Alarm, <1>1, <2>0, ServeOwn
  <2>2. /\ TicketsOf(b)' \subseteq {ticket}
        /\ \A i \in TicketsOf(b)' : tickets'[i].state = IF IsOver(b) THEN "resolved" ELSE "open"
    <3>1. CASE c.op = "create"
      <4>1. tickets' = Append(tickets, [event |-> c.event, state |-> "open"])
        BY <3>1 DEF Serve
      <4>2. TicketsOf(b) = {}
        BY <1>0, <2>1, <3>1, TicketFacts
      <4>3. TicketsOf(b)' = {Len(tickets) + 1} /\ tickets'[Len(tickets) + 1].state = "open"
        BY <1>0, <1>4, <4>1, <4>2, CreateFacts
      <4>4. QED
        BY <2>1, <3>1, <4>3
    <3>2. CASE c.op = "update"
      <4>1. tickets' = tickets /\ ~IsOver(b)
        BY <2>1, <3>2 DEF Serve
      <4>2. QED
        BY <1>1, <2>1, <3>2, <4>1 DEF Calm, StateFollows, TicketsOf
    <3>3. CASE c.op = "resolve"
      <4>1. tickets' = [tickets EXCEPT ![c.ticket].state = "resolved"]
        BY <3>3 DEF Serve
      <4>2. tickets'[c.ticket].state = "resolved" /\ TicketsOf(b)' = TicketsOf(b)
        BY ONLY <1>0, <1>2, <3>3, <4>1, ResolveFacts, b \in Alarm
      <4>3. QED
        BY <2>1, <3>3, <4>2
    <3>4. QED
      BY <1>0, <3>1, <3>2, <3>3
  <2> HIDE DEF ticket
  <2>3. requests' = [requests EXCEPT ![c.event].step = "answered", ![c.event].ticket = ticket]
        /\ c.event \in DOMAIN requests /\ requests[c.event] \in Request
    BY <1>0, <2>1 DEF Goes, At, TypeOK
  <2>4. At(Newest(b), "answered")' /\ requests'[Newest(b)].ticket = ticket /\ DOMAIN requests' = DOMAIN requests
    <3>1. Newest(b)' = Newest(b)
      BY <1>0 DEF Newest
    <3>2. QED
      BY <2>1, <2>3, <3>1 DEF At, Request
  <2>5. NewestOnly(b)'
    BY <1>0, <1>1, <2>4 DEF Calm, NewestOnly, Newest
  <2>6. \A d \in wire' : d.event[1] # b
    BY <1>0, <2>1
  <2>7. QED
    BY <1>0, <2>2, <2>4, <2>5, <2>6, AnsweredCalm
<1>5. QED
  BY <1>3, <1>4

LEMMA CalmFlush ==
  ASSUME Typed, AllCalm, NEW e \in Event, Flush(e), NEW b \in Alarm, Undisturbed(b)'
  PROVE  Calm(b)'
<1>0. /\ UNCHANGED <<log, tickets, wire, passedBy, failed, crossed>> /\ TypeOK
      /\ e \in DOMAIN requests /\ requests[e].step = "answered" /\ requests[e] \in Request
      /\ itsmMap' = [itsmMap EXCEPT ![e[1]] = requests[e].ticket]
      /\ requests' = [requests EXCEPT ![e].step = "flushed", ![e].ticket = requests[e].ticket]
      /\ e[1] \in Alarm /\ DOMAIN itsmMap = Alarm
  BY EventFacts DEF Flush, At, Goes, Typed, TypeOK
<1>1. Undisturbed(b) /\ Calm(b)
  BY <1>0 DEF AllCalm, Undisturbed
<1>2. CASE b # e[1]
  <2>1. itsmMap'[b] = itsmMap[b]
    BY <1>0, <1>2
  <2>2. \E r : requests' = [requests EXCEPT ![e] = r]
    BY <1>0
  <2>3. QED
    BY <1>0, <1>1, <1>2, <2>1, <2>2, CalmElsewhere
<1>3. CASE b = e[1]
  <2>1. e = Newest(b) /\ Newest(b)' = Newest(b) /\ IsOver(b)' = IsOver(b) /\ TicketsOf(b)' = TicketsOf(b)
    BY <1>0, <1>1, <1>3 DEF Calm, NewestOnly, Newest, IsOver, TicketsOf
  <2>2. /\ DOMAIN requests' = DOMAIN requests /\ itsmMap'[b] = requests[e].ticket
        /\ \A step : At(e, step)' <=> step = "flushed"
    BY <1>0, <1>3 DEF At, Request
  <2>3. At(e, "answered") /\ ~At(e, "begin") /\ ~At(e, "calling")
    BY <1>0 DEF At
  <2>4. NewestOnly(b)'
    BY <1>1, <2>1, <2>2 DEF Calm, NewestOnly
  <2>5. OneCall(b)'
    BY <1>0, <1>1, <2>1, <2>3 DEF Calm, OneCall
  <2>6. OneTicket(b)'
    BY <1>1, <2>1, <2>2, <2>3 DEF Calm, OneTicket
  <2>7. StateFollows(b)'
    BY <1>0, <1>1, <2>1, <2>2, <2>3 DEF Calm, StateFollows, Resolved
  <2>8. QED
    BY <2>4, <2>5, <2>6, <2>7 DEF Calm
<1>4. QED
  BY <1>2, <1>3

(* A request that ends, and was past its calls or had none to make.         *)
LEMMA CalmEnds ==
  ASSUME Typed, AllCalm, NEW e \in Event, RecordNotified(e) \/ Unhandled(e),
         NEW b \in Alarm, Undisturbed(b)'
  PROVE  Calm(b)'
<1>0. /\ UNCHANGED <<log, tickets, itsmMap, wire, failed, crossed>> /\ TypeOK
      /\ e \in DOMAIN requests /\ Ends(e) /\ passedBy \subseteq passedBy'
      /\ requests[e].step \in {"begin", "flushed"} /\ (requests[e].step = "begin" => e \in passedBy')
  BY DEF RecordNotified, Unhandled, At, Typed
<1>1. Undisturbed(b) /\ Calm(b)
  BY <1>0 DEF AllCalm, Undisturbed
<1>2. CASE b # e[1]
  BY <1>0, <1>1, <1>2, CalmElsewhere
<1>3. CASE b = e[1]
  <2>1. e = Newest(b) /\ Newest(b)' = Newest(b) /\ IsOver(b)' = IsOver(b) /\ TicketsOf(b)' = TicketsOf(b)
    BY <1>0, <1>1, <1>3 DEF Calm, NewestOnly, Newest, IsOver, TicketsOf
  <2>2. DOMAIN requests' = DOMAIN requests \ {e} /\ \A step : ~At(e, step)'
    BY <1>0 DEF Ends, At
  <2>3. ~At(e, "answered") /\ ~At(e, "calling") /\ (At(e, "begin") => e \in passedBy')
    BY <1>0 DEF At
  <2>4. NewestOnly(b)'
    BY <1>1, <2>1, <2>2 DEF Calm, NewestOnly
  <2>5. OneCall(b)'
    BY <1>0, <1>1, <2>1, <2>3 DEF Calm, OneCall
  <2>6. OneTicket(b)'
    BY <1>0, <1>1, <2>1, <2>2, <2>3 DEF Calm, OneTicket
  <2>7. StateFollows(b)'
    BY <1>0, <1>1, <2>1, <2>2, <2>3 DEF Calm, StateFollows, Resolved
  <2>8. QED
    BY <2>4, <2>5, <2>6, <2>7 DEF Calm
<1>4. QED
  BY <1>2, <1>3

LEMMA CalmStep ==
  ASSUME Typed, AllCalm, [Next]_vars
  PROVE  AllCalm'
<1> SUFFICES ASSUME NEW b \in Alarm, Undisturbed(b)' PROVE Calm(b)'
  BY DEF AllCalm
<1>1. ASSUME NEW e \in Event, CallFails(e) \/ Dies(e) PROVE Calm(b)'
  <2>1. /\ UNCHANGED <<log, tickets, itsmMap, wire, passedBy, crossed>> /\ failed' = failed \cup {e}
        /\ Ends(e) \/ \E r : requests' = [requests EXCEPT ![e] = r]
    BY <1>1 DEF CallFails, Dies, Goes
  <2>2. b # e[1] /\ Undisturbed(b)
    BY <2>1 DEF Undisturbed
  <2>3. QED
    BY <2>1, <2>2, CalmElsewhere
<1>2. ASSUME Switch \/ UNCHANGED vars PROVE Calm(b)'
  <2>1. UNCHANGED <<log, requests, tickets, itsmMap, wire, passedBy, failed, crossed>>
    BY <1>2 DEF Switch, vars
  <2>2. Calm(b) /\ TicketsOf(b)' = TicketsOf(b)
    BY <2>1 DEF AllCalm, Undisturbed, TicketsOf
  <2>3. QED
    BY <2>1, <2>2, CalmKept
<1>3. QED
  BY <1>1, <1>2, CalmCommit, CalmLoad, CalmServe, CalmFlush, CalmEnds DEF Next, RequestStep

(* A ticket follows its alarm while no request of the alarm failed and no   *)
(* two crossed, to its end unless the clear found ServiceNow switched off   *)
(* (local-notify.js 15-16, 185, 197, servicenow.js 5-6).                    *)
THEOREM TicketsFollow == Spec => []TicketFollowsAlarm
<1>1. Init => Typed /\ AllCalm
  <2> SUFFICES ASSUME Init PROVE AllCalm
    BY TypeInit
  <2>1. DOMAIN requests = {} /\ wire = {} /\ \A a \in Alarm : TicketsOf(a) = {}
    BY DEF Init, TicketsOf
  <2>2. QED
    BY <2>1 DEF AllCalm, Calm, NewestOnly, OneCall, OneTicket, StateFollows, Resolved
<1>2. (Typed /\ AllCalm) /\ [Next]_vars => (Typed /\ AllCalm)'
  BY TypeStep, CalmStep
<1>3. Typed /\ AllCalm => TicketFollowsAlarm
  <2> SUFFICES ASSUME Typed, NEW a \in Alarm, Calm(a)
               PROVE  /\ Cardinality(TicketsOf(a)) <= 1
                      /\ IsOver(a) /\ InFlight(a) = {} /\ Newest(a) \notin passedBy => Resolved(a)
                      /\ ~IsOver(a) => \A i \in TicketsOf(a) : tickets[i].state = "open"
    BY DEF AllCalm, TicketFollowsAlarm
  <2>1. Cardinality(TicketsOf(a)) <= 1
    <3>1. PICK t : TicketsOf(a) \subseteq {t}
      BY DEF Calm, OneTicket
    <3>2. TicketsOf(a) = {} \/ TicketsOf(a) = {t}
      BY <3>1
    <3>3. CASE TicketsOf(a) = {}
      BY <3>3, FS_EmptySet
    <3>4. CASE TicketsOf(a) = {t}
      <4>1. Cardinality({t}) = 1
        BY FS_Singleton
      <4>2. QED
        BY <3>4, <4>1
    <3>5. QED
      BY <3>2, <3>3, <3>4
  <2>2. InFlight(a) = {} => ~At(Newest(a), "begin") /\ ~At(Newest(a), "calling")
    BY DEF At, InFlight, Newest
  <2>3. QED
    BY <2>1, <2>2 DEF Calm, StateFollows
<1>4. QED
  BY <1>1, <1>2, <1>3, PTL DEF Spec
=============================================================================
