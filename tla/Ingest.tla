-------------------------------- MODULE Ingest --------------------------------
(***************************************************************************)
(* The Local Console's alarm ledger, apps/console/src/ingest.js events():  *)
(* the alarm events of several collectors become one stream of FMS alarms. *)
(*                                                                         *)
(* The tables are shared by the two app nodes.  Every body is one          *)
(* transaction under the advisory lock `events`, so the events of all      *)
(* bodies form one sequence; an action stores one event.  What the event   *)
(* says besides kind, device and code is left out.                         *)
(*                                                                         *)
(* What the collectors send is AlarmFeed's stream (AlarmEngine implements  *)
(* it): one alarm of a condition at a time, each under its own alarm_id.   *)
(* The event_id is the collector with the position in what it sent.        *)
(***************************************************************************)
EXTENDS Integers, Sequences, FiniteSets

CONSTANTS
  Collector,
  Key,        \* a device and an alarm code
  Orderly,    \* which links the collectors may have, see orderly
  MaxSent     \* bound of a model: how many events the collectors send

ASSUME IngestAssumption == Orderly \subseteq BOOLEAN /\ MaxSent \in Nat

(* A collector's alarm_id: who raised it, about what, and its number.       *)
AlarmId == Collector \X Key \X Nat
Kind == {"alarm_raise", "alarm_update", "alarm_clear"}
EventId == Collector \X Nat

VARIABLES
  orderly,   \* whether events arrive in the order they were sent and none is lost
  log,       \* log[c]: the events collector c sent, [kind, alarm]
  standing,  \* the alarms open in the collectors' engines
  lost,      \* the event_ids that will never arrive
  stored,    \* alarm_events: the event_ids stored
  sources,   \* alarm_sources: source_alarm_id -> [alarm, state]
  alarms,    \* alarms: alarm_id -> state
  fresh      \* the events the latest transaction passes on, [kind, alarm]

collectorVars == <<orderly, log, standing, lost>>
tables == <<stored, sources, alarms>>
vars == <<collectorVars, tables, fresh>>

Source == [alarm : AlarmId, state : {"open", "cleared"}]

Put(f, x, v) == [y \in DOMAIN f \cup {x} |-> IF y = x THEN v ELSE f[y]]

-----------------------------------------------------------------------------
(* The collectors.                                                          *)
Position(c) == {<<c, i>> : i \in DOMAIN log[c]}
Sent == UNION {Position(c) : c \in Collector}

Send(c, kind, a) ==
  /\ Cardinality(Sent) < MaxSent
  /\ log' = [log EXCEPT ![c] = Append(@, [kind |-> kind, alarm |-> a])]
  /\ UNCHANGED <<orderly, lost, tables, fresh>>

RaiseCount(c, k) == Cardinality({i \in DOMAIN log[c] : log[c][i].kind = "alarm_raise" /\ log[c][i].alarm[2] = k})

Raise(c, k) ==
  LET a == <<c, k, RaiseCount(c, k) + 1>> IN
  /\ \A s \in standing : <<s[1], s[2]>> # <<c, k>>
  /\ Send(c, "alarm_raise", a)
  /\ standing' = standing \cup {a}

Update(a) ==
  /\ Send(a[1], "alarm_update", a)
  /\ UNCHANGED standing

Clear(a) ==
  /\ Send(a[1], "alarm_clear", a)
  /\ standing' = standing \ {a}

(* An event that never arrives: its collector died before it was queued, or *)
(* the console refused the body it was in.                                  *)
Lose(id) ==
  /\ ~orderly
  /\ id \notin stored \cup lost
  /\ lost' = lost \cup {id}
  /\ UNCHANGED <<orderly, log, standing, tables, fresh>>

Arrives(id) ==
  /\ id \notin lost
  /\ orderly => \A i \in 1 .. id[2] - 1 : <<id[1], i>> \in stored \cup lost

-----------------------------------------------------------------------------
(* The transaction.                                                         *)
(* Mutant: nothing is known of earlier bodies.                              *)
SeenNever(id) == FALSE

Seen(id) == id \in stored

IsOpen(a) == a \in DOMAIN alarms /\ alarms[a] = "open"

(* Open alarms of the same device and code that another collector raised:   *)
(* none of their sources is this collector's.  The code takes the one with  *)
(* the earliest raised_at, a collector's time; here any of them.            *)
OpenFor(a) ==
  {b \in DOMAIN alarms \ {a} :
     /\ IsOpen(b) /\ b[2] = a[2]
     /\ \E s \in DOMAIN sources : sources[s].alarm = b
     /\ \A s \in DOMAIN sources : sources[s].alarm = b => s[1] # a[1]}

(* The FMS alarm an event is about: the one its alarm was mapped to, else   *)
(* one another collector has open, else its own.                            *)
Target(kind, a) ==
  IF a \in DOMAIN sources THEN {sources[a].alarm}
  ELSE IF kind # "alarm_clear" /\ OpenFor(a) # {} THEN OpenFor(a)
  ELSE {a}

OthersOpen(b, a) == \E s \in DOMAIN sources \ {a} : sources[s] = [alarm |-> b, state |-> "open"]

(* Mutant: the first collector's clear clears for all.                      *)
EffectiveFirstClear(kind, a, b) == ~(kind = "alarm_raise" /\ b # a /\ IsOpen(b))

Effective(kind, a, b) ==
  /\ ~(kind = "alarm_raise" /\ b # a /\ IsOpen(b))
  /\ ~(kind = "alarm_clear" /\ OthersOpen(b, a))

(* Mutant: the row's state is the event's kind.                             *)
AppliedKind(kind, b) == Put(alarms, b, kind)

(* The alarms row after an effective event.                                 *)
Applied(kind, b) ==
  IF kind # "alarm_clear" THEN Put(alarms, b, "open")
  ELSE IF b \in DOMAIN alarms THEN Put(alarms, b, "cleared")
  ELSE alarms

(* Mutant: a merged event leaves its source as it was.                      *)
StoreEffectiveOnly(id, kind, a) ==
  \E b \in Target(kind, a) :
    /\ stored' = stored \cup {id}
    /\ IF Effective(kind, a, b)
       THEN /\ sources' = Put(sources, a, [alarm |-> b, state |-> IF kind = "alarm_clear" THEN "cleared" ELSE "open"])
            /\ alarms' = Applied(kind, b)
            /\ fresh' = {[kind |-> kind, alarm |-> b]}
       ELSE fresh' = {} /\ UNCHANGED <<sources, alarms>>

Store(id, kind, a) ==
  \E b \in Target(kind, a) :
    /\ stored' = stored \cup {id}
    /\ sources' = Put(sources, a, [alarm |-> b, state |-> IF kind = "alarm_clear" THEN "cleared" ELSE "open"])
    /\ IF Effective(kind, a, b)
       THEN alarms' = Applied(kind, b) /\ fresh' = {[kind |-> kind, alarm |-> b]}
       ELSE alarms' = alarms /\ fresh' = {}

Receive(id) ==
  LET e == log[id[1]][id[2]] IN
  /\ Arrives(id)
  /\ IF Seen(id) THEN fresh' = {} /\ UNCHANGED tables
     ELSE Store(id, e.kind, e.alarm)
  /\ UNCHANGED collectorVars

-----------------------------------------------------------------------------
Init ==
  /\ orderly \in Orderly
  /\ log = [c \in Collector |-> <<>>]
  /\ standing = {}
  /\ lost = {}
  /\ stored = {}
  /\ sources = [a \in {} |-> a]
  /\ alarms = [a \in {} |-> a]
  /\ fresh = {}

Next ==
  \/ \E c \in Collector, k \in Key : Raise(c, k)
  \/ \E a \in standing : Update(a) \/ Clear(a)
  \/ \E c \in Collector : \E id \in Position(c) : Lose(id) \/ Receive(id)

Spec == Init /\ [][Next]_vars

-----------------------------------------------------------------------------
TypeOK ==
  /\ orderly \in BOOLEAN
  /\ log \in [Collector -> Seq([kind : Kind, alarm : AlarmId])]
  /\ standing \subseteq AlarmId
  /\ lost \subseteq EventId
  /\ stored \subseteq EventId
  /\ DOMAIN sources \subseteq AlarmId
  /\ \A a \in DOMAIN sources : sources[a] \in Source
  /\ DOMAIN alarms \subseteq AlarmId
  /\ \A a \in DOMAIN alarms : alarms[a] \in {"open", "cleared"}

Holders(b) == {s \in DOMAIN sources : sources[s] = [alarm |-> b, state |-> "open"]}

(* The two tables agree, whatever order the events come in and whichever    *)
(* are lost: an FMS alarm is open exactly while a collector alarm mapped to *)
(* it is (ingest.js 17: "the alarm clears when the last collector clears    *)
(* it"), and it is about the same device and code.                          *)
OpenWhileHeld ==
  /\ \A b \in DOMAIN alarms : IsOpen(b) <=> Holders(b) # {}
  /\ \A s \in DOMAIN sources :
       /\ sources[s].state = "open" => sources[s].alarm \in DOMAIN alarms
       /\ sources[s].alarm[2] = s[2]

(* Once everything a collector sent has arrived, in order and replays       *)
(* included, the ledger holds open exactly the alarms its engine holds open.*)
SettledIsTrue ==
  orderly => \A c \in Collector :
    Position(c) \subseteq stored =>
      {s \in DOMAIN sources : s[1] = c /\ sources[s].state = "open"} = {a \in standing : a[1] = c}

(* What goes on to the Portal and the notifier is MergedFeed's stream: one  *)
(* raise and one clear for each FMS alarm, nothing heard twice of a replay, *)
(* as long as the collectors' events come in order.                         *)
KeyOf(a) == a[2]
Merged == INSTANCE MergedFeed WITH
            Alarm <- Collector \X Key \X (1 .. MaxSent),
            Condition <- KeyOf,
            holders <- [b \in DOMAIN alarms |-> Holders(b)],
            over <- {s \in DOMAIN sources : sources[s].state = "cleared"},
            heard <- {<<e.kind, e.alarm>> : e \in fresh}
MergeKept == (orderly => Merged!MergedInit) /\ [][orderly => Merged!MergedNext]_(Merged!mergedVars)
=============================================================================
