# CFLEX FMS: specification, model checks and proofs

This directory specifies the alarm path of the CFLEX FMS: from a condition seen
on a UPS, through the Collector (`probe-agent/`) and the Local Console
(`apps/console/`), to the Portal, to ServiceNow and to the incidents of the
backend (`backend/`). The specifications are TLA+ modules translated from the
source. TLC checks them on small instances; TLAPS proves every safety property of the
runs, invariants, action properties and refinements, for every value of their
constants. Liveness is left to TLC.

Paths below are relative to `src/` unless they end in `.tla` or `.cfg`.

## 1. The system

```
 UPS, PDU, CRAC ... --SNMP--> Collector (probe-agent, one process each)
                              pollers, trap handler -> alarm engine
                              console client + SQLite queue
                                   |  POST /events, /telemetry (either node)
                                   v
                              Local Console (apps/console, two app nodes)
                              ingest -> PostgreSQL -> notifier -> ServiceNow, mail, Teams
                              portal_outbox, drained by the lock holder
                              sessions and lockout in Redis
                                   |  POST, Idempotency-Key
                                   v
                              Portal

 probes ---- POST /v1/probe/event, heartbeats ----> Backend (one process, one database)
                              alert -> incident -> triage <- re-evaluation queue
                              people, dispatch, verification, probe health
```

### Components, their state and what is hard about them

| Component | State | Operations | Hard behaviour | What makes it correct |
|---|---|---|---|---|
| Alarm engine (`probe-agent/src/alarms/engine.js`, `persist.js`, `codes.js`) | open alarms, flap history, poll cycles, comm-loss count, battery times, maintenance windows; one SQLite row | `observe`, `clear`, `beginCycle`, `commStatus`, `setMaintenance`, restore at start | crashes between two calls; flap and maintenance rules across long sequences of calls | one alarm per device and code, under one id across restarts; bounded raises; no clear for what was never announced |
| Poll loop and trap handler (`index.js`, `pollers/ups.js`, `forwarder.js`, `trap/handler.js`) | alerts of the poll under way, held comm losses, deferred clears | polls, traps, minute tick, config pull | each alert is awaited, so traps and the tick interleave with a poll | the capacity warning stays silent on battery; comm loss is patient; a deferred clear is not forgotten |
| Console client (`probe-agent/src/console/client.js`, `buffer.js`) | persistent queue, back-off, index of the node, the flush pass that callers share | `events`, `flushTelemetry`, `flush`, failover, purge | concurrent calls, requests that time out and are served later, a purge under a pass, crashes | no list forgotten; order of lists; everything settles |
| Ingest (`apps/console/src/ingest.js`) | `alarms`, `alarm_sources`, `alarm_events` | one transaction per body under an advisory lock | several collectors on one condition, replays, lost and reordered events | an FMS alarm is open exactly while a collector alarm holds it |
| Portal link (`apps/console/src/portal.js`, `db.js`) | `portal_outbox`, sender lock, back-off of each node, the batch a pass has read, whether the node's clock is off | enqueue, release, flush, heartbeat, clock check, purge | a lock that moves in mid-pass, a batch that grows stale, Retry-After, crashes | no row lost, events in order, Retry-After kept, Portal and node agree on the node's clock, the outbox drains |
| Notification (`apps/console/src/notify.js`, `alarms/local-notify.js`, `packages/notify/`) | `itsm_map`, `local_notified` of an event | `forEvents`, `recordNotified` | requests of one alarm that cross on two nodes, calls that time out and are served later, a process that dies after the commit, channels switched off one by one | one ticket per alarm, resolved with it; a second one has a known cause; what is recorded is true |
| Redis client and lockout (`redis.js`, `auth.js`) | socket, commands in flight, the counter of an account | `command`, socket events, `fail`, `clear` | one failure is two socket events; INCR and EXPIRE are two commands | a caller gets its own reply; a lockout ends |
| Incidents (`backend/services/fms-incident.js`, `backend/incident/`, `backend/routes/incidents.routes.js`, `probe.routes.js`) | alerts, tickets with their verification | alarms, state changes, dispatch, verification, tickets by hand | a status read before an await; verdicts of an earlier resolution; a dedup window that ignores what became of the incident | one active incident per cause; nothing revives what is closed; a failed verification reopens |
| Probe health (`backend/services/fms-probe-health.js`) | last heartbeat, the flag of an outage, the tickets above | sweep, heartbeat | people and verifications move the same ticket; a ticket that could not be written | one alert per outage, an incident while it lasts, none after it |
| Re-evaluation and triage (`backend/services/fms-reeval.js`, `fms-triage.js`) | debounce timers, time stamps of an hour, triages that await the model, the stored opinion | trigger, timer, direct run, answer | runs that overtake each other, the cap, a restart that empties the memory | what there was to know when a trigger was accepted is in the opinion; the cap bounds the starts |

`PROJECT.json` lists every component, those that are not modelled with the reason.

### How they interact

The engine runs inside the Collector's single-threaded process: an engine call is
never interrupted. Its events leave through `events()` of the console client,
which awaits the network. The two app nodes share only PostgreSQL and Redis: ingest
serialises event bodies by an advisory transaction lock, the Portal link elects
its sender with an advisory session lock. After the ingest transaction has
committed and the collector has its answer, the notifier runs, and its result
releases the event row of the outbox (`server.js` 316-333). Two events of one
alarm may be with two nodes' notifiers at once.

The backend is one process on a synchronous store: a handler is interrupted only
where it awaits a model or a channel. An alarm it accepts makes an alert, joins
or makes an incident, and starts a triage; a triage stores the condition that a
resolution will verify; a verification that fails reopens the incident, which
queues a re-evaluation.

## 2. Modules

| Module | Models | Steps |
|---|---|---|
| `AlarmFeed` | abstract: what a Collector promises the reader of its events | a turn raises, updates, clears |
| `AlarmEngine` | `engine.js`, `persist.js` | one action per engine call, or for the calls a handler makes before its first await; a crash between any two |
| `Collector` | `AlarmEngine` under its two drivers | each alert of a poll, each trap, each tick |
| `ConsoleLink` | `client.js`, `buffer.js` | start, end of an attempt, settlement of a call, purge, another call's failover |
| `MergedFeed` | abstract: what the Console promises the reader of its events | open, join, update, leave, replay |
| `Ingest` | `ingest.js events()` over the three tables | one event of a body |
| `PortalOutbox` | `portal.js` from the INSERT to the answer of the Portal, and `checkClock` | a step ends where the code awaits the database, the lock or the Portal: an answer, the UPDATE that records it and the wait are apart |
| `Notify` | `notify.js`, `local-notify.js`, the route's order of commit, notification and record | the reads before the channels are called are one step, then a step ends where the code awaits ServiceNow or a write |
| `RedisClient` | `redis.js` | an event of the loop with the promise reactions it sets off |
| `Lockout` | `auth.js` `createLockout` on `RedisClient`, under the login route | each command of a login |
| `Incidents` | the incident's state machine and its unique index under the routes that drive it | a handler up to its end or its await |
| `ProbeHealth` | `fms-probe-health.js` on `Incidents` | one probe of a sweep, one heartbeat |
| `Triage` | `fms-reeval.js` and the course of `triageIncident` | trigger, timer, answer, restart |
| `AlarmEngineProofs` (with the theorems about `Collector`), `LinkProofs`, `IngestProofs`, `OutboxProofs`, `NotifyProofs`, `LockoutProofs`, `TriageProofs`, `IncidentProofs` | theorems | |
| `MCAlarmEngine`, `MCCollector`, `MCConsoleLink`, `MCIngest`, `MCPortalOutbox`, `MCNotify`, `MCLockout`, `MCIncidents`, `MCTriage` | constants for TLC | |

How they compose: `Collector` EXTENDS `AlarmEngine` and drives its actions.
`AlarmEngine` implements `AlarmFeed`, and `Ingest` takes a stream of that shape
from each collector as its input. `ConsoleLink` decides in which order and how
often that stream arrives; `Ingest` therefore has two kinds of run in one
instance, orderly links and links that lose and reorder (`orderly`). `Ingest`
implements `MergedFeed`; `PortalOutbox` carries its stream on, and `Notify` takes
it as its input. `Lockout` EXTENDS `RedisClient` and issues its commands.
`ProbeHealth` EXTENDS `Incidents`: sweeps and heartbeats act on the tickets that
people and verifications act on.

### Correspondence worth knowing

* **alarm_id** is a random UUID in the code; in `AlarmEngine` it is the pair of
  the key and the number of the alarm among those of that key, so that "a fresh
  id" can be told from "the old id".
* **Time** in `AlarmEngine` is a clock; the spans of the code are a tick or two. Flap
  window and quiet time are equal in every run, as they are by default; the other
  spans are not to scale, and each is short enough to pass within a run. In
  `Incidents` a tick is the dedup window of ten minutes, or less; a device's time
  may be `Ahead` off. In `PortalOutbox` and `ConsoleLink` time is told by its
  effects: the hold, or the back-off, is over.
* **save()** is written by the same call that changes the alarm, in the same
  step: SQLite is synchronous in `persist.js`. `StoreFails` adds a store that
  may fail; no run enables it.
* **What a row of the outbox says** is only whether it carries collectors' events,
  whether it is held, and whose clock it is about, if any. What the notifier
  delivered (`local_notified`) is left out. A pass keeps the copy of the
  row it has read, not the row itself, as `flushOnce` does.
* **A cause** in `Incidents` stands for a (tenant, dedup_key): one metric of one
  device, whose P1 and P2 alarms share an incident, or one silent probe.
* **An opinion** in `Triage` is the set of evidence the triage had collected; what it
  concludes is left out. Not all that happens becomes evidence: `collectContext()`
  finds the incident's row and the samples and alarms of the windows around
  `created_at`, but none of the reports (notes, dispatch comments, control results)
  that queue a run.
* **A request** in `Notify` carries one event. E-mail and Teams are one channel without
  effect; ServiceNow keeps tickets and may serve a call nobody waits for. An event
  sent again is a duplicate to the ledger, which `Ingest` models, and is not passed on.
* Telemetry, heartbeats and inventory are rows or calls without content.
* **History variables** (`raisedAt`, `announced`, `toldAt`, `seenAt`, `trapHolds`,
  `silentFrom`, `lostFrom`, `givenUp`, `asked`, `overlapped`, `purged`, `untold`,
  `failed`, `crossed`, `passedBy`, `swallowed`, `excused`, `touched`, `interrupted` and so on)
  are read by properties only, except that `raisedAt` also stands for the time
  stamps of the flap history: `raises[k]` holds the numbers of the recent alarms.
  Those among them that excuse a property name the case in which the code does
  less than one would wish; each is described in section 5.

Operators commented "Mutant:" are wrong variants of the definition below them. They
take no part in any specification; each property is checked to fail when its
variant takes the place of the right definition.

## 3. Runs

`Incidents` and `Outages` check for deadlock. The other runs say
`CHECK_DEADLOCK FALSE`: their models have a bound on time, events or rows, and stop
when it is used up.

| Run | Instance | Shows |
|---|---|---|
| `Engine` | one device, one code both polls and traps see (`UPS_COMM_LOST`), one maintenance window, one crash, three alarms, four ticks | the row is the open alarms (`RowIsCurrent`); the engine implements `AlarmFeed` (`FeedKept`); `RaisesBounded`, `FlapQuietKept`, `UpdatesSpaced`, `ClearOnlyIfTold` |
| `CollectorPower` | on-battery and low-capacity in one reading, their alerts interleaved with traps and ticks, one crash | `CapacitySilentOnBattery`, `CapacityHoldKept`, `StandingAlarmKept`; the drivers use the engine only as `AlarmEngine` allows (`EngineKept`) |
| `CollectorTraps` | `communicationLost` and its clear, unanswered polls, five ticks, a crash | `CommLossPatient`, `DeferredClearKept` |
| `Link` | two nodes, three lists, batches of two, one telemetry batch, two faults, one crash, one purge, with fairness | `Accounted`, `OrderedApart`, `Settles` |
| `Ingest` | three collectors on one condition, six events, both kinds of link | `OpenWhileHeld`, `SettledIsTrue`; the ledger implements `MergedFeed` when the links are orderly (`MergeKept`) |
| `Outbox` | two nodes, two rows, batches of two, one crash, broken session, failed INSERT or purge, the clock of one node going wrong and right | `NothingLost`, `EventsInOrder`, `RetryAfterKept`, `ClockAgrees` |
| `OutboxDrains` | two nodes, one row, two troubles, with fairness | `Drains` |
| `Notify` | an alarm through its whole life and the raise of another, one fault (a failed call, a request that dies, a channel switched off), suppression at will, with fairness | `TicketFollowsAlarm`, `NotifiedIsTrue`, `SecondTicketExplained`, `TicketEnds` |
| `Lockout` | three logins of one account, one failure of the connection, three sockets, with fairness | `ReplyIsOwn`, `LockoutEnds` |
| `Incidents` | P1 and P2 alarms of one device, four acts of people, two incidents and one made by hand, one incident that cannot be written | `SwallowedBriefly`, `FailedIsReopened`, `NoRevival` |
| `Outages` | one collector, five ticks, four acts of people, one incident that cannot be written, with fairness | `OutageFollowed`, `SilenceIsTold` |
| `Triage` | four pieces of news, of which some become evidence, two direct runs, one restart, a cap of two in four ticks | `OpinionFollowsNews`, `CapKept` |

### Bounds and why they are enough

The properties speak of one key, one list, one pair of events, one row or one
incident, and what disturbs them is a handful of steps. `Engine` has as many alarms
as it takes to start flapping (`FlapRaises` = 2), to end and to raise once more, and
time for a window, a quiet time and an update after it. `Ingest` has three collectors,
so that one may join, leave and come back while another holds the alarm; six events
are two life cycles shared among them. `Link` has three lists: one that fails, one
that overlaps it and one after both; a pass reads two at a time, so that the third
meets a second batch. `Outbox` has two rows, so that order means something and a
clock may go wrong and right, a batch of two, so that the second row of a batch may
grow stale, and two nodes. `OutboxDrains` has one row because progress is by row, and
two troubles because the second must find the first not yet repaired.

`Notify` has the three events that an alarm's life consists of, so that any two of
them may cross, and the second alarm, so that tickets have something to be confused
with. `Lockout` has three logins because the first to fail sets the counter's life,
the second must find it set, and one more crosses them; a failure costs at most two
sockets, hence three. `Incidents` has room for an incident and the one that follows it,
and four acts: resolve, verify, reopen, and one that interferes. `Outages` has time for
two outages. `Triage` has one trigger more than the cap allows, within the hour and
after it.

Devices are independent in the code (every map is keyed by device, every incident by its
cause), which is why one is enough in the runs of the Collector and of the incidents.

The bounds that exist in the model only are `MaxTime`, `MaxAlarms`, `MaxCycle`,
`MaxRestarts`, `MaxSent`, `MaxEvents`, `MaxTelemetry`, `MaxFaults`, `MaxPurges`,
`MaxRows`, `MaxTrouble`, `MaxSockets`, `MaxTickets`, `MaxActs`, `MaxNews` and
`MaxDirect`. `Drifting` and `Front` say which nodes' clock may go wrong and which nodes
the collectors post to, to keep the states of `Outbox` few.

### Fairness

`ConsoleLink`: the timers of `index.js` 169-176 call `flush` again and again, and
the back-off timer is a clock (weak fairness); an attempt ends, for each request has
a timeout (weak fairness of "the attempt of this message ends", whichever way). That
the console answers in the end is not a fairness assumption: faults are bounded.

`PortalOutbox`: the flush timer of each node runs every five seconds, waits and
holds end, a dead session is noticed (weak fairness). Reading a batch, an accepted
POST and the deletion of the row have strong fairness: passes begin again and again,
and a database and a Portal that answer only sometimes answer in the end; a row put off
is recorded and the wait begins, or the query fails (weak fairness). Nothing is
assumed of crashes, purges or the notifier, who may never answer.

`Notify`: every await of a request ends, because queries and calls have timeouts, and
a call that does not fail is served (weak fairness). Which way it ends is open.

`Lockout`: the event loop goes on, Redis serves what it was sent, a login goes on when
its command has settled, and a key whose life is over disappears (weak fairness).

`ProbeHealth`: the sweep runs every minute (weak fairness of each probe's turn).
Nothing is assumed of heartbeats, people or the clock.

## 4. Theorems

| Theorem | States | Assumes |
|---|---|---|
| `AlarmEngineProofs!TypeCorrect` | `Spec => []TypeOK` | the assumptions of `AlarmEngine` |
| `AlarmEngineProofs!RowCurrent` | `Spec => []RowIsCurrent` | the store works (`StoreFails = FALSE`) |
| `AlarmEngineProofs!ClearsAreTold` | `Spec => ClearOnlyIfTold` | the store works |
| `AlarmEngineProofs!EngineImplementsFeed` | `Spec => FeedKept`, the refinement of `AlarmFeed` | the store works |
| `AlarmEngineProofs!FlapQuietHolds` | `Spec => FlapQuietKept` | |
| `AlarmEngineProofs!StandingAlarmHolds` | `Spec => StandingAlarmKept` | |
| `AlarmEngineProofs!UpdatesAreSpaced` | `Spec => UpdatesSpaced` | the store works |
| `AlarmEngineProofs!CapacityIsHeld` | `Spec => CapacityHoldKept` | the store works |
| `AlarmEngineProofs!RaisesAreBounded` | `Spec => []RaisesBounded` | `FlapRaises >= 1`, `FlapWindow <= FlapQuiet` (3, and 15 minutes each, in `engine.js` 37-40) |
| `AlarmEngineProofs!CollectorImplementsEngine` | `CollectorSpec => EngineKept`, that is, `Spec` | the assumptions of `Collector` |
| `AlarmEngineProofs!CommLossIsPatient` | `CollectorSpec => CommLossPatient` | |
| `AlarmEngineProofs!CapacityIsSilent` | `CollectorSpec => CapacitySilentOnBattery` | the store works |
| `AlarmEngineProofs!DeferredClearsKept` | `CollectorSpec => []DeferredClearKept` | |
| `LinkProofs!TypeCorrect` | `Spec => []TypeOK` | the assumptions of `ConsoleLink` |
| `LinkProofs!NoListForgotten` | `Spec => []Accounted` | |
| `LinkProofs!ListsInOrder` | `Spec => []OrderedApart` | |
| `IngestProofs!LedgerTypeCorrect` | `Spec => []TypeOK` | |
| `IngestProofs!HeldOpen` | `Spec => []OpenWhileHeld` | |
| `IngestProofs!LedgerIsTrue` | `Spec => []SettledIsTrue` | |
| `IngestProofs!FeedIsMerged` | `Spec => MergeKept`, the refinement of `MergedFeed` over orderly links | |
| `OutboxProofs!TypeCorrect` | `Spec => []TypeOK` | the assumptions of `PortalOutbox` |
| `OutboxProofs!EventsArriveInOrder` | `Spec => []EventsInOrder` | |
| `OutboxProofs!ClockIsTold` | `Spec => []ClockAgrees` | |
| `OutboxProofs!OutboxKeepsRows` | `Spec => NothingLost` | |
| `OutboxProofs!PortalIsWaitedFor` | `Spec => RetryAfterKept` | |
| `NotifyProofs!TypeCorrect` | `Spec => []Typed`, types and that what is remembered as a ticket is one of the alarm | the assumption of `Notify` |
| `NotifyProofs!RecordsTrue` | `Spec => []NotifiedIsTrue` | |
| `NotifyProofs!SecondTicketsExplained` | `Spec => []SecondTicketExplained` | |
| `NotifyProofs!TicketsFollow` | `Spec => []TicketFollowsAlarm` | |
| `LockoutProofs!OwnReply` | `Spec => []ReplyIsOwn` | the assumptions of `Lockout`, `RedisClient` |
| `IncidentProofs!TypeCorrect` | `Spec => []Typed`, types of incidents and probe health | the assumptions of `Incidents`, `ProbeHealth` |
| `IncidentProofs!NothingRevives` | `Spec => NoRevival` | |
| `IncidentProofs!SwallowedShortly` | `Spec => []SwallowedBriefly` | |
| `IncidentProofs!FailedReopens` | `Spec => []FailedIsReopened` | |
| `IncidentProofs!OneAtATime` | `Spec => []OneActivePerCause` | |
| `IncidentProofs!OutagesFollowed` | `Spec => []OutageFollowed` | |
| `TriageProofs!TypeCorrect` | `Spec => []TypeOK` | the assumptions of `Triage` |
| `TriageProofs!OpinionKept` | `Spec => []OpinionFollowsNews` | |
| `TriageProofs!CapHolds` | `Spec => []CapKept` | |

They hold for any number of devices, codes, windows, collectors, app nodes and
probes, and any value of the time constants, batch size and bounds. What the
assumptions ask of the constants is what the code fixes: spans are numbers, a batch
and the quiet time are not zero, on-battery and low-capacity are two codes, a comm
loss is among the codes no poll reads (`POLL_SEEN` of `apc-mib.js` leaves it out), no
trap says low capacity, and a value that stands for "none" is no device and no node.

The arguments:

* **Engine.** Every action but `Restart`, `SetMaintenance` and `Tick` contains one
  `EngineStep`, so the proofs first reduce `Next` to a turn, a restart, or neither
  (`NextIsTurn`). `RowInv`, types and `RowIsCurrent`, is inductive: what a turn
  changes of an alarm that the row keeps is what makes `NeedsSave` true
  (`TurnKeepsRow`), and a restart brings back what the row holds
  (`RestartKeepsRow`). The refinement follows from it, for after a restart the open
  alarms are those that stood before. `ClearOnlyIfTold` is not inductive on what the
  events say; it needs the state to say that an open alarm not marked as in
  maintenance has been announced (`Told`), and `RowInv` carries `Told` over a
  restart.
* **Engine, times.** The properties compare the engine with histories of what was
  seen and said, so each proof first ties the engine's own times to the history.
  `WatchInv`: nothing was observed since a quiet time began, and what was observed
  since the device's poll before carries the number of the cycle under way; from it
  `FlapQuietKept` and `StandingAlarmKept`, with a failing store too, since a restart
  makes alarms younger, never older. `TimesInv`: an alarm remembers when it was last
  told, and memory and row remember when the battery was last in use, but while the
  alarm that says so is open; from it `UpdatesSpaced` and `CapacityHoldKept`. `FlapInv`,
  for `RaisesBounded`: the flap history holds every recent raise, an alarm that does not
  flap leaves room for another, and a flapping one was observed since all of its raises;
  that is why, once it has been quiet for `FlapQuiet`, none of them is recent.
* **Collector.** `CollectorMoves` shows that each step of a driver is a step of
  `Next`; a loss held back, which the engine does not hear of, is to it the clear of
  an alarm that is not open (`HeldIsClear`). With it every theorem about `Spec` holds of
  `CollectorSpec`. `DriverInv` adds what the drivers keep: a silence and a held loss
  are no older than the history says they are, a held loss has a trap behind it, and
  a poll that read on battery has handed that alert over before any other.
  `RaiseComesFrom` names the four ways to a raise; `LatchComesFrom` the two to a latch.
* **Link.** `Accounted` is nearly inductive: a list leaves a call's hands only for the
  queue or once it is settled. `OrderedApart` rests on `AllInOrder`: if the call for an
  earlier list was settled before the later one was given, the earlier is settled for
  good, or both wait in the queue in that order; a call posts its own list only when
  the queue is empty, and a pass goes through its rows first to last.
* **Ledger.** `OpenWhileHeld` is inductive together with the type invariant. The proof
  follows `Store`: the target of an event is the alarm mapped already, an open one of
  the same condition, or its own (`TargetFact`); in each case what `Effective`
  suppresses is exactly what would make the two tables disagree. `SettledIsTrue` and the
  refinement of `MergedFeed` need that over an orderly link the ledger has read a prefix
  of what each collector sent (`LedgerInv`), and that an engine raises an alarm once and
  speaks of it only while it is open (`LogInv`).
* **Outbox.** `NothingLost` needs to know, when `Done` deletes a row, that
  it was stored or refused, two steps after the answer and with another sender at
  work in between: `PassHonest`. `RetryAfterKept` needs that a node the Portal
  has asked to wait is still in the pass that got the 429, recording it, or else is idle,
  waiting and throttled (`AskedRests`): in the first case whoever calls for a flush
  shares that pass, in the second a heartbeat leaves the wait alone, and an idle node
  posts nothing until the wait is over.
  `EventsInOrder` rests on `OrderInv`: what a batch leaves out is younger than what it
  holds, an events row is older than the only events transaction under way, and a row
  that was sent and no longer waits was stored or given up; so nothing older can still
  be on its way, be it by a request served late. `ClockAgrees` needs that a node's newest
  clock event says what the node thinks (`NewestAgrees`).
* **Notification.** `NotifiedIsTrue` needs to know of everything that will become a
  record, the row of the map, a request's answer, a call on the wire, that it names
  a ticket of the same alarm (`Honest`); tickets are never taken away.
  `SecondTicketExplained` rests on `Explained`: an event asks for a ticket once, be the
  call on the wire or served (`AskedOnce`); an earlier event that opened one and did not
  fail has told the row by the time its request ends (`RowKnows`), so that a later one
  that asks all the same was committed before that (`Overlaps`).
  `TicketFollowsAlarm` rests on `Calm`: while no request of the alarm failed and
  no two crossed, only its newest event is under way, at most one call of it is on
  the wire, and the row, or the request that holds the answer, knows the one ticket.
* **Redis client.** `ReplyIsOwn` rests on `Orderly`, which holds until a second socket
  is opened next to a live one: the list of commands in flight is, in order, what
  the one socket that is up still has to answer, replies on the way first (`Fits`);
  a caller stands in one list, once, while it waits. Between the two calls of `down()`
  no socket is up, so the second finds nothing in flight.
* **Incidents.** Every step either leaves the tickets alone, adds one, or edits one
  (`Shape`, `StepShape`): a move along the state machine that, from a resting status
  to an active one, needs the unique index. `OneActivePerCause` is inductive
  over these shapes, and so is what `NoRevival` says of each. `SwallowedBriefly` is
  not inductive: `WindowEnds` adds that the stored alert is at most `Ahead` newer
  than the first dropped alarm, and it does not move while alarms are dropped.
  `OutageFollowed` is proved from `Outage`, which ties the number of alerts to the
  flag, together with `OneActivePerCause`: a heartbeat resolves the newest
  active ticket of the probe, and that is all there is.
* **Triage.** `OpinionFollowsNews` needs that the evidence due, what there was when the
  last trigger was accepted, is covered by the timer, by a triage under way that has it,
  by the stored opinion, or by an excuse; evidence is never taken away, so a triage that
  starts later has it. `CapKept` compares
  two lists, the time stamps the queue prunes and the starts of the process: for an hour
  a start is among the stamps (`Remembered`), so that when a timer is armed below the
  cap, the start that would make one too many is an hour old (`Room`).

The inductive invariants were themselves checked by TLC on the instances of the runs
before they were proved.

Left to TLC: liveness (`Settles`, `Drains`, `TicketEnds`, `LockoutEnds`,
`SilenceIsTold`), which is out of the prover's reach under fairness. Not proved is
anything about a failing store beyond the theorems that do not assume a working one:
after a restart from an old row, alarms may come back that were cleared.

## 5. Known limits of what is shown

These are things the code does that the properties above do not promise, or that
lie outside the models.

Collector:

* The flap history is forgotten by a restart (`engine.js` 29-30), so `RaisesBounded`
  speaks of the time before the first one. The bound also needs
  `flapQuietMs >= flapWindowMs`; the defaults are equal.
* An alarm that was announced and is then observed inside a maintenance window is
  announced again when the window ends (`engine.js` 156-164). One that ends inside a
  window is cleared with the mark it had when it was last observed.
* A comm loss that a trap raised is ended by an answered poll (`engine.js` 221-223).
  A clear trap that the flap rule deferred is applied by the tick although a raise
  trap followed it (`handler.js` 146); a restart forgets it.
* The failover index is shared by concurrent calls: two calls that fail together
  advance it twice, and each may try the node it came from again.
* Two `events()` calls under way at once, the first of which fails and is queued, are
  stored in the other order (`client.js` 179-187): `OrderedApart` leaves overlapping
  calls aside. So does a purge that takes a list while a pass has read it: a later
  one overtakes it.
* An event handed to `events()` is in memory only until it is stored or queued,
  while the engine's row already records it: a crash there loses it. `Accounted`
  counts it under `crashed`.
* Any 4xx but 409 and 429 drops a list or a row, a 401 included. Lists and rows are
  purged after their retention, delivered or not.
* A device's id changes when its serial becomes known, and a device may leave the
  inventory; an alarm open at that time has no poll that ends it.

Console:

* A raises, B joins, B's clear is merged, B raises again: `openFor` leaves the open
  alarm out because B is among its sources (`ingest.js` 47), and a second row of the
  condition opens.
* The wait after a 429 begins only when the attempt has been recorded in the row. If
  that UPDATE throws (`portal.js` 223), the pass ends in the catch of `flush()` (237) with
  no wait, and the row is posted again on the next 5 s tick, inside its Retry-After.
  `RetryAfterKept` forgets such a 429 (`QueryFails`), and one a restart forgets. The wait
  after a 409, a 5xx or no answer is a back-off, which a heartbeat ends (375).
* `throttled` stays as it was when a request ends without an answer
  (`portal.js` 201-206), so a heartbeat does not cut that back-off short. It delays,
  it does not lose.
* While a broken lock session is not yet noticed, two nodes drain the same rows; the
  Idempotency-Key makes that harmless (`NothingLost`, `EventsInOrder`).
* A pass that has read a held row posts the copy it read, without `local_notified`,
  when the hold ends in mid-pass, though the row was released meanwhile
  (`portal.js` 197).
* `checkClock` sets `drift` in memory before it inserts the event (`portal.js`
  310-326). After an INSERT that fails the drift, or its end, is never told; a node
  that restarts while its clock is off raises a second alarm, or never clears the
  first. `ClockAgrees` leaves such nodes aside (`untold`).
* The ServiceNow ticket outlives its alarm when the clear is handled while the
  raise's ticket is still being created, by another request or node, or when the call or
  the process fails; a call that timed out may still open a ticket nobody knows of. Two
  requests that cross may open a ticket each: `SecondTicketExplained` says that these
  are the only ways to a second one.
* ServiceNow may be switched off in the settings while mail and Teams stay on, or with
  them. A clear handled then makes no ticket operation (`local-notify.js` 185, 197), nothing
  fails, and the ticket stays open for good. `TicketFollowsAlarm` and `TicketEnds` leave
  out an alarm whose clear found it off (`passedBy`).
* Nobody is told when a process dies between the commit of an event and its
  notification: sent again, the event is a duplicate (`server.js` 317-333).
* One failure of the Redis connection calls `down()` twice, for 'error' and for
  'close' (`redis.js` 92-100). A command issued between the two opens a new socket
  while the list of pending commands is shared: the second `down()` fails commands
  of the new connection, and with two live sockets replies may reach the wrong
  caller. `ReplyIsOwn` holds until a second socket is opened next to a live one.
* INCR and EXPIRE of the lockout are two commands (`auth.js` 91-95): a connection lost
  between them leaves a counter without a life. AUTH and SELECT on connect
  are not modelled.

Backend:

* An alarm is dropped for an alert less than ten minutes old although its incident was
  resolved, or could never be written (`probe.routes.js` 237); `SwallowedBriefly` bounds
  for how long.
* Resolving an incident whose triage asks for no check arms no verification and
  leaves the verdict of an earlier resolution; the condition of a probe's incident is
  looked for among the device metrics, so it always fails; a reopening refused by the
  index leaves the failed verdict. These are the cases `excused` names.
* A ticket made by hand for a probe may be resolved by the heartbeat in place of the
  incident (`fms-probe-health.js` 80-99).
* A note, a dispatch report or the result of a control action queues a re-evaluation
  that does not read it: `collectContext()` reads neither `ticket_notes` nor
  `fms_dispatch`, and asks `fms_control_log` for `ups-N` (`fms-triage.js` 129-132) while
  it is written under `N` (`incidents.routes.js` 235, 241, `fms-device-control.js`
  231-235). Samples and alarms count only inside windows around `created_at`, so that of
  a long incident a later run sees no newer ones. `OpinionFollowsNews` speaks of the evidence `collectContext()` finds.
* News that meets the hourly cap is not looked at until something else happens; a
  restart forgets timers and triages under way; a triage that started earlier and
  answers later replaces the newer opinion.
* What an answer of the model costs is counted only when it could be read. The
  daily budget itself is not modelled.
* Nothing in the repository calls `heartbeat()` or `sweep()` of probe health; that the
  sweep runs every minute is what the module says of itself.

## 6. Plan

Done: the alarm path in the order of the data (engine, drivers, link, ledger, outbox,
notification), then the backend (incidents, probe health, triage) and the lockout;
theorems about every one of them, which together state each safety property of the runs.

Next, by weight:

1. `AlarmPath`: engine, link, ledger and outbox at the level of their abstract
   specifications, composed: what the Portal stores is what the engines raised.
2. The inventory pull (`syncInventory`) with its waiters, and the relays of
   configuration, over the same outbox.
3. Console sessions (a token with two lifetimes) over `RedisClient`; the partitions
   of the metrics table as a pure algorithm.
4. Device control: policy and approval of one command. Its executors are stubs that
   throw, so that today no command changes a device.
5. Proofs: what holds of the engine when the store fails (a row is some earlier state
   of the open alarms), the invariants of the compositions of point 1.

### Not modelled

The larger part of the repository's lines keeps no state the alarm path depends on:
the web interfaces (`frontend/`, `cflex-shell/`, `apps/twin/`), the routes that read or
write one row, reports and the copilot, SNMP decoding, formatting and validation of
messages, TLS, deployment and documents. `tools/control-mcp` is the developers' work
board, not part of the running FMS. `probe/` is a separate, partly built Python probe.
The pollers other than the UPS's have its shape (answer, then alerts) over the same
engine, with thresholds on data that no property here speaks of.
