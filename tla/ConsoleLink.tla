----------------------------- MODULE ConsoleLink ------------------------------
(***************************************************************************)
(* A Collector's link to the Local Console, probe-agent/src/console/       *)
(* client.js, with the persistent queue it waits in (buffer.js) and the    *)
(* callers that share it: events() for every turn of the alarm engine that *)
(* emits something, flushTelemetry(), and the timers that drain the queue. *)
(*                                                                         *)
(* Every await lets the other callers run, so a call is three steps or     *)
(* more: it starts, each attempt ends, it is settled.  What a body holds   *)
(* is left out: the n-th list given to events() is the message <<"events", *)
(* n>>.  The back-off is a flag with the timer that ends it.               *)
(***************************************************************************)
EXTENDS Integers, Sequences, FiniteSets, SequencesExt

CONSTANTS
  Bases,        \* how many app nodes CFLEX_CONSOLE_URL names
  Batch,        \* rows read at a time (50)
  MaxEvents, MaxTelemetry, MaxFaults, MaxRestarts, MaxPurges  \* bounds of a model

ASSUME LinkAssumption ==
  /\ Bases \in Nat \ {0} /\ Batch \in Nat \ {0}
  /\ {MaxEvents, MaxTelemetry, MaxFaults, MaxRestarts, MaxPurges} \subseteq Nat

Base == 0 .. Bases - 1
Message == {"events", "telemetry"} \X Nat

VARIABLES
  emitted,   \* how many lists events() has been given
  batches,   \* how many telemetry batches were cut
  queue,     \* the persistent queue
  waiting,   \* lists whose call awaits the flush pass under way
  posting,   \* messages of direct POSTs under way -> the call
  draining,  \* the POST of the flush pass, or NoCall when no pass runs
  batch,     \* the rows the pass has read and not dealt with
  resting,   \* now() < nextAt
  cur,       \* the node calls go to
  late,      \* requests given up on that may still reach a console
  stored,    \* the lists the console has stored, in the order it did
  dropped,   \* lists refused with a 4xx
  crashed,   \* history: lists in memory only when the process died
  purged,    \* history: lists whose row was older than the retention
  overlapped,\* history: <<i, j>> when events() got list j before its call for i was settled
  faults, restarts, purges

linkVars == <<queue, waiting, posting, draining, batch, resting, cur>>
passVars == <<draining, batch>>
purgeVars == <<purged, purges>>
vars == <<emitted, batches, linkVars, late, stored, dropped, crashed, overlapped, faults, restarts, purgeVars>>

(* A call: the node its attempt goes to, and how many were tried before.    *)
Call == [base : Base, tries : Base]
NoCall == [base |-> -1, tries |-> 0]
Fresh(b) == [base |-> b, tries |-> 0]

Flushing == draining # NoCall
Put(f, x, v) == [y \in DOMAIN f \cup {x} |-> IF y = x THEN v ELSE f[y]]
Without(f, x) == [y \in DOMAIN f \ {x} |-> f[y]]

-----------------------------------------------------------------------------
(* The console stores a list once (ingest.js).                              *)
Stored(m) ==
  IF m[1] = "events" /\ m[2] \notin ToSet(stored) THEN Append(stored, m[2]) ELSE stored

(* A pass goes on with the rows it now reads, or ends when there are none.  *)
Read(rows) == SubSeq(rows, 1, IF Len(rows) < Batch THEN Len(rows) ELSE Batch)
ReadRows(rows) ==
  /\ batch' = Read(rows)
  /\ draining' = IF rows = <<>> THEN NoCall ELSE Fresh(cur)

(* A flush pass starts with the first row unless the back-off runs.         *)
StartPass == IF resting THEN UNCHANGED passVars ELSE ReadRows(queue)

(* The lists whose events() call is under way.                              *)
InMemory == DOMAIN posting \cup ToSet(waiting)

(* events(): anything waiting goes first.                                   *)
Events ==
  /\ emitted < MaxEvents
  /\ emitted' = emitted + 1
  /\ overlapped' = overlapped \cup {<<m[2], emitted + 1>> : m \in InMemory}
  /\ LET m == <<"events", emitted + 1>> IN
     IF queue = <<>> THEN
       /\ posting' = Put(posting, m, Fresh(cur))
       /\ UNCHANGED <<queue, waiting, passVars>>
     ELSE IF Flushing \/ ~resting THEN
       /\ waiting' = Append(waiting, m)
       /\ IF Flushing THEN UNCHANGED passVars ELSE StartPass
       /\ UNCHANGED <<queue, posting>>
     ELSE
       /\ queue' = Append(queue, m)
       /\ UNCHANGED <<waiting, posting, passVars>>
  /\ UNCHANGED <<batches, resting, cur, late, stored, dropped, crashed, faults, restarts, purgeVars>>

(* flushTelemetry(): a batch goes into the queue, then a pass.              *)
Telemetry ==
  /\ batches < MaxTelemetry
  /\ batches' = batches + 1
  /\ queue' = Append(queue, <<"telemetry", batches + 1>>)
  /\ IF Flushing \/ resting THEN UNCHANGED passVars ELSE ReadRows(queue')
  /\ UNCHANGED <<emitted, waiting, posting, resting, cur, late, stored, dropped, crashed, overlapped, faults, restarts, purgeVars>>

(* The timers that call flush(): every 30 s, and after each heartbeat.      *)
Flush ==
  /\ ~Flushing /\ queue # <<>> /\ ~resting
  /\ StartPass
  /\ UNCHANGED <<emitted, batches, queue, waiting, posting, resting, cur, late, stored, dropped, crashed, overlapped, faults, restarts, purgeVars>>

RestOver ==
  /\ resting
  /\ resting' = FALSE
  /\ UNCHANGED <<emitted, batches, queue, waiting, posting, passVars, cur, late, stored, dropped, crashed, overlapped, faults, restarts, purgeVars>>

-----------------------------------------------------------------------------
(* Mutants of EndPass: who awaited it is dropped; who awaited it POSTs      *)
(* whatever is left in the queue.                                           *)
EndPassForgets(rest) ==
  /\ draining' = NoCall /\ batch' = <<>>
  /\ waiting' = <<>>
  /\ IF rest # <<>>
     THEN queue' = rest /\ UNCHANGED posting
     ELSE /\ queue' = <<>>
          /\ posting' = [m \in DOMAIN posting \cup ToSet(waiting) |->
                           IF m \in DOMAIN posting THEN posting[m] ELSE Fresh(cur)]

EndPassPosts(rest) ==
  /\ draining' = NoCall /\ batch' = <<>>
  /\ waiting' = <<>>
  /\ queue' = rest
  /\ posting' = [m \in DOMAIN posting \cup ToSet(waiting) |->
                   IF m \in DOMAIN posting THEN posting[m] ELSE Fresh(cur)]

(* The pass ends with rest in the queue: whoever awaited it goes on, in the *)
(* order they came.  Something still waiting, they queue up behind it;      *)
(* nothing, they all POST.                                                  *)
EndPass(rest) ==
  /\ draining' = NoCall /\ batch' = <<>>
  /\ waiting' = <<>>
  /\ IF rest # <<>>
     THEN queue' = rest \o waiting /\ UNCHANGED posting
     ELSE /\ queue' = <<>>
          /\ posting' = [m \in DOMAIN posting \cup ToSet(waiting) |->
                           IF m \in DOMAIN posting THEN posting[m] ELSE Fresh(cur)]

(* ack: the row leaves the queue, if it is still there.                     *)
Acked ==
  IF Head(batch) \in ToSet(queue)
  THEN RemoveAt(queue, CHOOSE k \in DOMAIN queue : queue[k] = Head(batch))
  ELSE queue

(* Mutant: an emptied queue ends the pass without waking who awaits it.     *)
NextRowWakesNobody ==
  /\ queue' = Acked
  /\ IF Len(batch) > 1 THEN batch' = Tail(batch) /\ draining' = Fresh(cur) ELSE ReadRows(Acked)
  /\ UNCHANGED <<waiting, posting>>

(* The row is done with: on to the next that was read, or the rows behind.  *)
NextRow ==
  IF Len(batch) = 1 /\ Acked = <<>> THEN EndPass(<<>>)
  ELSE /\ queue' = Acked
       /\ IF Len(batch) > 1 THEN batch' = Tail(batch) /\ draining' = Fresh(cur) ELSE ReadRows(Acked)
       /\ UNCHANGED <<waiting, posting>>

(* An answer in the 200s.  Only a pass ends the back-off.                   *)
PostAnswered(m) ==
  /\ stored' = Stored(m)
  /\ posting' = Without(posting, m)
  /\ UNCHANGED <<emitted, batches, queue, waiting, passVars, resting, cur, late, dropped, crashed, overlapped, faults, restarts, purgeVars>>

RowAnswered ==
  /\ Flushing
  /\ stored' = Stored(Head(batch))
  /\ resting' = FALSE
  /\ NextRow
  /\ UNCHANGED <<emitted, batches, cur, late, dropped, crashed, overlapped, faults, restarts, purgeVars>>

(* A 4xx but for 409 and 429.                                               *)
Refused(m) == IF m[1] = "events" THEN dropped \cup {m[2]} ELSE dropped

PostRefused(m) ==
  /\ faults < MaxFaults /\ faults' = faults + 1
  /\ dropped' = Refused(m)
  /\ posting' = Without(posting, m)
  /\ UNCHANGED <<emitted, batches, queue, waiting, passVars, resting, cur, late, stored, crashed, overlapped, restarts, purgeVars>>

RowRefused ==
  /\ Flushing
  /\ faults < MaxFaults /\ faults' = faults + 1
  /\ dropped' = Refused(Head(batch))
  /\ NextRow
  /\ UNCHANGED <<emitted, batches, resting, cur, late, stored, crashed, overlapped, restarts, purgeVars>>

(* What an attempt that failed may have left behind: nothing, a list the    *)
(* console stored without its answer arriving, or a request under way.      *)
LeftBehind(m, unreachable) ==
  \/ UNCHANGED <<stored, late>>
  \/ stored' = Stored(m) /\ UNCHANGED late
  \/ unreachable /\ late' = late \cup {m} /\ UNCHANGED stored

(* Mutant: past the last node.                                              *)
NextBasePast(c) == c + 1

(* No answer at all, and the call has not yet tried as many nodes as there  *)
(* are: the next node, from where `cur` is by now.                          *)
NextBase(c) == (c + 1) % Bases
FailsOver(call) == call.tries + 1 < Bases
Again(call, b) == [base |-> b, tries |-> call.tries + 1]

PostFailsOver(m) ==
  /\ faults < MaxFaults /\ faults' = faults + 1
  /\ FailsOver(posting[m])
  /\ cur' = NextBase(cur)
  /\ posting' = Put(posting, m, Again(posting[m], cur'))
  /\ LeftBehind(m, TRUE)
  /\ UNCHANGED <<emitted, batches, queue, waiting, passVars, resting, dropped, crashed, overlapped, restarts, purgeVars>>

RowFailsOver ==
  /\ Flushing
  /\ faults < MaxFaults /\ faults' = faults + 1
  /\ FailsOver(draining)
  /\ cur' = NextBase(cur)
  /\ draining' = Again(draining, cur')
  /\ LeftBehind(Head(batch), TRUE)
  /\ UNCHANGED <<emitted, batches, queue, waiting, posting, batch, resting, dropped, crashed, overlapped, restarts, purgeVars>>

(* The call fails for now: no answer and no try left, or (unreachable is    *)
(* FALSE) a 5xx, 409 or 429.                                                *)
GivesUp(call, unreachable) == unreachable => ~FailsOver(call)

PostFails(m, unreachable) ==
  /\ faults < MaxFaults /\ faults' = faults + 1
  /\ GivesUp(posting[m], unreachable)
  /\ posting' = Without(posting, m)
  /\ queue' = Append(queue, m)
  /\ resting' = TRUE
  /\ LeftBehind(m, unreachable)
  /\ UNCHANGED <<emitted, batches, waiting, passVars, cur, dropped, crashed, overlapped, restarts, purgeVars>>

RowFails(unreachable) ==
  /\ Flushing
  /\ faults < MaxFaults /\ faults' = faults + 1
  /\ GivesUp(draining, unreachable)
  /\ resting' = TRUE
  /\ EndPass(queue)
  /\ LeftBehind(Head(batch), unreachable)
  /\ UNCHANGED <<emitted, batches, cur, dropped, crashed, overlapped, restarts, purgeVars>>

LateArrival(m) ==
  /\ stored' = Stored(m)
  /\ late' = late \ {m}
  /\ UNCHANGED <<emitted, batches, linkVars, dropped, crashed, overlapped, faults, restarts, purgeVars>>

(* The process dies; the queue is on disk, the calls are not.               *)
Restart ==
  /\ restarts < MaxRestarts /\ restarts' = restarts + 1
  /\ crashed' = crashed \cup {m[2] : m \in InMemory}
  /\ late' = late \cup DOMAIN posting \cup (IF Flushing THEN {Head(batch)} ELSE {})
  /\ waiting' = <<>>
  /\ posting' = [m \in {} |-> NoCall]
  /\ draining' = NoCall /\ batch' = <<>>
  /\ resting' = FALSE
  /\ cur' = 0
  /\ UNCHANGED <<emitted, batches, queue, stored, dropped, overlapped, faults, purgeVars>>

(* heartbeat() and inventory() share the node with the others; what they    *)
(* carry is left out.                                                       *)
OtherFailsOver ==
  /\ faults < MaxFaults /\ faults' = faults + 1
  /\ Bases > 1
  /\ cur' = NextBase(cur)
  /\ UNCHANGED <<emitted, batches, queue, waiting, posting, passVars, resting, late, stored, dropped, crashed, overlapped, restarts, purgeVars>>

(* purgeOld(), daily: the oldest n rows are past the retention.  A pass goes *)
(* on with the rows it has read.                                            *)
PurgeOld(n) ==
  /\ purges < MaxPurges /\ purges' = purges + 1
  /\ purged' = purged \cup {m[2] : m \in {queue[k] : k \in {x \in 1 .. n : queue[x][1] = "events"}}}
  /\ queue' = SubSeq(queue, n + 1, Len(queue))
  /\ UNCHANGED <<emitted, batches, waiting, posting, passVars, resting, cur, late, stored, dropped, crashed, overlapped, faults, restarts>>

-----------------------------------------------------------------------------
Init ==
  /\ emitted = 0 /\ batches = 0
  /\ queue = <<>>
  /\ waiting = <<>>
  /\ posting = [m \in {} |-> NoCall]
  /\ draining = NoCall /\ batch = <<>>
  /\ resting = FALSE
  /\ cur = 0
  /\ late = {}
  /\ stored = <<>>
  /\ dropped = {}
  /\ crashed = {}
  /\ overlapped = {}
  /\ purged = {}
  /\ faults = 0 /\ restarts = 0 /\ purges = 0

Next ==
  \/ Events \/ Telemetry \/ Flush \/ RestOver
  \/ \E m \in DOMAIN posting : PostAnswered(m) \/ PostRefused(m) \/ PostFailsOver(m)
  \/ \E m \in DOMAIN posting, unreachable \in BOOLEAN : PostFails(m, unreachable)
  \/ RowAnswered \/ RowRefused \/ RowFailsOver
  \/ \E unreachable \in BOOLEAN : RowFails(unreachable)
  \/ \E m \in late : LateArrival(m)
  \/ OtherFailsOver
  \/ \E n \in DOMAIN queue : PurgeOld(n)
  \/ Restart

Spec == Init /\ [][Next]_vars

(* The timers fire, and an attempt ends: the request has a timeout.  Once   *)
(* the faults are spent the console answers every one.                      *)
Fairness ==
  /\ WF_vars(Flush)
  /\ WF_vars(RestOver)
  /\ WF_vars(RowAnswered \/ RowRefused \/ RowFailsOver \/ \E unreachable \in BOOLEAN : RowFails(unreachable))
  /\ \A n \in 1 .. MaxEvents :
       LET m == <<"events", n>> IN
       WF_vars(/\ m \in DOMAIN posting
               /\ \/ PostAnswered(m) \/ PostRefused(m) \/ PostFailsOver(m)
                  \/ \E unreachable \in BOOLEAN : PostFails(m, unreachable))

FairSpec == Spec /\ Fairness

-----------------------------------------------------------------------------
TypeOK ==
  /\ emitted \in Nat /\ batches \in Nat
  /\ queue \in Seq(Message)
  /\ waiting \in Seq({"events"} \X Nat)
  /\ DOMAIN posting \subseteq {"events"} \X Nat
  /\ \A m \in DOMAIN posting : posting[m] \in Call
  /\ draining \in Call \cup {NoCall}
  /\ batch \in Seq(Message)
  /\ Flushing <=> batch # <<>>
  /\ resting \in BOOLEAN
  /\ cur \in Base
  /\ late \subseteq Message
  /\ stored \in Seq(Nat)
  /\ dropped \subseteq Nat /\ crashed \subseteq Nat /\ purged \subseteq Nat

Queued == {m[2] : m \in {x \in ToSet(queue) : x[1] = "events"}}

(* No list is forgotten: each is stored, refused, in the queue or in the    *)
(* hands of a call, unless the process died with it in memory only or it    *)
(* waited in the queue for longer than the retention.                       *)
Accounted ==
  \A n \in 1 .. emitted :
    n \in ToSet(stored) \cup dropped \cup Queued \cup {m[2] : m \in InMemory} \cup crashed \cup purged

(* A list given to events() once the call for an earlier one was settled    *)
(* never overtakes it: not in the queue, not by a POST of its own, not      *)
(* through a failover or a restart (client.js 179-182), unless the earlier  *)
(* one was purged, which empties the queue under a pass that is posting it. *)
OrderedApart ==
  \A i, j \in DOMAIN stored :
    i < j /\ stored[j] < stored[i] =>
      \/ stored[j] \in dropped \cup crashed \cup purged
      \/ <<stored[j], stored[i]>> \in overlapped

(* Once the console answers, every list is settled: stored, refused, or     *)
(* lost with the process or to the retention.                               *)
Settles ==
  \A n \in 1 .. MaxEvents :
    n <= emitted ~> n \in ToSet(stored) \cup dropped \cup crashed \cup purged
=============================================================================
