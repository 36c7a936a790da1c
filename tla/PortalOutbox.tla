----------------------------- MODULE PortalOutbox ------------------------------
(***************************************************************************)
(* The console's link to the Portal, apps/console/src/portal.js: the two   *)
(* app nodes put what the collectors posted in one table, portal_outbox,   *)
(* and the node that holds the sender lock drains it in order.             *)
(*                                                                         *)
(* A step ends where the code awaits the database, the lock or the Portal. *)
(* Time is told by its effects: that a row's hold, or a node's wait, is    *)
(* over is an action.  A row's id is its Idempotency-Key too (both are     *)
(* fixed when it is inserted), and its body says only whose clock it is    *)
(* about, if any: what the notifier delivered (local_notified), the        *)
(* heartbeats' content and the inventory are left out; an inventory is one *)
(* more row that is not held.                                              *)
(***************************************************************************)
EXTENDS Integers, Sequences, FiniteSets

CONSTANTS
  Node,           \* the app nodes
  Front,          \* those the collectors post to
  Drifting,       \* those whose clock may go wrong
  None,           \* no node: nobody holds the sender lock
  Batch,          \* rows read at a time (50)
  MaxRows, MaxTrouble  \* bounds of a model, no counterpart in the code

ASSUME OutboxAssumption ==
  /\ Front \subseteq Node /\ Drifting \subseteq Node
  /\ None \notin Node /\ None \notin Node \X BOOLEAN
  /\ Batch \in Nat \ {0} /\ MaxRows \in Nat

VARIABLES
  nextId,     \* the id the next INSERT gets, from a sequence no rollback resets
  writing,    \* rows inserted by a transaction not yet committed
  outbox,     \* the committed rows
  holdOver,   \* the rows whose NOTIFY_HOLD_MS has passed
  notifying,  \* notifying[n]: the events rows n has yet to release
  lock,       \* the node whose session holds the advisory lock in PostgreSQL
  leader,     \* leader[n]: n believes it holds the lock
  waiting,    \* waiting[n]: nextAt is still ahead
  throttled,  \* throttled[n]: the last wait came from a 429
  pass,       \* pass[n]: where n's flush pass is, and what it has read
  drift,      \* drift[n]: n has found its clock off and not yet right again
  late,       \* requests given up on that the Portal may still serve
  portal,     \* what the Portal stored, in order
  givenUp,    \* history: rows dropped for a 4xx, rows purged after the 7 days
  asked,      \* history: the nodes the Portal has told to wait with a 429
  untold,     \* history: nodes one of whose clock events was lost
  trouble     \* sessions broken, crashes and purges so far

tableVars == <<nextId, writing, outbox, holdOver, notifying>>
lockVars == <<lock, leader>>
waitVars == <<waiting, throttled, asked>>
portalVars == <<late, portal>>
clockVars == <<drift, untold>>
vars == <<tableVars, lockVars, waitVars, pass, portalVars, givenUp, clockVars, trouble>>

Id == 1 .. MaxRows
(* `events`: of collectors; `clock`: a node, and whether its clock is off.  *)
Clock == Node \X BOOLEAN
Row == [events : BOOLEAN, held : BOOLEAN, clock : Clock \cup {None}]
Empty == [i \in {} |-> i]
Idle == [at |-> "idle", row |-> 0, batch |-> Empty]
Reading == [at |-> "read", row |-> 0, batch |-> Empty]

First(f) == CHOOSE i \in DOMAIN f : \A j \in DOMAIN f : i <= j
Rows(f, ids) == [i \in ids |-> f[i]]
Oldest(f) == Rows(f, {i \in DOMAIN f : Cardinality({j \in DOMAIN f : j < i}) < Batch})

(* Mutant: the pass that ends keeps what it has read.                       *)
EndsRemembering(n) == pass' = [pass EXCEPT ![n] = [pass[n] EXCEPT !.at = "idle"]]

Ends(n) == pass' = [pass EXCEPT ![n] = Idle]
GoesOn(n, at) == pass' = [pass EXCEPT ![n] = [at |-> at, row |-> pass[n].row, batch |-> pass[n].batch]]

(* lead(): n keeps the lock or takes it when it is free.                    *)
Leads(n) == leader[n] \/ lock = None
Lead(n) ==
  /\ leader' = [leader EXCEPT ![n] = Leads(n)]
  /\ lock' = IF ~leader[n] /\ lock = None THEN n ELSE lock

(* flush(): concurrent callers share one pass; a new one begins only on the *)
(* node that leads and not before nextAt.                                   *)
Begun(n, wait) ==
  IF pass[n] = Idle /\ Leads(n) /\ ~wait
  THEN [pass EXCEPT ![n] = Reading]
  ELSE pass
Flushed(n) ==
  /\ IF pass[n] = Idle THEN Lead(n) ELSE UNCHANGED lockVars
  /\ pass' = Begun(n, waiting[n])

-----------------------------------------------------------------------------
(* The collectors' posts.                                                   *)

(* ingest.events() takes an advisory lock for its transaction.              *)
Turn(events) == events => \A i \in DOMAIN writing : ~writing[i].events

(* queueTelemetry, queueEvents: the INSERT, inside ingest's transaction.    *)
Insert(n, events) ==
  /\ nextId <= MaxRows
  /\ Turn(events)
  /\ writing' = [i \in DOMAIN writing \cup {nextId} |->
                   IF i = nextId THEN [node |-> n, events |-> events] ELSE writing[i]]
  /\ nextId' = nextId + 1
  /\ UNCHANGED <<outbox, holdOver, notifying, lockVars, waitVars, pass, portalVars, givenUp, trouble, clockVars>>

(* The transaction commits.  Telemetry is flushed at once; events wait for  *)
(* the notifier.                                                            *)
Commit(i) ==
  LET n == writing[i].node
      row == [events |-> writing[i].events, held |-> writing[i].events, clock |-> None]
  IN
  /\ outbox' = [j \in DOMAIN outbox \cup {i} |-> IF j = i THEN row ELSE outbox[j]]
  /\ writing' = Rows(writing, DOMAIN writing \ {i})
  /\ IF row.events
     THEN notifying' = [notifying EXCEPT ![n] = @ \cup {i}] /\ UNCHANGED <<lockVars, pass>>
     ELSE Flushed(n) /\ notifying' = notifying
  /\ UNCHANGED <<nextId, holdOver, waitVars, portalVars, givenUp, trouble, clockVars>>

Rollback(i) ==
  /\ writing' = Rows(writing, DOMAIN writing \ {i})
  /\ UNCHANGED <<nextId, outbox, holdOver, notifying, lockVars, waitVars, pass, portalVars, givenUp, trouble, clockVars>>

(* The notifier has answered (it may never): releaseEvents(), then flush(). *)
Release(n, i) ==
  /\ i \in notifying[n]
  /\ notifying' = [notifying EXCEPT ![n] = @ \ {i}]
  /\ outbox' = IF i \in DOMAIN outbox
               THEN [outbox EXCEPT ![i].held = FALSE]
               ELSE outbox
  /\ Flushed(n)
  /\ UNCHANGED <<nextId, writing, holdOver, waitVars, portalVars, givenUp, trouble, clockVars>>

HoldOver(i) ==
  /\ i \notin holdOver /\ outbox[i].events
  /\ holdOver' = holdOver \cup {i}
  /\ UNCHANGED <<nextId, writing, outbox, notifying, lockVars, waitVars, pass, portalVars, givenUp, trouble, clockVars>>

-----------------------------------------------------------------------------
(* The sender lock and the pass.                                            *)

(* The flush timer.                                                         *)
Flush(n) ==
  /\ pass[n] = Idle
  /\ Flushed(n)
  /\ UNCHANGED <<tableVars, waitVars, portalVars, givenUp, trouble, clockVars>>

Posting(batch) == [at |-> "posting", row |-> First(batch), batch |-> batch]

(* A row read while it was held counts as held until its hold is over.      *)
Held(batch) == batch[First(batch)].held /\ First(batch) \notin holdOver

(* Mutant: a held row is left for later and the rows behind it are sent.    *)
OnToPastHeld(batch) ==
  LET free == {i \in DOMAIN batch : ~batch[i].held \/ i \in holdOver}
  IN IF free = {} THEN Idle ELSE Posting(Rows(batch, free))

(* The loop comes to the first row of `batch`, as it was when it was read:  *)
(* it is posted, or its hold ends the pass.                                 *)
OnTo(batch) == IF Held(batch) THEN Idle ELSE Posting(batch)

ReadBatch(n) ==
  /\ pass[n].at = "read"
  /\ pass' = [pass EXCEPT ![n] = IF outbox = Empty THEN Idle ELSE OnTo(Oldest(outbox))]
  /\ UNCHANGED <<tableVars, lockVars, waitVars, portalVars, givenUp, trouble, clockVars>>

(* What n is posting.                                                       *)
Posted(n) == LET i == pass[n].row IN
  [id |-> i, events |-> pass[n].batch[i].events, clock |-> pass[n].batch[i].clock]

(* The rows the Portal has stored.                                          *)
Stored == {portal[p].id : p \in DOMAIN portal}

(* The Portal stores a request with a new key; the others with that key     *)
(* change nothing any more.                                                 *)
Stores(req) ==
  /\ portal' = IF req.id \in Stored THEN portal ELSE Append(portal, req)
  /\ late' = {r \in late : r.id # req.id}

(* A request nobody waits for any more.                                     *)
Abandoned(req) == IF req.id \in Stored THEN late ELSE late \cup {req}

(* 2xx: the Portal has stored the row, or knew its Idempotency-Key.         *)
Accepted(n) ==
  /\ pass[n].at = "posting"
  /\ Stores(Posted(n))
  /\ GoesOn(n, "delivered")
  /\ UNCHANGED <<tableVars, lockVars, waitVars, givenUp, trouble, clockVars>>

(* The nodes whose clock the rows are about.                                *)
ClocksOf(rows) == {m \in Node : \E i \in DOMAIN rows, off \in BOOLEAN : rows[i].clock = <<m, off>>}

(* A 4xx that retrying cannot fix.                                          *)
Refused(n) ==
  /\ pass[n].at = "posting"
  /\ untold' = untold \cup ClocksOf(Rows(pass[n].batch, {pass[n].row}))
  /\ givenUp' = givenUp \cup {pass[n].row}
  /\ GoesOn(n, "dropped")
  /\ UNCHANGED <<tableVars, lockVars, waitVars, late, portal, drift, trouble>>

(* The row is deleted; one that was delivered ends the waiting.             *)
Done(n) ==
  LET rest == DOMAIN pass[n].batch \ {pass[n].row} IN
  /\ pass[n].at \in {"delivered", "dropped"}
  /\ outbox' = Rows(outbox, DOMAIN outbox \ {pass[n].row})
  /\ IF pass[n].at = "delivered"
     THEN /\ waiting' = [waiting EXCEPT ![n] = FALSE]
          /\ throttled' = [throttled EXCEPT ![n] = FALSE]
     ELSE UNCHANGED <<waiting, throttled>>
  /\ pass' = [pass EXCEPT ![n] = IF rest = {} THEN Reading
                                   ELSE OnTo(Rows(pass[n].batch, rest))]
  /\ UNCHANGED <<nextId, writing, holdOver, notifying, lockVars, asked, portalVars, givenUp, trouble, clockVars>>

(* What a pass does with a row it could not deliver: it records the attempt *)
(* in the row, and only then waits.                                         *)
Failing == {"throttled", "put_off", "unanswered"}
Fails(n, why) == pass' = [pass EXCEPT ![n] = [at |-> why, row |-> 0, batch |-> Empty]]

(* Mutant: a row that was answered 409, 429 or 5xx is deleted too.          *)
RetryLaterGone(n, why) ==
  /\ pass[n].at = "posting"
  /\ outbox' = Rows(outbox, DOMAIN outbox \ {pass[n].row})
  /\ Fails(n, why)
  /\ asked' = IF why = "throttled" THEN asked \cup {n} ELSE asked
  /\ UNCHANGED <<nextId, writing, holdOver, notifying, lockVars, waiting, throttled, portalVars, givenUp, trouble, clockVars>>

(* 429 ("throttled"), 409 or 5xx: the row stays first.                      *)
RetryLater(n, why) ==
  /\ pass[n].at = "posting"
  /\ Fails(n, why)
  /\ asked' = IF why = "throttled" THEN asked \cup {n} ELSE asked
  /\ UNCHANGED <<tableVars, lockVars, waiting, throttled, portalVars, givenUp, trouble, clockVars>>

(* No answer: the Portal may have stored the row, or may yet.               *)
NoAnswer(n) ==
  /\ pass[n].at = "posting"
  /\ late' = Abandoned(Posted(n))
  /\ Fails(n, "unanswered")
  /\ UNCHANGED <<tableVars, lockVars, waitVars, portal, givenUp, trouble, clockVars>>

(* The attempt is recorded; then the wait begins, and the pass ends.        *)
(* (Without an answer `throttled` is left as it was.)                       *)
PutOff(n) ==
  /\ pass[n].at \in Failing
  /\ waiting' = [waiting EXCEPT ![n] = TRUE]
  /\ throttled' = [throttled EXCEPT ![n] = IF pass[n].at = "unanswered" THEN @ ELSE pass[n].at = "throttled"]
  /\ Ends(n)
  /\ UNCHANGED <<tableVars, lockVars, asked, portalVars, givenUp, trouble, clockVars>>

(* Mutant: a pass that throws is never taken off `flushing`.                *)
QueryFailsStuck(n) ==
  /\ pass[n].at \in {"read", "delivered", "dropped"} \cup Failing
  /\ pass' = [pass EXCEPT ![n] = [at |-> "failed", row |-> 0, batch |-> Empty]]
  /\ asked' = asked \ {n}
  /\ UNCHANGED <<tableVars, lockVars, waiting, throttled, portalVars, givenUp, trouble, clockVars>>

(* A query of the pass throws: it ends, and does not wait.  If it was the   *)
(* one before a wait, what the Portal asked is forgotten.                   *)
QueryFails(n) ==
  /\ pass[n].at \in {"read", "delivered", "dropped"} \cup Failing
  /\ Ends(n)
  /\ asked' = asked \ {n}
  /\ UNCHANGED <<tableVars, lockVars, waiting, throttled, portalVars, givenUp, trouble, clockVars>>

(* nextAt is reached.                                                       *)
WaitOver(n) ==
  /\ waiting[n]
  /\ waiting' = [waiting EXCEPT ![n] = FALSE]
  /\ asked' = asked \ {n}
  /\ UNCHANGED <<tableVars, lockVars, throttled, pass, portalVars, givenUp, trouble, clockVars>>

(* Mutant: the heartbeat ends any wait.                                     *)
WaitsOnNever(n) == FALSE

(* What is left of a wait once a heartbeat was answered: the Portal's own.  *)
WaitsOn(n) == waiting[n] /\ throttled[n]

(* A heartbeat is answered.                                                 *)
Heartbeat(n) ==
  /\ waiting' = [waiting EXCEPT ![n] = WaitsOn(n)]
  /\ Lead(n)
  /\ pass' = Begun(n, WaitsOn(n))
  /\ UNCHANGED <<tableVars, throttled, asked, portalVars, givenUp, trouble, clockVars>>

(* Mutant: the clear is sent and the drift not forgotten.                   *)
DriftStays(n) == drift' = [drift EXCEPT ![n] = TRUE]

DriftToggles(n) == drift' = [drift EXCEPT ![n] = ~@]

(* checkClock() of a heartbeat that was answered: CLOCK_DRIFT is raised or  *)
(* cleared, in a row of its own outside ingest's lock; what else the        *)
(* heartbeat does comes after this flush (Heartbeat).                       *)
ClockChanges(n) ==
  /\ nextId <= MaxRows
  /\ DriftToggles(n)
  /\ nextId' = nextId + 1
  /\ outbox' = [j \in DOMAIN outbox \cup {nextId} |->
       IF j = nextId THEN [events |-> FALSE, held |-> FALSE, clock |-> <<n, ~drift[n]>>]
       ELSE outbox[j]]
  /\ Flushed(n)
  /\ UNCHANGED <<writing, holdOver, notifying, waitVars, portalVars, givenUp, untold, trouble>>

-----------------------------------------------------------------------------
(* What goes wrong.                                                         *)

Troubled == trouble < MaxTrouble /\ trouble' = trouble + 1

(* The INSERT of checkClock throws, and the heartbeat with it.              *)
ClockUntold(n) ==
  /\ Troubled
  /\ DriftToggles(n)
  /\ untold' = untold \cup {n}
  /\ UNCHANGED <<tableVars, lockVars, waitVars, pass, portalVars, givenUp>>

(* PostgreSQL ends the session that holds the lock.                         *)
SessionEnds ==
  /\ lock # None
  /\ \/ ~leader[lock] /\ trouble' = trouble
     \/ Troubled
  /\ lock' = None
  /\ UNCHANGED <<tableVars, leader, waitVars, pass, portalVars, givenUp, clockVars>>

(* The connection's 'error' event.  A pass that is under way goes on.       *)
Notices(n) ==
  /\ leader[n] /\ lock # n
  /\ leader' = [leader EXCEPT ![n] = FALSE]
  /\ UNCHANGED <<tableVars, lock, waitVars, pass, portalVars, givenUp, trouble, clockVars>>

(* The node dies, and its transactions with it, and is started again.       *)
Crash(n) ==
  /\ Troubled
  /\ writing' = Rows(writing, {i \in DOMAIN writing : writing[i].node # n})
  /\ notifying' = [notifying EXCEPT ![n] = {}]
  /\ leader' = [leader EXCEPT ![n] = FALSE]
  /\ waiting' = [waiting EXCEPT ![n] = FALSE]
  /\ throttled' = [throttled EXCEPT ![n] = FALSE]
  /\ asked' = asked \ {n}
  /\ drift' = [drift EXCEPT ![n] = FALSE]
  /\ untold' = IF drift[n] THEN untold \cup {n} ELSE untold
  /\ late' = IF pass[n].at = "posting" THEN Abandoned(Posted(n)) ELSE late
  /\ Ends(n)
  /\ UNCHANGED <<nextId, outbox, holdOver, lock, portal, givenUp>>

(* A request nobody waits for any more is served after all.                 *)
LateArrival(req) ==
  /\ Stores(req)
  /\ UNCHANGED <<tableVars, lockVars, waitVars, pass, givenUp, trouble, clockVars>>

(* purge(): the rows up to one are older than the buffer.                   *)
Purge(last) ==
  LET old == {i \in DOMAIN outbox : i <= last} IN
  /\ Troubled
  /\ \A i \in old : outbox[i].events => i \in holdOver
  /\ givenUp' = givenUp \cup old
  /\ untold' = untold \cup ClocksOf(Rows(outbox, old))
  /\ outbox' = Rows(outbox, DOMAIN outbox \ old)
  /\ UNCHANGED <<nextId, writing, holdOver, notifying, lockVars, waitVars, pass, portalVars, drift>>

Init ==
  /\ nextId = 1
  /\ writing = Empty /\ outbox = Empty
  /\ holdOver = {}
  /\ notifying = [n \in Node |-> {}]
  /\ lock = None /\ leader = [n \in Node |-> FALSE]
  /\ waiting = [n \in Node |-> FALSE] /\ throttled = [n \in Node |-> FALSE]
  /\ pass = [n \in Node |-> Idle]
  /\ late = {} /\ portal = <<>>
  /\ givenUp = {}
  /\ asked = {}
  /\ drift = [n \in Node |-> FALSE] /\ untold = {}
  /\ trouble = 0

Step(n) ==
  \/ ReadBatch(n) \/ Done(n)
  \/ Accepted(n) \/ Refused(n) \/ NoAnswer(n)
  \/ \E why \in {"throttled", "put_off"} : RetryLater(n, why)
  \/ PutOff(n) \/ QueryFails(n)

Next ==
  \/ \E n \in Front, events \in BOOLEAN : Insert(n, events)
  \/ \E i \in DOMAIN writing : Commit(i) \/ Rollback(i)
  \/ \E n \in Node : \E i \in notifying[n] : Release(n, i)
  \/ \E i \in DOMAIN outbox : HoldOver(i)
  \/ \E n \in Node : Flush(n) \/ Step(n) \/ WaitOver(n) \/ Heartbeat(n) \/ Notices(n) \/ Crash(n)
  \/ \E n \in Drifting : ClockChanges(n) \/ ClockUntold(n)
  \/ SessionEnds
  \/ \E req \in late : LateArrival(req)
  \/ \E last \in DOMAIN outbox : Purge(last)

Spec == Init /\ [][Next]_vars

(* The flush timer runs every 5 s and the loop goes on by itself; waits,    *)
(* holds and dead sessions end.  Of PostgreSQL and the Portal: what is      *)
(* tried again and again is answered in the end.                            *)
Fairness ==
  /\ \A n \in Node :
       /\ WF_vars(Flush(n))
       /\ WF_vars(WaitOver(n)) /\ WF_vars(Notices(n))
       /\ SF_vars(ReadBatch(n)) /\ SF_vars(Accepted(n)) /\ SF_vars(Done(n)) /\ WF_vars(PutOff(n))
  /\ \A i \in Id : WF_vars(i \in DOMAIN outbox /\ HoldOver(i))
  /\ WF_vars(SessionEnds /\ trouble' = trouble)

FairSpec == Spec /\ Fairness

-----------------------------------------------------------------------------
Request == [id : Id, events : BOOLEAN, clock : Clock \cup {None}]
Steps == {"idle", "read", "posting", "delivered", "dropped"} \cup Failing

TypeOK ==
  /\ nextId \in 1 .. MaxRows + 1
  /\ DOMAIN writing \subseteq Id /\ \A i \in DOMAIN writing : writing[i] \in [node : Node, events : BOOLEAN]
  /\ DOMAIN outbox \subseteq Id /\ \A i \in DOMAIN outbox : outbox[i] \in Row
  /\ holdOver \subseteq Id
  /\ notifying \in [Node -> SUBSET Id]
  /\ lock \in Node \cup {None}
  /\ leader \in [Node -> BOOLEAN] /\ waiting \in [Node -> BOOLEAN] /\ throttled \in [Node -> BOOLEAN]
  /\ \A n \in Node :
       /\ pass[n].at \in Steps
       /\ DOMAIN pass[n].batch \subseteq Id /\ \A i \in DOMAIN pass[n].batch : pass[n].batch[i] \in Row
       /\ IF pass[n].at \in {"idle", "read"} \cup Failing THEN pass[n].row = 0 /\ pass[n].batch = Empty
          ELSE pass[n].row \in DOMAIN pass[n].batch
  /\ late \subseteq Request /\ portal \in Seq(Request)
  /\ givenUp \subseteq Id /\ asked \subseteq Node
  /\ drift \in [Node -> BOOLEAN] /\ untold \subseteq Node

(* A committed row leaves the outbox only stored by the Portal, refused by  *)
(* it with a 4xx, or purged, whichever node deletes it and whatever broke   *)
(* in between (migration 0002: "what it has not delivered yet waits here"). *)
NothingLost ==
  [][\A i \in DOMAIN outbox \ DOMAIN outbox' : i \in Stored' \/ i \in givenUp']_vars

(* "Order is part of the contract": however the lock moves, requests are    *)
(* served late and transactions commit, the Portal stores the events rows   *)
(* in the order ingest wrote them, those it refused or that were purged     *)
(* aside (the nodes' own clock events are not under ingest's lock).         *)
EventsInOrder ==
  \A p, q \in DOMAIN portal :
    p < q /\ portal[p].events /\ portal[q].events
      => portal[p].id < portal[q].id \/ portal[q].id \in givenUp

(* "A 429 wait stands": from a 429 to the time the Portal gave with it the  *)
(* node posts no row, whoever calls for a flush and whatever heartbeats are *)
(* answered.  Not so when the UPDATE between the answer and the wait throws *)
(* (QueryFails) or the node restarts: nothing remembers the 429 then.       *)
RetryAfterKept ==
  [][\A n \in asked : pass'[n].at # "posting"]_vars

(* Once no clock event of a node waits, the Portal has the node's clock as  *)
(* off exactly when the node does: raise and clear arrive in turn, whoever  *)
(* sends them.  Not so after an INSERT that failed, a row refused or purged,*)
(* or a crash: `drift` is set first and lives in memory (portal.js 310-326).*)
ClockAgrees == \A n \in Node \ untold :
  LET told == {p \in DOMAIN portal : portal[p].clock \in {<<n, TRUE>>, <<n, FALSE>>} } IN
  n \notin ClocksOf(outbox) =>
    (drift[n] <=> \E p \in told : portal[p].clock[2] /\ \A q \in told : q <= p)

(* Nothing stays: once the database and the Portal answer, every row leaves *)
(* the outbox, although nodes crash and lose the lock.                      *)
Drains == \A i \in Id : i \in DOMAIN outbox ~> i \notin DOMAIN outbox
=============================================================================
