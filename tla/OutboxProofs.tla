----------------------------- MODULE OutboxProofs ------------------------------
(***************************************************************************)
(* Proofs about PortalOutbox, for any nodes, batch and bounds.             *)
(*                                                                         *)
(* Why nothing is lost: a pass that is about to delete a row has seen the  *)
(* Portal store or refuse it (PassHonest), and neither is ever undone.     *)
(* Why a 429 wait stands: while the Portal's time lasts the node's pass is *)
(* about to wait, or the node waits, is throttled and runs no pass         *)
(* (AskedRests), and each of the three keeps the others.                   *)
(* Why the order holds (OrderInv): what a batch leaves out is younger than *)
(* what it holds, so nothing older waits behind a row that is sent, be it  *)
(* now or by a request that is served late; an events row is older than    *)
(* the only events transaction under way; and a row that was sent and no   *)
(* longer waits was stored or given up.  With it goes what a node's newest *)
(* clock event says (NewestAgrees).                                        *)
(***************************************************************************)
EXTENDS PortalOutbox, FiniteSetTheorems, TLAPS

(* The parts of the type these proofs need.                                 *)
Shape ==
  /\ DOMAIN pass = Node
  /\ waiting \in [Node -> BOOLEAN]
  /\ throttled \in [Node -> BOOLEAN]
  /\ \E S : portal \in Seq(S)

PassHonest ==
  \A n \in Node :
    /\ pass[n].at = "delivered" => pass[n].row \in Stored
    /\ pass[n].at = "dropped" => pass[n].row \in givenUp

AtRest(n) == \/ pass[n].at = "throttled"
             \/ pass[n] = Idle /\ waiting[n] /\ throttled[n]
AskedRests == asked \subseteq Node /\ \A n \in asked : AtRest(n)

OutboxInv == Shape /\ PassHonest /\ AskedRests

Writers == \A i \in DOMAIN writing : writing[i].node \in Node

LEMMA InitHolds == Init => OutboxInv
<1> SUFFICES ASSUME Init PROVE OutboxInv
  OBVIOUS
<1>1. Shape
  BY DEF Init, Shape
<1>2. PassHonest
  BY DEF Init, PassHonest, Idle
<1>3. QED
  BY <1>1, <1>2 DEF Init, OutboxInv, AskedRests

-----------------------------------------------------------------------------
(* The Portal keeps what it has stored, and stores what it is given.        *)
LEMMA StoreKeeps ==
  ASSUME Shape, NEW req, Stores(req)
  PROVE  /\ \E S : portal' \in Seq(S)
         /\ Stored' = Stored \cup {req.id}
<1>1. PICK S : portal \in Seq(S)
  BY DEF Shape
<1>2. CASE req.id \in Stored
  BY <1>1, <1>2 DEF Stores, Stored
<1>3. CASE req.id \notin Stored
  <2> DEFINE T == S \cup {req}
  <2>1. portal' = Append(portal, req)
    BY <1>3 DEF Stores
  <2>2. portal \in Seq(T)
    BY <1>1
  <2>3. portal' \in Seq(T)
    BY <2>1, <2>2
  <2>4. /\ Len(portal) \in Nat
        /\ DOMAIN portal = 1 .. Len(portal)
        /\ DOMAIN portal' = 1 .. Len(portal) + 1
        /\ portal'[Len(portal) + 1] = req
        /\ \A i \in DOMAIN portal : portal'[i] = portal[i]
    BY <2>1, <2>2
  <2>5. QED
    BY <2>3, <2>4 DEF Stored
<1>4. QED
  BY <1>2, <1>3

(* What no step on the tables or the lock does: it moves no pass, changes   *)
(* no wait and takes nothing back.                                          *)
LEMMA StandsStill ==
  ASSUME OutboxInv, UNCHANGED <<pass, waitVars, portal, givenUp>>
  PROVE  OutboxInv'
BY DEF OutboxInv, Shape, PassHonest, AskedRests, AtRest, waitVars, Stored, Idle

(* A flush begins a pass, or does not, and never one that has to wait.      *)
LEMMA FlushStep ==
  ASSUME OutboxInv, NEW n \in Node, NEW wait, pass' = Begun(n, wait),
         n \in asked => wait \/ pass[n].at = "throttled",
         UNCHANGED <<throttled, asked, portal, givenUp>>,
         waiting' = waiting \/ waiting' = [waiting EXCEPT ![n] = WaitsOn(n)]
  PROVE  OutboxInv'
<1>1. /\ DOMAIN pass' = Node
      /\ \A m \in Node : pass'[m] = pass[m] \/ (m = n /\ ~wait /\ pass'[m] = Reading)
  BY DEF OutboxInv, Shape, Begun
<1>2. Shape'
  BY <1>1 DEF OutboxInv, Shape, WaitsOn
<1>3. PassHonest'
  BY <1>1 DEF OutboxInv, PassHonest, Reading, Stored
<1>4. AskedRests'
  <2>1. ASSUME NEW m \in asked PROVE AtRest(m)'
    <3>1. m \in Node /\ AtRest(m)
      BY DEF OutboxInv, AskedRests
    <3>2. CASE pass[m].at = "throttled"
      BY <1>1, <3>1, <3>2 DEF Begun, AtRest, Idle
    <3>3. CASE pass[m] = Idle /\ waiting[m] /\ throttled[m]
      <4>1. pass'[m] = pass[m]
        BY <1>1, <3>1, <3>3 DEF Idle
      <4>2. waiting'[m] /\ throttled'[m]
        BY <3>1, <3>3 DEF WaitsOn, OutboxInv, Shape
      <4>3. QED
        BY <3>3, <4>1, <4>2 DEF AtRest
    <3>4. QED
      BY <3>1, <3>2, <3>3 DEF AtRest
  <2>2. QED
    BY <2>1 DEF OutboxInv, AskedRests
<1>5. QED
  BY <1>2, <1>3, <1>4 DEF OutboxInv

(* A step of one node's pass.                                               *)
LEMMA PassStep ==
  ASSUME OutboxInv, NEW n \in Node, NEW p, pass' = [pass EXCEPT ![n] = p],
         p.at = "delivered" => p.row \in Stored',
         p.at = "dropped" => p.row \in givenUp',
         \E S : portal' \in Seq(S), Stored \subseteq Stored', givenUp \subseteq givenUp',
         waiting' \in [Node -> BOOLEAN], throttled' \in [Node -> BOOLEAN],
         \A m \in Node \ {n} : waiting'[m] = waiting[m] /\ throttled'[m] = throttled[m],
         asked' \subseteq asked \cup {n},
         n \in asked' => p.at = "throttled" \/ (p = Idle /\ waiting'[n] /\ throttled'[n])
  PROVE  OutboxInv'
<1>1. DOMAIN pass' = Node /\ pass'[n] = p /\ \A m \in Node \ {n} : pass'[m] = pass[m]
  BY DEF OutboxInv, Shape
<1>2. Shape'
  BY <1>1 DEF OutboxInv, Shape
<1>3. PassHonest'
  <2>1. \A m \in Node \ {n} : /\ pass'[m].at = "delivered" => pass'[m].row \in Stored'
                              /\ pass'[m].at = "dropped" => pass'[m].row \in givenUp'
    BY <1>1 DEF OutboxInv, PassHonest
  <2>2. QED
    BY <1>1, <2>1 DEF PassHonest
<1>4. AskedRests'
  <2>1. asked' \subseteq Node /\ \A m \in asked' \ {n} : m \in asked
    BY DEF OutboxInv, AskedRests
  <2>2. QED
    BY <1>1, <2>1 DEF OutboxInv, AskedRests, AtRest
<1>5. QED
  BY <1>2, <1>3, <1>4 DEF OutboxInv

(* What is left of PassStep's hypotheses when no wait changes.              *)
LEMMA WaitsKept ==
  ASSUME OutboxInv, UNCHANGED <<waiting, throttled, asked>>
  PROVE  /\ waiting' \in [Node -> BOOLEAN] /\ throttled' \in [Node -> BOOLEAN]
         /\ \A m \in Node : waiting'[m] = waiting[m] /\ throttled'[m] = throttled[m]
BY DEF OutboxInv, Shape

(* A node whose pass goes on was not asked to wait.                         *)
LEMMA BusyNotAsked ==
  ASSUME OutboxInv, NEW n \in Node, pass[n].at \notin {"idle", "throttled"}
  PROVE  n \notin asked
BY DEF OutboxInv, AskedRests, AtRest, Idle

LEMMA PortalKept ==
  ASSUME OutboxInv, portal' = portal
  PROVE  (\E S : portal' \in Seq(S)) /\ Stored' = Stored
BY DEF OutboxInv, Shape, Stored

LEMMA AskedWaits ==
  ASSUME OutboxInv, NEW n \in Node, n \in asked
  PROVE  pass[n].at = "throttled" \/ (waiting[n] /\ WaitsOn(n))
BY DEF OutboxInv, AskedRests, AtRest, WaitsOn

-----------------------------------------------------------------------------
(* Every step keeps the invariant.                                          *)
LEMMA NextHolds == OutboxInv /\ Writers /\ [Next]_vars => OutboxInv'
<1> SUFFICES ASSUME OutboxInv, Writers, [Next]_vars PROVE OutboxInv'
  OBVIOUS
<1> USE DEF tableVars, lockVars, portalVars
<1>1. ASSUME NEW n \in Front, NEW events \in BOOLEAN, Insert(n, events) PROVE OutboxInv'
  BY <1>1, StandsStill DEF Insert
<1>2. ASSUME NEW i \in DOMAIN writing, Commit(i), writing[i].node \in Node PROVE OutboxInv'
  <2>1. CASE writing[i].events
    BY <1>2, <2>1, StandsStill DEF Commit
  <2>2. CASE ~writing[i].events
    BY <1>2, <2>2, FlushStep, AskedWaits DEF Commit, Flushed, waitVars
  <2>3. QED
    BY <2>1, <2>2
<1>3. ASSUME NEW i \in DOMAIN writing, Rollback(i) PROVE OutboxInv'
  BY <1>3, StandsStill DEF Rollback
<1>4. ASSUME NEW n \in Node, NEW i, Release(n, i) PROVE OutboxInv'
  BY <1>4, FlushStep, AskedWaits DEF Release, Flushed, waitVars
<1>5. ASSUME NEW i, HoldOver(i) PROVE OutboxInv'
  BY <1>5, StandsStill DEF HoldOver
<1>6. ASSUME NEW n \in Node, Flush(n) PROVE OutboxInv'
  BY <1>6, FlushStep, AskedWaits DEF Flush, Flushed, waitVars
<1>7. ASSUME NEW n \in Node, ReadBatch(n) PROVE OutboxInv'
  <2> DEFINE p == IF outbox = Empty THEN Idle ELSE OnTo(Oldest(outbox))
  <2>1. p.at \notin {"delivered", "dropped"}
    BY DEF OnTo, Posting, Idle
  <2>2. n \notin asked
    BY <1>7, BusyNotAsked DEF ReadBatch
  <2>3. pass' = [pass EXCEPT ![n] = p] /\ UNCHANGED <<waiting, throttled, asked, portal, givenUp>>
    BY <1>7 DEF ReadBatch, waitVars
  <2> HIDE DEF p
  <2>4. QED
    BY <2>1, <2>2, <2>3, PassStep, PortalKept, WaitsKept
<1>8. ASSUME NEW n \in Node, Accepted(n) PROVE OutboxInv'
  <2> DEFINE p == [at |-> "delivered", row |-> pass[n].row, batch |-> pass[n].batch]
  <2>1. Posted(n).id = pass[n].row
    BY DEF Posted
  <2>2. (\E S : portal' \in Seq(S)) /\ Stored' = Stored \cup {pass[n].row}
    BY <1>8, <2>1, StoreKeeps DEF Accepted, OutboxInv
  <2>3. n \notin asked
    BY <1>8, BusyNotAsked DEF Accepted
  <2>4. pass' = [pass EXCEPT ![n] = p] /\ UNCHANGED <<waiting, throttled, asked, givenUp>>
    BY <1>8 DEF Accepted, GoesOn, waitVars
  <2>5. p.at = "delivered" /\ p.row = pass[n].row
    OBVIOUS
  <2> HIDE DEF p
  <2>6. QED
    BY <2>2, <2>3, <2>4, <2>5, PassStep, WaitsKept
<1>9. ASSUME NEW n \in Node, Refused(n) PROVE OutboxInv'
  <2> DEFINE p == [at |-> "dropped", row |-> pass[n].row, batch |-> pass[n].batch]
  <2>1. n \notin asked
    BY <1>9, BusyNotAsked DEF Refused
  <2>2. /\ pass' = [pass EXCEPT ![n] = p] /\ UNCHANGED <<waiting, throttled, asked, portal>>
        /\ givenUp' = givenUp \cup {pass[n].row}
    BY <1>9 DEF Refused, GoesOn, waitVars
  <2>3. p.at = "dropped" /\ p.row = pass[n].row
    OBVIOUS
  <2> HIDE DEF p
  <2>4. QED
    BY <2>1, <2>2, <2>3, PassStep, PortalKept, WaitsKept
<1>10. ASSUME NEW n \in Node, Done(n) PROVE OutboxInv'
  <2> DEFINE rest == DOMAIN pass[n].batch \ {pass[n].row}
             p == IF rest = {} THEN Reading ELSE OnTo(Rows(pass[n].batch, rest))
  <2>1. p.at \notin {"delivered", "dropped"}
    BY DEF OnTo, Posting, Idle, Reading
  <2>2. n \notin asked
    BY <1>10, BusyNotAsked DEF Done
  <2>3. pass' = [pass EXCEPT ![n] = p] /\ UNCHANGED <<asked, portal, givenUp>>
    BY <1>10 DEF Done, waitVars
  <2>4. /\ waiting' \in [Node -> BOOLEAN] /\ throttled' \in [Node -> BOOLEAN]
        /\ \A m \in Node \ {n} : waiting'[m] = waiting[m] /\ throttled'[m] = throttled[m]
    BY <1>10 DEF Done, OutboxInv, Shape
  <2> HIDE DEF p
  <2>5. QED
    BY <2>1, <2>2, <2>3, <2>4, PassStep, PortalKept
<1>11. ASSUME NEW n \in Node, NEW why \in Failing, RetryLater(n, why) \/ (why = "unanswered" /\ NoAnswer(n)) PROVE OutboxInv'
  <2> DEFINE p == [at |-> why, row |-> 0, batch |-> Empty]
  <2>1. n \notin asked
    BY <1>11, BusyNotAsked DEF RetryLater, NoAnswer
  <2>2. /\ pass' = [pass EXCEPT ![n] = p] /\ UNCHANGED <<waiting, throttled, portal, givenUp>>
        /\ asked' \subseteq asked \cup {n} /\ (n \in asked' => p.at = "throttled")
    BY <1>11, <2>1 DEF RetryLater, NoAnswer, Fails, waitVars
  <2>3. p.at \notin {"delivered", "dropped"}
    BY DEF Failing
  <2>4. /\ waiting' \in [Node -> BOOLEAN] /\ throttled' \in [Node -> BOOLEAN]
        /\ \A m \in Node : waiting'[m] = waiting[m] /\ throttled'[m] = throttled[m]
    BY <2>2 DEF OutboxInv, Shape
  <2> HIDE DEF p
  <2>5. QED
    BY <2>2, <2>3, <2>4, PassStep, PortalKept
<1>12. ASSUME NEW n \in Node, PutOff(n) PROVE OutboxInv'
  <2>1. n \in asked => pass[n].at = "throttled"
    BY <1>12, BusyNotAsked DEF PutOff, Failing
  <2>2. pass' = [pass EXCEPT ![n] = Idle] /\ UNCHANGED <<portal, givenUp, asked>>
    BY <1>12 DEF PutOff, Ends
  <2>3. /\ waiting' \in [Node -> BOOLEAN] /\ throttled' \in [Node -> BOOLEAN]
        /\ waiting'[n] /\ (pass[n].at = "throttled" => throttled'[n])
        /\ \A m \in Node \ {n} : waiting'[m] = waiting[m] /\ throttled'[m] = throttled[m]
    BY <1>12 DEF PutOff, OutboxInv, Shape
  <2>4. Idle.at \notin {"delivered", "dropped"}
    BY DEF Idle
  <2>5. QED
    BY <2>1, <2>2, <2>3, <2>4, PassStep, PortalKept
<1>13. ASSUME NEW n \in Node, QueryFails(n) PROVE OutboxInv'
  <2>1. pass' = [pass EXCEPT ![n] = Idle] /\ UNCHANGED <<waiting, throttled, portal, givenUp>> /\ asked' = asked \ {n}
    BY <1>13 DEF QueryFails, Ends
  <2>2. Idle.at \notin {"delivered", "dropped"}
    BY DEF Idle
  <2>3. /\ waiting' \in [Node -> BOOLEAN] /\ throttled' \in [Node -> BOOLEAN]
        /\ \A m \in Node : waiting'[m] = waiting[m] /\ throttled'[m] = throttled[m]
    BY <2>1 DEF OutboxInv, Shape
  <2>4. QED
    BY <2>1, <2>2, <2>3, PassStep, PortalKept
<1>14. ASSUME NEW n \in Node, WaitOver(n) PROVE OutboxInv'
  <2>1. Shape'
    BY <1>14 DEF WaitOver, OutboxInv, Shape
  <2>2. PassHonest'
    BY <1>14 DEF WaitOver, OutboxInv, PassHonest, Stored
  <2>3. AskedRests'
    BY <1>14 DEF WaitOver, OutboxInv, AskedRests, AtRest, Shape, Idle
  <2>4. QED
    BY <2>1, <2>2, <2>3 DEF OutboxInv
<1>15. ASSUME NEW n \in Node, Heartbeat(n) PROVE OutboxInv'
  BY <1>15, FlushStep, AskedWaits DEF Heartbeat
<1>16. ASSUME NEW n \in Node, Notices(n) PROVE OutboxInv'
  BY <1>16, StandsStill DEF Notices
<1>17. ASSUME NEW n \in Node, Crash(n) PROVE OutboxInv'
  <2>1. /\ pass' = [pass EXCEPT ![n] = Idle] /\ UNCHANGED <<portal, givenUp>>
        /\ asked' = asked \ {n}
    BY <1>17 DEF Crash, Ends
  <2>2. /\ waiting' \in [Node -> BOOLEAN] /\ throttled' \in [Node -> BOOLEAN]
        /\ \A m \in Node \ {n} : waiting'[m] = waiting[m] /\ throttled'[m] = throttled[m]
    BY <1>17 DEF Crash, OutboxInv, Shape
  <2>3. Idle.at \notin {"delivered", "dropped"}
    BY DEF Idle
  <2>4. QED
    BY <2>1, <2>2, <2>3, PassStep, PortalKept
<1>18. CASE SessionEnds
  BY <1>18, StandsStill DEF SessionEnds
<1>19. ASSUME NEW req \in late, LateArrival(req) PROVE OutboxInv'
  <2>1. (\E S : portal' \in Seq(S)) /\ Stored' = Stored \cup {req.id}
    BY <1>19, StoreKeeps DEF LateArrival, OutboxInv
  <2>2. UNCHANGED <<pass, waiting, throttled, asked, givenUp>>
    BY <1>19 DEF LateArrival, waitVars
  <2>3. Shape'
    BY <2>1, <2>2 DEF OutboxInv, Shape
  <2>4. PassHonest'
    BY <2>1, <2>2 DEF OutboxInv, PassHonest
  <2>5. AskedRests'
    BY <2>2 DEF OutboxInv, AskedRests, AtRest, Idle
  <2>6. QED
    BY <2>3, <2>4, <2>5 DEF OutboxInv
<1>20. ASSUME NEW last, Purge(last) PROVE OutboxInv'
  <2>1. UNCHANGED <<pass, waiting, throttled, asked, portal>> /\ givenUp \subseteq givenUp'
    BY <1>20 DEF Purge, waitVars
  <2>2. Shape'
    BY <2>1 DEF OutboxInv, Shape
  <2>3. PassHonest'
    BY <2>1 DEF OutboxInv, PassHonest, Stored
  <2>4. AskedRests'
    BY <2>1 DEF OutboxInv, AskedRests, AtRest, Idle
  <2>5. QED
    BY <2>2, <2>3, <2>4 DEF OutboxInv
<1>21. CASE UNCHANGED vars
  BY <1>21, StandsStill DEF vars
<1>22. ASSUME NEW n \in Node, ClockChanges(n) PROVE OutboxInv'
  BY <1>22, FlushStep, AskedWaits DEF ClockChanges, Flushed, waitVars
<1>23. ASSUME NEW n, ClockUntold(n) PROVE OutboxInv'
  BY <1>23, StandsStill DEF ClockUntold
<1>24. QED
  BY OutboxAssumption, <1>1, <1>2, <1>3, <1>4, <1>5, <1>6, <1>7, <1>8, <1>9, <1>10, <1>11, <1>12, <1>13, <1>14, <1>15, <1>16,
     <1>17, <1>18, <1>19, <1>20, <1>21, <1>22, <1>23 DEF Next, Step, Writers, Failing

-----------------------------------------------------------------------------
(* Transactions are the nodes' own.                                         *)
LEMMA WritersKept == Writers /\ [Next]_vars => Writers'
<1> SUFFICES ASSUME Writers, [Next]_vars PROVE Writers'
  OBVIOUS
<1>1. CASE writing' = writing
  BY <1>1 DEF Writers
<1>2. CASE \E ids : writing' = Rows(writing, ids) /\ ids \subseteq DOMAIN writing
  BY <1>2 DEF Writers, Rows
<1>3. CASE \E n \in Front, events \in BOOLEAN : Insert(n, events)
  BY <1>3, OutboxAssumption DEF Insert, Writers
<1>4. ASSUME NEW i \in DOMAIN writing, Commit(i) \/ Rollback(i) PROVE Writers'
  BY <1>2, <1>4 DEF Commit, Rollback
<1>5. ASSUME NEW n \in Node, Crash(n) PROVE Writers'
  BY <1>2, <1>5 DEF Crash
<1>6. ASSUME NEW n \in Node, Step(n) PROVE Writers'
  BY <1>1, <1>6 DEF Step, ReadBatch, Done, Accepted, Refused, NoAnswer, RetryLater, PutOff, QueryFails, tableVars
<1>7. ASSUME NEW n \in Node, Flush(n) \/ WaitOver(n) \/ Heartbeat(n) \/ Notices(n) PROVE Writers'
  BY <1>1, <1>7 DEF Flush, WaitOver, Heartbeat, Notices, tableVars
<1>8. ASSUME NEW n, NEW i, Release(n, i) \/ HoldOver(i) \/ Purge(i) \/ ClockChanges(n) \/ ClockUntold(n) PROVE Writers'
  BY <1>1, <1>8 DEF Release, HoldOver, Purge, ClockChanges, ClockUntold, tableVars
<1>9. ASSUME NEW req, SessionEnds \/ LateArrival(req) \/ UNCHANGED vars PROVE Writers'
  BY <1>1, <1>9 DEF SessionEnds, LateArrival, vars, tableVars
<1>10. QED
  BY OutboxAssumption, <1>3, <1>4, <1>5, <1>6, <1>7, <1>8, <1>9 DEF Next

-----------------------------------------------------------------------------
LEMMA InvariantHolds == Spec => [](OutboxInv /\ Writers)
<1>1. Init => OutboxInv /\ Writers
  BY InitHolds DEF Init, Writers, Empty
<1>2. OutboxInv /\ Writers /\ [Next]_vars => (OutboxInv /\ Writers)'
  BY NextHolds, WritersKept
<1>3. QED
  BY <1>1, <1>2, PTL DEF Spec

(* What a step deletes, it deletes for a reason.                            *)
LEMMA StepLosesNothing ==
  ASSUME OutboxInv, [Next]_vars
  PROVE  \A i \in DOMAIN outbox \ DOMAIN outbox' : i \in Stored' \/ i \in givenUp'
<1> DEFINE Fine == \A i \in DOMAIN outbox \ DOMAIN outbox' : i \in Stored' \/ i \in givenUp'
<1> SUFFICES Fine
  OBVIOUS
<1>1. CASE DOMAIN outbox \subseteq DOMAIN outbox'
  BY <1>1
<1>2. ASSUME NEW n \in Node, Done(n) PROVE Fine
  <2>1. DOMAIN outbox \ DOMAIN outbox' \subseteq {pass[n].row}
    BY <1>2 DEF Done, Rows
  <2>2. pass[n].row \in Stored \/ pass[n].row \in givenUp
    BY <1>2 DEF Done, OutboxInv, PassHonest
  <2>3. Stored' = Stored /\ givenUp' = givenUp
    BY <1>2 DEF Done, portalVars, Stored
  <2>4. QED
    BY <2>1, <2>2, <2>3
<1>3. ASSUME NEW last, Purge(last) PROVE Fine
  BY <1>3 DEF Purge, Rows
<1>4. ASSUME NEW i, Commit(i) \/ Rollback(i) PROVE Fine
  BY <1>1, <1>4 DEF Commit, Rollback
<1>5. ASSUME NEW n, NEW i, Release(n, i) \/ ClockChanges(n) \/ ClockUntold(n) PROVE Fine
  <2>1. DOMAIN outbox \subseteq DOMAIN outbox'
    BY <1>5 DEF Release, ClockChanges, ClockUntold, tableVars
  <2>2. QED
    BY <1>1, <2>1
<1>6. ASSUME NEW n, ReadBatch(n) \/ Accepted(n) \/ Refused(n) \/ NoAnswer(n) \/ QueryFails(n) PROVE Fine
  BY <1>1, <1>6 DEF ReadBatch, Accepted, Refused, NoAnswer, QueryFails, tableVars
<1>7. ASSUME NEW n, NEW why, RetryLater(n, why) \/ PutOff(n) PROVE Fine
  BY <1>1, <1>7 DEF RetryLater, PutOff, tableVars
<1>8. ASSUME NEW n, Flush(n) \/ WaitOver(n) \/ Heartbeat(n) \/ Notices(n) \/ Crash(n) PROVE Fine
  BY <1>1, <1>8 DEF Flush, WaitOver, Heartbeat, Notices, Crash, tableVars
<1>9. ASSUME NEW i, NEW n, NEW events, HoldOver(i) \/ Insert(n, events) PROVE Fine
  BY <1>1, <1>9 DEF HoldOver, Insert
<1>10. ASSUME NEW req, SessionEnds \/ LateArrival(req) \/ UNCHANGED vars PROVE Fine
  BY <1>1, <1>10 DEF SessionEnds, LateArrival, vars, tableVars
<1>11. QED
  BY OutboxAssumption, <1>2, <1>3, <1>4, <1>5, <1>6, <1>7, <1>8, <1>9, <1>10 DEF Next, Step

(* The outbox loses no row: one that leaves it was stored by the Portal,    *)
(* refused or purged, whatever the nodes and the lock do (portal.js         *)
(* flushOnce).                                                              *)
THEOREM OutboxKeepsRows == Spec => NothingLost
<1>1. OutboxInv /\ [Next]_vars
        => [\A i \in DOMAIN outbox \ DOMAIN outbox' : i \in Stored' \/ i \in givenUp']_vars
  BY StepLosesNothing
<1>2. QED
  BY <1>1, InvariantHolds, PTL DEF Spec, NothingLost

(* No step posts for a node that runs no pass, or whose pass is about to    *)
(* wait: a pass begins by reading.                                          *)
LEMMA IdlePostsNothing ==
  ASSUME OutboxInv, Writers, [Next]_vars, NEW n \in Node, AtRest(n)
  PROVE  pass'[n].at # "posting"
<1> DEFINE Quiet == pass'[n].at # "posting"
<1> SUFFICES Quiet
  OBVIOUS
<1>1. CASE pass'[n] = pass[n]
  BY <1>1 DEF AtRest, Idle
<1>2. ASSUME NEW m \in Node, NEW wait, pass' = Begun(m, wait) PROVE Quiet
  <2>1. pass'[n] = pass[n] \/ pass'[n] = Reading
    BY <1>2 DEF Begun, OutboxInv, Shape
  <2>2. QED
    BY <2>1 DEF AtRest, Reading, Idle
<1>3. ASSUME NEW m \in Node, NEW p, pass' = [pass EXCEPT ![m] = p], pass[m].at \notin {"idle", "throttled"} PROVE Quiet
  BY <1>1, <1>3 DEF AtRest, Idle
<1>4. ASSUME NEW m \in Node, Step(m) PROVE Quiet
  <2>1. CASE Ends(m)
    BY <1>1, <2>1 DEF Ends, Idle, OutboxInv, Shape
  <2>2. CASE ~Ends(m)
    <3>1. pass[m].at \notin {"idle", "throttled"}
      BY <1>4, <2>2 DEF Step, ReadBatch, Done, Accepted, Refused, NoAnswer, RetryLater, PutOff, QueryFails, Failing
    <3>2. \E p : pass' = [pass EXCEPT ![m] = p]
      BY <1>4 DEF Step, ReadBatch, Done, Accepted, Refused, NoAnswer, RetryLater, PutOff, QueryFails, GoesOn, Fails, Ends
    <3>3. QED
      BY <1>3, <3>1, <3>2
  <2>3. QED
    BY <2>1, <2>2
<1>5. ASSUME NEW i \in DOMAIN writing, Commit(i) PROVE Quiet
  <2>1. writing[i].node \in Node
    BY DEF Writers
  <2>2. QED
    BY <1>1, <1>2, <1>5, <2>1 DEF Commit, Flushed
<1>6. ASSUME NEW m \in Node, NEW i, Release(m, i) PROVE Quiet
  BY <1>2, <1>6 DEF Release, Flushed
<1>7. ASSUME NEW m \in Node, Flush(m) \/ Heartbeat(m) \/ ClockChanges(m) PROVE Quiet
  BY <1>2, <1>7 DEF Flush, Heartbeat, ClockChanges, Flushed
<1>8. ASSUME NEW m \in Node, Crash(m) PROVE Quiet
  BY <1>1, <1>8 DEF Crash, Ends, Idle, OutboxInv, Shape
<1>9. ASSUME NEW m, NEW i, NEW events, Insert(m, events) \/ Rollback(i) \/ HoldOver(i) \/ Purge(i) \/ ClockUntold(m) PROVE Quiet
  BY <1>1, <1>9 DEF Insert, Rollback, HoldOver, Purge, ClockUntold
<1>10. ASSUME NEW m, NEW req, WaitOver(m) \/ Notices(m) \/ SessionEnds \/ LateArrival(req) \/ UNCHANGED vars PROVE Quiet
  BY <1>1, <1>10 DEF WaitOver, Notices, SessionEnds, LateArrival, vars
<1>11. QED
  BY OutboxAssumption, <1>4, <1>5, <1>6, <1>7, <1>8, <1>9, <1>10 DEF Next

(* A node the Portal has answered 429 posts nothing until the time it was   *)
(* told, heartbeats or not, unless the UPDATE that comes before the wait    *)
(* throws or the node restarts (portal.js flushOnce, backoff, heartbeat).   *)
THEOREM PortalIsWaitedFor == Spec => RetryAfterKept
<1>1. OutboxInv /\ Writers /\ [Next]_vars
        => [\A n \in asked : pass'[n].at # "posting"]_vars
  BY IdlePostsNothing DEF OutboxInv, AskedRests
<1>2. QED
  BY <1>1, InvariantHolds, PTL DEF Spec, RetryAfterKept

-----------------------------------------------------------------------------
(* The rows of a batch are taken in the order of their ids.                 *)
LEMMA Least ==
  ASSUME NEW S, S \subseteq Nat, S # {}
  PROVE  \E i \in S : \A j \in S : i <= j
<1> DEFINE Below == OpToRel(<, Nat)
<1>1. PICK i \in S : \A j \in S : ~ (<<j, i>> \in Below)
  <2>1. IsWellFoundedOn(Below, Nat)
    BY NatLessThanWellFounded
  <2> HIDE DEF Below
  <2>2. QED
    BY <2>1, WFMin
<1>2. \A j \in S : ~ (j < i)
  BY <1>1 DEF OpToRel
<1>3. QED
  BY <1>2

LEMMA FirstIs ==
  ASSUME NEW f, DOMAIN f \subseteq Nat, DOMAIN f # {}
  PROVE  First(f) \in DOMAIN f /\ \A j \in DOMAIN f : First(f) <= j
BY Least DEF First

(* What is read is a beginning of the outbox, and not nothing.              *)
LEMMA OldestIs ==
  ASSUME NEW f, DOMAIN f \subseteq Id
  PROVE  /\ DOMAIN Oldest(f) \subseteq DOMAIN f
         /\ \A i \in DOMAIN Oldest(f) : Oldest(f)[i] = f[i]
         /\ \A i \in DOMAIN Oldest(f), j \in DOMAIN f : j < i => j \in DOMAIN Oldest(f)
         /\ DOMAIN f # {} => DOMAIN Oldest(f) # {}
<1> DEFINE Older(i) == {j \in DOMAIN f : j < i}
<1>1. /\ DOMAIN Oldest(f) = {i \in DOMAIN f : Cardinality(Older(i)) < Batch}
      /\ \A i \in DOMAIN Oldest(f) : Oldest(f)[i] = f[i]
  BY DEF Oldest, Rows
<1>2. \A i : IsFiniteSet(Older(i)) /\ Older(i) \subseteq Id
  <2>1. IsFiniteSet(Id)
    BY FS_Interval, OutboxAssumption DEF Id
  <2>2. QED
    BY <2>1, FS_Subset
<1>3. ASSUME NEW i \in DOMAIN Oldest(f), NEW j \in DOMAIN f, j < i
      PROVE  j \in DOMAIN Oldest(f)
  <2>1. Older(j) \subseteq Older(i)
    BY <1>3, <1>1, OutboxAssumption DEF Id
  <2>2. Cardinality(Older(j)) <= Cardinality(Older(i)) /\ Cardinality(Older(i)) \in Nat /\ Cardinality(Older(j)) \in Nat
    BY <1>2, <2>1, FS_Subset, FS_CardinalityType
  <2>3. Cardinality(Older(i)) < Batch
    BY <1>1
  <2>4. Cardinality(Older(j)) < Batch
    BY <2>2, <2>3, OutboxAssumption
  <2>5. QED
    BY <1>1, <2>4
<1>4. ASSUME DOMAIN f # {} PROVE DOMAIN Oldest(f) # {}
  <2>1. PICK i \in DOMAIN f : \A j \in DOMAIN f : i <= j
    BY <1>4, Least DEF Id
  <2>2. Older(i) = {}
    BY <2>1, OutboxAssumption DEF Id
  <2>3. Cardinality(Older(i)) < Batch
    BY <2>2, FS_EmptySet, OutboxAssumption
  <2>4. QED
    BY <1>1, <2>3
<1>5. QED
  BY <1>1, <1>3, <1>4

-----------------------------------------------------------------------------
(* Type correctness, with what TypeOK leaves implicit: the outbox and the   *)
(* passes are functions.                                                    *)
TableType ==
  /\ nextId \in 1 .. MaxRows + 1
  /\ DOMAIN writing \subseteq Id /\ \A i \in DOMAIN writing : writing[i] \in [node : Node, events : BOOLEAN]
  /\ DOMAIN outbox \subseteq Id /\ outbox \in [DOMAIN outbox -> Row]
  /\ holdOver \subseteq Id
  /\ notifying \in [Node -> SUBSET Id]

LockType ==
  /\ lock \in Node \cup {None}
  /\ leader \in [Node -> BOOLEAN] /\ waiting \in [Node -> BOOLEAN] /\ throttled \in [Node -> BOOLEAN]

PassOf(p) ==
  /\ p.at \in Steps
  /\ DOMAIN p.batch \subseteq Id /\ \A i \in DOMAIN p.batch : p.batch[i] \in Row
  /\ IF p.at \in {"idle", "read"} \cup Failing THEN p.row = 0 /\ p.batch = Empty
     ELSE p.row \in DOMAIN p.batch /\ \A i \in DOMAIN p.batch : p.row <= i

PassType == DOMAIN pass = Node /\ \A n \in Node : PassOf(pass[n])

PortalType == late \subseteq Request /\ portal \in Seq(Request)

RestType ==
  /\ givenUp \subseteq Id /\ asked \subseteq Node
  /\ drift \in [Node -> BOOLEAN] /\ untold \subseteq Node

TypeInv == TableType /\ LockType /\ PassType /\ PortalType /\ RestType

LEMMA TypeParts == TypeInv => TypeOK
BY DEF TypeInv, TypeOK, TableType, LockType, PassType, PassOf, PortalType, RestType

LEMMA InitTyped == Init => TypeInv
<1> SUFFICES ASSUME Init PROVE TypeInv
  OBVIOUS
<1> USE DEF Init, Empty, OutboxAssumption
<1>1. TableType
  BY OutboxAssumption DEF TableType
<1>2. LockType
  BY DEF LockType
<1>3. PassType
  BY DEF PassType, PassOf, Idle, Steps, Failing
<1>4. PortalType /\ RestType
  BY DEF PortalType, RestType
<1>5. QED
  BY <1>1, <1>2, <1>3, <1>4 DEF TypeInv

(* A pass that ends, or begins, and the loop coming to a row.               *)
LEMMA PassesTyped ==
  /\ PassOf(Idle) /\ PassOf(Reading)
  /\ \A f : DOMAIN f \subseteq Id /\ DOMAIN f # {} /\ (\A i \in DOMAIN f : f[i] \in Row) => PassOf(OnTo(f))
<1>1. PassOf(Idle) /\ PassOf(Reading)
  BY DEF PassOf, Idle, Reading, Empty, Steps, Failing
<1>2. ASSUME NEW f, DOMAIN f \subseteq Id, DOMAIN f # {}, \A i \in DOMAIN f : f[i] \in Row PROVE PassOf(Posting(f))
  <2>1. First(f) \in DOMAIN f /\ \A j \in DOMAIN f : First(f) <= j
    BY <1>2, FirstIs DEF Id
  <2>2. QED
    BY <1>2, <2>1 DEF PassOf, Posting, Steps, Failing
<1>3. QED
  BY <1>1, <1>2 DEF OnTo

LEMMA TableTyped == TypeInv /\ [Next]_vars => TableType'
<1> SUFFICES ASSUME TypeInv, [Next]_vars PROVE TableType'
  OBVIOUS
<1>1. CASE UNCHANGED tableVars
  BY <1>1 DEF tableVars, TypeInv, TableType
<1>2. ASSUME NEW n \in Front, NEW events \in BOOLEAN, Insert(n, events) PROVE TableType'
  BY <1>2, OutboxAssumption DEF Insert, TypeInv, TableType, Id
<1>3. ASSUME NEW i \in DOMAIN writing, Commit(i) PROVE TableType'
  <2>1. writing[i].node \in Node /\ writing[i].events \in BOOLEAN /\ i \in Id
    BY DEF TypeInv, TableType
  <2>2. [events |-> writing[i].events, held |-> writing[i].events, clock |-> None] \in Row
    BY <2>1 DEF Row
  <2>3. notifying' \in [Node -> SUBSET Id]
    BY <1>3, <2>1 DEF Commit, TypeInv, TableType
  <2>4. DOMAIN outbox' \subseteq Id /\ outbox' \in [DOMAIN outbox' -> Row]
    BY <1>3, <2>1, <2>2 DEF Commit, TypeInv, TableType
  <2>5. QED
    BY <1>3, <2>3, <2>4 DEF Commit, TypeInv, TableType, Rows
<1>4. ASSUME NEW i \in DOMAIN writing, Rollback(i) PROVE TableType'
  BY <1>4 DEF Rollback, TypeInv, TableType, Rows
<1>5. ASSUME NEW n \in Node, NEW i \in notifying[n], Release(n, i) PROVE TableType'
  <2>1. notifying' \in [Node -> SUBSET Id]
    BY <1>5 DEF Release, TypeInv, TableType
  <2>2. DOMAIN outbox' \subseteq Id /\ outbox' \in [DOMAIN outbox' -> Row]
    BY <1>5 DEF Release, TypeInv, TableType, Row
  <2>3. QED
    BY <1>5, <2>1, <2>2 DEF Release, TypeInv, TableType
<1>6. ASSUME NEW i \in DOMAIN outbox, HoldOver(i) PROVE TableType'
  BY <1>6 DEF HoldOver, TypeInv, TableType
<1>7. ASSUME NEW n \in Node, Done(n) PROVE TableType'
  BY <1>7 DEF Done, TypeInv, TableType, Rows
<1>8. ASSUME NEW n \in Node, Flush(n) \/ WaitOver(n) \/ Heartbeat(n) \/ Notices(n) PROVE TableType'
  BY <1>1, <1>8 DEF Flush, WaitOver, Heartbeat, Notices
<1>9. ASSUME NEW n \in Node, NEW b, ReadBatch(n) \/ Accepted(n) \/ Refused(n) \/ NoAnswer(n) \/ QueryFails(n) \/ RetryLater(n, b) \/ PutOff(n)
      PROVE TableType'
  BY <1>1, <1>9 DEF ReadBatch, Accepted, Refused, NoAnswer, QueryFails, RetryLater, PutOff
<1>10. ASSUME NEW n \in Node, Crash(n) PROVE TableType'
  BY <1>10 DEF Crash, TypeInv, TableType, Rows
<1>11. ASSUME NEW n \in Node, ClockChanges(n) PROVE TableType'
  <2>1. [events |-> FALSE, held |-> FALSE, clock |-> <<n, ~drift[n]>>] \in Row
    BY DEF Row, Clock, TypeInv, RestType
  <2>2. nextId \in Id /\ nextId + 1 \in 1 .. MaxRows + 1
    BY <1>11, OutboxAssumption DEF ClockChanges, TypeInv, TableType, Id
  <2>3. QED
    BY <1>11, <2>1, <2>2 DEF ClockChanges, TypeInv, TableType
<1>12. ASSUME NEW n, NEW req, ClockUntold(n) \/ SessionEnds \/ LateArrival(req) PROVE TableType'
  BY <1>1, <1>12 DEF ClockUntold, SessionEnds, LateArrival
<1>13. ASSUME NEW last, Purge(last) PROVE TableType'
  BY <1>13 DEF Purge, TypeInv, TableType, Rows
<1>14. CASE UNCHANGED vars
  BY <1>1, <1>14 DEF vars
<1>15. QED
  BY OutboxAssumption, <1>2, <1>3, <1>4, <1>5, <1>6, <1>7, <1>8, <1>9, <1>10, <1>11, <1>12, <1>13, <1>14 DEF Next, Step

LEMMA LockTyped == TypeInv /\ [Next]_vars => LockType'
<1> SUFFICES ASSUME TypeInv, [Next]_vars PROVE LockType'
  OBVIOUS
<1>1. CASE UNCHANGED <<lockVars, waiting, throttled>>
  BY <1>1 DEF lockVars, TypeInv, LockType
<1>2. ASSUME NEW n \in Node, Lead(n) \/ UNCHANGED lockVars PROVE lock' \in Node \cup {None} /\ leader' \in [Node -> BOOLEAN]
  BY <1>2 DEF Lead, lockVars, Leads, TypeInv, LockType
<1>3. ASSUME NEW n \in Node, Flushed(n), UNCHANGED <<waiting, throttled>> PROVE LockType'
  BY <1>2, <1>3 DEF Flushed, TypeInv, LockType
<1>4. ASSUME NEW i \in DOMAIN writing, Commit(i) PROVE LockType'
  <2>1. writing[i].node \in Node
    BY DEF TypeInv, TableType
  <2>2. QED
    BY <1>1, <1>3, <1>4, <2>1 DEF Commit, waitVars, lockVars
<1>5. ASSUME NEW n \in Node, NEW i, Release(n, i) \/ Flush(n) \/ ClockChanges(n) PROVE LockType'
  BY <1>3, <1>5 DEF Release, Flush, ClockChanges, waitVars
<1>6. ASSUME NEW n \in Node, Heartbeat(n) PROVE LockType'
  BY <1>2, <1>6 DEF Heartbeat, WaitsOn, TypeInv, LockType
<1>7. ASSUME NEW n \in Node, Done(n) \/ PutOff(n) \/ WaitOver(n) PROVE LockType'
  BY <1>7 DEF Done, PutOff, WaitOver, lockVars, TypeInv, LockType
<1>8. ASSUME NEW n \in Node, Notices(n) \/ Crash(n) PROVE LockType'
  BY <1>8 DEF Notices, Crash, waitVars, TypeInv, LockType
<1>9. CASE SessionEnds
  BY <1>9 DEF SessionEnds, waitVars, TypeInv, LockType
<1>10. ASSUME NEW n, NEW i, NEW e, Insert(n, e) \/ Rollback(i) \/ HoldOver(i) \/ Purge(i) \/ ClockUntold(n) \/ LateArrival(e)
       PROVE LockType'
  BY <1>1, <1>10 DEF Insert, Rollback, HoldOver, Purge, ClockUntold, LateArrival, waitVars
<1>11. ASSUME NEW n, NEW b, ReadBatch(n) \/ Accepted(n) \/ Refused(n) \/ NoAnswer(n) \/ RetryLater(n, b) \/ QueryFails(n)
                            \/ UNCHANGED vars
       PROVE LockType'
  BY <1>1, <1>11 DEF ReadBatch, Accepted, Refused, NoAnswer, RetryLater, QueryFails, vars, waitVars
<1>12. QED
  BY OutboxAssumption, <1>4, <1>5, <1>6, <1>7, <1>8, <1>9, <1>10, <1>11 DEF Next, Step

LEMMA PassTyped == TypeInv /\ [Next]_vars => PassType'
<1> SUFFICES ASSUME TypeInv, [Next]_vars PROVE PassType'
  OBVIOUS
<1>1. CASE pass' = pass
  BY <1>1 DEF TypeInv, PassType
<1>2. ASSUME NEW n \in Node, NEW p, pass' = [pass EXCEPT ![n] = p], PassOf(p) PROVE PassType'
  BY <1>2 DEF TypeInv, PassType
<1>3. ASSUME NEW n \in Node, NEW wait, pass' = Begun(n, wait) PROVE PassType'
  <2>1. pass' = pass \/ pass' = [pass EXCEPT ![n] = Reading]
    BY <1>3 DEF Begun
  <2>2. QED
    BY <1>1, <1>2, <2>1, PassesTyped
<1>4. ASSUME NEW n \in Node, Ends(n) PROVE PassType'
  BY <1>2, <1>4, PassesTyped DEF Ends
<1>5. ASSUME NEW n \in Node, NEW at \in {"delivered", "dropped"}, pass[n].at = "posting", GoesOn(n, at) PROVE PassType'
  <2> DEFINE p == [at |-> at, row |-> pass[n].row, batch |-> pass[n].batch]
  <2>1. PassOf(pass[n])
    BY DEF TypeInv, PassType
  <2>2. PassOf(p)
    BY <1>5, <2>1 DEF PassOf, Steps, Failing
  <2>3. QED
    BY <1>2, <1>5, <2>2 DEF GoesOn
<1>6. ASSUME NEW i \in DOMAIN writing, Commit(i) PROVE PassType'
  <2>1. writing[i].node \in Node
    BY DEF TypeInv, TableType
  <2>2. QED
    BY <1>1, <1>3, <1>6, <2>1 DEF Commit, Flushed
<1>7. ASSUME NEW n \in Node, NEW i, Release(n, i) \/ Flush(n) \/ ClockChanges(n) \/ Heartbeat(n) PROVE PassType'
  BY <1>3, <1>7 DEF Release, Flush, ClockChanges, Heartbeat, Flushed
<1>8. ASSUME NEW n \in Node, ReadBatch(n) PROVE PassType'
  <2> DEFINE p == IF outbox = Empty THEN Idle ELSE OnTo(Oldest(outbox))
  <2>1. CASE outbox = Empty
    BY <1>2, <1>8, <2>1, PassesTyped DEF ReadBatch
  <2>2. CASE outbox # Empty
    <3>1. DOMAIN outbox \subseteq Id /\ DOMAIN outbox # {} /\ \A i \in DOMAIN outbox : outbox[i] \in Row
      BY <2>2 DEF TypeInv, TableType, Empty
    <3>2. DOMAIN Oldest(outbox) \subseteq Id /\ DOMAIN Oldest(outbox) # {} /\ \A i \in DOMAIN Oldest(outbox) : Oldest(outbox)[i] \in Row
      BY <3>1, OldestIs
    <3>3. PassOf(OnTo(Oldest(outbox)))
      BY <3>2, PassesTyped
    <3>4. QED
      BY <1>2, <1>8, <2>2, <3>3 DEF ReadBatch
  <2>3. QED
    BY <2>1, <2>2
<1>9. ASSUME NEW n \in Node, Done(n) PROVE PassType'
  <2> DEFINE rest == DOMAIN pass[n].batch \ {pass[n].row}
  <2>1. PassOf(pass[n])
    BY DEF TypeInv, PassType
  <2>2. rest # {} => PassOf(OnTo(Rows(pass[n].batch, rest)))
    BY <2>1, PassesTyped DEF PassOf, Rows
  <2>3. QED
    BY <1>2, <1>9, <2>2, PassesTyped DEF Done
<1>10. ASSUME NEW n \in Node, Accepted(n) \/ Refused(n) PROVE PassType'
  BY <1>5, <1>10 DEF Accepted, Refused
<1>11. ASSUME NEW n \in Node, NEW why \in Failing, RetryLater(n, why) \/ (why = "unanswered" /\ NoAnswer(n)) \/ PutOff(n)
                                                  \/ QueryFails(n) \/ Crash(n)
       PROVE PassType'
  <2>1. PassOf([at |-> why, row |-> 0, batch |-> Empty])
    BY DEF PassOf, Steps, Empty
  <2>2. QED
    BY <1>2, <1>4, <1>11, <2>1 DEF RetryLater, NoAnswer, Fails, PutOff, QueryFails, Crash
<1>12. ASSUME NEW n, NEW i, NEW e, Insert(n, e) \/ Rollback(i) \/ HoldOver(i) \/ Purge(i) \/ ClockUntold(n) \/ LateArrival(e)
       PROVE PassType'
  BY <1>1, <1>12 DEF Insert, Rollback, HoldOver, Purge, ClockUntold, LateArrival
<1>13. ASSUME NEW n, WaitOver(n) \/ Notices(n) \/ SessionEnds \/ UNCHANGED vars PROVE PassType'
  BY <1>1, <1>13 DEF WaitOver, Notices, SessionEnds, vars
<1>14. QED
  BY OutboxAssumption, <1>6, <1>7, <1>8, <1>9, <1>10, <1>11, <1>12, <1>13 DEF Next, Step, Failing

LEMMA PostedIs ==
  ASSUME TypeInv, NEW n \in Node, pass[n].at = "posting"
  PROVE  Posted(n) \in Request
<1>1. PassOf(pass[n])
  BY DEF TypeInv, PassType
<1>2. pass[n].row \in Id /\ pass[n].batch[pass[n].row] \in Row
  BY <1>1 DEF PassOf, Failing
<1>3. QED
  BY <1>2 DEF Posted, Request, Row

LEMMA PortalTyped == TypeInv /\ [Next]_vars => PortalType'
<1> SUFFICES ASSUME TypeInv, [Next]_vars PROVE PortalType'
  OBVIOUS
<1>1. CASE UNCHANGED portalVars
  BY <1>1 DEF portalVars, TypeInv, PortalType
<1>2. ASSUME NEW req \in Request, Stores(req) PROVE PortalType'
  BY <1>2 DEF Stores, TypeInv, PortalType
<1>3. ASSUME NEW n \in Node, Accepted(n) PROVE PortalType'
  BY <1>2, <1>3, PostedIs DEF Accepted
<1>4. ASSUME NEW req \in late, LateArrival(req) PROVE PortalType'
  BY <1>2, <1>4 DEF LateArrival, TypeInv, PortalType
<1>5. ASSUME NEW n \in Node, NoAnswer(n) \/ Crash(n) PROVE PortalType'
  BY <1>5, PostedIs DEF NoAnswer, Crash, Abandoned, TypeInv, PortalType
<1>6. ASSUME NEW n, NEW i, NEW e, Insert(n, e) \/ Commit(i) \/ Rollback(i) \/ Release(n, i) \/ HoldOver(i) \/ Purge(i) PROVE PortalType'
  BY <1>1, <1>6 DEF Insert, Commit, Rollback, Release, HoldOver, Purge
<1>7. ASSUME NEW n, Flush(n) \/ WaitOver(n) \/ Heartbeat(n) \/ Notices(n) \/ ClockChanges(n) \/ ClockUntold(n) \/ SessionEnds PROVE PortalType'
  BY <1>1, <1>7 DEF Flush, WaitOver, Heartbeat, Notices, ClockChanges, ClockUntold, SessionEnds
<1>8. ASSUME NEW n, NEW b, ReadBatch(n) \/ Refused(n) \/ Done(n) \/ RetryLater(n, b) \/ PutOff(n) \/ QueryFails(n)
                           \/ UNCHANGED vars
      PROVE PortalType'
  BY <1>1, <1>8 DEF ReadBatch, Refused, Done, RetryLater, PutOff, QueryFails, vars, portalVars
<1>9. QED
  BY OutboxAssumption, <1>3, <1>4, <1>5, <1>6, <1>7, <1>8 DEF Next, Step

LEMMA RestTyped == TypeInv /\ [Next]_vars => RestType'
<1> SUFFICES ASSUME TypeInv, [Next]_vars PROVE RestType'
  OBVIOUS
<1>1. CASE UNCHANGED <<givenUp, asked, clockVars>>
  BY <1>1 DEF clockVars, TypeInv, RestType
<1>2. \A rows : ClocksOf(rows) \subseteq Node
  BY DEF ClocksOf
<1>3. ASSUME NEW n \in Node, Refused(n) PROVE RestType'
  <2>1. pass[n].row \in Id
    BY <1>3 DEF Refused, TypeInv, PassType, PassOf, Failing
  <2>2. QED
    BY <1>2, <1>3, <2>1 DEF Refused, waitVars, TypeInv, RestType
<1>4. ASSUME NEW n \in Node, NEW b, RetryLater(n, b) \/ QueryFails(n) \/ WaitOver(n) PROVE RestType'
  BY <1>4 DEF RetryLater, QueryFails, WaitOver, clockVars, TypeInv, RestType
<1>5. ASSUME NEW n \in Node, ClockChanges(n) \/ ClockUntold(n) \/ Crash(n) PROVE RestType'
  BY <1>5 DEF ClockChanges, ClockUntold, DriftToggles, Crash, waitVars, TypeInv, RestType
<1>6. ASSUME NEW last, Purge(last) PROVE RestType'
  BY <1>2, <1>6 DEF Purge, waitVars, TypeInv, TableType, RestType
<1>7. ASSUME NEW n, NEW i, NEW e, Insert(n, e) \/ Commit(i) \/ Rollback(i) \/ Release(n, i) \/ HoldOver(i) \/ LateArrival(e) PROVE RestType'
  BY <1>1, <1>7 DEF Insert, Commit, Rollback, Release, HoldOver, LateArrival, waitVars
<1>8. ASSUME NEW n, Flush(n) \/ Heartbeat(n) \/ Notices(n) \/ SessionEnds PROVE RestType'
  BY <1>1, <1>8 DEF Flush, Heartbeat, Notices, SessionEnds, waitVars
<1>9. ASSUME NEW n, ReadBatch(n) \/ Accepted(n) \/ Done(n) \/ NoAnswer(n) \/ PutOff(n) \/ UNCHANGED vars PROVE RestType'
  BY <1>1, <1>9 DEF ReadBatch, Accepted, Done, NoAnswer, PutOff, vars, waitVars
<1>10. QED
  BY OutboxAssumption, <1>3, <1>4, <1>5, <1>6, <1>7, <1>8, <1>9 DEF Next, Step

LEMMA TypeHolds == Spec => []TypeInv
<1>1. TypeInv /\ [Next]_vars => TypeInv'
  BY TableTyped, LockTyped, PassTyped, PortalTyped, RestTyped DEF TypeInv
<1>2. QED
  BY <1>1, InitTyped, PTL DEF Spec

(* The outbox, the locks, the passes and the Portal's store keep their      *)
(* types (portal.js).                                                       *)
THEOREM TypeCorrect == Spec => []TypeOK
BY TypeHolds, TypeParts, PTL

-----------------------------------------------------------------------------
(* The order of the rows.  A row as it is known to the outbox, to a pass    *)
(* that has read it, to a request on its way and to the Portal:             *)
Req(i, row) == [id |-> i, events |-> row.events, clock |-> row.clock]
Queued == {Req(i, outbox[i]) : i \in DOMAIN outbox}
ReadBy(n) == {Req(i, pass[n].batch[i]) : i \in DOMAIN pass[n].batch}
AtPortal == {portal[p] : p \in DOMAIN portal}
Known == Queued \cup (UNION {ReadBy(n) : n \in Node}) \cup late \cup AtPortal

(* Rows whose order counts: the events rows, and the clock events.          *)
Together(c, d) == (c.events /\ d.events) \/ (c.clock \in Clock /\ d.clock \in Clock)

(* ingest's advisory lock.                                                  *)
OneWriter ==
  /\ \A i \in DOMAIN writing : i < nextId
  /\ \A i, j \in DOMAIN writing : writing[i].events /\ writing[j].events => i = j
  /\ \A i \in givenUp : i < nextId /\ i \notin DOMAIN writing

(* What is known was committed, waits until it is stored or given up, and   *)
(* is older than the events transaction under way.                          *)
Sound(c) ==
  /\ c.id < nextId /\ c.id \notin DOMAIN writing
  /\ (\E d \in Queued : d.id = c.id) \/ c.id \in Stored \/ c.id \in givenUp
  /\ c.id \in givenUp => \A n \in Node, off \in BOOLEAN : c.clock = <<n, off>> => n \in untold
  /\ c.events => \A i \in DOMAIN writing : writing[i].events => c.id < i

AllSound == \A c \in Known : Sound(c)
OneBody == \A c, d \in Known : c.id = d.id => c = d

(* A batch leaves out no waiting row older than one of its own.             *)
ReadInOrder == \A n \in Node : \A c \in ReadBy(n), d \in Queued :
  Together(c, d) /\ d.id < c.id => d \in ReadBy(n)

(* What was sent has no older row waiting.                                  *)
NoneBefore == \A c \in late \cup AtPortal, d \in Queued : Together(c, d) => c.id <= d.id

StoredInOrder == \A p, q \in DOMAIN portal :
  p < q /\ Together(portal[p], portal[q]) => portal[p].id < portal[q].id \/ portal[q].id \in givenUp

(* A node's newest clock event, waiting or stored, says what the node does. *)
About(n) == {c \in Queued \cup AtPortal : c.clock \in {<<n, TRUE>>, <<n, FALSE>>}}
NewestAgrees == \A n \in Node \ untold :
  drift[n] <=> \E c \in About(n) : c.clock[2] /\ \A d \in About(n) : d.id <= c.id

OrderInv == OneWriter /\ AllSound /\ OneBody /\ ReadInOrder /\ NoneBefore /\ StoredInOrder /\ NewestAgrees

LEMMA KnownIs ==
  ASSUME TypeInv
  PROVE  /\ Known \subseteq Request
         /\ \A c \in Known : c.id \in Nat
         /\ nextId \in Nat
         /\ DOMAIN writing \subseteq Nat
         /\ \A c \in AtPortal : c.id \in Stored
         /\ \A i \in Stored : \E c \in AtPortal : c.id = i
<1>1. Queued \subseteq Request
  BY DEF TypeInv, TableType, Queued, Req, Request, Row
<1>2. ASSUME NEW n \in Node PROVE ReadBy(n) \subseteq Request
  BY DEF TypeInv, PassType, PassOf, ReadBy, Req, Request, Row
<1>3. late \subseteq Request /\ AtPortal \subseteq Request
  BY DEF TypeInv, PortalType, AtPortal
<1>4. Known \subseteq Request
  BY <1>1, <1>2, <1>3 DEF Known
<1>5. QED
  BY <1>4, OutboxAssumption DEF TypeInv, TableType, Request, Id, Stored, AtPortal

(* What a step has to leave as it is for a sound row to stay sound.         *)
LEMMA SoundKept ==
  ASSUME TypeInv, NEW c \in Known, Sound(c),
         nextId' \in Nat, nextId <= nextId',
         \A i \in DOMAIN writing' : \/ i \in DOMAIN writing /\ writing'[i] = writing[i]
                                    \/ i = nextId,
         \A d \in Queued : \/ d.id \in Stored' \/ d.id \in givenUp'
                           \/ \E e \in Queued' : e.id = d.id,
         Stored \subseteq Stored', givenUp \subseteq givenUp', untold \subseteq untold',
         c.id \in givenUp' => \/ c.id \in givenUp
                              \/ \A n \in Node, off \in BOOLEAN : c.clock = <<n, off>> => n \in untold'
  PROVE  Sound(c)'
<1>1. c.id \in Nat /\ nextId \in Nat
  BY KnownIs
<1>2. c.id < nextId' /\ c.id \notin DOMAIN writing'
  BY <1>1 DEF Sound
<1>3. (\E d \in Queued' : d.id = c.id) \/ c.id \in Stored' \/ c.id \in givenUp'
  BY DEF Sound
<1>4. c.id \in givenUp' => \A n \in Node, off \in BOOLEAN : c.clock = <<n, off>> => n \in untold'
  BY DEF Sound
<1>5. c.events => \A i \in DOMAIN writing' : writing'[i].events => c.id < i
  BY <1>1 DEF Sound
<1>6. QED
  BY <1>2, <1>3, <1>4, <1>5 DEF Sound

(* Rows leave the outbox for a reason, are given up, or a pass or a         *)
(* transaction ends; a request is abandoned that no older row waits behind. *)
LEMMA Leaving ==
  ASSUME TypeInv, OrderInv,
         nextId' = nextId,
         DOMAIN writing' \subseteq DOMAIN writing, \A i \in DOMAIN writing' : writing'[i] = writing[i],
         Queued' \subseteq Queued,
         \A d \in Queued \ Queued' : d.id \in Stored \/ d.id \in givenUp',
         \A n \in Node : \/ ReadBy(n)' = {}
                         \/ ReadBy(n)' \subseteq ReadBy(n) /\ \A d \in ReadBy(n) : d \in Queued' => d \in ReadBy(n)',
         late' \subseteq Known, \A c \in late' \ late, d \in Queued : Together(c, d) => c.id <= d.id,
         portal' = portal,
         givenUp \subseteq givenUp', untold \subseteq untold',
         \A i \in givenUp' \ givenUp : \E c \in Known : c.id = i,
         \A c \in Known : c.id \in givenUp' => \/ c.id \in givenUp
                                               \/ \A n \in Node, off \in BOOLEAN : c.clock = <<n, off>> => n \in untold',
         \A n \in Node \ untold' : drift'[n] = drift[n]
  PROVE  OrderInv'
<1> USE DEF OrderInv
<1>1. Stored' = Stored /\ AtPortal' = AtPortal
  BY DEF Stored, AtPortal
<1>2. Known' \subseteq Known
  BY <1>1 DEF Known
<1>3. AllSound'
  <2>1. ASSUME NEW c \in Known PROVE Sound(c)'
    <3>1. Sound(c)
      BY DEF AllSound
    <3>2. nextId' \in Nat /\ nextId <= nextId'
      BY KnownIs
    <3>3. \A d \in Queued : d.id \in Stored' \/ d.id \in givenUp' \/ \E e \in Queued' : e.id = d.id
      BY <1>1
    <3>4. QED
      BY <1>1, <3>1, <3>2, <3>3, SoundKept
  <2>2. QED
    BY <1>2, <2>1 DEF AllSound
<1>4. OneWriter'
  BY DEF OneWriter, AllSound, Sound
<1>5. OneBody'
  BY <1>2 DEF OneBody
<1>6. ReadInOrder'
  BY DEF ReadInOrder, Together
<1>7. NoneBefore'
  BY <1>1 DEF NoneBefore, Together
<1>8. StoredInOrder'
  BY DEF StoredInOrder, Together
<1>9. ASSUME NEW n \in Node \ untold' PROVE About(n)' = About(n)
  <2>1. About(n)' \subseteq About(n)
    BY <1>1 DEF About
  <2>2. ASSUME NEW d \in Queued \ Queued', d.clock \in {<<n, TRUE>>, <<n, FALSE>>} PROVE d \in AtPortal
    <3>1. d \in Known
      BY DEF Known
    <3>2. d.id \notin givenUp'
      BY <2>2, <3>1 DEF AllSound, Sound
    <3>3. PICK e \in AtPortal : e.id = d.id
      BY <3>2, KnownIs
    <3>4. e = d
      BY <3>1, <3>3 DEF OneBody, Known
    <3>5. QED
      BY <3>4
  <2>3. QED
    BY <1>1, <2>1, <2>2 DEF About
<1>10. NewestAgrees'
  <2>1. ASSUME NEW n \in Node \ untold'
        PROVE  (drift[n] <=> \E c \in About(n) : c.clock[2] /\ \A d \in About(n) : d.id <= c.id)'
    <3>1. drift[n] <=> \E c \in About(n) : c.clock[2] /\ \A d \in About(n) : d.id <= c.id
      BY DEF NewestAgrees
    <3>2. QED
      BY <1>9, <3>1
  <2>2. QED
    BY <2>1 DEF NewestAgrees
<1>11. QED
  BY <1>3, <1>4, <1>5, <1>6, <1>7, <1>8, <1>10

(* A transaction begins.                                                    *)
LEMMA Inserting ==
  ASSUME TypeInv, OrderInv, NEW n, NEW events, Insert(n, events)
  PROVE  OrderInv'
<1> USE DEF OrderInv
<1>1. /\ nextId \in Nat /\ nextId' = nextId + 1
      /\ \A i \in DOMAIN writing' : (i \in DOMAIN writing /\ writing'[i] = writing[i]) \/ i = nextId
      /\ UNCHANGED <<outbox, pass, portal, late, givenUp, drift, untold>>
  BY KnownIs DEF Insert, portalVars, clockVars, OneWriter
<1>2. /\ UNCHANGED <<Queued, late, portal, AtPortal, Stored>>
      /\ \A m : ReadBy(m)' = ReadBy(m) /\ About(m)' = About(m)
      /\ Known' = Known
  BY <1>1 DEF Queued, AtPortal, Stored, ReadBy, About, Known
<1>3. AllSound'
  <2>1. ASSUME NEW c \in Known PROVE Sound(c)'
    <3>1. c.id \in Nat /\ c.id < nextId
      BY KnownIs DEF AllSound, Sound
    <3>2. nextId' \in Nat /\ nextId <= nextId'
      BY <1>1
    <3>3. QED
      BY <1>1, <1>2, <3>1, <3>2, SoundKept DEF AllSound
  <2>2. QED
    BY <1>2, <2>1 DEF AllSound
<1>4. OneWriter'
  <2>1. DOMAIN writing' = DOMAIN writing \cup {nextId} /\ Turn(events) /\ writing'[nextId].events = events
    BY DEF Insert
  <2>2. \A i \in DOMAIN writing : i < nextId
    BY DEF OneWriter
  <2>3. \A i \in DOMAIN writing' : i < nextId'
    BY <1>1, <2>1, <2>2, KnownIs
  <2>4. \A i, j \in DOMAIN writing' : writing'[i].events /\ writing'[j].events => i = j
    BY <1>1, <2>1, <2>2 DEF OneWriter, Turn
  <2>5. \A i \in givenUp' : i < nextId' /\ i \notin DOMAIN writing'
    <3>1. givenUp \subseteq Nat
      BY OutboxAssumption DEF TypeInv, RestType, Id
    <3>2. QED
      BY <1>1, <2>1, <3>1 DEF OneWriter
  <2>6. QED
    BY <2>3, <2>4, <2>5 DEF OneWriter
<1>5. OneBody' /\ ReadInOrder' /\ NoneBefore' /\ StoredInOrder'
  BY <1>1, <1>2 DEF OneBody, ReadInOrder, NoneBefore, StoredInOrder, Together
<1>6. NewestAgrees'
  BY <1>1, <1>2 DEF NewestAgrees
<1>7. QED
  BY <1>3, <1>4, <1>5, <1>6

(* A row is committed that nobody knows and that is younger than all of its *)
(* kind.                                                                    *)
LEMMA Adding ==
  ASSUME TypeInv, OrderInv, NEW c \in Request,
         nextId' \in Nat, nextId <= nextId', c.id < nextId',
         DOMAIN writing' \subseteq DOMAIN writing \ {c.id}, \A i \in DOMAIN writing' : writing'[i] = writing[i],
         \A d \in Known : d.id # c.id /\ (Together(c, d) => d.id < c.id),
         c.events => \A i \in DOMAIN writing' : ~writing'[i].events,
         c.id \notin givenUp,
         Queued' = Queued \cup {c},
         \A n \in Node : ReadBy(n)' = ReadBy(n) \/ ReadBy(n)' = {},
         UNCHANGED <<late, portal, givenUp, untold>>,
         drift' \in [Node -> BOOLEAN],
         \A n \in Node : \/ c.clock \notin {<<n, TRUE>>, <<n, FALSE>>} /\ drift'[n] = drift[n]
                         \/ c.clock = <<n, drift'[n]>> /\ \A d \in About(n) : d.id < c.id
  PROVE  OrderInv'
<1> USE DEF OrderInv
<1>1. Stored' = Stored /\ AtPortal' = AtPortal
  BY DEF Stored, AtPortal
<1>2. Known' \subseteq Known \cup {c}
  BY <1>1 DEF Known
<1>3. c.id \in Nat
  BY OutboxAssumption DEF Request, Id
<1>4. AllSound'
  <2>1. ASSUME NEW d \in Known PROVE Sound(d)'
    BY <1>1, SoundKept DEF AllSound
  <2>2. Sound(c)'
    BY <1>1 DEF Sound
  <2>3. QED
    BY <1>2, <2>1, <2>2 DEF AllSound
<1>5. OneWriter'
  <2>1. givenUp \subseteq Nat /\ nextId \in Nat /\ DOMAIN writing \subseteq Nat
    BY KnownIs, OutboxAssumption DEF TypeInv, RestType, Id
  <2>2. QED
    BY <2>1 DEF OneWriter
<1>6. OneBody'
  BY <1>2 DEF OneBody
<1>7. ReadInOrder'
  <2>1. ASSUME NEW n \in Node, NEW d \in ReadBy(n)', NEW e \in Queued', Together(d, e), e.id < d.id
        PROVE  e \in ReadBy(n)'
    <3>1. d \in ReadBy(n) /\ d \in Known /\ ReadBy(n)' = ReadBy(n)
      BY DEF Known
    <3>2. CASE e = c
      BY <1>3, <2>1, <3>1, <3>2, KnownIs DEF Together
    <3>3. CASE e \in Queued
      BY <2>1, <3>1, <3>3 DEF ReadInOrder
    <3>4. QED
      BY <3>2, <3>3
  <2>2. QED
    BY <2>1 DEF ReadInOrder, Together
<1>8. NoneBefore'
  <2>1. ASSUME NEW d \in late \cup AtPortal, Together(d, c) PROVE d.id <= c.id
    BY <1>3, <2>1, KnownIs DEF Known, Together
  <2>2. QED
    BY <1>1, <2>1 DEF NoneBefore, Together
<1>9. StoredInOrder'
  BY DEF StoredInOrder, Together
<1>10. NewestAgrees'
  <2>1. ASSUME NEW n \in Node \ untold'
        PROVE  (drift[n] <=> \E e \in About(n) : e.clock[2] /\ \A d \in About(n) : d.id <= e.id)'
    <3>1. drift[n] <=> \E e \in About(n) : e.clock[2] /\ \A d \in About(n) : d.id <= e.id
      BY DEF NewestAgrees
    <3>2. CASE c.clock \notin {<<n, TRUE>>, <<n, FALSE>>} /\ drift'[n] = drift[n]
      <4>1. About(n)' = About(n)
        BY <1>1, <3>2 DEF About
      <4>2. QED
        BY <3>1, <3>2, <4>1
    <3>3. CASE c.clock = <<n, drift'[n]>> /\ \A d \in About(n) : d.id < c.id
      <4>1. drift'[n] \in BOOLEAN
        OBVIOUS
      <4>2. About(n)' = About(n) \cup {c}
        BY <1>1, <3>3, <4>1 DEF About
      <4>3. \A d \in About(n) : d.id \in Nat
        BY KnownIs DEF About, Known
      <4>4. c.clock[2] = drift'[n]
        BY <3>3
      <4>5. QED
        BY <1>3, <3>3, <4>2, <4>3, <4>4
    <3>4. QED
      BY <3>2, <3>3
  <2>2. QED
    BY <2>1 DEF NewestAgrees
<1>11. QED
  BY <1>4, <1>5, <1>6, <1>7, <1>8, <1>9, <1>10

(* A pass reads the beginning of the outbox.                                *)
LEMMA ReadingInOrder ==
  ASSUME TypeInv, OrderInv, NEW n \in Node,
         ReadBy(n)' \subseteq Queued, \A c \in ReadBy(n)', d \in Queued : d.id < c.id => d \in ReadBy(n)',
         \A m \in Node \ {n} : ReadBy(m)' = ReadBy(m),
         UNCHANGED <<Queued, nextId, writing, late, portal, givenUp, drift, untold>>
  PROVE  OrderInv'
<1> USE DEF OrderInv
<1>1. Stored' = Stored /\ AtPortal' = AtPortal
  BY DEF Stored, AtPortal
<1>2. Known' \subseteq Known
  BY <1>1 DEF Known
<1>3. AllSound'
  BY <1>1, <1>2 DEF AllSound, Sound
<1>4. OneWriter' /\ StoredInOrder'
  BY DEF OneWriter, StoredInOrder, Together
<1>5. OneBody' /\ NoneBefore'
  BY <1>1, <1>2 DEF OneBody, NoneBefore, Together
<1>6. ReadInOrder'
  BY DEF ReadInOrder
<1>7. \A m : About(m)' = About(m)
  BY <1>1 DEF About
<1>8. NewestAgrees'
  BY <1>7 DEF NewestAgrees
<1>9. QED
  BY <1>3, <1>4, <1>5, <1>6, <1>8

(* The Portal stores a request that no older row waits behind.              *)
LEMMA Storing ==
  ASSUME TypeInv, OrderInv, NEW c \in Known, \A d \in Queued : Together(c, d) => c.id <= d.id,
         Stores(c),
         UNCHANGED <<Queued, nextId, writing, givenUp, drift, untold>>,
         \A n \in Node : ReadBy(n)' = ReadBy(n)
  PROVE  OrderInv'
<1> USE DEF OrderInv
<1>1. late' \subseteq late
  BY DEF Stores
<1>2. CASE c.id \in Stored
  <2>1. portal' = portal
    BY <1>2 DEF Stores
  <2>2. QED
    BY <1>1, <2>1, Leaving DEF Known
<1>3. CASE c.id \notin Stored
  <2> DEFINE len == Len(portal)
  <2>1. /\ len \in Nat /\ DOMAIN portal = 1 .. len /\ DOMAIN portal' = 1 .. len + 1
        /\ portal'[len + 1] = c /\ \A p \in DOMAIN portal : portal'[p] = portal[p]
    BY <1>3, KnownIs DEF Stores, TypeInv, PortalType
  <2> HIDE DEF len
  <2>2. AtPortal' = AtPortal \cup {c} /\ Stored' = Stored \cup {c.id}
    BY <2>1 DEF AtPortal, Stored
  <2>3. Known' \subseteq Known
    BY <1>1, <2>2 DEF Known
  <2>4. AllSound'
    <3>1. ASSUME NEW d \in Known PROVE Sound(d)'
      BY <2>2, KnownIs, SoundKept DEF AllSound
    <3>2. QED
      BY <2>3, <3>1 DEF AllSound
  <2>5. OneWriter' /\ ReadInOrder'
    BY DEF OneWriter, ReadInOrder
  <2>6. OneBody'
    BY <2>3 DEF OneBody
  <2>7. NoneBefore'
    BY <1>1, <2>2 DEF NoneBefore
  <2>8. c \in Queued \/ c.id \in givenUp
    <3>1. Sound(c)
      BY DEF AllSound
    <3>2. ASSUME NEW d \in Queued, d.id = c.id PROVE c = d
      BY <3>2 DEF OneBody, Known
    <3>3. (\E d \in Queued : d.id = c.id) \/ c.id \in givenUp
      BY <1>3, <3>1 DEF Sound
    <3>4. QED
      BY <3>2, <3>3
  <2>9. StoredInOrder'
    <3>1. ASSUME NEW p \in DOMAIN portal, Together(portal[p], c), c.id \notin givenUp PROVE portal[p].id < c.id
      <4>1. portal[p] \in AtPortal /\ portal[p].id \in Stored /\ portal[p].id \in Nat
        BY KnownIs DEF AtPortal, Stored, Known
      <4>2. portal[p].id <= c.id
        BY <2>8, <3>1, <4>1 DEF NoneBefore
      <4>3. QED
        BY <1>3, <4>1, <4>2, KnownIs
    <3>2. QED
      BY <2>1, <3>1 DEF StoredInOrder, Together
  <2>10. ASSUME NEW n \in Node \ untold PROVE About(n)' = About(n)
    <3>1. c.clock \in {<<n, TRUE>>, <<n, FALSE>>} => c \in Queued
      BY <2>8 DEF AllSound, Sound
    <3>2. QED
      BY <2>2, <3>1 DEF About
  <2>11. NewestAgrees'
    BY <2>10 DEF NewestAgrees
  <2>12. QED
    BY <2>4, <2>5, <2>6, <2>7, <2>9, <2>11
<1>4. QED
  BY <1>2, <1>3

-----------------------------------------------------------------------------
(* The steps, one by one.                                                   *)
PassesKept == \A n \in Node : ReadBy(n)' = ReadBy(n) \/ ReadBy(n)' = {}

LEMMA PassEnds ==
  ASSUME TypeInv, NEW n \in Node, NEW p,
         p.batch = Empty \/ p.batch = pass[n].batch,
         pass' = [pass EXCEPT ![n] = p]
  PROVE  PassesKept /\ \A m \in Node \ {n} : ReadBy(m)' = ReadBy(m)
BY DEF TypeInv, PassType, PassesKept, ReadBy, Empty

LEMMA PassBegins ==
  ASSUME TypeInv, NEW n \in Node, NEW wait, pass' = Begun(n, wait)
  PROVE  PassesKept
<1>1. CASE pass' = pass
  BY <1>1 DEF PassesKept, ReadBy
<1>2. CASE pass' = [pass EXCEPT ![n] = Reading]
  BY <1>2, PassEnds DEF Reading
<1>3. QED
  BY <1>1, <1>2 DEF Begun

(* A step that only ends transactions and passes, or begins a pass.         *)
LEMMA Resting ==
  ASSUME TypeInv, OrderInv, PassesKept,
         DOMAIN writing' \subseteq DOMAIN writing, \A i \in DOMAIN writing' : writing'[i] = writing[i],
         UNCHANGED <<nextId, Queued, late, portal, givenUp>>,
         untold \subseteq untold', \A n \in Node \ untold' : drift'[n] = drift[n]
  PROVE  OrderInv'
<1>1. late' \subseteq Known
  BY DEF Known
<1>2. \A n \in Node : \/ ReadBy(n)' = {}
                      \/ ReadBy(n)' \subseteq ReadBy(n) /\ \A d \in ReadBy(n) : d \in Queued' => d \in ReadBy(n)'
  BY DEF PassesKept
<1>3. QED
  BY <1>1, <1>2, Leaving

(* What is posted has no older row waiting.                                 *)
LEMMA PostedFirst ==
  ASSUME TypeInv, OrderInv, NEW n \in Node, pass[n].at = "posting"
  PROVE  /\ Posted(n) = Req(pass[n].row, pass[n].batch[pass[n].row])
         /\ Posted(n) \in Known
         /\ \A d \in Queued : Together(Posted(n), d) => Posted(n).id <= d.id
<1>1. /\ pass[n].row \in DOMAIN pass[n].batch /\ DOMAIN pass[n].batch \subseteq Nat
      /\ \A i \in DOMAIN pass[n].batch : pass[n].row <= i
  BY OutboxAssumption DEF TypeInv, PassType, PassOf, Failing, Id
<1>2. Posted(n) = Req(pass[n].row, pass[n].batch[pass[n].row])
  BY DEF Posted, Req
<1>3. Posted(n) \in ReadBy(n)
  BY <1>1, <1>2 DEF ReadBy
<1>4. Posted(n) \in Known
  BY <1>3 DEF Known
<1>5. ASSUME NEW d \in Queued, Together(Posted(n), d), d.id < Posted(n).id PROVE FALSE
  <2>1. d \in ReadBy(n)
    BY <1>3, <1>5 DEF OrderInv, ReadInOrder
  <2>2. d.id \in DOMAIN pass[n].batch /\ Posted(n).id = pass[n].row
    BY <1>2, <2>1 DEF ReadBy, Req
  <2>3. QED
    BY <1>1, <1>5, <2>2
<1>6. \A d \in Queued : d.id \in Nat
  BY KnownIs DEF Known
<1>7. QED
  BY <1>2, <1>4, <1>5, <1>6, KnownIs

LEMMA StepInOrder ==
  ASSUME TypeInv, OrderInv, OutboxInv, NEW n \in Node, Step(n)
  PROVE  OrderInv'
<1>1. CASE ReadBatch(n)
  <2> DEFINE p == IF outbox = Empty THEN Idle ELSE OnTo(Oldest(outbox))
  <2>1. pass' = [pass EXCEPT ![n] = p] /\ UNCHANGED <<nextId, writing, outbox, late, portal, givenUp, drift, untold>>
    BY <1>1 DEF ReadBatch, tableVars, portalVars, clockVars
  <2>2. p.batch = Empty \/ p.batch = Oldest(outbox)
    BY DEF OnTo, Posting, Idle
  <2>3. /\ pass'[n] = p /\ \A m \in Node \ {n} : pass'[m] = pass[m]
    BY <2>1 DEF TypeInv, PassType
  <2> HIDE DEF p
  <2>4. /\ ReadBy(n)' = {} \/ ReadBy(n)' = {Req(i, Oldest(outbox)[i]) : i \in DOMAIN Oldest(outbox)}
        /\ \A m \in Node \ {n} : ReadBy(m)' = ReadBy(m)
    BY <2>2, <2>3 DEF ReadBy, Empty
  <2>5. /\ DOMAIN Oldest(outbox) \subseteq DOMAIN outbox
        /\ \A i \in DOMAIN Oldest(outbox) : Oldest(outbox)[i] = outbox[i]
        /\ \A i \in DOMAIN Oldest(outbox), j \in DOMAIN outbox : j < i => j \in DOMAIN Oldest(outbox)
    BY OldestIs DEF TypeInv, TableType
  <2>6. ReadBy(n)' \subseteq Queued
    BY <2>4, <2>5 DEF Queued
  <2>7. \A c \in ReadBy(n)', d \in Queued : d.id < c.id => d \in ReadBy(n)'
    <3>1. ASSUME NEW i \in DOMAIN Oldest(outbox), NEW j \in DOMAIN outbox,
                 Req(j, outbox[j]).id < Req(i, Oldest(outbox)[i]).id
          PROVE  Req(j, outbox[j]) \in {Req(k, Oldest(outbox)[k]) : k \in DOMAIN Oldest(outbox)}
      BY <2>5, <3>1 DEF Req
    <3>2. QED
      BY <2>4, <3>1 DEF Queued
  <2>8. UNCHANGED Queued
    BY <2>1 DEF Queued
  <2>9. QED
    BY <2>1, <2>4, <2>6, <2>7, <2>8, ReadingInOrder
<1>2. CASE Done(n)
  <2> DEFINE rest == DOMAIN pass[n].batch \ {pass[n].row}
             p == IF rest = {} THEN Reading ELSE OnTo(Rows(pass[n].batch, rest))
             r == pass[n].row
  <2>1. /\ pass' = [pass EXCEPT ![n] = p] /\ outbox' = Rows(outbox, DOMAIN outbox \ {r})
        /\ UNCHANGED <<nextId, writing, late, portal, givenUp, drift, untold>>
    BY <1>2 DEF Done, portalVars, clockVars
  <2>2. p.batch = Empty \/ p.batch = Rows(pass[n].batch, rest)
    BY DEF OnTo, Posting, Idle, Reading
  <2>3. pass'[n] = p /\ \A m \in Node \ {n} : pass'[m] = pass[m]
    BY <2>1 DEF TypeInv, PassType
  <2>4. r \in Stored \/ r \in givenUp
    BY <1>2 DEF Done, OutboxInv, PassHonest
  <2>5. Queued' \subseteq Queued /\ (\A d \in Queued \ Queued' : d.id = r) /\ \A d \in Queued' : d.id # r
    BY <2>1 DEF Queued, Rows, Req
  <2> HIDE DEF p
  <2>6. \/ ReadBy(n)' = {}
        \/ ReadBy(n)' \subseteq ReadBy(n) /\ \A d \in ReadBy(n) : d.id # r => d \in ReadBy(n)'
    BY <2>2, <2>3 DEF ReadBy, Empty, Rows, Req
  <2> HIDE DEF r
  <2>7. \A m \in Node \ {n} : ReadBy(m)' = ReadBy(m)
    BY <2>3 DEF ReadBy
  <2>8. \A m \in Node : \/ ReadBy(m)' = {}
                        \/ ReadBy(m)' \subseteq ReadBy(m) /\ \A d \in ReadBy(m) : d \in Queued' => d \in ReadBy(m)'
    BY <2>5, <2>6, <2>7
  <2>9. late' \subseteq Known
    BY <2>1 DEF Known
  <2>10. QED
    BY <2>1, <2>4, <2>5, <2>8, <2>9, Leaving
<1>3. CASE Accepted(n)
  <2>1. /\ pass[n].at = "posting" /\ Stores(Posted(n)) /\ GoesOn(n, "delivered")
        /\ UNCHANGED <<nextId, writing, outbox, givenUp, drift, untold>>
    BY <1>3 DEF Accepted, tableVars, clockVars
  <2>2. \A m \in Node : ReadBy(m)' = ReadBy(m)
    BY <2>1 DEF GoesOn, ReadBy, TypeInv, PassType
  <2>3. Queued' = Queued
    BY <2>1 DEF Queued
  <2>4. QED
    BY <2>1, <2>2, <2>3, PostedFirst, Storing
<1>4. CASE Refused(n)
  <2> DEFINE r == pass[n].row
  <2>1. /\ pass[n].at = "posting" /\ GoesOn(n, "dropped")
        /\ UNCHANGED <<nextId, writing, outbox, late, portal, drift>>
        /\ givenUp' = givenUp \cup {r}
        /\ untold' = untold \cup ClocksOf(Rows(pass[n].batch, {r}))
    BY <1>4 DEF Refused, tableVars
  <2>2. \A m \in Node : ReadBy(m)' = ReadBy(m)
    BY <2>1 DEF GoesOn, ReadBy, TypeInv, PassType
  <2>3. UNCHANGED Queued
    BY <2>1 DEF Queued
  <2>4. Posted(n) \in Known /\ Posted(n).id = r
    BY <2>1, PostedFirst DEF Posted
  <2>5. ASSUME NEW c \in Known, c.id = r, NEW m \in Node, NEW off \in BOOLEAN, c.clock = <<m, off>> PROVE m \in untold'
    <3>1. c = Posted(n)
      BY <2>4, <2>5 DEF OrderInv, OneBody
    <3>2. pass[n].batch[r].clock = <<m, off>>
      BY <2>5, <3>1 DEF Posted
    <3>3. m \in ClocksOf(Rows(pass[n].batch, {r}))
      BY <3>2 DEF ClocksOf, Rows
    <3>4. QED
      BY <2>1, <3>3
  <2> HIDE DEF r
  <2>6. late' \subseteq Known
    BY <2>1 DEF Known
  <2>7. QED
    BY <2>1, <2>2, <2>3, <2>4, <2>5, <2>6, Leaving
<1>5. CASE NoAnswer(n)
  <2>1. /\ pass[n].at = "posting" /\ Fails(n, "unanswered") /\ late' = Abandoned(Posted(n))
        /\ UNCHANGED <<nextId, writing, outbox, portal, givenUp, drift, untold>>
    BY <1>5 DEF NoAnswer, tableVars, clockVars
  <2>2. PassesKept
    BY <2>1, PassEnds DEF Fails
  <2>3. UNCHANGED Queued
    BY <2>1 DEF Queued
  <2>4. late' \subseteq Known /\ late' \subseteq late \cup {Posted(n)}
    BY <2>1, PostedFirst DEF Abandoned, Known
  <2>5. QED
    BY <2>1, <2>2, <2>3, <2>4, PostedFirst, Leaving DEF PassesKept
<1>6. CASE (\E why \in {"throttled", "put_off"} : RetryLater(n, why)) \/ PutOff(n) \/ QueryFails(n)
  <2>1. UNCHANGED <<nextId, writing, outbox, late, portal, givenUp, drift, untold>>
    BY <1>6 DEF RetryLater, PutOff, QueryFails, tableVars, portalVars, clockVars
  <2>2. PassesKept
    <3>1. ASSUME NEW why, Fails(n, why) PROVE PassesKept
      BY <3>1, PassEnds DEF Fails
    <3>2. Ends(n) => PassesKept
      BY PassEnds DEF Ends, Idle
    <3>3. QED
      BY <1>6, <3>1, <3>2 DEF RetryLater, PutOff, QueryFails
  <2>3. UNCHANGED Queued
    BY <2>1 DEF Queued
  <2>4. QED
    BY <2>1, <2>2, <2>3, Resting
<1>7. QED
  BY <1>1, <1>2, <1>3, <1>4, <1>5, <1>6 DEF Step

LEMMA CommitInOrder ==
  ASSUME TypeInv, TypeInv', OrderInv, NEW i \in DOMAIN writing, Commit(i)
  PROVE  OrderInv'
<1> DEFINE row == [events |-> writing[i].events, held |-> writing[i].events, clock |-> None]
           c == [id |-> i, events |-> writing[i].events, clock |-> None]
<1>1. /\ outbox' = [j \in DOMAIN outbox \cup {i} |-> IF j = i THEN row ELSE outbox[j]]
      /\ writing' = Rows(writing, DOMAIN writing \ {i})
      /\ UNCHANGED <<nextId, late, portal, givenUp, drift, untold>>
  BY DEF Commit, portalVars, clockVars
<1>2. writing[i].node \in Node /\ writing[i].events \in BOOLEAN /\ i \in Id
  BY DEF TypeInv, TableType
<1>3. PassesKept
  <2>1. CASE pass' = pass
    BY <2>1 DEF PassesKept, ReadBy
  <2>2. CASE Flushed(writing[i].node)
    BY <1>2, <2>2, PassBegins DEF Flushed
  <2>3. QED
    BY <2>1, <2>2 DEF Commit
<1>4. \A d \in Known : d.id # i
  BY DEF OrderInv, AllSound, Sound
<1>5. i \notin DOMAIN outbox
  <2>1. ASSUME i \in DOMAIN outbox PROVE FALSE
    <3>1. Req(i, outbox[i]) \in Known
      BY <2>1 DEF Known, Queued
    <3>2. QED
      BY <1>4, <3>1 DEF Req
  <2>2. QED
    BY <2>1
<1>6. Queued' = Queued \cup {c}
  <2>1. /\ DOMAIN outbox' = DOMAIN outbox \cup {i}
        /\ Req(i, outbox'[i]) = c
        /\ \A j \in DOMAIN outbox : Req(j, outbox'[j]) = Req(j, outbox[j])
    BY <1>1, <1>5 DEF Req
  <2> HIDE DEF c
  <2>2. QED
    BY <2>1 DEF Queued
<1>7. c \in Request /\ c.id = i /\ c.events = writing[i].events /\ c.clock = None
  BY <1>2 DEF Request
<1> HIDE DEF c, row
<1>8. None \notin Clock
  BY OutboxAssumption DEF Clock
<1>9. \A d \in Known : d.id # c.id /\ (Together(c, d) => d.id < c.id)
  BY <1>4, <1>7, <1>8 DEF Together, OrderInv, AllSound, Sound
<1>10. /\ DOMAIN writing' = DOMAIN writing \ {i} /\ \A j \in DOMAIN writing' : writing'[j] = writing[j]
       /\ c.events => \A j \in DOMAIN writing' : ~writing'[j].events
  <2>1. DOMAIN writing' = DOMAIN writing \ {i} /\ \A j \in DOMAIN writing' : writing'[j] = writing[j]
    BY <1>1 DEF Rows
  <2>2. QED
    BY <1>7, <2>1 DEF OrderInv, OneWriter
<1>11. nextId' \in Nat /\ nextId <= nextId' /\ c.id < nextId' /\ c.id \notin givenUp
  BY <1>1, <1>7, KnownIs DEF OrderInv, OneWriter
<1>12. \A n \in Node : c.clock \notin {<<n, TRUE>>, <<n, FALSE>>} /\ drift'[n] = drift[n]
  <2>1. \A n \in Node : <<n, TRUE>> \in Clock /\ <<n, FALSE>> \in Clock
    BY DEF Clock
  <2>2. QED
    BY ONLY <1>1, <1>7, <1>8, <2>1
<1>13. drift' \in [Node -> BOOLEAN]
  BY DEF TypeInv, RestType
<1>14. QED
  BY <1>1, <1>3, <1>6, <1>7, <1>9, <1>10, <1>11, <1>12, <1>13, Adding DEF PassesKept

LEMMA EitherWay ==
  ASSUME NEW n, NEW c
  PROVE  c \in {<<n, TRUE>>, <<n, FALSE>>} <=> \E off \in BOOLEAN : c = <<n, off>>
<1>1. \A off \in BOOLEAN : off = TRUE \/ off = FALSE
  OBVIOUS
<1>2. TRUE \in BOOLEAN /\ FALSE \in BOOLEAN
  OBVIOUS
<1>3. (\E off \in BOOLEAN : c = <<n, off>>) => c = <<n, TRUE>> \/ c = <<n, FALSE>>
  BY <1>1, Zenon
<1>4. c = <<n, TRUE>> \/ c = <<n, FALSE>> => (\E off \in BOOLEAN : c = <<n, off>>)
  BY <1>2, Zenon
<1>5. QED
  BY <1>3, <1>4, Zenon

LEMMA ClockInOrder ==
  ASSUME TypeInv, TypeInv', OrderInv, NEW n \in Node, ClockChanges(n)
  PROVE  OrderInv'
<1> DEFINE row == [events |-> FALSE, held |-> FALSE, clock |-> <<n, ~drift[n]>>]
           c == [id |-> nextId, events |-> FALSE, clock |-> <<n, ~drift[n]>>]
<1>1. /\ outbox' = [j \in DOMAIN outbox \cup {nextId} |-> IF j = nextId THEN row ELSE outbox[j]]
      /\ nextId <= MaxRows /\ nextId' = nextId + 1
      /\ drift' = [drift EXCEPT ![n] = ~drift[n]]
      /\ UNCHANGED <<writing, late, portal, givenUp, untold>>
  BY DEF ClockChanges, portalVars, DriftToggles
<1>2. PassesKept
  BY PassBegins DEF ClockChanges, Flushed
<1>3. /\ nextId \in Id /\ nextId \in Nat
      /\ \A d \in Known : d.id \in Nat /\ d.id < nextId
      /\ nextId \notin DOMAIN writing /\ nextId \notin givenUp
  BY <1>1, KnownIs, OutboxAssumption DEF OrderInv, AllSound, Sound, OneWriter, TypeInv, TableType, Id
<1>4. nextId \notin DOMAIN outbox
  <2>1. ASSUME nextId \in DOMAIN outbox PROVE FALSE
    <3>1. Req(nextId, outbox[nextId]) \in Known
      BY <2>1 DEF Known, Queued
    <3>2. QED
      BY <1>3, <3>1 DEF Req
  <2>2. QED
    BY <2>1
<1>5. Queued' = Queued \cup {c}
  <2>1. /\ DOMAIN outbox' = DOMAIN outbox \cup {nextId}
        /\ Req(nextId, outbox'[nextId]) = c
        /\ \A j \in DOMAIN outbox : Req(j, outbox'[j]) = Req(j, outbox[j])
    BY <1>1, <1>4 DEF Req
  <2> HIDE DEF c
  <2>2. QED
    BY <2>1 DEF Queued
<1>6. drift[n] \in BOOLEAN /\ drift' \in [Node -> BOOLEAN] /\ drift'[n] = ~drift[n]
      /\ \A m \in Node \ {n} : drift'[m] = drift[m]
  BY <1>1 DEF TypeInv, RestType
<1>7. c \in Request /\ c.id = nextId /\ c.events = FALSE /\ c.clock = <<n, drift'[n]>>
  BY <1>3, <1>6 DEF Request, Clock
<1> HIDE DEF c, row
<1>8. \A m \in Node : About(m) \subseteq Known
  BY DEF About, Known
<1>9. \A m \in Node : \/ c.clock \notin {<<m, TRUE>>, <<m, FALSE>>} /\ drift'[m] = drift[m]
                      \/ c.clock = <<m, drift'[m]>> /\ \A d \in About(m) : d.id < c.id
  <2>1. ASSUME NEW m \in Node \ {n} PROVE c.clock \notin {<<m, TRUE>>, <<m, FALSE>>}
    <3>1. \A off \in BOOLEAN : c.clock # <<m, off>>
      BY <1>7
    <3>2. QED
      BY ONLY <3>1, EitherWay, Zenon
  <2>2. \A d \in About(n) : d.id < c.id
    BY <1>3, <1>7, <1>8
  <2>3. QED
    BY <1>6, <1>7, <2>1, <2>2
<1>10. /\ nextId' \in Nat /\ nextId <= nextId' /\ c.id < nextId' /\ c.id \notin givenUp
       /\ \A d \in Known : d.id # c.id /\ (Together(c, d) => d.id < c.id)
       /\ DOMAIN writing' \subseteq DOMAIN writing \ {c.id} /\ \A i \in DOMAIN writing' : writing'[i] = writing[i]
  BY <1>1, <1>3, <1>7
<1>11. c.events => \A i \in DOMAIN writing' : ~writing'[i].events
  BY <1>7
<1>12. QED
  BY <1>1, <1>2, <1>5, <1>6, <1>7, <1>9, <1>10, <1>11, Adding DEF PassesKept

LEMMA CrashInOrder ==
  ASSUME TypeInv, OrderInv, NEW n \in Node, Crash(n)
  PROVE  OrderInv'
<1>1. /\ Ends(n) /\ UNCHANGED <<nextId, outbox, portal, givenUp>>
      /\ writing' = Rows(writing, {i \in DOMAIN writing : writing[i].node # n})
      /\ late' = IF pass[n].at = "posting" THEN Abandoned(Posted(n)) ELSE late
      /\ untold' = IF drift[n] THEN untold \cup {n} ELSE untold
      /\ drift' = [drift EXCEPT ![n] = FALSE]
  BY DEF Crash
<1>2. PassesKept
  BY <1>1, PassEnds DEF Ends, Idle
<1>3. UNCHANGED Queued
  BY <1>1 DEF Queued
<1>4. DOMAIN writing' \subseteq DOMAIN writing /\ \A i \in DOMAIN writing' : writing'[i] = writing[i]
  BY <1>1 DEF Rows
<1>5. late' \subseteq Known /\ \A c \in late' \ late, d \in Queued : Together(c, d) => c.id <= d.id
  BY <1>1, PostedFirst DEF Abandoned, Known
<1>6. untold \subseteq untold' /\ \A m \in Node \ untold' : drift'[m] = drift[m]
  BY <1>1 DEF TypeInv, RestType
<1>7. QED
  BY <1>1, <1>2, <1>3, <1>4, <1>5, <1>6, Leaving DEF PassesKept

LEMMA PurgeInOrder ==
  ASSUME TypeInv, OrderInv, NEW last, Purge(last)
  PROVE  OrderInv'
<1> DEFINE old == {i \in DOMAIN outbox : i <= last}
<1>1. /\ UNCHANGED <<nextId, writing, pass, late, portal, drift>>
      /\ outbox' = Rows(outbox, DOMAIN outbox \ old)
      /\ givenUp' = givenUp \cup old /\ untold' = untold \cup ClocksOf(Rows(outbox, old))
  BY DEF Purge, portalVars
<1>2. old \subseteq DOMAIN outbox
  OBVIOUS
<1> HIDE DEF old
<1>3. Queued' \subseteq Queued /\ \A d \in Queued \ Queued' : d.id \in old
  BY <1>1 DEF Queued, Rows, Req
<1>4. \A m \in Node : ReadBy(m)' = ReadBy(m)
  BY <1>1 DEF ReadBy
<1>5. \A i \in old : Req(i, outbox[i]) \in Known /\ Req(i, outbox[i]).id = i
  BY <1>2 DEF Known, Queued, Req
<1>6. ASSUME NEW c \in Known, c.id \in old, NEW m \in Node, NEW off \in BOOLEAN, c.clock = <<m, off>> PROVE m \in untold'
  <2>1. c = Req(c.id, outbox[c.id])
    BY <1>5, <1>6 DEF OrderInv, OneBody
  <2>2. outbox[c.id].clock = <<m, off>>
    BY <1>6, <2>1 DEF Req
  <2>3. m \in ClocksOf(Rows(outbox, old))
    BY <1>6, <2>2 DEF ClocksOf, Rows
  <2>4. QED
    BY <1>1, <2>3
<1>7. late' \subseteq Known
  BY <1>1 DEF Known
<1>8. QED
  BY <1>1, <1>3, <1>4, <1>5, <1>6, <1>7, Leaving

LEMMA InitInOrder == Init => OrderInv
<1> SUFFICES ASSUME Init PROVE OrderInv
  OBVIOUS
<1>1. Queued = {} /\ AtPortal = {} /\ late = {} /\ \A n \in Node : ReadBy(n) = {}
  BY DEF Init, Empty, Idle, Queued, AtPortal, ReadBy
<1>2. Known = {}
  BY <1>1 DEF Known
<1>3. OneWriter /\ AllSound /\ OneBody
  BY <1>2 DEF Init, Empty, OneWriter, AllSound, OneBody
<1>4. ReadInOrder /\ NoneBefore /\ StoredInOrder
  BY <1>1 DEF Init, ReadInOrder, NoneBefore, StoredInOrder
<1>5. NewestAgrees
  BY <1>1 DEF Init, NewestAgrees, About
<1>6. QED
  BY <1>3, <1>4, <1>5 DEF OrderInv

LEMMA NextInOrder == TypeInv /\ TypeInv' /\ OutboxInv /\ OrderInv /\ [Next]_vars => OrderInv'
<1> SUFFICES ASSUME TypeInv, TypeInv', OutboxInv, OrderInv, [Next]_vars PROVE OrderInv'
  OBVIOUS
<1>1. ASSUME NEW n \in Node, NEW i \in notifying[n], Release(n, i) PROVE OrderInv'
  <2>1. UNCHANGED <<nextId, writing, late, portal, givenUp, drift, untold>>
    BY <1>1 DEF Release, portalVars, clockVars
  <2>2. UNCHANGED Queued
    <3>1. /\ DOMAIN outbox' = DOMAIN outbox
          /\ \A j \in DOMAIN outbox : outbox'[j].events = outbox[j].events /\ outbox'[j].clock = outbox[j].clock
      BY <1>1 DEF Release, TypeInv, TableType, Row
    <3>2. QED
      BY <3>1 DEF Queued, Req
  <2>3. PassesKept
    BY <1>1, PassBegins DEF Release, Flushed
  <2>4. QED
    BY <2>1, <2>2, <2>3, Resting
<1>2. ASSUME NEW n \in Node, Flush(n) \/ Heartbeat(n) PROVE OrderInv'
  <2>1. UNCHANGED <<nextId, writing, outbox, late, portal, givenUp, drift, untold>>
    BY <1>2 DEF Flush, Heartbeat, tableVars, portalVars, clockVars
  <2>2. PassesKept
    BY <1>2, PassBegins DEF Flush, Heartbeat, Flushed
  <2>3. QED
    BY <2>1, <2>2, Resting DEF Queued
<1>3. CASE UNCHANGED <<nextId, outbox, late, portal, givenUp, pass>> /\ (writing' = writing \/ \E i \in DOMAIN writing : Rollback(i))
           /\ (UNCHANGED <<drift, untold>> \/ \E n \in Node : ClockUntold(n))
  <2>1. PassesKept /\ UNCHANGED Queued
    BY <1>3 DEF PassesKept, ReadBy, Queued
  <2>2. DOMAIN writing' \subseteq DOMAIN writing /\ \A i \in DOMAIN writing' : writing'[i] = writing[i]
    BY <1>3 DEF Rollback, Rows
  <2>3. untold \subseteq untold' /\ \A n \in Node \ untold' : drift'[n] = drift[n]
    BY <1>3 DEF ClockUntold, DriftToggles, TypeInv, RestType
  <2>4. QED
    BY <1>3, <2>1, <2>2, <2>3, Resting
<1>4. ASSUME NEW i \in DOMAIN writing, Rollback(i) PROVE OrderInv'
  BY <1>3, <1>4 DEF Rollback, portalVars, clockVars
<1>5. ASSUME NEW n \in Node, ClockUntold(n) \/ WaitOver(n) \/ Notices(n) PROVE OrderInv'
  BY <1>3, <1>5 DEF ClockUntold, WaitOver, Notices, tableVars, portalVars, clockVars
<1>6. ASSUME NEW i, HoldOver(i) \/ SessionEnds \/ UNCHANGED vars PROVE OrderInv'
  BY <1>3, <1>6 DEF HoldOver, SessionEnds, vars, tableVars, portalVars, clockVars
<1>7. ASSUME NEW req \in late, LateArrival(req) PROVE OrderInv'
  <2>1. UNCHANGED <<nextId, writing, outbox, pass, givenUp, drift, untold>> /\ Stores(req)
    BY <1>7 DEF LateArrival, tableVars, clockVars
  <2>2. req \in Known /\ \A d \in Queued : Together(req, d) => req.id <= d.id
    BY DEF Known, OrderInv, NoneBefore
  <2>3. UNCHANGED Queued /\ \A n \in Node : ReadBy(n)' = ReadBy(n)
    BY <2>1 DEF Queued, ReadBy
  <2>4. QED
    BY <2>1, <2>2, <2>3, Storing
<1>8. QED
  BY <1>1, <1>2, <1>4, <1>5, <1>6, <1>7, OutboxAssumption,
     Inserting, CommitInOrder, ClockInOrder, CrashInOrder, PurgeInOrder, StepInOrder DEF Next

LEMMA OrderHolds == Spec => [](TypeInv /\ OrderInv)
<1>1. TypeInv /\ TypeInv' /\ OutboxInv /\ OrderInv /\ [Next]_vars => OrderInv'
  BY NextInOrder
<1>2. QED
  BY <1>1, InitInOrder, TypeHolds, InvariantHolds, PTL DEF Spec

(* However the sender lock moves and requests are served late, the Portal   *)
(* stores the events in the order ingest wrote them (portal.js flushOnce,   *)
(* ingest.js events).                                                       *)
THEOREM EventsArriveInOrder == Spec => []EventsInOrder
<1>1. StoredInOrder => EventsInOrder
  BY DEF StoredInOrder, EventsInOrder, Together
<1>2. QED
  BY <1>1, OrderHolds, PTL DEF OrderInv

(* What the Portal believes of a node's clock is what the node found, once  *)
(* all the node said has arrived (portal.js checkClock).                    *)
THEOREM ClockIsTold == Spec => []ClockAgrees
<1>1. ASSUME TypeInv, OrderInv PROVE ClockAgrees
  <2>1. ASSUME NEW n \in Node \ untold, n \notin ClocksOf(outbox)
        PROVE  LET told == {p \in DOMAIN portal : portal[p].clock \in {<<n, TRUE>>, <<n, FALSE>>}}
               IN  drift[n] <=> \E p \in told : portal[p].clock[2] /\ \A q \in told : q <= p
    <3> DEFINE told == {p \in DOMAIN portal : portal[p].clock \in {<<n, TRUE>>, <<n, FALSE>>}}
    <3>1. told = {p \in DOMAIN portal : \E off \in BOOLEAN : portal[p].clock = <<n, off>>}
      BY EitherWay, Zenon
    <3>2. About(n) = {c \in Queued \cup AtPortal : \E off \in BOOLEAN : c.clock = <<n, off>>}
      BY EitherWay, Zenon DEF About
    <3> HIDE DEF told
    <3>3. About(n) = {portal[p] : p \in told}
      <4>1. \A c \in Queued, off \in BOOLEAN : c.clock # <<n, off>>
        BY <2>1 DEF Queued, Req, ClocksOf
      <4>2. QED
        BY <3>1, <3>2, <4>1 DEF AtPortal
    <3>4. /\ told \subseteq DOMAIN portal /\ told \subseteq Nat
          /\ \A p \in told : /\ portal[p].id \in Nat /\ portal[p] \in Known
                             /\ portal[p].clock \in Clock /\ \E off \in BOOLEAN : portal[p].clock = <<n, off>>
      <4>1. told \subseteq DOMAIN portal /\ \A p \in told : \E off \in BOOLEAN : portal[p].clock = <<n, off>>
        BY <3>1
      <4>2. \A p \in told : portal[p] \in Known
        BY <4>1 DEF Known, AtPortal
      <4>3. DOMAIN portal \subseteq Nat
        BY <1>1 DEF TypeInv, PortalType
      <4>4. \A p \in told : portal[p].id \in Nat
        BY <1>1, <4>2, KnownIs
      <4>5. \A p \in told : portal[p].clock \in Clock
        BY ONLY <4>1, n \in Node DEF Clock
      <4>6. QED
        BY ONLY <4>1, <4>2, <4>3, <4>4, <4>5
    <3>5. ASSUME NEW p \in told, NEW q \in told, p < q PROVE portal[p].id < portal[q].id
      <4>1. portal[q].id \notin givenUp
        BY <1>1, <3>4 DEF OrderInv, AllSound, Sound
      <4>2. Together(portal[p], portal[q])
        BY <3>4 DEF Together
      <4>3. QED
        BY <1>1, <3>4, <3>5, <4>1, <4>2 DEF OrderInv, StoredInOrder
    <3>6. drift[n] <=> \E c \in About(n) : c.clock[2] /\ \A d \in About(n) : d.id <= c.id
      BY <1>1 DEF OrderInv, NewestAgrees
    <3>7. \A p \in told : (\A d \in About(n) : d.id <= portal[p].id) <=> (\A q \in told : q <= p)
      BY <3>3, <3>4, <3>5
    <3>8. drift[n] <=> \E p \in told : portal[p].clock[2] /\ \A q \in told : q <= p
      BY <3>3, <3>6, <3>7
    <3>9. QED
      BY <3>8 DEF told
  <2>2. QED
    BY <2>1 DEF ClockAgrees
<1>2. QED
  BY <1>1, OrderHolds, PTL
=============================================================================
