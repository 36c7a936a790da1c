------------------------------- MODULE Triage -------------------------------
(***************************************************************************)
(* services/fms-reeval.js and the run of triageIncident() in               *)
(* services/fms-triage.js, for one incident: news about it (a control      *)
(* result, an engineer's note, a reopening) queues a re-evaluation, which  *)
(* is debounced and capped by the hour; a device alarm or a person starts  *)
(* one at once.  What the triage concludes is left out: an opinion is the  *)
(* evidence it was formed on, and not all news becomes evidence.           *)
(* Everything but the evidence and the stored opinion is in the memory of  *)
(* the process.                                                            *)
(***************************************************************************)
EXTENDS Naturals, Sequences, FiniteSets

CONSTANTS
  DEBOUNCE, HOUR, MAX_PER_HOUR,
  MaxTime, MaxNews, MaxDirect, MaxRestarts    \* bounds

ASSUME TriageAssumption ==
  /\ DEBOUNCE \in Nat \ {0} /\ HOUR \in Nat \ {0} /\ MAX_PER_HOUR \in Nat \ {0}
  /\ MaxTime \in Nat /\ MaxNews \in Nat /\ MaxDirect \in Nat /\ MaxRestarts \in Nat

VARIABLES
  now,
  news,        \* how much has happened about the incident, numbered 1, 2, ...
  evidence,    \* what of it is where collectContext() looks
  timer,       \* armed: the time it is due, 0 for none
  stamps,      \* times re-evaluations started, as the queue remembers them
  running,     \* triages that await the model: [id, seen]
  opinion,     \* tickets.triage: the evidence the stored triage has seen
  accepted,    \* history: the newest news whose trigger was accepted
  starts,      \* history: times timed re-evaluations started in this process
  excused,     \* history: a triage was lost, failed or overtaken since
  direct, restarts

queueVars == <<timer, stamps>>
boundVars == <<direct, restarts>>
newsVars == <<news, evidence>>
vars == <<now, newsVars, queueVars, running, opinion, accepted, starts, excused, boundVars>>

Run == [id : Nat, seen : SUBSET Nat]

(* What a trigger tells of: that the incident was opened again, or a report:*)
(* a note, a dispatch's comment or the result of a control action.  What no *)
(* trigger tells of: samples and alarms, inside the windows around the      *)
(* incident's created_at or outside.                                        *)
Told == {"reopening", "report"}
Untold == {"reading", "outside"}

(* collectContext(): the incident's row, its device, and the samples and    *)
(* alarms of the windows.  It reads neither ticket_notes nor fms_dispatch,  *)
(* and asks for the control log as 'ups-N', where it is kept under N.       *)
Collected == {"reopening", "reading"}

Happens(kind) ==
  /\ news < MaxNews
  /\ news' = news + 1
  /\ evidence' = IF kind \in Collected THEN evidence \cup {news + 1} ELSE evidence

-----------------------------------------------------------------------------
(* queue()                                                                  *)

(* recentCount() also forgets what is older than an hour.                   *)
Recent == {t \in stamps : t + HOUR > now}

(* Mutant: one re-evaluation too many.                                      *)
AboveCap == Cardinality(Recent) > MAX_PER_HOUR

AtCap == Cardinality(Recent) >= MAX_PER_HOUR

(* Mutant: a trigger coalesces with a triage that is already under way.     *)
CoalescesWithRun == timer # 0 \/ running # {}

(* The timer is not set again by later triggers.                            *)
Coalesces == timer # 0

(* Something happens about the incident and its trigger is queued.          *)
Trigger ==
  /\ \E kind \in Told : Happens(kind)
  /\ stamps' = Recent
  /\ \/ AtCap /\ UNCHANGED <<timer, accepted>>
     \/ /\ ~AtCap
        /\ accepted' = news + 1
        /\ timer' = IF Coalesces THEN timer ELSE now + DEBOUNCE
  /\ UNCHANGED <<now, running, opinion, starts, excused, boundVars>>

(* News that nothing queues: telemetry, an alarm next door.                 *)
Silently ==
  /\ \E kind \in Untold : Happens(kind)
  /\ UNCHANGED <<now, queueVars, running, opinion, accepted, starts, excused, boundVars>>

-----------------------------------------------------------------------------
(* triageIncident()                                                         *)

(* The evidence there was when the last trigger was accepted.               *)
Due == {i \in evidence : i <= accepted}

Save(seen) ==
  /\ opinion' = seen
  /\ excused' = (~(Due \subseteq seen) /\ (excused \/ ~(opinion \subseteq seen)))

NoRule == excused' = TRUE /\ UNCHANGED opinion

(* The evidence is collected; with the kill-switch off or the budget spent  *)
(* the rules conclude at once, and the model is called otherwise.           *)
Begin ==
  \/ (Save(evidence) \/ NoRule) /\ UNCHANGED running
  \/ /\ running' = running \cup {[id |-> direct + Len(starts) + 1, seen |-> evidence]}
     /\ UNCHANGED <<opinion, excused>>

(* The debounce is over: the timer goes before the triage starts.           *)
Fire ==
  /\ timer # 0 /\ now >= timer
  /\ timer' = 0
  /\ stamps' = stamps \cup {now}
  /\ starts' = Append(starts, now)
  /\ Begin
  /\ UNCHANGED <<now, newsVars, accepted, boundVars>>

(* An alarm of a device, or somebody who asks to run it again.              *)
Direct ==
  /\ direct < MaxDirect
  /\ direct' = direct + 1
  /\ Begin
  /\ UNCHANGED <<now, newsVars, queueVars, accepted, starts, restarts>>

(* The model has answered or failed: its opinion or the rules' is stored,   *)
(* unless no rule matches.                                                  *)
Finish(r) ==
  /\ running' = running \ {r}
  /\ Save(r.seen) \/ NoRule
  /\ UNCHANGED <<now, newsVars, queueVars, accepted, starts, boundVars>>

-----------------------------------------------------------------------------
Restart ==
  /\ restarts < MaxRestarts
  /\ restarts' = restarts + 1
  /\ timer' = 0 /\ stamps' = {} /\ starts' = <<>> /\ running' = {}
  /\ excused' = (excused \/ timer # 0 \/ running # {})
  /\ UNCHANGED <<now, newsVars, opinion, accepted, direct>>

Tick ==
  /\ now < MaxTime
  /\ now' = now + 1
  /\ UNCHANGED <<newsVars, queueVars, running, opinion, accepted, starts, excused, boundVars>>

Init ==
  /\ now = 1 /\ news = 0 /\ evidence = {}
  /\ timer = 0 /\ stamps = {}
  /\ running = {} /\ opinion = {}
  /\ accepted = 0 /\ starts = <<>> /\ excused = FALSE
  /\ direct = 0 /\ restarts = 0

Next ==
  \/ Trigger \/ Silently
  \/ Fire \/ Direct \/ (\E r \in running : Finish(r))
  \/ Restart \/ Tick

Spec == Init /\ [][Next]_vars

TypeOK ==
  /\ now \in Nat \ {0} /\ news \in Nat /\ evidence \subseteq 1 .. news /\ timer \in Nat
  /\ stamps \subseteq Nat /\ starts \in Seq(Nat)
  /\ running \subseteq Run
  /\ opinion \subseteq Nat /\ accepted \in Nat /\ excused \in BOOLEAN
  /\ direct \in Nat /\ restarts \in Nat

-----------------------------------------------------------------------------
(* An accepted trigger is looked at: when nothing is queued or under way,   *)
(* the stored opinion was formed on all the evidence there was when it came,*)
(* unless a restart lost the run, it came to no opinion, or an older one    *)
(* overtook it (fms-reeval.js 41-70, fms-triage.js 460-520).  A report that *)
(* queues a run is in no opinion: collectContext() does not find it.        *)
OpinionFollowsNews ==
  timer = 0 /\ running = {} /\ ~excused => Due \subseteq opinion

(* No more than the cap of re-evaluations start within an hour of a process,*)
(* although a trigger is counted when it is queued and the run when it      *)
(* starts (fms-reeval.js 46-63).                                            *)
CapKept == \A i \in DOMAIN starts :
  i + MAX_PER_HOUR <= Len(starts) => starts[i + MAX_PER_HOUR] - starts[i] >= HOUR
=============================================================================
