------------------------------- MODULE Lockout -------------------------------
(***************************************************************************)
(* The lockout of apps/console/src/auth.js on its Redis client, under the  *)
(* login route of server.js: a failed login counts with INCR and the first *)
(* one sets the counter's life with EXPIRE; a good login or an             *)
(* administrator deletes it.  One account; what locks it is the counter.   *)
(***************************************************************************)
EXTENDS RedisClient

CONSTANTS MaxFaults   \* bound: failures of a socket

ASSUME LockoutAssumption ==
  /\ MaxFaults \in Nat
  /\ MaxSockets >= 1 + 2 * MaxFaults    \* a failure costs two at most
  /\ Op = {"INCR", "EXPIRE", "DEL"}
  /\ Value = 0 .. Cardinality(Caller) + 1

VARIABLES
  count,        \* Redis: the account's counter, 0 when the key is absent
  ttl,          \* Redis: the counter has a life
  step,         \* how far each login is
  interrupted,  \* history: a login lost its connection before its EXPIRE
  faults

vars == <<redisVars, count, ttl, step, interrupted, faults>>

(* fail(): INCR, ... clear(): DEL.                                          *)
LogIn(c) ==
  /\ step[c] = "start"
  /\ \E op \in {"INCR", "DEL"} : Command(c, op)
  /\ step' = [step EXCEPT ![c] = "asked"]
  /\ UNCHANGED <<count, ttl, interrupted, faults>>

(* Mutant: the failure that locks the account sets the counter's life.      *)
SecondExpires(n) == n = 2

FirstExpires(n) == n = 1

Goes(c, to) == step' = [step EXCEPT ![c] = to]

(* ... and, of the first failure, EXPIRE.                                   *)
SetLife(c) ==
  /\ step[c] = "asked" /\ outcome[c].kind = "reply"
  /\ asked[c] = "INCR" /\ FirstExpires(outcome[c].value)
  /\ Command(c, "EXPIRE")
  /\ UNCHANGED <<count, ttl, step, interrupted, faults>>

Done(c) ==
  /\ step[c] = "asked" /\ outcome[c].kind # "waits"
  /\ ~(outcome[c].kind = "reply" /\ asked[c] = "INCR" /\ FirstExpires(outcome[c].value))
  /\ Goes(c, "done")
  /\ interrupted' = (interrupted \/ (outcome[c] = Failed /\ asked[c] # "DEL"))
  /\ UNCHANGED <<redisVars, count, ttl, faults>>

-----------------------------------------------------------------------------
(* Redis.                                                                   *)
Serve(s) ==
  /\ wire[s] # <<>>
  /\ \/ /\ Head(wire[s]).op = "INCR"
        /\ count' = count + 1
        /\ UNCHANGED ttl
        /\ Replies(s, count + 1)
     \/ /\ Head(wire[s]).op = "EXPIRE"
        /\ ttl' = (count > 0)
        /\ UNCHANGED count
        /\ Replies(s, IF count > 0 THEN 1 ELSE 0)
     \/ /\ Head(wire[s]).op = "DEL"
        /\ count' = 0
        /\ ttl' = FALSE
        /\ Replies(s, IF count > 0 THEN 1 ELSE 0)
  /\ UNCHANGED <<step, interrupted, faults>>

Expires ==
  /\ ttl
  /\ count' = 0
  /\ ttl' = FALSE
  /\ UNCHANGED <<redisVars, step, interrupted, faults>>

Fault(s) ==
  /\ faults < MaxFaults
  /\ faults' = faults + 1
  /\ Error(s) \/ Close(s)
  /\ UNCHANGED <<count, ttl, step, interrupted>>

SocketEvent(s) ==
  /\ Connected(s) \/ Data(s) \/ CloseAfterError(s)
  /\ UNCHANGED <<count, ttl, step, interrupted, faults>>

Init ==
  /\ InitRedis("DEL")
  /\ count = 0 /\ ttl = FALSE
  /\ step = [c \in Caller |-> "start"]
  /\ interrupted = FALSE
  /\ faults = 0

Next ==
  \/ \E c \in Caller : LogIn(c) \/ SetLife(c) \/ Done(c)
  \/ \E s \in Socket : Serve(s) \/ SocketEvent(s) \/ Fault(s)
  \/ Expires

Fairness ==
  /\ \A c \in Caller : WF_vars(SetLife(c) \/ Done(c))
  /\ \A s \in Socket : WF_vars(Serve(s)) /\ WF_vars(SocketEvent(s))
  /\ WF_vars(Expires)

Spec == Init /\ [][Next]_vars
FairSpec == Spec /\ Fairness

TypeOK ==
  /\ RedisTypeOK
  /\ count \in Nat /\ ttl \in BOOLEAN
  /\ step \in [Caller -> {"start", "asked", "done"}]
  /\ interrupted \in BOOLEAN

(* A failed login is forgotten in the end, so that the account unlocks: not *)
(* so if the connection went between its INCR and its EXPIRE, or replies    *)
(* were crossed (auth.js 91-95).                                            *)
LockoutEnds == count > 0 ~> (count = 0 \/ interrupted \/ overlapped)
=============================================================================
