----------------------------- MODULE RedisClient -----------------------------
(***************************************************************************)
(* apps/console/src/redis.js: one shared client, whose commands are written*)
(* to a socket in order and whose replies are matched first-in first-out   *)
(* with one list of commands in flight.  A step is an event of the loop    *)
(* with the promise reactions it sets off.  A reply is one element however *)
(* it was cut into chunks; neither a password nor a database is configured,*)
(* so that connect() sends nothing of its own.                             *)
(***************************************************************************)
EXTENDS Naturals, Sequences, FiniteSets

CONSTANTS
  Caller,       \* requests of the console, one command outstanding each
  Op,           \* the commands they issue
  Value,        \* what Redis replies
  MaxSockets    \* bound: sockets ever opened

ASSUME RedisClientAssumption == MaxSockets \in Nat

VARIABLES
  sockets,      \* state of each socket
  ready,        \* the socket the shared promise is of, 0 for none
  waiting,      \* commands that await the promise of a socket
  pending,      \* commands written, oldest first, of whatever socket
  wire,         \* what a socket has sent and Redis has not served
  replies,      \* what Redis has sent and the client has not received
  buf,          \* replies received for which no command was pending
  asked,        \* the command each caller issued last
  outcome,      \* how it settled
  overlapped    \* history: a second socket was opened next to a live one

clientVars == <<ready, waiting, pending, buf>>
netVars == <<sockets, wire, replies>>
callVars == <<asked, outcome>>
redisVars == <<clientVars, netVars, callVars, overlapped>>

Socket == 1 .. MaxSockets
Request == [by : Caller, op : Op]
Reply == [to : Request, value : Value]
Waits == [kind |-> "waits"]
Failed == [kind |-> "failed"]
Answered(r) == [kind |-> "reply", to |-> r.to, value |-> r.value]

Live(s) == sockets[s] \in {"connecting", "up"}
CallersOf(q) == {q[i].by : i \in DOMAIN q}

-----------------------------------------------------------------------------
(* command(): connect(), then raw().                                        *)

Opens(s, r) ==
  /\ ready = 0
  /\ sockets[s] = "unused" /\ \A t \in Socket : t < s => sockets[t] # "unused"
  /\ ready' = s
  /\ sockets' = [sockets EXCEPT ![s] = "connecting"]
  /\ waiting' = [waiting EXCEPT ![s] = <<r>>]
  /\ overlapped' = (overlapped \/ \E t \in Socket : Live(t))
  /\ UNCHANGED <<pending, wire>>

Awaits(s, r) ==
  /\ ready = s /\ sockets[s] = "connecting"
  /\ waiting' = [waiting EXCEPT ![s] = Append(@, r)]
  /\ UNCHANGED <<ready, sockets, pending, wire, overlapped>>

Writes(s, r) ==
  /\ ready = s /\ sockets[s] # "connecting"
  /\ pending' = Append(pending, r)
  /\ wire' = [wire EXCEPT ![s] = Append(@, r)]
  /\ UNCHANGED <<ready, sockets, waiting, overlapped>>

Command(c, op) ==
  LET r == [by |-> c, op |-> op] IN
  /\ \E s \in Socket : Opens(s, r) \/ Awaits(s, r) \/ Writes(s, r)
  /\ asked' = [asked EXCEPT ![c] = op]
  /\ outcome' = [outcome EXCEPT ![c] = Waits]
  /\ UNCHANGED <<buf, replies>>

-----------------------------------------------------------------------------
(* The events of a socket.                                                  *)

(* The close of a destroyed socket comes before the loop polls again.       *)
Connected(s) ==
  /\ sockets[s] = "connecting"
  /\ \A t \in Socket : sockets[t] # "errored"
  /\ sockets' = [sockets EXCEPT ![s] = "up"]
  /\ waiting' = [waiting EXCEPT ![s] = <<>>]
  /\ pending' = pending \o waiting[s]
  /\ wire' = [wire EXCEPT ![s] = waiting[s]]
  /\ UNCHANGED <<ready, buf, replies, callVars, overlapped>>

(* As many replies as there are commands in flight, oldest with oldest.     *)
Data(s) ==
  LET received == Append(buf, Head(replies[s]))
      n == IF Len(pending) < Len(received) THEN Len(pending) ELSE Len(received)
      settles(c) == {i \in 1 .. n : pending[i].by = c}
  IN
  /\ sockets[s] = "up" /\ replies[s] # <<>>
  /\ replies' = [replies EXCEPT ![s] = Tail(@)]
  /\ buf' = SubSeq(received, n + 1, Len(received))
  /\ pending' = SubSeq(pending, n + 1, Len(pending))
  /\ outcome' = [c \in Caller |-> IF settles(c) = {} THEN outcome[c]
                                  ELSE Answered(received[CHOOSE i \in settles(c) : TRUE])]
  /\ UNCHANGED <<sockets, wire, ready, waiting, asked, overlapped>>

(* Mutant: the commands in flight are failed and stay in the list.          *)
PendingKept == pending

PendingAfterDown == <<>>

(* down(): the commands in flight fail, of this socket or of another, and   *)
(* those that await its promise.                                            *)
Down(s, state) ==
  /\ sockets' = [sockets EXCEPT ![s] = state]
  /\ ready' = 0
  /\ buf' = <<>>
  /\ pending' = PendingAfterDown
  /\ waiting' = [waiting EXCEPT ![s] = <<>>]
  /\ outcome' = [c \in Caller |->
       IF c \in CallersOf(pending) \cup CallersOf(waiting[s]) THEN Failed ELSE outcome[c]]
  /\ UNCHANGED <<wire, replies, asked, overlapped>>

(* A reset, a refused or late connection: 'error', and 'close' after it ... *)
Error(s) == Live(s) /\ Down(s, "errored")

(* ... so that one failure calls down() twice.                              *)
CloseAfterError(s) == sockets[s] = "errored" /\ Down(s, "closed")

(* Redis ends the connection: 'close' alone.                                *)
Close(s) == sockets[s] = "up" /\ Down(s, "closed")

(* Redis has served the oldest command of a socket, which may be gone.      *)
Replies(s, value) ==
  /\ wire[s] # <<>>
  /\ wire' = [wire EXCEPT ![s] = Tail(@)]
  /\ replies' = [replies EXCEPT ![s] = Append(@, [to |-> Head(wire[s]), value |-> value])]
  /\ UNCHANGED <<sockets, clientVars, callVars, overlapped>>

-----------------------------------------------------------------------------
InitRedis(op) ==
  /\ sockets = [s \in Socket |-> "unused"]
  /\ ready = 0
  /\ waiting = [s \in Socket |-> <<>>]
  /\ pending = <<>>
  /\ wire = [s \in Socket |-> <<>>]
  /\ replies = [s \in Socket |-> <<>>]
  /\ buf = <<>>
  /\ asked = [c \in Caller |-> op]
  /\ outcome = [c \in Caller |-> Failed]
  /\ overlapped = FALSE

RedisTypeOK ==
  /\ sockets \in [Socket -> {"unused", "connecting", "up", "errored", "closed"}]
  /\ ready \in 0 .. MaxSockets
  /\ waiting \in [Socket -> Seq(Request)]
  /\ pending \in Seq(Request)
  /\ wire \in [Socket -> Seq(Request)]
  /\ replies \in [Socket -> Seq(Reply)]
  /\ buf \in Seq(Reply)
  /\ asked \in [Caller -> Op]
  /\ overlapped \in BOOLEAN

(* A caller receives the reply to its own command, unless a second socket   *)
(* was opened next to a live one, which a command issued between the error  *)
(* and the close of a socket makes possible (redis.js 5-9, 92-99).          *)
ReplyIsOwn == \A c \in Caller :
  outcome[c].kind = "reply" =>
    \/ overlapped
    \/ outcome[c].to = [by |-> c, op |-> asked[c]]
=============================================================================
