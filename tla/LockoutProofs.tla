--------------------------- MODULE LockoutProofs ---------------------------
(***************************************************************************)
(* Proofs about RedisClient under Lockout, for any callers and sockets.    *)
(*                                                                         *)
(* Why a caller receives its own reply: until a second socket is opened    *)
(* next to a live one, the list of commands in flight is the list of the   *)
(* one socket that is up, first the commands whose replies are on the way  *)
(* and then those Redis has not served (InStep); no other socket can       *)
(* disturb it, and a caller stands in a list at most once, and only while  *)
(* it waits (Held).                                                        *)
(***************************************************************************)
EXTENDS Lockout, SequenceTheorems, TLAPS

USE DEF clientVars, netVars, callVars, redisVars

AnyReply == [to : Request, value : Nat]
Outcome == {Waits, Failed} \cup [kind : {"reply"}, to : Request, value : Nat]

Typed ==
  /\ sockets \in [Socket -> {"unused", "connecting", "up", "errored", "closed"}]
  /\ ready \in 0 .. MaxSockets
  /\ waiting \in [Socket -> Seq(Request)]
  /\ pending \in Seq(Request)
  /\ wire \in [Socket -> Seq(Request)]
  /\ replies \in [Socket -> Seq(AnyReply)]
  /\ asked \in [Caller -> Op]
  /\ outcome \in [Caller -> Outcome]
  /\ step \in [Caller -> {"start", "asked", "done"}]
  /\ count \in Nat

(* One socket lives, and it is the shared one if there is a shared one;     *)
(* between an error and its close nothing connects.                         *)
Alone ==
  /\ \A s, t \in Socket : Live(s) /\ Live(t) => s = t
  /\ ready # 0 => Live(ready)
  /\ \A s, t \in Socket : sockets[s] = "errored" => sockets[t] # "up"

(* Lists are empty where nothing can be under way.                          *)
Quiet ==
  /\ buf = <<>>
  /\ (\A s \in Socket : sockets[s] # "up") => pending = <<>>
  /\ \A s \in Socket :
       /\ sockets[s] # "connecting" => waiting[s] = <<>>
       /\ sockets[s] \in {"unused", "connecting"} => wire[s] = <<>> /\ replies[s] = <<>>

(* The list in flight is what the socket has to answer, in order.           *)
Fits(p, q, w) ==
  /\ Len(p) = Len(q) + Len(w)
  /\ \A i \in DOMAIN p : p[i] = IF i <= Len(q) THEN q[i].to ELSE w[i - Len(q)]

InStep(s) == Fits(pending, replies[s], wire[s])

(* The callers of a list wait for what they asked, each once.               *)
Held(q) ==
  /\ \A i \in DOMAIN q : outcome[q[i].by] = Waits /\ asked[q[i].by] = q[i].op
  /\ \A i, j \in DOMAIN q : q[i].by = q[j].by => i = j

(* Who starts waits for nothing; who is answered has the reply it asked for.*)
OwnAnswer(c) ==
  /\ step[c] = "start" => outcome[c] # Waits
  /\ outcome[c].kind = "reply" => outcome[c].to = [by |-> c, op |-> asked[c]]

Orderly ==
  /\ Typed /\ Alone /\ Quiet
  /\ \A s \in Socket : sockets[s] = "up" => InStep(s)
  /\ Held(pending) /\ \A s \in Socket : Held(waiting[s])
  /\ \A c \in Caller : OwnAnswer(c)

Matched == overlapped \/ Orderly

-----------------------------------------------------------------------------
(* Facts about states and sequences.                                        *)
LEMMA OutcomeFacts ==
  /\ Waits # Failed /\ Waits.kind = "waits" /\ Failed.kind = "failed"
  /\ \A r \in AnyReply : Answered(r) \in Outcome /\ Answered(r) # Waits /\ Answered(r).to = r.to
BY DEF Waits, Failed, Answered, AnyReply, Outcome

(* A command is written, served, answered.                                  *)
LEMMA FitsAppend ==
  ASSUME NEW p \in Seq(Request), NEW q \in Seq(AnyReply), NEW w \in Seq(Request),
         NEW r \in Request, Fits(p, q, w)
  PROVE  Fits(Append(p, r), q, Append(w, r))
<1> DEFINE v == Append(w, r)
           o == Append(p, r)
<1>1. /\ Len(v) = Len(w) + 1 /\ Len(o) = Len(p) + 1 /\ DOMAIN o = 1 .. Len(p) + 1
      /\ Len(w) \in Nat /\ Len(p) \in Nat /\ Len(q) \in Nat /\ DOMAIN p = 1 .. Len(p)
      /\ \A i \in 1 .. Len(w) : v[i] = w[i]
      /\ \A i \in 1 .. Len(p) : o[i] = p[i]
      /\ v[Len(w) + 1] = r /\ o[Len(p) + 1] = r
  OBVIOUS
<1>2. Len(p) = Len(q) + Len(w)
  BY DEF Fits
<1> HIDE DEF v, o
<1>3. ASSUME NEW i \in DOMAIN o PROVE o[i] = IF i <= Len(q) THEN q[i].to ELSE v[i - Len(q)]
  <2>1. CASE i = Len(p) + 1
    <3>1. ~(i <= Len(q)) /\ i - Len(q) = Len(w) + 1
      BY <2>1, <1>1, <1>2
    <3>2. QED
      BY <3>1, <2>1, <1>1
  <2>2. CASE i \in 1 .. Len(p)
    <3>1. ~(i <= Len(q)) => i - Len(q) \in 1 .. Len(w)
      BY <2>2, <1>1, <1>2
    <3>2. o[i] = p[i] /\ p[i] = IF i <= Len(q) THEN q[i].to ELSE w[i - Len(q)]
      BY <2>2, <1>1 DEF Fits
    <3>3. QED
      BY <3>1, <3>2, <1>1
  <2>3. QED
    BY <2>1, <2>2, <1>1
<1>4. Len(o) = Len(q) + Len(v)
  BY <1>1, <1>2
<1>5. QED
  BY <1>3, <1>4 DEF Fits, o, v

LEMMA FitsServe ==
  ASSUME NEW p \in Seq(Request), NEW q \in Seq(AnyReply), NEW w \in Seq(Request),
         Fits(p, q, w), w # <<>>, NEW x \in AnyReply, x.to = Head(w)
  PROVE  Fits(p, Append(q, x), Tail(w))
<1> DEFINE v == Tail(w)
           u == Append(q, x)
<1>1. /\ Len(w) \in Nat /\ Len(p) \in Nat /\ Len(q) \in Nat /\ DOMAIN p = 1 .. Len(p)
      /\ Len(w) > 0 /\ Len(v) = Len(w) - 1 /\ Len(u) = Len(q) + 1
      /\ \A i \in 1 .. Len(v) : v[i] = w[i + 1]
      /\ \A i \in 1 .. Len(q) : u[i] = q[i]
      /\ u[Len(q) + 1] = x /\ w[1] = x.to
  OBVIOUS
<1>2. Len(p) = Len(q) + Len(w)
  BY DEF Fits
<1> HIDE DEF v, u
<1>3. ASSUME NEW i \in DOMAIN p PROVE p[i] = IF i <= Len(u) THEN u[i].to ELSE v[i - Len(u)]
  <2>0. i \in 1 .. Len(p) /\ p[i] = IF i <= Len(q) THEN q[i].to ELSE w[i - Len(q)]
    BY <1>1 DEF Fits
  <2>1. CASE i <= Len(q)
    <3>1. i \in 1 .. Len(q) /\ i <= Len(u)
      BY <2>0, <2>1, <1>1
    <3>2. QED
      BY <3>1, <2>0, <1>1
  <2>2. CASE i = Len(q) + 1
    <3>1. i <= Len(u) /\ i - Len(q) = 1 /\ ~(i <= Len(q))
      BY <2>2, <1>1
    <3>2. QED
      BY <3>1, <2>0, <2>2, <1>1
  <2>3. CASE i > Len(q) + 1
    <3>1. ~(i <= Len(u)) /\ ~(i <= Len(q)) /\ i - Len(u) \in 1 .. Len(v) /\ i - Len(u) + 1 = i - Len(q)
      BY <2>0, <2>3, <1>1, <1>2
    <3>2. QED
      BY <3>1, <2>0, <1>1
  <2>4. QED
    BY <2>0, <2>1, <2>2, <2>3, <1>1
<1>4. Len(p) = Len(u) + Len(v)
  BY <1>1, <1>2
<1>5. QED
  BY <1>3, <1>4 DEF Fits, u, v

LEMMA FitsData ==
  ASSUME NEW p \in Seq(Request), NEW q \in Seq(AnyReply), NEW w \in Seq(Request),
         Fits(p, q, w), q # <<>>
  PROVE  p # <<>> /\ Len(p) > 0 /\ p[1] = q[1].to /\ Fits(Tail(p), Tail(q), w)
<1> DEFINE o == Tail(p)
           u == Tail(q)
<1>1. Len(p) = Len(q) + Len(w) /\ Len(q) > 0 /\ Len(w) \in Nat /\ Len(q) \in Nat
  BY DEF Fits
<1>2. p # <<>> /\ Len(p) > 0 /\ Len(p) \in Nat /\ DOMAIN p = 1 .. Len(p)
  BY <1>1
<1>3. p[1] = q[1].to
  BY <1>1, <1>2 DEF Fits
<1>4. /\ DOMAIN o = 1 .. Len(o) /\ Len(o) = Len(p) - 1 /\ Len(u) = Len(q) - 1
      /\ \A i \in 1 .. Len(o) : o[i] = p[i + 1]
      /\ \A i \in 1 .. Len(u) : u[i] = q[i + 1]
  BY <1>1, <1>2
<1> HIDE DEF o, u
<1>5. ASSUME NEW i \in DOMAIN o PROVE o[i] = IF i <= Len(u) THEN u[i].to ELSE w[i - Len(u)]
  <2>1. i \in 1 .. Len(o) /\ i + 1 \in DOMAIN p
    BY <1>2, <1>4
  <2>2. p[i + 1] = IF i + 1 <= Len(q) THEN q[i + 1].to ELSE w[i + 1 - Len(q)]
    BY <2>1 DEF Fits
  <2>3. (i <= Len(u) <=> i + 1 <= Len(q)) /\ (i <= Len(u) => i \in 1 .. Len(u))
        /\ i + 1 - Len(q) = i - Len(u)
    BY <2>1, <1>1, <1>4
  <2>4. QED
    BY <2>1, <2>2, <2>3, <1>4
<1>6. Len(o) = Len(u) + Len(w)
  BY <1>1, <1>2, <1>4
<1>7. QED
  BY <1>2, <1>3, <1>5, <1>6 DEF Fits, o, u

(* A command of a caller that stands in no list may join one.              *)
LEMMA AppendHeld ==
  ASSUME NEW q \in Seq(Request), NEW r \in Request, Held(q), outcome[r.by] # Waits,
         asked \in [Caller -> Op], outcome \in [Caller -> Outcome],
         asked' = [asked EXCEPT ![r.by] = r.op], outcome' = [outcome EXCEPT ![r.by] = Waits],
         NEW p, p = q \/ p = Append(q, r)
  PROVE  p \in Seq(Request) /\
         /\ \A i \in DOMAIN p : outcome'[p[i].by] = Waits /\ asked'[p[i].by] = p[i].op
         /\ \A i, j \in DOMAIN p : p[i].by = p[j].by => i = j
<1>1. \A i \in DOMAIN q : q[i] \in Request /\ q[i].by # r.by
  BY DEF Held
<1>2. r.by \in Caller /\ r.op \in Op /\ \A i \in DOMAIN q : q[i].by \in Caller
  BY <1>1 DEF Request
<1>3. \A i \in DOMAIN q : outcome'[q[i].by] = Waits /\ asked'[q[i].by] = q[i].op
  BY <1>1, <1>2 DEF Held
<1>4. outcome'[r.by] = Waits /\ asked'[r.by] = r.op
  BY <1>2
<1>5. CASE p = q
  BY <1>3, <1>5 DEF Held
<1>6. CASE p = Append(q, r)
  <2>1. /\ p \in Seq(Request) /\ DOMAIN p = 1 .. Len(q) + 1 /\ DOMAIN q = 1 .. Len(q) /\ Len(q) \in Nat
        /\ \A i \in DOMAIN q : p[i] = q[i]
        /\ p[Len(q) + 1] = r
    BY <1>6
  <2>2. \A i \in DOMAIN p : i = Len(q) + 1 \/ i \in DOMAIN q
    BY <2>1
  <2>3. \A i \in DOMAIN p : outcome'[p[i].by] = Waits /\ asked'[p[i].by] = p[i].op
    BY <2>1, <2>2, <1>3, <1>4
  <2>4. \A i, j \in DOMAIN p : p[i].by = p[j].by => i = j
    BY <2>1, <2>2, <1>1 DEF Held
  <2>5. QED
    BY <2>1, <2>3, <2>4
<1>7. QED
  BY <1>5, <1>6

-----------------------------------------------------------------------------
(* A command of a caller that does not wait.                                *)
LEMMA CommandStep ==
  ASSUME Orderly, ~overlapped', NEW c \in Caller, NEW op \in Op, Command(c, op),
         outcome[c] # Waits, UNCHANGED count,
         step' \in [Caller -> {"start", "asked", "done"}], step'[c] # "start",
         \A d \in Caller : d # c => step'[d] = step[d]
  PROVE  Orderly'
<1> DEFINE r == [by |-> c, op |-> op]
<1>1. r \in Request /\ r.by = c /\ r.op = op
  BY DEF Request
<1> HIDE DEF r
<1>2. /\ asked' = [asked EXCEPT ![c] = op] /\ outcome' = [outcome EXCEPT ![c] = Waits]
      /\ UNCHANGED <<buf, replies>>
      /\ Typed /\ asked \in [Caller -> Op] /\ outcome \in [Caller -> Outcome]
  BY DEF Command, Orderly, Typed
<1>3. asked' \in [Caller -> Op] /\ outcome' \in [Caller -> Outcome]
  BY <1>2 DEF Outcome
<1>4. PICK s \in Socket : Opens(s, r) \/ Awaits(s, r) \/ Writes(s, r)
  BY DEF Command, r
<1>5. ASSUME NEW d \in Caller PROVE OwnAnswer(d)'
  <2>1. CASE d = c
    BY <2>1, <1>2, OutcomeFacts DEF OwnAnswer
  <2>2. CASE d # c
    <3>1. outcome'[d] = outcome[d] /\ asked'[d] = asked[d] /\ step'[d] = step[d]
      BY <1>2, <2>2
    <3>2. QED
      BY <3>1 DEF OwnAnswer, Orderly
  <2>3. QED
    BY <2>1, <2>2
<1>6. ASSUME NEW q \in Seq(Request), Held(q), NEW p, p = q \/ p = Append(q, r)
      PROVE  /\ p \in Seq(Request)
             /\ \A i \in DOMAIN p : outcome'[p[i].by] = Waits /\ asked'[p[i].by] = p[i].op
             /\ \A i, j \in DOMAIN p : p[i].by = p[j].by => i = j
  BY <1>1, <1>2, <1>6, AppendHeld
<1>7. /\ pending' = pending \/ pending' = Append(pending, r)
      /\ pending' \in Seq(Request) /\ Held(pending)'
  <2>1. pending \in Seq(Request) /\ Held(pending)
    BY DEF Orderly, Typed
  <2>2. pending' = pending \/ pending' = Append(pending, r)
    BY <1>4 DEF Opens, Awaits, Writes
  <2>3. QED
    BY <2>1, <2>2, <1>6 DEF Held
<1>8. /\ waiting' \in [Socket -> Seq(Request)]
      /\ \A t \in Socket : Held(waiting[t])'
  <2>0. waiting \in [Socket -> Seq(Request)] /\ (\A t \in Socket : Held(waiting[t])) /\ Quiet
        /\ sockets \in [Socket -> {"unused", "connecting", "up", "errored", "closed"}]
    BY DEF Orderly, Typed
  <2>1. ASSUME NEW t \in Socket PROVE waiting'[t] = waiting[t] \/ waiting'[t] = Append(waiting[t], r)
    <3>1. CASE Opens(s, r)
      <4>1. waiting[s] = <<>>
        BY <3>1, <2>0 DEF Opens, Quiet
      <4>2. Append(waiting[s], r) = <<r>>
        BY <4>1
      <4>3. waiting' = [waiting EXCEPT ![s] = <<r>>]
        BY <3>1 DEF Opens
      <4>4. QED
        BY <4>2, <4>3, <2>0
    <3>2. CASE Awaits(s, r)
      BY <3>2, <2>0 DEF Awaits
    <3>3. CASE Writes(s, r)
      BY <3>3 DEF Writes
    <3>4. QED
      BY <1>4, <3>1, <3>2, <3>3
  <2>2. ASSUME NEW t \in Socket PROVE waiting'[t] \in Seq(Request) /\ Held(waiting[t])'
    BY <2>0, <2>1, <1>6 DEF Held
  <2>3. DOMAIN waiting' = Socket /\ waiting' = [t \in Socket |-> waiting'[t]]
    BY <1>4, <2>0 DEF Opens, Awaits, Writes
  <2>4. QED
    BY <2>2, <2>3
<1>9. /\ sockets' \in [Socket -> {"unused", "connecting", "up", "errored", "closed"}]
      /\ ready' \in 0 .. MaxSockets /\ wire' \in [Socket -> Seq(Request)]
      /\ Alone' /\ Quiet' /\ \A t \in Socket : sockets'[t] = "up" => InStep(t)'
  <2>0. /\ waiting \in [Socket -> Seq(Request)] /\ Quiet /\ Alone /\ pending \in Seq(Request)
        /\ sockets \in [Socket -> {"unused", "connecting", "up", "errored", "closed"}]
        /\ wire \in [Socket -> Seq(Request)] /\ ready \in 0 .. MaxSockets
        /\ replies \in [Socket -> Seq(AnyReply)] /\ MaxSockets \in Nat
        /\ \A t \in Socket : sockets[t] = "up" => InStep(t)
    BY RedisClientAssumption DEF Orderly, Typed
  <2>1. CASE Opens(s, r)
    <3>1. /\ ready' = s /\ sockets' = [sockets EXCEPT ![s] = "connecting"] /\ sockets[s] = "unused"
          /\ waiting' = [waiting EXCEPT ![s] = <<r>>] /\ UNCHANGED <<pending, wire>>
          /\ \A t \in Socket : ~Live(t)
      BY <2>1 DEF Opens
    <3>2. \A t \in Socket : sockets'[t] = IF t = s THEN "connecting" ELSE sockets[t]
      BY <3>1, <2>0
    <3>3. s \in 0 .. MaxSockets /\ s # 0
      BY <2>0 DEF Socket
    <3>4. Alone'
      BY <3>1, <3>2, <3>3, <2>0 DEF Alone, Live
    <3>5. Quiet'
      BY <3>1, <3>2, <2>0, <1>2 DEF Quiet, Live
    <3>6. \A t \in Socket : sockets'[t] # "up"
      BY <3>1, <3>2 DEF Live
    <3>7. QED
      BY <3>1, <3>3, <3>4, <3>5, <3>6, <2>0
  <2>2. CASE Awaits(s, r)
    <3>1. /\ sockets[s] = "connecting" /\ waiting' = [waiting EXCEPT ![s] = Append(@, r)]
          /\ UNCHANGED <<ready, sockets, pending, wire>>
      BY <2>2 DEF Awaits
    <3>2. Alone'
      BY <3>1, <2>0 DEF Alone, Live
    <3>3. Quiet'
      BY <3>1, <2>0, <1>2 DEF Quiet
    <3>4. QED
      BY <3>1, <3>2, <3>3, <2>0, <1>2 DEF InStep
  <2>3. CASE Writes(s, r)
    <3>1. /\ ready = s /\ sockets[s] # "connecting" /\ pending' = Append(pending, r)
          /\ wire' = [wire EXCEPT ![s] = Append(@, r)] /\ UNCHANGED <<ready, sockets, waiting>>
      BY <2>3 DEF Writes
    <3>2. s # 0 /\ Live(s) /\ sockets[s] = "up"
      BY <3>1, <2>0 DEF Alone, Live, Socket
    <3>3. \A t \in Socket : sockets[t] = "up" => t = s
      BY <3>2, <2>0 DEF Alone, Live
    <3>4. Alone'
      BY <3>1, <2>0 DEF Alone, Live
    <3>5. Quiet'
      BY <3>1, <3>2, <2>0, <1>2 DEF Quiet
    <3>6. /\ wire'[s] = Append(wire[s], r) /\ wire[s] \in Seq(Request) /\ replies[s] \in Seq(AnyReply)
          /\ replies' = replies /\ InStep(s)
      BY <3>1, <3>2, <2>0, <1>2
    <3>7. InStep(s)'
      BY <3>1, <3>6, <2>0, <1>1, FitsAppend DEF InStep
    <3>8. QED
      BY <3>1, <3>3, <3>4, <3>5, <3>6, <3>7, <2>0, <1>1
  <2>4. QED
    BY <1>4, <2>1, <2>2, <2>3
<1>10. Typed'
  BY <1>2, <1>3, <1>7, <1>8, <1>9 DEF Typed
<1>11. QED
  BY <1>5, <1>7, <1>8, <1>9, <1>10 DEF Orderly

(* A connection is there: what awaited it is in flight, and nothing else.   *)
LEMMA ConnectedStep ==
  ASSUME Orderly, NEW s \in Socket, Connected(s), UNCHANGED <<step, count>>
  PROVE  Orderly'
<1>0. Typed /\ Alone /\ Quiet
  BY DEF Orderly
<1>1. /\ sockets[s] = "connecting" /\ \A t \in Socket : sockets[t] # "errored"
      /\ sockets' = [sockets EXCEPT ![s] = "up"] /\ waiting' = [waiting EXCEPT ![s] = <<>>]
      /\ pending' = pending \o waiting[s] /\ wire' = [wire EXCEPT ![s] = waiting[s]]
      /\ UNCHANGED <<ready, buf, replies, asked, outcome>>
  BY DEF Connected
<1>2. \A t \in Socket : t # s => ~Live(t) /\ sockets[t] # "connecting" /\ sockets[t] # "up"
  BY <1>0, <1>1 DEF Alone, Live
<1>3. pending = <<>> /\ replies[s] = <<>> /\ waiting[s] \in Seq(Request)
  BY <1>0, <1>1, <1>2 DEF Quiet, Typed
<1>4. pending' = waiting[s]
  BY <1>1, <1>3
<1>5. \A t \in Socket : /\ sockets'[t] = IF t = s THEN "up" ELSE sockets[t]
                        /\ waiting'[t] = IF t = s THEN <<>> ELSE waiting[t]
                        /\ wire'[t] = IF t = s THEN waiting[s] ELSE wire[t]
  BY <1>0, <1>1 DEF Typed
<1>6. Typed'
  BY <1>0, <1>1, <1>3, <1>4 DEF Typed
<1>7. Alone'
  BY <1>0, <1>1, <1>2, <1>5 DEF Alone, Live
<1>8. Quiet'
  BY <1>0, <1>1, <1>5 DEF Quiet
<1>9. \A t \in Socket : sockets'[t] = "up" => InStep(t)'
  <2>1. Fits(waiting[s], <<>>, waiting[s])
    BY <1>3 DEF Fits
  <2>2. InStep(s)'
    BY <2>1, <1>1, <1>3, <1>4, <1>5 DEF InStep
  <2>3. QED
    BY <2>2, <1>2, <1>5
<1>10. Held(pending)' /\ \A t \in Socket : Held(waiting[t])'
  BY <1>1, <1>4, <1>5 DEF Orderly, Held
<1>11. \A c \in Caller : OwnAnswer(c)'
  BY <1>1 DEF Orderly, OwnAnswer
<1>12. QED
  BY <1>6, <1>7, <1>8, <1>9, <1>10, <1>11 DEF Orderly

(* A reply settles the oldest command in flight, which it is the reply to.  *)
LEMMA DataStep ==
  ASSUME Orderly, NEW s \in Socket, Data(s), UNCHANGED <<step, count>>
  PROVE  Orderly'
<1> DEFINE x == Head(replies[s])
           received == Append(buf, x)
           n == IF Len(pending) < Len(received) THEN Len(pending) ELSE Len(received)
           first == pending[1].by
<1>0. Typed /\ Alone /\ Quiet /\ Held(pending)
  BY DEF Orderly
<1>1. /\ sockets[s] = "up" /\ replies[s] # <<>>
      /\ replies' = [replies EXCEPT ![s] = Tail(@)]
      /\ buf' = SubSeq(received, n + 1, Len(received))
      /\ pending' = SubSeq(pending, n + 1, Len(pending))
      /\ outcome' = [c \in Caller |-> IF {i \in 1 .. n : pending[i].by = c} = {} THEN outcome[c]
                        ELSE Answered(received[CHOOSE i \in {i \in 1 .. n : pending[i].by = c} : TRUE])]
      /\ UNCHANGED <<sockets, wire, ready, waiting, asked>>
  BY DEF Data
<1>2. /\ replies[s] \in Seq(AnyReply) /\ wire[s] \in Seq(Request) /\ pending \in Seq(Request)
      /\ Fits(pending, replies[s], wire[s]) /\ buf = <<>>
  BY <1>0, <1>1 DEF Typed, Quiet, Orderly, InStep
<1>3. /\ Len(pending) > 0 /\ pending[1] = replies[s][1].to
      /\ Fits(Tail(pending), Tail(replies[s]), wire[s])
  BY <1>1, <1>2, FitsData
<1>4. x \in AnyReply /\ x.to = pending[1] /\ pending[1] \in Request /\ Len(pending) \in Nat
  BY <1>1, <1>2, <1>3
<1>5. received = <<x>> /\ Len(received) = 1 /\ received[1] = x
  BY <1>2
<1>6. n = 1
  BY <1>3, <1>4, <1>5
<1> HIDE DEF x, received, n
<1>7. buf' = <<>>
  <2>1. buf' = SubSeq(<<x>>, 2, 1)
    BY <1>1, <1>5, <1>6
  <2>2. QED
    BY <2>1
<1>8. /\ pending' = Tail(pending) /\ pending' \in Seq(Request) /\ Len(pending') = Len(pending) - 1
      /\ \A i \in 1 .. Len(pending') : pending'[i] = pending[i + 1]
  <2>1. pending' = SubSeq(pending, 2, Len(pending))
    BY <1>1, <1>6
  <2>2. pending' = Tail(pending) /\ pending # <<>>
    BY <2>1, <1>2, <1>3, TailIsSubSeq
  <2>3. QED
    BY ONLY <2>2, <1>2, HeadTailProperties
<1>9. first \in Caller /\ pending[1] = [by |-> first, op |-> asked[first]]
  <2>1. asked[first] = pending[1].op
    BY <1>0, <1>3, <1>4 DEF Held
  <2>2. QED
    BY <2>1, <1>4 DEF Request
<1>10. \A c \in Caller : outcome'[c] = IF c = first THEN Answered(x) ELSE outcome[c]
  <2>1. ASSUME NEW c \in Caller
        PROVE  {i \in 1 .. n : pending[i].by = c} = IF c = first THEN {1} ELSE {}
    BY <1>6
  <2>2. ASSUME NEW c \in Caller PROVE outcome'[c] = IF c = first THEN Answered(x) ELSE outcome[c]
    <3>1. CASE c = first
      <4>1. {i \in 1 .. n : pending[i].by = c} = {1}
        BY <2>1, <3>1
      <4>2. (CHOOSE i \in {1} : TRUE) = 1
        OBVIOUS
      <4>3. outcome'[c] = Answered(received[CHOOSE i \in {1} : TRUE])
        BY ONLY <1>1, <4>1, c \in Caller
      <4>4. QED
        BY <4>2, <4>3, <3>1, <1>5
    <3>2. CASE c # first
      BY <2>1, <3>2, <1>1
    <3>3. QED
      BY <3>1, <3>2
  <2>3. QED
    BY <2>2
<1>11. Answered(x) \in Outcome /\ Answered(x) # Waits /\ Answered(x).to = pending[1]
  BY <1>4, OutcomeFacts
<1> HIDE DEF first
<1>12. outcome' \in [Caller -> Outcome]
  <2>1. DOMAIN outcome' = Caller /\ outcome' = [c \in Caller |-> outcome'[c]]
    BY <1>1
  <2>2. \A c \in Caller : outcome'[c] \in Outcome
    BY <1>0, <1>10, <1>11 DEF Typed
  <2>3. QED
    BY <2>1, <2>2
<1>13. Typed'
  <2>1. replies' \in [Socket -> Seq(AnyReply)]
    BY <1>0, <1>1, <1>2 DEF Typed
  <2>2. QED
    BY <2>1, <1>0, <1>1, <1>8, <1>12 DEF Typed
<1>14. Alone'
  BY <1>0, <1>1 DEF Alone, Live
<1>15. \A t \in Socket : t # s => sockets[t] # "up" /\ sockets[t] # "connecting"
  BY <1>0, <1>1 DEF Alone, Live
<1>16. \A t \in Socket : t # s => replies'[t] = replies[t]
  BY <1>0, <1>1 DEF Typed
<1>17. Quiet'
  BY <1>0, <1>1, <1>7, <1>16 DEF Quiet
<1>18. \A t \in Socket : sockets'[t] = "up" => InStep(t)'
  <2>1. replies'[s] = Tail(replies[s])
    BY <1>0, <1>1 DEF Typed
  <2>2. InStep(s)'
    BY <2>1, <1>1, <1>3, <1>8 DEF InStep
  <2>3. QED
    BY <2>2, <1>1, <1>15
<1>19. Held(pending)'
  <2>1. ASSUME NEW i \in DOMAIN pending'
        PROVE  /\ i + 1 \in DOMAIN pending /\ pending'[i] = pending[i + 1]
               /\ pending[i + 1].by \in Caller /\ pending[i + 1].by # first
    <3>1. i \in 1 .. Len(pending') /\ i \in Nat /\ i # 0
      BY <1>8
    <3>2. i + 1 \in DOMAIN pending /\ 1 \in DOMAIN pending /\ i + 1 # 1
      BY <1>2, <1>3, <1>8, <3>1
    <3>3. pending[i + 1].by # first
      BY <1>0, <3>2 DEF Held, first
    <3>4. pending[i + 1] \in Request
      BY <1>2, <3>2
    <3>5. QED
      BY <1>8, <3>1, <3>2, <3>3, <3>4 DEF Request
  <2>2. ASSUME NEW i \in DOMAIN pending', NEW j \in DOMAIN pending', pending'[i].by = pending'[j].by
        PROVE  i = j
    <3>1. i + 1 = j + 1
      BY <2>1, <2>2, <1>0 DEF Held
    <3>2. i \in Nat /\ j \in Nat
      BY <1>8
    <3>3. QED
      BY <3>1, <3>2
  <2>3. \A i \in DOMAIN pending' : outcome'[pending'[i].by] = Waits /\ asked'[pending'[i].by] = pending'[i].op
    <3>1. ASSUME NEW i \in DOMAIN pending'
          PROVE  outcome'[pending'[i].by] = Waits /\ asked'[pending'[i].by] = pending'[i].op
      <4>1. outcome'[pending[i + 1].by] = outcome[pending[i + 1].by]
        BY <2>1, <1>10
      <4>2. QED
        BY <2>1, <4>1, <1>0, <1>1 DEF Held
    <3>2. QED
      BY <3>1
  <2>4. QED
    BY <2>2, <2>3 DEF Held
<1>20. \A t \in Socket : Held(waiting[t])'
  <2>1. \A t \in Socket : waiting'[t] = <<>>
    BY <1>0, <1>1, <1>15 DEF Quiet
  <2>2. QED
    BY <2>1 DEF Held
<1>21. ASSUME NEW c \in Caller PROVE OwnAnswer(c)'
  <2>1. CASE c = first
    BY <2>1, <1>1, <1>9, <1>10, <1>11 DEF OwnAnswer
  <2>2. CASE c # first
    BY <2>2, <1>1, <1>10 DEF OwnAnswer, Orderly
  <2>3. QED
    BY <2>1, <2>2
<1>22. QED
  BY <1>13, <1>14, <1>17, <1>18, <1>19, <1>20, <1>21 DEF Orderly

(* A connection goes: nothing is in flight and no socket is up.             *)
LEMMA DownStep ==
  ASSUME Orderly, NEW s \in Socket, NEW state \in {"errored", "closed"}, Down(s, state),
         Live(s) \/ (sockets[s] = "errored" /\ state = "closed"), UNCHANGED <<step, count>>
  PROVE  Orderly'
<1>0. Typed /\ Alone /\ Quiet /\ MaxSockets \in Nat
  BY RedisClientAssumption DEF Orderly
<1>1. /\ sockets' = [sockets EXCEPT ![s] = state] /\ ready' = 0 /\ buf' = <<>> /\ pending' = <<>>
      /\ waiting' = [waiting EXCEPT ![s] = <<>>]
      /\ outcome' = [c \in Caller |->
            IF c \in CallersOf(pending) \cup CallersOf(waiting[s]) THEN Failed ELSE outcome[c]]
      /\ UNCHANGED <<wire, replies, asked>>
  BY DEF Down, PendingAfterDown
<1>2. \A t \in Socket : /\ sockets'[t] = IF t = s THEN state ELSE sockets[t]
                        /\ waiting'[t] = IF t = s THEN <<>> ELSE waiting[t]
  BY <1>0, <1>1 DEF Typed
<1>3. \A t \in Socket : sockets'[t] # "up"
  BY <1>0, <1>2 DEF Alone, Live
<1>4. Typed'
  BY <1>0, <1>1 DEF Typed, Outcome
<1>5. Alone'
  BY <1>0, <1>1, <1>2, <1>3 DEF Alone, Live
<1>6. Quiet'
  BY <1>0, <1>1, <1>2 DEF Quiet
<1>7. ASSUME NEW t \in Socket PROVE Held(waiting[t])'
  <2>1. CASE waiting'[t] = <<>>
    BY <2>1 DEF Held
  <2>2. CASE waiting'[t] # <<>>
    <3>1. t # s /\ waiting'[t] = waiting[t] /\ sockets[t] = "connecting"
      BY <2>2, <1>0, <1>2 DEF Quiet
    <3>2. ~Live(s) /\ sockets[s] = "errored"
      BY <3>1, <1>0 DEF Alone, Live
    <3>3. waiting[s] = <<>> /\ pending = <<>>
      BY <3>2, <1>0 DEF Quiet, Alone
    <3>4. CallersOf(pending) \cup CallersOf(waiting[s]) = {}
      BY <3>3 DEF CallersOf
    <3>5. outcome' = outcome
      BY <3>4, <1>0, <1>1 DEF Typed
    <3>6. QED
      BY <3>1, <3>5, <1>1 DEF Orderly, Held
  <2>3. QED
    BY <2>1, <2>2
<1>8. ASSUME NEW c \in Caller PROVE OwnAnswer(c)'
  <2>1. outcome'[c] = Failed \/ outcome'[c] = outcome[c]
    BY <1>1
  <2>2. QED
    BY <2>1, <1>1, OutcomeFacts DEF OwnAnswer, Orderly
<1>9. Held(pending)'
  BY <1>1 DEF Held
<1>10. QED
  BY <1>3, <1>4, <1>5, <1>6, <1>7, <1>8, <1>9 DEF Orderly

(* Redis serves the oldest command of a socket.                             *)
LEMMA RepliesStep ==
  ASSUME Orderly, NEW s \in Socket, NEW value \in Nat, Replies(s, value), UNCHANGED step, count' \in Nat
  PROVE  Orderly'
<1> DEFINE x == [to |-> Head(wire[s]), value |-> value]
<1>0. Typed /\ Alone /\ Quiet
  BY DEF Orderly
<1>1. /\ wire[s] # <<>> /\ wire' = [wire EXCEPT ![s] = Tail(@)]
      /\ replies' = [replies EXCEPT ![s] = Append(@, x)]
      /\ UNCHANGED <<sockets, ready, waiting, pending, buf, asked, outcome>>
  BY DEF Replies
<1>2. wire[s] \in Seq(Request) /\ replies[s] \in Seq(AnyReply) /\ pending \in Seq(Request)
  BY <1>0 DEF Typed
<1>3. x \in AnyReply /\ x.to = Head(wire[s])
  BY <1>1, <1>2 DEF AnyReply
<1> HIDE DEF x
<1>4. \A t \in Socket : /\ wire'[t] = IF t = s THEN Tail(wire[s]) ELSE wire[t]
                        /\ replies'[t] = IF t = s THEN Append(replies[s], x) ELSE replies[t]
  BY <1>0, <1>1 DEF Typed
<1>5. Typed'
  BY <1>0, <1>1, <1>2, <1>3 DEF Typed
<1>6. Alone' /\ Held(pending)' /\ (\A t \in Socket : Held(waiting[t])') /\ \A c \in Caller : OwnAnswer(c)'
  BY <1>0, <1>1 DEF Alone, Live, Held, OwnAnswer, Orderly
<1>7. Quiet'
  BY <1>0, <1>1, <1>4 DEF Quiet
<1>8. ASSUME NEW t \in Socket, sockets'[t] = "up" PROVE InStep(t)'
  <2>1. Fits(pending, replies[t], wire[t])
    BY <1>1, <1>8 DEF Orderly, InStep
  <2>2. CASE t = s
    BY <2>1, <2>2, <1>1, <1>2, <1>3, <1>4, FitsServe DEF InStep
  <2>3. CASE t # s
    BY <2>1, <2>3, <1>1, <1>4 DEF InStep
  <2>4. QED
    BY <2>2, <2>3
<1>9. QED
  BY <1>5, <1>6, <1>7, <1>8 DEF Orderly

-----------------------------------------------------------------------------
LEMMA MatchedInit == Init => Matched
<1> SUFFICES ASSUME Init PROVE Orderly
  BY DEF Matched
<1>0. MaxSockets \in Nat /\ "DEL" \in Op
  BY RedisClientAssumption, LockoutAssumption DEF RedisClientAssumption, LockoutAssumption
<1>1. Typed
  BY <1>0 DEF Init, InitRedis, Typed, Outcome
<1>2. Alone /\ Quiet
  BY DEF Init, InitRedis, Alone, Quiet, Live
<1>3. \A s \in Socket : sockets[s] # "up"
  BY DEF Init, InitRedis
<1>4. Held(pending) /\ \A s \in Socket : Held(waiting[s])
  BY DEF Init, InitRedis, Held
<1>5. \A c \in Caller : OwnAnswer(c)
  BY OutcomeFacts DEF Init, InitRedis, OwnAnswer
<1>6. QED
  BY <1>1, <1>2, <1>3, <1>4, <1>5 DEF Orderly

LEMMA MatchedStep == Matched /\ [Next]_vars => Matched'
<1> SUFFICES ASSUME Orderly, [Next]_vars, ~overlapped' PROVE Orderly'
  <2>1. overlapped /\ [Next]_vars => overlapped'
    BY DEF Next, vars, LogIn, SetLife, Done, Serve, SocketEvent, Fault, Expires, Command, Opens, Awaits,
           Writes, Connected, Data, Down, Error, CloseAfterError, Close, Replies
  <2>2. QED
    BY <2>1 DEF Matched
<1>0. Op = {"INCR", "EXPIRE", "DEL"} /\ step \in [Caller -> {"start", "asked", "done"}] /\ count \in Nat
  BY LockoutAssumption DEF LockoutAssumption, Orderly, Typed
<1>1. ASSUME UNCHANGED redisVars, count' \in Nat,
             step' \in [Caller -> {"start", "asked", "done"}],
             \A c \in Caller : step'[c] = "start" => step[c] = "start"
      PROVE  Orderly'
  <2>1. Typed' /\ Alone' /\ Quiet'
    BY <1>1 DEF Orderly, Typed, Alone, Live, Quiet
  <2>2. \A s \in Socket : sockets'[s] = "up" => InStep(s)'
    BY <1>1 DEF Orderly, InStep
  <2>3. Held(pending)' /\ (\A s \in Socket : Held(waiting[s])') /\ \A c \in Caller : OwnAnswer(c)'
    BY <1>1 DEF Orderly, Held, OwnAnswer
  <2>4. QED
    BY <2>1, <2>2, <2>3 DEF Orderly
<1>2. ASSUME NEW c \in Caller, LogIn(c) PROVE Orderly'
  <2>1. PICK op \in {"INCR", "DEL"} : Command(c, op)
    BY <1>2 DEF LogIn
  <2>2. step[c] = "start" /\ step' = [step EXCEPT ![c] = "asked"] /\ UNCHANGED count
    BY <1>2 DEF LogIn
  <2>3. op \in Op /\ outcome[c] # Waits
    BY <1>0, <2>2 DEF Orderly, OwnAnswer
  <2>4. QED
    BY <1>0, <2>1, <2>2, <2>3, CommandStep
<1>3. ASSUME NEW c \in Caller, SetLife(c) PROVE Orderly'
  <2>1. Command(c, "EXPIRE") /\ step[c] = "asked" /\ outcome[c].kind = "reply" /\ UNCHANGED <<step, count>>
    BY <1>3 DEF SetLife
  <2>2. outcome[c] # Waits /\ "EXPIRE" \in Op
    BY <1>0, <2>1, OutcomeFacts
  <2>3. QED
    BY <1>0, <2>1, <2>2, CommandStep
<1>4. ASSUME NEW c \in Caller, Done(c) PROVE Orderly'
  BY <1>0, <1>1, <1>4 DEF Done, Goes
<1>5. ASSUME NEW s \in Socket, Serve(s) PROVE Orderly'
  <2>1. PICK value \in Nat : Replies(s, value)
    <3>1. count + 1 \in Nat /\ (IF count > 0 THEN 1 ELSE 0) \in Nat
      BY <1>0
    <3>2. QED
      BY <1>5, <3>1 DEF Serve
  <2>2. UNCHANGED step /\ count' \in Nat
    BY <1>0, <1>5 DEF Serve
  <2>3. QED
    BY <2>1, <2>2, RepliesStep
<1>6. ASSUME NEW s \in Socket, SocketEvent(s) PROVE Orderly'
  <2>1. CASE CloseAfterError(s)
    BY <1>6, <2>1, DownStep DEF CloseAfterError, SocketEvent
  <2>2. QED
    BY <1>6, <2>1, ConnectedStep, DataStep DEF SocketEvent
<1>7. ASSUME NEW s \in Socket, Fault(s) PROVE Orderly'
  BY <1>7, DownStep DEF Fault, Error, Close, Live
<1>8. ASSUME Expires PROVE Orderly'
  BY <1>0, <1>1, <1>8 DEF Expires
<1>9. ASSUME UNCHANGED vars PROVE Orderly'
  BY <1>0, <1>1, <1>9 DEF vars
<1>10. QED
  BY <1>2, <1>3, <1>4, <1>5, <1>6, <1>7, <1>8, <1>9 DEF Next

(* Until a second socket is opened next to a live one, a caller receives the*)
(* reply to its own command, however connections fail (redis.js 5-9).       *)
THEOREM OwnReply == Spec => []ReplyIsOwn
<1>1. Matched => ReplyIsOwn
  BY DEF Matched, Orderly, OwnAnswer, ReplyIsOwn
<1>2. QED
  BY <1>1, MatchedInit, MatchedStep, PTL DEF Spec
=============================================================================
