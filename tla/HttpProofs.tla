----------------------------- MODULE HttpProofs -----------------------------
(***************************************************************************)
(* Proofs about HttpServer, for any number of threads and connections, any  *)
(* requests, any keep-alive count and any size of the read buffer.          *)
(***************************************************************************)
EXTENDS HttpServer, FiniteSetTheorems, SequenceTheorems, TLAPS

Idle == {"wait", "asleep", "exited"}

(* A thread waits for a job just when it has no connection.  The request it *)
(* reads still counts, and only inside a request is something buffered.     *)
ThreadsInOrder ==
    \A w \in Workers :
        /\ wpc[w] \in Idle <=> wconn[w] = NoConn
        /\ wpc[w] \in {"line", "body", "reply"} => wcount[w] > 0
        /\ wpc[w] \notin {"body", "reply"} => wbuff[w] = <<>>
        /\ wpc[w] \in {"body", "reply"} => wreq[w] # None

(* A connection is never in two places at once.                             *)
OnePlace ==
    /\ \A v, w \in Workers : wconn[v] = wconn[w] /\ wconn[v] # NoConn => v = w
    /\ \A i, j \in DOMAIN jobs : jobs[i] = jobs[j] => i = j
    /\ \A w \in Workers, i \in DOMAIN jobs : wconn[w] # jobs[i]
    /\ \A w \in Workers : lsock # NoConn => wconn[w] # lsock
    /\ \A i \in DOMAIN jobs : jobs[i] # lsock
    /\ lpc = "push" <=> lsock # NoConn

(* It is somewhere just while it is accepted.                               *)
SomePlace ==
    \A c \in Conns :
        conn[c] = "accepted" <=>
            \/ lsock = c
            \/ \E i \in DOMAIN jobs : jobs[i] = c
            \/ \E w \in Workers : wconn[w] = c

(* Nothing is on its way on a connection that is not accepted.              *)
Quiet ==
    \A c \in Conns : conn[c] # "accepted" =>
        net[c] = <<>> /\ tosend[c] = 0 /\ asked[c] = None /\ ~eof[c]

AllUnits(s) == \A i \in 1 .. Len(s) : s[i] = Unit

(* Between two requests: nothing is on its way, or one request whose head   *)
(* comes first and whose body is still complete.                            *)
Whole(c) ==
    \/ asked[c] = None /\ net[c] = <<>> /\ tosend[c] = 0
    \/ /\ asked[c] \in Kinds
       /\ Len(net[c]) > 0 /\ net[c][1] = asked[c]
       /\ \A i \in 2 .. Len(net[c]) : net[c][i] = Unit
       /\ Len(net[c]) + tosend[c] = BodyUnits[asked[c]] + 1

(* Inside a request: it is the one the client asked, and what the thread    *)
(* has not read of its body is in the buffer, on its way or not yet sent.   *)
Inside(w) ==
    /\ wreq[w] = asked[wconn[w]]
    /\ AllUnits(wbuff[w]) /\ AllUnits(net[wconn[w]])
    /\ Len(wbuff[w]) + Len(net[wconn[w]]) + tosend[wconn[w]] = wneed[w]

InRequest(c) == \E w \in Workers : wconn[w] = c /\ wpc[w] \in {"body", "reply"}

(* Until a part of a body was left unread, client and server agree on where *)
(* each request begins.                                                     *)
InStep ==
    /\ \A c \in Conns \ left : ~eof[c] /\ ~InRequest(c) => Whole(c)
    /\ \A w \in Workers :
          wpc[w] \in {"body", "reply"} /\ wconn[w] \notin left /\ ~eof[wconn[w]] => Inside(w)

HttpInv ==
    /\ HttpTypeOK /\ ThreadsInOrder
    /\ OnePlace /\ SomePlace /\ Quiet
    /\ InStep /\ AnswersMatch

---------------------------------------------------------------------------
(* The server starts with nothing accepted and all threads at the queue. *)
LEMMA HttpInitInv == HttpInit => HttpInv
<1> SUFFICES ASSUME HttpInit PROVE HttpInv
  OBVIOUS
<1>1. HttpTypeOK
  <2>1. 0 \in 0 .. keep_alive_max_count /\ <<>> \in Seq(Conns) /\ <<>> \in Seq(Tokens)
    BY HttpAssumption
  <2> QED BY <2>1 DEF HttpInit, HttpTypeOK
<1>2. ThreadsInOrder /\ OnePlace /\ SomePlace /\ Quiet
  BY HttpAssumption DEF HttpInit, ThreadsInOrder, OnePlace, SomePlace, Quiet, Idle
<1>3. InStep /\ AnswersMatch
  BY DEF HttpInit, InStep, AnswersMatch, Whole
<1> QED BY <1>1, <1>2, <1>3 DEF HttpInv

(* A thread that is not idle has a connection. *)
LEMMA BusyConn ==
    ASSUME HttpInv, NEW w \in Workers, wpc[w] \notin Idle
    PROVE  wconn[w] \in Conns
BY DEF HttpInv, HttpTypeOK, ThreadsInOrder

---------------------------------------------------------------------------
(* Steps that touch nothing on its way, and no thread inside a request.     *)
LEMMA InStepFrame ==
    ASSUME HttpInv,
           UNCHANGED <<net, tosend, asked, eof, left, wreq, wneed, wbuff>>,
           \A w \in Workers :
              /\ wpc'[w] \in {"body", "reply"} <=> wpc[w] \in {"body", "reply"}
              /\ wpc[w] \in {"body", "reply"} => wconn'[w] = wconn[w]
    PROVE  InStep'
<1>1. \A c \in Conns : InRequest(c)' <=> InRequest(c)
  BY DEF InRequest
<1>2. ASSUME NEW c \in Conns \ left, ~eof[c], ~InRequest(c)' PROVE Whole(c)'
  BY <1>1, <1>2 DEF HttpInv, InStep, Whole
<1>3. ASSUME NEW w \in Workers, wpc'[w] \in {"body", "reply"}, wconn'[w] \notin left,
             ~eof[wconn'[w]]
      PROVE  Inside(w)'
  <2>1. Inside(w) /\ wconn'[w] = wconn[w]
    BY <1>3 DEF HttpInv, InStep
  <2> QED BY <2>1 DEF Inside, AllUnits
<1> QED BY <1>2, <1>3 DEF InStep

(* A client's steps change what is on its way on its own connection.  It is *)
(* not between two requests only when it has been answered.                 *)
LEMMA ClientInv ==
    ASSUME HttpInv, NEW c \in Conns, Client(c)
    PROVE  HttpInv'
<1> USE HttpAssumption
<1>1. CASE Connect(c)
  <2>1. /\ UNCHANGED <<lpc, lsock, jobs, shutdown, wpc, wconn, wcount, wreq, wneed, wbuff>>
        /\ UNCHANGED <<net, tosend, asked, eof, left, wrong>>
        /\ conn[c] = "none" /\ conn' = [conn EXCEPT ![c] = "pending"]
    BY <1>1 DEF Connect, listenVars, poolVars, workerVars, clientVars
  <2>2. HttpTypeOK' /\ \A d \in Conns : (conn'[d] = "accepted") <=> (conn[d] = "accepted")
    BY <2>1 DEF HttpInv, HttpTypeOK
  <2>3. ThreadsInOrder' /\ OnePlace' /\ SomePlace' /\ Quiet' /\ AnswersMatch'
    BY <2>1, <2>2 DEF HttpInv, ThreadsInOrder, OnePlace, SomePlace, Quiet, AnswersMatch
  <2>4. InStep'
    BY <2>1, InStepFrame
  <2> QED BY <2>2, <2>3, <2>4 DEF HttpInv
<1>2. ASSUME NEW k \in Kinds, Ask(c, k) PROVE HttpInv'
  <2>1. /\ UNCHANGED <<lpc, lsock, jobs, shutdown, wpc, wconn, wcount, wreq, wneed, wbuff>>
        /\ UNCHANGED <<eof, conn, left, wrong>>
    BY <1>2 DEF Ask, listenVars, poolVars, workerVars
  <2>2. /\ conn[c] = "accepted" /\ ~eof[c] /\ tosend[c] = 0 /\ asked[c] = None
        /\ net' = [net EXCEPT ![c] = Append(@, k)]
        /\ asked' = [asked EXCEPT ![c] = k]
        /\ tosend' = [tosend EXCEPT ![c] = BodyUnits[k]]
    BY <1>2 DEF Ask
  <2>3. \A d \in Conns : d # c => net'[d] = net[d] /\ asked'[d] = asked[d] /\ tosend'[d] = tosend[d]
    BY <2>2 DEF HttpInv, HttpTypeOK
  <2>4. net'[c] = Append(net[c], k) /\ asked'[c] = k /\ tosend'[c] = BodyUnits[k]
    BY <2>2 DEF HttpInv, HttpTypeOK
  <2>5. HttpTypeOK'
    <3>1. Append(net[c], k) \in Seq(Tokens)
      BY DEF HttpInv, HttpTypeOK, Tokens
    <3> QED BY <2>1, <2>2, <3>1 DEF HttpInv, HttpTypeOK
  <2>6. ThreadsInOrder' /\ OnePlace' /\ SomePlace' /\ Quiet' /\ AnswersMatch'
    BY <2>1, <2>2, <2>3 DEF HttpInv, ThreadsInOrder, OnePlace, SomePlace, Quiet, AnswersMatch
  <2>7. ASSUME c \notin left PROVE ~InRequest(c) /\ net[c] = <<>>
    <3>1. ASSUME NEW w \in Workers, wconn[w] = c, wpc[w] \in {"body", "reply"} PROVE FALSE
      <4>1. Inside(w)
        BY <2>2, <2>7, <3>1 DEF HttpInv, InStep
      <4>2. wreq[w] = None
        BY <2>2, <3>1, <4>1 DEF Inside
      <4> QED BY <3>1, <4>2 DEF HttpInv, ThreadsInOrder
    <3>2. ~InRequest(c)
      BY <3>1 DEF InRequest
    <3>3. Whole(c)
      BY <2>2, <2>7, <3>2 DEF HttpInv, InStep
    <3> QED BY <2>2, <3>2, <3>3 DEF Whole
  <2>8. InStep'
    <3>1. ASSUME c \notin left PROVE Whole(c)'
      <4>1. net'[c] = <<k>>
        <5>1. net[c] = <<>>
          BY <2>7, <3>1
        <5> QED BY <2>4, <5>1
      <4>2. Len(<<k>>) = 1 /\ <<k>>[1] = k /\ BodyUnits[k] \in Nat
        OBVIOUS
      <4> QED BY <2>4, <4>1, <4>2 DEF Whole
    <3>2. \A d \in Conns \ left : ~eof[d] /\ ~InRequest(d)' => Whole(d)'
      BY <2>1, <2>3, <3>1 DEF HttpInv, InStep, InRequest, Whole
    <3>3. \A w \in Workers :
            wpc[w] \in {"body", "reply"} /\ wconn[w] \notin left /\ ~eof[wconn[w]] => Inside(w)'
      <4> SUFFICES ASSUME NEW w \in Workers, wpc[w] \in {"body", "reply"},
                          wconn[w] \notin left, ~eof[wconn[w]]
                   PROVE  Inside(w)'
        OBVIOUS
      <4>1. wconn[w] \in Conns /\ wconn[w] # c
        BY <2>7, BusyConn DEF Idle, InRequest
      <4>2. Inside(w)
        BY DEF HttpInv, InStep
      <4> QED BY <2>1, <2>3, <4>1, <4>2 DEF Inside, AllUnits
    <3> QED BY <2>1, <3>2, <3>3 DEF InStep
  <2> QED BY <2>5, <2>6, <2>8 DEF HttpInv
<1>3. CASE Send(c)
  <2>1. /\ UNCHANGED <<lpc, lsock, jobs, shutdown, wpc, wconn, wcount, wreq, wneed, wbuff>>
        /\ UNCHANGED <<asked, eof, conn, left, wrong>>
    BY <1>3 DEF Send, listenVars, poolVars, workerVars
  <2>2. /\ conn[c] = "accepted" /\ ~eof[c] /\ tosend[c] > 0
        /\ net' = [net EXCEPT ![c] = Append(@, Unit)]
        /\ tosend' = [tosend EXCEPT ![c] = @ - 1]
    BY <1>3 DEF Send
  <2>3. \A d \in Conns : d # c => net'[d] = net[d] /\ tosend'[d] = tosend[d]
    BY <2>2 DEF HttpInv, HttpTypeOK
  <2>4. /\ net'[c] = Append(net[c], Unit) /\ tosend'[c] = tosend[c] - 1
        /\ net[c] \in Seq(Tokens) /\ tosend[c] \in Nat
    BY <2>2 DEF HttpInv, HttpTypeOK
  <2>5. /\ Len(net'[c]) = Len(net[c]) + 1 /\ Len(net[c]) \in Nat
        /\ net'[c][Len(net[c]) + 1] = Unit
        /\ \A i \in 1 .. Len(net[c]) : net'[c][i] = net[c][i]
    BY <2>4
  <2>6. HttpTypeOK'
    <3>1. Append(net[c], Unit) \in Seq(Tokens) /\ tosend[c] - 1 \in Nat
      BY <2>2, <2>4 DEF Tokens
    <3> QED BY <2>1, <2>2, <3>1 DEF HttpInv, HttpTypeOK
  <2>7. ThreadsInOrder' /\ OnePlace' /\ SomePlace' /\ Quiet' /\ AnswersMatch'
    BY <2>1, <2>2, <2>3 DEF HttpInv, ThreadsInOrder, OnePlace, SomePlace, Quiet, AnswersMatch
  <2>8. ASSUME Whole(c) PROVE Whole(c)'
    <3>1. asked[c] \in Kinds /\ BodyUnits[asked[c]] \in Nat
      BY <2>2, <2>8 DEF Whole
    <3>2. /\ Len(net[c]) > 0 /\ net[c][1] = asked[c]
          /\ \A i \in 2 .. Len(net[c]) : net[c][i] = Unit
          /\ Len(net[c]) + tosend[c] = BodyUnits[asked[c]] + 1
      BY <2>2, <2>8 DEF Whole
    <3> DEFINE o == Len(net[c])
               q == net'[c]
    <3>3. /\ o \in Nat /\ o > 0 /\ Len(q) = o + 1 /\ q[o + 1] = Unit
          /\ \A i \in 1 .. o : q[i] = net[c][i]
      BY <2>5, <3>2
    <3>4. Len(q) + tosend'[c] = BodyUnits[asked[c]] + 1
      <4> DEFINE x == tosend[c]
                 y == tosend'[c]
                 z == BodyUnits[asked[c]]
                 l == Len(q)
      <4>1. /\ o \in Nat /\ x \in Nat /\ z \in Nat /\ y = x - 1 /\ l = o + 1
            /\ o + x = z + 1
        BY <2>4, <3>1, <3>2, <3>3
      <4> HIDE DEF o, q, x, y, z, l
      <4>2. l + y = z + 1
        BY <4>1
      <4> QED BY <4>2 DEF l, y, z
    <3>5. q[1] = asked[c]
      BY <3>2, <3>3
    <3>6. ASSUME NEW i \in 2 .. Len(q) PROVE q[i] = Unit
      <4>1. i = o + 1 \/ (i \in 2 .. o /\ i \in 1 .. o)
        BY <3>3
      <4> QED BY <3>2, <3>3, <4>1
    <3>7. Len(q) > 0
      BY <3>3
    <3> QED BY <2>1, <3>1, <3>4, <3>5, <3>6, <3>7 DEF Whole
  <2>9. ASSUME NEW w \in Workers, wconn[w] = c, Inside(w) PROVE Inside(w)'
    <3>1. wbuff[w] \in Seq(Tokens)
      BY DEF HttpInv, HttpTypeOK
    <3>2. AllUnits(wbuff[w])' /\ AllUnits(net[c])'
      <4>1. \A i \in 1 .. Len(net'[c]) : i \in 1 .. Len(net[c]) \/ i = Len(net[c]) + 1
        BY <2>5
      <4> QED BY <2>1, <2>5, <2>9, <4>1 DEF Inside, AllUnits
    <3>3. wneed[w] \in Nat /\ Len(wbuff[w]) \in Nat
      BY <3>1 DEF HttpInv, HttpTypeOK
    <3>4. Len(wbuff[w]) + Len(net'[c]) + tosend'[c] = wneed[w]
      <4>1. Len(wbuff[w]) + Len(net[c]) + tosend[c] = wneed[w]
        BY <2>9 DEF Inside
      <4>2. Len(net'[c]) = Len(net[c]) + 1 /\ Len(net[c]) \in Nat
        BY <2>5
      <4>3. tosend'[c] = tosend[c] - 1 /\ tosend[c] \in Nat
        BY <2>4
      <4> DEFINE b == Len(wbuff[w])  n == Len(net[c])  t == tosend[c]
      <4>4. /\ b \in Nat /\ n \in Nat /\ t \in Nat /\ wneed[w] \in Nat
            /\ b + n + t = wneed[w]
        BY <3>3, <4>1, <4>2, <4>3
      <4> HIDE DEF b, n, t
      <4>5. b + (n + 1) + (t - 1) = wneed[w]
        BY <4>4
      <4> QED BY <4>2, <4>3, <4>5 DEF b, n, t
    <3> QED BY <2>1, <2>9, <3>2, <3>4 DEF Inside
  <2>10. InStep'
    <3>1. ASSUME NEW d \in Conns \ left, ~eof[d], ~InRequest(d)' PROVE Whole(d)'
      <4>1. Whole(d)
        BY <2>1, <3>1 DEF HttpInv, InStep, InRequest
      <4>2. CASE d # c
        BY <2>1, <2>3, <4>1, <4>2 DEF Whole
      <4> QED BY <2>8, <4>1, <4>2
    <3>2. \A w \in Workers :
            wpc[w] \in {"body", "reply"} /\ wconn[w] \notin left /\ ~eof[wconn[w]] => Inside(w)'
      <4> SUFFICES ASSUME NEW w \in Workers, wpc[w] \in {"body", "reply"},
                          wconn[w] \notin left, ~eof[wconn[w]]
                   PROVE  Inside(w)'
        OBVIOUS
      <4>1. wconn[w] \in Conns
        BY BusyConn DEF Idle
      <4>2. Inside(w)
        BY DEF HttpInv, InStep
      <4>3. CASE wconn[w] # c
        BY <2>1, <2>3, <4>1, <4>2, <4>3 DEF Inside, AllUnits
      <4> QED BY <2>9, <4>2, <4>3
    <3> QED BY <2>1, <3>1, <3>2 DEF InStep
  <2> QED BY <2>6, <2>7, <2>10 DEF HttpInv
<1>4. CASE Hangup(c)
  <2>1. /\ UNCHANGED <<lpc, lsock, jobs, shutdown, wpc, wconn, wcount, wreq, wneed, wbuff>>
        /\ UNCHANGED <<conn, net, left, wrong>>
    BY <1>4 DEF Hangup, listenVars, poolVars, workerVars, connVars
  <2>2. HttpTypeOK'
    BY <1>4, <2>1 DEF Hangup, HttpInv, HttpTypeOK
  <2>3. \A d \in Conns : d # c => /\ eof'[d] = eof[d] /\ asked'[d] = asked[d]
                                  /\ tosend'[d] = tosend[d]
    BY <1>4 DEF Hangup, HttpInv, HttpTypeOK
  <2>4. eof'[c] /\ conn[c] = "accepted"
    BY <1>4 DEF Hangup, HttpInv, HttpTypeOK
  <2>5. ThreadsInOrder' /\ OnePlace' /\ SomePlace' /\ Quiet' /\ AnswersMatch'
    BY <2>1, <2>3, <2>4 DEF HttpInv, ThreadsInOrder, OnePlace, SomePlace, Quiet, AnswersMatch
  <2>6. InStep'
    <3>1. ASSUME NEW d \in Conns \ left, ~eof'[d], ~InRequest(d)' PROVE Whole(d)'
      <4>1. d # c
        BY <2>4, <3>1
      <4>2. ~eof[d] /\ ~InRequest(d)
        BY <2>1, <2>3, <3>1, <4>1 DEF InRequest
      <4> QED BY <2>1, <2>3, <4>1, <4>2 DEF HttpInv, InStep, Whole
    <3>2. ASSUME NEW w \in Workers, wpc[w] \in {"body", "reply"}, wconn[w] \notin left,
                 ~eof'[wconn[w]]
          PROVE  Inside(w)'
      <4>1. wconn[w] \in Conns /\ wconn[w] # c
        BY <2>4, <3>2, BusyConn DEF Idle
      <4>2. Inside(w)
        BY <2>3, <3>2, <4>1 DEF HttpInv, InStep
      <4> QED BY <2>1, <2>3, <4>1, <4>2 DEF Inside, AllUnits
    <3> QED BY <2>1, <3>1, <3>2 DEF InStep
  <2> QED BY <2>2, <2>5, <2>6 DEF HttpInv
<1> QED BY <1>1, <1>2, <1>3, <1>4 DEF Client

(* The listening thread moves a connection from the backlog to the queue.   *)
LEMMA ListenerInv ==
    ASSUME HttpInv, Listener
    PROVE  HttpInv'
<1> USE HttpAssumption
<1>1. CASE Accept
  <2> PICK c \in Conns : /\ conn[c] = "pending"
                         /\ conn' = [conn EXCEPT ![c] = "accepted"]
                         /\ lsock' = c
    BY <1>1 DEF Accept
  <2>1. /\ lpc = "accept" /\ lpc' = "push"
        /\ UNCHANGED <<jobs, shutdown, wpc, wconn, wcount, wreq, wneed, wbuff>>
        /\ UNCHANGED <<net, tosend, asked, eof, left, wrong>>
    BY <1>1 DEF Accept, poolVars, workerVars, clientVars
  <2>2. HttpTypeOK' /\ \A d \in Conns : conn'[d] = IF d = c THEN "accepted" ELSE conn[d]
    BY <2>1 DEF HttpInv, HttpTypeOK
  <2>3. lsock = NoConn /\ c # NoConn
    BY <2>1 DEF HttpInv, OnePlace
  <2>4. /\ \A i \in DOMAIN jobs : jobs[i] # c
        /\ \A w \in Workers : wconn[w] # c
    BY DEF HttpInv, SomePlace
  <2>5. OnePlace' /\ SomePlace'
    BY <2>1, <2>2, <2>3, <2>4 DEF HttpInv, OnePlace, SomePlace
  <2>6. ThreadsInOrder' /\ Quiet' /\ AnswersMatch'
    BY <2>1, <2>2 DEF HttpInv, ThreadsInOrder, Quiet, AnswersMatch
  <2>7. InStep'
    BY <2>1, InStepFrame
  <2> QED BY <2>2, <2>5, <2>6, <2>7 DEF HttpInv
<1>2. CASE Enqueue
  <2>1. /\ lpc = "push" /\ lpc' = "notify" /\ lsock' = NoConn /\ jobs' = Append(jobs, lsock)
        /\ UNCHANGED <<shutdown, wpc, wconn, wcount, wreq, wneed, wbuff>>
        /\ UNCHANGED <<conn, net, tosend, asked, eof, left, wrong>>
    BY <1>2 DEF Enqueue, connVars, workerVars, clientVars
  <2>2. lsock \in Conns /\ jobs \in Seq(Conns)
    BY <2>1 DEF HttpInv, HttpTypeOK, OnePlace
  <2>3. /\ jobs' \in Seq(Conns)
        /\ DOMAIN jobs = 1 .. Len(jobs) /\ DOMAIN jobs' = 1 .. Len(jobs) + 1
        /\ Len(jobs) \in Nat
        /\ \A i \in 1 .. Len(jobs) : jobs'[i] = jobs[i]
        /\ jobs'[Len(jobs) + 1] = lsock
    BY <2>1, <2>2
  <2>4. \A i \in DOMAIN jobs' : i \in DOMAIN jobs \/ i = Len(jobs) + 1
    BY <2>3
  <2>5. DOMAIN jobs \subseteq DOMAIN jobs' /\ Len(jobs) + 1 \in DOMAIN jobs'
    BY <2>3
  <2>6. HttpTypeOK'
    BY <2>1, <2>3 DEF HttpInv, HttpTypeOK
  <2>7. OnePlace'
    BY <2>1, <2>2, <2>3, <2>4 DEF HttpInv, OnePlace
  <2>8. SomePlace'
    BY <2>1, <2>2, <2>3, <2>4, <2>5 DEF HttpInv, SomePlace
  <2>9. ThreadsInOrder' /\ Quiet' /\ AnswersMatch'
    BY <2>1 DEF HttpInv, ThreadsInOrder, Quiet, AnswersMatch
  <2>10. InStep'
    BY <2>1, InStepFrame
  <2> QED BY <2>6, <2>7, <2>8, <2>9, <2>10 DEF HttpInv
<1>3. CASE NotifyOne \/ NotifyAll
  <2>1. /\ lpc \in {"notify", "notifyall"} /\ lpc' \in {"accept", "join"}
        /\ UNCHANGED <<lsock, jobs, shutdown, wconn, wcount, wreq, wneed, wbuff>>
        /\ UNCHANGED <<conn, net, tosend, asked, eof, left, wrong>>
    BY <1>3 DEF NotifyOne, NotifyAll, connVars, poolVars, clientVars
  <2>2. HttpTypeOK'
    <3>1. wpc' \in [Workers -> {"wait", "asleep", "alive", "line", "body", "reply", "exited"}]
      <4>1. CASE NotifyOne
        <5>1. wpc' = wpc \/ \E w \in Workers : wpc' = [wpc EXCEPT ![w] = "wait"]
          BY <4>1 DEF NotifyOne
        <5> QED BY <5>1 DEF HttpInv, HttpTypeOK
      <4>2. CASE NotifyAll
        BY <4>2 DEF NotifyAll, HttpInv, HttpTypeOK
      <4> QED BY <1>3, <4>1, <4>2
    <3> QED BY <2>1, <3>1 DEF HttpInv, HttpTypeOK
  <2>3. \A w \in Workers : wpc'[w] = wpc[w] \/ (wpc[w] = "asleep" /\ wpc'[w] = "wait")
    BY <1>3 DEF NotifyOne, NotifyAll, HttpInv, HttpTypeOK
  <2>4. ThreadsInOrder'
    BY <2>1, <2>3 DEF HttpInv, ThreadsInOrder, Idle
  <2>5. OnePlace' /\ SomePlace' /\ Quiet' /\ AnswersMatch'
    BY <2>1 DEF HttpInv, OnePlace, SomePlace, Quiet, AnswersMatch
  <2>6. InStep'
    BY <2>1, <2>3, InStepFrame
  <2> QED BY <2>2, <2>4, <2>5, <2>6 DEF HttpInv
<1>4. CASE AcceptFails
  <2>1. /\ lpc = "accept" /\ lpc' = "stop"
        /\ UNCHANGED <<lsock, jobs, shutdown, wpc, wconn, wcount, wreq, wneed, wbuff>>
        /\ UNCHANGED <<left, wrong>>
    BY <1>4 DEF AcceptFails, poolVars, workerVars
  <2>2. UNCHANGED <<net, tosend, asked, eof>>
    <3>1. \A c \in Conns : conn[c] = "pending" =>
             net[c] = <<>> /\ tosend[c] = 0 /\ asked[c] = None /\ eof[c] = FALSE
      BY DEF HttpInv, HttpTypeOK, Quiet
    <3>2. net' = net /\ tosend' = tosend
      BY <1>4, <3>1 DEF AcceptFails, Over, HttpInv, HttpTypeOK
    <3>3. asked' = asked /\ eof' = eof
      BY <1>4, <3>1 DEF AcceptFails, Over, HttpInv, HttpTypeOK
    <3> QED BY <3>2, <3>3
  <2>3. conn' = [c \in Conns |-> IF conn[c] = "pending" THEN "closed" ELSE conn[c]]
    BY <1>4 DEF AcceptFails, Over
  <2>4. HttpTypeOK'
    BY <2>1, <2>2, <2>3 DEF HttpInv, HttpTypeOK
  <2>5. \A c \in Conns : conn'[c] = "accepted" <=> conn[c] = "accepted"
    BY <2>3
  <2>6. OnePlace' /\ SomePlace' /\ ThreadsInOrder' /\ Quiet' /\ AnswersMatch'
    BY <2>1, <2>2, <2>5 DEF HttpInv, OnePlace, SomePlace, ThreadsInOrder, Quiet, AnswersMatch
  <2>7. InStep'
    BY <2>1, <2>2, InStepFrame
  <2> QED BY <2>4, <2>6, <2>7 DEF HttpInv
<1>5. CASE Shutdown \/ Join
  <2>1. /\ lpc \in {"stop", "join"} /\ lpc' \in {"notifyall", "ended"}
        /\ UNCHANGED <<lsock, jobs, wpc, wconn, wcount, wreq, wneed, wbuff>>
        /\ UNCHANGED <<conn, net, tosend, asked, eof, left, wrong>>
        /\ shutdown' \in BOOLEAN
    BY <1>5 DEF Shutdown, Join, poolVars, workerVars, connVars, clientVars, HttpInv, HttpTypeOK
  <2>2. HttpTypeOK'
    BY <2>1 DEF HttpInv, HttpTypeOK
  <2>3. OnePlace' /\ SomePlace' /\ ThreadsInOrder' /\ Quiet' /\ AnswersMatch'
    BY <2>1 DEF HttpInv, OnePlace, SomePlace, ThreadsInOrder, Quiet, AnswersMatch
  <2>4. InStep'
    BY <2>1, InStepFrame
  <2> QED BY <2>2, <2>3, <2>4 DEF HttpInv
<1> QED BY <1>1, <1>2, <1>3, <1>4, <1>5 DEF Listener

---------------------------------------------------------------------------
(* A thread of the pool waits, sleeps, wakes up, ends or takes the first    *)
(* job.                                                                     *)
LEMMA PoolInv ==
    ASSUME HttpInv, NEW w \in Workers,
           Sleep(w) \/ WakeUp(w) \/ Exit(w) \/ TakeJob(w) \/ KeepAlive(w)
    PROVE  HttpInv'
<1> USE HttpAssumption
<1>1. CASE Sleep(w) \/ WakeUp(w) \/ Exit(w)
  <2>1. /\ UNCHANGED <<lpc, lsock, jobs, shutdown, wconn, wcount, wreq, wneed, wbuff>>
        /\ UNCHANGED <<conn, net, tosend, asked, eof, left, wrong>>
        /\ wpc[w] \in Idle
        /\ \E s \in Idle : wpc' = [wpc EXCEPT ![w] = s]
    BY <1>1 DEF Sleep, WakeUp, Exit, Goto, Idle, listenVars, poolVars, connVars, clientVars
  <2>2. HttpTypeOK' /\ \A v \in Workers : wpc'[v] = wpc[v] \/ {wpc[v], wpc'[v]} \subseteq Idle
    BY <2>1 DEF HttpInv, HttpTypeOK, Idle
  <2>3. ThreadsInOrder' /\ OnePlace' /\ SomePlace' /\ Quiet' /\ AnswersMatch'
    BY <2>1, <2>2 DEF HttpInv, ThreadsInOrder, OnePlace, SomePlace, Quiet, AnswersMatch, Idle
  <2>4. InStep'
    BY <2>1, <2>2, InStepFrame DEF Idle
  <2> QED BY <2>2, <2>3, <2>4 DEF HttpInv
<1>2. CASE TakeJob(w)
  <2> DEFINE c == Head(jobs)
  <2>1. /\ UNCHANGED <<lpc, lsock, shutdown, wreq, wneed, wbuff>>
        /\ UNCHANGED <<conn, net, tosend, asked, eof, left, wrong>>
        /\ wpc[w] = "wait" /\ wpc' = [wpc EXCEPT ![w] = "alive"]
        /\ wconn' = [wconn EXCEPT ![w] = c]
        /\ wcount' = [wcount EXCEPT ![w] = keep_alive_max_count]
        /\ jobs # <<>> /\ jobs' = Tail(jobs)
    BY <1>2 DEF TakeJob, Goto, listenVars, connVars, clientVars
  <2>2. jobs \in Seq(Conns)
    BY DEF HttpInv, HttpTypeOK
  <2>3. /\ c \in Conns /\ c = jobs[1] /\ 1 \in DOMAIN jobs
        /\ jobs' \in Seq(Conns)
        /\ \A i \in DOMAIN jobs' : i + 1 \in DOMAIN jobs /\ jobs'[i] = jobs[i + 1] /\ i \in Nat \ {0}
        /\ \A i \in DOMAIN jobs : i = 1 \/ (i - 1 \in DOMAIN jobs' /\ jobs'[i - 1] = jobs[i])
    BY <2>1, <2>2
  <2>4. HttpTypeOK'
    <3> HIDE DEF c
    <3>1. keep_alive_max_count \in 0 .. keep_alive_max_count
      BY HttpAssumption
    <3>2. /\ wpc' \in [Workers -> {"wait", "asleep", "alive", "line", "body", "reply", "exited"}]
          /\ wconn' \in [Workers -> Conns \cup {NoConn}]
          /\ wcount' \in [Workers -> 0 .. keep_alive_max_count]
      BY <2>1, <2>3, <3>1 DEF HttpInv, HttpTypeOK
    <3> QED BY <2>1, <2>3, <3>2 DEF HttpInv, HttpTypeOK
  <2>5. /\ \A v \in Workers : wconn'[v] = IF v = w THEN c ELSE wconn[v]
        /\ \A v \in Workers : wpc'[v] = IF v = w THEN "alive" ELSE wpc[v]
    BY <2>1 DEF HttpInv, HttpTypeOK
  <2>6. wconn[w] = NoConn /\ c # NoConn
    BY <2>1, <2>3 DEF HttpInv, ThreadsInOrder, Idle
  <2> HIDE DEF c
  <2>7. ThreadsInOrder'
    <3>1. wpc'[w] = "alive" /\ wconn'[w] = c
      BY <2>5
    <3>2. \A v \in Workers : v # w => wcount'[v] = wcount[v]
      BY <2>1 DEF HttpInv, HttpTypeOK
    <3> QED BY <2>1, <2>5, <2>6, <3>1, <3>2 DEF HttpInv, ThreadsInOrder, Idle
  <2>8. \A i \in DOMAIN jobs' : jobs'[i] # c
    BY <2>3 DEF HttpInv, OnePlace
  <2>9. OnePlace'
    <3>1. \A u, v \in Workers : wconn'[u] = wconn'[v] /\ wconn'[u] # NoConn => u = v
      BY <2>3, <2>5 DEF HttpInv, OnePlace
    <3>2. \A i, j \in DOMAIN jobs' : jobs'[i] = jobs'[j] => i = j
      BY <2>3 DEF HttpInv, OnePlace
    <3>3. \A v \in Workers, i \in DOMAIN jobs' : wconn'[v] # jobs'[i]
      BY <2>3, <2>5, <2>8 DEF HttpInv, OnePlace
    <3>4. \A v \in Workers : lsock # NoConn => wconn'[v] # lsock
      BY <2>3, <2>5 DEF HttpInv, OnePlace
    <3>5. \A i \in DOMAIN jobs' : jobs'[i] # lsock
      BY <2>3 DEF HttpInv, OnePlace
    <3> QED BY <2>1, <3>1, <3>2, <3>3, <3>4, <3>5 DEF HttpInv, OnePlace
  <2>10. SomePlace'
    <3> SUFFICES ASSUME NEW d \in Conns
                 PROVE  \/ lsock = d
                        \/ \E i \in DOMAIN jobs' : jobs'[i] = d
                        \/ \E v \in Workers : wconn'[v] = d
                        <=> conn[d] = "accepted"
      BY <2>1 DEF SomePlace
    <3>1. conn[c] = "accepted"
      BY <2>3 DEF HttpInv, SomePlace
    <3>2. CASE d = c
      BY <2>5, <3>1, <3>2
    <3>3. CASE d # c
      <4>1. (\E i \in DOMAIN jobs' : jobs'[i] = d) <=> (\E i \in DOMAIN jobs : jobs[i] = d)
        BY <2>3, <3>3
      <4>2. (\E v \in Workers : wconn'[v] = d) <=> (\E v \in Workers : wconn[v] = d)
        BY <2>5, <2>6, <3>3
      <4> QED BY <4>1, <4>2 DEF HttpInv, SomePlace
    <3> QED BY <3>2, <3>3
  <2>11. Quiet' /\ AnswersMatch'
    BY <2>1 DEF HttpInv, Quiet, AnswersMatch
  <2>12. InStep'
    BY <2>1, <2>5, InStepFrame
  <2> QED BY <2>4, <2>7, <2>9, <2>10, <2>11, <2>12 DEF HttpInv
<1>3. CASE KeepAlive(w)
  <2>1. /\ UNCHANGED <<lpc, lsock, jobs, shutdown, wconn, wcount, wreq, wneed, wbuff>>
        /\ UNCHANGED <<conn, net, tosend, asked, eof, left, wrong>>
        /\ wpc[w] = "alive" /\ wcount[w] > 0
        /\ wpc' = [wpc EXCEPT ![w] = "line"]
    BY <1>3 DEF KeepAlive, Goto, listenVars, poolVars, connVars, clientVars
  <2>2. HttpTypeOK' /\ \A v \in Workers : wpc'[v] = IF v = w THEN "line" ELSE wpc[v]
    BY <2>1 DEF HttpInv, HttpTypeOK
  <2>3. ThreadsInOrder' /\ OnePlace' /\ SomePlace' /\ Quiet' /\ AnswersMatch'
    BY <2>1, <2>2 DEF HttpInv, ThreadsInOrder, OnePlace, SomePlace, Quiet, AnswersMatch, Idle
  <2>4. InStep'
    BY <2>1, <2>2, InStepFrame
  <2> QED BY <2>2, <2>3, <2>4 DEF HttpInv
<1> QED BY <1>1, <1>2, <1>3

---------------------------------------------------------------------------
(* A thread closes its connection: it is nowhere any more, and nothing of   *)
(* it is left behind in the thread.                                         *)
LEMMA CloseSocketInv ==
    ASSUME HttpInv, NEW w \in Workers, wpc[w] \notin Idle,
           CloseSocket(w), UNCHANGED <<listenVars, poolVars>>,
           left \subseteq left', left' \subseteq left \cup {wconn[w]}, wrong' \subseteq left'
    PROVE  HttpInv'
<1> USE HttpAssumption
<1> DEFINE c == wconn[w]
<1>0. c \in Conns
  BY BusyConn
<1>1. /\ UNCHANGED <<lpc, lsock, jobs, shutdown>>
      /\ wpc' = [wpc EXCEPT ![w] = "wait"] /\ wconn' = [wconn EXCEPT ![w] = NoConn]
      /\ wcount' = [wcount EXCEPT ![w] = 0] /\ wreq' = [wreq EXCEPT ![w] = None]
      /\ wneed' = [wneed EXCEPT ![w] = 0] /\ wbuff' = [wbuff EXCEPT ![w] = <<>>]
  BY DEF CloseSocket, Goto, listenVars, poolVars
<1>2. /\ conn' = [d \in Conns |-> IF d \in {c} THEN "closed" ELSE conn[d]]
      /\ net' = [d \in Conns |-> IF d \in {c} THEN <<>> ELSE net[d]]
      /\ tosend' = [d \in Conns |-> IF d \in {c} THEN 0 ELSE tosend[d]]
      /\ asked' = [d \in Conns |-> IF d \in {c} THEN None ELSE asked[d]]
      /\ eof' = [d \in Conns |-> IF d \in {c} THEN FALSE ELSE eof[d]]
  BY DEF CloseSocket, Over
<1>3. HttpTypeOK'
  <2>1. 0 \in 0 .. keep_alive_max_count /\ <<>> \in Seq(Tokens)
    OBVIOUS
  <2>2. /\ wpc' \in [Workers -> {"wait", "asleep", "alive", "line", "body", "reply", "exited"}]
        /\ wconn' \in [Workers -> Conns \cup {NoConn}]
        /\ wcount' \in [Workers -> 0 .. keep_alive_max_count]
        /\ wreq' \in [Workers -> Kinds \cup {None, NoRequest}]
        /\ wneed' \in [Workers -> Nat]
        /\ wbuff' \in [Workers -> Seq(Tokens)]
    BY <1>1, <2>1 DEF HttpInv, HttpTypeOK
  <2>3. /\ conn' \in [Conns -> {"none", "pending", "accepted", "closed"}]
        /\ net' \in [Conns -> Seq(Tokens)] /\ tosend' \in [Conns -> Nat]
        /\ asked' \in [Conns -> Kinds \cup {None}]
    BY <1>2, <2>1 DEF HttpInv, HttpTypeOK
  <2>4. eof' \in [Conns -> BOOLEAN]
    BY <1>2 DEF HttpInv, HttpTypeOK
  <2>5. left' \subseteq Conns /\ wrong' \subseteq Conns
    BY <1>0 DEF HttpInv, HttpTypeOK
  <2> QED BY <1>1, <2>2, <2>3, <2>4, <2>5 DEF HttpInv, HttpTypeOK
<1>4. /\ wpc'[w] = "wait" /\ wconn'[w] = NoConn /\ wbuff'[w] = <<>>
      /\ \A v \in Workers : v # w =>
            /\ wpc'[v] = wpc[v] /\ wconn'[v] = wconn[v] /\ wcount'[v] = wcount[v]
            /\ wreq'[v] = wreq[v] /\ wneed'[v] = wneed[v] /\ wbuff'[v] = wbuff[v]
  BY <1>1 DEF HttpInv, HttpTypeOK
<1>5. /\ conn'[c] = "closed" /\ net'[c] = <<>> /\ tosend'[c] = 0 /\ asked'[c] = None /\ ~eof'[c]
      /\ \A d \in Conns : d # c =>
            /\ conn'[d] = conn[d] /\ net'[d] = net[d] /\ tosend'[d] = tosend[d]
            /\ asked'[d] = asked[d] /\ (eof'[d] <=> eof[d])
  BY <1>0, <1>2
<1>6. \A v \in Workers : v # w => wconn[v] # c
  BY <1>0 DEF HttpInv, OnePlace
<1> HIDE DEF c
<1>7. ThreadsInOrder'
  BY <1>4 DEF HttpInv, ThreadsInOrder, Idle
<1>8. OnePlace'
  <2>1. \A u, v \in Workers : wconn'[u] = wconn'[v] /\ wconn'[u] # NoConn => u = v
    BY <1>4 DEF HttpInv, OnePlace
  <2>2. ASSUME NEW v \in Workers, NEW i \in DOMAIN jobs PROVE wconn'[v] # jobs[i]
    <3>1. jobs[i] # NoConn
      <4>1. jobs \in Seq(Conns)
        BY DEF HttpInv, HttpTypeOK
      <4> QED BY <4>1
    <3>2. wconn[v] # jobs[i]
      BY DEF HttpInv, OnePlace
    <3> QED BY <1>4, <3>1, <3>2
  <2>3. \A v \in Workers : lsock # NoConn => wconn'[v] # lsock
    BY <1>4 DEF HttpInv, OnePlace
  <2> QED BY <1>1, <2>1, <2>2, <2>3 DEF HttpInv, OnePlace
<1>9. SomePlace'
  <2> SUFFICES ASSUME NEW d \in Conns
               PROVE  conn'[d] = "accepted" <=> \/ lsock = d
                                                \/ \E i \in DOMAIN jobs : jobs[i] = d
                                                \/ \E v \in Workers : wconn'[v] = d
    BY <1>1 DEF SomePlace
  <2>1. CASE d = c
    <3>1. lsock # c /\ \A i \in DOMAIN jobs : jobs[i] # c
      BY <1>0 DEF c, HttpInv, OnePlace
    <3> QED BY <1>0, <1>4, <1>5, <1>6, <2>1, <3>1
  <2>2. CASE d # c
    <3>1. (\E v \in Workers : wconn'[v] = d) <=> (\E v \in Workers : wconn[v] = d)
      BY <1>4, <2>2 DEF c
    <3> QED BY <1>5, <2>2, <3>1 DEF HttpInv, SomePlace
  <2> QED BY <2>1, <2>2
<1>10. Quiet' /\ AnswersMatch'
  BY <1>5 DEF HttpInv, Quiet, AnswersMatch
<1>11. InStep'
  <2>1. ASSUME NEW d \in Conns \ left', ~eof'[d], ~InRequest(d)' PROVE Whole(d)'
    <3>1. CASE d = c
      BY <1>5, <3>1 DEF Whole
    <3>2. CASE d # c
      <4>1. ~eof[d] /\ ~InRequest(d)
        <5>1. ASSUME NEW v \in Workers, wconn[v] = d, wpc[v] \in {"body", "reply"} PROVE FALSE
          BY <1>4, <2>1, <3>2, <5>1 DEF InRequest, c
        <5> QED BY <1>5, <2>1, <3>2, <5>1 DEF InRequest
      <4>2. Whole(d)
        BY <2>1, <4>1 DEF HttpInv, InStep
      <4> QED BY <1>5, <3>2, <4>2 DEF Whole
    <3> QED BY <3>1, <3>2
  <2>2. ASSUME NEW v \in Workers, wpc'[v] \in {"body", "reply"}, wconn'[v] \notin left',
               ~eof'[wconn'[v]]
        PROVE  Inside(v)'
    <3>1. v # w
      BY <1>4, <2>2
    <3>2. wconn[v] \in Conns /\ wconn[v] # c /\ wconn'[v] = wconn[v]
      BY <1>4, <1>6, <2>2, <3>1, BusyConn DEF Idle
    <3>3. Inside(v)
      BY <1>4, <1>5, <2>2, <3>1, <3>2 DEF HttpInv, InStep
    <3>4. /\ wreq'[v] = wreq[v] /\ wneed'[v] = wneed[v] /\ wbuff'[v] = wbuff[v]
          /\ net'[wconn'[v]] = net[wconn[v]] /\ tosend'[wconn'[v]] = tosend[wconn[v]]
          /\ asked'[wconn'[v]] = asked[wconn[v]]
      BY <1>4, <1>5, <3>1, <3>2
    <3> QED BY <3>3, <3>4 DEF Inside, AllUnits
  <2> QED BY <2>1, <2>2 DEF InStep
<1> QED BY <1>3, <1>7, <1>8, <1>9, <1>10, <1>11 DEF HttpInv

(* One unit is read: from the buffer, or from what has arrived. *)
LEMMA TakeFirstFacts ==
    ASSUME HttpInv, NEW w \in Workers, wconn[w] \in Conns,
           NEW b \in Buffers(w), TakeFirst(w, b)
    PROVE  /\ b \in Seq(Tokens) /\ b # <<>> /\ Head(b) \in Tokens /\ Tail(b) \in Seq(Tokens)
           /\ wbuff' = [wbuff EXCEPT ![w] = Tail(b)]
           /\ net' \in [Conns -> Seq(Tokens)]
           /\ \A d \in Conns : d # wconn[w] => net'[d] = net[d]
           /\ Len(Tail(b)) + Len(net'[wconn[w]]) + 1 = Len(wbuff[w]) + Len(net[wconn[w]])
           /\ AllUnits(wbuff[w]) /\ AllUnits(net[wconn[w]])
                 => AllUnits(Tail(b)) /\ AllUnits(net'[wconn[w]])
           /\ wbuff[w] = <<>> =>
                 /\ Len(net[wconn[w]]) > 0 /\ Head(b) = net[wconn[w]][1]
                 /\ (\A i \in 2 .. Len(net[wconn[w]]) : net[wconn[w]][i] = Unit)
                       => AllUnits(Tail(b)) /\ AllUnits(net'[wconn[w]])
<1> USE HttpAssumption
<1> DEFINE c == wconn[w]  s == net[c]
<1>0. s \in Seq(Tokens) /\ wbuff[w] \in Seq(Tokens)
  BY DEF HttpInv, HttpTypeOK
<1>1. CASE wbuff[w] # <<>>
  <2>1. b = wbuff[w] /\ net' = net /\ wbuff' = [wbuff EXCEPT ![w] = Tail(b)]
    BY <1>1 DEF Buffers, TakeFirst
  <2>2. /\ Head(b) \in Tokens /\ Tail(b) \in Seq(Tokens)
        /\ Len(Tail(b)) = Len(b) - 1 /\ Len(b) \in Nat /\ Len(s) \in Nat
        /\ \A i \in 1 .. Len(Tail(b)) : Tail(b)[i] = b[i + 1] /\ i + 1 \in 1 .. Len(b)
    BY <1>0, <1>1, <2>1
  <2>3. AllUnits(wbuff[w]) => AllUnits(Tail(b))
    BY <2>1, <2>2 DEF AllUnits
  <2>4. Len(Tail(b)) + Len(s) + 1 = Len(b) + Len(s)
    <3> DEFINE l == Len(b)  m == Len(s)
    <3>1. l \in Nat /\ m \in Nat /\ Len(Tail(b)) = l - 1
      BY <2>2
    <3> HIDE DEF l, m
    <3>2. l - 1 + m + 1 = l + m
      BY <3>1
    <3> QED BY <3>1, <3>2 DEF l, m
  <2> QED BY <1>0, <1>1, <2>1, <2>2, <2>3, <2>4 DEF HttpInv, HttpTypeOK
<1>2. CASE wbuff[w] = <<>>
  <2>1. PICK n \in 1 .. Len(s) : b = SubSeq(s, 1, n)
    BY <1>2 DEF Buffers
  <2>2. Len(s) \in Nat /\ n \in Nat /\ 1 <= n /\ n <= Len(s)
    BY <1>0
  <2>3. /\ b \in Seq(Tokens) /\ Len(b) = n
        /\ \A i \in 1 .. n : b[i] = s[i]
    BY <1>0, <2>1, <2>2
  <2>4. b # <<>> /\ Head(b) = s[1] /\ s[1] \in Tokens /\ Tail(b) \in Seq(Tokens)
    BY <1>0, <2>2, <2>3
  <2>5. Len(Tail(b)) = n - 1 /\ \A i \in 1 .. n - 1 : Tail(b)[i] = s[i + 1]
    BY <2>2, <2>3, <2>4
  <2>6. net' = [net EXCEPT ![c] = SubSeq(s, n + 1, Len(s))]
    BY <1>2, <2>3 DEF TakeFirst
  <2> DEFINE r == SubSeq(s, n + 1, Len(s))
  <2>7. /\ r \in Seq(Tokens) /\ Len(r) = Len(s) - n
        /\ \A i \in 1 .. Len(s) - n : r[i] = s[n + i]
    BY <1>0, <2>2
  <2>8. net'[c] = r /\ net' \in [Conns -> Seq(Tokens)] /\ \A d \in Conns : d # c => net'[d] = net[d]
    BY <2>6, <2>7 DEF HttpInv, HttpTypeOK
  <2>9. Len(Tail(b)) + Len(net'[c]) + 1 = Len(wbuff[w]) + Len(s)
    <3> DEFINE m == Len(s)
    <3>1. m \in Nat /\ Len(Tail(b)) = n - 1 /\ Len(r) = m - n /\ Len(wbuff[w]) = 0
      BY <1>2, <2>2, <2>5, <2>7
    <3> HIDE DEF m, r
    <3>2. (n - 1) + (m - n) + 1 = 0 + m
      BY <2>2, <3>1
    <3> QED BY <2>8, <3>1, <3>2 DEF m
  <2>10. ASSUME \A i \in 2 .. Len(s) : s[i] = Unit
         PROVE  AllUnits(Tail(b)) /\ AllUnits(net'[c])
    <3>1. \A i \in 1 .. n - 1 : i + 1 \in 2 .. Len(s)
      BY <2>2
    <3>2. \A i \in 1 .. Len(s) - n : n + i \in 2 .. Len(s)
      BY <2>2
    <3>3. AllUnits(Tail(b))
      BY <2>5, <2>10, <3>1 DEF AllUnits
    <3>4. AllUnits(r)
      BY <2>7, <2>10, <3>2 DEF AllUnits
    <3> QED BY <2>8, <3>3, <3>4
  <2>11. AllUnits(s) => \A i \in 2 .. Len(s) : s[i] = Unit
    BY <2>2 DEF AllUnits
  <2>12. wbuff' = [wbuff EXCEPT ![w] = Tail(b)]
    BY DEF TakeFirst
  <2> HIDE DEF r
  <2> QED BY <1>2, <2>2, <2>3, <2>4, <2>8, <2>9, <2>10, <2>11, <2>12
<1> QED BY <1>1, <1>2

(* A thread reads or answers on its own connection: the other threads and   *)
(* connections keep step.                                                   *)
LEMMA OwnStep ==
    ASSUME HttpInv, NEW w \in Workers, wpc[w] \notin Idle,
           NEW c, c = wconn[w],
           wconn' = wconn, eof' = eof,
           left \subseteq left',
           \A v \in Workers : v # w =>
              /\ wpc'[v] = wpc[v] /\ wreq'[v] = wreq[v]
              /\ wneed'[v] = wneed[v] /\ wbuff'[v] = wbuff[v],
           \A d \in Conns : d # c =>
              net'[d] = net[d] /\ tosend'[d] = tosend[d] /\ asked'[d] = asked[d],
           c \notin left' /\ ~eof[c] =>
              IF wpc'[w] \in {"body", "reply"} THEN Inside(w)' ELSE Whole(c)'
    PROVE  InStep'
<1>0. c \in Conns
  BY BusyConn
<1>1. \A v \in Workers : v # w => wconn[v] # c
  BY <1>0, HttpAssumption DEF HttpInv, OnePlace
<1>2. ASSUME NEW d \in Conns \ left', ~eof[d], ~InRequest(d)' PROVE Whole(d)'
  <2>1. CASE d = c
    BY <1>2, <2>1 DEF InRequest
  <2>2. CASE d # c
    <3>1. ~InRequest(d)
      BY <1>2, <2>2 DEF InRequest
    <3>2. Whole(d)
      BY <1>2, <3>1 DEF HttpInv, InStep
    <3> QED BY <2>2, <3>2 DEF Whole
  <2> QED BY <2>1, <2>2
<1>3. ASSUME NEW v \in Workers, wpc'[v] \in {"body", "reply"}, wconn[v] \notin left',
             ~eof[wconn[v]]
      PROVE  Inside(v)'
  <2>1. CASE v = w
    BY <1>3, <2>1
  <2>2. CASE v # w
    <3>1. wconn[v] \in Conns /\ wconn[v] # c
      BY <1>1, <1>3, <2>2, BusyConn DEF Idle
    <3>2. Inside(v)
      BY <1>3, <2>2 DEF HttpInv, InStep
    <3>3. /\ wreq'[v] = wreq[v] /\ wneed'[v] = wneed[v] /\ wbuff'[v] = wbuff[v]
          /\ net'[wconn[v]] = net[wconn[v]] /\ tosend'[wconn[v]] = tosend[wconn[v]]
          /\ asked'[wconn[v]] = asked[wconn[v]]
      BY <2>2, <3>1
    <3>4. wconn'[v] = wconn[v]
      OBVIOUS
    <3> QED BY ZenonT(40), <3>2, <3>3, <3>4 DEF Inside, AllUnits
  <2> QED BY <2>1, <2>2
<1> QED BY <1>2, <1>3 DEF InStep

(* Where client and server are in step, the head a thread reads is the      *)
(* request the client asked.                                                *)
LEMMA ReadHeadInv ==
    ASSUME HttpInv, NEW w \in Workers, ReadHead(w)
    PROVE  HttpInv'
<1> USE HttpAssumption
<1> DEFINE c == wconn[w]
<1>1. /\ UNCHANGED <<lpc, lsock, jobs, shutdown, wconn, wcount>>
      /\ UNCHANGED <<conn, tosend, asked, eof, left, wrong>>
      /\ wpc[w] = "line"
  BY DEF ReadHead, listenVars, poolVars, clientVars
<1>2. c \in Conns /\ wpc[w] \notin Idle
  BY <1>1, BusyConn DEF Idle
<1>3. wbuff[w] = <<>>
  BY <1>1 DEF HttpInv, ThreadsInOrder
<1>4. PICK b \in Buffers(w) :
         /\ TakeFirst(w, b)
         /\ \/ /\ Head(b) = Unit
               /\ wreq' = [wreq EXCEPT ![w] = NoRequest]
               /\ Goto(w, "reply")
               /\ UNCHANGED wneed
            \/ /\ Head(b) # Unit
               /\ wreq' = [wreq EXCEPT ![w] = Head(b)]
               /\ wneed' = [wneed EXCEPT ![w] = BodyUnits[Head(b)]]
               /\ Goto(w, "body") \/ Goto(w, "reply")
  BY DEF ReadHead
<1>5. /\ b \in Seq(Tokens) /\ Head(b) \in Tokens /\ Tail(b) \in Seq(Tokens)
      /\ wbuff' = [wbuff EXCEPT ![w] = Tail(b)]
      /\ net' \in [Conns -> Seq(Tokens)]
      /\ \A d \in Conns : d # c => net'[d] = net[d]
      /\ Len(Tail(b)) + Len(net'[c]) + 1 = Len(wbuff[w]) + Len(net[c])
      /\ Len(net[c]) > 0 /\ Head(b) = net[c][1]
      /\ (\A i \in 2 .. Len(net[c]) : net[c][i] = Unit) => AllUnits(Tail(b)) /\ AllUnits(net'[c])
  BY <1>2, <1>3, <1>4, TakeFirstFacts
<1>6. \E s \in {"body", "reply"}, k \in Kinds \cup {NoRequest}, n \in Nat :
         /\ wpc' = [wpc EXCEPT ![w] = s]
         /\ wreq' = [wreq EXCEPT ![w] = k]
         /\ wneed' = [wneed EXCEPT ![w] = n]
         /\ Head(b) # Unit => k = Head(b) /\ n = BodyUnits[k]
  <2>1. CASE Head(b) = Unit
    <3>1. wneed' = [wneed EXCEPT ![w] = wneed[w]] /\ wneed[w] \in Nat
      BY <1>4, <2>1 DEF HttpInv, HttpTypeOK
    <3> QED BY <1>4, <2>1, <3>1 DEF Goto
  <2>2. CASE Head(b) # Unit
    <3>1. Head(b) \in Kinds /\ BodyUnits[Head(b)] \in Nat
      BY <1>5, <2>2 DEF Tokens
    <3> QED BY <1>4, <2>2, <3>1 DEF Goto
  <2> QED BY <2>1, <2>2
<1>7. PICK s \in {"body", "reply"}, k \in Kinds \cup {NoRequest}, n \in Nat :
         /\ wpc' = [wpc EXCEPT ![w] = s]
         /\ wreq' = [wreq EXCEPT ![w] = k]
         /\ wneed' = [wneed EXCEPT ![w] = n]
         /\ Head(b) # Unit => k = Head(b) /\ n = BodyUnits[k]
  BY <1>6
<1>8. /\ wpc'[w] = s /\ wreq'[w] = k /\ wneed'[w] = n /\ wbuff'[w] = Tail(b)
      /\ \A v \in Workers : v # w =>
            /\ wpc'[v] = wpc[v] /\ wreq'[v] = wreq[v]
            /\ wneed'[v] = wneed[v] /\ wbuff'[v] = wbuff[v]
  BY <1>5, <1>7 DEF HttpInv, HttpTypeOK
<1>9. HttpTypeOK'
  <2>1. /\ wpc' \in [Workers -> {"wait", "asleep", "alive", "line", "body", "reply", "exited"}]
        /\ wreq' \in [Workers -> Kinds \cup {None, NoRequest}]
        /\ wneed' \in [Workers -> Nat]
        /\ wbuff' \in [Workers -> Seq(Tokens)]
    BY <1>5, <1>7 DEF HttpInv, HttpTypeOK
  <2> QED BY <1>1, <1>5, <2>1 DEF HttpInv, HttpTypeOK
<1>10. ThreadsInOrder'
  BY <1>1, <1>2, <1>8 DEF HttpInv, ThreadsInOrder, Idle
<1>11. OnePlace' /\ SomePlace' /\ AnswersMatch'
  BY <1>1 DEF HttpInv, OnePlace, SomePlace, AnswersMatch
<1>12. Quiet'
  <2>1. conn[c] = "accepted"
    BY <1>2 DEF HttpInv, SomePlace
  <2> QED BY <1>1, <1>5, <2>1 DEF HttpInv, Quiet
<1>13. ASSUME c \notin left, ~eof[c] PROVE Inside(w)'
  <2>1. ~InRequest(c)
    BY <1>1, <1>2 DEF HttpInv, OnePlace, InRequest
  <2>2. /\ asked[c] \in Kinds /\ net[c][1] = asked[c]
        /\ \A i \in 2 .. Len(net[c]) : net[c][i] = Unit
        /\ Len(net[c]) + tosend[c] = BodyUnits[asked[c]] + 1
    <3>1. Whole(c)
      BY <1>2, <1>13, <2>1 DEF HttpInv, InStep
    <3>2. net[c] # <<>>
      BY <1>5
    <3> QED BY <3>1, <3>2 DEF Whole
  <2>3. k = asked[c] /\ n = BodyUnits[asked[c]]
    BY <1>5, <1>7, <2>2 DEF Unit
  <2>4. AllUnits(Tail(b)) /\ AllUnits(net'[c])
    BY <1>5, <2>2
  <2>5. Len(Tail(b)) + Len(net'[c]) + tosend[c] = n
    <3> DEFINE l == Len(Tail(b))  m == Len(net'[c])  o == Len(net[c])
    <3>1. l \in Nat /\ m \in Nat /\ o \in Nat /\ tosend[c] \in Nat /\ n \in Nat
      <4>1. net[c] \in Seq(Tokens) /\ tosend[c] \in Nat
        BY <1>2 DEF HttpInv, HttpTypeOK
      <4>2. net'[c] \in Seq(Tokens) /\ Tail(b) \in Seq(Tokens)
        BY <1>2, <1>5
      <4>3. l \in Nat /\ m \in Nat /\ o \in Nat
        BY <4>1, <4>2
      <4> QED BY <4>1, <4>3
    <3>2. l + m + 1 = 0 + o /\ o + tosend[c] = n + 1
      BY <1>3, <1>5, <2>2, <2>3
    <3> HIDE DEF l, m, o
    <3>3. l + m + tosend[c] = n
      BY <3>1, <3>2
    <3> QED BY <3>3 DEF l, m
  <2> QED BY <1>1, <1>8, <2>3, <2>4, <2>5 DEF Inside, AllUnits
<1>14. InStep'
  <2>1. wconn' = wconn /\ eof' = eof /\ left \subseteq left'
    BY <1>1
  <2>2. \A d \in Conns : d # c =>
           net'[d] = net[d] /\ tosend'[d] = tosend[d] /\ asked'[d] = asked[d]
    BY <1>1, <1>5
  <2>3. c \notin left' /\ ~eof[c] =>
           IF wpc'[w] \in {"body", "reply"} THEN Inside(w)' ELSE Whole(c)'
    BY <1>1, <1>8, <1>13
  <2> QED BY <1>2, <1>8, <2>1, <2>2, <2>3, OwnStep
<1> QED BY <1>9, <1>10, <1>11, <1>12, <1>14 DEF HttpInv

(* A unit of the body that is read is one less to read. *)
LEMMA ReadBodyInv ==
    ASSUME HttpInv, NEW w \in Workers, ReadBody(w)
    PROVE  HttpInv'
<1> USE HttpAssumption
<1> DEFINE c == wconn[w]
<1>1. /\ UNCHANGED <<lpc, lsock, jobs, shutdown, wconn, wcount, wreq>>
      /\ UNCHANGED <<conn, tosend, asked, eof, left, wrong>>
      /\ wpc[w] = "body"
  BY DEF ReadBody, listenVars, poolVars, clientVars
<1>2. c \in Conns /\ wpc[w] \notin Idle
  BY <1>1, BusyConn DEF Idle
<1>3. OnePlace' /\ SomePlace' /\ AnswersMatch'
  BY <1>1 DEF HttpInv, OnePlace, SomePlace, AnswersMatch
<1>4. conn[c] = "accepted"
  BY <1>2 DEF HttpInv, SomePlace
<1>5. c \notin left /\ ~eof[c] => Inside(w)
  BY <1>1 DEF HttpInv, InStep
<1>6. ASSUME NEW b \in Buffers(w), TakeFirst(w, b),
             wneed[w] > 0, wneed' = [wneed EXCEPT ![w] = @ - 1],
             UNCHANGED wpc \/ Goto(w, "reply")
      PROVE  HttpInv'
  <2>0. /\ wpc' \in [Workers -> {"wait", "asleep", "alive", "line", "body", "reply", "exited"}]
        /\ wpc'[w] \in {"body", "reply"} /\ \A v \in Workers : v # w => wpc'[v] = wpc[v]
    BY <1>1, <1>6 DEF Goto, HttpInv, HttpTypeOK
  <2>1. /\ Tail(b) \in Seq(Tokens)
        /\ wbuff' = [wbuff EXCEPT ![w] = Tail(b)]
        /\ net' \in [Conns -> Seq(Tokens)]
        /\ \A d \in Conns : d # c => net'[d] = net[d]
        /\ Len(Tail(b)) + Len(net'[c]) + 1 = Len(wbuff[w]) + Len(net[c])
        /\ AllUnits(wbuff[w]) /\ AllUnits(net[c]) => AllUnits(Tail(b)) /\ AllUnits(net'[c])
    BY <1>2, <1>6, TakeFirstFacts
  <2>2. wneed[w] \in Nat /\ wneed[w] - 1 \in Nat
    BY <1>6 DEF HttpInv, HttpTypeOK
  <2>3. HttpTypeOK'
    BY <1>1, <1>6, <2>0, <2>1, <2>2 DEF HttpInv, HttpTypeOK
  <2>4. /\ wneed'[w] = wneed[w] - 1 /\ wbuff'[w] = Tail(b)
        /\ \A v \in Workers : v # w => wneed'[v] = wneed[v] /\ wbuff'[v] = wbuff[v]
    BY <1>6, <2>1 DEF HttpInv, HttpTypeOK
  <2>5. ThreadsInOrder'
    BY <1>1, <2>0, <2>4 DEF HttpInv, ThreadsInOrder, Idle
  <2>6. Quiet'
    BY <1>1, <1>4, <2>1 DEF HttpInv, Quiet
  <2>7. ASSUME c \notin left, ~eof[c] PROVE Inside(w)'
    <3>1. Len(Tail(b)) + Len(net'[c]) + tosend[c] = wneed[w] - 1
      <4> DEFINE l == Len(Tail(b))  m == Len(net'[c])  x == Len(wbuff[w])  o == Len(net[c])
      <4>1. l \in Nat /\ m \in Nat /\ x \in Nat /\ o \in Nat /\ tosend[c] \in Nat
        <5>1. net[c] \in Seq(Tokens) /\ wbuff[w] \in Seq(Tokens) /\ tosend[c] \in Nat
          BY <1>2 DEF HttpInv, HttpTypeOK
        <5>2. net'[c] \in Seq(Tokens) /\ Tail(b) \in Seq(Tokens)
          BY <1>2, <2>1
        <5>3. l \in Nat /\ m \in Nat /\ x \in Nat /\ o \in Nat
          BY <5>1, <5>2
        <5> QED BY <5>1, <5>3
      <4>2. l + m + 1 = x + o /\ x + o + tosend[c] = wneed[w]
        BY <1>5, <2>1, <2>7 DEF Inside
      <4> HIDE DEF l, m, o, x
      <4>3. l + m + tosend[c] = wneed[w] - 1
        BY <2>2, <4>1, <4>2
      <4> QED BY <4>3 DEF l, m
    <3>2. AllUnits(Tail(b)) /\ AllUnits(net'[c])
      BY <1>5, <2>1, <2>7 DEF Inside
    <3> QED BY <1>1, <1>5, <2>4, <2>7, <3>1, <3>2 DEF Inside, AllUnits
  <2>8. InStep'
    BY SMTT(30), <1>1, <1>2, <2>0, <2>1, <2>4, <2>7, OwnStep
  <2> QED BY <1>3, <2>3, <2>5, <2>6, <2>8 DEF HttpInv
<1>7. ASSUME Goto(w, "reply"), UNCHANGED <<wneed, wbuff, net>> PROVE HttpInv'
  <2>1. HttpTypeOK' /\ \A v \in Workers : wpc'[v] = IF v = w THEN "reply" ELSE wpc[v]
    BY <1>1, <1>7 DEF Goto, HttpInv, HttpTypeOK
  <2>2. ThreadsInOrder' /\ Quiet'
    BY <1>1, <1>7, <2>1 DEF HttpInv, ThreadsInOrder, Idle, Quiet
  <2>3. InStep'
    BY <1>1, <1>7, <2>1, InStepFrame
  <2> QED BY <1>3, <2>1, <2>2, <2>3 DEF HttpInv
<1> QED BY <1>6, <1>7 DEF ReadBody, ReadPiece

(* The answer is wrong only where a part of a body was left behind before,  *)
(* and the next request starts in step unless this one left a part behind.  *)
LEMMA ReplyInv ==
    ASSUME HttpInv, NEW w \in Workers, Reply(w)
    PROVE  HttpInv'
<1> USE HttpAssumption
<1> DEFINE c == wconn[w]
<1>1. /\ UNCHANGED <<listenVars, poolVars>> /\ wpc[w] = "reply" /\ Answered(w)
      /\ CloseSocket(w) \/ NextRequest(w)
  BY DEF Reply
<1>2. c \in Conns /\ wpc[w] \notin Idle
  BY <1>1, BusyConn DEF Idle
<1>3. left \subseteq left' /\ left' \subseteq left \cup {c}
  BY <1>1 DEF Answered
<1>4. c \notin left /\ ~eof[c] => Inside(w)
  BY <1>1 DEF HttpInv, InStep
<1>5. wrong' \subseteq left'
  <2>1. c \notin left /\ ~eof[c] => wreq[w] = asked[c]
    BY <1>4 DEF Inside
  <2>2. wrong \subseteq left
    BY DEF HttpInv, AnswersMatch
  <2>3. wrong' \subseteq wrong \cup left
    BY <1>1, <2>1 DEF Answered
  <2> QED BY <1>3, <2>2, <2>3
<1>6. CASE CloseSocket(w)
  BY <1>1, <1>2, <1>3, <1>5, <1>6, CloseSocketInv
<1>7. CASE NextRequest(w)
  <2>1. /\ UNCHANGED <<lpc, lsock, jobs, shutdown>>
        /\ UNCHANGED <<wconn, conn, net, tosend, eof>>
        /\ wpc' = [wpc EXCEPT ![w] = "alive"]
        /\ wcount' = [wcount EXCEPT ![w] = @ - 1] /\ wreq' = [wreq EXCEPT ![w] = None]
        /\ wneed' = [wneed EXCEPT ![w] = 0] /\ wbuff' = [wbuff EXCEPT ![w] = <<>>]
        /\ asked' = [asked EXCEPT ![c] = None]
    BY <1>1, <1>7 DEF NextRequest, Goto, listenVars, poolVars
  <2>2. wcount[w] \in 1 .. keep_alive_max_count
    BY <1>1 DEF HttpInv, HttpTypeOK, ThreadsInOrder
  <2>3. HttpTypeOK'
    <3>1. wcount[w] - 1 \in 0 .. keep_alive_max_count /\ <<>> \in Seq(Tokens)
      BY <2>2
    <3>2. /\ wpc' \in [Workers -> {"wait", "asleep", "alive", "line", "body", "reply", "exited"}]
          /\ wcount' \in [Workers -> 0 .. keep_alive_max_count]
          /\ wreq' \in [Workers -> Kinds \cup {None, NoRequest}]
          /\ wneed' \in [Workers -> Nat] /\ wbuff' \in [Workers -> Seq(Tokens)]
          /\ asked' \in [Conns -> Kinds \cup {None}]
      BY <2>1, <3>1 DEF HttpInv, HttpTypeOK
    <3>3. left' \subseteq Conns /\ wrong' \subseteq Conns
      BY <1>2, <1>3, <1>5 DEF HttpInv, HttpTypeOK
    <3> QED BY <2>1, <3>2, <3>3 DEF HttpInv, HttpTypeOK
  <2>4. /\ wpc'[w] = "alive" /\ wbuff'[w] = <<>> /\ asked'[c] = None
        /\ \A v \in Workers : v # w =>
              /\ wpc'[v] = wpc[v] /\ wcount'[v] = wcount[v] /\ wreq'[v] = wreq[v]
              /\ wneed'[v] = wneed[v] /\ wbuff'[v] = wbuff[v]
        /\ \A d \in Conns : d # c => asked'[d] = asked[d]
    BY <1>2, <2>1 DEF HttpInv, HttpTypeOK
  <2>5. ThreadsInOrder'
    BY <1>2, <2>1, <2>4 DEF HttpInv, ThreadsInOrder, Idle
  <2>6. OnePlace' /\ SomePlace'
    BY <2>1 DEF HttpInv, OnePlace, SomePlace
  <2>7. Quiet'
    BY <2>1, <2>4 DEF HttpInv, Quiet
  <2>8. ASSUME c \notin left', ~eof[c] PROVE Whole(c)'
    <3>1. Inside(w)
      BY <1>3, <1>4, <2>8
    <3> DEFINE x == Len(wbuff[w])  m == Len(net[c])  t == tosend[c]
    <3>2. x \in Nat /\ m \in Nat /\ t \in Nat /\ x + m + t = wneed[w] /\ net[c] \in Seq(Tokens)
      BY <1>2, <3>1 DEF Inside, HttpInv, HttpTypeOK
    <3>3. ~(wneed[w] > x)
      BY <1>1, <2>8 DEF Answered
    <3> HIDE DEF x, m, t
    <3>4. m = 0 /\ t = 0
      BY <3>2, <3>3
    <3>5. net[c] = <<>> /\ tosend[c] = 0
      BY <3>2, <3>4 DEF m, t
    <3> QED BY <2>1, <2>4, <3>5 DEF Whole
  <2>9. InStep'
    <3>1. wconn' = wconn /\ eof' = eof /\ left \subseteq left'
      BY <1>3, <2>1
    <3>2. \A d \in Conns : d # c =>
             net'[d] = net[d] /\ tosend'[d] = tosend[d] /\ asked'[d] = asked[d]
      BY <2>1, <2>4
    <3>3. c \notin left' /\ ~eof[c] =>
             IF wpc'[w] \in {"body", "reply"} THEN Inside(w)' ELSE Whole(c)'
      BY <2>4, <2>8
    <3> QED BY <1>2, <2>4, <3>1, <3>2, <3>3, OwnStep
  <2> QED BY <1>5, <2>3, <2>5, <2>6, <2>7, <2>9 DEF HttpInv, AnswersMatch
<1> QED BY <1>1, <1>6, <1>7

(* Every step keeps the invariant. *)
LEMMA HttpStepInv == HttpInv /\ [HttpNext]_httpVars => HttpInv'
<1> SUFFICES ASSUME HttpInv, [HttpNext]_httpVars PROVE HttpInv'
  OBVIOUS
<1>1. ASSUME NEW c \in Conns, Client(c) PROVE HttpInv'
  BY <1>1, ClientInv
<1>2. CASE Listener
  BY <1>2, ListenerInv
<1>3. ASSUME NEW w \in Workers, Worker(w) \/ WakeUp(w) PROVE HttpInv'
  <2>1. CASE Sleep(w) \/ WakeUp(w) \/ Exit(w) \/ TakeJob(w) \/ KeepAlive(w)
    BY <2>1, PoolInv
  <2>2. CASE KeepAliveEnds(w) \/ NoLine(w) \/ ReplyFails(w)
    <3>1. /\ wpc[w] \in {"alive", "line", "reply"} /\ CloseSocket(w)
          /\ UNCHANGED <<listenVars, poolVars, left, wrong>>
      BY <2>2 DEF KeepAliveEnds, NoLine, ReplyFails
    <3>2. wpc[w] \notin Idle /\ wrong \subseteq left
      BY <3>1 DEF Idle, HttpInv, AnswersMatch
    <3> QED BY <3>1, <3>2, CloseSocketInv
  <2>3. CASE ReadHead(w)
    BY <2>3, ReadHeadInv
  <2>4. CASE ReadBody(w)
    BY <2>4, ReadBodyInv
  <2>5. CASE Reply(w)
    BY <2>5, ReplyInv
  <2> QED BY <1>3, <2>1, <2>2, <2>3, <2>4, <2>5 DEF Worker
<1>4. CASE UNCHANGED httpVars
  <2>1. /\ UNCHANGED <<lpc, lsock, jobs, shutdown, wpc, wconn, wcount, wreq, wneed, wbuff>>
        /\ UNCHANGED <<conn, net, tosend, asked, eof, left, wrong>>
    BY <1>4 DEF httpVars, listenVars, poolVars, workerVars, clientVars, connVars
  <2>2. HttpTypeOK' /\ ThreadsInOrder' /\ OnePlace' /\ SomePlace' /\ Quiet' /\ AnswersMatch'
    BY <2>1 DEF HttpInv, HttpTypeOK, ThreadsInOrder, OnePlace, SomePlace, Quiet, AnswersMatch
  <2>3. InStep'
    BY <2>1, InStepFrame
  <2> QED BY <2>2, <2>3 DEF HttpInv
<1> QED BY <1>1, <1>2, <1>3, <1>4 DEF HttpNext

(* The inductive invariant holds always. *)
THEOREM HttpInvariant == HttpSpec => []HttpInv
<1>1. HttpInit => HttpInv
  BY HttpInitInv
<1>2. HttpInv /\ [HttpNext]_httpVars => HttpInv'
  BY HttpStepInv
<1> QED BY <1>1, <1>2, PTL DEF HttpSpec

(* The variables of the server keep their types: no thread serves more      *)
(* requests on a connection than it may.                                    *)
THEOREM HttpTypeCorrect == HttpSpec => []HttpTypeOK
<1>1. HttpInv => HttpTypeOK
  BY DEF HttpInv
<1> QED BY <1>1, HttpInvariant, PTL

(* The answer a client gets answers its request, unless an earlier body on  *)
(* the connection was not read to its end.                                  *)
THEOREM HttpAnswersMatch == HttpSpec => []AnswersMatch
<1>1. HttpInv => AnswersMatch
  BY DEF HttpInv
<1> QED BY <1>1, HttpInvariant, PTL

---------------------------------------------------------------------------
(* What the places mean for the counts of ServedOnce. *)
LEMMA OnePlaceCounts == HttpInv => ServedOnce
<1> SUFFICES ASSUME HttpInv, NEW c \in Conns
             PROVE  Cardinality(Serving(c)) + Cardinality(Queued(c)) + (IF lsock = c THEN 1 ELSE 0)
                       = (IF conn[c] = "accepted" THEN 1 ELSE 0)
  BY DEF ServedOnce
<1> USE HttpAssumption
<1>1. Cardinality({}) = 0
  BY FS_EmptySet
<1>2. CASE \E w \in Workers : wconn[w] = c
  <2>1. PICK w \in Workers : wconn[w] = c
    BY <1>2
  <2>2. Serving(c) = {w} /\ Cardinality({w}) = 1
    BY <2>1, FS_Singleton DEF Serving, HttpInv, OnePlace
  <2>3. Queued(c) = {} /\ lsock # c
    BY <2>1 DEF Queued, HttpInv, OnePlace
  <2>4. conn[c] = "accepted"
    BY <2>1 DEF HttpInv, SomePlace
  <2> QED BY <1>1, <2>2, <2>3, <2>4
<1>3. CASE (\A w \in Workers : wconn[w] # c) /\ \E i \in DOMAIN jobs : jobs[i] = c
  <2>1. PICK i \in DOMAIN jobs : jobs[i] = c
    BY <1>3
  <2>2. Queued(c) = {i} /\ Cardinality({i}) = 1
    <3>1. \A k \in DOMAIN jobs : jobs[k] = c <=> k = i
      BY <2>1 DEF HttpInv, OnePlace
    <3>2. Queued(c) = {i}
      BY <3>1 DEF Queued
    <3> QED BY <3>2, FS_Singleton
  <2>3. Serving(c) = {} /\ lsock # c
    BY <1>3, <2>1 DEF Serving, HttpInv, OnePlace
  <2>4. conn[c] = "accepted"
    BY <2>1 DEF HttpInv, SomePlace
  <2> QED BY <1>1, <2>2, <2>3, <2>4
<1>4. CASE (\A w \in Workers : wconn[w] # c) /\ \A i \in DOMAIN jobs : jobs[i] # c
  <2>1. Queued(c) = {} /\ Serving(c) = {}
    BY <1>4 DEF Queued, Serving
  <2>2. conn[c] = "accepted" <=> lsock = c
    BY <1>4 DEF HttpInv, SomePlace
  <2> QED BY <1>1, <2>1, <2>2
<1> QED BY <1>2, <1>3, <1>4

(* The pool neither loses a connection nor serves it twice. *)
THEOREM HttpServedOnce == HttpSpec => []ServedOnce
BY HttpInvariant, OnePlaceCounts, PTL

---------------------------------------------------------------------------
(* Threads at the queue, threads asleep, and a wake-up that is on its way.  *)
Waiting == {w \in Workers : wpc[w] = "wait"}
Asleep  == {w \in Workers : wpc[w] = "asleep"}
Notice  == IF lpc = "notify" THEN 1 ELSE 0

(* The threads at the queue can be counted. *)
LEMMA WaitingFinite ==
    /\ IsFiniteSet(Waiting) /\ Cardinality(Waiting) \in Nat
    /\ IsFiniteSet(Waiting') /\ Cardinality(Waiting') \in Nat
<1>1. Waiting \subseteq Workers /\ Waiting' \subseteq Workers
  BY DEF Waiting
<1>2. IsFiniteSet(Waiting) /\ IsFiniteSet(Waiting')
  BY <1>1, HttpAssumption, FS_Subset
<1> QED BY <1>2, FS_CardinalityType

(* The count of waiting threads when threads only come to the queue. *)
LEMMA MoreWaiting ==
    ASSUME Waiting \subseteq Waiting'
    PROVE  Cardinality(Waiting) <= Cardinality(Waiting')
BY WaitingFinite, FS_Subset

(* There are no jobs at first. *)
LEMMA JobsInit == HttpInit => JobsHaveThreads
BY DEF HttpInit, JobsHaveThreads

(* A step keeps a thread for each job: it brings threads to the queue, or   *)
(* takes a thread and a job from it, or adds a job and promises a wake-up.  *)
LEMMA JobsStep ==
    ASSUME HttpInv, JobsHaveThreads, [HttpNext]_httpVars
    PROVE  JobsHaveThreads'
<1> USE HttpAssumption
<1>0. /\ JobsHaveThreads <=> (Asleep # {} => Len(jobs) <= Cardinality(Waiting) + Notice)
      /\ JobsHaveThreads' <=> (Asleep' # {} => Len(jobs') <= Cardinality(Waiting') + Notice')
  BY DEF JobsHaveThreads, Asleep, Waiting, Notice
<1>1. jobs \in Seq(Conns) /\ Len(jobs) \in Nat
  BY DEF HttpInv, HttpTypeOK
<1>2. Notice \in {0, 1} /\ Notice' \in {0, 1}
  BY DEF Notice
(* no job is added, no thread leaves the queue, none falls asleep *)
<1>3. ASSUME UNCHANGED jobs, Notice' = Notice, Waiting \subseteq Waiting', Asleep' \subseteq Asleep
      PROVE  JobsHaveThreads'
  BY <1>0, <1>1, <1>2, <1>3, MoreWaiting, WaitingFinite
<1>4. ASSUME NEW c \in Conns, Client(c) PROVE JobsHaveThreads'
  BY <1>4 DEF Client, Connect, Ask, Send, Hangup, listenVars, poolVars, workerVars, JobsHaveThreads
<1>5. CASE Accept \/ AcceptFails \/ Shutdown \/ Join
  BY <1>5 DEF Accept, AcceptFails, Shutdown, Join, poolVars, workerVars, JobsHaveThreads
<1>6. CASE Enqueue
  <2>1. /\ lpc = "push" /\ lpc' = "notify" /\ UNCHANGED wpc
        /\ Len(jobs') = Len(jobs) + 1
    BY <1>1, <1>6 DEF Enqueue, workerVars, HttpInv, HttpTypeOK
  <2>2. Waiting' = Waiting /\ Asleep' = Asleep /\ Notice = 0 /\ Notice' = 1
    BY <2>1 DEF Waiting, Asleep, Notice
  <2> QED BY <1>0, <1>1, <2>1, <2>2, WaitingFinite
<1>7. CASE NotifyOne
  <2>1. UNCHANGED jobs /\ Notice = 1 /\ Notice' = 0
    BY <1>7 DEF NotifyOne, poolVars, Notice
  <2>2. CASE \E w \in Workers : wpc[w] = "asleep" /\ wpc' = [wpc EXCEPT ![w] = "wait"]
    <3>1. PICK w \in Workers : wpc[w] = "asleep" /\ wpc' = [wpc EXCEPT ![w] = "wait"]
      BY <2>2
    <3>2. Waiting' = Waiting \cup {w} /\ w \notin Waiting
      BY <3>1 DEF Waiting, HttpInv, HttpTypeOK
    <3>3. Cardinality(Waiting') = Cardinality(Waiting) + 1
      BY <3>2, WaitingFinite, FS_AddElement
    <3>4. Asleep # {}
      BY <3>1 DEF Asleep
    <3> QED BY <1>0, <1>1, <2>1, <3>3, <3>4, WaitingFinite
  <2>3. CASE (\A w \in Workers : wpc[w] # "asleep") /\ UNCHANGED wpc
    BY <2>3 DEF JobsHaveThreads
  <2> QED BY <1>7, <2>2, <2>3 DEF NotifyOne
<1>8. CASE NotifyAll
  BY <1>8 DEF NotifyAll, JobsHaveThreads
<1>9. ASSUME NEW w \in Workers, Worker(w) \/ WakeUp(w) PROVE JobsHaveThreads'
  <2>1. CASE Sleep(w)
    <3>1. Len(jobs') = 0
      BY <2>1 DEF Sleep, poolVars
    <3> QED BY <1>0, <1>2, <3>1, WaitingFinite
  <2>2. CASE Exit(w)
    <3>1. Len(jobs') = 0
      BY <2>2 DEF Exit, poolVars
    <3> QED BY <1>0, <1>2, <3>1, WaitingFinite
  <2>3. CASE TakeJob(w)
    <3>1. /\ wpc[w] = "wait" /\ wpc' = [wpc EXCEPT ![w] = "alive"]
          /\ UNCHANGED lpc /\ Len(jobs') = Len(jobs) - 1
      BY <1>1, <2>3 DEF TakeJob, Goto, listenVars
    <3>2. /\ Waiting' = Waiting \ {w} /\ w \in Waiting /\ Asleep' = Asleep /\ Notice' = Notice
      BY <3>1 DEF Waiting, Asleep, Notice, HttpInv, HttpTypeOK
    <3>3. Cardinality(Waiting') = Cardinality(Waiting) - 1
      BY <3>2, WaitingFinite, FS_RemoveElement
    <3> QED BY <1>0, <1>1, <1>2, <3>1, <3>2, <3>3, WaitingFinite
  <2>4. CASE WakeUp(w)
    <3>1. /\ UNCHANGED jobs /\ Notice' = Notice
          /\ Waiting \subseteq Waiting' /\ Asleep' \subseteq Asleep
      BY <2>4 DEF WakeUp, Goto, listenVars, poolVars, Waiting, Asleep, Notice, HttpInv, HttpTypeOK
    <3> QED BY <1>3, <3>1
  <2>5. ASSUME wpc[w] \in {"alive", "line", "body", "reply"}, UNCHANGED <<listenVars, poolVars>>,
               \E s \in {"alive", "line", "body", "reply", "wait"} : wpc' = [wpc EXCEPT ![w] = s]
        PROVE  JobsHaveThreads'
    <3>1. /\ UNCHANGED jobs /\ Notice' = Notice
          /\ Waiting \subseteq Waiting' /\ Asleep' \subseteq Asleep
      BY <2>5 DEF listenVars, poolVars, Waiting, Asleep, Notice, HttpInv, HttpTypeOK
    <3> QED BY <1>3, <3>1
  <2>6. CASE KeepAlive(w)
    BY <2>5, <2>6 DEF KeepAlive, Goto
  <2>7. CASE KeepAliveEnds(w) \/ NoLine(w) \/ ReplyFails(w)
    BY <2>5, <2>7 DEF KeepAliveEnds, NoLine, ReplyFails, CloseSocket, Goto
  <2>8. CASE ReadHead(w)
    BY <2>5, <2>8 DEF ReadHead, Goto
  <2>9. CASE ReadBody(w)
    <3>1. wpc[w] = "body" /\ UNCHANGED <<listenVars, poolVars>>
      BY <2>9 DEF ReadBody
    <3>2. \/ wpc' = [wpc EXCEPT ![w] = "body"]
          \/ wpc' = [wpc EXCEPT ![w] = "reply"]
      BY <2>9, <3>1 DEF ReadBody, ReadPiece, Goto, HttpInv, HttpTypeOK
    <3> QED BY <2>5, <3>1, <3>2
  <2>10. CASE Reply(w)
    BY <2>5, <2>10 DEF Reply, CloseSocket, NextRequest, Goto
  <2> QED BY <1>9, <2>1, <2>2, <2>3, <2>4, <2>6, <2>7, <2>8, <2>9, <2>10 DEF Worker
<1>10. CASE UNCHANGED httpVars
  BY <1>10 DEF httpVars, listenVars, poolVars, workerVars, JobsHaveThreads
<1> QED BY <1>4, <1>5, <1>6, <1>7, <1>8, <1>9, <1>10 DEF HttpNext, Listener

(* No wake-up is lost, for any number of threads and jobs. *)
THEOREM HttpJobsHaveThreads == HttpSpec => []JobsHaveThreads
<1>1. HttpInv /\ JobsHaveThreads /\ [HttpNext]_httpVars => JobsHaveThreads'
  BY JobsStep
<1> QED BY <1>1, JobsInit, HttpInvariant, PTL DEF HttpSpec
===========================================================================
