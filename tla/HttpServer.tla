----------------------------- MODULE HttpServer -----------------------------
(***************************************************************************)
(* The HTTP server FRS runs on (httplib.h): a thread that accepts           *)
(* connections, a pool of threads with a queue of jobs, and what a thread   *)
(* does with a connection: it reads requests, calls the handler, answers,   *)
(* and waits for the next one, up to keep_alive_max_count requests.         *)
(*                                                                         *)
(* A request is a head and a body of some units.  A unit that is read where *)
(* a head is expected is a line that is no request.  Clients do not send a  *)
(* request before the last one was answered.  Server::stop is called by     *)
(* nothing, so svr_sock_ is never INVALID_SOCKET; an error of accept closes *)
(* the socket and ends the loop.                                            *)
(***************************************************************************)
EXTENDS Naturals, Sequences, FiniteSets

CONSTANTS
    Workers,               \* threads_ of the pool
    Conns,                 \* connections
    NoConn,
    Kinds,                 \* requests clients send
    BodyUnits,             \* BodyUnits[k]: the length of the body of k
    Expecting,             \* requests whose body is read, by their method
    Uploads,               \* of these, those whose handler reads it, or refuses to
    Refused,               \* requests answered before their method matters
    Closing,               \* requests with Connection: close
    Streamed,              \* downloads, which the provider may cancel
    None,                  \* no request, no answer
    NoRequest,             \* the answer to a line that is no request
    keep_alive_max_count,
    read_buff_size         \* units SocketStream reads at most at once

ASSUME HttpAssumption ==
    /\ IsFiniteSet(Workers)
    /\ NoConn \notin Conns
    /\ BodyUnits \in [Kinds -> Nat]
    /\ Uploads \subseteq Expecting /\ Expecting \subseteq Kinds
    /\ Refused \subseteq Kinds /\ Closing \subseteq Kinds /\ Streamed \subseteq Kinds
    /\ None \notin Kinds /\ NoRequest \notin Kinds \cup {None}
    /\ keep_alive_max_count \in Nat \ {0}
    /\ read_buff_size \in Nat \ {0}

Unit == None
Tokens == Kinds \cup {Unit}

VARIABLES
    lpc, lsock,     \* the listening thread, and the socket it accepted
    jobs,           \* jobs_
    shutdown,       \* shutdown_
    wpc,            \* where each thread of the pool is
    wconn,          \* its connection
    wcount,         \* requests it still serves on it
    wreq,           \* the request it serves
    wneed,          \* units of the body it has not read
    wbuff,          \* read_buff_ of its SocketStream
    conn,           \* the state of each connection
    net,            \* what has arrived and is not read
    tosend,         \* units of its request the client has not sent
    asked,          \* its request that is not answered yet
    eof,            \* the client has closed its side
    left,           \* history: connections on which some of a body was never read
    wrong           \* history: connections with an answer to something else than asked

listenVars == <<lpc, lsock>>
poolVars   == <<jobs, shutdown>>
workerVars == <<wpc, wconn, wcount, wreq, wneed, wbuff>>
clientVars == <<tosend, asked, eof>>
connVars   == <<conn, net, left, wrong>>
httpVars   == <<listenVars, poolVars, workerVars, clientVars, connVars>>

HttpTypeOK ==
    /\ lpc \in {"accept", "push", "notify", "stop", "notifyall", "join", "ended"}
    /\ lsock \in Conns \cup {NoConn}
    /\ jobs \in Seq(Conns) /\ shutdown \in BOOLEAN
    /\ wpc \in [Workers -> {"wait", "asleep", "alive", "line", "body", "reply", "exited"}]
    /\ wconn \in [Workers -> Conns \cup {NoConn}]
    /\ wcount \in [Workers -> 0 .. keep_alive_max_count]
    /\ wreq \in [Workers -> Kinds \cup {None, NoRequest}]
    /\ wneed \in [Workers -> Nat]
    /\ wbuff \in [Workers -> Seq(Tokens)]
    /\ conn \in [Conns -> {"none", "pending", "accepted", "closed"}]
    /\ net \in [Conns -> Seq(Tokens)] /\ tosend \in [Conns -> Nat]
    /\ asked \in [Conns -> Kinds \cup {None}]
    /\ eof \in [Conns -> BOOLEAN]
    /\ left \subseteq Conns /\ wrong \subseteq Conns

HttpInit ==
    /\ lpc = "accept" /\ lsock = NoConn
    /\ jobs = <<>> /\ shutdown = FALSE
    /\ wpc = [w \in Workers |-> "wait"]
    /\ wconn = [w \in Workers |-> NoConn]
    /\ wcount = [w \in Workers |-> 0]
    /\ wreq = [w \in Workers |-> None]
    /\ wneed = [w \in Workers |-> 0]
    /\ wbuff = [w \in Workers |-> <<>>]
    /\ conn = [c \in Conns |-> "none"]
    /\ net = [c \in Conns |-> <<>>] /\ tosend = [c \in Conns |-> 0]
    /\ asked = [c \in Conns |-> None] /\ eof = [c \in Conns |-> FALSE]
    /\ left = {} /\ wrong = {}

---------------------------------------------------------------------------
(* Clients *)

Listening == lpc \in {"accept", "push", "notify"}

Connect(c) ==
    /\ conn[c] = "none" /\ Listening
    /\ conn' = [conn EXCEPT ![c] = "pending"]
    /\ UNCHANGED <<listenVars, poolVars, workerVars, clientVars, net, left, wrong>>

(* The head of the next request, once the last one is sent and answered. *)
Ask(c, k) ==
    /\ conn[c] = "accepted" /\ ~eof[c]
    /\ tosend[c] = 0 /\ asked[c] = None
    /\ asked' = [asked EXCEPT ![c] = k]
    /\ net' = [net EXCEPT ![c] = Append(@, k)]
    /\ tosend' = [tosend EXCEPT ![c] = BodyUnits[k]]
    /\ UNCHANGED <<listenVars, poolVars, workerVars, eof, conn, left, wrong>>

Send(c) ==
    /\ conn[c] = "accepted" /\ ~eof[c]
    /\ tosend[c] > 0
    /\ net' = [net EXCEPT ![c] = Append(@, Unit)]
    /\ tosend' = [tosend EXCEPT ![c] = @ - 1]
    /\ UNCHANGED <<listenVars, poolVars, workerVars, asked, eof, conn, left, wrong>>

Hangup(c) ==
    /\ conn[c] = "accepted" /\ ~eof[c]
    /\ eof' = [eof EXCEPT ![c] = TRUE]
    /\ tosend' = [tosend EXCEPT ![c] = 0]
    /\ asked' = [asked EXCEPT ![c] = None]
    /\ UNCHANGED <<listenVars, poolVars, workerVars, connVars>>

Client(c) ==
    Connect(c) \/ (\E k \in Kinds : Ask(c, k)) \/ Send(c) \/ Hangup(c)

(* The server closes its side: the connection is over for both.             *)
Over(cs) ==
    /\ conn' = [c \in Conns |-> IF c \in cs THEN "closed" ELSE conn[c]]
    /\ net' = [c \in Conns |-> IF c \in cs THEN <<>> ELSE net[c]]
    /\ tosend' = [c \in Conns |-> IF c \in cs THEN 0 ELSE tosend[c]]
    /\ asked' = [c \in Conns |-> IF c \in cs THEN None ELSE asked[c]]
    /\ eof' = [c \in Conns |-> IF c \in cs THEN FALSE ELSE eof[c]]

---------------------------------------------------------------------------
(* listen_internal and the queue *)

Accept ==
    /\ lpc = "accept"
    /\ \E c \in Conns :
          /\ conn[c] = "pending"
          /\ conn' = [conn EXCEPT ![c] = "accepted"]
          /\ lsock' = c
    /\ lpc' = "push"
    /\ UNCHANGED <<poolVars, workerVars, clientVars, net, left, wrong>>

(* enqueue, under the mutex *)
Enqueue ==
    /\ lpc = "push"
    /\ jobs' = Append(jobs, lsock)
    /\ lsock' = NoConn /\ lpc' = "notify"
    /\ UNCHANGED <<shutdown, workerVars, clientVars, connVars>>

(* Mutant: a thread is woken only for the first job in the queue. *)
NotifyOne_IfFirst ==
    /\ lpc = "notify"
    /\ lpc' = "accept"
    /\ IF Len(jobs) = 1 /\ \E w \in Workers : wpc[w] = "asleep"
       THEN \E w \in Workers : wpc[w] = "asleep" /\ wpc' = [wpc EXCEPT ![w] = "wait"]
       ELSE UNCHANGED wpc
    /\ UNCHANGED <<lsock, poolVars, wconn, wcount, wreq, wneed, wbuff, clientVars, connVars>>

(* enqueue, after the mutex: one sleeping thread is woken, if there is one. *)
NotifyOne ==
    /\ lpc = "notify"
    /\ lpc' = "accept"
    /\ \/ \E w \in Workers : wpc[w] = "asleep" /\ wpc' = [wpc EXCEPT ![w] = "wait"]
       \/ (\A w \in Workers : wpc[w] # "asleep") /\ UNCHANGED wpc
    /\ UNCHANGED <<lsock, poolVars, wconn, wcount, wreq, wneed, wbuff, clientVars, connVars>>

(* accept fails for another reason than too many files or a signal. *)
AcceptFails ==
    /\ lpc = "accept"
    /\ lpc' = "stop"
    /\ Over({c \in Conns : conn[c] = "pending"})
    /\ UNCHANGED <<lsock, poolVars, workerVars, left, wrong>>

(* ThreadPool::shutdown, under the mutex, *)
Shutdown ==
    /\ lpc = "stop"
    /\ shutdown' = TRUE
    /\ lpc' = "notifyall"
    /\ UNCHANGED <<lsock, jobs, workerVars, clientVars, connVars>>

(* Mutant: one thread is woken. *)
NotifyAll_One ==
    /\ lpc = "notifyall"
    /\ lpc' = "join"
    /\ \/ \E w \in Workers : wpc[w] = "asleep" /\ wpc' = [wpc EXCEPT ![w] = "wait"]
       \/ (\A w \in Workers : wpc[w] # "asleep") /\ UNCHANGED wpc
    /\ UNCHANGED <<lsock, poolVars, wconn, wcount, wreq, wneed, wbuff, clientVars, connVars>>

(* after it, *)
NotifyAll ==
    /\ lpc = "notifyall"
    /\ lpc' = "join"
    /\ wpc' = [w \in Workers |-> IF wpc[w] = "asleep" THEN "wait" ELSE wpc[w]]
    /\ UNCHANGED <<lsock, poolVars, wconn, wcount, wreq, wneed, wbuff, clientVars, connVars>>

(* and when all threads have ended; http_server_thread then serves nobody.  *)
Join ==
    /\ lpc = "join"
    /\ \A w \in Workers : wpc[w] = "exited"
    /\ lpc' = "ended"
    /\ UNCHANGED <<lsock, poolVars, workerVars, clientVars, connVars>>

Listener == Accept \/ Enqueue \/ NotifyOne \/ AcceptFails \/ Shutdown \/ NotifyAll \/ Join

---------------------------------------------------------------------------
(* worker::operator(): one job after the other *)

Goto(w, pc) == wpc' = [wpc EXCEPT ![w] = pc]

Sleep(w) ==
    /\ wpc[w] = "wait"
    /\ jobs = <<>> /\ ~shutdown
    /\ Goto(w, "asleep")
    /\ UNCHANGED <<listenVars, poolVars, wconn, wcount, wreq, wneed, wbuff, clientVars, connVars>>

(* A condition variable may wake a thread for no reason. *)
WakeUp(w) ==
    /\ wpc[w] = "asleep"
    /\ Goto(w, "wait")
    /\ UNCHANGED <<listenVars, poolVars, wconn, wcount, wreq, wneed, wbuff, clientVars, connVars>>

Exit(w) ==
    /\ wpc[w] = "wait"
    /\ shutdown /\ jobs = <<>>
    /\ Goto(w, "exited")
    /\ UNCHANGED <<listenVars, poolVars, wconn, wcount, wreq, wneed, wbuff, clientVars, connVars>>

(* Mutant: the job is read and removed at different times. *)
TakeJob_NoPop(w) ==
    /\ wpc[w] = "wait"
    /\ jobs # <<>>
    /\ wconn' = [wconn EXCEPT ![w] = Head(jobs)]
    /\ wcount' = [wcount EXCEPT ![w] = keep_alive_max_count]
    /\ jobs' = IF Len(jobs) > 1 THEN Tail(jobs) ELSE jobs
    /\ Goto(w, "alive")
    /\ UNCHANGED <<listenVars, shutdown, wreq, wneed, wbuff, clientVars, connVars>>

TakeJob(w) ==
    /\ wpc[w] = "wait"
    /\ jobs # <<>>
    /\ wconn' = [wconn EXCEPT ![w] = Head(jobs)]
    /\ wcount' = [wcount EXCEPT ![w] = keep_alive_max_count]
    /\ jobs' = Tail(jobs)
    /\ Goto(w, "alive")
    /\ UNCHANGED <<listenVars, shutdown, wreq, wneed, wbuff, clientVars, connVars>>

---------------------------------------------------------------------------
(* process_and_close_socket: one connection *)

(* shutdown and close of the socket; the thread goes for its next job. *)
CloseSocket(w) ==
    /\ Over({wconn[w]})
    /\ Goto(w, "wait")
    /\ wconn' = [wconn EXCEPT ![w] = NoConn]
    /\ wcount' = [wcount EXCEPT ![w] = 0]
    /\ wreq' = [wreq EXCEPT ![w] = None]
    /\ wneed' = [wneed EXCEPT ![w] = 0]
    /\ wbuff' = [wbuff EXCEPT ![w] = <<>>]

(* Nothing has come in time, or ever will. *)
Silence(w) == wbuff[w] = <<>> /\ net[wconn[w]] = <<>>

(* Mutant: one request too many is waited for. *)
KeepAlive_Uncounted(w) ==
    /\ wpc[w] = "alive"
    /\ net[wconn[w]] # <<>> \/ eof[wconn[w]]
    /\ Goto(w, "line")
    /\ UNCHANGED <<listenVars, poolVars, wconn, wcount, wreq, wneed, wbuff, clientVars, connVars>>

(* keep_alive: the socket can be read, for a request or for its end. *)
KeepAlive(w) ==
    /\ wpc[w] = "alive" /\ wcount[w] > 0
    /\ net[wconn[w]] # <<>> \/ eof[wconn[w]]
    /\ Goto(w, "line")
    /\ UNCHANGED <<listenVars, poolVars, wconn, wcount, wreq, wneed, wbuff, clientVars, connVars>>

(* The last request was served, or the client is silent for too long. *)
KeepAliveEnds(w) ==
    /\ wpc[w] = "alive"
    /\ wcount[w] = 0 \/ (net[wconn[w]] = <<>> /\ ~eof[wconn[w]])
    /\ CloseSocket(w)
    /\ UNCHANGED <<listenVars, poolVars, left, wrong>>

(* SocketStream::read: the buffer, filled with some of what has arrived     *)
(* when it is empty, loses its first unit.                                  *)
Buffers(w) ==
    IF wbuff[w] # <<>> THEN {wbuff[w]}
    ELSE {SubSeq(net[wconn[w]], 1, n) :
             n \in {l \in 1 .. Len(net[wconn[w]]) : l <= read_buff_size}}

TakeFirst(w, b) ==
    /\ wbuff' = [wbuff EXCEPT ![w] = Tail(b)]
    /\ net' = IF wbuff[w] # <<>> THEN net
              ELSE [net EXCEPT ![wconn[w]] = SubSeq(@, Len(b) + 1, Len(@))]

(* No request line: process_request returns false. *)
NoLine(w) ==
    /\ wpc[w] = "line" /\ Silence(w)
    /\ CloseSocket(w)
    /\ UNCHANGED <<listenVars, poolVars, left, wrong>>

(* The request line and the headers.  A request that is refused for these   *)
(* alone is answered at once; so is one whose method expects no content,    *)
(* whatever follows, and an upload of a file that exists.  Every other body *)
(* is read first.                                                           *)
ReadHead(w) ==
    /\ wpc[w] = "line"
    /\ \E b \in Buffers(w) :
          /\ TakeFirst(w, b)
          /\ \/ /\ Head(b) = Unit
                /\ wreq' = [wreq EXCEPT ![w] = NoRequest]
                /\ Goto(w, "reply")
                /\ UNCHANGED wneed
             \/ /\ Head(b) # Unit
                /\ wreq' = [wreq EXCEPT ![w] = Head(b)]
                /\ wneed' = [wneed EXCEPT ![w] = BodyUnits[Head(b)]]
                /\ \/ Head(b) \in Expecting \ Refused /\ Goto(w, "body")
                   \/ /\ Head(b) \in Refused \cup Uploads \cup (Kinds \ Expecting)
                      /\ Goto(w, "reply")
    /\ UNCHANGED <<listenVars, poolVars, wconn, wcount, clientVars, conn, left, wrong>>

(* One read of a body and the receiver it is given to, which goes on, or    *)
(* stops at something ill-formed.                                           *)
ReadPiece(w) ==
    /\ wneed' = [wneed EXCEPT ![w] = @ - 1]
    /\ \E b \in Buffers(w) : TakeFirst(w, b)
    /\ UNCHANGED wpc \/ Goto(w, "reply")

(* Mutant: the last unit of a body is not read. *)
ReadBody_Short(w) ==
    /\ wpc[w] = "body"
    /\ \/ wneed[w] > 1 /\ ReadPiece(w)
       \/ /\ wneed[w] <= 1 \/ Silence(w)
          /\ Goto(w, "reply")
          /\ wneed' = [wneed EXCEPT ![w] = IF @ <= 1 THEN 0 ELSE @]
          /\ UNCHANGED <<wbuff, net>>
    /\ UNCHANGED <<listenVars, poolVars, wconn, wcount, wreq, clientVars, conn, left, wrong>>

(* read_content_with_length: to its end, until the receiver stops it or     *)
(* until nothing comes any more; an answer follows in each case, and what   *)
(* is not read stays where it is.                                           *)
ReadBody(w) ==
    /\ wpc[w] = "body"
    /\ \/ wneed[w] > 0 /\ ReadPiece(w)
       \/ /\ wneed[w] = 0 \/ Silence(w)
          /\ Goto(w, "reply")
          /\ UNCHANGED <<wneed, wbuff, net>>
    /\ UNCHANGED <<listenVars, poolVars, wconn, wcount, wreq, clientVars, conn, left, wrong>>

(* What the client sees of the answer, and what is lost with the buffer.    *)
Answered(w) ==
    /\ wrong' = IF ~eof[wconn[w]] /\ wreq[w] # asked[wconn[w]]
                THEN wrong \cup {wconn[w]} ELSE wrong
    /\ left' = IF wneed[w] > Len(wbuff[w]) THEN left \cup {wconn[w]} ELSE left

(* Mutant: served requests are not counted. *)
NextRequest_Uncounted(w) ==
    /\ Goto(w, "alive")
    /\ wreq' = [wreq EXCEPT ![w] = None]
    /\ wneed' = [wneed EXCEPT ![w] = 0]
    /\ wbuff' = [wbuff EXCEPT ![w] = <<>>]
    /\ asked' = [asked EXCEPT ![wconn[w]] = None]
    /\ UNCHANGED <<wconn, wcount, conn, net, tosend, eof>>

(* The connection goes on: a new SocketStream, one request less.            *)
NextRequest(w) ==
    /\ Goto(w, "alive")
    /\ wcount' = [wcount EXCEPT ![w] = @ - 1]
    /\ wreq' = [wreq EXCEPT ![w] = None]
    /\ wneed' = [wneed EXCEPT ![w] = 0]
    /\ wbuff' = [wbuff EXCEPT ![w] = <<>>]
    /\ asked' = [asked EXCEPT ![wconn[w]] = None]
    /\ UNCHANGED <<wconn, conn, net, tosend, eof>>

(* is_socket_alive: it does not notice the end of what is not read yet.     *)
SocketAlive(w) == ~eof[wconn[w]] \/ net[wconn[w]] # <<>>

(* The answer is written; the connection goes on unless the client asked    *)
(* for its end.                                                             *)
Reply(w) ==
    /\ wpc[w] = "reply" /\ SocketAlive(w)
    /\ Answered(w)
    /\ IF wreq[w] \in Closing THEN CloseSocket(w) ELSE NextRequest(w)
    /\ UNCHANGED <<listenVars, poolVars>>

(* The client is gone, or the provider of a download cancels it. *)
ReplyFails(w) ==
    /\ wpc[w] = "reply"
    /\ eof[wconn[w]] \/ wreq[w] \in Streamed
    /\ CloseSocket(w)
    /\ UNCHANGED <<listenVars, poolVars, left, wrong>>

Worker(w) ==
    \/ Sleep(w) \/ Exit(w) \/ TakeJob(w) \/ KeepAlive(w) \/ KeepAliveEnds(w)
    \/ NoLine(w) \/ ReadHead(w) \/ ReadBody(w) \/ Reply(w) \/ ReplyFails(w)

HttpNext ==
    \/ \E c \in Conns : Client(c)
    \/ Listener
    \/ \E w \in Workers : Worker(w) \/ WakeUp(w)

(* Threads are scheduled, and every wait for a client has a timeout.        *)
HttpFairness ==
    /\ WF_httpVars(Enqueue \/ NotifyOne \/ Shutdown \/ NotifyAll \/ Join)
    /\ \A w \in Workers : WF_httpVars(Worker(w))

HttpSpec == HttpInit /\ [][HttpNext]_httpVars /\ HttpFairness

---------------------------------------------------------------------------
(* Properties *)

Serving(c) == {w \in Workers : wconn[w] = c}
Queued(c)  == {i \in DOMAIN jobs : jobs[i] = c}

(* An accepted connection is in one place only: with the listener, in the   *)
(* queue or with a thread; the pool neither loses a job nor runs it twice,  *)
(* also while it is shut down.                                              *)
ServedOnce ==
    \A c \in Conns :
        Cardinality(Serving(c)) + Cardinality(Queued(c)) + (IF lsock = c THEN 1 ELSE 0)
            = (IF conn[c] = "accepted" THEN 1 ELSE 0)

(* No lost wake-up: while a thread sleeps, each queued job has a thread     *)
(* that is awake and will look at the queue - or enqueue is about to wake   *)
(* one.  So a job waits only for busy threads.                              *)
JobsHaveThreads ==
    (\E w \in Workers : wpc[w] = "asleep") =>
        Len(jobs) <= Cardinality({w \in Workers : wpc[w] = "wait"})
                     + (IF lpc = "notify" THEN 1 ELSE 0)

(* The answer a client gets is the answer to its request, over all requests *)
(* of a connection - unless an earlier body was not read to its end (it     *)
(* was refused, ill-formed, unexpected or timed out) and its rest was not   *)
(* by chance in the buffer that is thrown away.                             *)
AnswersMatch == wrong \subseteq left

(* Every accepted connection is closed in the end, however many requests    *)
(* its client sends and however long it is silent, so that a thread is      *)
(* never lost to the pool.                                                  *)
ConnectionsEnd == \A c \in Conns : conn[c] = "accepted" ~> conn[c] = "closed"

(* When accept fails the threads finish their connections and listen        *)
(* returns.                                                                 *)
ListenReturns == lpc = "stop" ~> lpc = "ended"
===========================================================================
