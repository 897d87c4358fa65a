----------------------------- MODULE SocketRpc -----------------------------
(***************************************************************************)
(* Remote calls between nodes: ClusterProtocol with its SocketWorkerPool,  *)
(* SocketAcceptor and SocketConnectionPool.  One node serves, the others   *)
(* call it.  The parts, each a thread of its own:                          *)
(*   - a caller: GraphProtocol.test(), which takes the client's one cached *)
(*     connection to the server and queues its request there;              *)
(*   - the client's IO thread: queue -> wire, wire -> the caller's future; *)
(*   - the server's acceptor and IO threads: wire -> the pool's queue, a   *)
(*     handler's mailbox -> wire;                                          *)
(*   - the pool's scheduler: the queue, in batches, to a new worker;       *)
(*   - the workers: request -> onRequest() -> mailbox.                     *)
(* A message is its length in one byte and the bytes.  handle() reads the  *)
(* length only while `expected` is negative and nothing resets it, so each *)
(* end of a connection reads one message, or a first piece of one.  The    *)
(* list `futures` of SocketWorkerPool stays empty: every onRequest()       *)
(* answers with an ImmediateFuture; and its `pool` of idle workers too:    *)
(* nobody calls SocketWorker.release().                                    *)
(***************************************************************************)
EXTENDS Naturals, Sequences, FiniteSets

CONSTANTS
  Requests,       \* the calls, each made once, by a thread of its own
  Clients,        \* the calling nodes
  From,           \* the client that makes each call
  Poison,         \* the requests whose onRequest() throws
  Connections,    \* the SocketConnections that can be built
  Others,         \* those of nodes left out, which are connecting and never call
  Workers,        \* the SocketWorkers that can be built
  None,
  HandlersCap,    \* SocketAcceptor.QUEUE_SIZE
  RequestsCap,    \* SocketConnection.QUEUE_SIZE
  QueueCap,       \* SocketWorkerPool.QUEUE_SIZE
  BatchCap,       \* SocketWorker.QUEUE_SIZE
  MaxTorn,        \* bound: messages that arrive in pieces
  MaxRefused      \* bound: connections the server does not take

ASSUME RpcAssumption ==
  /\ From \in [Requests -> Clients]
  /\ Poison \subseteq Requests
  /\ None \notin Requests \cup Connections \cup Workers
  /\ Others \subseteq Connections
  /\ {HandlersCap, RequestsCap, QueueCap, BatchCap} \subseteq Nat \ {0}
  /\ {MaxTorn, MaxRefused} \subseteq Nat

VARIABLES
  \* callers
  pc,         \* where each call of test() is
  conn,       \* its local variable: the connection
  answered,   \* the calls whose FutureResponse is set
  \* the clients' connections
  cached,     \* SocketConnectionPool.connections: client -> connection
  socket,     \* "new", "up", "down" (no socket was opened) or "closed"
  requests,   \* each connection's queue of requests to be written
  replyRead,  \* the client's end has read its length byte
  \* the wires
  toServer, toClient,
  \* the server's ends
  handlers,   \* the connections the IO thread serves
  backlog,    \* connected, not yet accepted
  requestRead,\* the server's end has read its length byte
  mailbox,    \* each handler's queue of responses
  \* the worker pool
  queue,      \* pairs of connection and request
  task,       \* the scheduler: its step, its worker and its batch
  wpc, work, hand, \* the workers: step, queue, request being processed
  \* history
  served,     \* the requests onRequest() has answered
  dropped     \* the messages that were thrown away

callers  == <<pc, conn, answered>>
sockets  == <<cached, socket, requests, replyRead>>
wires    == <<toServer, toClient>>
server   == <<handlers, backlog, requestRead, mailbox>>
pool     == <<queue, task, wpc, work, hand>>
history  == <<served, dropped>>
vars     == <<callers, sockets, wires, server, pool, history>>

Pairs == Connections \X Requests
Rest  == [step |-> "rest", worker |-> None, batch |-> <<>>]

TypeOK ==
  /\ pc \in [Requests -> {"call", "dial", "put", "check", "send", "sent", "failed"}]
  /\ conn \in [Requests -> Connections \cup {None}]
  /\ answered \subseteq Requests
  /\ cached \in [Clients -> Connections \cup {None}]
  /\ socket \in [Connections -> {"new", "up", "down", "closed"}]
  /\ requests \in [Connections -> Seq(Requests)]
  /\ replyRead \in [Connections -> BOOLEAN]
  /\ toServer \in [Connections -> Seq(Requests)]
  /\ toClient \in [Connections -> Seq(Requests)]
  /\ handlers \subseteq Connections /\ Cardinality(handlers) <= HandlersCap
  /\ backlog \subseteq Connections
  /\ requestRead \in [Connections -> BOOLEAN]
  /\ mailbox \in [Connections -> Seq(Requests)]
  /\ queue \in Seq(Pairs) /\ Len(queue) <= QueueCap
  /\ task.step \in {"rest", "drain", "offer", "notify"}
  /\ task.worker \in Workers \cup {None}
  /\ task.batch \in Seq(Pairs)
  /\ wpc \in [Workers -> {"unborn", "loop", "busy", "parking", "waiting", "exited"}]
  /\ work \in [Workers -> Seq(Pairs)]
  /\ hand \in [Workers -> Seq(Pairs)]
  /\ served \subseteq Requests
  /\ dropped \subseteq Requests

Init ==
  /\ pc = [r \in Requests |-> "call"]
  /\ conn = [r \in Requests |-> None]
  /\ answered = {}
  /\ cached = [c \in Clients |-> None]
  /\ socket = [k \in Connections |-> IF k \in Others THEN "up" ELSE "new"]
  /\ requests = [k \in Connections |-> <<>>]
  /\ replyRead = [k \in Connections |-> FALSE]
  /\ toServer = [k \in Connections |-> <<>>]
  /\ toClient = [k \in Connections |-> <<>>]
  /\ handlers = {}
  /\ backlog = Others
  /\ requestRead = [k \in Connections |-> FALSE]
  /\ mailbox = [k \in Connections |-> <<>>]
  /\ queue = <<>>
  /\ task = Rest
  /\ wpc = [w \in Workers |-> "unborn"]
  /\ work = [w \in Workers |-> <<>>]
  /\ hand = [w \in Workers |-> <<>>]
  /\ served = {}
  /\ dropped = {}

-----------------------------------------------------------------------------
(* A call of test(): getConnection(), then send().                         *)

Goto(r, where) == pc' = [pc EXCEPT ![r] = where]

\* connections.get(address).
LookUp(r) ==
  /\ pc[r] = "call"
  /\ conn' = [conn EXCEPT ![r] = cached[From[r]]]
  /\ Goto(r, IF cached[From[r]] = None THEN "dial" ELSE "check")
  /\ UNCHANGED <<answered, sockets, wires, server, pool, history>>

\* new SocketConnection(...): a socket that cannot be opened is logged, and
\* the object stays without one.
Dial(r) ==
  /\ pc[r] = "dial"
  /\ \E k \in Connections :
       /\ socket[k] = "new"
       /\ conn' = [conn EXCEPT ![r] = k]
       /\ \/ /\ socket' = [socket EXCEPT ![k] = "up"]
             /\ backlog' = backlog \cup {k}
          \/ /\ Cardinality({d \in Connections : socket[d] = "down"}) < MaxRefused
             /\ socket' = [socket EXCEPT ![k] = "down"]
             /\ UNCHANGED backlog
  /\ Goto(r, "put")
  /\ UNCHANGED <<answered, cached, requests, replyRead, wires, handlers, requestRead,
                 mailbox, pool, history>>

\* Mutant of Put: put() where putIfAbsent() was.
PutAnyway(r) ==
  /\ pc[r] = "put"
  /\ cached' = [cached EXCEPT ![From[r]] = conn[r]]
  /\ Goto(r, "check")
  /\ UNCHANGED <<conn, answered, socket, requests, replyRead, wires, server, pool, history>>

\* putIfAbsent(): the first to arrive caches its connection, the others close
\* theirs and use that one.
Put(r) ==
  /\ pc[r] = "put"
  /\ \/ /\ cached[From[r]] = None
        /\ cached' = [cached EXCEPT ![From[r]] = conn[r]]
        /\ UNCHANGED <<conn, socket>>
     \/ /\ cached[From[r]] # None
        /\ socket' = [socket EXCEPT ![conn[r]] = IF @ = "up" THEN "closed" ELSE @]
        /\ conn' = [conn EXCEPT ![r] = cached[From[r]]]
        /\ UNCHANGED cached
  /\ Goto(r, "check")
  /\ UNCHANGED <<answered, requests, replyRead, wires, server, pool, history>>

\* isConnected(): TRUE of every socket that was ever connected; without one
\* it is a NullPointerException, and the call ends.
Check(r) ==
  /\ pc[r] = "check"
  /\ Goto(r, IF socket[conn[r]] = "down" THEN "failed" ELSE "send")
  /\ UNCHANGED <<conn, answered, sockets, wires, server, pool, history>>

\* responses.put() and send(): add() to a full queue throws.
Send(r) ==
  /\ pc[r] = "send"
  /\ \/ /\ Len(requests[conn[r]]) < RequestsCap
        /\ requests' = [requests EXCEPT ![conn[r]] = Append(@, r)]
        /\ Goto(r, "sent")
     \/ /\ Len(requests[conn[r]]) >= RequestsCap
        /\ Goto(r, "failed")
        /\ UNCHANGED requests
  /\ UNCHANGED <<conn, answered, cached, socket, replyRead, wires, server, pool, history>>

Caller(r) == LookUp(r) \/ Dial(r) \/ Put(r) \/ Check(r) \/ Send(r)

-----------------------------------------------------------------------------
(* The client's IO thread: SocketConnection.handle().                      *)

InService(c, k) == cached[c] = k /\ k # None /\ socket[k] = "up"

\* The reading loop: the one message this end will ever read.  A piece of it
\* is read and the rest left for good.
ReadReply(c) ==
  \E k \in Connections :
    /\ InService(c, k)
    /\ toClient[k] # <<>>
    /\ ~replyRead[k]
    /\ replyRead' = [replyRead EXCEPT ![k] = TRUE]
    /\ toClient' = [toClient EXCEPT ![k] = Tail(@)]
    /\ \/ /\ answered' = answered \cup {Head(toClient[k])}
          /\ UNCHANGED dropped
       \/ /\ Cardinality(dropped) < MaxTorn
          /\ dropped' = dropped \cup {Head(toClient[k])}
          /\ UNCHANGED answered
    /\ UNCHANGED <<pc, conn, cached, socket, requests, toServer, server, pool, served>>

\* Mutant of WriteRequest: peek() where poll() was.
WriteRequestAgain(c) ==
  \E k \in Connections :
    /\ InService(c, k)
    /\ requests[k] # <<>> /\ Len(toServer[k]) < 2
    /\ toServer' = [toServer EXCEPT ![k] = Append(@, Head(requests[k]))]
    /\ UNCHANGED <<callers, sockets, toClient, server, pool, history>>

\* The writing loop.
WriteRequest(c) ==
  \E k \in Connections :
    /\ InService(c, k)
    /\ requests[k] # <<>>
    /\ requests' = [requests EXCEPT ![k] = Tail(@)]
    /\ toServer' = [toServer EXCEPT ![k] = Append(@, Head(requests[k]))]
    /\ UNCHANGED <<callers, cached, socket, replyRead, toClient, server, pool, history>>

-----------------------------------------------------------------------------
(* The server's acceptor and IO threads.                                   *)

\* accept(): add() to a full `handlers` throws, and nobody serves the socket.
\* A handler is never removed: isConnected() stays TRUE.
Accept ==
  \E k \in backlog :
    /\ backlog' = backlog \ {k}
    /\ handlers' = IF Cardinality(handlers) < HandlersCap THEN handlers \cup {k} ELSE handlers
    /\ UNCHANGED <<callers, sockets, wires, requestRead, mailbox, pool, history>>

\* SocketHandler.handle(), the reading loop; add() to a full queue throws, and
\* the message is gone.
ReadRequest ==
  \E k \in handlers :
    /\ toServer[k] # <<>>
    /\ ~requestRead[k]
    /\ requestRead' = [requestRead EXCEPT ![k] = TRUE]
    /\ toServer' = [toServer EXCEPT ![k] = Tail(@)]
    /\ \/ /\ Len(queue) < QueueCap
          /\ queue' = Append(queue, <<k, Head(toServer[k])>>)
          /\ UNCHANGED dropped
       \/ /\ Len(queue) >= QueueCap \/ Cardinality(dropped) < MaxTorn
          /\ dropped' = dropped \cup {Head(toServer[k])}
          /\ UNCHANGED queue
    /\ UNCHANGED <<callers, sockets, toClient, handlers, backlog, mailbox,
                   task, wpc, work, hand, served>>

\* The writing loop.
WriteReply ==
  \E k \in handlers :
    /\ mailbox[k] # <<>>
    /\ mailbox' = [mailbox EXCEPT ![k] = Tail(@)]
    /\ toClient' = [toClient EXCEPT ![k] = Append(@, Head(mailbox[k]))]
    /\ UNCHANGED <<callers, sockets, toServer, handlers, backlog, requestRead, pool, history>>

-----------------------------------------------------------------------------
(* SocketWorkerPool's scheduler.                                           *)

\* Mutant of Acquire: a worker is built for a full batch only.
AcquireForFull ==
  /\ task.step = "rest"
  /\ Len(queue) >= BatchCap
  /\ \E w \in Workers :
       /\ wpc[w] = "unborn"
       /\ wpc' = [wpc EXCEPT ![w] = "loop"]
       /\ task' = [task EXCEPT !.step = "drain", !.worker = w]
  /\ UNCHANGED <<callers, sockets, wires, server, queue, work, hand, history>>

\* acquire(): `pool` is empty, so a new worker is built, and its thread starts.
Acquire ==
  /\ task.step = "rest"
  /\ queue # <<>>
  /\ \E w \in Workers :
       /\ wpc[w] = "unborn"
       /\ wpc' = [wpc EXCEPT ![w] = "loop"]
       /\ task' = [task EXCEPT !.step = "drain", !.worker = w]
  /\ UNCHANGED <<callers, sockets, wires, server, queue, work, hand, history>>

\* drainTo(requests, worker.getQueueSize()).
Drain ==
  /\ task.step = "drain"
  /\ LET n == IF Len(queue) < BatchCap THEN Len(queue) ELSE BatchCap IN
       /\ task' = [task EXCEPT !.step = "offer", !.batch = SubSeq(queue, 1, n)]
       /\ queue' = SubSeq(queue, n + 1, Len(queue))
  /\ UNCHANGED <<callers, sockets, wires, server, wpc, work, hand, history>>

\* process(): addAll() hands the batch over one by one.
Offer ==
  /\ task.step = "offer"
  /\ task.batch # <<>>
  /\ work' = [work EXCEPT ![task.worker] = Append(@, Head(task.batch))]
  /\ task' = [task EXCEPT !.batch = Tail(@),
                !.step = IF Len(task.batch) = 1 THEN "notify" ELSE "offer"]
  /\ UNCHANGED <<callers, sockets, wires, server, queue, wpc, hand, history>>

\* notify(): a worker that waits comes back from wait(), and run() ends.
Notify ==
  /\ task.step = "notify"
  /\ wpc' = [wpc EXCEPT ![task.worker] = IF @ = "waiting" THEN "exited" ELSE @]
  /\ task' = Rest
  /\ UNCHANGED <<callers, sockets, wires, server, queue, work, hand, history>>

Scheduler == Acquire \/ Drain \/ Offer \/ Notify

-----------------------------------------------------------------------------
(* SocketWorker's thread.                                                  *)

\* while (!requests.isEmpty()): the next request, or off to the wait.
Poll(w) ==
  /\ wpc[w] = "loop"
  /\ \/ /\ work[w] # <<>>
        /\ hand' = [hand EXCEPT ![w] = <<Head(work[w])>>]
        /\ work' = [work EXCEPT ![w] = Tail(@)]
        /\ wpc' = [wpc EXCEPT ![w] = "busy"]
     \/ /\ work[w] = <<>>
        /\ wpc' = [wpc EXCEPT ![w] = "parking"]
        /\ UNCHANGED <<hand, work>>
  /\ UNCHANGED <<callers, sockets, wires, server, queue, task, history>>

\* onRequest() and respond(): the handler's mailbox always has room, its
\* connection brings one request at most.  An exception ends the thread.
Process(w) ==
  /\ wpc[w] = "busy"
  /\ hand' = [hand EXCEPT ![w] = <<>>]
  /\ LET k == hand[w][1][1]
         r == hand[w][1][2]
     IN  \/ /\ r \notin Poison
            /\ mailbox' = [mailbox EXCEPT ![k] = Append(@, r)]
            /\ served' = served \cup {r}
            /\ wpc' = [wpc EXCEPT ![w] = "loop"]
            /\ UNCHANGED dropped
         \/ /\ r \in Poison
            /\ dropped' = dropped \cup {r}
            /\ wpc' = [wpc EXCEPT ![w] = "exited"]
            /\ UNCHANGED <<mailbox, served>>
  /\ UNCHANGED <<callers, sockets, wires, handlers, backlog, requestRead, queue, task, work>>

\* synchronized(requests) { requests.wait(); }: without a look at the queue.
Park(w) ==
  /\ wpc[w] = "parking"
  /\ wpc' = [wpc EXCEPT ![w] = "waiting"]
  /\ UNCHANGED <<callers, sockets, wires, server, queue, task, work, hand, history>>

Worker(w) == Poll(w) \/ Process(w) \/ Park(w)

Next ==
  \/ \E r \in Requests : Caller(r)
  \/ \E c \in Clients : ReadReply(c) \/ WriteRequest(c)
  \/ Accept \/ ReadRequest \/ WriteReply
  \/ Scheduler
  \/ \E w \in Workers : Worker(w)

Spec == Init /\ [][Next]_vars

\* Every thread that can go on goes on.  An IO thread serves both directions
\* of each of its connections in turn.
Fairness ==
  /\ \A r \in Requests : WF_vars(Caller(r))
  /\ \A c \in Clients : WF_vars(ReadReply(c)) /\ WF_vars(WriteRequest(c))
  /\ WF_vars(Accept) /\ WF_vars(ReadRequest) /\ WF_vars(WriteReply)
  /\ WF_vars(Scheduler)
  /\ \A w \in Workers : WF_vars(Worker(w))

FairSpec == Spec /\ Fairness

-----------------------------------------------------------------------------

\* The calls whose messages are in a queue, of requests or of pairs.
Calls(seq)   == {seq[i] : i \in DOMAIN seq}
CallsOf(seq) == {seq[i][2] : i \in DOMAIN seq}

\* No call is twice in it.
Once(seq)   == \A i, j \in DOMAIN seq : seq[i] = seq[j] => i = j
OnceOf(seq) == \A i, j \in DOMAIN seq : seq[i][2] = seq[j][2] => i = j

\* Where the message of a call can be, on its way out and back.
Places ==
  {"requests", "toServer", "mailbox", "toClient"} \X Connections
    \cup {"work", "hand"} \X Workers
    \cup {"queue", "batch", "answered", "dropped"} \X {None}

At(p) ==
  CASE p[1] = "requests" -> Calls(requests[p[2]])
    [] p[1] = "toServer" -> Calls(toServer[p[2]])
    [] p[1] = "mailbox"  -> Calls(mailbox[p[2]])
    [] p[1] = "toClient" -> Calls(toClient[p[2]])
    [] p[1] = "work"     -> CallsOf(work[p[2]])
    [] p[1] = "hand"     -> CallsOf(hand[p[2]])
    [] p[1] = "queue"    -> CallsOf(queue)
    [] p[1] = "batch"    -> CallsOf(task.batch)
    [] p[1] = "answered" -> answered
    [] p[1] = "dropped"  -> dropped

NoneTwice ==
  /\ \A k \in Connections :
       Once(requests[k]) /\ Once(toServer[k]) /\ Once(mailbox[k]) /\ Once(toClient[k])
  /\ \A w \in Workers : OnceOf(work[w]) /\ OnceOf(hand[w])
  /\ OnceOf(queue) /\ OnceOf(task.batch)

\* A call that was sent is somewhere, and only there, until it is answered or
\* thrown away for one of the reasons the code has: through six threads and
\* seven queues no message is copied and none vanishes.  The types hold, too,
\* the limits of the queues among them.
OneCopy ==
  /\ TypeOK
  /\ NoneTwice
  /\ \A r \in Requests :
       Cardinality({p \in Places : r \in At(p)}) = IF pc[r] = "sent" THEN 1 ELSE 0

\* Two callers of a client that both found no connection end up on the same
\* one, whatever they built; every call goes out by the cached connection.
OneConnection ==
  \A r \in Requests : pc[r] \in {"check", "send", "sent"} => conn[r] = cached[From[r]]

\* An answer reaches a caller only from the server's onRequest().
AnswersAreServed == answered \subseteq served

\* Where a message stays for good: behind another on a wire whose end has read
\* its one message, on a socket no handler serves, with a worker that has gone
\* to wait or has died, or thrown away.
Stranded(r) ==
  \/ r \in dropped
  \/ \E k \in Connections :
       \/ r \in Calls(toServer[k]) /\ (requestRead[k] \/ k \notin handlers \cup backlog)
       \/ r \in Calls(toClient[k]) /\ replyRead[k]
  \/ \E w \in Workers : r \in CallsOf(work[w]) /\ wpc[w] \in {"waiting", "exited"}

\* These are the only ways to wait in vain: a call that was sent is answered
\* or comes to such a place, so no thread hangs and no queue is forgotten.
AnsweredOrStranded ==
  \A r \in Requests : pc[r] = "sent" ~> (r \in answered \/ Stranded(r))

\* ClusterTest.test(): graphProtocol.test("testing") and then res.get(), which
\* returns only when the call is answered.
EveryCallIsAnswered ==
  \A r \in Requests : pc[r] = "sent" ~> r \in answered

=============================================================================
