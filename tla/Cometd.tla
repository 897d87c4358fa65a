------------------------------- MODULE Cometd -------------------------------
(***************************************************************************)
(* The page's side of the server push: one org.cometd.Cometd object, its   *)
(* long-polling transport, and the jQuery request under each envelope.     *)
(* A script runs to its end before the next event, so a step is a whole    *)
(* turn of the browser's loop: a call of the application, an answer found  *)
(* by jQuery's poll, a timer.  What a turn does is a chain of functions on *)
(* the record `page`, one for each function of the source; an exception    *)
(* (`threw`) ends the turn where it stands.                                *)
(*                                                                         *)
(* Abstracted: wording and headers; delays, of which only the number of    *)
(* steps of the backoff is kept, so that timers come in any order;         *)
(* listeners, which do not call back into the object.  The client and the  *)
(* server are of one origin, so that the transport is the long-polling one *)
(* throughout.  A request object is a slot, free again when nothing refers *)
(* to it.                                                                  *)
(***************************************************************************)
EXTENDS Naturals, Integers, FiniteSets, SequencesExt

CONSTANTS
  MaxMessages,    \* bound: messages the application publishes
  Slots,          \* bound: request objects alive at once
  MaxConnections, \* the option maxConnections
  MaxBackoff,     \* maxBackoff in units of backoffIncrement
  Budget,         \* bound: how often each kind of Event happens
  MaxEvents       \* bound: how many happen in all

Event == {"handshake", "disconnect", "batch",           \* calls of the application
          "error", "silence", "garbled", "throws",      \* of the network
          "forget", "refuse", "unsupported", "none"}    \* of the server

ASSUME CometdAssumption ==
  /\ Slots \subseteq Nat \ {0}
  /\ MaxConnections \in Nat \ {0, 1} /\ MaxBackoff \in Nat
  /\ Budget \in [Event -> Nat] /\ MaxEvents \in Nat
  /\ MaxMessages \in Nat

VARIABLES
  page,     \* the Cometd object, its transport and the requests
  sessions, \* the sessions the server knows
  granted,  \* how many it has given, numbered from 1
  asked,    \* how many messages are published, numbered from 1
  opened,   \* the application is between startBatch() and endBatch()
  spent     \* of the Budget

pageVars == <<page, sessions, granted, asked, opened, spent>>

Messages == 1..MaxMessages
Phases == {"disconnected", "handshaking", "connecting", "connected", "disconnecting"}
Advice == {"", "retry", "handshake", "none"}

\* A request: none (free, aborted or over), waiting in _envelopes, failing (its envelope is
\* given up in a moment), or on the wire: open, then answered, garbled (not JSON) or broken.
OnWire == {"open", "answered", "garbled", "broken"}
NoRequest == [msgs |-> <<>>, poll |-> FALSE, xhr |-> "none", timer |-> FALSE, reply |-> <<>>]

PageInit ==
  /\ page = [status |-> "disconnected", client |-> 0, batch |-> 0, held |-> FALSE, queue |-> <<>>,
             backoff |-> 0, due |-> "none", advice |-> "", longpoll |-> 0, requests |-> <<>>,
             envelopes |-> <<>>, req |-> [r \in Slots |-> NoRequest],
             threw |-> FALSE, breaks |-> FALSE,
             told |-> [m \in Messages |-> 0], lost |-> {}, last |-> 0, why |-> {}]
  /\ sessions = {} /\ granted = 0 /\ asked = 0 /\ opened = FALSE
  /\ spent = [e \in Event |-> 0]

Spend(e) ==
  /\ spent[e] < Budget[e] /\ FoldFunction(+, 0, spent) < MaxEvents
  /\ spent' = [spent EXCEPT ![e] = @ + 1]

-----------------------------------------------------------------------------
(* Small parts of the object.                                              *)

Disconnected(p) == p.status \in {"disconnecting", "disconnected"}
Status(p, s)    == [p EXCEPT !.status = s]
Throw(p)        == [p EXCEPT !.threw = TRUE]
Caught(p)       == [p EXCEPT !.threw = FALSE]
IncreaseBackoff(p) == IF p.backoff < MaxBackoff THEN [p EXCEPT !.backoff = @ + 1] ELSE p
ResetBackoff(p)    == [p EXCEPT !.backoff = 0]
Because(p, reason) == [p EXCEPT !.why = @ \cup {reason}]

Published(msgs) == {msgs[i].number : i \in DOMAIN msgs} \ {0}
Tell(p, m)      == [p EXCEPT !.told[m] = @ + 1]

\* Also while the application has a batch open, whose endBatch() then counts to -1 and throws.
ClearBatch(p) == [p EXCEPT !.batch = 0]

DelayedConnect(p)   == [p EXCEPT !.status = "connecting", !.due = "connect"]
DelayedHandshake(p) == [p EXCEPT !.status = "handshaking", !.held = TRUE, !.due = "handshake"]

-----------------------------------------------------------------------------
(* The transport.                                                          *)

InUse(p) == ToSet(p.requests) \cup ToSet(p.envelopes) \cup {p.longpoll}
Free(p)  == LET used == InUse(p) IN {r \in Slots \ used : p.req[r].xhr = "none" /\ ~p.req[r].timer}

\* reset() forgets all requests; those in _envelopes were never sent and nobody is told.
Reset(p) ==
  LET dropped == ToSet(p.envelopes)
  IN  [p EXCEPT !.longpoll = 0, !.requests = <<>>, !.envelopes = <<>>,
                !.lost = @ \cup UNION {Published(p.req[r].msgs) : r \in dropped},
                !.req = [r \in Slots |-> IF r \in dropped THEN NoRequest ELSE p.req[r]]]

\* abort() ends the requests that are out, but not their timers.
AbortAll(p) ==
  LET out == ToSet(p.requests) \cup {p.longpoll}
  IN  Reset([p EXCEPT !.req = [r \in Slots |->
                IF r \in out THEN [p.req[r] EXCEPT !.xhr = "none"] ELSE p.req[r]]])

\* A list of requests, in which none is twice, without r.
Without(list, r) ==
  IF r \in ToSet(list) THEN RemoveAt(list, CHOOSE i \in DOMAIN list : list[i] = r) ELSE list

\* complete(): a request that is over leaves its list.
LetGo(p, r) ==
  IF ~p.req[r].poll
  THEN [p EXCEPT !.requests = Without(@, r),
                 !.why = IF r \in ToSet(p.requests) THEN @ ELSE @ \cup {"stray"}]
  ELSE IF p.longpoll \in {0, r}
       THEN [p EXCEPT !.longpoll = 0, !.why = IF p.longpoll = r THEN @ ELSE @ \cup {"stray"}]
       ELSE Throw(p)

\* Mutant of GiveUpNext: the envelope is taken off the list and nobody hears of it.
GiveUpNextSilently(p) ==
  IF p.envelopes = <<>> THEN p
  ELSE [p EXCEPT !.envelopes = Tail(@), !.req[Head(p.envelopes)] = NoRequest]

\* complete(request, false): the next envelope is given up with it, and listed no more.
GiveUpNext(p) ==
  IF p.envelopes = <<>> THEN p
  ELSE [p EXCEPT !.envelopes = Tail(@), !.req[Head(p.envelopes)].xhr = "failing", !.why = @ \cup {"stray"}]

-----------------------------------------------------------------------------
(* A request that failed.                                                  *)

Disconnect(p, abort) ==
  LET q == IF abort THEN AbortAll(p) ELSE p
  IN  ClearBatch(ResetBackoff(
        [q EXCEPT !.due = "none", !.client = 0, !.status = "disconnected", !.queue = <<>>,
                  !.lost = @ \cup Published(p.queue)]))

HandshakeFailed(p) ==
  IF ~Disconnected(p) /\ p.advice # "none" THEN DelayedHandshake(IncreaseBackoff(p))
  ELSE [p EXCEPT !.status = "disconnected", !.why = IF Disconnected(p) THEN @ ELSE @ \cup {"none"}]

Action(p) == IF p.advice = "" THEN "retry" ELSE p.advice

\* Mutant of ConnectFailure: it does not try again once the backoff is at its limit.
ConnectFailureLast(p) ==
  IF Disconnected(p) \/ p.backoff = MaxBackoff THEN p
  ELSE IF Action(p) = "retry" THEN DelayedConnect(IncreaseBackoff(p))
  ELSE DelayedHandshake(ResetBackoff(p))

ConnectFailure(p) ==
  IF Disconnected(p) THEN p
  ELSE CASE Action(p) = "retry"     -> DelayedConnect(IncreaseBackoff(p))
         [] Action(p) = "handshake" -> DelayedHandshake(ResetBackoff(p))
         [] OTHER                   -> Because(ResetBackoff(p), "none")

Failure(p, msg) ==
  CASE msg.what = "handshake"  -> HandshakeFailed(p)
    [] msg.what = "connect"    -> ConnectFailure(p)
    [] msg.what = "disconnect" -> Disconnect(p, TRUE)
    [] msg.what = "publish"    -> Tell(p, msg.number)

HandleFailure(p, r) ==
  LET q == LetGo(p, r)
      s == IF p.req[r].poll THEN q ELSE GiveUpNext(q)
      msgs == p.req[r].msgs
      failed[i \in 0..Len(msgs)] == IF i = 0 THEN s ELSE Failure(failed[i-1], msgs[i])
  IN  IF q.threw THEN q ELSE failed[Len(msgs)]

-----------------------------------------------------------------------------
(* Sending.                                                                *)

\* A send that throws is reported at once, before the timer is set and the request listed.
TransportSend(p, r) ==
  LET f == Caught(HandleFailure([p EXCEPT !.breaks = FALSE], r))
      q == IF p.breaks THEN [f EXCEPT !.why = (@ \ ({"stray"} \ p.why)) \cup {"throws"}] ELSE p
  IN  [q EXCEPT !.req[r].xhr = IF p.breaks THEN "none" ELSE "open", !.req[r].timer = TRUE,
                !.last = IF Published(p.req[r].msgs) = {} THEN @ ELSE Last(p.req[r].msgs).number]

LongpollSend(p, r) ==
  IF p.longpoll # 0 THEN Throw(p) ELSE [TransportSend(p, r) EXCEPT !.longpoll = r]

\* Mutant of QueueSend: no connection is kept for the long poll.
QueueSendAll(p, r) ==
  IF Len(p.requests) < MaxConnections
  THEN LET q == TransportSend(p, r) IN [q EXCEPT !.requests = Append(@, r)]
  ELSE [p EXCEPT !.envelopes = Append(@, r), !.req[r].xhr = "waiting"]

QueueSend(p, r) ==
  IF Len(p.requests) < MaxConnections - 1
  THEN LET q == TransportSend(p, r) IN [q EXCEPT !.requests = Append(@, r)]
  ELSE [p EXCEPT !.envelopes = Append(@, r), !.req[r].xhr = "waiting"]

Meta(what)    == [what |-> what, number |-> 0, client |-> 0]
Message(m)    == [what |-> "publish", number |-> m, client |-> 0]

\* _send(): the messages carry the session, if there is one.
SendMessages(p, msgs, poll) ==
  LET r == CHOOSE x \in Free(p) : \A y \in Free(p) : x <= y
      q == [p EXCEPT !.req[r] = [NoRequest EXCEPT !.poll = poll,
               !.msgs = [i \in DOMAIN msgs |-> [msgs[i] EXCEPT !.client = IF p.client = 0 THEN @ ELSE p.client]]]]
  IN  IF ~poll THEN QueueSend(q, r)
      ELSE LET s == LongpollSend(q, r) IN IF s.threw THEN Throw(p) ELSE s

\* Mutant of SendNext: the envelope that came last is sent first.
SendLast(p) ==
  IF p.envelopes = <<>> THEN p
  ELSE QueueSend([p EXCEPT !.envelopes = Front(@)], Last(p.envelopes))

\* complete(request, true): the next envelope is sent.
SendNext(p) ==
  IF p.envelopes = <<>> THEN p
  ELSE QueueSend([p EXCEPT !.envelopes = Tail(@)], Head(p.envelopes))

FlushBatch(p) == IF p.queue = <<>> THEN p ELSE SendMessages([p EXCEPT !.queue = <<>>], p.queue, FALSE)

Connect(p) ==
  LET q == SendMessages(Status(p, "connecting"), <<Meta("connect")>>, TRUE)
  IN  IF q.threw THEN q ELSE Status(q, "connected")

Handshake(p) ==
  LET q == IF Disconnected(p) THEN Reset([p EXCEPT !.client = 0]) ELSE [p EXCEPT !.client = 0]
  IN  SendMessages([ClearBatch(q) EXCEPT !.held = TRUE, !.status = "handshaking"], <<Meta("handshake")>>, FALSE)

-----------------------------------------------------------------------------
(* An answer.                                                              *)

HandshakeResponse(p, msg) ==
  IF ~msg.ok THEN HandshakeFailed(p)
  ELSE LET q == [p EXCEPT !.client = msg.client]
       IN  CASE msg.unsupported     -> Because(Throw(q), "unsupported")
             [] Action(q) = "retry" -> DelayedConnect(q)
             [] OTHER               -> Because(q, "none")

ConnectResponse(p, msg) ==
  LET action == IF Disconnected(p) THEN "none" ELSE Action(p)
      q == IF Disconnected(p) THEN p
           ELSE Status(p, IF action = "retry" THEN "connecting" ELSE "disconnecting")
  IN  IF msg.ok
      THEN LET s == FlushBatch([q EXCEPT !.held = FALSE])
           IN  IF action = "retry" THEN DelayedConnect(ResetBackoff(s))
               ELSE [ResetBackoff(s) EXCEPT !.status = "disconnected",
                       !.why = IF Disconnected(p) THEN @ ELSE @ \cup {"none"}]
      ELSE CASE action = "retry"     -> DelayedConnect(IncreaseBackoff(q))
             [] action = "handshake" -> DelayedHandshake(ResetBackoff(q))
             [] action = "none"      -> [ResetBackoff(q) EXCEPT !.status = "disconnected",
                                          !.why = IF Disconnected(p) THEN @ ELSE @ \cup {"none"}]

Receive(p, msg) ==
  LET q == IF msg.advice = "" THEN p ELSE [p EXCEPT !.advice = msg.advice]
  IN  CASE p.threw                   -> p
        [] msg.what = "handshake"    -> HandshakeResponse(q, msg)
        [] msg.what = "connect"      -> ConnectResponse(q, msg)
        [] msg.what = "disconnect"   -> Disconnect(q, ~msg.ok)
        [] msg.what = "publish"      -> Tell(q, msg.number)

HandleResponse(p, r) ==
  LET q == LetGo(p, r)
      s == IF p.req[r].poll THEN q ELSE SendNext(q)
      reply == p.req[r].reply
      received[i \in 0..Len(reply)] == IF i = 0 THEN s ELSE Receive(received[i-1], reply[i])
  IN  IF q.threw THEN q ELSE received[Len(reply)]

-----------------------------------------------------------------------------
(* The turns.                                                              *)

\* The request is over: jQuery has found its answer, or its timer has run out.
Over(r) == [page EXCEPT !.req[r].xhr = "none", !.req[r].timer = FALSE]
Turn(p) == LET free == Free(p) IN page' = [p EXCEPT !.threw = FALSE, !.req = [r \in Slots |-> IF r \in free THEN NoRequest ELSE p.req[r]]]
Room    == Cardinality(Free(page)) >= 2

AppHandshake ==
  /\ Spend("handshake")
  /\ Turn(Handshake([page EXCEPT !.status = "disconnected",
                         !.why = IF page.due # "none" THEN @ \cup {"overtaken"} ELSE @]))
  /\ UNCHANGED <<sessions, granted, asked, opened>>

AppDisconnect ==
  /\ ~Disconnected(page) /\ Spend("disconnect")
  /\ Turn(SendMessages(Status(page, "disconnecting"), <<Meta("disconnect")>>, FALSE))
  /\ UNCHANGED <<sessions, granted, asked, opened>>

Publish ==
  /\ asked < MaxMessages /\ spent["handshake"] > 0
  /\ asked' = asked + 1
  /\ Turn(IF page.batch > 0 \/ page.held THEN [page EXCEPT !.queue = Append(@, Message(asked'))]
          ELSE SendMessages(page, <<Message(asked')>>, FALSE))
  /\ UNCHANGED <<sessions, granted, opened, spent>>

StartBatch ==
  /\ ~opened /\ Spend("batch")
  /\ opened' = TRUE /\ Turn([page EXCEPT !.batch = @ + 1])
  /\ UNCHANGED <<sessions, granted, asked>>

EndBatch ==
  /\ opened /\ opened' = FALSE
  /\ LET p == [page EXCEPT !.batch = @ - 1]
     IN  Turn(IF p.batch = 0 /\ ~Disconnected(p) /\ ~p.held THEN FlushBatch(p)
              ELSE IF p.queue # <<>> /\ ~p.held THEN Because(p, "kept") ELSE p)
  /\ UNCHANGED <<sessions, granted, asked, spent>>

\* The timer of _delayedSend(), in any order with the others.
Due ==
  /\ page.due # "none"
  /\ LET p == [page EXCEPT !.due = "none"]
     IN  Turn(IF page.due = "connect" THEN Connect(p) ELSE Handshake(p))
  /\ UNCHANGED <<sessions, granted, asked, opened, spent>>

\* jQuery's poll finds the request done.
Poll(r) ==
  /\ \/ page.req[r].xhr = "answered" /\ Turn(HandleResponse(Over(r), r))
     \/ page.req[r].xhr = "broken"   /\ Turn(HandleFailure(Over(r), r))
     \/ page.req[r].xhr = "garbled"
        /\ Turn([Because(Over(r), "garbled") EXCEPT !.lost = @ \cup Published(page.req[r].msgs)])
  /\ UNCHANGED <<sessions, granted, asked, opened, spent>>

\* The setTimeout(.., 0) of an envelope given up.
GivenUp(r) ==
  /\ page.req[r].xhr = "failing"
  /\ Turn(HandleFailure(Over(r), r))
  /\ UNCHANGED <<sessions, granted, asked, opened, spent>>

\* Mutant of Expire: the request is not aborted, and the server still answers it.
ExpireAlive(r) ==
  /\ page.req[r].timer
  /\ IF page.req[r].xhr = "none" THEN UNCHANGED spent ELSE Spend("silence")
  /\ Turn(HandleFailure([page EXCEPT !.req[r].timer = FALSE], r))
  /\ UNCHANGED <<sessions, granted, asked, opened>>

\* Its timer runs out: the request is aborted, if it is still out, and has failed.
Expire(r) ==
  /\ page.req[r].timer
  /\ IF page.req[r].xhr = "none" THEN UNCHANGED spent ELSE Spend("silence")
  /\ Turn(HandleFailure(Over(r), r))
  /\ UNCHANGED <<sessions, granted, asked, opened>>

-----------------------------------------------------------------------------
(* The network and the server.                                             *)

Reply(msg, ok) == [what |-> msg.what, number |-> msg.number, ok |-> ok, client |-> 0, advice |-> "", unsupported |-> FALSE]
Arrives(r, reply) == page' = [page EXCEPT !.req[r].xhr = "answered", !.req[r].reply = reply]

AnswerHandshake(r, msg) ==
  \/ /\ granted' = granted + 1 /\ sessions' = sessions \cup {granted'}
     /\ \E a \in {"retry", "none"}, u \in BOOLEAN :
          /\ CASE a = "none" /\ ~u  -> Spend("none")
               [] a = "retry" /\ u  -> Spend("unsupported")
               [] a = "retry" /\ ~u -> UNCHANGED spent
               [] OTHER             -> FALSE
          /\ Arrives(r, <<[Reply(msg, TRUE) EXCEPT !.client = granted', !.advice = a, !.unsupported = u]>>)
  \/ /\ Spend("refuse") /\ UNCHANGED <<sessions, granted>>
     /\ Arrives(r, <<[Reply(msg, FALSE) EXCEPT !.advice = "handshake"]>>)

\* A poll of a session that ended while it was held returns as it would have, or is refused.
AnswerConnect(r, msg) ==
  /\ \E ok \in BOOLEAN, a \in {"retry", "none"} :
       /\ ok => msg.client # 0
       /\ ~ok => msg.client \notin sessions
       /\ IF a = "none" THEN ok /\ Spend("none") ELSE UNCHANGED spent
       /\ Arrives(r, <<[Reply(msg, ok) EXCEPT !.advice = IF ok THEN a ELSE "handshake"]>>)
  /\ UNCHANGED <<sessions, granted>>

AnswerDisconnect(r, msg) ==
  /\ Arrives(r, <<Reply(msg, msg.client \in sessions)>>)
  /\ sessions' = sessions \ {msg.client}
  /\ UNCHANGED <<granted, spent>>

AnswerMessages(r) ==
  /\ LET msgs == page.req[r].msgs
     IN  Arrives(r, [i \in DOMAIN msgs |-> Reply(msgs[i], msgs[i].client \in sessions)])
  /\ UNCHANGED <<sessions, granted, spent>>

Answer(r) ==
  /\ page.req[r].xhr = "open"
  /\ LET msg == Head(page.req[r].msgs)
     IN  \/ msg.what = "handshake"  /\ AnswerHandshake(r, msg)
         \/ msg.what = "connect"    /\ AnswerConnect(r, msg)
         \/ msg.what = "disconnect" /\ AnswerDisconnect(r, msg)
         \/ msg.what = "publish"    /\ AnswerMessages(r)
  /\ UNCHANGED <<asked, opened>>

Fault(r) ==
  /\ page.req[r].xhr = "open"
  /\ \/ Spend("error")   /\ page' = [page EXCEPT !.req[r].xhr = "broken"]
     \/ Spend("garbled") /\ page' = [page EXCEPT !.req[r].xhr = "garbled"]
  /\ UNCHANGED <<sessions, granted, asked, opened>>

\* The next send() throws: the network is down.
BreakNext ==
  /\ ~page.breaks /\ Spend("throws") /\ page' = [page EXCEPT !.breaks = TRUE]
  /\ UNCHANGED <<sessions, granted, asked, opened>>

\* The server restarts, or gives up a client it has not heard.
Forget ==
  /\ sessions # {} /\ Spend("forget") /\ sessions' = {}
  /\ UNCHANGED <<page, granted, asked, opened>>

Application ==
  \/ AppHandshake \/ AppDisconnect \/ Publish \/ StartBatch \/ EndBatch
TimersFire  == Due \/ \E r \in Slots : Poll(r) \/ GivenUp(r) \/ Expire(r)
Network == BreakNext \/ Forget \/ \E r \in Slots : Answer(r) \/ Fault(r)

PageNext == Room /\ (Application \/ TimersFire \/ Network)

PageSpec == PageInit /\ [][PageNext]_pageVars

-----------------------------------------------------------------------------
(* Properties.  `why` names what has happened that the code does not stand: *)
(* an answer that is not JSON ("garbled"), a server that will have nothing  *)
(* ("none") or shares no transport ("unsupported"), a request that is over  *)
(* when it is listed no more, being forgotten or given up ("stray"), a      *)
(* handshake() while a send is scheduled ("overtaken"), a batch that ends   *)
(* while the page disconnects ("kept"), a send that throws ("throws").  A   *)
(* property says which of them it excepts: without the exception it fails.  *)

Unless(reasons) == page.why \cap reasons = {}
Carries(r, what, m) == \E i \in DOMAIN page.req[r].msgs :
  page.req[r].msgs[i].what = what /\ page.req[r].msgs[i].number = m
CallsBack(r)      == page.req[r].xhr # "none" \/ page.req[r].timer
UnderWay(what, m) == \E r \in Slots : CallsBack(r) /\ Carries(r, what, m)

\* The state is of its type.  In it: the requests that are not long polls leave one of the
\* connections free (queueSend() of the transport), and `_batch` falls to -1, no further,
\* when a session ends within a batch.
PageTypeOK ==
  /\ page.status \in Phases /\ page.client \in 0..granted /\ page.batch \in -1..1
  /\ Published(page.queue) \subseteq 1..asked /\ page.backoff \in 0..MaxBackoff
  /\ page.due \in {"none", "connect", "handshake"} /\ page.advice \in Advice
  /\ page.longpoll \in Slots \cup {0} /\ page.requests \in Seq(Slots) /\ page.envelopes \in Seq(Slots)
  /\ Len(page.requests) < MaxConnections
  /\ ~page.threw
  /\ sessions \subseteq 1..granted

\* Whatever fails, and in whatever order answers and timers come, a page that says it
\* handshakes, connects or is connected has a send scheduled or a handshake or connect that
\* will call back, and one that disconnects has its disconnect under way: the retries of
\* _connectFailure(), _handshakeFailure() and _connectResponse() never leave it waiting for
\* nothing.
NeverStuck == Unless({"none", "unsupported", "garbled"}) =>
  /\ page.status \in {"handshaking", "connecting", "connected"} =>
       page.due # "none" \/ UnderWay("handshake", 0) \/ UnderWay("connect", 0)
  /\ page.status = "disconnecting" => UnderWay("disconnect", 0)

\* A published message is in the queue, or in a request that will call back, or the
\* application has been told of it once (twice if its send threw: transportSend() reports
\* that failure itself and its timer reports it again), or it is one of those the code drops
\* without a word: the queue of _disconnect(), the envelopes of reset(), a garbled answer.
Accounted ==
  \A m \in 1..asked :
     \/ m \in Published(page.queue) \/ UnderWay("publish", m)
     \/ page.told[m] \in (IF "throws" \in page.why THEN {1, 2} ELSE {1}) \/ m \in page.lost

\* Messages leave the page in the order in which they were published: the queue held back
\* by a batch or by the handshake goes before what is published after it, and envelopes
\* that wait for a connection are sent first come, first served.
InOrder == [][Unless({"stray", "kept"}) => page'.last >= page.last]_pageVars

\* A connect on the wire names a session -- no timer, retry or late answer makes the page
\* poll before it has shaken hands or after it has given its session up -- and no two long
\* polls of one session are on the wire, those that expired, were aborted or are tried
\* again included: the server would answer the older at once, and the two chase each other.
OneLongpoll ==
  \A r \in Slots : page.req[r].xhr \in OnWire /\ page.req[r].poll =>
    LET client(x) == page.req[x].msgs[1].client
    IN  /\ Unless({"stray", "overtaken", "throws"}) => client(r) # 0
        /\ \A x \in Slots \ {r} :
             page.req[x].xhr \in OnWire /\ page.req[x].poll /\ client(x) = client(r) => client(r) = 0

=============================================================================
