-------------------------- MODULE CometdWireProofs --------------------------
(***************************************************************************)
(* What the page has on the wire, for any number of messages, requests,    *)
(* connections and steps of the backoff, and any budget of misfortunes.    *)
(*                                                                         *)
(* Apart and Round, whose session a long poll is and what the page waits   *)
(* for, are carried along the chains of functions of a turn as W is in     *)
(* CometdProofs: the lemmas Lesser..., Goes..., Apart..., Round... and     *)
(* Once... are about the functions, Rounds... about whole turns.  So are   *)
(* Tidy, Lined and Held, how what has yet to be sent is in order: Lapses...*)
(* and Follows... are about the functions, Ordered... about whole turns.   *)
(***************************************************************************)
EXTENDS CometdProofs

-----------------------------------------------------------------------------
(* Whose session a long poll is.                                           *)

\* The request r is a long poll on the wire, of a session.
OnPoll(p, r) == p.req[r].poll /\ p.req[r].xhr \in OnWire
Of(p, r)     == p.req[r].msgs[1].client
\* The answer gives a session.
Grants(p, r) == p.req[r].xhr = "answered" /\ p.req[r].reply[1].what = "handshake" /\ p.req[r].reply[1].ok
Given(p, r)  == p.req[r].reply[1].client

\* Of the n sessions there have been, no two long polls have the same one, only the one the
\* transport remembers has that of the page, and what is given, or in hand (g), is new.
Apart(p, n, g) ==
  /\ p.client \in 0..n /\ g \in 0..n /\ (g # 0 => g # p.client)
  /\ \A r \in Slots : OnPoll(p, r) =>
       /\ Of(p, r) \in 0..n /\ (g # 0 => Of(p, r) # g)
       /\ r # p.longpoll => Of(p, r) = 0 \/ Of(p, r) # p.client
       /\ \A s \in Slots : s # r /\ OnPoll(p, s) => Of(p, s) = 0 \/ Of(p, s) # Of(p, r)
  /\ \A r \in Slots : Grants(p, r) =>
       /\ Given(p, r) \in 1..n /\ Given(p, r) # p.client /\ Given(p, r) # g
       /\ \A s \in Slots : OnPoll(p, s) => Of(p, s) # Given(p, r)
       /\ \A s \in Slots : s # r /\ Grants(p, s) => Given(p, s) # Given(p, r)

\* No long poll is new, nor a session, and one that is forgotten is not that of the page.
Alike(a, b) == b.xhr = a.xhr /\ Kept(a, b)
Lesser(p, q) ==
  /\ q.client \in {p.client, 0}
  /\ q.longpoll = p.longpoll \/ (q.longpoll = 0 /\ (q.client = 0 \/ ~OnPoll(q, p.longpoll)))
  /\ \A r \in Slots : q.req[r].xhr \in OnWire => (~q.req[r].poll /\ q.req[r].xhr = "open") \/ Alike(p.req[r], q.req[r])

LEMMA LesserShows ==
  ASSUME NEW p, NEW q, Lesser(p, q), NEW r \in Slots
  PROVE  /\ OnPoll(q, r) => OnPoll(p, r) /\ Of(q, r) = Of(p, r)
         /\ Grants(q, r) => Grants(p, r) /\ Given(q, r) = Given(p, r)
  BY DEF Lesser, OnPoll, Of, Grants, Given, Alike, Kept, OnWire

LEMMA LesserTrans ==
  ASSUME NEW p, NEW q, Lesser(p, q), NEW s, Lesser(q, s), p.longpoll \in Slots \cup {0}
  PROVE  Lesser(p, s)
<1>1. s.client \in {p.client, 0}
  BY DEF Lesser
<1>2. ASSUME NEW r \in Slots, s.req[r].xhr \in OnWire
      PROVE  (~s.req[r].poll /\ s.req[r].xhr = "open") \/ Alike(p.req[r], s.req[r])
  <2>1. SUFFICES ASSUME Alike(q.req[r], s.req[r])
                 PROVE  (~s.req[r].poll /\ s.req[r].xhr = "open") \/ Alike(p.req[r], s.req[r])
    BY <1>2 DEF Lesser
  <2>2. (~q.req[r].poll /\ q.req[r].xhr = "open") \/ Alike(p.req[r], q.req[r])
    BY <1>2, <2>1 DEF Lesser, Alike
  <2> QED
    BY <2>1, <2>2 DEF Alike, Kept
<1>3. s.longpoll = p.longpoll \/ (s.longpoll = 0 /\ (s.client = 0 \/ ~OnPoll(s, p.longpoll)))
  <2>1. CASE q.longpoll = p.longpoll
    BY <2>1 DEF Lesser
  <2>2. CASE q.longpoll = 0 /\ q.client = 0
    BY <2>2 DEF Lesser
  <2>3. CASE q.longpoll = 0 /\ ~OnPoll(q, p.longpoll) /\ p.longpoll # 0
    <3>1. ~OnPoll(s, p.longpoll)
      BY <2>3, LesserShows
    <3> QED
      BY <2>3, <3>1 DEF Lesser
  <2> QED
    BY <2>1, <2>2, <2>3 DEF Lesser
<1> QED
  BY <1>1, <1>2, <1>3 DEF Lesser

LEMMA ApartLesser ==
  ASSUME NEW p, NEW n \in Nat, NEW g, Apart(p, n, g), NEW q, Lesser(p, q), p.longpoll \in Slots \cup {0}
  PROVE  Apart(q, n, g)
<1>1. \A r \in Slots : /\ OnPoll(q, r) => OnPoll(p, r) /\ Of(q, r) = Of(p, r)
                       /\ Grants(q, r) => Grants(p, r) /\ Given(q, r) = Given(p, r)
  BY LesserShows
<1>2. q.client \in {p.client, 0} /\ p.client \in 0..n /\ g \in 0..n
  BY DEF Lesser, Apart
<1>3. \A r \in Slots : OnPoll(q, r) /\ r # q.longpoll => r # p.longpoll \/ q.client = 0
  BY DEF Lesser
<1>4. ASSUME NEW r \in Slots, OnPoll(q, r)
      PROVE  /\ Of(q, r) \in 0..n /\ (g # 0 => Of(q, r) # g)
             /\ r # q.longpoll => Of(q, r) = 0 \/ Of(q, r) # q.client
             /\ \A s \in Slots : s # r /\ OnPoll(q, s) => Of(q, s) = 0 \/ Of(q, s) # Of(q, r)
  <2>1. OnPoll(p, r) /\ Of(q, r) = Of(p, r)
    BY <1>1, <1>4
  <2>2. Of(q, r) \in 0..n /\ (g # 0 => Of(q, r) # g)
    BY <2>1 DEF Apart
  <2>3. r # q.longpoll => Of(q, r) = 0 \/ Of(q, r) # q.client
    BY <2>1, <1>2, <1>3, <1>4 DEF Apart
  <2>4. \A s \in Slots : s # r /\ OnPoll(q, s) => Of(q, s) = 0 \/ Of(q, s) # Of(q, r)
    BY <2>1, <1>1 DEF Apart
  <2> QED
    BY <2>2, <2>3, <2>4
<1>5. ASSUME NEW r \in Slots, Grants(q, r)
      PROVE  /\ Given(q, r) \in 1..n /\ Given(q, r) # q.client /\ Given(q, r) # g
             /\ \A s \in Slots : OnPoll(q, s) => Of(q, s) # Given(q, r)
             /\ \A s \in Slots : s # r /\ Grants(q, s) => Given(q, s) # Given(q, r)
  <2>1. Grants(p, r) /\ Given(q, r) = Given(p, r)
    BY <1>1, <1>5
  <2>2. Given(p, r) \in 1..n /\ Given(p, r) # p.client /\ Given(p, r) # g
    BY <2>1 DEF Apart
  <2>3. Given(q, r) # q.client
    BY <2>1, <2>2, <1>2
  <2>4. \A s \in Slots : OnPoll(q, s) => Of(q, s) # Given(q, r)
    BY <2>1, <1>1 DEF Apart
  <2>5. \A s \in Slots : s # r /\ Grants(q, s) => Given(q, s) # Given(q, r)
    BY <2>1, <1>1 DEF Apart
  <2> QED
    BY <2>1, <2>2, <2>3, <2>4, <2>5
<1> QED
  BY <1>2, <1>4, <1>5 DEF Apart

-----------------------------------------------------------------------------
(* One round at a time.                                                    *)

\* What the page does not stand.
Doubts == {"stray", "overtaken", "throws"}
Doubted(p) == p.why \cap Doubts # {}
\* The handshakes that have a connection or wait for one.
Handshakes(p) == {r \in Listed(p) : OneMeta(p.req[r].msgs, "handshake")}
Seated(p) == p.client # 0 \/ Disconnected(p)

\* At most one is under way or in hand (w): a handshake, a send that is due, a long poll.
Round(p, w) == Doubted(p) \/
  /\ \A r, s \in Handshakes(p) : r = s
  /\ Handshakes(p) # {} => p.due = "none" /\ p.longpoll = 0
  /\ p.due # "none" => p.longpoll = 0
  /\ w \in {"handshake", "connect"} => Handshakes(p) = {} /\ p.due = "none" /\ p.longpoll = 0
  /\ p.due = "connect" => p.client # 0
  /\ p.longpoll # 0 \/ w = "connect" => Seated(p)
  /\ \A r \in Slots : OnPoll(p, r) => Of(p, r) # 0

\* Nothing is planned, and the handshakes are those there were, but for those of R.
Goes(p, q, R) ==
  /\ p.why \subseteq q.why /\ Lesser(p, q)
  /\ \/ Doubted(q)
     \/ Plan(p, q) /\ q.client = p.client /\ q.longpoll = p.longpoll /\ Handshakes(q) \subseteq Handshakes(p) \cup R

LEMMA GoesTrans ==
  ASSUME NEW p, NEW q, NEW R, Goes(p, q, R), NEW s, Goes(q, s, R), p.longpoll \in Slots \cup {0}
  PROVE  Goes(p, s, R)
<1>1. Lesser(p, s)
  BY LesserTrans DEF Goes
<1>2. Doubted(q) => Doubted(s)
  BY DEF Goes, Doubted
<1> QED
  BY <1>1, <1>2 DEF Goes, Plan

LEMMA RoundGoes ==
  ASSUME NEW p, NEW w, Round(p, w), NEW q, Goes(p, q, {})
  PROVE  Round(q, w)
<1>1. SUFFICES ASSUME ~Doubted(q)
               PROVE  Round(q, w)
  BY DEF Round
<1>2. ~Doubted(p)
  BY <1>1 DEF Goes, Doubted
<1>3. Plan(p, q) /\ q.client = p.client /\ q.longpoll = p.longpoll /\ Handshakes(q) \subseteq Handshakes(p)
  BY <1>1 DEF Goes
<1>4. \A r \in Slots : OnPoll(q, r) => OnPoll(p, r) /\ Of(q, r) = Of(p, r)
  BY LesserShows DEF Goes
<1>5. Seated(p) => Seated(q)
  BY <1>3 DEF Seated, Plan, Disconnected
<1> QED
  BY <1>2, <1>3, <1>4, <1>5 DEF Round, Plan

\* Only what is to be done next changes, or the rest of the object.
LEMMA LesserSame ==
  ASSUME NEW p, NEW q, q.client \in {p.client, 0}, q.longpoll = p.longpoll, q.req = p.req
  PROVE  Lesser(p, q)
  BY DEF Lesser, Alike, Kept

LEMMA LesserMoves ==
  ASSUME NEW p, NEW q, Moves(p, q)
  PROVE  Lesser(p, q)
  BY LesserSame DEF Moves, Wires, Calm

\* A request that is over is let go.
LEMMA LesserLetGo ==
  ASSUME NEW p \in PageRec, Distinct(p.requests), NEW r \in Slots, p.longpoll = r => ~OnPoll(p, r), NEW q, q = LetGo(p, r)
  PROVE  Lesser(p, q)
<1>1. q.client = p.client /\ q.req = p.req
  BY LetGoIs DEF Same
<1>2. q.longpoll = p.longpoll \/ (q.longpoll = 0 /\ p.longpoll = r)
  <2>1. CASE ~p.req[r].poll
    BY <2>1, LetGoPlain
  <2>2. CASE OwnPoll(p, r)
    BY <2>2, LetGoPoll DEF OwnPoll
  <2>3. CASE Clash(p, r)
    BY <2>3, LetGoClash
  <2> QED
    BY <2>1, <2>2, <2>3 DEF OwnPoll, Clash
<1> QED
  BY <1>1, <1>2 DEF Lesser, Alike, Kept, OnPoll

LEMMA LesserGiveUpNext ==
  ASSUME NEW p \in PageRec, NEW q, q = GiveUpNext(p)
  PROVE  Lesser(p, q)
<1>1. CASE p.envelopes = <<>>
  <2>1. q = p
    BY <1>1, GiveUpNextIs
  <2> QED
    BY <2>1, LesserSame
<1>2. CASE p.envelopes # <<>>
  <2> DEFINE e == Head(p.envelopes)
  <2>1. /\ q.longpoll = p.longpoll /\ q.client = p.client
        /\ q.req[e] = [p.req[e] EXCEPT !.xhr = "failing"] /\ \A r \in Slots \ {e} : q.req[r] = p.req[r]
    BY <1>2, GiveUpNextIs DEF Calm
  <2>2. e \in Slots /\ p.req[e] \in Request
    BY <1>2, TailOf DEF PageRec
  <2>3. q.req[e].xhr = "failing"
    BY <2>1, <2>2, XhrIs DEF Xhr
  <2> QED
    BY <2>1, <2>2, <2>3 DEF Lesser, Alike, Kept, OnWire
<1> QED
  BY <1>1, <1>2

LEMMA LesserDisconnect ==
  ASSUME NEW p \in PageRec, NEW abort \in BOOLEAN, NEW q, q = Disconnect(p, abort)
  PROVE  Lesser(p, q)
<1>1. q.client = 0
  BY DisconnectIs
<1>2. /\ ~abort => Wires(p, q)
      /\ abort => /\ q.requests = <<>> /\ q.envelopes = <<>> /\ q.longpoll = 0
                  /\ \A r \in Slots : q.req[r] = Aborted(p, r)
  BY DisconnectIs
<1>4. CASE Wires(p, q)
  BY <1>1, <1>4, LesserSame DEF Wires
<1>5. CASE abort
  <2>1. q.longpoll = 0 /\ \A r \in Slots : q.req[r] = Aborted(p, r)
    BY <1>2, <1>5
  <2>2. ASSUME NEW r \in Slots, q.req[r].xhr \in OnWire
        PROVE  Alike(p.req[r], q.req[r])
    <3>1. Aborted(p, r) = NoRequest \/ (Kept(p.req[r], Aborted(p, r)) /\ Aborted(p, r).xhr \in {p.req[r].xhr, "none"})
      BY AbortedIs
    <3>2. NoRequest.xhr = "none"
      BY DEF NoRequest
    <3> QED
      BY <2>1, <2>2, <3>1, <3>2 DEF Alike, OnWire
  <2> QED
    BY <1>1, <2>1, <2>2 DEF Lesser
<1> QED
  BY <1>2, <1>4, <1>5

LEMMA LesserReports ==
  ASSUME NEW p \in PageRec, NEW msgs, NEW q, Reports(p, q, msgs)
  PROVE  Lesser(p, q)
<1>1. CASE q = HandshakeFailed(p)
  BY <1>1, HandshakeFailedIs, LesserMoves
<1>2. CASE q = ConnectFailure(p)
  BY <1>2, ConnectFailureIs, LesserMoves
<1>3. CASE q = Disconnect(p, TRUE)
  <2>1. PICK b \in BOOLEAN : b = TRUE
    OBVIOUS
  <2>2. q = Disconnect(p, b)
    BY <1>3, <2>1
  <2> QED
    BY <2>2, LesserDisconnect
<1>4. CASE q = TellAll(p, Published(msgs))
  BY <1>4, TellAllIs, LesserSame DEF Wires, Calm
<1> QED
  BY <1>1, <1>2, <1>3, <1>4 DEF Reports

LEMMA LesserDropped ==
  ASSUME NEW p \in PageRec, Distinct(p.requests), NEW r \in Slots, p.longpoll = r => ~OnPoll(p, r), NEW q, q = Dropped(p, r)
  PROVE  Lesser(p, q)
<1> DEFINE g == LetGo(p, r)
<1>1. Lesser(p, g) /\ g \in PageRec /\ p.longpoll \in Slots \cup {0}
  BY LesserLetGo, LetGoIs DEF Same, PageRec
<1>2. Lesser(g, GiveUpNext(g))
  BY <1>1, LesserGiveUpNext
<1> QED
  BY <1>1, <1>2, LesserTrans DEF Dropped

LEMMA LesserFailure ==
  ASSUME NEW p, NEW r \in Slots, W(p, r), ~p.threw, p.longpoll = r => ~OnPoll(p, r), NEW q, q = HandleFailure(p, r)
  PROVE  Lesser(p, q)
<1>1. p \in PageRec /\ Distinct(p.requests) /\ p.longpoll \in Slots \cup {0} /\ Formed(p.req[r])
  BY DEF W, PageRec
<1>2. CASE LetGo(p, r).threw
  BY <1>1, <1>2, HandleFailureIs, LesserLetGo
<1>3. CASE ~LetGo(p, r).threw
  <2> DEFINE d == Dropped(p, r)
  <2>1. Reports(d, q, p.req[r].msgs)
    BY <1>1, <1>3, HandleFailureIs
  <2>2. Lesser(p, d) /\ d \in PageRec
    BY <1>1, LesserDropped, DroppedType
  <2>3. Lesser(d, q)
    BY <2>1, <2>2, LesserReports
  <2> QED
    BY <1>1, <2>2, <2>3, LesserTrans
<1> QED
  BY <1>2, <1>3

-----------------------------------------------------------------------------
(* Sending is no new round.                                                *)

\* The request that is sent is no long poll, or does not get on the wire.
LEMMA LesserLaunched ==
  ASSUME NEW p, NEW r \in Slots, NEW x \in {"open", "none"}, x = "open" => ~p.req[r].poll, NEW q, Launched(p, q, r, x)
  PROVE  Lesser(p, q)
<1>1. /\ q.longpoll = p.longpoll /\ q.client = p.client /\ \A s \in Slots \ {r} : q.req[s] = p.req[s]
      /\ q.req[r].xhr = x /\ q.req[r].poll = p.req[r].poll
  BY DEF Launched, Calm, Kept
<1> QED
  BY <1>1 DEF Lesser, Alike, Kept, OnWire

LEMMA LesserTransportSend ==
  ASSUME NEW p, NEW r, Ready(p, r), p.breaks \/ ~p.req[r].poll, NEW q, q = TransportSend(p, r)
  PROVE  Lesser(p, q)
<1>1. CASE ~p.breaks
  BY <1>1, SendWorks, LesserLaunched DEF Ready
<1>2. CASE p.breaks
  <2> DEFINE u == Unbroken(p)
             f == HandleFailure(u, r)
  <2>1. p \in PageRec /\ r \in Slots /\ p.longpoll # r /\ ~p.threw /\ p.longpoll \in Slots \cup {0} /\ r # 0
    BY CometdAssumption DEF Ready, W, Loose, PageRec
  <2>2. W(u, r) /\ ~u.threw /\ u.longpoll = p.longpoll /\ Lesser(p, u)
    <3>1. W(u, r)
      BY FailsAtOnce
    <3>2. Wires(p, u) /\ u.client = p.client /\ u.threw = p.threw
      BY <2>1, UnbrokenIs
    <3> QED
      BY <2>1, <3>1, <3>2, LesserSame DEF Wires
  <2>3. Lesser(u, f)
    BY <2>1, <2>2, LesserFailure
  <2>4. Launched(f, q, r, "none")
    BY <1>2, SendThrows
  <2>5. Lesser(f, q)
    <3> HIDE DEF f
    <3> QED
      BY <2>1, <2>4, LesserLaunched
  <2>6. Lesser(p, f)
    BY <2>1, <2>2, <2>3, LesserTrans
  <2> QED
    BY <2>1, <2>5, <2>6, LesserTrans
<1> QED
  BY <1>1, <1>2

\* Lists and messages are kept by the send.
LEMMA HandshakesSame ==
  ASSUME NEW p, NEW q, Listed(q) \subseteq Listed(p), \A r \in Listed(q) : q.req[r].msgs = p.req[r].msgs
  PROVE  Handshakes(q) \subseteq Handshakes(p)
  BY DEF Handshakes

LEMMA GoesTransportSend ==
  ASSUME NEW p, NEW r, Ready(p, r), ~p.req[r].poll, NEW R, NEW q, q = TransportSend(p, r)
  PROVE  Goes(p, q, R)
<1>1. Lesser(p, q) /\ p.why \subseteq q.why
  BY LesserTransportSend, WTransportSend
<1>2. CASE ~p.breaks
  <2>1. Launched(p, q, r, "open") /\ W(p, r)
    BY <1>2, SendWorks DEF Ready
  <2>2. Listed(q) = Listed(p) /\ Plan(p, q) /\ q.client = p.client /\ q.longpoll = p.longpoll
    BY <2>1 DEF Launched, Listed, Calm
  <2>3. \A s \in Slots : q.req[s].msgs = p.req[s].msgs
    BY <2>1 DEF Launched, Kept
  <2>4. Listed(p) \subseteq Slots
    BY <2>1, Members DEF W, PageRec, Listed
  <2> QED
    BY <1>1, <2>2, <2>3, <2>4, HandshakesSame DEF Goes
<1>3. CASE p.breaks
  <2>1. "throws" \in q.why
    BY <1>3, SendThrows
  <2> QED
    BY <1>1, <2>1 DEF Goes, Doubted, Doubts
<1> QED
  BY <1>2, <1>3

\* Only the lists change, and the messages of what is listed stay.
LEMMA GoesSame ==
  ASSUME NEW p, NEW q, q.why = p.why, Plan(p, q), q.client = p.client, q.longpoll = p.longpoll, Lesser(p, q),
         NEW R, Handshakes(q) \subseteq Handshakes(p) \cup R
  PROVE  Goes(p, q, R)
  BY DEF Goes

LEMMA GoesQueueSend ==
  ASSUME NEW p, NEW r, Ready(p, r), ~p.req[r].poll, NEW q, q = QueueSend(p, r)
  PROVE  Goes(p, q, {r}) /\ q.req[r].msgs = p.req[r].msgs
<1>1. p \in PageRec /\ r \in Slots /\ p.longpoll \in Slots \cup {0} /\ p.requests \in Seq(Slots) /\ p.envelopes \in Seq(Slots)
  BY WType DEF Ready, PageRec
<1>2. CASE Len(p.requests) < MaxConnections - 1
  <2> DEFINE t == TransportSend(p, r)
  <2>1. Goes(p, t, {r}) /\ q = Enlisted(t, r)
    BY <1>2, QueueSendIs, GoesTransportSend
  <2>2. W(t, 0) /\ Kept(p.req[r], t.req[r])
    BY WTransportSend
  <2> HIDE DEF t
  <2>3. t \in PageRec /\ t.requests \in Seq(Slots)
    BY <2>2, WType DEF PageRec
  <2>4. /\ q.requests = Append(t.requests, r) /\ q.req = t.req /\ q.envelopes = t.envelopes /\ q.longpoll = t.longpoll
        /\ Calm(t, q) /\ Plan(t, q) /\ q.why = t.why
    BY <1>1, <2>1, <2>3, EnlistedIs
  <2>5. Listed(q) = Listed(t) \cup {r}
    BY <1>1, <2>3, <2>4, Appended DEF Listed
  <2>6. Handshakes(q) \subseteq Handshakes(t) \cup {r}
    BY <2>4, <2>5 DEF Handshakes
  <2>7. Lesser(t, q)
    BY <2>4, LesserSame DEF Calm
  <2>8. Goes(t, q, {r})
    BY <2>4, <2>6, <2>7, GoesSame DEF Calm
  <2> QED
    BY <1>1, <2>1, <2>2, <2>4, <2>8, GoesTrans DEF Kept
<1>3. CASE ~(Len(p.requests) < MaxConnections - 1)
  <2>1. q = Enveloped(p, r)
    BY <1>3, QueueSendIs
  <2>2. /\ q.envelopes = Append(p.envelopes, r) /\ q.requests = p.requests /\ q.longpoll = p.longpoll
        /\ Calm(p, q) /\ Plan(p, q) /\ q.why = p.why
    <3>1. q.envelopes = Append(p.envelopes, r) /\ q.requests = p.requests /\ q.longpoll = p.longpoll
      BY <1>1, <2>1, EnvelopedIs
    <3>2. Calm(p, q) /\ Plan(p, q) /\ q.why = p.why
      BY <1>1, <2>1, EnvelopedIs
    <3> QED
      BY <3>1, <3>2
  <2>6. /\ Kept(p.req[r], q.req[r]) /\ q.req[r].xhr = "waiting" /\ \A s \in Slots \ {r} : q.req[s] = p.req[s]
    BY SMTT(60), <1>1, <2>1, EnvelopedIs
  <2>3. Listed(q) = Listed(p) \cup {r} /\ Listed(p) \subseteq Slots
    BY <1>1, <2>2, Appended, Members DEF Listed
  <2>4. Handshakes(q) \subseteq Handshakes(p) \cup {r}
    BY <2>3, <2>6 DEF Handshakes
  <2>5. Lesser(p, q)
    BY <2>2, <2>6 DEF Lesser, Alike, Kept, OnWire, Calm
  <2> QED
    BY <2>2, <2>4, <2>5, <2>6, GoesSame DEF Calm, Kept
<1> QED
  BY <1>2, <1>3

\* The request joins them only if it is a handshake that was not listed.
LEMMA GoesOne ==
  ASSUME NEW p, NEW q, NEW r, Goes(p, q, {r}), OneMeta(q.req[r].msgs, "handshake") => r \in Handshakes(p)
  PROVE  Goes(p, q, {})
  BY DEF Goes, Handshakes

LEMMA GoesBegun ==
  ASSUME NEW p \in PageRec, NEW r \in Free(p), NEW msgs, NEW c, Begun(p, c, r, msgs)
  PROVE  /\ Goes(p, c, {}) /\ c.req[r].msgs = Carried(msgs, p.client) /\ c.req[r].xhr = "none" /\ msgs \in Seq(Msg)
         /\ c.client = p.client /\ c.longpoll = p.longpoll /\ c.why = p.why /\ Plan(p, c) /\ Handshakes(c) \subseteq Handshakes(p)
<1>1. PICK b \in BOOLEAN : c = Fresh(p, r, msgs, b) /\ Fit(msgs, b)
  BY DEF Begun
<1>2. r \in Slots /\ Loose(p, r) /\ msgs \in Seq(Msg)
  BY <1>1, FreeIs DEF Fit
<1>3. /\ c.requests = p.requests /\ c.envelopes = p.envelopes /\ c.longpoll = p.longpoll
      /\ Calm(p, c) /\ Plan(p, c) /\ c.why = p.why
      /\ c.req[r].msgs = Carried(msgs, p.client) /\ c.req[r].xhr = "none"
      /\ \A s \in Slots \ {r} : c.req[s] = p.req[s]
  BY <1>1, <1>2, FreshIs
<1>4. Listed(c) = Listed(p) /\ Listed(p) \subseteq Slots \ {r}
  BY <1>2, <1>3, Members DEF Listed, Loose, PageRec
<1>5. Handshakes(c) \subseteq Handshakes(p)
  BY <1>3, <1>4, HandshakesSame
<1>6. Lesser(p, c)
  BY <1>3 DEF Lesser, Alike, Kept, OnWire, Calm
<1> QED
  BY <1>2, <1>3, <1>5, <1>6, GoesSame DEF Calm

LEMMA GoesSendMessages ==
  ASSUME NEW p, W(p, 0), ~p.threw, Free(p) # {}, NEW msgs, Plain(msgs), NEW q, q = SendPlain(p, msgs)
  PROVE  /\ \E r : Goes(p, q, {r})
         /\ ~OneMeta(msgs, "handshake") => Goes(p, q, {})
<1>1. p \in PageRec /\ p.client \in Nat /\ p.longpoll \in Slots \cup {0}
  BY WType DEF PageRec
<1>2. PICK r \in Free(p) : \E c : /\ Begun(p, c, r, msgs) /\ ~c.req[r].poll /\ Ready(c, r)
                                   /\ q = QueueSend(c, r)
  BY SendsQueued
<1>3. PICK c : /\ Begun(p, c, r, msgs) /\ ~c.req[r].poll /\ Ready(c, r)
               /\ q = QueueSend(c, r)
  BY <1>2
<1>4. Goes(p, c, {}) /\ c.req[r].msgs = Carried(msgs, p.client) /\ msgs \in Seq(Msg)
  BY <1>1, <1>3, GoesBegun
<1>5. Goes(c, q, {r}) /\ q.req[r].msgs = Carried(msgs, p.client)
  BY <1>3, <1>4, GoesQueueSend
<1>6. Goes(p, c, {r})
  BY <1>4 DEF Goes
<1>7. Goes(p, q, {r})
  BY <1>1, <1>5, <1>6, GoesTrans
<1>8. OneMeta(q.req[r].msgs, "handshake") => OneMeta(msgs, "handshake")
  <2> DEFINE c1 == Carried(msgs, p.client)
  <2>1. /\ Len(c1) = Len(msgs) /\ DOMAIN msgs = 1..Len(msgs)
        /\ \A i \in DOMAIN msgs : c1[i].what = msgs[i].what /\ c1[i].number = msgs[i].number
    BY <1>1, <1>4, CarriedIs, Members
  <2>2. q.req[r].msgs = c1
    BY <1>5
  <2> HIDE DEF c1
  <2> QED
    BY <2>1, <2>2 DEF OneMeta
<1> QED
  BY <1>7, <1>8, GoesOne

LEMMA GoesSendNext ==
  ASSUME NEW p, W(p, 0), ~p.threw, NEW q, q = SendNext(p)
  PROVE  Goes(p, q, {})
<1>1. CASE p.envelopes = <<>>
  <2>1. q = p
    BY <1>1 DEF SendNext
  <2> QED
    BY <2>1, LesserSame DEF Goes, Plan
<1>2. CASE p.envelopes # <<>>
  <2> DEFINE c == Opening(p)
             e == Head(p.envelopes)
  <2>1. q = QueueSend(c, e) /\ p \in PageRec /\ p.longpoll \in Slots \cup {0} /\ p.envelopes \in Seq(Slots)
    BY <1>2, SendNextIs, WType DEF PageRec
  <2>2. Ready(c, e) /\ ~c.req[e].poll /\ e \in ToSet(p.envelopes)
    BY <1>2, ReadyOpening
  <2>3. /\ c.envelopes = Tail(p.envelopes) /\ c.req = p.req /\ c.requests = p.requests /\ c.longpoll = p.longpoll
        /\ Calm(p, c) /\ Plan(p, c) /\ c.why = p.why
    BY <1>2, <2>1, OpeningIs
  <2> HIDE DEF c, e
  <2>4. Listed(c) \subseteq Listed(p)
    BY <1>2, <2>1, <2>3, TailOf DEF Listed
  <2>5. Lesser(p, c)
    BY <2>3, LesserSame DEF Calm
  <2>6. Handshakes(c) \subseteq Handshakes(p)
    BY <2>3, <2>4 DEF Handshakes
  <2>7. Goes(p, c, {e})
    BY <2>3, <2>5, <2>6, GoesSame DEF Calm
  <2>8. Goes(c, q, {e}) /\ q.req[e].msgs = p.req[e].msgs
    <3>1. Goes(c, q, {e}) /\ q.req[e].msgs = c.req[e].msgs
      BY <2>1, <2>2, GoesQueueSend
    <3> QED
      BY <2>3, <3>1
  <2>9. Goes(p, q, {e})
    BY <2>1, <2>7, <2>8, GoesTrans
  <2>10. OneMeta(q.req[e].msgs, "handshake") => e \in Handshakes(p)
    BY <2>2, <2>8 DEF Handshakes, Listed
  <2> QED
    BY <2>9, <2>10, GoesOne
<1> QED
  BY <1>1, <1>2

LEMMA GoesFlushBatch ==
  ASSUME NEW p, W(p, 0), ~p.threw, NEW x, Spare(p, x), NEW q, q = FlushBatch(p)
  PROVE  Goes(p, q, {})
<1>1. CASE p.queue = <<>>
  <2>1. q = p
    BY <1>1, FlushBatchIs
  <2> QED
    BY <2>1, LesserSame DEF Goes, Plan
<1>2. CASE p.queue # <<>>
  <2> DEFINE u == Unloaded(p)
  <2>1. /\ W(u, 0) /\ ~u.threw /\ Spare(u, x) /\ Plain(p.queue) /\ Batch(p.queue)
        /\ q = SendPlain(u, p.queue)
    BY <1>2, FlushBatchIs DEF Plain, SendPlain
  <2>0. p \in PageRec /\ p.queue \in Seq(Msg) /\ p.longpoll \in Slots \cup {0}
    BY WType DEF PageRec
  <2>2. Wires(p, u) /\ Calm(p, u) /\ Plan(p, u) /\ u.why = p.why
    BY <2>0, UnloadedIs
  <2> HIDE DEF u
  <2>3. Free(u) # {}
    BY <2>1, WType, FreeSpare
  <2>4. Lesser(p, u) /\ Handshakes(u) = Handshakes(p)
    BY <2>2, LesserSame DEF Wires, Calm, Handshakes, Listed
  <2>5. Goes(p, u, {})
    BY <2>2, <2>4, GoesSame DEF Wires, Calm
  <2>6. ~OneMeta(p.queue, "handshake")
    BY <2>0, <2>1, OneThing DEF Metas
  <2>7. Goes(u, q, {})
    BY <2>1, <2>3, <2>6, GoesSendMessages
  <2> QED
    BY <2>0, <2>5, <2>7, GoesTrans
<1> QED
  BY <1>1, <1>2

-----------------------------------------------------------------------------
(* A long poll is sent.                                                    *)

\* c is p with a long poll r, about to be sent.
Polled(p, c, r) ==
  /\ Lesser(p, c) /\ c.due = p.due /\ c.client = p.client /\ c.longpoll = p.longpoll /\ c.why = p.why
  /\ Handshakes(c) \subseteq Handshakes(p)
  /\ Ready(c, r) /\ c.req[r].poll /\ Of(c, r) = p.client

LEMMA PolledBegun ==
  ASSUME NEW p \in PageRec, NEW r \in Free(p), NEW msgs, msgs = <<Meta("connect")>>, NEW c, Begun(p, c, r, msgs),
         c.req[r].poll, Ready(c, r)
  PROVE  Polled(p, c, r)
<1>1. /\ Goes(p, c, {}) /\ c.req[r].msgs = Carried(msgs, p.client) /\ msgs \in Seq(Msg)
      /\ c.client = p.client /\ c.longpoll = p.longpoll /\ c.why = p.why /\ Plan(p, c) /\ Handshakes(c) \subseteq Handshakes(p)
  BY GoesBegun
<1>2. p.client \in Nat /\ "connect" \in Whats
  BY DEF PageRec, Whats
<1>3. OneMeta(msgs, "connect") /\ msgs[1].client = 0
  BY <1>2, MetaIs
<1>4. 1 \in DOMAIN msgs
  BY <1>1, <1>3, Members DEF OneMeta
<1>5. PICK d : d = Carried(msgs, p.client)
  OBVIOUS
<1>8. (p.client # 0 => d[1].client = p.client) /\ (p.client = 0 => d[1].client = msgs[1].client)
  <2>1. d[1] = [msgs[1] EXCEPT !.client = IF p.client = 0 THEN @ ELSE p.client]
    BY <1>4, <1>5 DEF Carried
  <2>2. msgs[1] \in Msg
    BY <1>1, <1>4
  <2> QED
    BY <2>1, <2>2 DEF Msg
<1>6. c.req[r].msgs = d
  BY <1>1, <1>5
<1>7. Of(c, r) = p.client
  BY <1>3, <1>6, <1>8 DEF Of
<1> QED
  BY <1>1, <1>7 DEF Polled, Goes, Plan

LEMMA ConnectSends ==
  ASSUME NEW p, W(p, 0), ~p.threw, NEW x, Spare(p, x), NEW q, q = Connect(p)
  PROVE  \/ p.longpoll # 0 /\ Lesser(p, q) /\ q.why = p.why
         \/ \E c, r : Polled(p, c, r) /\ Moves(LongpollSend(c, r), q) /\ q.due = LongpollSend(c, r).due
                      /\ q.why = LongpollSend(c, r).why
<1> DEFINE s == Status(p, "connecting")
           msgs == <<Meta("connect")>>
           t == SendPoll(s, msgs)
<1>1. p \in PageRec /\ "connecting" \in Phases /\ "connected" \in Phases
  BY WType DEF Phases
<1>2. Moves(p, s) /\ s.why = p.why /\ s.due = p.due
  BY <1>1, StatusIs
<1>3. Polls(msgs) /\ msgs = <<Meta("connect")>>
  <2>1. "connect" \in Whats
    BY DEF Whats
  <2> HIDE DEF msgs
  <2>2. msgs = <<Meta("connect")>>
    BY DEF msgs
  <2>3. msgs \in Seq(Msg) /\ OneMeta(msgs, "connect")
    BY <2>1, <2>2, MetaIs
  <2> QED
    BY <2>2, <2>3 DEF Fit, Polls
<1> HIDE DEF s, msgs
<1>4. s \in PageRec /\ Wires(p, s) /\ s.queue = p.queue /\ ~s.threw /\ s.client = p.client /\ Lesser(p, s)
  BY <1>2, LesserMoves DEF Moves, Words, Calm
<1>5. W(s, 0) /\ Free(s) # {}
  BY <1>2, <1>4, WSame, SpareSame, FreeSpare
<1>6. Handshakes(s) = Handshakes(p)
  BY <1>4 DEF Handshakes, Listed, Wires
<1>7. q = IF t.threw THEN t ELSE Status(t, "connected")
  BY DEF Connect, s, msgs, SendPoll
<1>8. CASE s.longpoll # 0
  <2>1. t = Throw(s)
    BY <1>3, <1>4, <1>5, <1>8, SendsPoll
  <2> HIDE DEF t
  <2>2. t.threw /\ t.longpoll = s.longpoll /\ t.client = s.client /\ t.req = s.req /\ t.why = s.why
    BY <1>4, <2>1 DEF Throw, PageRec
  <2>3. Lesser(p, q)
    BY <1>4, <1>7, <2>2, LesserSame DEF Wires
  <2> QED
    BY <1>2, <1>4, <1>7, <1>8, <2>2, <2>3 DEF Wires
<1>9. CASE s.longpoll = 0
  <2>1. PICK r \in Free(s) : \E c : /\ Begun(s, c, r, msgs) /\ c.req[r].poll /\ Ready(c, r)
                                     /\ t = LongpollSend(c, r)
    BY <1>3, <1>4, <1>5, <1>9, SendsPoll
  <2>2. PICK c : Begun(s, c, r, msgs) /\ c.req[r].poll /\ Ready(c, r) /\ t = LongpollSend(c, r)
    BY <2>1
  <2> DEFINE l == LongpollSend(c, r)
  <2>3. W(l, 0) /\ ~l.threw
    BY <2>2, WLongpollSend
  <2>4. Polled(s, c, r)
    BY <1>3, <1>4, <2>2, PolledBegun
  <2>5. Polled(p, c, r)
    <3>1. Lesser(p, c)
      BY <1>1, <1>4, <2>4, LesserTrans DEF Polled, PageRec
    <3> QED
      BY <1>2, <1>4, <1>6, <2>4, <3>1 DEF Polled, Wires
  <2>6. t = l
    BY <2>2
  <2> HIDE DEF l, t
  <2>7. q = Status(l, "connected") /\ l \in PageRec
    BY <1>7, <2>3, <2>6, WType
  <2>8. Moves(l, q) /\ q.due = l.due /\ q.why = l.why
    BY <1>1, <2>7, StatusIs
  <2> QED
    BY <2>5, <2>8 DEF l
<1> QED
  BY <1>8, <1>9

\* The long poll that is sent is the one of the page's session.
LEMMA ApartLongpoll ==
  ASSUME NEW c, NEW r, Ready(c, r), c.req[r].poll, Of(c, r) = c.client, NEW n \in Nat, NEW g, Apart(c, n, g),
         NEW q, q = LongpollSend(c, r)
  PROVE  Apart(q, n, g)
<1> DEFINE t == TransportSend(c, r)
<1>1. c \in PageRec /\ r \in Slots /\ r # 0 /\ c.longpoll = 0 /\ \A s \in Slots : s # 0
  BY WType, CometdAssumption DEF Ready
<1>2. q = Polling(t, r) /\ t \in PageRec /\ t.longpoll = 0
  BY <1>1, WLongpollSend, WTransportSend, WType
<1>3. CASE ~c.breaks
  <2>1. Launched(c, t, r, "open")
    BY <1>3, SendWorks
  <2> HIDE DEF t
  <2>2. q.longpoll = r /\ q.req = t.req /\ q.client = t.client
    BY <1>1, <1>2, PollingIs DEF Calm
  <2>3. /\ q.client = c.client /\ q.req[r].xhr = "open" /\ q.req[r].msgs = c.req[r].msgs
        /\ \A s \in Slots \ {r} : q.req[s] = c.req[s]
    BY <2>1, <2>2 DEF Launched, Calm, Kept
  <2>4. Of(q, r) = c.client /\ ~Grants(q, r)
    BY <2>3 DEF Of, Grants
  <2>5. ASSUME NEW s \in Slots \ {r}
        PROVE  /\ OnPoll(q, s) <=> OnPoll(c, s)
               /\ Of(q, s) = Of(c, s)
               /\ Grants(q, s) <=> Grants(c, s)
               /\ Given(q, s) = Given(c, s)
    BY <2>3 DEF OnPoll, Of, Grants, Given
  <2>6. ASSUME NEW s \in Slots \ {r}, OnPoll(c, s)
        PROVE  Of(c, s) = 0 \/ Of(c, s) # c.client
    BY <1>1, <2>6 DEF Apart
  <2>7. ASSUME NEW s \in Slots, OnPoll(q, s)
        PROVE  /\ Of(q, s) \in 0..n /\ (g # 0 => Of(q, s) # g)
               /\ s # q.longpoll => Of(q, s) = 0 \/ Of(q, s) # q.client
               /\ \A x \in Slots : x # s /\ OnPoll(q, x) => Of(q, x) = 0 \/ Of(q, x) # Of(q, s)
    <3>1. CASE s = r
      BY <2>2, <2>4, <2>5, <2>6, <3>1 DEF Apart
    <3>2. CASE s # r
      <4>1. OnPoll(c, s) /\ Of(q, s) = Of(c, s)
        BY <2>5, <2>7, <3>2
      <4>2. Of(c, s) \in 0..n /\ (g # 0 => Of(c, s) # g) /\ (Of(c, s) = 0 \/ Of(c, s) # c.client)
        BY <4>1, <2>6, <3>2 DEF Apart
      <4>3. ASSUME NEW x \in Slots, x # s, OnPoll(q, x)
            PROVE  Of(q, x) = 0 \/ Of(q, x) # Of(q, s)
        <5>1. CASE x = r
          BY <4>1, <4>2, <5>1, <2>4
        <5>2. CASE x # r
          BY <4>1, <4>3, <5>2, <2>5 DEF Apart
        <5> QED
          BY <5>1, <5>2
      <4> QED
        BY <2>3, <4>1, <4>2, <4>3
    <3> QED
      BY <3>1, <3>2
  <2>8. ASSUME NEW s \in Slots, Grants(q, s)
        PROVE  /\ Given(q, s) \in 1..n /\ Given(q, s) # q.client /\ Given(q, s) # g
               /\ \A x \in Slots : OnPoll(q, x) => Of(q, x) # Given(q, s)
               /\ \A x \in Slots : x # s /\ Grants(q, x) => Given(q, x) # Given(q, s)
    <3>1. s # r /\ Grants(c, s) /\ Given(q, s) = Given(c, s)
      BY <2>4, <2>5, <2>8
    <3>2. Given(c, s) \in 1..n /\ Given(c, s) # c.client /\ Given(c, s) # g
      BY <3>1 DEF Apart
    <3>3. \A x \in Slots : OnPoll(q, x) => Of(q, x) # Given(q, s)
      BY <2>4, <2>5, <3>1, <3>2 DEF Apart
    <3>4. \A x \in Slots : x # s /\ Grants(q, x) => Given(q, x) # Given(q, s)
      BY <2>4, <2>5, <3>1 DEF Apart
    <3> QED
      BY <2>3, <3>1, <3>2, <3>3, <3>4
  <2> QED
    BY <2>3, <2>7, <2>8 DEF Apart
<1>4. CASE c.breaks
  <2>1. Lesser(c, t)
    BY <1>4, LesserTransportSend
  <2> HIDE DEF t
  <2>2. Apart(t, n, g)
    BY <1>1, <2>1, ApartLesser
  <2>3. q.longpoll = r /\ q.req = t.req /\ q.client = t.client
    BY <1>1, <1>2, PollingIs DEF Calm
  <2>4. \A s \in Slots : /\ (OnPoll(q, s) <=> OnPoll(t, s)) /\ Of(q, s) = Of(t, s)
                         /\ (Grants(q, s) <=> Grants(t, s)) /\ Given(q, s) = Given(t, s)
    BY <2>3 DEF OnPoll, Of, Grants, Given
  <2>5. \A s \in Slots : OnPoll(q, s) => Of(q, s) = 0 \/ Of(q, s) # q.client
    BY <1>1, <1>2, <2>2, <2>3, <2>4 DEF Apart
  <2> QED
    BY <2>2, <2>3, <2>4, <2>5 DEF Apart
<1> QED
  BY <1>3, <1>4

\* It is the one round there is.
LEMMA RoundLongpoll ==
  ASSUME NEW c, NEW r, Ready(c, r), c.req[r].poll, Of(c, r) = c.client, Round(c, "connect"), Doubted(c) \/ c.client # 0,
         NEW q, q = LongpollSend(c, r)
  PROVE  Round(q, "publish") /\ (Doubted(q) \/ q.client # 0)
<1> DEFINE t == TransportSend(c, r)
<1>1. c \in PageRec /\ r \in Slots /\ r # 0 /\ c.longpoll = 0
  BY WType, CometdAssumption DEF Ready
<1>2. q = Polling(t, r) /\ t \in PageRec /\ c.why \subseteq t.why
  BY <1>1, WLongpollSend, WTransportSend, WType
<1>3. /\ q.longpoll = r /\ q.req = t.req /\ q.client = t.client /\ q.why = t.why
      /\ q.requests = t.requests /\ q.envelopes = t.envelopes /\ Plan(t, q)
  <2> HIDE DEF t
  <2> QED
    BY <1>1, <1>2, PollingIs DEF Calm
<1>4. SUFFICES ASSUME ~Doubted(q)
               PROVE  Round(q, "publish") /\ q.client # 0
  BY DEF Round
<1>5. ~Doubted(c) /\ ~c.breaks
  <2>1. c.breaks => "throws" \in t.why
    BY SendThrows
  <2> HIDE DEF t
  <2> QED
    BY <1>2, <1>3, <1>4, <2>1 DEF Doubted, Doubts
<1>6. Launched(c, t, r, "open")
  BY <1>5, SendWorks
<1> HIDE DEF t
<1>7. /\ q.client = c.client /\ q.due = c.due /\ Listed(q) = Listed(c)
      /\ q.req[r].msgs = c.req[r].msgs /\ \A s \in Slots \ {r} : q.req[s] = c.req[s]
  BY <1>3, <1>6 DEF Launched, Calm, Plan, Kept, Listed
<1>8. Listed(c) \subseteq Slots
  BY <1>1, Members DEF Listed, PageRec
<1>9. Handshakes(c) = {} /\ c.due = "none" /\ c.client # 0
  BY <1>5 DEF Round
<1>10. Handshakes(q) = {}
  BY <1>7, <1>8, <1>9 DEF Handshakes
<1>11. ASSUME NEW s \in Slots, OnPoll(q, s)
       PROVE  Of(q, s) # 0
  <2>1. CASE s = r
    BY <1>7, <1>9, <2>1 DEF Of
  <2>2. CASE s # r
    <3>1. q.req[s] = c.req[s]
      BY <1>7, <2>2
    <3>2. OnPoll(c, s)
      BY <1>11, <3>1 DEF OnPoll
    <3> QED
      BY <1>5, <3>1, <3>2 DEF Round, Of
  <2> QED
    BY <2>1, <2>2
<1> QED
  BY <1>7, <1>9, <1>10, <1>11 DEF Round, Seated

\* Whether the page waits or not is all that changes.
LEMMA RoundStatus ==
  ASSUME NEW p, NEW w, Round(p, w), NEW q, Wires(p, q), q.client = p.client, q.due = p.due, p.why \subseteq q.why,
         Doubted(p) \/ q.client # 0 \/ Disconnected(q) \/ (q.longpoll = 0 /\ w # "connect")
  PROVE  Round(q, w)
<1>1. Doubted(p) => Doubted(q)
  BY DEF Doubted
<1>2. Handshakes(q) = Handshakes(p)
  BY DEF Handshakes, Listed, Wires
<1>3. \A r \in Slots : (OnPoll(q, r) <=> OnPoll(p, r)) /\ Of(q, r) = Of(p, r)
  BY DEF OnPoll, Of, Wires
<1> QED
  BY <1>1, <1>2, <1>3 DEF Round, Seated, Wires

LEMMA ConnectApart ==
  ASSUME NEW p, W(p, 0), ~p.threw, NEW x, Spare(p, x), NEW n \in Nat, NEW g, Apart(p, n, g), NEW q, q = Connect(p)
  PROVE  Apart(q, n, g)
<1>1. p.longpoll \in Slots \cup {0}
  BY WType DEF PageRec
<1>2. CASE Lesser(p, q)
  BY <1>1, <1>2, ApartLesser
<1>3. CASE \E c, r : Polled(p, c, r) /\ Moves(LongpollSend(c, r), q)
  <2>1. PICK c, r : Polled(p, c, r) /\ Moves(LongpollSend(c, r), q)
    BY <1>3
  <2> DEFINE l == LongpollSend(c, r)
  <2>2. Apart(c, n, g) /\ Ready(c, r) /\ c.req[r].poll /\ Of(c, r) = c.client
    BY <1>1, <2>1, ApartLesser DEF Polled
  <2>3. Apart(l, n, g) /\ W(l, 0)
    BY <2>2, ApartLongpoll, WLongpollSend
  <2>4. Moves(l, q)
    BY <2>1
  <2> HIDE DEF l
  <2> QED
    BY <2>3, <2>4, WType, LesserMoves, ApartLesser DEF PageRec
<1> QED
  BY <1>2, <1>3, ConnectSends

LEMMA ConnectRound ==
  ASSUME NEW p, W(p, 0), ~p.threw, NEW x, Spare(p, x), Round(p, "connect"), Doubted(p) \/ p.client # 0, NEW q, q = Connect(p)
  PROVE  Round(q, "publish")
<1>1. CASE p.longpoll # 0 /\ q.why = p.why
  BY <1>1 DEF Round, Doubted
<1>2. CASE \E c, r : Polled(p, c, r) /\ Moves(LongpollSend(c, r), q) /\ q.due = LongpollSend(c, r).due
                     /\ q.why = LongpollSend(c, r).why
  <2>1. PICK c, r : Polled(p, c, r) /\ Moves(LongpollSend(c, r), q) /\ q.due = LongpollSend(c, r).due
                    /\ q.why = LongpollSend(c, r).why
    BY <1>2
  <2> DEFINE l == LongpollSend(c, r)
  <2>2. Ready(c, r) /\ c.req[r].poll /\ Of(c, r) = c.client
    BY <2>1 DEF Polled
  <2>3. Doubted(c) \/ c.client # 0
    BY <2>1 DEF Polled, Doubted
  <2>4. Round(c, "connect")
    <3>1. \A s \in Slots : OnPoll(c, s) => OnPoll(p, s) /\ Of(c, s) = Of(p, s)
      BY <2>1, LesserShows DEF Polled
    <3>2. Doubted(c) <=> Doubted(p)
      BY <2>1 DEF Polled, Doubted
    <3> QED
      BY <2>1, <2>3, <3>1, <3>2 DEF Polled, Round, Seated
  <2>5. Round(l, "publish") /\ (Doubted(l) \/ l.client # 0)
    BY <2>2, <2>3, <2>4, RoundLongpoll
  <2>6. Moves(l, q) /\ q.due = l.due /\ q.why = l.why
    BY <2>1
  <2> HIDE DEF l
  <2> QED
    BY <2>5, <2>6, RoundStatus DEF Moves, Calm
<1> QED
  BY <1>1, <1>2, ConnectSends

-----------------------------------------------------------------------------
(* A handshake is sent.                                                    *)

LEMMA LesserPrepared ==
  ASSUME NEW p, W(p, 0), ~p.threw, NEW x, Spare(p, x), NEW b, b = Prepared(p)
  PROVE  Lesser(p, b)
<1>1. b.client = 0
  BY PreparedIs
<1>2. CASE ~Disconnected(p)
  <2>1. Wires(p, b)
    BY <1>2, PreparedIs
  <2> QED
    BY <1>1, <2>1, LesserSame DEF Wires
<1>3. CASE Disconnected(p)
  <2> DEFINE u == Renewed(p)
  <2>1. u \in PageRec /\ Wires(p, u) /\ u.client = 0
    BY WType, RenewedIs
  <2>2. b = Reset(u)
    BY <1>3 DEF Prepared
  <2> HIDE DEF u
  <2>3. /\ b.longpoll = 0
        /\ \A r \in Slots : /\ r \in ToSet(u.envelopes) => b.req[r] = NoRequest
                            /\ r \notin ToSet(u.envelopes) => b.req[r] = u.req[r]
    BY <2>1, <2>2, ResetIs DEF Emptied
  <2>4. ASSUME NEW r \in Slots, b.req[r].xhr \in OnWire
        PROVE  b.req[r] = p.req[r]
    BY <2>1, <2>3, <2>4 DEF NoRequest, OnWire, Wires
  <2> QED
    BY <1>1, <2>3, <2>4 DEF Lesser, Alike, Kept
<1> QED
  BY <1>2, <1>3

\* A handshake takes the place of all, or of what is in hand.
Starts(p) == Round(p, "handshake") \/ (Disconnected(p) /\ Round(p, "publish") /\ (Doubted(p) \/ p.due = "none"))

LEMMA RoundPrepared ==
  ASSUME NEW p, W(p, 0), ~p.threw, NEW x, Spare(p, x), Starts(p), NEW b, b = Prepared(p)
  PROVE  Round(b, "handshake")
<1>1. b.client = 0 /\ b.why = p.why /\ Plan(p, b)
  BY PreparedIs
<1>2. SUFFICES ASSUME ~Doubted(p)
               PROVE  Round(b, "handshake")
  BY <1>1 DEF Round, Doubted
<1>3. \A r \in Slots : OnPoll(b, r) => OnPoll(p, r) /\ Of(b, r) = Of(p, r)
  BY LesserPrepared, LesserShows
<1>4. \A r \in Slots : OnPoll(b, r) => Of(b, r) # 0
  BY <1>2, <1>3 DEF Starts, Round
<1>5. p.due = "none"
  BY <1>2 DEF Starts, Round
<1>6. Handshakes(b) = {} /\ b.longpoll = 0
  <2>1. CASE Disconnected(p)
    <3>1. b.requests = <<>> /\ b.envelopes = <<>> /\ b.longpoll = 0
      BY <2>1, PreparedIs
    <3>2. Listed(b) = {}
      BY <3>1, EmptyList DEF Listed
    <3> QED
      BY <3>1, <3>2 DEF Handshakes
  <2>2. CASE ~Disconnected(p)
    <3>1. Wires(p, b)
      BY <2>2, PreparedIs
    <3>2. Round(p, "handshake")
      BY <2>2 DEF Starts
    <3> QED
      BY <1>2, <3>1, <3>2 DEF Round, Handshakes, Listed, Wires
  <2> QED
    BY <2>1, <2>2
<1> QED
  BY <1>1, <1>4, <1>5, <1>6 DEF Round, Plan

\* The one that is sent is the only one.
LEMMA RoundShakes ==
  ASSUME NEW p, Round(p, "handshake"), NEW q, NEW r, Goes(p, q, {r})
  PROVE  Round(q, "publish")
<1>1. SUFFICES ASSUME ~Doubted(q)
               PROVE  Round(q, "publish")
  BY DEF Round
<1>2. ~Doubted(p)
  BY <1>1 DEF Goes, Doubted
<1>3. Plan(p, q) /\ q.client = p.client /\ q.longpoll = p.longpoll /\ Handshakes(q) \subseteq Handshakes(p) \cup {r}
  BY <1>1 DEF Goes
<1>4. \A s \in Slots : OnPoll(q, s) => OnPoll(p, s) /\ Of(q, s) = Of(p, s)
  BY LesserShows DEF Goes
<1> QED
  BY <1>2, <1>3, <1>4 DEF Round, Plan

LEMMA HandshakeGoes ==
  ASSUME NEW p, W(p, 0), ~p.threw, NEW x, Spare(p, x), NEW q, q = Handshake(p)
  PROVE  Lesser(p, q) /\ (Starts(p) => Round(q, "publish"))
<1> DEFINE b == Prepared(p)
           c == Shaking(b)
           msgs == <<Meta("handshake")>>
<1>1. q = SendPlain(c, msgs) /\ W(b, 0) /\ Spare(b, x) /\ ~b.threw
  BY PreparedIs DEF SendPlain
<1>2. Lesser(p, b) /\ (Starts(p) => Round(b, "handshake"))
  BY LesserPrepared, RoundPrepared
<1> HIDE DEF b
<1>3. b \in PageRec /\ p.longpoll \in Slots \cup {0} /\ b.longpoll \in Slots \cup {0}
  BY <1>1, WType DEF PageRec
<1>4. /\ c \in PageRec /\ Wires(b, c) /\ Words(b, c) /\ c.why = b.why /\ c.threw = b.threw /\ c.due = b.due
      /\ c.client = b.client
  BY <1>3, ShakingIs
<1> HIDE DEF c
<1>5. W(c, 0) /\ ~c.threw /\ Free(c) # {}
  BY <1>1, <1>4, WSame, SpareSame, FreeSpare DEF Words
<1>6. Plain(msgs)
  BY MetaPlain
<1> HIDE DEF msgs
<1>7. PICK r : Goes(c, q, {r})
  BY <1>1, <1>5, <1>6, GoesSendMessages
<1>8. Lesser(b, c)
  BY <1>4, LesserSame DEF Wires
<1>9. Lesser(p, q)
  BY <1>2, <1>3, <1>4, <1>7, <1>8, LesserTrans DEF Goes, Wires
<1>10. Round(b, "handshake") => Round(c, "handshake")
  BY <1>4, RoundStatus DEF Round, Wires
<1> QED
  BY <1>2, <1>7, <1>9, <1>10, RoundShakes

-----------------------------------------------------------------------------
(* A round ends.                                                           *)

\* What was in hand is planned again, or not.
LEMMA RoundPlanned ==
  ASSUME NEW p, NEW w \in {"handshake", "connect"}, Round(p, w), NEW q, Wires(p, q), p.why \subseteq q.why,
         q.due = "connect" => Doubted(p) \/ q.client # 0
  PROVE  Round(q, "publish")
<1>1. Doubted(p) => Doubted(q)
  BY DEF Doubted
<1>2. Handshakes(q) = Handshakes(p)
  BY DEF Handshakes, Listed, Wires
<1>3. \A r \in Slots : (OnPoll(q, r) <=> OnPoll(p, r)) /\ Of(q, r) = Of(p, r)
  BY DEF OnPoll, Of, Wires
<1> QED
  BY <1>1, <1>2, <1>3 DEF Round, Wires

LEMMA RoundDisconnect ==
  ASSUME NEW p \in PageRec, NEW w, Round(p, w), NEW abort \in BOOLEAN, NEW q, q = Disconnect(p, abort)
  PROVE  Round(q, "publish")
<1>1. q.client = 0 /\ q.due = "none" /\ q.status = "disconnected" /\ q.why = p.why
  BY DisconnectIs
<1>2. SUFFICES ASSUME ~Doubted(p)
               PROVE  Round(q, "publish")
  BY <1>1 DEF Round, Doubted
<1>3. \A s \in Slots : OnPoll(q, s) => OnPoll(p, s) /\ Of(q, s) = Of(p, s)
  BY LesserDisconnect, LesserShows
<1>4. /\ ~abort => Wires(p, q)
      /\ abort => /\ q.requests = <<>> /\ q.envelopes = <<>> /\ q.longpoll = 0
                  /\ \A r \in Slots : q.req[r] = Aborted(p, r)
  BY DisconnectIs
<1>5. CASE ~abort
  <2>1. Handshakes(q) = Handshakes(p) /\ q.longpoll = p.longpoll
    BY <1>4, <1>5 DEF Handshakes, Listed, Wires
  <2> QED
    BY <1>1, <1>2, <1>3, <2>1 DEF Round, Seated, Disconnected
<1>6. CASE abort
  <2>1. q.requests = <<>> /\ q.envelopes = <<>> /\ q.longpoll = 0
    BY <1>4, <1>6
  <2>2. Handshakes(q) = {}
    BY <2>1, EmptyList DEF Handshakes, Listed
  <2> QED
    BY <1>1, <1>2, <1>3, <2>1, <2>2 DEF Round
<1> QED
  BY <1>5, <1>6

\* The lists and the plan stay.
LEMMA RoundTells ==
  ASSUME NEW p \in PageRec, NEW w, Round(p, w), NEW M, NEW q, q = TellAll(p, M)
  PROVE  Round(q, w)
<1>1. Wires(p, q) /\ Calm(p, q) /\ Plan(p, q) /\ q.why = p.why
  BY TellAllIs
<1>2. Lesser(p, q) /\ Handshakes(q) = Handshakes(p)
  BY <1>1, LesserSame DEF Wires, Calm, Handshakes, Listed
<1>3. Goes(p, q, {})
  BY <1>1, <1>2, GoesSame DEF Wires, Calm
<1> QED
  BY <1>3, RoundGoes

LEMMA RoundOver ==
  ASSUME NEW p, NEW w, Round(p, w)
  PROVE  Round(p, "publish")
  BY DEF Round

LEMMA RoundReports ==
  ASSUME NEW p \in PageRec, NEW msgs \in Seq(Msg), NEW v \in Whats, About(msgs, v), Round(p, v), NEW q, Reports(p, q, msgs)
  PROVE  Round(q, "publish")
<1>1. CASE OneMeta(msgs, "handshake") /\ q = HandshakeFailed(p)
  <2>1. v = "handshake"
    BY <1>1, AboutOne DEF About, Metas, Whats
  <2>2. Moves(p, q) /\ p.why \subseteq q.why /\ (q.due = "handshake" \/ q.due = p.due)
    BY <1>1, HandshakeFailedIs
  <2>3. q.due = "connect" => Doubted(p)
    BY <2>1, <2>2 DEF Round
  <2> QED
    BY <2>1, <2>2, <2>3, RoundPlanned DEF Moves
<1>2. CASE OneMeta(msgs, "connect") /\ q = ConnectFailure(p)
  <2>1. v = "connect"
    BY <1>2, AboutOne DEF About, Metas, Whats
  <2>2. CASE Disconnected(p)
    <3>1. q = p
      BY <1>2, <2>2, ConnectFailureIs
    <3> QED
      BY <3>1, RoundOver
  <2>3. CASE ~Disconnected(p)
    <3>1. Moves(p, q) /\ p.why \subseteq q.why
      BY <1>2, ConnectFailureIs
    <3>2. Doubted(p) \/ p.client # 0
      BY <2>1, <2>3 DEF Round, Seated
    <3> QED
      BY <2>1, <3>1, <3>2, RoundPlanned DEF Moves, Calm
  <2> QED
    BY <2>2, <2>3
<1>3. CASE OneMeta(msgs, "disconnect") /\ q = Disconnect(p, TRUE)
  <2>1. PICK b \in BOOLEAN : b = TRUE
    OBVIOUS
  <2>2. q = Disconnect(p, b)
    BY <1>3, <2>1
  <2> QED
    BY <2>2, RoundDisconnect
<1>4. CASE Batch(msgs) /\ q = TellAll(p, Published(msgs))
  BY <1>4, RoundTells, RoundOver
<1> QED
  BY <1>1, <1>2, <1>3, <1>4 DEF Reports

\* A request that is over is in hand, and the round with it.
LEMMA RoundLetGo ==
  ASSUME NEW p, NEW h \in Slots, W(p, h), ~OnPoll(p, h), Round(p, "publish"), ~Clash(p, h), NEW v \in Whats,
         About(p.req[h].msgs, v), NEW q, q = LetGo(p, h)
  PROVE  Round(q, v)
<1>1. /\ p \in PageRec /\ Distinct(p.requests) /\ p.req[h].msgs \in Seq(Msg) /\ Formed(p.req[h])
      /\ h \notin ToSet(p.envelopes) /\ p.requests \in Seq(Slots) /\ h # 0
  BY CometdAssumption DEF W, PageRec, Request
<1>2. Same(p, q) /\ p.why \subseteq q.why
  BY <1>1, LetGoIs
<1>3. SUFFICES ASSUME ~Doubted(q)
               PROVE  Round(q, v)
  BY DEF Round
<1>4. ~Doubted(p) /\ "stray" \notin q.why
  BY <1>2, <1>3 DEF Doubted, Doubts
<1>5. \A r \in Slots : (OnPoll(q, r) <=> OnPoll(p, r)) /\ Of(q, r) = Of(p, r)
  BY <1>2 DEF Same, OnPoll, Of
<1>6. \A r \in Slots : OnPoll(q, r) => Of(q, r) # 0
  BY <1>4, <1>5 DEF Round
<1>7. q.due = p.due /\ q.status = p.status /\ q.client = p.client /\ q.req = p.req /\ q.envelopes = p.envelopes
  BY <1>2 DEF Same, Plan
<1>8. CASE ~p.req[h].poll
  <2>1. h \in ToSet(p.requests) /\ q.longpoll = p.longpoll /\ q.requests = Without(p.requests, h)
    BY <1>1, <1>4, <1>8, LetGoPlain
  <2>2. ToSet(q.requests) = ToSet(p.requests) \ {h}
    BY <1>1, <2>1, WithoutIs
  <2>3. Handshakes(q) = Handshakes(p) \ {h}
    BY <1>1, <1>7, <2>2 DEF Handshakes, Listed
  <2>4. v # "connect"
    BY <1>1, <1>8, AboutOne DEF Formed, About, Metas, Whats
  <2>5. v = "handshake" => h \in Handshakes(p)
    BY <2>1 DEF Handshakes, Listed, About
  <2> QED
    BY <1>4, <1>6, <1>7, <2>1, <2>3, <2>4, <2>5 DEF Round, Seated, Disconnected
<1>9. CASE p.req[h].poll
  <2>1. OwnPoll(p, h)
    BY <1>9 DEF Clash, OwnPoll
  <2>2. p.longpoll = h /\ q.longpoll = 0 /\ q.requests = p.requests
    BY <1>1, <1>4, <2>1, LetGoPoll
  <2>3. Handshakes(q) = Handshakes(p)
    BY <1>7, <2>2 DEF Handshakes, Listed
  <2>4. Handshakes(p) = {} /\ p.due = "none" /\ Seated(p)
    BY <1>1, <1>4, <2>2 DEF Round
  <2> QED
    BY <1>6, <1>7, <2>2, <2>3, <2>4 DEF Round, Seated, Disconnected
<1> QED
  BY <1>8, <1>9

\* It was another long poll: nothing is let go.
LEMMA RoundClash ==
  ASSUME NEW p, NEW h \in Slots, W(p, h), Round(p, "publish"), Clash(p, h), NEW q, q = LetGo(p, h)
  PROVE  Round(q, "publish")
<1>1. p \in PageRec
  BY WType
<1>2. Same(p, q) /\ q.requests = p.requests /\ q.longpoll = p.longpoll /\ q.why = p.why
  BY <1>1, LetGoClash
<1>3. Wires(p, q) /\ Plan(p, q) /\ q.client = p.client
  BY <1>2 DEF Same, Wires
<1>4. Lesser(p, q) /\ Handshakes(q) = Handshakes(p)
  BY <1>3, LesserSame DEF Wires, Handshakes, Listed
<1>5. Goes(p, q, {})
  BY <1>2, <1>3, <1>4, GoesSame
<1> QED
  BY <1>5, RoundGoes

LEMMA RoundGiveUpNext ==
  ASSUME NEW p \in PageRec, NEW w, Round(p, w), NEW q, q = GiveUpNext(p)
  PROVE  Round(q, w)
<1>1. CASE p.envelopes = <<>>
  BY <1>1, GiveUpNextIs
<1>2. CASE p.envelopes # <<>>
  <2>1. q.why = p.why \cup {"stray"}
    BY <1>2, GiveUpNextIs
  <2> QED
    BY <2>1 DEF Round, Doubted, Doubts
<1> QED
  BY <1>1, <1>2

LEMMA RoundFailure ==
  ASSUME NEW p, NEW h \in Slots, W(p, h), ~OnPoll(p, h), Round(p, "publish"), ~p.threw, NEW q, q = HandleFailure(p, h)
  PROVE  Round(q, "publish")
<1>1. p \in PageRec /\ Distinct(p.requests) /\ Formed(p.req[h]) /\ p.req[h].msgs \in Seq(Msg)
  BY DEF W, PageRec, Request
<1>2. CASE Clash(p, h)
  <2>1. LetGo(p, h).threw
    BY <1>1, <1>2, LetGoIs
  <2>2. q = LetGo(p, h)
    BY <1>1, <2>1, HandleFailureIs
  <2> QED
    BY <1>2, <2>2, RoundClash
<1>3. CASE ~Clash(p, h)
  <2> DEFINE g == LetGo(p, h)
             d == Dropped(p, h)
  <2>1. ~g.threw
    BY <1>1, <1>3, LetGoIs
  <2>2. Reports(d, q, p.req[h].msgs)
    BY <1>1, <2>1, HandleFailureIs
  <2>3. PICK v \in Whats : About(p.req[h].msgs, v)
    BY <1>1, FormedAbout
  <2>4. Round(g, v)
    BY <1>3, <2>3, RoundLetGo
  <2>5. g \in PageRec /\ d \in PageRec
    BY <1>1, LetGoIs, DroppedType DEF Same
  <2>6. d = g \/ d = GiveUpNext(g)
    BY DEF Dropped
  <2> HIDE DEF g, d
  <2>7. Round(d, v)
    BY <2>4, <2>5, <2>6, RoundGiveUpNext
  <2> QED
    BY <1>1, <2>2, <2>3, <2>5, <2>7, RoundReports
<1> QED
  BY <1>2, <1>3

-----------------------------------------------------------------------------
(* An answer, and the round it ends.                                       *)

LEMMA LesserReceivedConnect ==
  ASSUME NEW p, W(p, 0), ~p.threw, NEW x, Spare(p, x), NEW msg \in Ans, NEW q, q = ConnectResponse(p, msg)
  PROVE  Lesser(p, q) /\ (Round(p, "connect") => Round(q, "publish"))
<1>0. p \in PageRec /\ msg.ok \in BOOLEAN /\ p.longpoll \in Slots \cup {0}
  BY WType DEF Ans, PageRec
<1>1. CASE ~msg.ok
  <2>1. Moves(p, q) /\ p.why \subseteq q.why /\ (q.due = "connect" => ~Disconnected(p) \/ q.due = p.due)
    BY <1>0, <1>1, ConnectResponseFails
  <2>2. Lesser(p, q) /\ Wires(p, q) /\ q.client = p.client
    BY <2>1, LesserMoves DEF Moves, Calm
  <2>3. ASSUME Round(p, "connect"), q.due = "connect"
        PROVE  Doubted(p) \/ q.client # 0
    BY <2>1, <2>2, <2>3 DEF Round, Seated
  <2> QED
    BY <2>1, <2>2, <2>3, RoundPlanned
<1>2. CASE msg.ok
  <2>1. ASSUME NEW u, Connected(p, u), NEW s, s = FlushBatch(u)
        PROVE  s \in PageRec /\ Goes(u, s, {})
    <3>1. u \in PageRec /\ Wires(p, u) /\ u.queue = p.queue /\ u.why = p.why /\ u.threw = p.threw /\ Moves(p, u)
      BY <2>1 DEF Connected, Moves, Words, Calm
    <3>2. W(u, 0) /\ Spare(u, x) /\ ~u.threw
      BY <3>1, WSame, SpareSame
    <3>3. W(s, 0) /\ Goes(u, s, {})
      BY <2>1, <3>2, WFlushBatch, GoesFlushBatch
    <3> QED
      BY <3>3, WType
  <2>2. \A u : Connected(p, u) => FlushBatch(u) \in PageRec
    BY <2>1
  <2>3. PICK u : /\ Connected(p, u) /\ Moves(FlushBatch(u), q) /\ FlushBatch(u).why \subseteq q.why
                 /\ q.held = FlushBatch(u).held
                 /\ \/ ~Disconnected(p) /\ q.status = "connecting" /\ q.due = "connect"
                    \/ q.status = "disconnected" /\ q.due = FlushBatch(u).due /\ (Disconnected(p) \/ "none" \in q.why)
    BY <1>0, <1>2, <2>2, ConnectResponseWorks
  <2> DEFINE s == FlushBatch(u)
  <2>4. Goes(u, s, {}) /\ s \in PageRec
    BY <2>1, <2>3
  <2>5. Moves(s, q) /\ s.why \subseteq q.why /\ (q.due = "connect" => ~Disconnected(p) \/ q.due = s.due)
    BY <2>3
  <2>6. Moves(p, u) /\ u.due = p.due /\ u.why = p.why /\ (Disconnected(p) => u.status = p.status)
    BY <2>3 DEF Connected
  <2> HIDE DEF s
  <2>7. Wires(p, u) /\ u.client = p.client /\ Lesser(p, u) /\ Lesser(s, q) /\ Wires(s, q) /\ q.client = s.client
    BY <2>5, <2>6, LesserMoves DEF Moves, Calm
  <2>8. Lesser(p, q)
    BY <1>0, <2>4, <2>7, LesserTrans DEF Goes, PageRec, Wires
  <2>9. ASSUME Round(p, "connect")
        PROVE  Round(q, "publish")
    <3>1. Doubted(p) \/ u.client # 0 \/ Disconnected(u)
      BY <2>6, <2>7, <2>9 DEF Round, Seated, Disconnected
    <3>2. Round(u, "connect")
      BY <2>6, <2>7, <2>9, <3>1, RoundStatus
    <3>3. Round(s, "connect")
      BY <2>4, <3>2, RoundGoes
    <3>4. q.due = "connect" => Doubted(s) \/ q.client # 0
      <4>1. ASSUME ~Doubted(s), ~Disconnected(p)
            PROVE  q.client # 0
        <5>1. ~Doubted(u) /\ s.client = u.client
          BY <2>4, <4>1 DEF Goes, Doubted
        <5>2. ~Doubted(p)
          BY <2>6, <5>1 DEF Doubted
        <5>3. p.client # 0
          BY <2>9, <4>1, <5>2 DEF Round, Seated
        <5> QED
          BY <2>7, <5>1, <5>3
      <4>2. ASSUME ~Doubted(s), q.due = s.due
            PROVE  q.due # "connect"
        BY <3>3, <4>2 DEF Round
      <4> QED
        BY <2>5, <4>1, <4>2
    <3> QED
      BY <2>5, <2>7, <3>3, <3>4, RoundPlanned
  <2> QED
    BY <2>8, <2>9
<1> QED
  BY <1>0, <1>1, <1>2

\* The session in hand is dropped, or becomes that of the page.
LEMMA ApartDrop ==
  ASSUME NEW p, NEW n \in Nat, NEW g, Apart(p, n, g)
  PROVE  Apart(p, n, 0)
  BY DEF Apart
LEMMA ApartGiven ==
  ASSUME NEW p, NEW n \in Nat, NEW g, Apart(p, n, g), NEW q, Wires(p, q), q.client = g
  PROVE  Apart(q, n, 0)
<1>1. \A r \in Slots : /\ OnPoll(q, r) <=> OnPoll(p, r)
                       /\ Of(q, r) = Of(p, r)
                       /\ Grants(q, r) <=> Grants(p, r)
                       /\ Given(q, r) = Given(p, r)
  BY DEF Wires, OnPoll, Of, Grants, Given
<1>2. 0 \in 0..n /\ g \in 0..n
  BY DEF Apart
<1>3. \A r \in Slots : OnPoll(q, r) =>
       /\ Of(q, r) \in 0..n /\ (Of(q, r) = 0 \/ Of(q, r) # q.client)
       /\ \A s \in Slots : s # r /\ OnPoll(q, s) => Of(q, s) = 0 \/ Of(q, s) # Of(q, r)
  BY <1>1 DEF Apart
<1>4. \A r \in Slots : Grants(q, r) =>
       /\ Given(q, r) \in 1..n /\ Given(q, r) # q.client /\ Given(q, r) # 0
       /\ \A s \in Slots : OnPoll(q, s) => Of(q, s) # Given(q, r)
       /\ \A s \in Slots : s # r /\ Grants(q, s) => Given(q, s) # Given(q, r)
  BY <1>1 DEF Apart
<1> QED
  BY <1>2, <1>3, <1>4 DEF Apart

LEMMA ApartReceived ==
  ASSUME NEW p, W(p, 0), ~p.threw, NEW x, Spare(p, x), NEW n \in Nat, NEW g, Apart(p, n, g), NEW msgs, NEW reply,
         reply[1].what = "handshake" /\ reply[1].ok => reply[1].client = g, NEW q, Received(p, q, msgs, reply)
  PROVE  Apart(q, n, 0)
<1>0. p \in PageRec /\ p.longpoll \in Slots \cup {0}
  BY WType DEF PageRec
<1>1. ASSUME Lesser(p, q)
      PROVE  Apart(q, n, 0)
  BY <1>0, <1>1, ApartLesser, ApartDrop
<1>2. CASE Batch(msgs) /\ q = TellAll(p, Published(msgs))
  <2> DEFINE M == Published(msgs)
  <2>0. q = TellAll(p, M)
    BY <1>2
  <2> HIDE DEF M
  <2>1. Wires(p, q) /\ Calm(p, q)
    BY <1>0, <2>0, TellAllIs
  <2> QED
    BY <1>1, <2>1, LesserSame DEF Wires, Calm
<1>3. CASE \E w \in {"handshake", "connect", "disconnect"} :
             OneMeta(msgs, w) /\ reply[1] \in Ans /\ reply[1].what = w /\ q = Receive(p, reply[1])
  <2> DEFINE msg == reply[1]
             a == Advised(p, msg)
  <2>1. /\ msg \in Ans /\ q = Receive(p, msg) /\ msg.what \in {"handshake", "connect", "disconnect"} /\ msg.ok \in BOOLEAN
        /\ msg.what = "handshake" /\ msg.ok => msg.client = g
    BY <1>3 DEF Ans
  <2> HIDE DEF msg
  <2>2. Moves(p, a) /\ a.why = p.why
    BY <1>0, <2>1, AdvisedIs
  <2>3. /\ msg.what = "handshake"  => q = HandshakeResponse(a, msg)
        /\ msg.what = "connect"    => q = ConnectResponse(a, msg)
        /\ msg.what = "disconnect" => q = Disconnect(a, ~msg.ok)
    BY <1>0, <2>1, ReceiveIs
  <2> HIDE DEF a
  <2>4. a \in PageRec /\ Wires(p, a) /\ a.queue = p.queue /\ a.threw = p.threw /\ a.longpoll = p.longpoll
    BY <2>2 DEF Moves, Words, Calm, Wires
  <2>5. W(a, 0) /\ Spare(a, x) /\ ~a.threw
    BY <2>2, <2>4, WSame, SpareSame
  <2>6. Lesser(p, a)
    BY <2>2, LesserMoves
  <2>7. Apart(a, n, g)
    BY <1>0, <2>6, ApartLesser
  <2>8. ASSUME Lesser(a, q)
        PROVE  Apart(q, n, 0)
    BY <1>0, <2>4, <2>7, <2>8, ApartLesser, ApartDrop
  <2>9. CASE msg.what = "handshake"
    <3>1. q = HandshakeResponse(a, msg)
      BY <2>3, <2>9
    <3>2. Wires(a, q) /\ (~msg.ok => q = HandshakeFailed(a)) /\ (msg.ok => q.client = msg.client)
      BY <2>1, <2>4, <3>1, HandshakeResponseIs
    <3>3. CASE ~msg.ok
      <4>1. Moves(a, q)
        BY <2>4, <3>2, <3>3, HandshakeFailedIs
      <4> QED
        BY <2>8, <4>1, LesserMoves
    <3>4. CASE msg.ok
      <4>1. q.client = g
        BY <2>1, <2>9, <3>2, <3>4
      <4> QED
        BY <2>7, <3>2, <4>1, ApartGiven
    <3> QED
      BY <2>1, <3>3, <3>4
  <2>10. CASE msg.what = "connect"
    <3>1. Lesser(a, q)
      BY <2>1, <2>3, <2>5, <2>10, LesserReceivedConnect
    <3> QED
      BY <2>8, <3>1
  <2>11. CASE msg.what = "disconnect"
    <3> DEFINE t == ~msg.ok
    <3>1. q = Disconnect(a, t) /\ t \in BOOLEAN
      BY <2>1, <2>3, <2>11
    <3> HIDE DEF t
    <3>2. Lesser(a, q)
      BY <2>4, <3>1, LesserDisconnect
    <3> QED
      BY <2>8, <3>2
  <2> QED
    BY <2>1, <2>9, <2>10, <2>11
<1> QED
  BY <1>2, <1>3 DEF Received

LEMMA RoundReceived ==
  ASSUME NEW p, W(p, 0), ~p.threw, NEW x, Spare(p, x), NEW msgs \in Seq(Msg), NEW v \in Whats, About(msgs, v), Round(p, v),
         NEW reply, reply[1].what = "handshake" /\ reply[1].ok => reply[1].client # 0, NEW q, Received(p, q, msgs, reply)
  PROVE  Round(q, "publish")
<1>0. p \in PageRec
  BY WType
<1>1. CASE Batch(msgs) /\ q = TellAll(p, Published(msgs))
  <2> DEFINE M == Published(msgs)
  <2>0. q = TellAll(p, M)
    BY <1>1
  <2> HIDE DEF M
  <2>1. Round(q, v)
    BY <1>0, <2>0, RoundTells
  <2> QED
    BY <2>1, RoundOver
<1>2. CASE \E w \in {"handshake", "connect", "disconnect"} :
             OneMeta(msgs, w) /\ reply[1] \in Ans /\ reply[1].what = w /\ q = Receive(p, reply[1])
  <2> DEFINE msg == reply[1]
             a == Advised(p, msg)
  <2>1. /\ msg \in Ans /\ q = Receive(p, msg) /\ msg.what \in {"handshake", "connect", "disconnect"} /\ msg.ok \in BOOLEAN
        /\ msg.what = "handshake" /\ msg.ok => msg.client # 0
        /\ OneMeta(msgs, msg.what)
    BY <1>2 DEF Ans
  <2> HIDE DEF msg
  <2>2. msg.what = v
    <3>1. msg.what \in Whats /\ About(msgs, msg.what)
      BY <2>1 DEF Whats, About, Metas
    <3> QED
      BY <3>1, AboutOne
  <2>3. Moves(p, a) /\ Plan(p, a) /\ a.why = p.why
    BY <1>0, <2>1, AdvisedIs
  <2>4. /\ msg.what = "handshake"  => q = HandshakeResponse(a, msg)
        /\ msg.what = "connect"    => q = ConnectResponse(a, msg)
        /\ msg.what = "disconnect" => q = Disconnect(a, ~msg.ok)
    BY <1>0, <2>1, ReceiveIs
  <2> HIDE DEF a
  <2>5. a \in PageRec /\ Wires(p, a) /\ a.queue = p.queue /\ a.threw = p.threw /\ a.client = p.client /\ a.due = p.due
    BY <2>3 DEF Moves, Words, Calm, Plan
  <2>6. W(a, 0) /\ Spare(a, x) /\ ~a.threw
    BY <2>3, <2>5, WSame, SpareSame
  <2>7. Round(a, v)
    <3>1. Lesser(p, a) /\ Handshakes(a) = Handshakes(p) /\ a.longpoll = p.longpoll
      BY <2>3, <2>5, LesserMoves DEF Handshakes, Listed, Wires
    <3>2. Goes(p, a, {})
      BY <2>3, <2>5, <3>1 DEF Goes
    <3> QED
      BY <3>2, RoundGoes
  <2>8. CASE msg.what = "handshake"
    <3>1. q = HandshakeResponse(a, msg)
      BY <2>4, <2>8
    <3>2. /\ Wires(a, q) /\ a.why \subseteq q.why /\ (~msg.ok => q = HandshakeFailed(a))
          /\ msg.ok => q.client = msg.client
      BY <2>1, <2>5, <3>1, HandshakeResponseIs
    <3>3. q.due = "connect" => Doubted(a) \/ q.client # 0
      <4>1. CASE ~msg.ok
        <5>1. q.due = "handshake" \/ q.due = a.due
          BY <2>5, <3>2, <4>1, HandshakeFailedIs
        <5>2. Doubted(a) \/ a.due = "none"
          BY <2>2, <2>7, <2>8 DEF Round
        <5> QED
          BY <5>1, <5>2
      <4>2. CASE msg.ok
        BY <2>1, <2>8, <3>2, <4>2
      <4> QED
        BY <2>1, <4>1, <4>2
    <3> QED
      BY <2>2, <2>7, <2>8, <3>2, <3>3, RoundPlanned
  <2>9. CASE msg.what = "connect"
    BY <2>1, <2>2, <2>4, <2>6, <2>7, <2>9, LesserReceivedConnect
  <2>10. CASE msg.what = "disconnect"
    <3> DEFINE t == ~msg.ok
    <3>1. q = Disconnect(a, t) /\ t \in BOOLEAN
      BY <2>1, <2>4, <2>10
    <3> HIDE DEF t
    <3> QED
      BY <2>5, <2>7, <3>1, RoundDisconnect
  <2> QED
    BY <2>1, <2>8, <2>9, <2>10
<1> QED
  BY <1>1, <1>2 DEF Received

LEMMA RoundHandleResponse ==
  ASSUME NEW p, NEW r \in Slots, W(p, r), ~OnPoll(p, r), ~p.threw, Echoes(p.req[r].reply, p.req[r].msgs), NEW x, Spare(p, x),
         NEW n \in Nat, NEW g, Apart(p, n, g), Round(p, "publish"), Formed(p.req[r]),
         p.req[r].reply[1].what = "handshake" /\ p.req[r].reply[1].ok => p.req[r].reply[1].client = g /\ g # 0,
         NEW q, q = HandleResponse(p, r)
  PROVE  Apart(q, n, 0) /\ Round(q, "publish")
<1>0. /\ p \in PageRec /\ Distinct(p.requests) /\ p.req[r].msgs \in Seq(Msg) /\ p.longpoll \in Slots \cup {0}
  BY DEF W, PageRec, Request
<1> DEFINE l == LetGo(p, r)
<1>1. Lesser(p, l)
  BY <1>0, LesserLetGo
<1>2. CASE Clash(p, r)
  <2>1. q = l
    BY <1>2, HandleResponseIs
  <2> HIDE DEF l
  <2>2. Apart(q, n, 0)
    BY <1>0, <1>1, <2>1, ApartLesser, ApartDrop
  <2>3. Round(q, "publish")
    BY <1>2, <2>1, RoundClash DEF l
  <2> QED
    BY <2>2, <2>3
<1>3. CASE ~Clash(p, r)
  <2> DEFINE s == Passed(p, r)
             reply == p.req[r].reply
             msgs == p.req[r].msgs
  <2>1. PICK v \in Whats : About(msgs, v)
    BY FormedAbout
  <2>2. Round(l, v)
    BY <1>3, <2>1, RoundLetGo
  <2>3. W(l, 0) /\ ~l.threw
    <3>1. W(l, r) /\ Loose(l, r)
      BY <1>3, WLetGo
    <3>2. l.threw = p.threw
      BY <1>0, <1>3, LetGoIs
    <3> QED
      BY <3>1, <3>2, WLoose, CometdAssumption
  <2>4. W(s, 0) /\ ~s.threw /\ Spare(s, x) /\ Received(s, q, msgs, reply)
    BY <1>3, HandleResponseIs
  <2>5. s = l \/ s = SendNext(l)
    BY DEF Passed
  <2>6. reply[1].what = "handshake" /\ reply[1].ok => reply[1].client = g /\ g # 0
    OBVIOUS
  <2>7. msgs \in Seq(Msg)
    BY <1>0
  <2> HIDE DEF l, s, reply, msgs
  <2>8. l.longpoll \in Slots \cup {0}
    BY <2>3, WType DEF PageRec
  <2>9. Round(s, v) /\ (s = l \/ Lesser(l, s))
    <3>1. CASE s = l
      BY <2>2, <3>1
    <3>2. CASE s = SendNext(l)
      <4>1. Goes(l, s, {})
        BY <2>3, <3>2, GoesSendNext
      <4> QED
        BY <2>2, <4>1, RoundGoes DEF Goes
    <3> QED
      BY <2>5, <3>1, <3>2
  <2>10. Apart(s, n, g)
    BY <1>0, <1>1, <2>8, <2>9, ApartLesser
  <2>11. Apart(q, n, 0)
    BY <2>4, <2>6, <2>10, ApartReceived
  <2>12. Round(q, "publish")
    BY <2>1, <2>4, <2>6, <2>7, <2>9, RoundReceived
  <2> QED
    BY <2>11, <2>12
<1> QED
  BY <1>2, <1>3

-----------------------------------------------------------------------------
(* One long poll of a session, and one round.                              *)

Once(p, n) == Apart(p, n, 0) /\ Round(p, "publish")
Rounds     == Once(page, granted)

LEMMA GoesWires ==
  ASSUME NEW p, NEW q, Wires(p, q), Plan(p, q), q.client = p.client, p.why \subseteq q.why
  PROVE  Goes(p, q, {})
<1>1. Lesser(p, q)
  BY LesserSame DEF Wires
<1>2. Handshakes(q) = Handshakes(p) /\ q.longpoll = p.longpoll
  BY DEF Wires, Handshakes, Listed
<1> QED
  BY <1>1, <1>2 DEF Goes

LEMMA OnceGoes ==
  ASSUME NEW p \in PageRec, NEW n \in Nat, Once(p, n), NEW q, Goes(p, q, {})
  PROVE  Once(q, n)
<1>1. p.longpoll \in Slots \cup {0} /\ Lesser(p, q)
  BY DEF PageRec, Goes
<1> QED
  BY <1>1, ApartLesser, RoundGoes DEF Once

LEMMA OnceSettled ==
  ASSUME NEW p \in PageRec, NEW n \in Nat, Once(p, n), NEW q, q = Settled(p)
  PROVE  Once(q, n)
<1>1. /\ q.requests = p.requests /\ q.envelopes = p.envelopes /\ q.longpoll = p.longpoll
      /\ Plan(p, q) /\ q.client = p.client /\ q.why = p.why
  BY SettledIs
<1>2. \A r \in Slots : (Spare(p, r) => q.req[r] = NoRequest) /\ (~Spare(p, r) => q.req[r] = p.req[r])
  BY SettledIs
<1>3. \A r \in Slots : q.req[r].xhr \in OnWire => q.req[r] = p.req[r]
  <2>1. NoRequest.xhr \notin OnWire
    BY DEF NoRequest, OnWire
  <2> QED
    BY <1>2, <2>1
<1>4. Lesser(p, q)
  BY <1>1, <1>3 DEF Lesser, Alike, Kept
<1>5. Listed(p) \subseteq Slots /\ Listed(q) = Listed(p)
  BY <1>1, Members DEF Listed, PageRec
<1>6. \A r \in Listed(q) : q.req[r] = p.req[r]
  BY <1>2, <1>5 DEF Spare, Loose, Listed
<1>7. Handshakes(q) \subseteq Handshakes(p)
  BY <1>5, <1>6, HandshakesSame
<1> QED
  BY <1>1, <1>4, <1>7, OnceGoes DEF Goes

\* What is answered gives the session it gives, whatever else is on the wire.
LEMMA OnceEnded ==
  ASSUME NEW p \in PageRec, NEW n \in Nat, Once(p, n), NEW r \in Slots, NEW q, q = Ended(p, r)
  PROVE  /\ Once(q, n) /\ ~OnPoll(q, r)
         /\ \E g : Apart(q, n, g) /\ (Grants(p, r) => g = Given(p, r) /\ g # 0)
<1>1. /\ q.requests = p.requests /\ q.envelopes = p.envelopes /\ q.longpoll = p.longpoll
      /\ Calm(p, q) /\ Plan(p, q) /\ q.why = p.why
      /\ Kept(p.req[r], q.req[r]) /\ q.req[r].xhr = "none"
  BY EndedIs
<1>2. \A s \in Slots : s # r => q.req[s] = p.req[s]
  BY EndedIs
<1>3. ~OnPoll(q, r) /\ ~Grants(q, r)
  BY <1>1 DEF OnPoll, Grants, OnWire
<1>4. Lesser(p, q)
  BY <1>1, <1>2 DEF Lesser, Alike, Kept, Calm, OnWire
<1>5. Listed(p) \subseteq Slots /\ Listed(q) = Listed(p)
  BY <1>1, Members DEF Listed, PageRec
<1>6. \A s \in Listed(q) : q.req[s].msgs = p.req[s].msgs
  BY <1>1, <1>2, <1>5 DEF Kept
<1>7. Handshakes(q) \subseteq Handshakes(p)
  BY <1>5, <1>6, HandshakesSame
<1>8. Once(q, n)
  BY <1>1, <1>4, <1>7, OnceGoes DEF Goes, Calm
<1>9. ASSUME Grants(p, r)
      PROVE  Apart(q, n, Given(p, r)) /\ Given(p, r) # 0
  <2> DEFINE g == Given(p, r)
  <2>1. /\ g \in 1..n /\ g # p.client
        /\ \A s \in Slots : OnPoll(p, s) => Of(p, s) # g
        /\ \A s \in Slots : s # r /\ Grants(p, s) => Given(p, s) # g
    BY <1>9 DEF Once, Apart
  <2>2. g \in 0..n /\ g # 0 /\ q.client = p.client
    BY <1>1, <2>1 DEF Calm
  <2> HIDE DEF g
  <2>3. \A s \in Slots : OnPoll(q, s) => OnPoll(p, s) /\ Of(q, s) = Of(p, s)
    BY <1>4, LesserShows
  <2>4. \A s \in Slots : Grants(q, s) => s # r /\ Grants(p, s) /\ Given(q, s) = Given(p, s)
    BY <1>3, <1>4, LesserShows
  <2>5. Apart(q, n, 0)
    BY <1>8 DEF Once
  <2>6. /\ \A s \in Slots : OnPoll(q, s) => Of(q, s) # g
        /\ \A s \in Slots : Grants(q, s) => Given(q, s) # g
    BY <2>1, <2>3, <2>4
  <2>7. Apart(q, n, g)
    BY <2>1, <2>2, <2>5, <2>6 DEF Apart
  <2> QED
    BY <2>2, <2>7 DEF g
<1> QED
  BY <1>3, <1>8, <1>9 DEF Once

LEMMA RoundsThen ==
  ASSUME NEW q, page' = q, NEW n, granted' = n, Once(q, n)
  PROVE  Rounds'
<1>1. Apart(page, granted, 0)'
  BY DEF Once, Apart, OnPoll, Of, Grants, Given
<1>2. Handshakes(page)' = Handshakes(q)
  BY DEF Handshakes, Listed, OneMeta, ToSet
<1>3. Round(page, "publish")'
  BY <1>2 DEF Once, Round, OnPoll, Of, Doubted, Seated, Disconnected
<1> QED
  BY <1>1, <1>3 DEF Rounds, Once

LEMMA RoundsTurn ==
  ASSUME granted \in Nat, NEW q, W(q, 0), Once(q, granted), Turn(q), granted' = granted
  PROVE  Rounds'
<1> DEFINE s == page'
<1>1. s = Settled(q)
  BY EndOfTurn
<1> HIDE DEF s
<1>2. Once(s, granted)
  BY <1>1, WType, OnceSettled
<1> QED
  BY <1>2, RoundsThen DEF s

LEMMA RoundsIs ==
  ASSUME Wired, Rounds
  PROVE  /\ W(page, 0) /\ ~page.threw /\ page \in PageRec /\ granted \in Nat /\ Once(page, granted)
         /\ Apart(page, granted, 0) /\ Round(page, "publish") /\ page.longpoll \in Slots \cup {0}
  BY WType DEF Wired, Dated, Rounds, Once, PageRec

\* The status is another, or the rest of the object.
LEMMA OnceStatus ==
  ASSUME NEW p \in PageRec, NEW n \in Nat, Once(p, n), NEW q, Wires(p, q), q.client = p.client, q.due = p.due,
         p.why \subseteq q.why, Disconnected(q)
  PROVE  Once(q, n)
<1>1. q.client \in {p.client, 0} /\ q.longpoll = p.longpoll /\ q.req = p.req
  BY DEF Wires
<1>2. Lesser(p, q)
  BY <1>1, LesserSame
<1>3. p.longpoll \in Slots \cup {0}
  BY DEF PageRec
<1> QED
  BY <1>2, <1>3, ApartLesser, RoundStatus DEF Once

LEMMA RoundsAppHandshake ==
  ASSUME Wired, Rounds, Room, AppHandshake
  PROVE  Rounds'
<1> DEFINE w == IF page.due # "none" THEN page.why \cup {"overtaken"} ELSE page.why
           p == [page EXCEPT !.status = "disconnected", !.why = w]
           q == Handshake(p)
<1>1. W(page, 0) /\ ~page.threw /\ page \in PageRec /\ granted \in Nat /\ Once(page, granted)
  BY RoundsIs
<1>2. w \in SUBSET Reasons /\ page.why \subseteq w /\ "disconnected" \in Phases /\ (page.due # "none" => "overtaken" \in w)
  BY <1>1 DEF PageRec, Reasons, Phases
<1>3. Turn(q)
  <2>1. [page EXCEPT !.status = "disconnected", !.why = IF page.due # "none" THEN @ \cup {"overtaken"} ELSE @] = p
    BY <1>1 DEF PageRec
  <2> QED
    BY <2>1 DEF AppHandshake
<1> HIDE DEF w
<1>4. /\ p \in PageRec /\ Wires(page, p) /\ p.queue = page.queue /\ p.why = w /\ p.threw = page.threw
      /\ p.client = page.client /\ p.due = page.due /\ p.status = "disconnected"
  BY <1>1, <1>2 DEF PageRec, Wires
<1> HIDE DEF p
<1>5. PICK x : Spare(p, x)
  BY <1>4, RoomIs, SpareSame
<1>6. W(p, 0) /\ Disconnected(p) /\ (Doubted(p) \/ p.due = "none")
  BY <1>1, <1>2, <1>4, WSame DEF Disconnected, Doubted, Doubts
<1>7. Once(p, granted)
  BY <1>1, <1>2, <1>4, <1>6, OnceStatus
<1>8. W(q, 0) /\ Lesser(p, q) /\ Round(q, "publish")
  BY <1>1, <1>4, <1>5, <1>6, <1>7, WHandshake, HandshakeGoes DEF Starts, Once
<1> HIDE DEF q
<1>9. Once(q, granted)
  BY <1>1, <1>4, <1>7, <1>8, ApartLesser DEF Once, PageRec
<1> QED
  BY <1>1, <1>3, <1>8, <1>9, RoundsTurn DEF AppHandshake

LEMMA RoundsAppDisconnect ==
  ASSUME Wired, Rounds, Room, AppDisconnect
  PROVE  Rounds'
<1> DEFINE p == Status(page, "disconnecting")
           msgs == <<Meta("disconnect")>>
           q == SendPlain(p, msgs)
<1>1. /\ W(page, 0) /\ ~page.threw /\ page \in PageRec /\ granted \in Nat /\ Once(page, granted)
      /\ "disconnecting" \in Phases
  BY RoundsIs DEF Phases
<1>2. Moves(page, p) /\ p.why = page.why /\ p.status = "disconnecting" /\ p.due = page.due
  BY <1>1, StatusIs
<1>3. Turn(q)
  BY DEF AppDisconnect, SendPlain
<1>4. Plain(msgs) /\ ~OneMeta(msgs, "handshake")
  <2>1. Plain(msgs) /\ About(msgs, "disconnect")
    BY MetaPlain
  <2> HIDE DEF msgs
  <2>2. msgs \in Seq(Msg) /\ OneMeta(msgs, "disconnect")
    BY <2>1 DEF Plain, Fit, About
  <2> QED
    BY <2>1, <2>2 DEF OneMeta
<1> HIDE DEF p, msgs
<1>5. p \in PageRec /\ Wires(page, p) /\ p.queue = page.queue /\ p.threw = page.threw /\ p.client = page.client
  BY <1>2 DEF Moves, Words, Calm
<1>6. PICK x : Spare(p, x)
  BY <1>5, RoomIs, SpareSame
<1>7. W(p, 0) /\ Free(p) # {} /\ FALSE \in BOOLEAN /\ ~p.threw
  BY <1>1, <1>2, <1>5, <1>6, WSame, FreeSpare
<1>8. Once(p, granted)
  BY <1>1, <1>2, <1>5, OnceStatus DEF Disconnected
<1>9. Goes(p, q, {})
  BY <1>4, <1>7, GoesSendMessages
<1>10. W(q, 0)
  BY <1>4, <1>7, WSendMessages DEF Plain, SendPlain
<1> HIDE DEF q
<1>11. Once(q, granted)
  BY <1>1, <1>5, <1>8, <1>9, OnceGoes
<1> QED
  BY <1>1, <1>3, <1>10, <1>11, RoundsTurn DEF AppDisconnect

LEMMA RoundsDue ==
  ASSUME Wired, Rounds, Room, Due
  PROVE  Rounds'
<1> DEFINE p == [page EXCEPT !.due = "none"]
           q == IF page.due = "connect" THEN Connect(p) ELSE Handshake(p)
<1>1. /\ W(page, 0) /\ ~page.threw /\ page \in PageRec /\ granted \in Nat
      /\ Apart(page, granted, 0) /\ Round(page, "publish") /\ page.longpoll \in Slots \cup {0}
  BY RoundsIs
<1>2. /\ p \in PageRec /\ Wires(page, p) /\ p.queue = page.queue /\ p.why = page.why /\ p.threw = page.threw
      /\ p.client = page.client /\ p.due = "none" /\ p.status = page.status
  BY <1>1 DEF PageRec, Wires
<1>3. Turn(q)
  BY DEF Due
<1>4. (page.due = "connect" /\ q = Connect(p)) \/ (page.due = "handshake" /\ q = Handshake(p))
  BY <1>1 DEF Due, PageRec
<1> HIDE DEF p, q
<1>5. PICK x : Spare(p, x)
  BY <1>2, RoomIs, SpareSame
<1>6. W(p, 0) /\ ~p.threw /\ p.longpoll \in Slots \cup {0}
  BY <1>1, <1>2, WSame DEF PageRec
<1>7. Apart(p, granted, 0)
  <2>1. Lesser(page, p)
    BY <1>2, LesserSame DEF Wires
  <2> QED
    BY <1>1, <2>1, ApartLesser
<1>8. /\ Doubted(p) <=> Doubted(page)
      /\ Handshakes(p) = Handshakes(page) /\ p.longpoll = page.longpoll /\ (Seated(p) <=> Seated(page))
      /\ \A r \in Slots : (OnPoll(p, r) <=> OnPoll(page, r)) /\ Of(p, r) = Of(page, r)
  BY <1>2 DEF Doubted, Handshakes, Listed, Wires, Seated, Disconnected, OnPoll, Of
<1>9. page.due # "none"
  BY DEF Due
<1>10. Round(p, "handshake")
  BY <1>1, <1>2, <1>8, <1>9 DEF Round
<1>11. page.due = "connect" => Round(p, "connect") /\ (Doubted(p) \/ p.client # 0)
  BY <1>1, <1>2, <1>8 DEF Round, Seated
<1>12. W(q, 0) /\ Once(q, granted)
  <2>1. CASE page.due = "connect" /\ q = Connect(p)
    BY <1>1, <1>5, <1>6, <1>7, <1>11, <2>1, WConnect, ConnectApart, ConnectRound DEF Once
  <2>2. CASE q = Handshake(p)
    <3>1. W(q, 0) /\ Lesser(p, q) /\ Round(q, "publish")
      BY <1>5, <1>6, <1>10, <2>2, WHandshake, HandshakeGoes DEF Starts
    <3> QED
      BY <1>1, <1>6, <1>7, <3>1, ApartLesser DEF Once
  <2> QED
    BY <1>4, <2>1, <2>2
<1> QED
  BY <1>1, <1>3, <1>12, RoundsTurn DEF Due

LEMMA RoundsPublish ==
  ASSUME Wired, Rounds, Room, Publish
  PROVE  Rounds'
<1> DEFINE n == asked + 1
           msgs == <<Message(n)>>
           q == IF page.batch > 0 \/ page.held THEN Queued(page, n) ELSE SendPlain(page, msgs)
<1>1. /\ W(page, 0) /\ ~page.threw /\ page \in PageRec /\ Dated /\ (page.queue = <<>> \/ Batch(page.queue))
      /\ granted \in Nat /\ Once(page, granted)
  BY RoundsIs DEF Wired, W
<1>2. asked' = n /\ n \in Messages /\ asked \in Nat
  BY <1>1, CometdAssumption DEF Publish, Dated, Messages
<1>3. \A m \in Published(page.queue) : m < n
  BY <1>1, <1>2 DEF Dated
<1>4. Turn(q)
  <2>1. Turn(IF page.batch > 0 \/ page.held THEN [page EXCEPT !.queue = Append(@, Message(n))]
             ELSE SendMessages(page, <<Message(n)>>, FALSE))
    BY <1>2 DEF Publish
  <2>2. [page EXCEPT !.queue = Append(@, Message(n))] = Queued(page, n)
    BY <1>1 DEF Queued, PageRec
  <2> QED
    BY <2>1, <2>2 DEF SendPlain
<1>5. q = Queued(page, n) \/ q = SendPlain(page, msgs)
  OBVIOUS
<1>6. Plain(msgs) /\ ~OneMeta(msgs, "handshake")
  <2> HIDE DEF msgs, n
  <2>1. msgs = <<Message(n)>> /\ n \in Messages
    BY <1>2 DEF msgs
  <2>2. msgs \in Seq(Msg) /\ Batch(msgs)
    BY <2>1, MessageIs
  <2> QED
    BY <2>2, OneThing DEF Fit, Plain, Metas
<1> HIDE DEF q, msgs, n
<1>7. W(q, 0) /\ Goes(page, q, {})
  <2>1. CASE q = Queued(page, n)
    <3>1. q \in PageRec /\ Batch(q.queue) /\ Wires(page, q) /\ Plan(page, q) /\ Calm(page, q) /\ q.why = page.why
      BY <1>1, <1>2, <1>3, <2>1, QueuedIs
    <3>2. W(q, 0)
      BY <1>1, <3>1 DEF W, Wires, Listed
    <3> QED
      BY <3>1, <3>2, GoesWires DEF Calm
  <2>2. CASE q = SendPlain(page, msgs)
    <3>1. Free(page) # {} /\ FALSE \in BOOLEAN
      BY <1>1, RoomIs, FreeSpare
    <3>2. W(q, 0)
      BY <1>1, <1>6, <2>2, <3>1, WSendMessages DEF Plain, SendPlain
    <3> QED
      BY <1>1, <1>6, <2>2, <3>1, <3>2, GoesSendMessages
  <2> QED
    BY <1>5, <2>1, <2>2
<1> QED
  BY <1>1, <1>4, <1>7, OnceGoes, RoundsTurn DEF Publish

LEMMA RoundsStartBatch ==
  ASSUME Wired, Rounds, Room, StartBatch
  PROVE  Rounds'
<1> DEFINE q == Counted(page, page.batch + 1)
<1>1. W(page, 0) /\ page \in PageRec /\ Dated /\ granted \in Nat /\ Once(page, granted)
  BY RoundsIs DEF Wired
<1>2. page.batch + 1 \in Int
  BY <1>1 DEF StartBatch, Dated
<1>3. Turn(q)
  <2>1. [page EXCEPT !.batch = @ + 1] = q
    BY <1>1 DEF Counted, PageRec
  <2> QED
    BY <2>1 DEF StartBatch
<1>4. /\ q \in PageRec /\ Wires(page, q) /\ q.queue = page.queue /\ q.why = page.why /\ Plan(page, q)
      /\ q.client = page.client
  <2>0. PICK b \in Int : q = Counted(page, b)
    BY <1>2
  <2> HIDE DEF q
  <2>1. /\ q \in PageRec /\ Wires(page, q) /\ Words(page, q) /\ q.why = page.why /\ Plan(page, q)
        /\ q.client = page.client
    BY <1>1, <2>0, CountedIs
  <2> QED
    BY <2>1 DEF Words
<1> HIDE DEF q
<1>5. W(q, 0)
  BY <1>1, <1>4, WSame
<1>6. Once(q, granted)
  BY <1>1, <1>4, GoesWires, OnceGoes
<1> QED
  BY <1>1, <1>3, <1>5, <1>6, RoundsTurn DEF StartBatch

LEMMA RoundsEndBatch ==
  ASSUME Wired, Rounds, Room, EndBatch
  PROVE  Rounds'
<1> DEFINE p == Counted(page, page.batch - 1)
           q == IF p.batch = 0 /\ ~Disconnected(p) /\ ~p.held THEN FlushBatch(p)
                ELSE IF p.queue # <<>> /\ ~p.held THEN Because(p, "kept") ELSE p
<1>1. W(page, 0) /\ ~page.threw /\ page \in PageRec /\ Dated /\ granted \in Nat /\ Once(page, granted)
  BY RoundsIs DEF Wired
<1>2. page.batch - 1 \in Int
  BY <1>1 DEF EndBatch, Dated
<1>3. Turn(q)
  <2>1. [page EXCEPT !.batch = @ - 1] = p
    BY <1>1 DEF Counted, PageRec
  <2> HIDE DEF p
  <2> QED
    BY <2>1 DEF EndBatch
<1>4. /\ p \in PageRec /\ Wires(page, p) /\ p.queue = page.queue /\ p.why = page.why /\ Plan(page, p)
      /\ p.threw = page.threw /\ p.client = page.client
  <2>0. PICK b \in Int : p = Counted(page, b)
    BY <1>2
  <2> HIDE DEF p
  <2>1. /\ p \in PageRec /\ Wires(page, p) /\ Words(page, p) /\ p.why = page.why /\ Plan(page, p)
        /\ p.threw = page.threw /\ p.client = page.client
    BY <1>1, <2>0, CountedIs
  <2> QED
    BY <2>1 DEF Words
<1> HIDE DEF p
<1>5. q = FlushBatch(p) \/ q = Because(p, "kept") \/ q = p
  OBVIOUS
<1> HIDE DEF q
<1>6. W(p, 0)
  BY <1>1, <1>4, WSame
<1>7. PICK x : Spare(p, x)
  BY <1>4, RoomIs, SpareSame
<1>8. Once(p, granted)
  BY <1>1, <1>4, GoesWires, OnceGoes
<1>9. W(q, 0) /\ Once(q, granted)
  <2>1. CASE q = FlushBatch(p)
    BY <1>1, <1>4, <1>6, <1>7, <1>8, <2>1, WFlushBatch, GoesFlushBatch, OnceGoes
  <2>2. CASE q = Because(p, "kept")
    <3>1. Moves(p, q) /\ Plan(p, q) /\ q.why = p.why \cup {"kept"}
      BY <1>4, <2>2, BecauseIs DEF Reasons
    <3>2. q \in PageRec /\ Wires(p, q) /\ q.client = p.client /\ q.queue = p.queue
      BY <3>1 DEF Moves, Calm, Words
    <3> QED
      BY <1>1, <1>4, <1>6, <1>8, <3>1, <3>2, WSame, GoesWires, OnceGoes
  <2>3. CASE q = p
    BY <1>6, <1>8, <2>3
  <2> QED
    BY <1>5, <2>1, <2>2, <2>3
<1> QED
  BY <1>1, <1>3, <1>9, RoundsTurn DEF EndBatch

LEMMA RoundsFailure ==
  ASSUME Wired, Rounds, Room, NEW r \in Slots, Out(page, r), Turn(HandleFailure(Over(r), r)), granted' = granted
  PROVE  Rounds'
<1> DEFINE p == Ended(page, r)
           q == HandleFailure(p, r)
<1>1. W(page, 0) /\ ~page.threw /\ page \in PageRec /\ granted \in Nat /\ Once(page, granted)
  BY RoundsIs
<1>2. Turn(q)
  BY DEF Over, Ended
<1>3. W(p, r) /\ Calm(page, p) /\ Once(p, granted) /\ ~OnPoll(p, r)
  BY <1>1, WEnded, EndedIs, OnceEnded
<1> HIDE DEF p
<1>4. ~p.threw /\ p.longpoll \in Slots \cup {0}
  BY <1>1, <1>3 DEF Calm, W, PageRec
<1>5. W(q, 0) /\ Lesser(p, q) /\ Round(q, "publish")
  BY <1>3, <1>4, WHandleFailure, LesserFailure, RoundFailure DEF Once
<1> HIDE DEF q
<1>6. Once(q, granted)
  BY <1>1, <1>3, <1>4, <1>5, ApartLesser DEF Once
<1> QED
  BY <1>1, <1>2, <1>5, <1>6, RoundsTurn

LEMMA RoundsPoll ==
  ASSUME Wired, Rounds, Room, NEW r \in Slots, Poll(r)
  PROVE  Rounds'
<1> DEFINE p == Ended(page, r)
<1>1. W(page, 0) /\ ~page.threw /\ page \in PageRec /\ granted \in Nat /\ Once(page, granted)
  BY RoundsIs
<1>2. p = Over(r)
  BY DEF Over, Ended
<1>3. ASSUME Out(page, r)
      PROVE  /\ W(p, r) /\ ~p.threw /\ Formed(page.req[r]) /\ Formed(p.req[r])
             /\ p.req[r].msgs = page.req[r].msgs /\ p.req[r].reply = page.req[r].reply
             /\ \A x : Spare(page, x) => Spare(p, x)
  <2>1. W(p, r) /\ Calm(page, p) /\ Kept(page.req[r], p.req[r])
    BY <1>1, <1>3, WEnded, EndedIs
  <2>2. Formed(page.req[r]) /\ \A x : Spare(page, x) => Spare(p, x)
    BY <1>1, <1>3, WEnded
  <2> HIDE DEF p
  <2>3. Formed(p.req[r])
    BY <2>1 DEF W
  <2> QED
    BY <1>1, <2>1, <2>2, <2>3 DEF Calm, Kept
<1>4. granted' = granted
  BY DEF Poll
<1>5. Once(p, granted) /\ ~OnPoll(p, r)
  BY <1>1, OnceEnded
<1>6. PICK g : Apart(p, granted, g) /\ (Grants(page, r) => g = Given(page, r) /\ g # 0)
  BY <1>1, OnceEnded
<1>7. CASE page.req[r].xhr = "broken" /\ Turn(HandleFailure(Over(r), r))
  BY <1>4, <1>7, RoundsFailure DEF Out
<1> HIDE DEF p
<1>8. CASE page.req[r].xhr = "answered" /\ Turn(HandleResponse(Over(r), r))
  <2> DEFINE q == HandleResponse(p, r)
  <2>1. Turn(q)
    BY <1>2, <1>8
  <2>2. Out(page, r)
    BY <1>8 DEF Out
  <2>3. Echoes(p.req[r].reply, p.req[r].msgs)
    BY <1>3, <1>8, <2>2 DEF Formed
  <2>4. PICK x : Spare(p, x)
    BY <1>3, <2>2, RoomIs
  <2>5. p.req[r].reply[1].what = "handshake" /\ p.req[r].reply[1].ok => p.req[r].reply[1].client = g /\ g # 0
    BY <1>3, <1>6, <1>8, <2>2 DEF Grants, Given
  <2>6. W(q, 0)
    BY <1>3, <2>2, <2>3, <2>4, WHandleResponse
  <2>7. Once(q, granted)
    BY <1>1, <1>3, <1>5, <1>6, <2>2, <2>3, <2>4, <2>5, RoundHandleResponse DEF Once
  <2> HIDE DEF q
  <2> QED
    BY <1>1, <1>4, <2>1, <2>6, <2>7, RoundsTurn
<1>9. CASE page.req[r].xhr = "garbled" /\ Turn([Because(Over(r), "garbled") EXCEPT !.lost = @ \cup Published(page.req[r].msgs)])
  <2> DEFINE q == Forgotten(p, page.req[r].msgs)
  <2>1. Turn(q)
    BY <1>2, <1>9 DEF Forgotten
  <2>2. Out(page, r)
    BY <1>9 DEF Out
  <2>3. p \in PageRec /\ page.req[r].msgs \in Seq(Msg) /\ W(p, r)
    BY <1>1, <1>3, <2>2, WType DEF PageRec, Request
  <2>4. q \in PageRec /\ Wires(p, q) /\ Plan(p, q) /\ Calm(p, q) /\ q.why = p.why \cup {"garbled"} /\ q.queue = p.queue
    BY <2>3, ForgottenIs
  <2> HIDE DEF q
  <2>5. W(q, r)
    BY <2>3, <2>4, WSame
  <2>6. ToSet(q.envelopes) \subseteq Slots /\ 0 \notin Slots /\ r # 0
    BY <2>4, Members, CometdAssumption DEF PageRec
  <2>7. W(q, 0)
    BY <2>4, <2>5, <2>6 DEF W
  <2>8. Once(q, granted)
    BY <1>1, <1>5, <2>3, <2>4, GoesWires, OnceGoes DEF Calm
  <2> QED
    BY <1>1, <1>4, <2>1, <2>7, <2>8, RoundsTurn
<1> QED
  BY <1>7, <1>8, <1>9 DEF Poll

\* On the wire a request changes its state and is the same request; a session that is given is new.
LEMMA OnceWire ==
  ASSUME NEW p \in PageRec, NEW n \in Nat, Once(p, n), NEW r \in Slots, p.req[r].xhr = "open", NEW q,
         q.requests = p.requests, q.envelopes = p.envelopes, q.longpoll = p.longpoll, Plan(p, q), q.client = p.client,
         q.why = p.why, q.req[r].msgs = p.req[r].msgs, q.req[r].poll = p.req[r].poll, q.req[r].xhr \in OnWire,
         \A s \in Slots : s # r => q.req[s] = p.req[s],
         NEW m \in {n, n + 1}, Grants(q, r) => Given(q, r) = n + 1 /\ m = n + 1
  PROVE  Once(q, m)
<1>1. \A s \in Slots : (OnPoll(q, s) <=> OnPoll(p, s)) /\ Of(q, s) = Of(p, s)
  BY DEF OnPoll, Of, OnWire
<1>2. \A s \in Slots : Grants(q, s) => \/ s = r /\ Given(q, s) = n + 1 /\ m = n + 1
                                       \/ s # r /\ Grants(p, s) /\ Given(q, s) = Given(p, s)
  BY DEF Grants, Given
<1>3. 0..n \subseteq 0..m /\ 1..n \subseteq 1..m /\ n + 1 \notin 0..n /\ (m = n + 1 => n + 1 \in 1..m /\ n + 1 # 0)
  OBVIOUS
<1>4. \A s \in Slots : OnPoll(q, s) => Of(q, s) \in 0..n
  BY <1>1 DEF Once, Apart
<1>5. \A s \in Slots : Grants(p, s) => Given(p, s) \in 1..n
  BY DEF Once, Apart
<1>6. p.client \in 0..n /\ 1..n \subseteq 0..n
  BY DEF Once, Apart
<1>7. ASSUME NEW s \in Slots, OnPoll(q, s)
      PROVE  /\ Of(q, s) \in 0..m
             /\ s # q.longpoll => Of(q, s) = 0 \/ Of(q, s) # q.client
             /\ \A t \in Slots : t # s /\ OnPoll(q, t) => Of(q, t) = 0 \/ Of(q, t) # Of(q, s)
  BY <1>1, <1>3, <1>4, <1>7 DEF Once, Apart
<1>8. ASSUME NEW s \in Slots, Grants(q, s)
      PROVE  /\ Given(q, s) \in 1..m /\ Given(q, s) # q.client /\ Given(q, s) # 0
             /\ \A t \in Slots : OnPoll(q, t) => Of(q, t) # Given(q, s)
             /\ \A t \in Slots : t # s /\ Grants(q, t) => Given(q, t) # Given(q, s)
  <2>1. CASE s = r
    <3>1. Given(q, s) = n + 1 /\ m = n + 1
      BY <1>2, <1>8, <2>1
    <3>2. \A t \in Slots : t # s /\ Grants(q, t) => Given(q, t) \in 0..n
      BY <1>2, <1>5, <1>6, <2>1
    <3> QED
      BY <1>3, <1>4, <1>6, <3>1, <3>2
  <2>2. CASE s # r
    <3>1. Grants(p, s) /\ Given(q, s) = Given(p, s)
      BY <1>2, <1>8, <2>2
    <3>2. /\ Given(p, s) \in 1..n /\ Given(p, s) # p.client /\ Given(p, s) # 0
          /\ \A t \in Slots : OnPoll(p, t) => Of(p, t) # Given(p, s)
          /\ \A t \in Slots : t # s /\ Grants(p, t) => Given(p, t) # Given(p, s)
      BY <3>1 DEF Once, Apart
    <3>3. \A t \in Slots : t # s /\ Grants(q, t) => Given(q, t) # Given(p, s)
      BY <1>2, <1>3, <1>6, <3>2
    <3> QED
      BY <1>1, <1>3, <3>1, <3>2, <3>3
  <2> QED
    BY <2>1, <2>2
<1>9. Apart(q, m, 0)
  <2>1. q.client \in 0..m /\ 0 \in 0..m
    BY <1>3, <1>6
  <2> QED
    BY <1>7, <1>8, <2>1 DEF Apart
<1>10. Listed(p) \subseteq Slots /\ Listed(q) = Listed(p)
  BY Members DEF Listed, PageRec
<1>11. Handshakes(q) = Handshakes(p)
  BY <1>10 DEF Handshakes
<1>12. Round(q, "publish")
  BY <1>1, <1>11 DEF Once, Round, Doubted, Plan, Seated, Disconnected
<1> QED
  BY <1>9, <1>12 DEF Once

\* The server numbers the sessions it gives.
LEMMA AnswerGrants ==
  ASSUME NEW r, Answer(r), Head(page.req[r].msgs) = page.req[r].msgs[1], 1 \in DOMAIN page.req[r].msgs
  PROVE  /\ page.req[r].xhr = "open"
         /\ \E reply : /\ page' = Answered(page, r, reply)
                       /\ reply[1].what = "handshake" /\ reply[1].ok => reply[1].client = granted + 1 /\ granted' = granted + 1
         /\ granted' \in {granted, granted + 1}
<1> USE DEF Arrives, Answered
<1> DEFINE msgs == page.req[r].msgs
           msg == msgs[1]
           Is(reply) == /\ page' = Answered(page, r, reply)
                        /\ reply[1].what = "handshake" /\ reply[1].ok => reply[1].client = granted + 1 /\ granted' = granted + 1
<1>1. page.req[r].xhr = "open"
  BY DEF Answer
<1>2. \/ AnswerHandshake(r, msg)
      \/ msg.what = "connect" /\ AnswerConnect(r, msg)
      \/ msg.what = "disconnect" /\ AnswerDisconnect(r, msg)
      \/ msg.what = "publish" /\ AnswerMessages(r)
  BY Zenon DEF Answer
<1>3. CASE AnswerHandshake(r, msg)
  <2>1. ASSUME granted' = granted + 1, NEW a, NEW u,
               Arrives(r, <<[Reply(msg, TRUE) EXCEPT !.client = granted', !.advice = a, !.unsupported = u]>>)
        PROVE  \E reply : Is(reply)
    <3> DEFINE b == [Reply(msg, TRUE) EXCEPT !.client = granted', !.advice = a, !.unsupported = u]
    <3>1. b.client = granted'
      BY DEF Reply
    <3>2. page' = Answered(page, r, <<b>>)
      BY <2>1
    <3> HIDE DEF b
    <3>3. <<b>>[1] = b
      OBVIOUS
    <3> QED
      BY <2>1, <3>1, <3>2, <3>3
  <2>2. ASSUME Arrives(r, <<[Reply(msg, FALSE) EXCEPT !.advice = "handshake"]>>)
        PROVE  \E reply : Is(reply)
    <3> DEFINE b == [Reply(msg, FALSE) EXCEPT !.advice = "handshake"]
    <3>1. ~b.ok
      BY DEF Reply
    <3>2. page' = Answered(page, r, <<b>>)
      BY <2>2
    <3> HIDE DEF b
    <3>3. <<b>>[1] = b
      OBVIOUS
    <3> QED
      BY <3>1, <3>2, <3>3
  <2>3. \/ granted' = granted + 1 /\ \E a, u :
             Arrives(r, <<[Reply(msg, TRUE) EXCEPT !.client = granted', !.advice = a, !.unsupported = u]>>)
        \/ granted' = granted /\ Arrives(r, <<[Reply(msg, FALSE) EXCEPT !.advice = "handshake"]>>)
    BY Zenon, <1>3 DEF AnswerHandshake
  <2> HIDE DEF Is
  <2>4. \E reply : Is(reply)
    BY Zenon, <2>1, <2>2, <2>3
  <2>5. granted' \in {granted, granted + 1}
    BY Zenon, <2>3
  <2> QED
    BY Zenon, <1>1, <2>4, <2>5 DEF Is
<1>4. ASSUME NEW b, page' = Answered(page, r, <<b>>), b.what = msg.what, msg.what # "handshake"
      PROVE  \E reply : Is(reply)
  <2>1. <<b>>[1] = b
    OBVIOUS
  <2> QED
    BY <1>4, <2>1
<1>5. CASE msg.what = "connect" /\ AnswerConnect(r, msg)
  <2>1. PICK ok, a : Arrives(r, <<[Reply(msg, ok) EXCEPT !.advice = IF ok THEN a ELSE "handshake"]>>)
    BY Zenon, <1>5 DEF AnswerConnect
  <2> DEFINE b == [Reply(msg, ok) EXCEPT !.advice = IF ok THEN a ELSE "handshake"]
  <2>2. b.what = msg.what /\ page' = Answered(page, r, <<b>>)
    BY <2>1 DEF Reply
  <2> HIDE DEF b
  <2>3. \E reply : Is(reply)
    BY <1>4, <1>5, <2>2
  <2> QED
    BY Zenon, <1>1, <1>5, <2>3 DEF AnswerConnect
<1>6. CASE msg.what = "disconnect" /\ AnswerDisconnect(r, msg)
  <2> DEFINE b == ReplyIn(msg, msg.client, sessions)
  <2>1. b.what = msg.what /\ page' = Answered(page, r, <<b>>)
    BY <1>6 DEF AnswerDisconnect, ReplyIn, Reply
  <2> HIDE DEF b
  <2>2. \E reply : Is(reply)
    BY <1>4, <1>6, <2>1
  <2> QED
    BY Zenon, <1>1, <1>6, <2>2 DEF AnswerDisconnect
<1>7. CASE msg.what = "publish" /\ AnswerMessages(r)
  <2> DEFINE reply == [i \in DOMAIN msgs |-> Reply(msgs[i], msgs[i].client \in sessions)]
  <2>1. reply[1].what = "publish"
    BY <1>7 DEF Reply
  <2>2. page' = Answered(page, r, reply) /\ granted' = granted
    BY Zenon, <1>7 DEF AnswerMessages
  <2> HIDE DEF reply
  <2>3. Is(reply)
    BY <2>1, <2>2
  <2> QED
    BY <1>1, <2>2, <2>3
<1> QED
  BY <1>2, <1>3, <1>5, <1>6, <1>7

LEMMA RoundsAnswer ==
  ASSUME Wired, Rounds, NEW r \in Slots, Answer(r)
  PROVE  Rounds'
<1> DEFINE q == page'
           m == granted'
<1>1. page \in PageRec /\ granted \in Nat /\ Once(page, granted)
  BY RoundsIs
<1>2. page.req[r].xhr = "open"
  BY DEF Answer
<1>3. Head(page.req[r].msgs) = page.req[r].msgs[1] /\ 1 \in DOMAIN page.req[r].msgs
  <2>1. Head(page.req[r].msgs) = page.req[r].msgs[1] /\ 1 \in 1..Len(page.req[r].msgs) /\ page.req[r].msgs \in Seq(Msg)
    BY <1>2, OpenIs
  <2> QED
    BY <2>1, LenProperties
<1>4. PICK reply : /\ q = Answered(page, r, reply)
                   /\ reply[1].what = "handshake" /\ reply[1].ok => reply[1].client = granted + 1 /\ m = granted + 1
  BY <1>3, AnswerGrants
<1>5. m \in {granted, granted + 1}
  BY <1>3, AnswerGrants
<1> HIDE DEF q, m
<1>6. /\ q.requests = page.requests /\ q.envelopes = page.envelopes /\ q.longpoll = page.longpoll
      /\ Calm(page, q) /\ Plan(page, q) /\ q.why = page.why
      /\ q.req[r].msgs = page.req[r].msgs /\ q.req[r].poll = page.req[r].poll
      /\ q.req[r].xhr = "answered" /\ q.req[r].reply = reply
  BY <1>1, <1>4, ArrivedIs
<1>7. \A s \in Slots : s # r => q.req[s] = page.req[s]
  BY <1>1, <1>4, ArrivedIs
<1>8. /\ Grants(q, r) => Given(q, r) = granted + 1 /\ m = granted + 1
      /\ q.req[r].xhr \in OnWire /\ q.client = page.client
  BY <1>4, <1>6 DEF Grants, Given, OnWire, Calm
<1>9. Once(q, m)
  BY <1>1, <1>2, <1>5, <1>6, <1>7, <1>8, OnceWire
<1> QED
  BY <1>9, RoundsThen DEF q, m

LEMMA RoundsFault ==
  ASSUME Wired, Rounds, NEW r \in Slots, Fault(r)
  PROVE  Rounds'
<1> DEFINE q == page'
<1>1. page \in PageRec /\ granted \in Nat /\ Once(page, granted)
  BY RoundsIs
<1>2. page.req[r].xhr = "open" /\ granted' = granted
  BY Zenon DEF Fault
<1>3. PICK x \in {"broken", "garbled"} : q = Faulty(page, r, x)
  BY Zenon DEF Fault, Faulty
<1> HIDE DEF q
<1>4. x \in Xhr /\ x \in OnWire /\ x # "answered" /\ granted \in {granted, granted + 1}
  BY <1>3 DEF Xhr, OnWire
<1>5. /\ q.requests = page.requests /\ q.envelopes = page.envelopes /\ q.longpoll = page.longpoll
      /\ Calm(page, q) /\ Plan(page, q) /\ q.why = page.why
      /\ q.req[r].msgs = page.req[r].msgs /\ q.req[r].poll = page.req[r].poll /\ q.req[r].xhr = x
  BY <1>1, <1>3, <1>4, FaultyIs
<1>6. \A s \in Slots : s # r => q.req[s] = page.req[s]
  BY <1>1, <1>3, <1>4, FaultyIs
<1>7. ~Grants(q, r) /\ q.client = page.client
  BY <1>4, <1>5 DEF Grants, Calm
<1>8. Once(q, granted)
  BY <1>1, <1>2, <1>4, <1>5, <1>6, <1>7, OnceWire
<1> QED
  BY <1>2, <1>8, RoundsThen DEF q

LEMMA RoundsStays ==
  ASSUME Wired, Rounds, page' = page \/ page' = [page EXCEPT !.breaks = TRUE], granted' = granted
  PROVE  Rounds'
<1> DEFINE q == page'
<1>1. page \in PageRec /\ granted \in Nat /\ Once(page, granted)
  BY RoundsIs
<1>2. Wires(page, q) /\ Plan(page, q) /\ q.client = page.client /\ q.why = page.why
  BY <1>1 DEF PageRec, Wires, Plan
<1> HIDE DEF q
<1>3. Once(q, granted)
  BY <1>1, <1>2, GoesWires, OnceGoes
<1> QED
  BY <1>3, RoundsThen DEF q

LEMMA RoundsInit ==
  ASSUME PageInit
  PROVE  Rounds
<1>1. /\ page.requests = <<>> /\ page.envelopes = <<>> /\ page.longpoll = 0 /\ page.client = 0 /\ page.due = "none"
      /\ page.req = [r \in Slots |-> NoRequest] /\ granted = 0
  BY DEF PageInit
<1>2. \A r \in Slots : ~OnPoll(page, r) /\ ~Grants(page, r)
  BY <1>1 DEF NoRequest, OnPoll, Grants, OnWire
<1>3. Handshakes(page) = {}
  BY <1>1, EmptyList DEF Handshakes, Listed
<1>4. Apart(page, granted, 0)
  BY <1>1, <1>2 DEF Apart
<1>5. Round(page, "publish")
  BY <1>1, <1>2, <1>3 DEF Round
<1> QED
  BY <1>4, <1>5 DEF Rounds, Once

LEMMA RoundsNext ==
  ASSUME Wired, Rounds, [PageNext]_pageVars
  PROVE  Rounds'
<1>1. CASE UNCHANGED pageVars
  BY <1>1, RoundsStays DEF pageVars
<1>2. CASE Room /\ Application
  BY <1>2, RoundsAppHandshake, RoundsAppDisconnect, RoundsPublish, RoundsStartBatch, RoundsEndBatch DEF Application
<1>3. CASE Room /\ TimersFire
  <2>1. CASE Due
    BY <1>3, <2>1, RoundsDue
  <2>2. ASSUME NEW r \in Slots, Poll(r) PROVE Rounds'
    BY <1>3, <2>2, RoundsPoll
  <2>3. ASSUME NEW r \in Slots, GivenUp(r) PROVE Rounds'
    <3>1. Out(page, r) /\ Turn(HandleFailure(Over(r), r)) /\ granted' = granted
      BY <2>3 DEF GivenUp, Out
    <3> QED
      BY <1>3, <3>1, RoundsFailure
  <2>4. ASSUME NEW r \in Slots, Expire(r) PROVE Rounds'
    <3>1. Out(page, r) /\ Turn(HandleFailure(Over(r), r)) /\ granted' = granted
      BY <2>4 DEF Expire, Out
    <3> QED
      BY <1>3, <3>1, RoundsFailure
  <2> QED
    BY <1>3, <2>1, <2>2, <2>3, <2>4 DEF TimersFire
<1>4. CASE BreakNext
  BY Zenon, <1>4, RoundsStays DEF BreakNext
<1>5. CASE Forget
  BY Zenon, <1>5, RoundsStays DEF Forget
<1>6. CASE \E r \in Slots : Answer(r) \/ Fault(r)
  BY <1>6, RoundsAnswer, RoundsFault
<1> QED
  BY <1>1, <1>2, <1>3, <1>4, <1>5, <1>6 DEF PageNext, Network

\* What is apart is one long poll of a session.
LEMMA RoundsShows ==
  ASSUME Wired, Rounds
  PROVE  OneLongpoll
<1>1. Apart(page, granted, 0) /\ Round(page, "publish")
  BY RoundsIs
<1>2. ASSUME NEW r \in Slots, OnPoll(page, r)
      PROVE  /\ Unless(Doubts) => Of(page, r) # 0
             /\ \A x \in Slots \ {r} : OnPoll(page, x) /\ Of(page, x) = Of(page, r) => Of(page, r) = 0
  <2>1. Unless(Doubts) => Of(page, r) # 0
    BY <1>1, <1>2 DEF Round, Unless, Doubted
  <2>2. \A x \in Slots : x # r /\ OnPoll(page, x) => Of(page, x) = 0 \/ Of(page, x) # Of(page, r)
    BY <1>1, <1>2 DEF Apart
  <2> QED
    BY <2>1, <2>2
<1> QED
  BY <1>2 DEF OneLongpoll, OnPoll, Of, Doubts

\* No two long polls of one session are ever on the wire, however the page's answers, timers,
\* aborts and retries follow one another, nor one without a session, but after the three
\* things named at OneLongpoll (_connect(), _longpollSend(), _complete(), _connectFailure(),
\* _handshakeResponse(), _disconnect(), _handshake()).
THEOREM PagePollsOnce == PageSpec => []OneLongpoll
<1>1. PageInit => Wired /\ Rounds
  BY WiredInit, RoundsInit
<1>2. Wired /\ Rounds /\ [PageNext]_pageVars => Wired' /\ Rounds'
  BY WiredNext, RoundsNext
<1>3. Wired /\ Rounds => OneLongpoll
  BY RoundsShows
<1> QED
  BY <1>1, <1>2, <1>3, PTL DEF PageSpec

-----------------------------------------------------------------------------
(* What has yet to be sent goes in order.                                  *)

Nums(p, r)  == Published(p.req[r].msgs)
Below(S, T) == \A a \in S : \A b \in T : a < b

\* Of the n messages that are published those in the queue come after those sent, and an
\* envelope waits only while no connection is free, but k of them that are spoken for.
Tidy(p, n, k) ==
  /\ p.last \in 0..n
  /\ Published(p.queue) \subseteq 1..n /\ Below({p.last}, Published(p.queue))
  /\ p.envelopes # <<>> => Len(p.requests) + k >= MaxConnections - 1

\* The envelopes wait in order, between what is sent and what is queued.
Lined(p, n) ==
  \A i \in DOMAIN p.envelopes :
    /\ Nums(p, p.envelopes[i]) \subseteq 1..n
    /\ Below({p.last}, Nums(p, p.envelopes[i])) /\ Below(Nums(p, p.envelopes[i]), Published(p.queue))
    /\ \A j \in DOMAIN p.envelopes : i < j => Below(Nums(p, p.envelopes[i]), Nums(p, p.envelopes[j]))

\* What is queued is held back, so that nothing is published before it.
Held(p) == p.queue # <<>> => p.held \/ p.batch > 0

\* Nothing is sent: some envelopes at the front are dropped, or all, or the queue.
Lapses(p, q) ==
  /\ q.last = p.last /\ q.queue \in {p.queue, <<>>}
  /\ q.queue # <<>> => q.held \/ (q.held = p.held /\ q.batch = p.batch)
  /\ q.envelopes # <<>> => p.envelopes # <<>> /\ q.requests = p.requests
  /\ \E d \in Nat : \A i \in DOMAIN q.envelopes :
       i + d \in DOMAIN p.envelopes /\ Nums(q, q.envelopes[i]) = Nums(p, p.envelopes[i + d])

\* What is sent is sent in order.
Follows(p, q, n) ==
  /\ Tidy(q, n, 0) /\ q.last >= p.last
  /\ Lined(p, n) => Lined(q, n)
  /\ Held(p) => Held(q)

LEMMA LapsesSame ==
  ASSUME NEW p \in PageRec, NEW q, q.last = p.last, q.queue \in {p.queue, <<>>},
         q.queue # <<>> => q.held \/ (q.held = p.held /\ q.batch = p.batch),
         q.requests = p.requests, q.envelopes = p.envelopes,
         \A e \in ToSet(p.envelopes) : q.req[e].msgs = p.req[e].msgs
  PROVE  Lapses(p, q)
<1>1. 0 \in Nat /\ DOMAIN p.envelopes = 1..Len(p.envelopes) /\ \A i \in DOMAIN p.envelopes : p.envelopes[i] \in ToSet(p.envelopes)
  BY Members DEF PageRec, ToSet
<1>2. \A i \in DOMAIN q.envelopes : i + 0 \in DOMAIN p.envelopes /\ Nums(q, q.envelopes[i]) = Nums(p, p.envelopes[i + 0])
  BY <1>1 DEF Nums
<1> QED
  BY <1>1, <1>2 DEF Lapses

LEMMA LapsesEmpty ==
  ASSUME NEW p, NEW q, q.last = p.last, q.queue \in {p.queue, <<>>},
         q.queue # <<>> => q.held \/ (q.held = p.held /\ q.batch = p.batch), q.envelopes = <<>>
  PROVE  Lapses(p, q)
<1>1. 0 \in Nat /\ DOMAIN <<>> = {}
  OBVIOUS
<1> QED
  BY <1>1 DEF Lapses

LEMMA LapsesWires ==
  ASSUME NEW p \in PageRec, NEW q, Wires(p, q), q.last = p.last, q.queue \in {p.queue, <<>>},
         q.queue # <<>> => q.held \/ (q.held = p.held /\ q.batch = p.batch)
  PROVE  Lapses(p, q)
  BY LapsesSame DEF Wires

LEMMA LapsesMoves ==
  ASSUME NEW p \in PageRec, NEW q, Moves(p, q), q.held \/ q.held = p.held
  PROVE  Lapses(p, q)
  BY LapsesWires DEF Moves, Words, Calm

LEMMA LapsesTrans ==
  ASSUME NEW p \in PageRec, NEW q \in PageRec, Lapses(p, q), NEW s \in PageRec, Lapses(q, s)
  PROVE  Lapses(p, s)
<1>1. /\ s.last = p.last /\ s.queue \in {p.queue, <<>>}
      /\ s.queue # <<>> => s.held \/ (s.held = p.held /\ s.batch = p.batch)
      /\ s.envelopes # <<>> => p.envelopes # <<>> /\ s.requests = p.requests
  BY DEF Lapses
<1>2. PICK d \in Nat : \A i \in DOMAIN q.envelopes :
        i + d \in DOMAIN p.envelopes /\ Nums(q, q.envelopes[i]) = Nums(p, p.envelopes[i + d])
  BY DEF Lapses
<1>3. PICK e \in Nat : \A i \in DOMAIN s.envelopes :
        i + e \in DOMAIN q.envelopes /\ Nums(s, s.envelopes[i]) = Nums(q, q.envelopes[i + e])
  BY DEF Lapses
<1>4. d + e \in Nat /\ DOMAIN s.envelopes \subseteq Nat
  <2>1. s.envelopes \in Seq(Slots)
    BY DEF PageRec
  <2>2. DOMAIN s.envelopes = 1..Len(s.envelopes) /\ Len(s.envelopes) \in Nat
    BY <2>1, Members
  <2>3. DOMAIN s.envelopes \subseteq Nat
    BY <2>2
  <2>4. d + e \in Nat
    OBVIOUS
  <2> QED
    BY <2>3, <2>4
<1>5. ASSUME NEW i \in DOMAIN s.envelopes
      PROVE  i + (d + e) \in DOMAIN p.envelopes /\ Nums(s, s.envelopes[i]) = Nums(p, p.envelopes[i + (d + e)])
  <2>1. i + (d + e) = (i + e) + d
    BY <1>4
  <2> QED
    BY <1>2, <1>3, <2>1
<1> QED
  BY <1>1, <1>4, <1>5 DEF Lapses

LEMMA LapsesTidy ==
  ASSUME NEW p \in PageRec, NEW q \in PageRec, Lapses(p, q), NEW n \in Nat, NEW k \in {0, 1}
  PROVE  /\ Tidy(p, n, k) => Tidy(q, n, k)
         /\ Lined(p, n) => Lined(q, n)
         /\ Held(p) => Held(q)
<1>1. Published(q.queue) \subseteq Published(p.queue)
  BY PublishedIs DEF Lapses, PageRec
<1>2. q.last = p.last
  BY DEF Lapses
<1>3. Tidy(p, n, k) => Tidy(q, n, k)
  BY <1>1, <1>2 DEF Tidy, Lapses, Below
<1>4. Held(p) => Held(q)
  BY DEF Held, Lapses
<1>5. PICK d \in Nat : \A i \in DOMAIN q.envelopes :
        i + d \in DOMAIN p.envelopes /\ Nums(q, q.envelopes[i]) = Nums(p, p.envelopes[i + d])
  BY DEF Lapses
<1>6. DOMAIN q.envelopes \subseteq Nat
  BY Members DEF PageRec
<1>7. ASSUME Lined(p, n), NEW i \in DOMAIN q.envelopes
      PROVE  /\ Nums(q, q.envelopes[i]) \subseteq 1..n
             /\ Below({q.last}, Nums(q, q.envelopes[i])) /\ Below(Nums(q, q.envelopes[i]), Published(q.queue))
             /\ \A j \in DOMAIN q.envelopes : i < j => Below(Nums(q, q.envelopes[i]), Nums(q, q.envelopes[j]))
  <2> DEFINE e == i + d
  <2>1. e \in DOMAIN p.envelopes /\ Nums(q, q.envelopes[i]) = Nums(p, p.envelopes[e])
    BY <1>5
  <2>2. /\ Nums(p, p.envelopes[e]) \subseteq 1..n
        /\ Below({p.last}, Nums(p, p.envelopes[e])) /\ Below(Nums(p, p.envelopes[e]), Published(p.queue))
    BY <1>7, <2>1 DEF Lined
  <2>3. Below(Nums(p, p.envelopes[e]), Published(q.queue))
    BY <1>1, <2>2 DEF Below
  <2>4. ASSUME NEW j \in DOMAIN q.envelopes, i < j
        PROVE  Below(Nums(q, q.envelopes[i]), Nums(q, q.envelopes[j]))
    <3> DEFINE f == j + d
    <3>1. f \in DOMAIN p.envelopes /\ Nums(q, q.envelopes[j]) = Nums(p, p.envelopes[f])
      BY <1>5
    <3>2. e < f
      BY <1>6, <2>4
    <3> QED
      BY <1>7, <2>1, <3>1, <3>2 DEF Lined
  <2> QED
    BY <1>2, <2>1, <2>2, <2>3, <2>4
<1>8. Lined(p, n) => Lined(q, n)
  BY <1>7 DEF Lined
<1> QED
  BY <1>3, <1>4, <1>8

LEMMA LapsesFollows ==
  ASSUME NEW p \in PageRec, NEW q \in PageRec, Lapses(p, q), NEW n \in Nat, Tidy(p, n, 0)
  PROVE  Follows(p, q, n)
<1>1. 0 \in {0, 1} /\ q.last = p.last /\ p.last \in Nat
  BY DEF Lapses, Tidy
<1> QED
  BY <1>1, LapsesTidy DEF Follows

LEMMA FollowsTrans ==
  ASSUME NEW n \in Nat, NEW p, p.last \in Int, NEW q, Follows(p, q, n), NEW s, Follows(q, s, n)
  PROVE  Follows(p, s, n)
<1>1. q.last \in Int /\ s.last \in Int
  BY DEF Follows, Tidy
<1> QED
  BY <1>1 DEF Follows

-----------------------------------------------------------------------------
(* What sends nothing.                                                     *)

LEMMA LetGoCounts ==
  ASSUME NEW p \in PageRec, NEW r \in Slots, NEW q, q = LetGo(p, r)
  PROVE  q.batch = p.batch
  BY DEF LetGo, Throw, PageRec

LEMMA LapsesReports ==
  ASSUME NEW p \in PageRec, NEW msgs, NEW q, Reports(p, q, msgs)
  PROVE  Lapses(p, q)
<1>1. CASE q = HandshakeFailed(p)
  <2>1. Moves(p, q) /\ (q.held \/ q.held = p.held)
    BY <1>1, HandshakeFailedIs
  <2> QED
    BY <2>1, LapsesMoves
<1>2. CASE q = ConnectFailure(p)
  <2>1. Moves(p, q) /\ (q.held \/ q.held = p.held)
    BY <1>2, ConnectFailureIs DEF Plan
  <2> QED
    BY <2>1, LapsesMoves
<1>3. CASE q = Disconnect(p, TRUE)
  <2>1. PICK b \in BOOLEAN : b = TRUE
    OBVIOUS
  <2>2. q = Disconnect(p, b)
    BY <1>3, <2>1
  <2>3. q.last = p.last /\ q.queue = <<>> /\ q.envelopes = <<>>
    BY <2>1, <2>2, DisconnectIs
  <2> QED
    BY <2>3, LapsesEmpty
<1>4. CASE q = TellAll(p, Published(msgs))
  <2>1. Wires(p, q) /\ Calm(p, q) /\ Plan(p, q) /\ q.queue = p.queue /\ q.last = p.last
    BY <1>4, TellAllIs
  <2> QED
    BY <2>1, LapsesWires DEF Calm, Plan
<1> QED
  BY <1>1, <1>2, <1>3, <1>4 DEF Reports

\* A request that is let go leaves its connection to the next envelope.
LEMMA LapsesLetGo ==
  ASSUME NEW p \in PageRec, Distinct(p.requests), NEW r \in Slots, NEW q, q = LetGo(p, r),
         p.req[r].poll \/ p.envelopes = <<>>
  PROVE  Lapses(p, q)
<1>1. Same(p, q) /\ q.batch = p.batch
  BY LetGoIs, LetGoCounts
<1>2. CASE p.req[r].poll
  <2>1. q.requests = p.requests
    <3>1. CASE OwnPoll(p, r)
      BY <3>1, LetGoPoll
    <3>2. CASE Clash(p, r)
      BY <3>2, LetGoClash
    <3> QED
      BY <1>2, <3>1, <3>2 DEF OwnPoll, Clash
  <2> QED
    BY <1>1, <2>1, LapsesSame DEF Same, Words, Plan
<1>3. CASE p.envelopes = <<>>
  BY <1>1, <1>3, LapsesEmpty DEF Same, Words, Plan
<1> QED
  BY <1>2, <1>3

LEMMA LapsesDropped ==
  ASSUME NEW p \in PageRec, Distinct(p.requests), NEW r \in Slots, NEW q, q = Dropped(p, r)
  PROVE  "stray" \in q.why \/ Lapses(p, q)
<1> DEFINE g == LetGo(p, r)
<1>1. g \in PageRec /\ g.envelopes = p.envelopes
  BY LetGoIs DEF Same
<1>2. CASE p.req[r].poll
  BY <1>2, LapsesLetGo DEF Dropped
<1>3. CASE ~p.req[r].poll
  <2>1. q = GiveUpNext(g)
    BY <1>3 DEF Dropped
  <2>2. CASE p.envelopes = <<>>
    <3>1. Lapses(p, g)
      BY <2>2, LapsesLetGo
    <3> HIDE DEF g
    <3>2. q = g
      BY <1>1, <2>1, <2>2, GiveUpNextIs
    <3> QED
      BY <3>1, <3>2
  <2>3. CASE p.envelopes # <<>>
    <3> HIDE DEF g
    <3>1. q.why = g.why \cup {"stray"}
      BY <1>1, <2>1, <2>3, GiveUpNextIs
    <3> QED
      BY <3>1
  <2> QED
    BY <2>2, <2>3
<1> QED
  BY <1>2, <1>3

LEMMA LapsesFailure ==
  ASSUME NEW p, NEW h \in Slots, W(p, h), ~p.threw, NEW q, q = HandleFailure(p, h)
  PROVE  q.last = p.last /\ ("stray" \in q.why \/ Lapses(p, q))
<1>1. p \in PageRec /\ Distinct(p.requests) /\ Formed(p.req[h])
  BY DEF W
<1>2. CASE LetGo(p, h).threw
  <2>1. q = LetGo(p, h)
    BY <1>1, <1>2, HandleFailureIs
  <2>2. p.req[h].poll
    BY <1>1, <1>2, LetGoIs DEF Clash
  <2> QED
    BY <1>1, <2>1, <2>2, LapsesLetGo DEF Lapses
<1>3. CASE ~LetGo(p, h).threw
  <2> DEFINE d == Dropped(p, h)
  <2>1. Reports(d, q, p.req[h].msgs)
    BY <1>1, <1>3, HandleFailureIs
  <2>2. d \in PageRec /\ d.last = p.last /\ ("stray" \in d.why \/ Lapses(p, d))
    BY <1>1, DroppedSent, LapsesDropped
  <2> HIDE DEF d
  <2>3. q \in PageRec /\ q.last = d.last /\ d.why \subseteq q.why /\ Lapses(d, q)
    BY <2>1, <2>2, ReportsSent, LapsesReports
  <2> QED
    BY <1>1, <2>2, <2>3, LapsesTrans
<1> QED
  BY <1>2, <1>3

LEMMA LapsesBegun ==
  ASSUME NEW p \in PageRec, NEW r \in Free(p), NEW msgs, NEW c, Begun(p, c, r, msgs)
  PROVE  /\ Lapses(p, c) /\ c.requests = p.requests /\ c.envelopes = p.envelopes /\ c.batch = p.batch /\ c.held = p.held
         /\ c.queue = p.queue /\ c.last = p.last /\ Published(c.req[r].msgs) = Published(msgs)
         /\ \A e \in ToSet(p.envelopes) : c.req[e] = p.req[e]
<1>1. PICK b \in BOOLEAN : c = Fresh(p, r, msgs, b) /\ Fit(msgs, b)
  BY DEF Begun
<1>2. r \in Slots /\ Loose(p, r) /\ msgs \in Seq(Msg) /\ p.client \in Nat /\ ToSet(p.envelopes) \subseteq Slots
  BY <1>1, FreeIs, Members DEF Fit, PageRec
<1>3. /\ c.requests = p.requests /\ c.envelopes = p.envelopes /\ Words(p, c) /\ Calm(p, c) /\ Plan(p, c)
      /\ c.req[r].msgs = Carried(msgs, p.client)
      /\ \A s \in Slots \ {r} : c.req[s] = p.req[s]
  BY <1>1, <1>2, FreshIs
<1>4. Published(c.req[r].msgs) = Published(msgs)
  BY <1>2, <1>3, CarriedIs
<1>5. \A e \in ToSet(p.envelopes) : c.req[e] = p.req[e]
  BY <1>2, <1>3 DEF Loose
<1>6. Lapses(p, c)
  BY <1>3, <1>5, LapsesSame DEF Words, Calm, Plan
<1> QED
  BY <1>3, <1>4, <1>5, <1>6 DEF Words, Calm, Plan

\* A handshake holds back what is queued.
LEMMA LapsesPrepared ==
  ASSUME NEW p, W(p, 0), ~p.threw, NEW x, Spare(p, x), NEW q, q = Shaking(Prepared(p))
  PROVE  Lapses(p, q)
<1> DEFINE b == Prepared(p)
<1>1. p \in PageRec
  BY DEF W
<1>2. b \in PageRec /\ b.queue = p.queue /\ b.last = p.last
  BY PreparedIs, WType
<1>3. /\ ~Disconnected(p) => Wires(p, b)
      /\ Disconnected(p) => b.envelopes = <<>>
  BY PreparedIs
<1> HIDE DEF b
<1>4. q.held /\ Wires(b, q) /\ Words(b, q)
  BY <1>2, ShakingIs DEF b
<1>5. q.queue = p.queue /\ q.last = p.last
  BY <1>2, <1>4 DEF Words
<1>6. CASE Disconnected(p)
  BY <1>3, <1>4, <1>5, <1>6, LapsesEmpty DEF Wires
<1>7. CASE ~Disconnected(p)
  <2>1. Wires(p, q)
    BY <1>3, <1>4, <1>7 DEF Wires
  <2> QED
    BY <1>1, <1>4, <1>5, <2>1, LapsesWires
<1> QED
  BY <1>6, <1>7

\* What waits is not free, and is not cleared when the turn ends.
LEMMA LapsesSettled ==
  ASSUME NEW p, W(p, 0), NEW q, q = Settled(p)
  PROVE  Lapses(p, q)
<1>1. p \in PageRec /\ ToSet(p.envelopes) \subseteq Slots /\ \A e \in ToSet(p.envelopes) : p.req[e].xhr = "waiting"
  BY Members DEF W, PageRec
<1>2. /\ q.requests = p.requests /\ q.envelopes = p.envelopes /\ Words(p, q) /\ Plan(p, q) /\ q.batch = p.batch
      /\ \A r \in Slots : ~Spare(p, r) => q.req[r] = p.req[r]
  BY <1>1, SettledIs
<1>3. \A e \in ToSet(p.envelopes) : q.req[e].msgs = p.req[e].msgs
  BY <1>1, <1>2 DEF Spare, Busy
<1> QED
  BY <1>1, <1>2, <1>3, LapsesSame DEF Words, Plan

LEMMA LapsesEnded ==
  ASSUME NEW p \in PageRec, NEW r \in Slots, NEW q, q = Ended(p, r)
  PROVE  Lapses(p, q) /\ q.last = p.last /\ q.requests = p.requests /\ q.envelopes = p.envelopes
<1>1. ToSet(p.envelopes) \subseteq Slots
  BY Members DEF PageRec
<1>2. /\ q.requests = p.requests /\ q.envelopes = p.envelopes /\ Words(p, q) /\ Calm(p, q) /\ Plan(p, q)
      /\ Kept(p.req[r], q.req[r])
      /\ \A s \in Slots : s # r => q.req[s] = p.req[s]
  BY EndedIs
<1>3. \A e \in ToSet(p.envelopes) : q.req[e].msgs = p.req[e].msgs
  BY <1>1, <1>2 DEF Kept
<1> QED
  BY <1>2, <1>3, LapsesSame DEF Words, Calm, Plan

-----------------------------------------------------------------------------
(* What is in hand is sent between the rest.                               *)

\* The numbers in hand come after what is sent and before what is queued.
Hand(p, M, n) == M \subseteq 1..n /\ Below({p.last}, M) /\ Below(M, Published(p.queue))
\* They come before the envelopes, or after them.
First(p, M)  == \A i \in DOMAIN p.envelopes : Below(M, Nums(p, p.envelopes[i]))
Behind(p, M) == \A i \in DOMAIN p.envelopes : Below(Nums(p, p.envelopes[i]), M)

LEMMA LapsesHand ==
  ASSUME NEW p \in PageRec, NEW q \in PageRec, Lapses(p, q), NEW M, NEW n
  PROVE  /\ Hand(p, M, n) => Hand(q, M, n)
         /\ First(p, M) => First(q, M)
         /\ Behind(p, M) => Behind(q, M)
<1>1. Published(q.queue) \subseteq Published(p.queue) /\ q.last = p.last
  BY PublishedIs DEF Lapses, PageRec
<1>2. PICK d \in Nat : \A i \in DOMAIN q.envelopes :
        i + d \in DOMAIN p.envelopes /\ Nums(q, q.envelopes[i]) = Nums(p, p.envelopes[i + d])
  BY DEF Lapses
<1>3. Hand(p, M, n) => Hand(q, M, n)
  BY <1>1 DEF Hand, Below
<1>4. ASSUME First(p, M), NEW i \in DOMAIN q.envelopes
      PROVE  Below(M, Nums(q, q.envelopes[i]))
  <2> DEFINE e == i + d
  <2>1. e \in DOMAIN p.envelopes /\ Nums(q, q.envelopes[i]) = Nums(p, p.envelopes[e])
    BY <1>2
  <2> QED
    BY <1>4, <2>1 DEF First
<1>5. ASSUME Behind(p, M), NEW i \in DOMAIN q.envelopes
      PROVE  Below(Nums(q, q.envelopes[i]), M)
  <2> DEFINE e == i + d
  <2>1. e \in DOMAIN p.envelopes /\ Nums(q, q.envelopes[i]) = Nums(p, p.envelopes[e])
    BY <1>2
  <2> QED
    BY <1>5, <2>1 DEF Behind
<1> QED
  BY <1>3, <1>4, <1>5 DEF First, Behind

LEMMA LapsesGiveUpNext ==
  ASSUME NEW p \in PageRec, Distinct(p.envelopes), NEW q, q = GiveUpNext(p)
  PROVE  Lapses(p, q)
<1>1. CASE p.envelopes = <<>>
  <2>1. q = p
    BY <1>1, GiveUpNextIs
  <2> QED
    BY <2>1, LapsesSame
<1>2. CASE p.envelopes # <<>>
  <2> DEFINE e == Head(p.envelopes)
             t == Tail(p.envelopes)
  <2>0. p.envelopes \in Seq(Slots)
    BY DEF PageRec
  <2>1. /\ q.requests = p.requests /\ q.envelopes = t /\ Words(p, q) /\ Calm(p, q) /\ Plan(p, q)
        /\ \A r \in Slots \ {e} : q.req[r] = p.req[r]
    <3>1. q.requests = p.requests /\ q.envelopes = Tail(p.envelopes)
      BY <1>2, GiveUpNextIs
    <3>2. Words(p, q) /\ Calm(p, q) /\ Plan(p, q)
      BY <1>2, GiveUpNextIs
    <3>3. /\ q.longpoll = p.longpoll /\ q.client = p.client
          /\ q.req[e] = [p.req[e] EXCEPT !.xhr = "failing"] /\ \A r \in Slots \ {e} : q.req[r] = p.req[r]
      BY <1>2, GiveUpNextIs DEF Calm
    <3> QED
      BY <3>1, <3>2, <3>3
  <2>2. /\ t \in Seq(Slots) /\ Len(t) = Len(p.envelopes) - 1 /\ ToSet(t) \subseteq ToSet(p.envelopes)
        /\ e \notin ToSet(t) /\ \A i \in 1..Len(p.envelopes) - 1 : t[i] = p.envelopes[i + 1]
    BY <1>2, <2>0, TailOf
  <2> HIDE DEF e, t
  <2>3. /\ DOMAIN t = 1..Len(t) /\ DOMAIN p.envelopes = 1..Len(p.envelopes) /\ Len(p.envelopes) \in Nat
        /\ ToSet(t) \subseteq Slots
    BY <2>0, <2>2, Members
  <2>4. ASSUME NEW i \in DOMAIN t
        PROVE  i + 1 \in DOMAIN p.envelopes /\ Nums(q, t[i]) = Nums(p, p.envelopes[i + 1])
    <3>1. i + 1 \in DOMAIN p.envelopes /\ t[i] = p.envelopes[i + 1]
      BY <2>2, <2>3
    <3>2. t[i] \in ToSet(t)
      BY DEF ToSet
    <3>3. q.req[t[i]] = p.req[t[i]]
      BY <2>1, <2>2, <2>3, <3>2
    <3> QED
      BY <3>1, <3>3 DEF Nums
  <2>5. 1 \in Nat
    OBVIOUS
  <2> QED
    BY <1>2, <2>1, <2>4, <2>5 DEF Lapses, Words, Calm, Plan
<1> QED
  BY <1>1, <1>2

\* A send that throws reports the failure of a request that is not listed yet.
LEMMA LapsesThrows ==
  ASSUME NEW p, NEW r, Ready(p, r), NEW f, f = HandleFailure(Unbroken(p), r)
  PROVE  Lapses(p, f) /\ f.req[r] = p.req[r] /\ f \in PageRec
<1> DEFINE s == Unbroken(p)
           l == LetGo(s, r)
           g == Dropped(s, r)
<1>1. p \in PageRec /\ r \in Slots /\ Loose(p, r)
  BY DEF Ready, W
<1>2. s \in PageRec /\ Wires(p, s) /\ Words(p, s) /\ Plan(p, s) /\ s.batch = p.batch
  BY <1>1, UnbrokenIs
<1>3. /\ W(s, r) /\ ~Clash(s, r) /\ W(l, r) /\ W(g, r)
      /\ Reports(g, f, p.req[r].msgs) /\ W(f, r) /\ f.req[r] = p.req[r]
  BY FailsAtOnce
<1>4. Lapses(p, s)
  BY <1>1, <1>2, LapsesWires DEF Words, Plan
<1>5. g = l \/ g = GiveUpNext(l)
  BY DEF Dropped
<1>6. r \notin ToSet(s.requests) /\ Distinct(s.requests) /\ s.requests \in Seq(Slots)
  <2> HIDE DEF s
  <2> QED
    BY <1>1, <1>2, <1>3 DEF Loose, Wires, W, PageRec
<1>7. Same(s, l) /\ l.batch = s.batch
  BY <1>1, <1>2, <1>6, LetGoIs, LetGoCounts
<1>8. l.requests = s.requests
  <2>1. CASE s.req[r].poll
    <3>1. OwnPoll(s, r)
      BY <1>3, <2>1 DEF OwnPoll, Clash
    <3> QED
      BY <1>1, <1>2, <3>1, LetGoPoll
  <2>2. CASE ~s.req[r].poll
    <3>1. l.requests = Without(s.requests, r)
      BY <1>1, <1>2, <1>6, <2>2, LetGoPlain
    <3> QED
      BY <1>6, <3>1, WithoutIs
  <2> QED
    BY <2>1, <2>2
<1> HIDE DEF s
<1>9. Lapses(s, l)
  <2> HIDE DEF l
  <2> QED
    BY <1>2, <1>7, <1>8, LapsesSame DEF Same, Words, Plan
<1>10. l \in PageRec /\ g \in PageRec /\ f \in PageRec /\ Distinct(l.envelopes)
  BY <1>3 DEF W
<1> HIDE DEF l
<1>11. Lapses(l, g)
  <2>1. CASE g = l
    BY <1>10, <2>1, LapsesSame
  <2>2. CASE g = GiveUpNext(l)
    BY <1>10, <2>2, LapsesGiveUpNext
  <2> QED
    BY <1>5, <2>1, <2>2
<1> HIDE DEF g
<1>12. Lapses(g, f)
  BY <1>3, <1>10, LapsesReports
<1>13. Lapses(p, l)
  BY <1>1, <1>2, <1>4, <1>9, <1>10, LapsesTrans
<1>14. Lapses(p, g)
  BY <1>1, <1>10, <1>11, <1>13, LapsesTrans
<1> QED
  BY <1>1, <1>3, <1>10, <1>12, <1>14, LapsesTrans

\* The last of what is sent is the latest.
LEMMA SentLast ==
  ASSUME NEW p, NEW r, Ready(p, r), NEW M, M = Nums(p, r)
  PROVE  /\ M = {} => Sent(p, r) = p.last
         /\ M # {} => Sent(p, r) \in M /\ \A m \in M : m <= Sent(p, r)
<1> DEFINE msgs == p.req[r].msgs
<1>1. p \in PageRec /\ r \in Slots /\ Formed(p.req[r]) /\ msgs \in Seq(Msg)
  <2>1. p \in PageRec /\ r \in Slots /\ Formed(p.req[r])
    BY DEF Ready, W
  <2> QED
    BY <2>1 DEF PageRec, Request
<1>2. M = {} => Sent(p, r) = p.last
  BY <1>1, SentIs DEF Nums
<1>3. ASSUME M # {}
      PROVE  Sent(p, r) \in M /\ \A m \in M : m <= Sent(p, r)
  <2>1. Batch(msgs)
    BY <1>1, <1>3, MetaNothing DEF Formed, Nums
  <2>2. Len(msgs) \in Nat \ {0} /\ Sent(p, r) = msgs[Len(msgs)].number
    BY <1>1, <1>3, SentIs DEF Nums
  <2>3. M = {m \in Messages : \E i \in 1..Len(msgs) : msgs[i].number = m}
    BY <1>1, PublishedIs DEF Nums
  <2> HIDE DEF msgs
  <2>4. DOMAIN msgs = 1..Len(msgs)
    BY <1>1, Members
  <2>5. /\ \A i \in 1..Len(msgs) : msgs[i].number \in Messages
        /\ \A i, j \in 1..Len(msgs) : i < j => msgs[i].number < msgs[j].number
    BY <2>1, <2>4 DEF Batch
  <2>6. Messages \subseteq Nat
    BY CometdAssumption DEF Messages
  <2>7. Sent(p, r) \in M
    BY <2>2, <2>3, <2>5
  <2>8. ASSUME NEW m \in M
        PROVE  m <= Sent(p, r)
    <3>1. PICK i \in 1..Len(msgs) : msgs[i].number = m
      BY <2>3
    <3>2. CASE i = Len(msgs)
      BY <2>2, <2>3, <2>6, <3>1, <3>2
    <3>3. CASE i < Len(msgs)
      <4>1. msgs[i].number < msgs[Len(msgs)].number
        BY <2>2, <2>5, <3>3
      <4> QED
        <5>1. m < Sent(p, r)
          BY <2>2, <3>1, <4>1
        <5>2. m \in Nat /\ Sent(p, r) \in Nat
          BY <2>3, <2>6, <2>7
        <5> QED
          BY <5>1, <5>2
    <3> QED
      BY <2>2, <3>2, <3>3
  <2> QED
    BY <2>7, <2>8
<1> QED
  BY <1>2, <1>3

\* The state once they are sent.
LEMMA TidySent ==
  ASSUME NEW p \in PageRec, NEW q \in PageRec, NEW n \in Nat, NEW k \in {0, 1}, Tidy(p, n, k), NEW M, Hand(p, M, n),
         q.queue = p.queue, q.envelopes = p.envelopes, q.requests = p.requests,
         \A e \in ToSet(p.envelopes) : q.req[e].msgs = p.req[e].msgs,
         M = {} => q.last = p.last, M # {} => q.last \in M /\ \A m \in M : m <= q.last
  PROVE  /\ Tidy(q, n, k) /\ q.last >= p.last
         /\ Lined(p, n) /\ First(p, M) => Lined(q, n)
<1>1. p.last \in 0..n /\ Published(p.queue) \subseteq 1..n /\ Below({p.last}, Published(p.queue))
  BY DEF Tidy
<1>2. M \subseteq 1..n /\ Below({p.last}, M) /\ Below(M, Published(p.queue))
  BY DEF Hand
<1>3. q.last \in 0..n /\ q.last >= p.last /\ (q.last = p.last \/ q.last \in M)
  <2>1. CASE M = {}
    BY <1>1, <2>1
  <2>2. CASE M # {}
    <3>1. q.last \in M
      BY <2>2
    <3>2. q.last \in 1..n /\ p.last < q.last
      BY <1>2, <3>1 DEF Below
    <3> QED
      BY <1>1, <3>1, <3>2
  <2> QED
    BY <2>1, <2>2
<1>4. Below({q.last}, Published(q.queue))
  BY <1>1, <1>2, <1>3 DEF Below
<1>5. Tidy(q, n, k)
  BY <1>1, <1>3, <1>4 DEF Tidy
<1>6. \A i \in DOMAIN p.envelopes : Nums(q, q.envelopes[i]) = Nums(p, p.envelopes[i])
  BY DEF Nums, ToSet
<1>7. ASSUME Lined(p, n), First(p, M), NEW i \in DOMAIN q.envelopes
      PROVE  /\ Nums(q, q.envelopes[i]) \subseteq 1..n
             /\ Below({q.last}, Nums(q, q.envelopes[i])) /\ Below(Nums(q, q.envelopes[i]), Published(q.queue))
             /\ \A j \in DOMAIN q.envelopes : i < j => Below(Nums(q, q.envelopes[i]), Nums(q, q.envelopes[j]))
  <2> DEFINE N0 == Nums(p, p.envelopes[i])
  <2>1. Nums(q, q.envelopes[i]) = N0
    BY <1>6, <1>7
  <2>2. N0 \subseteq 1..n /\ Below({p.last}, N0) /\ Below(N0, Published(p.queue)) /\ Below(M, N0)
    BY <1>7 DEF Lined, First
  <2>3. \A j \in DOMAIN q.envelopes : i < j => Below(N0, Nums(q, q.envelopes[j]))
    BY <1>6, <1>7 DEF Lined
  <2> HIDE DEF N0
  <2>4. Below({q.last}, N0)
    BY <1>3, <2>2 DEF Below
  <2> QED
    BY <2>1, <2>2, <2>3, <2>4
<1>8. Lined(p, n) /\ First(p, M) => Lined(q, n)
  BY <1>7 DEF Lined
<1> QED
  BY <1>3, <1>5, <1>8

-----------------------------------------------------------------------------
(* A request is sent, or waits behind those that wait.                     *)

LEMMA SendLaunches ==
  ASSUME NEW p, NEW r, Ready(p, r), NEW q, q = TransportSend(p, r)
  PROVE  \E f \in PageRec : \E x : /\ Lapses(p, f) /\ f.req[r] = p.req[r] /\ Launched(f, q, r, x)
                                   /\ q.last = Sent(p, r)
<1>1. CASE ~p.breaks
  <2>1. Launched(p, q, r, "open") /\ q.last = Sent(p, r) /\ p \in PageRec
    BY <1>1, SendWorks DEF Ready, W
  <2>2. Lapses(p, p)
    BY <2>1, LapsesSame
  <2> QED
    BY <2>1, <2>2
<1>2. CASE p.breaks
  <2> DEFINE f == HandleFailure(Unbroken(p), r)
  <2>1. Launched(f, q, r, "none") /\ q.last = Sent(p, r)
    BY <1>2, SendThrows
  <2>2. Lapses(p, f) /\ f.req[r] = p.req[r] /\ f \in PageRec
    BY LapsesThrows
  <2> HIDE DEF f
  <2> QED
    BY <2>1, <2>2
<1> QED
  BY <1>1, <1>2

LEMMA TidyTransportSend ==
  ASSUME NEW p, NEW r, Ready(p, r), NEW n \in Nat, NEW k \in {0, 1}, Tidy(p, n, k), NEW M, M = Nums(p, r), Hand(p, M, n),
         NEW q, q = TransportSend(p, r)
  PROVE  /\ Tidy(q, n, k) /\ q.last >= p.last /\ (Held(p) => Held(q))
         /\ Lined(p, n) /\ First(p, M) => Lined(q, n)
         /\ q.envelopes # <<>> => p.envelopes # <<>> /\ q.requests = p.requests
<1>1. p \in PageRec /\ r \in Slots
  BY DEF Ready, W
<1>2. PICK f \in PageRec : \E x : /\ Lapses(p, f) /\ f.req[r] = p.req[r] /\ Launched(f, q, r, x)
                                  /\ q.last = Sent(p, r)
  BY SendLaunches
<1>3. PICK x : /\ Lapses(p, f) /\ f.req[r] = p.req[r] /\ Launched(f, q, r, x)
               /\ q.last = Sent(p, r)
  BY <1>2
<1>4. /\ Tidy(f, n, k) /\ Hand(f, M, n) /\ (Lined(p, n) => Lined(f, n)) /\ (Held(p) => Held(f))
      /\ First(p, M) => First(f, M)
  BY <1>1, <1>3, LapsesTidy, LapsesHand
<1>5. f.last = p.last /\ (f.envelopes # <<>> => p.envelopes # <<>> /\ f.requests = p.requests)
  BY <1>3 DEF Lapses
<1>6. /\ q \in PageRec /\ q.requests = f.requests /\ q.envelopes = f.envelopes /\ q.queue = f.queue
      /\ Calm(f, q) /\ Plan(f, q)
  BY <1>3 DEF Launched
<1>7. \A e \in ToSet(f.envelopes) : q.req[e].msgs = f.req[e].msgs
  <2>1. ToSet(f.envelopes) \subseteq Slots
    BY Members DEF PageRec
  <2>2. q.req[r].msgs = f.req[r].msgs /\ \A s \in Slots \ {r} : q.req[s] = f.req[s]
    BY <1>3 DEF Launched, Kept
  <2> QED
    BY <2>1, <2>2
<1>8. /\ M = {} => q.last = f.last
      /\ M # {} => q.last \in M /\ \A m \in M : m <= q.last
  BY <1>3, <1>5, SentLast
<1>9. /\ Tidy(q, n, k) /\ q.last >= f.last
      /\ Lined(f, n) /\ First(f, M) => Lined(q, n)
  BY <1>4, <1>6, <1>7, <1>8, TidySent
<1>10. Held(f) => Held(q)
  BY <1>6 DEF Held, Calm, Plan
<1> QED
  BY <1>4, <1>5, <1>6, <1>9, <1>10

\* The last envelope is the one that is behind the others.
LEMMA TidyEnveloped ==
  ASSUME NEW p \in PageRec, NEW r \in Slots, Loose(p, r), NEW n \in Nat, Tidy(p, n, 1), NEW M, M = Nums(p, r),
         Hand(p, M, n), Len(p.requests) >= MaxConnections - 1, NEW q, q = Enveloped(p, r)
  PROVE  /\ Tidy(q, n, 0) /\ q.last = p.last /\ (Held(p) => Held(q))
         /\ Lined(p, n) /\ Behind(p, M) => Lined(q, n)
<1>1. q \in PageRec /\ q.envelopes = Append(p.envelopes, r)
  BY EnvelopedIs
<1>2. q.requests = p.requests /\ Words(p, q) /\ Calm(p, q) /\ Plan(p, q)
  BY EnvelopedIs
<1>3. Kept(p.req[r], q.req[r]) /\ \A s \in Slots \ {r} : q.req[s] = p.req[s]
  BY SMTT(60), EnvelopedIs
<1>4. p.envelopes \in Seq(Slots) /\ Len(p.requests) \in Nat /\ MaxConnections \in Nat
  BY CometdAssumption DEF PageRec
<1>5. q.last = p.last /\ q.queue = p.queue /\ q.held = p.held /\ q.batch = p.batch
  BY <1>2 DEF Words, Calm, Plan
<1>6. Tidy(q, n, 0) /\ (Held(p) => Held(q))
  <2>1. Len(q.requests) + 0 >= MaxConnections - 1
    BY <1>2, <1>4
  <2> QED
    BY <1>5, <2>1 DEF Tidy, Held
<1> DEFINE l == Len(p.envelopes)
<1>7. /\ DOMAIN p.envelopes = 1..l /\ l \in Nat /\ DOMAIN q.envelopes = 1..l + 1
      /\ \A i \in 1..l : q.envelopes[i] = p.envelopes[i]
      /\ q.envelopes[l + 1] = r
  <2>1. Append(p.envelopes, r) \in Seq(Slots) /\ Len(Append(p.envelopes, r)) = l + 1
    BY <1>4, Appended
  <2> QED
    BY <1>1, <1>4, <2>1, Appended, Members
<1> HIDE DEF l
<1>8. \A i \in 1..l : Nums(q, q.envelopes[i]) = Nums(p, p.envelopes[i])
  <2>1. \A i \in 1..l : p.envelopes[i] \in Slots \ {r}
    BY <1>4, <1>7, Members DEF Loose, ToSet
  <2> QED
    BY <1>3, <1>7, <2>1 DEF Nums
<1>9. Nums(q, q.envelopes[l + 1]) = M
  BY <1>3, <1>7 DEF Nums, Kept
<1>10. M \subseteq 1..n /\ Below({q.last}, M) /\ Below(M, Published(q.queue))
  BY <1>5 DEF Hand
<1>11. ASSUME Lined(p, n), Behind(p, M), NEW i \in DOMAIN q.envelopes
       PROVE  /\ Nums(q, q.envelopes[i]) \subseteq 1..n
              /\ Below({q.last}, Nums(q, q.envelopes[i])) /\ Below(Nums(q, q.envelopes[i]), Published(q.queue))
              /\ \A j \in DOMAIN q.envelopes : i < j => Below(Nums(q, q.envelopes[i]), Nums(q, q.envelopes[j]))
  <2>1. CASE i = l + 1
    <3>1. \A j \in DOMAIN q.envelopes : ~(i < j)
      BY <1>7, <2>1
    <3> QED
      BY <1>9, <1>10, <2>1, <3>1
  <2>2. CASE i \in 1..l
    <3>1. Nums(q, q.envelopes[i]) = Nums(p, p.envelopes[i])
      BY <1>8, <2>2
    <3>2. /\ Nums(p, p.envelopes[i]) \subseteq 1..n
          /\ Below({q.last}, Nums(p, p.envelopes[i])) /\ Below(Nums(p, p.envelopes[i]), Published(q.queue))
      BY <1>5, <1>7, <1>11, <2>2 DEF Lined
    <3>3. ASSUME NEW j \in DOMAIN q.envelopes, i < j
          PROVE  Below(Nums(p, p.envelopes[i]), Nums(q, q.envelopes[j]))
      <4>1. CASE j = l + 1
        BY <1>7, <1>9, <1>11, <2>2, <4>1 DEF Behind
      <4>2. CASE j \in 1..l
        <5>1. Nums(q, q.envelopes[j]) = Nums(p, p.envelopes[j])
          BY <1>8, <4>2
        <5>2. Below(Nums(p, p.envelopes[i]), Nums(p, p.envelopes[j]))
          BY <1>7, <1>11, <2>2, <3>3, <4>2 DEF Lined
        <5> QED
          BY <5>1, <5>2
      <4> QED
        BY <1>7, <4>1, <4>2
    <3> QED
      BY <3>1, <3>2, <3>3
  <2> QED
    BY <1>7, <2>1, <2>2
<1>12. Lined(p, n) /\ Behind(p, M) => Lined(q, n)
  BY <1>11 DEF Lined
<1> QED
  BY <1>5, <1>6, <1>12

LEMMA TidyQueueSend ==
  ASSUME NEW p, NEW r, Ready(p, r), ~p.req[r].poll, ~p.req[r].timer, NEW n \in Nat, Tidy(p, n, 1),
         NEW M, M = Nums(p, r), Hand(p, M, n), NEW q, q = QueueSend(p, r)
  PROVE  /\ Tidy(q, n, 0) /\ q.last >= p.last /\ (Held(p) => Held(q))
         /\ Lined(p, n) /\ (Len(p.requests) < MaxConnections - 1 => First(p, M))
                        /\ (Len(p.requests) >= MaxConnections - 1 => Behind(p, M)) => Lined(q, n)
         /\ Len(p.requests) >= MaxConnections - 1 => q.last = p.last
<1>1. p \in PageRec /\ r \in Slots /\ Loose(p, r) /\ Len(p.requests) \in Nat /\ MaxConnections \in Nat
  <2>1. p \in PageRec /\ r \in Slots /\ Loose(p, r)
    BY DEF Ready, W
  <2> QED
    BY <2>1, CometdAssumption DEF PageRec
<1>2. CASE Len(p.requests) < MaxConnections - 1
  <2> DEFINE t == TransportSend(p, r)
  <2>1. q = Enlisted(t, r)
    BY <1>2, QueueSendIs
  <2>2. t \in PageRec
    BY WTransportSend, WType
  <2>3. /\ Tidy(t, n, 1) /\ t.last >= p.last /\ (Held(p) => Held(t))
        /\ Lined(p, n) /\ First(p, M) => Lined(t, n)
        /\ t.envelopes # <<>> => p.envelopes # <<>> /\ t.requests = p.requests
    <3>1. 1 \in {0, 1}
      OBVIOUS
    <3> QED
      BY <3>1, TidyTransportSend
  <2> HIDE DEF t
  <2>4. /\ q.requests = Append(t.requests, r) /\ q.req = t.req /\ q.envelopes = t.envelopes
        /\ Words(t, q) /\ Calm(t, q) /\ Plan(t, q)
    BY <1>1, <2>1, <2>2, EnlistedIs
  <2>5. q.last = t.last /\ q.queue = t.queue /\ q.held = t.held /\ q.batch = t.batch
    BY <2>4 DEF Words, Calm, Plan
  <2>6. Len(q.requests) = Len(t.requests) + 1 /\ Len(t.requests) \in Nat
    <3>1. t.requests \in Seq(Slots)
      BY <2>2 DEF PageRec
    <3> QED
      BY <1>1, <2>4, <3>1, Appended
  <2>7. q.envelopes # <<>> => Len(q.requests) + 0 >= MaxConnections - 1
    BY <1>1, <2>3, <2>4, <2>6 DEF Tidy
  <2>8. Tidy(q, n, 0)
    BY <2>3, <2>5, <2>7 DEF Tidy
  <2>9. (Held(t) => Held(q)) /\ (Lined(t, n) => Lined(q, n))
    BY <2>4, <2>5 DEF Held, Lined, Nums
  <2> QED
    BY <1>1, <1>2, <2>3, <2>5, <2>8, <2>9
<1>3. CASE Len(p.requests) >= MaxConnections - 1
  <2>1. q = Enveloped(p, r)
    BY <1>1, <1>3, QueueSendIs
  <2>2. /\ Tidy(q, n, 0) /\ q.last = p.last /\ (Held(p) => Held(q))
        /\ Lined(p, n) /\ Behind(p, M) => Lined(q, n)
    BY <1>1, <1>3, <2>1, TidyEnveloped
  <2>3. p.last \in Int
    BY DEF Tidy
  <2> QED
    BY <1>3, <2>2, <2>3
<1> QED
  BY <1>1, <1>2, <1>3

-----------------------------------------------------------------------------
(* What the application and the timers send goes in order.                 *)

LEMMA BegunTimer ==
  ASSUME NEW p \in PageRec, NEW r \in Free(p), NEW msgs, NEW c, Begun(p, c, r, msgs)
  PROVE  ~c.req[r].timer
<1>1. PICK b \in BOOLEAN : c = Fresh(p, r, msgs, b) /\ Fit(msgs, b)
  BY DEF Begun
<1>2. r \in Slots /\ msgs \in Seq(Msg)
  BY <1>1, FreeIs DEF Fit
<1> QED
  BY <1>1, <1>2, FreshIs

LEMMA TidyMore ==
  ASSUME NEW p \in PageRec, NEW n, Tidy(p, n, 0)
  PROVE  Tidy(p, n, 1) /\ p.last \in Int
<1>1. Len(p.requests) \in Nat /\ MaxConnections \in Nat
  BY CometdAssumption DEF PageRec
<1> QED
  BY <1>1 DEF Tidy

LEMMA FollowsSendPlain ==
  ASSUME NEW p, W(p, 0), ~p.threw, Free(p) # {}, NEW msgs, Plain(msgs), NEW n \in Nat, Tidy(p, n, 0),
         NEW M, M = Published(msgs), Hand(p, M, n), Behind(p, M), NEW q, q = SendPlain(p, msgs)
  PROVE  Follows(p, q, n)
<1>0. p \in PageRec
  BY WType
<1>1. PICK r \in Free(p) : \E c : /\ Begun(p, c, r, msgs) /\ ~c.req[r].poll /\ Ready(c, r)
                                   /\ q = QueueSend(c, r)
  BY SendsQueued
<1>2. PICK c : /\ Begun(p, c, r, msgs) /\ ~c.req[r].poll /\ Ready(c, r)
               /\ q = QueueSend(c, r)
  BY <1>1
<1>3. Lapses(p, c) /\ c.last = p.last /\ Nums(c, r) = M
  BY <1>0, <1>2, LapsesBegun DEF Nums
<1>4. c \in PageRec /\ ~c.req[r].timer
  BY <1>0, <1>2, BegunTimer DEF Ready, W
<1>5. /\ Tidy(c, n, 0) /\ (Lined(p, n) => Lined(c, n)) /\ (Held(p) => Held(c))
      /\ Hand(c, M, n) /\ Behind(c, M)
  <2>1. 0 \in {0, 1}
    OBVIOUS
  <2> QED
    BY <1>0, <1>3, <1>4, <2>1, LapsesTidy, LapsesHand
<1>6. Len(c.requests) < MaxConnections - 1 => First(c, M)
  <2>1. Len(c.requests) \in Nat /\ MaxConnections \in Nat
    BY <1>4, CometdAssumption DEF PageRec
  <2>2. Len(c.requests) < MaxConnections - 1 => c.envelopes = <<>>
    BY <1>5, <2>1 DEF Tidy
  <2>3. DOMAIN <<>> = {}
    OBVIOUS
  <2> QED
    BY <2>2, <2>3 DEF First
<1>7. Tidy(c, n, 1)
  BY <1>4, <1>5, TidyMore
<1>8. /\ Tidy(q, n, 0) /\ q.last >= c.last /\ (Held(c) => Held(q))
      /\ Lined(c, n) /\ (Len(c.requests) < MaxConnections - 1 => First(c, M))
                     /\ (Len(c.requests) >= MaxConnections - 1 => Behind(c, M)) => Lined(q, n)
  BY <1>2, <1>3, <1>4, <1>5, <1>7, TidyQueueSend
<1> QED
  BY <1>3, <1>5, <1>6, <1>8 DEF Follows

\* A meta message carries no number.
LEMMA HandNone ==
  ASSUME NEW p, NEW n
  PROVE  Hand(p, {}, n) /\ Behind(p, {}) /\ First(p, {})
  BY DEF Hand, Behind, First, Below

LEMMA TidySendNext ==
  ASSUME NEW p, W(p, 0), ~p.threw, NEW n \in Nat, Tidy(p, n, 1), Lined(p, n), NEW q, q = SendNext(p)
  PROVE  /\ Tidy(q, n, 0) /\ q.last >= p.last /\ (Held(p) => Held(q))
         /\ Len(p.requests) < MaxConnections - 1 => Lined(q, n)
         /\ Len(p.requests) >= MaxConnections - 1 => q.last = p.last
<1>0. p \in PageRec /\ Distinct(p.envelopes) /\ p.last \in Int
  BY DEF W, Tidy
<1>1. CASE p.envelopes = <<>>
  <2>1. q = p
    BY <1>1 DEF SendNext
  <2>2. Tidy(p, n, 0)
    BY <1>1 DEF Tidy
  <2> QED
    BY <1>0, <2>1, <2>2
<1>2. CASE p.envelopes # <<>>
  <2> DEFINE c == Opening(p)
             e == Head(p.envelopes)
             M == Nums(c, e)
  <2>1. q = QueueSend(c, e) /\ p.envelopes \in Seq(Slots)
    BY <1>0, <1>2, SendNextIs DEF PageRec
  <2>2. Ready(c, e) /\ ~c.req[e].poll /\ ~c.req[e].timer
    BY <1>2, ReadyOpening
  <2>3. /\ c \in PageRec /\ c.envelopes = Tail(p.envelopes) /\ c.req = p.req /\ c.requests = p.requests
        /\ Words(p, c) /\ Calm(p, c) /\ Plan(p, c)
    BY <1>0, <1>2, OpeningIs
  <2>4. /\ Tail(p.envelopes) \in Seq(Slots) /\ Len(Tail(p.envelopes)) = Len(p.envelopes) - 1 /\ Len(p.envelopes) > 0
        /\ e = p.envelopes[1] /\ \A i \in 1..Len(p.envelopes) - 1 : Tail(p.envelopes)[i] = p.envelopes[i + 1]
    BY <1>2, <2>1, TailOf
  <2>5. /\ DOMAIN p.envelopes = 1..Len(p.envelopes) /\ Len(p.envelopes) \in Nat
        /\ DOMAIN Tail(p.envelopes) = 1..Len(Tail(p.envelopes))
    BY <2>1, <2>4, Members
  <2> HIDE DEF c, e
  <2>6. M = Nums(p, p.envelopes[1]) /\ 1 \in DOMAIN p.envelopes
    BY <2>3, <2>4, <2>5 DEF Nums
  <2>7. ASSUME NEW i \in DOMAIN c.envelopes
        PROVE  /\ i + 1 \in DOMAIN p.envelopes /\ 1 < i + 1
               /\ Nums(c, c.envelopes[i]) = Nums(p, p.envelopes[i + 1])
    <3>1. i \in 1..Len(p.envelopes) - 1
      BY <2>3, <2>4, <2>5
    <3>2. c.envelopes[i] = p.envelopes[i + 1]
      BY <2>3, <2>4, <3>1
    <3> QED
      BY <2>3, <2>5, <3>1, <3>2 DEF Nums
  <2>8. Lapses(p, c)
    <3>1. 1 \in Nat
      OBVIOUS
    <3> QED
      BY <1>2, <2>3, <2>7, <3>1 DEF Lapses, Words, Calm, Plan
  <2>9. First(c, M)
    <3>1. ASSUME NEW i \in DOMAIN c.envelopes
          PROVE  Below(M, Nums(c, c.envelopes[i]))
      <4> DEFINE j == i + 1
      <4>1. j \in DOMAIN p.envelopes /\ 1 < j /\ Nums(c, c.envelopes[i]) = Nums(p, p.envelopes[j])
        BY <2>7
      <4> HIDE DEF j
      <4> QED
        BY <2>6, <4>1 DEF Lined
    <3> HIDE DEF M
    <3> QED
      BY <3>1 DEF First
  <2>10. Hand(c, M, n)
    <3>1. c.last = p.last /\ c.queue = p.queue
      BY <2>3 DEF Words
    <3>2. /\ M \subseteq 1..n /\ Below({p.last}, M) /\ Below(M, Published(p.queue))
      BY <2>6 DEF Lined
    <3> HIDE DEF M
    <3> QED
      BY <3>1, <3>2 DEF Hand
  <2>11. Tidy(c, n, 1) /\ Lined(c, n) /\ (Held(p) => Held(c)) /\ c.last = p.last
    <3>1. 1 \in {0, 1}
      OBVIOUS
    <3> QED
      BY <1>0, <2>3, <2>8, <3>1, LapsesTidy DEF Lapses
  <2>12. /\ Tidy(q, n, 0) /\ q.last >= c.last /\ (Held(c) => Held(q))
         /\ Lined(c, n) /\ (Len(c.requests) < MaxConnections - 1 => First(c, M))
                        /\ (Len(c.requests) >= MaxConnections - 1 => Behind(c, M)) => Lined(q, n)
         /\ Len(c.requests) >= MaxConnections - 1 => q.last = c.last
    BY <2>1, <2>2, <2>10, <2>11, TidyQueueSend
  <2>13. Len(p.requests) \in Nat /\ MaxConnections \in Nat
    BY <1>0, CometdAssumption DEF PageRec
  <2> HIDE DEF M
  <2> QED
    BY <2>3, <2>9, <2>11, <2>12, <2>13
<1> QED
  BY <1>1, <1>2

LEMMA FollowsFlushBatch ==
  ASSUME NEW p, W(p, 0), ~p.threw, NEW x, Spare(p, x), NEW n \in Nat, Tidy(p, n, 0), Lined(p, n), NEW q, q = FlushBatch(p)
  PROVE  Follows(p, q, n) /\ q.queue = <<>>
<1>0. p \in PageRec /\ p.last \in Int
  BY WType DEF Tidy
<1>1. CASE p.queue = <<>>
  <2>1. q = p
    BY <1>1, FlushBatchIs
  <2> QED
    BY <1>0, <1>1, <2>1 DEF Follows
<1>2. CASE p.queue # <<>>
  <2> DEFINE u == Unloaded(p)
             M == Published(p.queue)
  <2>1. /\ W(u, 0) /\ ~u.threw /\ Spare(u, x) /\ Plain(p.queue)
        /\ q = SendPlain(u, p.queue)
    BY <1>2, FlushBatchIs DEF Plain, SendPlain
  <2>2. u \in PageRec /\ u.queue = <<>> /\ Wires(p, u) /\ Calm(p, u) /\ Plan(p, u) /\ u.last = p.last
    BY <1>0, UnloadedIs
  <2> HIDE DEF u
  <2>3. Free(u) # {}
    BY <2>1, <2>2, FreeSpare
  <2>4. Lapses(p, u)
    BY <1>0, <2>2, LapsesWires
  <2>5. Tidy(u, n, 0) /\ (Lined(p, n) => Lined(u, n))
    <3>1. 0 \in {0, 1}
      OBVIOUS
    <3> QED
      BY <1>0, <2>2, <2>4, <3>1, LapsesTidy
  <2>6. Hand(u, M, n)
    <3>1. Published(u.queue) = {}
      BY <2>2, PublishedIs DEF PageRec
    <3>2. M \subseteq 1..n /\ Below({u.last}, M)
      BY <2>2 DEF Tidy
    <3> QED
      BY <3>1, <3>2 DEF Hand, Below
  <2>7. Behind(u, M)
    BY <2>2 DEF Behind, Lined, Wires, Nums
  <2>8. Follows(u, q, n)
    BY <2>1, <2>3, <2>5, <2>6, <2>7, FollowsSendPlain
  <2>9. Fades(u, q)
    BY <2>1, <2>3, WSendMessages DEF Plain, SendPlain
  <2>10. q.queue = <<>>
    BY <2>2, <2>9 DEF Fades
  <2> QED
    BY <2>2, <2>5, <2>8, <2>10 DEF Follows, Held
<1> QED
  BY <1>1, <1>2

LEMMA FollowsLongpoll ==
  ASSUME NEW p \in PageRec, NEW r \in Free(p), NEW msgs, Polls(msgs), NEW c, Begun(p, c, r, msgs), Ready(c, r), c.req[r].poll,
         NEW n \in Nat, Tidy(p, n, 0), NEW q, q = LongpollSend(c, r)
  PROVE  Follows(p, q, n)
<1> DEFINE t == TransportSend(c, r)
<1>1. msgs \in Seq(Msg) /\ Published(msgs) = {}
  BY MetaNothing DEF Polls, Fit
<1>2. Lapses(p, c) /\ c.last = p.last /\ Nums(c, r) = {} /\ c \in PageRec /\ r \in Slots
  BY <1>1, LapsesBegun DEF Nums, Ready, W
<1>3. Tidy(c, n, 0) /\ (Lined(p, n) => Lined(c, n)) /\ (Held(p) => Held(c)) /\ 0 \in {0, 1}
  <2>1. 0 \in {0, 1}
    OBVIOUS
  <2> QED
    BY <1>2, <2>1, LapsesTidy
<1>4. /\ Tidy(t, n, 0) /\ t.last >= c.last /\ (Held(c) => Held(t))
      /\ Lined(c, n) => Lined(t, n)
  BY <1>2, <1>3, HandNone, TidyTransportSend
<1>5. q = Polling(t, r) /\ t \in PageRec
  BY WLongpollSend, WTransportSend, WType
<1> HIDE DEF t
<1>6. /\ q.req = t.req /\ q.envelopes = t.envelopes /\ q.requests = t.requests
      /\ Words(t, q) /\ Calm(t, q) /\ Plan(t, q)
  BY <1>2, <1>5, PollingIs
<1>7. /\ Tidy(q, n, 0) /\ (Held(t) => Held(q)) /\ (Lined(t, n) => Lined(q, n)) /\ q.last = t.last
  BY <1>4, <1>6 DEF Words, Calm, Plan, Tidy, Held, Lined, Nums
<1> QED
  BY <1>2, <1>3, <1>4, <1>7 DEF Follows

-----------------------------------------------------------------------------
(* So does what an answer or a timer sets off.                             *)

LEMMA FollowsLapses ==
  ASSUME NEW p \in PageRec, NEW q \in PageRec, Lapses(p, q), NEW n \in Nat, Tidy(p, n, 0)
  PROVE  Follows(p, q, n) /\ Tidy(q, n, 0) /\ (Lined(p, n) => Lined(q, n)) /\ (Held(p) => Held(q))
  BY LapsesFollows DEF Follows

LEMMA FollowsShows ==
  ASSUME NEW p, NEW q, NEW n, Follows(p, q, n)
  PROVE  Tidy(q, n, 0) /\ (Lined(p, n) => Lined(q, n)) /\ (Held(p) => Held(q)) /\ q.last >= p.last
  BY DEF Follows

LEMMA FollowsConnect ==
  ASSUME NEW p, W(p, 0), ~p.threw, NEW x, Spare(p, x), NEW n \in Nat, Tidy(p, n, 0), NEW q, q = Connect(p)
  PROVE  Follows(p, q, n)
<1> DEFINE s == Status(p, "connecting")
           msgs == <<Meta("connect")>>
           t == SendPoll(s, msgs)
<1>1. p \in PageRec /\ "connecting" \in Phases /\ "connected" \in Phases /\ p.last \in Int
  BY WType DEF Phases, Tidy
<1>2. Moves(p, s) /\ s.why = p.why /\ s.held = p.held
  BY <1>1, StatusIs
<1>3. Polls(msgs)
  <2>1. "connect" \in Whats
    BY DEF Whats
  <2> HIDE DEF msgs
  <2>2. msgs = <<Meta("connect")>>
    BY DEF msgs
  <2>3. msgs \in Seq(Msg) /\ OneMeta(msgs, "connect")
    BY <2>1, <2>2, MetaIs
  <2> QED
    BY <2>3 DEF Fit, Polls
<1> HIDE DEF s, msgs
<1>4. s \in PageRec /\ Wires(p, s) /\ s.queue = p.queue /\ ~s.threw
  BY <1>2 DEF Moves, Words, Calm
<1>5. W(s, 0) /\ Free(s) # {}
  BY <1>2, <1>4, WSame, SpareSame, FreeSpare
<1>6. Follows(p, s, n) /\ Tidy(s, n, 0) /\ s.last \in Int
  <2>1. Lapses(p, s)
    BY <1>1, <1>2, LapsesMoves
  <2>2. Follows(p, s, n) /\ Tidy(s, n, 0)
    BY <1>1, <1>4, <2>1, FollowsLapses
  <2> QED
    BY <2>2 DEF Tidy
<1>7. q = IF t.threw THEN t ELSE Status(t, "connected")
  BY DEF Connect, s, msgs, SendPoll
<1>8. CASE s.longpoll # 0
  <2>1. t = Throw(s)
    BY <1>3, <1>4, <1>5, <1>8, SendsPoll
  <2> HIDE DEF t
  <2>2. /\ t.threw /\ t \in PageRec /\ t.last = s.last /\ t.queue = s.queue /\ t.held = s.held /\ t.batch = s.batch
        /\ t.requests = s.requests /\ t.envelopes = s.envelopes /\ t.req = s.req
    BY <1>4, <2>1 DEF Throw, PageRec
  <2>3. Lapses(s, t)
    BY <1>4, <2>2, LapsesSame
  <2>4. Follows(s, t, n)
    BY <1>4, <1>6, <2>2, <2>3, FollowsLapses
  <2> QED
    BY <1>1, <1>6, <1>7, <2>2, <2>4, FollowsTrans
<1>9. CASE s.longpoll = 0
  <2>1. PICK r \in Free(s) : \E c : /\ Begun(s, c, r, msgs) /\ c.req[r].poll /\ Ready(c, r)
                                     /\ t = LongpollSend(c, r)
    BY <1>3, <1>4, <1>5, <1>9, SendsPoll
  <2>2. PICK c : Begun(s, c, r, msgs) /\ Ready(c, r) /\ c.req[r].poll /\ t = LongpollSend(c, r)
    BY <2>1
  <2> HIDE DEF t
  <2>3. Follows(s, t, n)
    BY <1>3, <1>4, <1>6, <2>2, FollowsLongpoll
  <2>4. ~t.threw /\ t \in PageRec
    BY <2>2, WLongpollSend, WType
  <2>5. q = Status(t, "connected")
    BY <1>7, <2>4
  <2>6. Moves(t, q) /\ q.held = t.held
    BY <1>1, <2>4, <2>5, StatusIs
  <2>7. Lapses(t, q) /\ q \in PageRec
    BY <2>4, <2>6, LapsesMoves DEF Moves
  <2>8. Follows(t, q, n)
    <3>1. Tidy(t, n, 0)
      BY <2>3, FollowsShows
    <3> QED
      BY <2>4, <2>7, <3>1, FollowsLapses
  <2>9. Follows(s, q, n)
    BY <1>6, <2>3, <2>8, FollowsTrans
  <2> QED
    BY <1>1, <1>6, <2>9, FollowsTrans
<1> QED
  BY <1>8, <1>9

LEMMA FollowsHandshake ==
  ASSUME NEW p, W(p, 0), ~p.threw, NEW x, Spare(p, x), NEW n \in Nat, Tidy(p, n, 0), NEW q, q = Handshake(p)
  PROVE  Follows(p, q, n)
<1> DEFINE b == Prepared(p)
           c == Shaking(b)
           msgs == <<Meta("handshake")>>
<1>0. p \in PageRec /\ p.last \in Int
  BY WType DEF Tidy
<1>1. q = SendPlain(c, msgs) /\ W(b, 0) /\ Spare(b, x) /\ ~b.threw
  BY PreparedIs DEF SendPlain
<1>2. Lapses(p, c)
  BY LapsesPrepared
<1> HIDE DEF b
<1>3. b \in PageRec
  BY <1>1, WType
<1>4. c \in PageRec /\ Wires(b, c) /\ Words(b, c) /\ c.why = b.why /\ c.threw = b.threw
  BY <1>3, ShakingIs
<1> HIDE DEF c
<1>5. W(c, 0) /\ ~c.threw /\ Free(c) # {}
  BY <1>1, <1>4, WSame, SpareSame, FreeSpare DEF Words
<1>6. Plain(msgs) /\ Published(msgs) = {}
  BY MetaPlain
<1> HIDE DEF msgs
<1>7. Follows(p, c, n) /\ Tidy(c, n, 0)
  BY <1>0, <1>2, <1>4, FollowsLapses
<1>8. Follows(c, q, n)
  BY <1>1, <1>5, <1>6, <1>7, HandNone, FollowsSendPlain
<1> QED
  BY <1>0, <1>7, <1>8, FollowsTrans

-----------------------------------------------------------------------------
(* An answer lets what waits go in order.                                  *)

LEMMA FollowsConnected ==
  ASSUME NEW p, W(p, 0), ~p.threw, NEW x, Spare(p, x), NEW n \in Nat, Tidy(p, n, 0), Lined(p, n), NEW msg \in Ans,
         NEW q, q = ConnectResponse(p, msg)
  PROVE  Follows(p, q, n)
<1>0. p \in PageRec /\ msg.ok \in BOOLEAN /\ p.last \in Int
  BY WType DEF Ans, Tidy
<1>1. CASE ~msg.ok
  <2>1. Moves(p, q) /\ (q.held \/ q.held = p.held)
    BY <1>0, <1>1, ConnectResponseFails
  <2>2. Lapses(p, q) /\ q \in PageRec
    BY <1>0, <2>1, LapsesMoves DEF Moves
  <2> QED
    BY <1>0, <2>2, FollowsLapses
<1>2. CASE msg.ok
  <2>1. ASSUME NEW u, Connected(p, u), NEW s, s = FlushBatch(u)
        PROVE  /\ s \in PageRec /\ s.last >= p.last /\ Tidy(s, n, 0) /\ Lined(s, n) /\ s.queue = <<>>
    <3>1. /\ u \in PageRec /\ Wires(p, u) /\ u.queue = p.queue /\ u.why = p.why /\ u.threw = p.threw /\ u.last = p.last
      BY <2>1 DEF Connected, Moves, Words, Calm
    <3>2. W(u, 0) /\ Spare(u, x) /\ ~u.threw
      BY <3>1, WSame, SpareSame
    <3>3. Tidy(u, n, 0) /\ Lined(u, n)
      BY <3>1 DEF Tidy, Lined, Nums, Wires
    <3>4. W(s, 0) /\ Follows(u, s, n) /\ s.queue = <<>>
      BY <2>1, <3>2, <3>3, WFlushBatch, FollowsFlushBatch
    <3> QED
      BY <3>1, <3>3, <3>4, WType DEF Follows
  <2>2. \A u : Connected(p, u) => FlushBatch(u) \in PageRec
    BY <2>1
  <2>3. PICK u : Connected(p, u) /\ Moves(FlushBatch(u), q) /\ q.held = FlushBatch(u).held
    BY <1>0, <1>2, <2>2, ConnectResponseWorks
  <2> DEFINE s == FlushBatch(u)
  <2>4. s \in PageRec /\ s.last >= p.last /\ Tidy(s, n, 0) /\ Lined(s, n) /\ s.queue = <<>>
    BY <2>1, <2>3
  <2>5. Moves(s, q) /\ q.held = s.held
    BY <2>3
  <2> HIDE DEF s
  <2>6. q \in PageRec /\ Lapses(s, q) /\ q.queue = <<>> /\ q.last = s.last
    BY <2>4, <2>5, LapsesMoves DEF Moves, Words
  <2>7. Tidy(q, n, 0) /\ (Lined(s, n) => Lined(q, n))
    BY <2>4, <2>6, FollowsLapses
  <2> QED
    BY <2>4, <2>6, <2>7 DEF Follows, Held
<1> QED
  BY <1>0, <1>1, <1>2

LEMMA FollowsReceived ==
  ASSUME NEW p, W(p, 0), ~p.threw, NEW x, Spare(p, x), NEW msgs \in Seq(Msg), NEW n \in Nat, Tidy(p, n, 0),
         NEW reply, NEW q, Received(p, q, msgs, reply)
  PROVE  /\ Lined(p, n) => Follows(p, q, n)
         /\ ~OneMeta(msgs, "connect") => q.last = p.last
<1>0. p \in PageRec /\ p.last \in Int
  BY WType DEF Tidy
<1>1. CASE Batch(msgs) /\ q = TellAll(p, Published(msgs))
  <2>1. Wires(p, q) /\ Calm(p, q) /\ Plan(p, q) /\ q.queue = p.queue /\ q.last = p.last /\ q \in PageRec
    BY <1>0, <1>1, TellAllIs
  <2>2. Lapses(p, q)
    BY <1>0, <2>1, LapsesWires DEF Calm, Plan
  <2> QED
    BY <1>0, <2>1, <2>2, FollowsLapses
<1>2. CASE \E w \in {"handshake", "connect", "disconnect"} :
             OneMeta(msgs, w) /\ reply[1] \in Ans /\ reply[1].what = w /\ q = Receive(p, reply[1])
  <2> DEFINE msg == reply[1]
             a == Advised(p, msg)
  <2>1. /\ msg \in Ans /\ q = Receive(p, msg) /\ msg.what \in {"handshake", "connect", "disconnect"} /\ msg.ok \in BOOLEAN
        /\ OneMeta(msgs, msg.what)
    BY <1>2 DEF Ans
  <2> HIDE DEF msg
  <2>2. Moves(p, a) /\ a.why = p.why /\ a.held = p.held
    BY <1>0, <2>1, AdvisedIs DEF Plan
  <2>3. /\ msg.what = "handshake"  => q = HandshakeResponse(a, msg)
        /\ msg.what = "connect"    => q = ConnectResponse(a, msg)
        /\ msg.what = "disconnect" => q = Disconnect(a, ~msg.ok)
    BY <1>0, <2>1, ReceiveIs
  <2> HIDE DEF a
  <2>4. a \in PageRec /\ Wires(p, a) /\ a.queue = p.queue /\ a.threw = p.threw /\ a.last = p.last
    BY <2>2 DEF Moves, Words, Calm
  <2>5. W(a, 0) /\ Spare(a, x) /\ ~a.threw
    BY <2>2, <2>4, WSame, SpareSame
  <2>6. Follows(p, a, n) /\ Tidy(a, n, 0) /\ (Lined(p, n) => Lined(a, n))
    <3>1. Lapses(p, a)
      BY <1>0, <2>2, LapsesMoves
    <3> QED
      BY <1>0, <2>4, <3>1, FollowsLapses
  <2>7. CASE msg.what = "handshake"
    <3>1. q = HandshakeResponse(a, msg)
      BY <2>3, <2>7
    <3>2. q \in PageRec /\ Wires(a, q) /\ Words(a, q) /\ q.batch = a.batch
      BY <2>1, <2>4, <3>1, HandshakeResponseIs
    <3>3. q.held \/ q.held = a.held
      <4>1. CASE msg.ok
        BY <2>1, <2>4, <3>1, <4>1, HandshakeResponseIs DEF Plan
      <4>2. CASE ~msg.ok
        <5>1. q = HandshakeFailed(a)
          BY <2>1, <2>4, <3>1, <4>2, HandshakeResponseIs
        <5> QED
          BY <2>4, <5>1, HandshakeFailedIs
      <4> QED
        BY <4>1, <4>2
    <3>4. Lapses(a, q) /\ q.last = a.last
      BY <2>4, <3>2, <3>3, LapsesWires DEF Words
    <3>5. Follows(a, q, n)
      BY <2>4, <2>6, <3>2, <3>4, FollowsLapses
    <3>6. Follows(p, q, n)
      BY <1>0, <2>6, <3>5, FollowsTrans
    <3> QED
      BY <2>4, <3>4, <3>6
  <2>8. CASE msg.what = "connect"
    <3>1. q = ConnectResponse(a, msg) /\ OneMeta(msgs, "connect")
      BY <2>1, <2>3, <2>8
    <3>2. Lined(a, n) => Follows(a, q, n)
      BY <2>1, <2>5, <2>6, <3>1, FollowsConnected
    <3>3. Lined(p, n) => Follows(p, q, n)
      BY <1>0, <2>6, <3>2, FollowsTrans
    <3> QED
      BY <3>1, <3>3
  <2>9. CASE msg.what = "disconnect"
    <3>1. PICK b \in BOOLEAN : b = ~msg.ok
      BY <2>1
    <3>2. q = Disconnect(a, b)
      BY <2>3, <2>9, <3>1
    <3>3. q \in PageRec /\ q.last = a.last /\ q.queue = <<>>
      BY <2>4, <3>2, DisconnectIs
    <3>4. Wires(a, q) \/ q.envelopes = <<>>
      BY <2>4, <3>2, DisconnectIs
    <3>5. Lapses(a, q)
      BY <2>4, <3>3, <3>4, LapsesWires, LapsesEmpty
    <3>6. Follows(a, q, n)
      BY <2>4, <2>6, <3>3, <3>5, FollowsLapses
    <3>7. Follows(p, q, n)
      BY <1>0, <2>6, <3>6, FollowsTrans
    <3> QED
      BY <2>4, <3>3, <3>7
  <2> QED
    BY <2>1, <2>7, <2>8, <2>9
<1> QED
  BY <1>1, <1>2 DEF Received

LEMMA OrderSame ==
  ASSUME NEW p, NEW q, Same(p, q), NEW n, Lined(p, n)
  PROVE  Lined(q, n)
  BY DEF Same, Words, Lined, Nums

LEMMA OrderLetGo ==
  ASSUME NEW p, NEW r \in Slots, W(p, r), ~p.req[r].poll, NEW n \in Nat, Tidy(p, n, 0), NEW q, q = LetGo(p, r)
  PROVE  /\ Tidy(q, n, 1) /\ q.last = p.last /\ (Held(p) => Held(q))
         /\ r \in ToSet(p.requests) => Len(q.requests) < MaxConnections - 1
         /\ r \notin ToSet(p.requests) => "stray" \in q.why
<1>0. /\ p \in PageRec /\ Distinct(p.requests) /\ p.requests \in Seq(Slots) /\ Len(p.requests) \in Nat
      /\ MaxConnections \in Nat /\ Len(p.requests) < MaxConnections
  BY CometdAssumption DEF W, PageRec
<1>1. Same(p, q) /\ q.requests = Without(p.requests, r) /\ (r \notin ToSet(p.requests) => q.why = p.why \cup {"stray"})
  BY <1>0, LetGoPlain
<1> HIDE DEF LetGo
<1>2. /\ q.queue = p.queue /\ q.last = p.last /\ q.envelopes = p.envelopes /\ q.held = p.held /\ q.batch = p.batch
  BY <1>1 DEF Same, Words, Plan
<1>3. /\ r \in ToSet(p.requests) => Len(q.requests) = Len(p.requests) - 1
      /\ r \notin ToSet(p.requests) => q.requests = p.requests
  BY <1>0, <1>1, WithoutIs
<1>4. Len(q.requests) + 1 >= Len(p.requests)
  BY <1>0, <1>3
<1>5. Len(q.requests) \in Int
  BY <1>0, <1>3
<1>6. p.envelopes # <<>> => Len(q.requests) + 1 >= MaxConnections - 1
  BY <1>0, <1>4, <1>5 DEF Tidy
<1>7. Tidy(q, n, 1)
  BY <1>2, <1>6 DEF Tidy
<1> QED
  BY <1>0, <1>1, <1>2, <1>3, <1>7 DEF Held

LEMMA OrderHandleResponse ==
  ASSUME NEW p, NEW r \in Slots, W(p, r), ~p.threw, Formed(p.req[r]), Echoes(p.req[r].reply, p.req[r].msgs), NEW x, Spare(p, x),
         NEW n \in Nat, Tidy(p, n, 0), Lined(p, n), NEW q, q = HandleResponse(p, r)
  PROVE  q.last >= p.last /\ ("stray" \in q.why \/ Follows(p, q, n))
<1>0. /\ p \in PageRec /\ Distinct(p.requests) /\ p.req[r].msgs \in Seq(Msg) /\ p.last \in Int /\ p.req[r].poll \in BOOLEAN
  BY DEF W, PageRec, Request, Tidy
<1> DEFINE l == LetGo(p, r)
<1>1. Same(p, l)
  BY <1>0, LetGoIs
<1>2. p.req[r].poll => Follows(p, l, n) /\ Lined(l, n) /\ Tidy(l, n, 0)
  <2>1. p.req[r].poll => Lapses(p, l)
    BY <1>0, LapsesLetGo
  <2>2. l \in PageRec
    BY <1>1 DEF Same
  <2> HIDE DEF l
  <2> QED
    BY <1>0, <2>1, <2>2, FollowsLapses
<1>3. CASE Clash(p, r)
  <2>1. q = l /\ p.req[r].poll
    BY <1>3, HandleResponseIs DEF Clash
  <2> HIDE DEF l
  <2> QED
    BY <1>2, <2>1, FollowsShows
<1>4. CASE ~Clash(p, r)
  <2> DEFINE s == Passed(p, r)
             reply == p.req[r].reply
             msgs == p.req[r].msgs
  <2>1. W(l, 0) /\ ~l.threw
    <3>1. W(l, r) /\ Loose(l, r)
      BY <1>4, WLetGo
    <3>2. l.threw = p.threw
      BY <1>0, <1>4, LetGoIs
    <3> QED
      BY <3>1, <3>2, WLoose, CometdAssumption
  <2>2. W(s, 0) /\ ~s.threw /\ Spare(s, x) /\ Received(s, q, msgs, reply)
    BY <1>4, HandleResponseIs
  <2>3. (p.req[r].poll => s = l) /\ (~p.req[r].poll => s = SendNext(l))
    BY DEF Passed
  <2>4. msgs \in Seq(Msg) /\ (~p.req[r].poll => ~OneMeta(msgs, "connect"))
    <3>1. ASSUME ~p.req[r].poll, OneMeta(msgs, "connect") PROVE FALSE
      <4>1. 1 \in DOMAIN msgs /\ msgs[1].what = "connect"
        BY <1>0, <3>1, LenProperties DEF OneMeta
      <4> QED
        BY <3>1, <4>1 DEF Formed, OneMeta, Batch
    <3> QED
      BY <1>0, <3>1
  <2>5. ~p.req[r].poll => /\ Tidy(l, n, 1) /\ l.last = p.last /\ (Held(p) => Held(l))
                          /\ r \in ToSet(p.requests) => Len(l.requests) < MaxConnections - 1
                          /\ r \notin ToSet(p.requests) => "stray" \in l.why
    BY OrderLetGo
  <2>6. Lined(l, n)
    BY <1>1, OrderSame
  <2> HIDE DEF l, s, reply, msgs
  <2>7. CASE p.req[r].poll
    <3>1. Follows(s, q, n)
      BY <1>2, <2>2, <2>3, <2>4, <2>7, FollowsReceived
    <3>2. Follows(p, q, n)
      BY <1>0, <1>2, <2>3, <2>7, <3>1, FollowsTrans
    <3> QED
      BY <3>2, FollowsShows
  <2>8. CASE ~p.req[r].poll
    <3>1. /\ Tidy(s, n, 0) /\ s.last >= l.last /\ (Held(l) => Held(s))
          /\ Len(l.requests) < MaxConnections - 1 => Lined(s, n)
      BY <2>1, <2>3, <2>5, <2>6, <2>8, TidySendNext
    <3>2. q.last = s.last
      BY <2>2, <2>4, <2>8, <3>1, FollowsReceived
    <3>3. q.last >= p.last
      BY <2>5, <2>8, <3>1, <3>2
    <3>4. CASE r \in ToSet(p.requests)
      <4>1. Lined(s, n)
        BY <2>5, <2>8, <3>1, <3>4
      <4>2. Follows(s, q, n)
        BY <2>2, <2>4, <3>1, <4>1, FollowsReceived
      <4>3. Follows(p, s, n)
        BY <2>5, <2>8, <3>1, <4>1 DEF Follows
      <4>4. Follows(p, q, n)
        BY <1>0, <4>2, <4>3, FollowsTrans
      <4> QED
        BY <3>3, <4>4
    <3>5. CASE r \notin ToSet(p.requests)
      <4>1. "stray" \in l.why /\ l.why \subseteq s.why
        BY <2>1, <2>3, <2>5, <2>8, <3>5, WSendNext
      <4>2. s.why \subseteq q.why
        BY <2>2, WReceived
      <4> QED
        BY <3>3, <4>1, <4>2
    <3> QED
      BY <3>4, <3>5
  <2> QED
    BY <1>0, <2>7, <2>8
<1> QED
  BY <1>3, <1>4

-----------------------------------------------------------------------------
(* In order.                                                               *)

\* What InOrder excepts.
Exempt(p)     == p.why \cap {"stray", "kept"} # {}
Orderly(p, n) == Exempt(p) \/ (Tidy(p, n, 0) /\ Lined(p, n) /\ Held(p))
Ordered       == Orderly(page, asked)

\* From the one to the other the order is kept, n messages being published.
Heeds(p, q, n) == p.why \subseteq q.why /\ (~Exempt(p) => q.last >= p.last /\ Orderly(q, n))
Heeded         == Ordered' /\ (Unless({"stray", "kept"}) => page'.last >= page.last)

LEMMA HeedsFollows ==
  ASSUME NEW p, NEW q, NEW n, Orderly(p, n), p.why \subseteq q.why,
         Tidy(p, n, 0) /\ Lined(p, n) /\ Held(p) => q.last >= p.last /\ ("stray" \in q.why \/ Follows(p, q, n))
  PROVE  Heeds(p, q, n)
  BY FollowsShows DEF Heeds, Orderly, Exempt

LEMMA HeedsLapses ==
  ASSUME NEW p \in PageRec, NEW q \in PageRec, NEW n \in Nat, Orderly(p, n), p.why \subseteq q.why, Lapses(p, q)
  PROVE  Heeds(p, q, n)
<1>1. Tidy(p, n, 0) /\ Lined(p, n) /\ Held(p) => q.last >= p.last /\ ("stray" \in q.why \/ Follows(p, q, n))
  BY LapsesFollows DEF Follows
<1> QED
  BY <1>1, HeedsFollows

LEMMA HeedsThen ==
  ASSUME NEW p, NEW q \in PageRec, NEW n \in Nat, Heeds(p, q, n), NEW s \in PageRec, Lapses(q, s), s.why = q.why
  PROVE  Heeds(p, s, n)
<1>1. CASE Exempt(p)
  BY <1>1 DEF Heeds
<1>2. CASE ~Exempt(p)
  <2>1. q.last >= p.last /\ Orderly(q, n) /\ s.last = q.last
    BY <1>2 DEF Heeds, Lapses
  <2>2. Heeds(q, s, n)
    BY <2>1, HeedsLapses
  <2>3. Orderly(s, n)
    BY <2>1, <2>2 DEF Heeds, Exempt, Orderly
  <2> QED
    BY <2>1, <2>3 DEF Heeds
<1> QED
  BY <1>1, <1>2

LEMMA HeedsAfter ==
  ASSUME NEW p, NEW q, NEW n, q.why = p.why, q.last = p.last, NEW s, Heeds(q, s, n)
  PROVE  Heeds(p, s, n)
  BY DEF Heeds, Exempt

-----------------------------------------------------------------------------
(* The turns keep the order.                                               *)

LEMMA HeedsStep ==
  ASSUME NEW q, page' = q, NEW n, asked' = n, Heeds(page, q, n)
  PROVE  Heeded
<1>1. CASE Exempt(page)
  <2>1. Exempt(q)
    BY <1>1 DEF Heeds, Exempt
  <2>2. Ordered'
    BY <2>1 DEF Ordered, Orderly, Exempt
  <2> QED
    BY <1>1, <2>2 DEF Heeded, Unless, Exempt
<1>2. CASE ~Exempt(page)
  <2>1. q.last >= page.last /\ Orderly(q, n)
    BY <1>2 DEF Heeds
  <2>2. Orderly(page, asked)'
    <3>1. (Exempt(q) => Exempt(page)') /\ (Held(q) => Held(page)')
      BY DEF Exempt, Held
    <3>2. Tidy(q, n, 0) => Tidy(page, asked, 0)'
      BY DEF Tidy, Below, Published
    <3>3. Lined(q, n) => Lined(page, asked)'
      OBVIOUS
    <3> QED
      BY <2>1, <3>1, <3>2, <3>3 DEF Orderly
  <2> QED
    BY <2>1, <2>2 DEF Heeded, Ordered
<1> QED
  BY <1>1, <1>2

LEMMA HeedsTurn ==
  ASSUME NEW n \in Nat, asked' = n, NEW q, W(q, 0), Heeds(page, q, n), Turn(q), granted' = granted
  PROVE  Heeded
<1> DEFINE s == page'
<1>1. s = Settled(q)
  BY EndOfTurn
<1> HIDE DEF s
<1>2. Lapses(q, s) /\ q \in PageRec
  BY <1>1, WType, LapsesSettled
<1>3. s \in PageRec /\ s.why = q.why
  BY <1>1, <1>2, SettledIs
<1>4. Heeds(page, s, n)
  BY <1>2, <1>3, HeedsThen
<1> QED
  BY <1>4, HeedsStep DEF s

LEMMA OrderedIs ==
  ASSUME Wired, Ordered
  PROVE  /\ W(page, 0) /\ ~page.threw /\ page \in PageRec /\ asked \in Nat /\ Orderly(page, asked)
         /\ page.why \in SUBSET Reasons /\ page.last \in Int
  BY AskedIs, WType DEF Wired, Ordered, PageRec, Messages

LEMMA OrderedAppHandshake ==
  ASSUME Wired, Ordered, Room, AppHandshake
  PROVE  Heeded
<1> DEFINE w == IF page.due # "none" THEN page.why \cup {"overtaken"} ELSE page.why
           p == [page EXCEPT !.status = "disconnected", !.why = w]
           q == Handshake(p)
<1>1. W(page, 0) /\ ~page.threw /\ page \in PageRec /\ asked \in Nat /\ Orderly(page, asked)
  BY OrderedIs
<1>2. w \in SUBSET Reasons /\ page.why \subseteq w /\ "disconnected" \in Phases
      /\ w \cap {"stray", "kept"} = page.why \cap {"stray", "kept"}
  BY <1>1 DEF PageRec, Reasons, Phases
<1>3. Turn(q)
  <2>1. [page EXCEPT !.status = "disconnected", !.why = IF page.due # "none" THEN @ \cup {"overtaken"} ELSE @] = p
    BY <1>1 DEF PageRec
  <2> QED
    BY <2>1 DEF AppHandshake
<1> HIDE DEF w
<1>4. /\ p \in PageRec /\ Wires(page, p) /\ p.queue = page.queue /\ p.why = w /\ p.threw = page.threw
      /\ p.last = page.last /\ p.held = page.held /\ p.batch = page.batch
  BY <1>1, <1>2 DEF PageRec, Wires
<1> HIDE DEF p
<1>5. PICK x : Spare(p, x)
  BY <1>4, RoomIs, SpareSame
<1>6. W(p, 0) /\ ~p.threw
  BY <1>1, <1>2, <1>4, WSame
<1>7. Lapses(page, p)
  BY <1>1, <1>4, LapsesWires
<1>8. Tidy(page, asked, 0) => Follows(page, p, asked) /\ Tidy(p, asked, 0)
  BY <1>1, <1>4, <1>7, FollowsLapses
<1>9. Tidy(page, asked, 0) => Follows(p, q, asked)
  BY <1>1, <1>5, <1>6, <1>8, FollowsHandshake
<1>10. W(q, 0) /\ p.why \subseteq q.why
  BY <1>5, <1>6, WHandshake
<1> HIDE DEF q
<1>11. Tidy(page, asked, 0) => page.last \in Int
  BY DEF Tidy
<1>12. Tidy(page, asked, 0) => Follows(page, q, asked)
  BY <1>1, <1>8, <1>9, <1>11, FollowsTrans
<1>13. Tidy(page, asked, 0) => q.last >= page.last
  BY <1>12, FollowsShows
<1>14. Heeds(page, q, asked)
  BY <1>1, <1>2, <1>4, <1>10, <1>12, <1>13, HeedsFollows
<1> QED
  BY <1>1, <1>3, <1>10, <1>14, HeedsTurn DEF AppHandshake

\* A page whose plan alone is another, and then what follows.
LEMMA HeedsVia ==
  ASSUME NEW p \in PageRec, NEW n \in Nat, Orderly(p, n), NEW q \in PageRec, Lapses(p, q), p.why \subseteq q.why,
         NEW s, q.why \subseteq s.why, Tidy(q, n, 0) /\ Lined(q, n) => Follows(q, s, n)
  PROVE  Heeds(p, s, n)
<1>1. p.why \subseteq s.why
  OBVIOUS
<1>2. ASSUME Tidy(p, n, 0), Lined(p, n), Held(p)
      PROVE  s.last >= p.last /\ Follows(p, s, n)
  <2>1. Follows(p, q, n) /\ Tidy(q, n, 0) /\ Lined(q, n)
    BY <1>2, FollowsLapses
  <2>2. Follows(q, s, n) /\ p.last \in Int
    BY <1>2, <2>1 DEF Tidy
  <2>3. Follows(p, s, n)
    BY <2>1, <2>2, FollowsTrans
  <2> QED
    BY <2>3, FollowsShows
<1> QED
  BY <1>1, <1>2, HeedsFollows

LEMMA OrderedAppDisconnect ==
  ASSUME Wired, Ordered, Room, AppDisconnect
  PROVE  Heeded
<1> DEFINE p == Status(page, "disconnecting")
           msgs == <<Meta("disconnect")>>
           q == SendPlain(p, msgs)
<1>1. /\ W(page, 0) /\ ~page.threw /\ page \in PageRec /\ asked \in Nat /\ Orderly(page, asked)
      /\ "disconnecting" \in Phases
  BY OrderedIs DEF Phases
<1>2. Moves(page, p) /\ p.why = page.why /\ p.held = page.held
  BY <1>1, StatusIs
<1>3. Turn(q)
  BY DEF AppDisconnect, SendPlain
<1>4. Plain(msgs) /\ Published(msgs) = {}
  <2>1. Plain(msgs) /\ About(msgs, "disconnect")
    BY MetaPlain
  <2> HIDE DEF msgs
  <2>2. msgs \in Seq(Msg) /\ OneMeta(msgs, "disconnect")
    BY <2>1 DEF Plain, Fit, About
  <2> QED
    BY <2>1, <2>2, MetaNothing
<1> HIDE DEF p, msgs
<1>5. p \in PageRec /\ Wires(page, p) /\ p.queue = page.queue /\ p.threw = page.threw
  BY <1>2 DEF Moves, Words, Calm
<1>6. PICK x : Spare(p, x)
  BY <1>5, RoomIs, SpareSame
<1>7. W(p, 0) /\ Free(p) # {} /\ FALSE \in BOOLEAN /\ ~p.threw
  BY <1>1, <1>2, <1>5, <1>6, WSame, FreeSpare
<1>8. Lapses(page, p)
  BY <1>1, <1>2, LapsesMoves
<1>9. Hand(p, {}, asked) /\ Behind(p, {})
  BY HandNone
<1>10. Tidy(p, asked, 0) => Follows(p, q, asked)
  BY <1>1, <1>4, <1>7, <1>9, FollowsSendPlain
<1>11. W(q, 0) /\ p.why \subseteq q.why
  BY <1>4, <1>7, WSendMessages DEF Plain, SendPlain
<1> HIDE DEF q
<1>12. Heeds(page, q, asked)
  BY <1>1, <1>2, <1>5, <1>8, <1>10, <1>11, HeedsVia
<1> QED
  BY <1>1, <1>3, <1>11, <1>12, HeedsTurn DEF AppDisconnect

LEMMA OrderedDue ==
  ASSUME Wired, Ordered, Room, Due
  PROVE  Heeded
<1> DEFINE p == [page EXCEPT !.due = "none"]
           q == IF page.due = "connect" THEN Connect(p) ELSE Handshake(p)
<1>1. W(page, 0) /\ ~page.threw /\ page \in PageRec /\ asked \in Nat /\ Orderly(page, asked)
  BY OrderedIs
<1>2. /\ p \in PageRec /\ Wires(page, p) /\ p.queue = page.queue /\ p.why = page.why /\ p.threw = page.threw
      /\ p.last = page.last /\ p.held = page.held /\ p.batch = page.batch
  BY <1>1 DEF PageRec, Wires
<1>3. Turn(q)
  BY DEF Due
<1>4. q = Connect(p) \/ q = Handshake(p)
  OBVIOUS
<1> HIDE DEF p, q
<1>5. PICK x : Spare(p, x)
  BY <1>2, RoomIs, SpareSame
<1>6. W(p, 0) /\ ~p.threw
  BY <1>1, <1>2, WSame
<1>7. Lapses(page, p)
  BY <1>1, <1>2, LapsesWires
<1>8. /\ W(q, 0) /\ p.why \subseteq q.why
      /\ Tidy(p, asked, 0) => Follows(p, q, asked)
  <2>1. CASE q = Connect(p)
    BY <1>1, <1>5, <1>6, <2>1, WConnect, FollowsConnect
  <2>2. CASE q = Handshake(p)
    BY <1>1, <1>5, <1>6, <2>2, WHandshake, FollowsHandshake
  <2> QED
    BY <1>4, <2>1, <2>2
<1>9. Heeds(page, q, asked)
  BY <1>1, <1>2, <1>7, <1>8, HeedsVia
<1> QED
  BY <1>1, <1>3, <1>8, <1>9, HeedsTurn DEF Due

\* What is published next comes after all the rest.
LEMMA TidyNext ==
  ASSUME NEW p \in PageRec, NEW n \in Nat, Tidy(p, n, 0)
  PROVE  /\ Tidy(p, n + 1, 0)
         /\ Lined(p, n) => Lined(p, n + 1)
         /\ Lined(p, n) => Behind(p, {n + 1})
         /\ p.queue = <<>> => Hand(p, {n + 1}, n + 1)
<1>1. 0..n \subseteq 0..(n + 1) /\ 1..n \subseteq 1..(n + 1) /\ n + 1 \in 1..(n + 1)
  OBVIOUS
<1>2. \A x \in 0..n : x < n + 1
  OBVIOUS
<1>3. Tidy(p, n + 1, 0)
  BY <1>1 DEF Tidy
<1>4. Lined(p, n) => Lined(p, n + 1)
  BY <1>1 DEF Lined
<1>5. 1..n \subseteq 0..n
  OBVIOUS
<1>6. Lined(p, n) => Behind(p, {n + 1})
  BY <1>2, <1>5 DEF Lined, Behind, Below
<1>7. p.queue = <<>> => Published(p.queue) = {}
  BY PublishedIs DEF PageRec
<1>8. p.queue = <<>> => Hand(p, {n + 1}, n + 1)
  BY <1>1, <1>2, <1>7 DEF Hand, Below, Tidy
<1> QED
  BY <1>3, <1>4, <1>6, <1>8

\* It is queued behind the rest.
LEMMA TidyQueued ==
  ASSUME NEW p \in PageRec, p.queue = <<>> \/ Batch(p.queue), NEW n \in Nat, n + 1 \in Messages,
         \A m \in Published(p.queue) : m < n + 1, Tidy(p, n, 0), Lined(p, n), NEW q, q = Queued(p, n + 1)
  PROVE  /\ Tidy(q, n + 1, 0) /\ Lined(q, n + 1) /\ q.last = p.last
         /\ q.held = p.held /\ q.batch = p.batch
<1>1. PICK m \in Messages : m = n + 1
  OBVIOUS
<1>2. /\ Published(q.queue) = Published(p.queue) \cup {n + 1}
      /\ Wires(p, q) /\ Calm(p, q) /\ Plan(p, q) /\ q.last = p.last
  BY <1>1, QueuedIs
<1> HIDE DEF Queued
<1>3. /\ q.req = p.req /\ q.requests = p.requests /\ q.envelopes = p.envelopes /\ q.batch = p.batch /\ q.held = p.held
  BY <1>2 DEF Wires, Calm, Plan
<1>4. Tidy(p, n + 1, 0) /\ Lined(p, n + 1) /\ Behind(p, {n + 1}) /\ n + 1 \in 1..(n + 1) /\ \A x \in 0..n : x < n + 1
  BY TidyNext
<1>5. p.last < n + 1
  BY <1>4 DEF Tidy
<1>6. Tidy(q, n + 1, 0)
  BY <1>2, <1>3, <1>4, <1>5 DEF Tidy, Below
<1>7. \A r : Nums(q, r) = Nums(p, r)
  BY <1>3 DEF Nums
<1>8. Lined(q, n + 1)
  BY <1>2, <1>3, <1>4, <1>7 DEF Lined, Behind, Below
<1> QED
  BY <1>2, <1>3, <1>6, <1>8

LEMMA OrderedPublish ==
  ASSUME Wired, Ordered, Room, Publish
  PROVE  Heeded
<1> DEFINE n == asked + 1
           msgs == <<Message(n)>>
           q == IF page.batch > 0 \/ page.held THEN Queued(page, n) ELSE SendPlain(page, msgs)
<1>1. /\ W(page, 0) /\ ~page.threw /\ page \in PageRec /\ Dated /\ (page.queue = <<>> \/ Batch(page.queue))
      /\ asked \in Nat /\ Orderly(page, asked) /\ page.last \in Int
  BY OrderedIs DEF Wired, W
<1>2. asked' = n /\ n \in Messages /\ n \in Nat
  BY <1>1, CometdAssumption DEF Publish, Dated, Messages
<1>3. \A m \in Published(page.queue) : m < n
  BY <1>1, <1>2 DEF Dated
<1>4. Turn(q)
  <2>1. Turn(IF page.batch > 0 \/ page.held THEN [page EXCEPT !.queue = Append(@, Message(n))]
             ELSE SendMessages(page, <<Message(n)>>, FALSE))
    BY <1>2 DEF Publish
  <2>2. [page EXCEPT !.queue = Append(@, Message(n))] = Queued(page, n)
    BY <1>1 DEF Queued, PageRec
  <2> QED
    BY <2>1, <2>2 DEF SendPlain
<1>5. \/ q = Queued(page, n) /\ (page.batch > 0 \/ page.held)
      \/ q = SendPlain(page, msgs) /\ ~(page.batch > 0 \/ page.held)
  OBVIOUS
<1>6. Plain(msgs) /\ Published(msgs) = {n}
  <2> HIDE DEF msgs, n
  <2>1. msgs = <<Message(n)>> /\ n \in Messages
    BY <1>2 DEF msgs
  <2>2. msgs \in Seq(Msg) /\ Batch(msgs) /\ Published(msgs) = {n}
    BY <2>1, MessageIs
  <2> QED
    BY <2>2, OneThing DEF Fit, Plain, Metas
<1>7. Tidy(page, asked, 0) => /\ Tidy(page, n, 0)
                              /\ Lined(page, asked) => Lined(page, n) /\ Behind(page, {n})
                              /\ page.queue = <<>> => Hand(page, {n}, n)
  BY <1>1, TidyNext
<1>8. Tidy(page, asked, 0) /\ Lined(page, asked) /\ q = Queued(page, n) =>
        Tidy(q, n, 0) /\ Lined(q, n) /\ q.last = page.last /\ q.held = page.held /\ q.batch = page.batch
  <2> SUFFICES ASSUME Tidy(page, asked, 0), Lined(page, asked), q = Queued(page, asked + 1)
               PROVE  Tidy(q, asked + 1, 0) /\ Lined(q, asked + 1) /\ q.last = page.last /\ q.held = page.held /\ q.batch = page.batch
    OBVIOUS
  <2> HIDE DEF q
  <2> QED
    BY <1>1, <1>2, <1>3, TidyQueued
<1> HIDE DEF q, msgs, n
<1>9. W(q, 0) /\ page.why \subseteq q.why
  <2>1. CASE q = Queued(page, n)
    <3>1. q \in PageRec /\ Batch(q.queue) /\ Wires(page, q) /\ Plan(page, q) /\ Calm(page, q) /\ q.why = page.why
      BY <1>1, <1>2, <1>3, <2>1, QueuedIs
    <3>2. W(q, 0)
      BY <1>1, <3>1 DEF W, Wires, Listed
    <3> QED
      BY <3>1, <3>2
  <2>2. CASE q = SendPlain(page, msgs)
    <3>1. Free(page) # {} /\ FALSE \in BOOLEAN
      BY <1>1, RoomIs, FreeSpare
    <3> QED
      BY <1>1, <1>6, <2>2, <3>1, WSendMessages DEF Plain, SendPlain
  <2> QED
    BY <1>5, <2>1, <2>2
<1>10. ASSUME Tidy(page, asked, 0), Lined(page, asked), Held(page)
       PROVE  q.last >= page.last /\ Tidy(q, n, 0) /\ Lined(q, n) /\ Held(q)
  <2>1. CASE q = Queued(page, n) /\ (page.batch > 0 \/ page.held)
    BY <1>1, <1>8, <1>10, <2>1 DEF Held
  <2>2. CASE q = SendPlain(page, msgs) /\ ~(page.batch > 0 \/ page.held)
    <3>1. page.queue = <<>>
      BY <1>10, <2>2 DEF Held
    <3>2. Tidy(page, n, 0) /\ Lined(page, n) /\ Hand(page, {n}, n) /\ Behind(page, {n})
      BY <1>7, <1>10, <3>1
    <3>3. Free(page) # {}
      BY <1>1, RoomIs, FreeSpare
    <3>4. Follows(page, q, n)
      BY <1>1, <1>2, <1>6, <2>2, <3>2, <3>3, FollowsSendPlain
    <3> QED
      BY <1>10, <3>2, <3>4, FollowsShows
  <2> QED
    BY <1>5, <2>1, <2>2
<1>11. Heeds(page, q, n)
  BY <1>1, <1>9, <1>10 DEF Heeds, Orderly
<1> QED
  BY <1>2, <1>4, <1>9, <1>11, HeedsTurn DEF Publish

LEMMA OrderedStartBatch ==
  ASSUME Wired, Ordered, Room, StartBatch
  PROVE  Heeded
<1> DEFINE q == Counted(page, page.batch + 1)
<1>1. W(page, 0) /\ page \in PageRec /\ Dated /\ asked \in Nat /\ Orderly(page, asked) /\ page.last \in Int
  BY OrderedIs DEF Wired
<1>2. page.batch + 1 \in Int /\ page.batch \in Int
  BY <1>1 DEF StartBatch, Dated
<1>3. Turn(q)
  <2>1. [page EXCEPT !.batch = @ + 1] = q
    BY <1>1 DEF Counted, PageRec
  <2> QED
    BY <2>1 DEF StartBatch
<1>4. /\ q \in PageRec /\ Wires(page, q) /\ q.queue = page.queue /\ q.why = page.why /\ q.last = page.last
      /\ q.held = page.held /\ q.batch = page.batch + 1
  <2>1. PICK b \in Int : b = page.batch + 1
    BY <1>2
  <2>2. q = Counted(page, b)
    BY <2>1
  <2> HIDE DEF q
  <2>3. /\ q \in PageRec /\ q.batch = b /\ Wires(page, q) /\ Words(page, q) /\ Plan(page, q)
        /\ q.client = page.client /\ q.why = page.why
    <3>1. page \in PageRec
      BY <1>1
    <3> QED
      BY <2>2, <3>1, CountedIs
  <2> QED
    BY <2>1, <2>3 DEF Words, Plan
<1> HIDE DEF q
<1>5. W(q, 0)
  BY <1>1, <1>4, WSame
<1>6. Tidy(page, asked, 0) /\ Lined(page, asked) /\ Held(page) =>
        q.last >= page.last /\ Tidy(q, asked, 0) /\ Lined(q, asked) /\ Held(q)
  <2>1. Tidy(page, asked, 0) => Tidy(q, asked, 0)
    BY <1>4 DEF Tidy, Wires
  <2>2. Lined(page, asked) => Lined(q, asked)
    BY <1>4 DEF Lined, Nums, Wires
  <2> QED
    BY <1>1, <1>2, <1>4, <2>1, <2>2 DEF Held
<1>7. Heeds(page, q, asked)
  BY <1>1, <1>4, <1>6 DEF Heeds, Orderly
<1> QED
  BY <1>1, <1>3, <1>5, <1>7, HeedsTurn DEF StartBatch

LEMMA OrderedEndBatch ==
  ASSUME Wired, Ordered, Room, EndBatch
  PROVE  Heeded
<1> DEFINE p == Counted(page, page.batch - 1)
           q == IF p.batch = 0 /\ ~Disconnected(p) /\ ~p.held THEN FlushBatch(p)
                ELSE IF p.queue # <<>> /\ ~p.held THEN Because(p, "kept") ELSE p
<1>1. W(page, 0) /\ ~page.threw /\ page \in PageRec /\ Dated /\ asked \in Nat /\ Orderly(page, asked) /\ page.last \in Int
  BY OrderedIs DEF Wired
<1>2. page.batch - 1 \in Int
  BY <1>1 DEF EndBatch, Dated
<1>3. Turn(q)
  <2>1. [page EXCEPT !.batch = @ - 1] = p
    BY <1>1 DEF Counted, PageRec
  <2> HIDE DEF p
  <2> QED
    BY <2>1 DEF EndBatch
<1>4. /\ p \in PageRec /\ Wires(page, p) /\ p.queue = page.queue /\ p.why = page.why
      /\ p.threw = page.threw /\ p.last = page.last
  <2>0. PICK b \in Int : p = Counted(page, b)
    BY <1>2
  <2> HIDE DEF p
  <2>1. /\ p \in PageRec /\ Wires(page, p) /\ Words(page, p) /\ p.why = page.why /\ Plan(page, p)
        /\ p.threw = page.threw /\ p.client = page.client
    <3>1. page \in PageRec
      BY <1>1
    <3> QED
      BY <2>0, <3>1, CountedIs
  <2> QED
    BY <2>1 DEF Words
<1> HIDE DEF p
<1>5. \/ q = FlushBatch(p)
      \/ q = Because(p, "kept")
      \/ q = p /\ (p.queue # <<>> => p.held)
  OBVIOUS
<1> HIDE DEF q
<1>6. W(p, 0) /\ ~p.threw
  BY <1>1, <1>4, WSame
<1>7. PICK x : Spare(p, x)
  BY <1>4, RoomIs, SpareSame
<1>8. Tidy(page, asked, 0) /\ Lined(page, asked) => Tidy(p, asked, 0) /\ Lined(p, asked)
  <2>1. Tidy(page, asked, 0) => Tidy(p, asked, 0)
    BY <1>4 DEF Tidy, Wires
  <2>2. Lined(page, asked) => Lined(p, asked)
    BY <1>4 DEF Lined, Nums, Wires
  <2> QED
    BY <2>1, <2>2
<1>9. CASE q = FlushBatch(p)
  <2>1. W(q, 0) /\ p.why \subseteq q.why
    BY <1>6, <1>7, <1>9, WFlushBatch
  <2>2. Tidy(page, asked, 0) /\ Lined(page, asked) => Follows(p, q, asked) /\ q.queue = <<>> /\ Lined(p, asked)
    BY <1>1, <1>6, <1>7, <1>8, <1>9, FollowsFlushBatch
  <2>3. Tidy(page, asked, 0) /\ Lined(page, asked) => q.last >= page.last /\ Tidy(q, asked, 0) /\ Lined(q, asked) /\ Held(q)
    BY <1>4, <2>2, FollowsShows DEF Held
  <2>4. Heeds(page, q, asked)
    BY <1>1, <1>4, <2>1, <2>3 DEF Heeds, Orderly
  <2> QED
    BY <1>1, <1>3, <2>1, <2>4, HeedsTurn DEF EndBatch
<1>10. CASE q = Because(p, "kept")
  <2>1. Moves(p, q) /\ q.why = p.why \cup {"kept"}
    BY <1>4, <1>10, BecauseIs DEF Reasons
  <2>2. q \in PageRec /\ Wires(p, q) /\ q.queue = p.queue /\ q.last = p.last
    BY <2>1 DEF Moves, Words
  <2>3. W(q, 0) /\ Exempt(q)
    BY <1>6, <2>1, <2>2, WSame DEF Exempt
  <2>4. Heeds(page, q, asked)
    BY <1>1, <1>4, <2>1, <2>2, <2>3 DEF Heeds, Orderly
  <2> QED
    BY <1>1, <1>3, <2>3, <2>4, HeedsTurn DEF EndBatch
<1>11. CASE q = p /\ (p.queue # <<>> => p.held)
  <2>1. Heeds(page, q, asked)
    BY <1>1, <1>4, <1>8, <1>11 DEF Heeds, Orderly, Held
  <2> QED
    BY <1>1, <1>3, <1>6, <1>11, <2>1, HeedsTurn DEF EndBatch
<1> QED
  BY <1>5, <1>9, <1>10, <1>11

\* The end of a request changes nothing of the order.
LEMMA OrderlyEnded ==
  ASSUME NEW p \in PageRec, NEW r \in Slots, NEW q, q = Ended(p, r), NEW n \in Nat, Orderly(p, n)
  PROVE  Orderly(q, n) /\ q \in PageRec /\ q.why = p.why /\ q.last = p.last /\ Lapses(p, q)
<1>1. q \in PageRec /\ q.why = p.why
  BY EndedIs
<1>2. Lapses(p, q) /\ q.last = p.last
  BY LapsesEnded
<1> HIDE DEF Ended
<1>3. Heeds(p, q, n)
  BY <1>1, <1>2, HeedsLapses
<1> QED
  BY <1>1, <1>2, <1>3 DEF Heeds, Orderly, Exempt

LEMMA OrderedFailure ==
  ASSUME Wired, Ordered, Room, NEW r \in Slots, Out(page, r), Turn(HandleFailure(Over(r), r)), granted' = granted, asked' = asked
  PROVE  Heeded
<1> DEFINE p == Ended(page, r)
           q == HandleFailure(p, r)
<1>1. W(page, 0) /\ ~page.threw /\ page \in PageRec /\ asked \in Nat /\ Orderly(page, asked)
  BY OrderedIs
<1>2. Turn(q)
  BY DEF Over, Ended
<1>3. /\ W(p, r) /\ Calm(page, p)
      /\ p \in PageRec /\ p.why = page.why /\ p.last = page.last /\ Orderly(p, asked)
  BY <1>1, WEnded, EndedIs, OrderlyEnded
<1> HIDE DEF p
<1>4. ~p.threw
  BY <1>1, <1>3 DEF Calm
<1>5. W(q, 0) /\ p.why \subseteq q.why /\ q.last = p.last /\ ("stray" \in q.why \/ Lapses(p, q))
  BY <1>3, <1>4, WHandleFailure, LapsesFailure
<1> HIDE DEF q
<1>6. Tidy(p, asked, 0) => q.last >= p.last /\ ("stray" \in q.why \/ Follows(p, q, asked))
  <2>1. q \in PageRec
    BY <1>5, WType
  <2>2. Tidy(p, asked, 0) => p.last \in Int
    BY DEF Tidy
  <2> QED
    BY <1>1, <1>3, <1>5, <2>1, <2>2, LapsesFollows
<1>7. Heeds(p, q, asked)
  BY <1>3, <1>5, <1>6, HeedsFollows
<1>8. Heeds(page, q, asked)
  BY <1>3, <1>7, HeedsAfter
<1> QED
  BY <1>1, <1>2, <1>5, <1>8, HeedsTurn

LEMMA OrderedPoll ==
  ASSUME Wired, Ordered, Room, NEW r \in Slots, Poll(r)
  PROVE  Heeded
<1> DEFINE p == Ended(page, r)
<1>1. W(page, 0) /\ ~page.threw /\ page \in PageRec /\ asked \in Nat /\ Orderly(page, asked)
  BY OrderedIs
<1>2. p = Over(r)
  BY DEF Over, Ended
<1>3. ASSUME Out(page, r)
      PROVE  /\ W(p, r) /\ ~p.threw /\ Formed(page.req[r]) /\ Formed(p.req[r])
             /\ p.req[r].msgs = page.req[r].msgs /\ p.req[r].reply = page.req[r].reply
             /\ \A x : Spare(page, x) => Spare(p, x)
  <2>1. W(p, r) /\ Calm(page, p) /\ Kept(page.req[r], p.req[r])
    BY <1>1, <1>3, WEnded, EndedIs
  <2>2. Formed(page.req[r]) /\ \A x : Spare(page, x) => Spare(p, x)
    BY <1>1, <1>3, WEnded
  <2> HIDE DEF p
  <2>3. Formed(p.req[r])
    BY <2>1 DEF W
  <2> QED
    BY <1>1, <2>1, <2>2, <2>3 DEF Calm, Kept
<1>4. granted' = granted /\ asked' = asked
  BY DEF Poll
<1>5. p \in PageRec /\ p.why = page.why /\ p.last = page.last /\ Orderly(p, asked)
  BY <1>1, OrderlyEnded
<1>6. CASE page.req[r].xhr = "broken" /\ Turn(HandleFailure(Over(r), r))
  BY <1>4, <1>6, OrderedFailure DEF Out
<1> HIDE DEF p
<1>7. CASE page.req[r].xhr = "answered" /\ Turn(HandleResponse(Over(r), r))
  <2> DEFINE q == HandleResponse(p, r)
  <2>1. Turn(q)
    BY <1>2, <1>7
  <2>2. Out(page, r)
    BY <1>7 DEF Out
  <2>3. Echoes(p.req[r].reply, p.req[r].msgs)
    BY <1>3, <1>7, <2>2 DEF Formed
  <2>4. PICK x : Spare(p, x)
    BY <1>3, <2>2, RoomIs
  <2>5. W(q, 0) /\ p.why \subseteq q.why
    BY <1>3, <2>2, <2>3, <2>4, WHandleResponse
  <2>6. Tidy(p, asked, 0) /\ Lined(p, asked) => q.last >= p.last /\ ("stray" \in q.why \/ Follows(p, q, asked))
    BY <1>1, <1>3, <2>2, <2>3, <2>4, OrderHandleResponse
  <2> HIDE DEF q
  <2>7. Heeds(p, q, asked)
    BY <1>5, <2>5, <2>6, HeedsFollows
  <2>8. Heeds(page, q, asked)
    BY <1>5, <2>7, HeedsAfter
  <2> QED
    BY <1>1, <1>4, <2>1, <2>5, <2>8, HeedsTurn
<1>8. CASE page.req[r].xhr = "garbled" /\ Turn([Because(Over(r), "garbled") EXCEPT !.lost = @ \cup Published(page.req[r].msgs)])
  <2> DEFINE q == Forgotten(p, page.req[r].msgs)
  <2>1. Turn(q)
    BY <1>2, <1>8 DEF Forgotten
  <2>2. Out(page, r)
    BY <1>8 DEF Out
  <2>3. p \in PageRec /\ page.req[r].msgs \in Seq(Msg) /\ W(p, r)
    BY <1>1, <1>3, <2>2, WType DEF PageRec, Request
  <2>4. /\ q \in PageRec /\ Wires(p, q) /\ Plan(p, q) /\ Calm(p, q) /\ q.why = p.why \cup {"garbled"} /\ q.queue = p.queue
        /\ q.last = p.last
    BY <2>3, ForgottenIs
  <2> HIDE DEF q
  <2>5. W(q, r)
    BY <2>3, <2>4, WSame
  <2>6. ToSet(q.envelopes) \subseteq Slots /\ 0 \notin Slots /\ r # 0
    BY <2>4, Members, CometdAssumption DEF PageRec
  <2>7. W(q, 0)
    BY <2>4, <2>5, <2>6 DEF W
  <2>8. Lapses(p, q)
    BY <2>3, <2>4, LapsesWires DEF Calm, Plan
  <2>9. Heeds(p, q, asked)
    BY <1>1, <1>5, <2>4, <2>8, HeedsLapses
  <2>10. Heeds(page, q, asked)
    BY <1>5, <2>9, HeedsAfter
  <2> QED
    BY <1>1, <1>4, <2>1, <2>7, <2>10, HeedsTurn
<1> QED
  BY <1>6, <1>7, <1>8 DEF Poll

LEMMA LinedSame ==
  ASSUME NEW p, NEW q, q.envelopes = p.envelopes, q.last = p.last, q.queue = p.queue,
         \A i \in DOMAIN p.envelopes : Nums(q, q.envelopes[i]) = Nums(p, p.envelopes[i]), NEW n, Lined(p, n)
  PROVE  Lined(q, n)
<1>1. ASSUME NEW i \in DOMAIN p.envelopes
      PROVE  /\ Nums(q, q.envelopes[i]) \subseteq 1..n
             /\ Below({q.last}, Nums(q, q.envelopes[i])) /\ Below(Nums(q, q.envelopes[i]), Published(q.queue))
             /\ \A j \in DOMAIN p.envelopes : i < j => Below(Nums(q, q.envelopes[i]), Nums(q, q.envelopes[j]))
  BY DEF Lined
<1> QED
  BY <1>1 DEF Lined

\* Nothing of the page changes but what is on the wire.
LEMMA OrderedWire ==
  ASSUME Ordered, page \in PageRec, asked \in Nat, asked' = asked, NEW q, page' = q, q.why = page.why, q.last = page.last,
         q.queue = page.queue, q.held = page.held, q.batch = page.batch, q.requests = page.requests, q.envelopes = page.envelopes,
         \A s \in Slots : q.req[s].msgs = page.req[s].msgs
  PROVE  Heeded
<1>1. ToSet(page.envelopes) \subseteq Slots /\ \A i \in DOMAIN page.envelopes : page.envelopes[i] \in ToSet(page.envelopes)
  BY Members DEF PageRec, ToSet
<1>2. \A i \in DOMAIN page.envelopes : Nums(q, q.envelopes[i]) = Nums(page, page.envelopes[i])
  BY <1>1 DEF Nums
<1>3. Lined(page, asked) => Lined(q, asked)
  BY <1>2, LinedSame
<1>4. /\ Tidy(page, asked, 0) => Tidy(q, asked, 0) /\ q.last >= page.last
      /\ Held(page) => Held(q)
  BY DEF Tidy, Held
<1>5. ~Exempt(page) => q.last >= page.last /\ Orderly(q, asked)
  BY <1>3, <1>4 DEF Ordered, Orderly
<1>6. Heeds(page, q, asked)
  BY <1>5 DEF Heeds
<1> QED
  BY <1>6, HeedsStep

LEMMA OrderedAnswer ==
  ASSUME Wired, Ordered, NEW r \in Slots, Answer(r)
  PROVE  Heeded
<1> DEFINE q == page'
<1>1. page \in PageRec /\ asked \in Nat
  BY OrderedIs
<1>2. PICK reply : q = Answered(page, r, reply)
  BY AnswerArrives
<1>3. asked' = asked
  BY Zenon DEF Answer
<1> HIDE DEF q
<1>4. /\ q.requests = page.requests /\ q.envelopes = page.envelopes
      /\ Words(page, q) /\ Calm(page, q) /\ Plan(page, q) /\ q.why = page.why /\ q.req[r].msgs = page.req[r].msgs
  BY <1>1, <1>2, ArrivedIs
<1>5. \A s \in Slots : s # r => q.req[s] = page.req[s]
  BY <1>1, <1>2, ArrivedIs
<1>6. /\ q.queue = page.queue /\ q.last = page.last /\ q.held = page.held /\ q.batch = page.batch
      /\ \A s \in Slots : q.req[s].msgs = page.req[s].msgs
  BY <1>4, <1>5 DEF Words, Calm, Plan
<1>7. page' = q
  BY DEF q
<1> QED
  BY <1>1, <1>3, <1>4, <1>6, <1>7, OrderedWire

LEMMA OrderedFault ==
  ASSUME Wired, Ordered, NEW r \in Slots, Fault(r)
  PROVE  Heeded
<1> DEFINE q == page'
<1>1. page \in PageRec /\ asked \in Nat
  BY OrderedIs
<1>2. PICK x \in {"broken", "garbled"} : q = Faulty(page, r, x)
  BY Zenon DEF Fault, Faulty
<1>3. asked' = asked
  BY Zenon DEF Fault
<1> HIDE DEF q
<1>4. x \in Xhr
  <2>1. "broken" \in Xhr /\ "garbled" \in Xhr
    BY DEF Xhr, OnWire
  <2> QED
    BY <1>2, <2>1
<1>5. /\ q.requests = page.requests /\ q.envelopes = page.envelopes
      /\ Words(page, q) /\ Calm(page, q) /\ Plan(page, q) /\ q.why = page.why /\ q.req[r].msgs = page.req[r].msgs
  BY <1>1, <1>2, <1>4, FaultyIs
<1>6. \A s \in Slots : s # r => q.req[s] = page.req[s]
  BY <1>1, <1>2, <1>4, FaultyIs
<1>7. /\ q.queue = page.queue /\ q.last = page.last /\ q.held = page.held /\ q.batch = page.batch
      /\ \A s \in Slots : q.req[s].msgs = page.req[s].msgs
  BY <1>5, <1>6 DEF Words, Calm, Plan
<1>8. page' = q
  BY DEF q
<1> QED
  BY <1>1, <1>3, <1>5, <1>7, <1>8, OrderedWire

LEMMA OrderedStays ==
  ASSUME Wired, Ordered, page' = page \/ page' = [page EXCEPT !.breaks = TRUE], asked' = asked
  PROVE  Heeded
<1> DEFINE q == page'
<1>1. page \in PageRec /\ asked \in Nat
  BY OrderedIs
<1>2. /\ q.requests = page.requests /\ q.envelopes = page.envelopes /\ q.why = page.why /\ q.req = page.req
      /\ q.queue = page.queue /\ q.last = page.last /\ q.held = page.held /\ q.batch = page.batch
  BY <1>1 DEF PageRec
<1> HIDE DEF q
<1>3. page' = q
  BY DEF q
<1> QED
  BY <1>1, <1>2, <1>3, OrderedWire

LEMMA OrderedInit ==
  ASSUME PageInit
  PROVE  Ordered
<1>1. page.queue = <<>> /\ page.last = 0 /\ page.envelopes = <<>> /\ asked = 0
  BY DEF PageInit
<1>2. <<>> \in Seq(Msg) /\ DOMAIN <<>> = {}
  BY EmptySeq
<1>3. Published(page.queue) = {}
  BY <1>1, <1>2, PublishedIs
<1>4. Tidy(page, asked, 0)
  BY <1>1, <1>3 DEF Tidy, Below
<1>5. Lined(page, asked) /\ Held(page)
  BY <1>1, <1>2 DEF Lined, Held
<1> QED
  BY <1>4, <1>5 DEF Ordered, Orderly

LEMMA OrderedNext ==
  ASSUME Wired, Ordered, [PageNext]_pageVars
  PROVE  Heeded
<1>1. CASE UNCHANGED pageVars
  BY <1>1, OrderedStays DEF pageVars
<1>2. CASE Room /\ Application
  BY <1>2, OrderedAppHandshake, OrderedAppDisconnect, OrderedPublish, OrderedStartBatch, OrderedEndBatch DEF Application
<1>3. CASE Room /\ TimersFire
  <2>1. CASE Due
    BY <1>3, <2>1, OrderedDue
  <2>2. ASSUME NEW r \in Slots, Poll(r) PROVE Heeded
    BY <1>3, <2>2, OrderedPoll
  <2>3. ASSUME NEW r \in Slots, GivenUp(r) PROVE Heeded
    <3>1. Out(page, r) /\ Turn(HandleFailure(Over(r), r)) /\ granted' = granted /\ asked' = asked
      BY <2>3 DEF GivenUp, Out
    <3> QED
      BY <1>3, <3>1, OrderedFailure
  <2>4. ASSUME NEW r \in Slots, Expire(r) PROVE Heeded
    <3>1. Out(page, r) /\ Turn(HandleFailure(Over(r), r)) /\ granted' = granted /\ asked' = asked
      BY <2>4 DEF Expire, Out
    <3> QED
      BY <1>3, <3>1, OrderedFailure
  <2> QED
    BY <1>3, <2>1, <2>2, <2>3, <2>4 DEF TimersFire
<1>4. CASE BreakNext
  BY Zenon, <1>4, OrderedStays DEF BreakNext
<1>5. CASE Forget
  BY Zenon, <1>5, OrderedStays DEF Forget
<1>6. CASE \E r \in Slots : Answer(r) \/ Fault(r)
  BY <1>6, OrderedAnswer, OrderedFault
<1> QED
  BY <1>1, <1>2, <1>3, <1>4, <1>5, <1>6 DEF PageNext, Network

\* The messages leave the page in the order in which the application published them, whatever
\* fails, is retried or comes late: what a batch or a handshake holds back goes before what is
\* published after it (publish(), endBatch(), _handshakeResponse()), and what waits for a
\* connection goes first come, first served (queueSend(), transportSend(), complete() of the
\* transport), but after the two things named at InOrder.
THEOREM PageSendsInOrder == PageSpec => InOrder
<1>1. PageInit => Wired /\ Ordered
  BY WiredInit, OrderedInit
<1>2. Wired /\ Ordered /\ [PageNext]_pageVars =>
        Wired' /\ Ordered' /\ [Unless({"stray", "kept"}) => page'.last >= page.last]_pageVars
  BY WiredNext, OrderedNext DEF Heeded
<1> QED
  BY <1>1, <1>2, PTL DEF PageSpec, InOrder
=============================================================================
