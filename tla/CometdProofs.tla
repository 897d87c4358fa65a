---------------------------- MODULE CometdProofs ----------------------------
(***************************************************************************)
(* What the page's record is like between two turns, for any number of     *)
(* messages, requests, connections and steps of the backoff, and for any   *)
(* budget of misfortunes.                                                  *)
(*                                                                         *)
(* A turn is a chain of functions on the record.  The invariant W is       *)
(* stated of any record, so that it can be carried from one function of    *)
(* the chain to the next, and takes the request whose end the chain is     *)
(* dealing with, which is neither free nor listed.  Each function has two  *)
(* lemmas: one that says which fields it changes, with one W... that says  *)
(* it keeps W.  The lemmas Wired... are about whole turns.                 *)
(*                                                                         *)
(* N, that somebody will call back, is carried along the same chains: the  *)
(* lemmas N... and Awaits...; and so is A, where each message is: the      *)
(* lemmas A..., B... and Traced...                                         *)
(***************************************************************************)
EXTENDS Cometd, FiniteSetTheorems, SequenceTheorems, WellFoundedInduction, TLAPS

Whats   == {"handshake", "connect", "disconnect", "publish"}
Reasons == {"stray", "none", "unsupported", "garbled", "overtaken", "kept", "throws"}
Msg     == [what : Whats, number : Messages \cup {0}, client : Nat]
Ans     == [what : Whats, number : Messages \cup {0}, ok : BOOLEAN, client : Nat, advice : Advice, unsupported : BOOLEAN]
Xhr     == {"none", "waiting", "failing"} \cup OnWire
Request == [msgs : Seq(Msg), poll : BOOLEAN, xhr : Xhr, timer : BOOLEAN, reply : Seq(Ans)]

PageRec == [status : Phases, client : Nat, batch : Int, held : BOOLEAN, queue : Seq(Msg),
            backoff : 0..MaxBackoff, due : {"none", "connect", "handshake"}, advice : Advice,
            longpoll : Slots \cup {0}, requests : Seq(Slots), envelopes : Seq(Slots),
            req : [Slots -> Request], threw : BOOLEAN, breaks : BOOLEAN,
            told : [Messages -> Nat], lost : SUBSET Messages, last : Messages \cup {0},
            why : SUBSET Reasons]

Batch(msgs) ==
  /\ msgs # <<>>
  /\ \A i \in DOMAIN msgs : msgs[i].what = "publish" /\ msgs[i].number \in Messages
  /\ \A i, j \in DOMAIN msgs : i < j => msgs[i].number < msgs[j].number
OneMeta(msgs, w) == Len(msgs) = 1 /\ msgs[1].what = w /\ msgs[1].number = 0
Busy(q) == q.xhr # "none" \/ q.timer
Echoes(reply, msgs) ==
  /\ Len(reply) = Len(msgs)
  /\ \A i \in DOMAIN msgs :
       /\ reply[i].what = msgs[i].what /\ reply[i].number = msgs[i].number
       /\ msgs[i].what = "publish" => reply[i].advice = ""
\* A session that is granted is one of those that were given.
Known(reply) == reply[1].client \in 0..granted

Formed(q) ==
  /\ IF q.poll THEN OneMeta(q.msgs, "connect")
     ELSE OneMeta(q.msgs, "handshake") \/ OneMeta(q.msgs, "disconnect") \/ Batch(q.msgs)
  /\ q.xhr = "answered" => Echoes(q.reply, q.msgs) /\ Known(q.reply)

Distinct(s) == \A i, j \in DOMAIN s : i # j => s[i] # s[j]
Listed(p) == ToSet(p.requests) \cup ToSet(p.envelopes)

\* h is the request whose end is being dealt with, 0 if there is none.
W(p, h) ==
  /\ p \in PageRec
  /\ Len(p.requests) < MaxConnections
  /\ Distinct(p.requests) /\ Distinct(p.envelopes) /\ ToSet(p.requests) \cap ToSet(p.envelopes) = {}
  /\ \A r \in ToSet(p.envelopes) : r # h /\ p.req[r].xhr = "waiting" /\ ~p.req[r].timer
  /\ \A r \in Listed(p) : ~p.req[r].poll
  /\ \A r \in Slots : Busy(p.req[r]) \/ r = h => Formed(p.req[r])
  /\ p.longpoll # 0 => p.req[p.longpoll].poll /\ (Busy(p.req[p.longpoll]) \/ "garbled" \in p.why \/ p.longpoll = h)
  /\ p.queue = <<>> \/ Batch(p.queue)

\* It is listed no more.
Loose(p, h) == h \notin ToSet(p.requests) /\ h \notin ToSet(p.envelopes) /\ (h # 0 => p.longpoll # h)

-----------------------------------------------------------------------------
(* Natural numbers.                                                        *)

\* A set of natural numbers has a least one.
LEMMA LeastNat ==
  ASSUME NEW S, S \subseteq Nat, S # {}
  PROVE  \E x \in S : \A y \in S : x <= y
<1>1. IsWellFoundedOn(OpToRel(<, Nat), Nat)
  BY NatLessThanWellFounded
<1>2. PICK x \in S : \A y \in S : ~(<<y, x>> \in OpToRel(<, Nat))
  BY <1>1, WFMin
<1>3. \A y \in S : ~(y < x)
  BY <1>2 DEF OpToRel
<1> QED
  BY <1>3

\* Induction over the numbers up to n.
LEMMA UpTo ==
  ASSUME NEW S, NEW n \in Nat, 0 \in S, \A m \in 1..n : m - 1 \in S => m \in S
  PROVE  \A m \in 0..n : m \in S
<1>1. SUFFICES ASSUME (0..n) \ S # {} PROVE FALSE
  OBVIOUS
<1>2. PICK x \in (0..n) \ S : \A y \in (0..n) \ S : x <= y
  <2>1. (0..n) \ S \subseteq Nat
    OBVIOUS
  <2> QED
    BY <1>1, <2>1, LeastNat
<1>3. x \in 1..n /\ x - 1 \in 0..n
  BY <1>2
<1>4. x - 1 \in S
  BY <1>2, <1>3
<1> QED
  BY <1>2, <1>3, <1>4

-----------------------------------------------------------------------------
(* Lists of requests.                                                      *)

LEMMA Members ==
  ASSUME NEW S, NEW s \in Seq(S)
  PROVE  ToSet(s) \subseteq S /\ (s = <<>> <=> ToSet(s) = {}) /\ DOMAIN s = 1..Len(s) /\ Len(s) \in Nat
<1>1. Len(s) \in Nat /\ DOMAIN s = 1..Len(s) /\ \A i \in 1..Len(s) : s[i] \in S
  OBVIOUS
<1>2. s # <<>> => 1 \in DOMAIN s
  BY <1>1, EmptySeq
<1>3. s = <<>> => DOMAIN s = {}
  BY <1>1, EmptySeq
<1>4. ToSet(s) \subseteq S
  BY <1>1 DEF ToSet
<1>5. s = <<>> <=> ToSet(s) = {}
  BY <1>2, <1>3 DEF ToSet
<1> QED
  BY <1>1, <1>4, <1>5

LEMMA EmptyList == Len(<<>>) = 0 /\ ToSet(<<>>) = {} /\ Distinct(<<>>)
<1>1. DOMAIN <<>> = {}
  OBVIOUS
<1> QED
  BY <1>1, EmptySeq DEF ToSet, Distinct

LEMMA Appended ==
  ASSUME NEW S, NEW s \in Seq(S), NEW x \in S
  PROVE  /\ Append(s, x) \in Seq(S) /\ Len(Append(s, x)) = Len(s) + 1
         /\ ToSet(Append(s, x)) = ToSet(s) \cup {x}
         /\ \A i \in 1..Len(s) : Append(s, x)[i] = s[i]
         /\ Append(s, x)[Len(s) + 1] = x
         /\ Distinct(s) /\ x \notin ToSet(s) => Distinct(Append(s, x))
<1> DEFINE t == Append(s, x)
<1>1. /\ t \in Seq(S) /\ Len(t) = Len(s) + 1 /\ t[Len(s) + 1] = x
      /\ \A i \in 1..Len(s) : t[i] = s[i]
  BY AppendProperties
<1>2. Len(s) \in Nat /\ DOMAIN s = 1..Len(s) /\ DOMAIN t = 1..Len(s) + 1
  BY <1>1, Members
<1> HIDE DEF t
<1>3. DOMAIN t = DOMAIN s \cup {Len(s) + 1}
  BY <1>2
<1>4. ToSet(t) = ToSet(s) \cup {x}
  BY <1>1, <1>2, <1>3 DEF ToSet
<1>5. Distinct(s) /\ x \notin ToSet(s) => Distinct(t)
  BY <1>1, <1>2, <1>3 DEF Distinct, ToSet
<1> QED
  BY <1>1, <1>4, <1>5 DEF t

LEMMA TailOf ==
  ASSUME NEW S, NEW s \in Seq(S), s # <<>>
  PROVE  /\ Tail(s) \in Seq(S) /\ Len(Tail(s)) = Len(s) - 1 /\ Len(s) > 0
         /\ Head(s) \in S /\ Head(s) \in ToSet(s) /\ Head(s) = s[1]
         /\ \A i \in 1..Len(s) - 1 : Tail(s)[i] = s[i + 1]
         /\ ToSet(Tail(s)) \subseteq ToSet(s) /\ ToSet(s) = ToSet(Tail(s)) \cup {Head(s)}
         /\ Distinct(s) => Distinct(Tail(s)) /\ Head(s) \notin ToSet(Tail(s))
<1> DEFINE t == Tail(s)
<1>1. Len(s) \in Nat \ {0} /\ DOMAIN s = 1..Len(s)
  BY EmptySeq, Members
<1>2. /\ t \in Seq(S) /\ Len(t) = Len(s) - 1 /\ Head(s) \in S /\ Head(s) = s[1]
      /\ \A i \in 1..Len(s) - 1 : t[i] = s[i + 1]
  BY HeadTailProperties
<1>3. DOMAIN t = 1..Len(s) - 1
  BY <1>1, <1>2, Members
<1> HIDE DEF t
<1>4. Head(s) \in ToSet(s)
  BY <1>1, <1>2 DEF ToSet
<1>5. ToSet(t) \subseteq ToSet(s)
  BY <1>1, <1>2, <1>3 DEF ToSet
<1>6. ASSUME NEW x \in ToSet(s), x # Head(s) PROVE x \in ToSet(t)
  <2>1. PICK i \in 1..Len(s) : x = s[i]
    BY <1>1 DEF ToSet
  <2>2. i - 1 \in 1..Len(s) - 1 /\ i = (i - 1) + 1
    BY <1>1, <1>2, <1>6, <2>1
  <2>3. t[i - 1] = s[i]
    BY <1>2, <2>2
  <2> QED
    BY <1>3, <2>1, <2>2, <2>3 DEF ToSet
<1>7. ASSUME Distinct(s) PROVE Distinct(t)
  <2>1. SUFFICES ASSUME NEW i \in 1..Len(s) - 1, NEW j \in 1..Len(s) - 1, i # j PROVE t[i] # t[j]
    BY <1>3 DEF Distinct
  <2>2. i + 1 \in DOMAIN s /\ j + 1 \in DOMAIN s /\ i + 1 # j + 1
    BY <1>1, <2>1
  <2>3. t[i] = s[i + 1] /\ t[j] = s[j + 1]
    BY <1>2
  <2> QED
    BY <1>7, <2>2, <2>3 DEF Distinct
<1>8. ASSUME Distinct(s) PROVE Head(s) \notin ToSet(t)
  <2>1. SUFFICES ASSUME NEW i \in 1..Len(s) - 1, t[i] = s[1] PROVE FALSE
    BY <1>2, <1>3 DEF ToSet
  <2>2. i + 1 \in DOMAIN s /\ 1 \in DOMAIN s /\ i + 1 # 1 /\ s[i + 1] = s[1]
    BY <1>1, <1>2, <2>1
  <2> QED
    BY <1>8, <2>2 DEF Distinct
<1> QED
  BY <1>1, <1>2, <1>4, <1>5, <1>6, <1>7, <1>8 DEF t

LEMMA RemovedFrom ==
  ASSUME NEW S, NEW s \in Seq(S), NEW x \in ToSet(s), Distinct(s)
  PROVE  /\ Without(s, x) \in Seq(S) /\ Len(Without(s, x)) = Len(s) - 1 /\ Distinct(Without(s, x))
         /\ ToSet(Without(s, x)) = ToSet(s) \ {x}
<1> DEFINE t == Without(s, x)
<1>1. Len(s) \in Nat /\ DOMAIN s = 1..Len(s)
  BY Members
<1>2. PICK k \in 1..Len(s) : s[k] = x /\ t = SubSeq(s, 1, k - 1) \o SubSeq(s, k + 1, Len(s))
  <2> DEFINE j == CHOOSE i \in DOMAIN s : s[i] = x
  <2>1. j \in 1..Len(s) /\ s[j] = x
    BY <1>1 DEF ToSet
  <2>2. t = SubSeq(s, 1, j - 1) \o SubSeq(s, j + 1, Len(s))
    BY DEF Without, RemoveAt
  <2> QED
    BY <2>1, <2>2
<1>0. k \in Int /\ Len(s) \in Int /\ 1 <= k /\ k <= Len(s)
  BY <1>1, <1>2
<1> HIDE DEF t
<1> DEFINE a == SubSeq(s, 1, k - 1)
           b == SubSeq(s, k + 1, Len(s))
<1>3. t = a \o b
  BY <1>2
<1>4. a \in Seq(S) /\ Len(a) = k - 1 /\ \A i \in 1..k - 1 : a[i] = s[i]
  <2>1. 1 \in Int /\ k - 1 \in Int /\ \A i \in 1..k - 1 : s[i] \in S
    BY <1>1, <1>2
  <2>2. /\ SubSeq(s, 1, k - 1) \in Seq(S)
        /\ Len(SubSeq(s, 1, k - 1)) = IF 1 <= k - 1 THEN k - 1 - 1 + 1 ELSE 0
        /\ \A i \in 1..k - 1 - 1 + 1 : SubSeq(s, 1, k - 1)[i] = s[1 + i - 1]
    BY <2>1, SubSeqProperties
  <2>3. k - 1 - 1 + 1 = k - 1 /\ \A i \in 1..k - 1 : 1 + i - 1 = i
    BY <1>1, <1>2
  <2> QED
    BY <1>1, <1>2, <2>2, <2>3
<1>5. b \in Seq(S) /\ Len(b) = Len(s) - k /\ \A i \in 1..Len(s) - k : b[i] = s[k + i]
  <2>1. k + 1 \in Int /\ Len(s) \in Int /\ \A i \in k + 1..Len(s) : s[i] \in S
    BY <1>1, <1>2
  <2>2. /\ SubSeq(s, k + 1, Len(s)) \in Seq(S)
        /\ Len(SubSeq(s, k + 1, Len(s))) = IF k + 1 <= Len(s) THEN Len(s) - (k + 1) + 1 ELSE 0
        /\ \A i \in 1..Len(s) - (k + 1) + 1 : SubSeq(s, k + 1, Len(s))[i] = s[(k + 1) + i - 1]
    BY <2>1, SubSeqProperties
  <2>4. k + 1 <= Len(s) \/ Len(s) - k = 0
    BY <1>0
  <2>3. Len(s) - (k + 1) + 1 = Len(s) - k /\ \A i \in 1..Len(s) - k : (k + 1) + i - 1 = k + i
    BY <1>1, <1>2
  <2> QED
    BY <1>1, <1>2, <2>2, <2>3, <2>4
<1> HIDE DEF a, b
<1>60. /\ t \in Seq(S) /\ Len(t) = Len(a) + Len(b)
      /\ \A i \in 1..Len(a) + Len(b) : t[i] = IF i <= Len(a) THEN a[i] ELSE b[i - Len(a)]
  BY <1>3, <1>4, <1>5, ConcatProperties
<1>6. t \in Seq(S) /\ Len(t) = Len(s) - 1
  BY <1>0, <1>60, <1>4, <1>5
<1>7. \A i \in 1..k - 1 : t[i] = s[i]
  BY SMTT(60), <1>0, <1>60, <1>4, <1>5
<1>8. ASSUME NEW i \in k..Len(s) - 1 PROVE t[i] = s[i + 1]
  <2>1. t[i] = b[i - (k - 1)] /\ i - (k - 1) \in 1..Len(s) - k
    BY SMTT(60), <1>0, <1>60, <1>4, <1>5
  <2>2. k + (i - (k - 1)) = i + 1
    BY <1>1, <1>2
  <2> QED
    BY <1>5, <2>1, <2>2
<1>9. DOMAIN t = 1..Len(s) - 1
  BY <1>6, Members
<1>10. ASSUME NEW i \in 1..Len(s) - 1
       PROVE  \E j \in 1..Len(s) : j # k /\ t[i] = s[j] /\ j = IF i < k THEN i ELSE i + 1
  <2>1. CASE i < k
    <3>1. i \in 1..k - 1 /\ i \in 1..Len(s) /\ i # k
      BY <1>0, <2>1
    <3> QED
      BY <1>7, <2>1, <3>1
  <2>2. CASE ~(i < k)
    <3>1. i \in k..Len(s) - 1 /\ i + 1 \in 1..Len(s) /\ i + 1 # k
      BY <1>0, <2>2
    <3> QED
      BY <1>8, <2>2, <3>1
  <2> QED
    BY <2>1, <2>2
<1>11. ASSUME NEW y \in ToSet(s), y # x PROVE y \in ToSet(t)
  <2>1. PICK j \in 1..Len(s) : y = s[j]
    BY <1>1 DEF ToSet
  <2>2. j # k
    BY <1>2, <1>11, <2>1
  <2>3. CASE j < k
    <3>1. j \in 1..k - 1 /\ j \in 1..Len(s) - 1
      BY <1>1, <1>2, <2>1, <2>3
    <3> QED
      BY <1>7, <1>9, <2>1, <3>1 DEF ToSet
  <2>4. CASE j > k
    <3>1. j - 1 \in k..Len(s) - 1 /\ j - 1 \in 1..Len(s) - 1 /\ (j - 1) + 1 = j
      BY <1>1, <1>2, <2>1, <2>4
    <3>2. t[j - 1] = y
      BY <1>8, <2>1, <3>1
    <3> QED
      BY <1>9, <3>1, <3>2 DEF ToSet
  <2> QED
    BY <1>1, <1>2, <2>1, <2>2, <2>3, <2>4
<1>12. Distinct(t)
  <2>1. SUFFICES ASSUME NEW i \in 1..Len(s) - 1, NEW j \in 1..Len(s) - 1, i # j PROVE t[i] # t[j]
    BY <1>9 DEF Distinct
  <2>2. PICK u \in 1..Len(s) : u # k /\ t[i] = s[u] /\ u = IF i < k THEN i ELSE i + 1
    BY <1>10
  <2>3. PICK v \in 1..Len(s) : v # k /\ t[j] = s[v] /\ v = IF j < k THEN j ELSE j + 1
    BY <1>10
  <2>4. u # v
    BY <1>1, <1>2, <2>1, <2>2, <2>3
  <2> QED
    BY <1>1, <2>2, <2>3, <2>4 DEF Distinct
<1>13. ASSUME NEW y \in ToSet(t) PROVE y \in ToSet(s) /\ y # x
  <2>1. PICK i \in 1..Len(s) - 1 : y = t[i]
    BY <1>9 DEF ToSet
  <2>2. PICK u \in 1..Len(s) : u # k /\ t[i] = s[u]
    BY <1>10
  <2> QED
    BY <1>1, <1>2, <2>1, <2>2 DEF Distinct, ToSet
<1> QED
  BY <1>6, <1>11, <1>12, <1>13 DEF t

LEMMA WithoutIs ==
  ASSUME NEW S, NEW s \in Seq(S), NEW x, Distinct(s)
  PROVE  /\ Without(s, x) \in Seq(S) /\ Distinct(Without(s, x))
         /\ ToSet(Without(s, x)) = ToSet(s) \ {x}
         /\ x \in ToSet(s) => Len(Without(s, x)) = Len(s) - 1
         /\ x \notin ToSet(s) => Without(s, x) = s
<1>1. CASE x \in ToSet(s)
  BY <1>1, RemovedFrom
<1>2. CASE x \notin ToSet(s)
  BY <1>2 DEF Without
<1> QED
  BY <1>1, <1>2

-----------------------------------------------------------------------------
(* What the functions of the object change.                                *)

Wires(p, q) == q.req = p.req /\ q.requests = p.requests /\ q.envelopes = p.envelopes /\ q.longpoll = p.longpoll
Words(p, q) == q.queue = p.queue /\ q.told = p.told /\ q.lost = p.lost /\ q.last = p.last
Calm(p, q)  == q.client = p.client /\ q.batch = p.batch /\ q.threw = p.threw /\ q.breaks = p.breaks
Plan(p, q)  == q.status = p.status /\ q.due = p.due /\ q.held = p.held

\* Only what is to be done next changes.
Moves(p, q) == q \in PageRec /\ Wires(p, q) /\ Words(p, q) /\ Calm(p, q)

LEMMA NoRequestIs == NoRequest \in Request /\ ~Busy(NoRequest) /\ NoRequest.msgs = <<>>
  BY EmptySeq DEF NoRequest, Request, Busy, Xhr

LEMMA PublishedIs ==
  ASSUME NEW msgs \in Seq(Msg)
  PROVE  Published(msgs) \subseteq Messages /\ (msgs = <<>> => Published(msgs) = {})
         /\ Published(msgs) = {m \in Messages : \E i \in 1..Len(msgs) : msgs[i].number = m}
<1>1. DOMAIN msgs = 1..Len(msgs) /\ \A i \in 1..Len(msgs) : msgs[i] \in Msg
  BY Members
<1>2. 0 \notin Messages
  BY CometdAssumption DEF Messages
<1>3. \A i \in 1..Len(msgs) : msgs[i].number \in Messages \cup {0}
  BY <1>1 DEF Msg
<1>4. msgs = <<>> => 1..Len(msgs) = {}
  BY EmptySeq
<1> QED
  BY <1>1, <1>2, <1>3, <1>4 DEF Published

LEMMA DelayedConnectIs ==
  ASSUME NEW p \in PageRec, NEW q, q = DelayedConnect(p)
  PROVE  Moves(p, q) /\ q.status = "connecting" /\ q.due = "connect" /\ q.held = p.held
         /\ q.advice = p.advice /\ q.backoff = p.backoff /\ q.why = p.why
  BY DEF DelayedConnect, PageRec, Phases, Moves, Wires, Words, Calm

LEMMA DelayedHandshakeIs ==
  ASSUME NEW p \in PageRec, NEW q, q = DelayedHandshake(p)
  PROVE  Moves(p, q) /\ q.status = "handshaking" /\ q.due = "handshake" /\ q.held
         /\ q.advice = p.advice /\ q.backoff = p.backoff /\ q.why = p.why
  BY DEF DelayedHandshake, PageRec, Phases, Moves, Wires, Words, Calm

LEMMA BackoffIs ==
  ASSUME NEW p \in PageRec, NEW q, q = IncreaseBackoff(p) \/ q = ResetBackoff(p)
  PROVE  Moves(p, q) /\ Plan(p, q) /\ q.advice = p.advice /\ q.why = p.why
<1>1. MaxBackoff \in Nat
  BY CometdAssumption
<1>2. CASE q = IncreaseBackoff(p)
  <2>1. p.backoff < MaxBackoff => p.backoff + 1 \in 0..MaxBackoff
    BY <1>1 DEF PageRec
  <2> QED
    BY <1>2, <2>1 DEF IncreaseBackoff, PageRec, Moves, Wires, Words, Calm, Plan
<1>3. CASE q = ResetBackoff(p)
  <2>1. 0 \in 0..MaxBackoff
    BY <1>1
  <2> QED
    BY <1>3, <2>1 DEF ResetBackoff, PageRec, Moves, Wires, Words, Calm, Plan
<1> QED
  BY <1>2, <1>3

LEMMA StatusIs ==
  ASSUME NEW p \in PageRec, NEW s \in Phases, NEW q, q = Status(p, s)
  PROVE  Moves(p, q) /\ q.status = s /\ q.due = p.due /\ q.held = p.held /\ q.advice = p.advice
         /\ q.backoff = p.backoff /\ q.why = p.why
  BY DEF Status, PageRec, Moves, Wires, Words, Calm

LEMMA BecauseIs ==
  ASSUME NEW p \in PageRec, NEW c \in Reasons, NEW q, q = Because(p, c)
  PROVE  Moves(p, q) /\ Plan(p, q) /\ q.advice = p.advice /\ q.why = p.why \cup {c}
  BY DEF Because, PageRec, Moves, Wires, Words, Calm, Plan

LEMMA HandshakeFailedIs ==
  ASSUME NEW p \in PageRec, NEW q, q = HandshakeFailed(p)
  PROVE  /\ Moves(p, q) /\ p.why \subseteq q.why /\ q.why \subseteq p.why \cup {"none"}
         /\ \/ q.status = "handshaking" /\ q.due = "handshake" /\ q.held
            \/ q.status = "disconnected" /\ q.due = p.due /\ q.held = p.held
<1>1. CASE ~Disconnected(p) /\ p.advice # "none"
  BY <1>1, BackoffIs, DelayedHandshakeIs DEF HandshakeFailed, Moves, Wires, Words, Calm
<1>2. CASE ~(~Disconnected(p) /\ p.advice # "none")
  <2>1. q = [p EXCEPT !.status = "disconnected", !.why = IF Disconnected(p) THEN @ ELSE @ \cup {"none"}]
    BY <1>2 DEF HandshakeFailed
  <2> DEFINE w == IF Disconnected(p) THEN p.why ELSE p.why \cup {"none"}
  <2>2. q = [p EXCEPT !.status = "disconnected", !.why = w]
    BY <2>1 DEF PageRec
  <2>3. p.why \subseteq w /\ w \subseteq p.why \cup {"none"} /\ w \in SUBSET Reasons
    BY DEF PageRec, Reasons
  <2> HIDE DEF w
  <2> QED
    BY ZenonT(60), <2>2, <2>3 DEF PageRec, Moves, Wires, Words, Calm, Phases
<1> QED
  BY <1>1, <1>2

LEMMA ConnectFailureIs ==
  ASSUME NEW p \in PageRec, NEW q, q = ConnectFailure(p)
  PROVE  /\ Moves(p, q) /\ p.why \subseteq q.why /\ q.why \subseteq p.why \cup {"none"}
         /\ Disconnected(p) => q = p
         /\ ~Disconnected(p) =>
              \/ q.status = "connecting" /\ q.due = "connect" /\ q.held = p.held
              \/ q.status = "handshaking" /\ q.due = "handshake" /\ q.held
              \/ Plan(p, q) /\ "none" \in q.why
<1>1. CASE Disconnected(p)
  BY <1>1 DEF ConnectFailure, Moves, Wires, Words, Calm
<1>2. CASE ~Disconnected(p)
  <2>1. CASE Action(p) = "retry"
    BY <1>2, <2>1, BackoffIs, DelayedConnectIs DEF ConnectFailure, Moves, Wires, Words, Calm, Plan
  <2>2. CASE Action(p) = "handshake"
    BY <1>2, <2>2, BackoffIs, DelayedHandshakeIs DEF ConnectFailure, Moves, Wires, Words, Calm, Plan
  <2>3. CASE Action(p) \notin {"retry", "handshake"}
    <3>1. q = Because(ResetBackoff(p), "none")
      BY <1>2, <2>3 DEF ConnectFailure
    <3> QED
      BY <1>2, <3>1, BackoffIs, BecauseIs DEF Moves, Wires, Words, Calm, Plan, Reasons
  <2> QED
    BY <2>1, <2>2, <2>3
<1> QED
  BY <1>1, <1>2

-----------------------------------------------------------------------------
(* What ends requests.                                                     *)

\* The state of a request may change, its messages stay.
Kept(a, b) == b.msgs = a.msgs /\ b.poll = a.poll /\ b.reply = a.reply

LEMMA XhrIs ==
  ASSUME NEW a \in Request, NEW x \in Xhr, NEW b, b = [a EXCEPT !.xhr = x]
  PROVE  b \in Request /\ Kept(a, b) /\ b.xhr = x /\ b.timer = a.timer
  BY DEF Request, Kept

\* The messages of the requests R.
Lost(p, R) == UNION {Published(p.req[r].msgs) : r \in R}

LEMMA LostIs ==
  ASSUME NEW p \in PageRec, NEW R \in SUBSET Slots
  PROVE  Lost(p, R) \subseteq Messages
<1>1. ASSUME NEW r \in R PROVE Published(p.req[r].msgs) \subseteq Messages
  <2>1. p.req[r].msgs \in Seq(Msg)
    BY DEF PageRec, Request
  <2> QED
    BY <2>1, PublishedIs
<1> QED
  BY <1>1 DEF Lost

\* Nothing is listed any more.
Emptied(p, q) ==
  /\ q \in PageRec /\ q.requests = <<>> /\ q.envelopes = <<>> /\ q.longpoll = 0
  /\ q.queue = p.queue /\ q.told = p.told /\ q.last = p.last
  /\ q.lost = p.lost \cup Lost(p, ToSet(p.envelopes))
  /\ Calm(p, q) /\ Plan(p, q) /\ q.why = p.why /\ q.advice = p.advice

LEMMA ResetIs ==
  ASSUME NEW p \in PageRec, NEW q, q = Reset(p)
  PROVE  /\ Emptied(p, q)
         /\ \A r \in Slots : /\ r \in ToSet(p.envelopes) => q.req[r] = NoRequest
                             /\ r \notin ToSet(p.envelopes) => q.req[r] = p.req[r]
<1> DEFINE dropped == ToSet(p.envelopes)
           req == [r \in Slots |-> IF r \in dropped THEN NoRequest ELSE p.req[r]]
           lost == p.lost \cup Lost(p, dropped)
<1>1. dropped \subseteq Slots
  BY Members DEF PageRec
<1>2. lost \in SUBSET Messages
  BY <1>1, LostIs DEF PageRec
<1>3. req \in [Slots -> Request]
  BY NoRequestIs DEF PageRec
<1>4. <<>> \in Seq(Slots)
  BY EmptySeq
<1>5. q = [p EXCEPT !.longpoll = 0, !.requests = <<>>, !.envelopes = <<>>, !.lost = lost, !.req = req]
  BY DEF Reset, Lost, PageRec
<1>6. \A r \in Slots : req[r] = IF r \in dropped THEN NoRequest ELSE p.req[r]
  OBVIOUS
<1> HIDE DEF req
<1>7. Emptied(p, q)
  <2> DEFINE all == lost
  <2>1. all \in SUBSET Messages /\ q = [p EXCEPT !.longpoll = 0, !.requests = <<>>, !.envelopes = <<>>, !.lost = all, !.req = req]
    BY <1>2, <1>5
  <2>2. all = p.lost \cup Lost(p, ToSet(p.envelopes))
    OBVIOUS
  <2> HIDE DEF all, lost
  <2> QED
    BY ZenonT(60), <1>3, <1>4, <2>1, <2>2 DEF PageRec, Emptied, Calm, Plan
<1>8. q.req = req
  BY <1>5 DEF PageRec
<1> QED
  BY <1>6, <1>7, <1>8

\* What abort() leaves of a request.
Aborted(p, r) ==
  IF r \in ToSet(p.envelopes) THEN NoRequest
  ELSE IF r \in ToSet(p.requests) \cup {p.longpoll} THEN [p.req[r] EXCEPT !.xhr = "none"] ELSE p.req[r]

LEMMA AbortAllIs ==
  ASSUME NEW p \in PageRec, NEW q, q = AbortAll(p)
  PROVE  Emptied(p, q) /\ \A r \in Slots : q.req[r] = Aborted(p, r)
<1> DEFINE out == ToSet(p.requests) \cup {p.longpoll}
           req == [r \in Slots |-> IF r \in out THEN [p.req[r] EXCEPT !.xhr = "none"] ELSE p.req[r]]
           s == [p EXCEPT !.req = req]
<1>1. ASSUME NEW r \in Slots PROVE [p.req[r] EXCEPT !.xhr = "none"] \in Request /\ [p.req[r] EXCEPT !.xhr = "none"].msgs = p.req[r].msgs
  <2>1. p.req[r] \in Request /\ "none" \in Xhr
    BY DEF PageRec, Xhr
  <2> QED
    BY <2>1, XhrIs DEF Kept
<1>2. req \in [Slots -> Request]
  BY <1>1 DEF PageRec
<1>3. \A r \in Slots : req[r] = IF r \in out THEN [p.req[r] EXCEPT !.xhr = "none"] ELSE p.req[r]
  OBVIOUS
<1>4. \A r \in Slots : req[r].msgs = p.req[r].msgs
  BY <1>1, <1>3
<1>5. q = Reset(s)
  BY DEF AbortAll
<1> HIDE DEF req
<1>6. /\ s \in PageRec /\ s.req = req /\ s.requests = p.requests /\ s.envelopes = p.envelopes
      /\ Words(p, s) /\ Calm(p, s) /\ Plan(p, s) /\ s.why = p.why /\ s.advice = p.advice
  BY <1>2 DEF PageRec, Words, Calm, Plan
<1> HIDE DEF s
<1>7. ToSet(p.envelopes) \subseteq Slots
  BY Members DEF PageRec
<1>8. Lost(s, ToSet(s.envelopes)) = Lost(p, ToSet(p.envelopes))
  BY <1>4, <1>6, <1>7 DEF Lost
<1>9. Emptied(s, q) /\ \A r \in Slots : /\ r \in ToSet(s.envelopes) => q.req[r] = NoRequest
                                        /\ r \notin ToSet(s.envelopes) => q.req[r] = s.req[r]
  BY <1>5, <1>6, ResetIs
<1>10. Emptied(p, q)
  BY <1>6, <1>8, <1>9 DEF Emptied, Words, Calm, Plan
<1>11. ASSUME NEW r \in Slots PROVE q.req[r] = Aborted(p, r)
  <2>1. r \in ToSet(p.envelopes) => q.req[r] = NoRequest
    BY <1>6, <1>9
  <2>2. r \notin ToSet(p.envelopes) => q.req[r] = req[r]
    BY <1>6, <1>9
  <2> QED
    BY <1>3, <2>1, <2>2 DEF Aborted
<1> QED
  BY <1>10, <1>11

LEMMA ClearBatchIs ==
  ASSUME NEW p \in PageRec, NEW q, q = [p EXCEPT !.batch = 0]
  PROVE  /\ q \in PageRec /\ q.batch = 0 /\ Wires(p, q) /\ Words(p, q) /\ Plan(p, q)
         /\ q.client = p.client /\ q.threw = p.threw /\ q.breaks = p.breaks /\ q.why = p.why /\ q.advice = p.advice
<1>1. q \in PageRec
  BY 0 \in Int DEF PageRec
<1> QED
  BY <1>1 DEF PageRec, Wires, Words, Plan

LEMMA DisconnectIs ==
  ASSUME NEW p \in PageRec, NEW abort \in BOOLEAN, NEW q, q = Disconnect(p, abort)
  PROVE  /\ q \in PageRec /\ q.status = "disconnected" /\ q.due = "none" /\ q.held = p.held
         /\ q.client = 0 /\ q.batch = 0 /\ q.threw = p.threw /\ q.breaks = p.breaks
         /\ q.queue = <<>> /\ q.told = p.told /\ q.last = p.last /\ q.why = p.why
         /\ abort => /\ q.lost = p.lost \cup Published(p.queue) \cup Lost(p, ToSet(p.envelopes))
                     /\ q.requests = <<>> /\ q.envelopes = <<>> /\ q.longpoll = 0
                     /\ \A r \in Slots : q.req[r] = Aborted(p, r)
         /\ ~abort => q.lost = p.lost \cup Published(p.queue) /\ Wires(p, q)
<1> DEFINE s == IF abort THEN AbortAll(p) ELSE p
           lost == s.lost \cup Published(p.queue)
           t == [s EXCEPT !.due = "none", !.client = 0, !.status = "disconnected", !.queue = <<>>, !.lost = lost]
<1>1. /\ s \in PageRec /\ Calm(p, s) /\ Plan(p, s) /\ s.why = p.why /\ s.told = p.told /\ s.last = p.last
      /\ abort => /\ s.lost = p.lost \cup Lost(p, ToSet(p.envelopes))
                  /\ s.requests = <<>> /\ s.envelopes = <<>> /\ s.longpoll = 0
                  /\ \A r \in Slots : s.req[r] = Aborted(p, r)
      /\ ~abort => s = p
  <2>1. CASE abort
    BY <2>1, AbortAllIs DEF Emptied
  <2>2. CASE ~abort
    BY <2>2 DEF Calm, Plan
  <2> QED
    BY <2>1, <2>2
<1>2. q = ClearBatch(ResetBackoff([s EXCEPT !.due = "none", !.client = 0, !.status = "disconnected",
                                            !.queue = <<>>, !.lost = @ \cup Published(p.queue)]))
  BY DEF Disconnect
<1> HIDE DEF s
<1>3. lost \in SUBSET Messages
  <2>1. p.queue \in Seq(Msg)
    BY DEF PageRec
  <2>2. Published(p.queue) \subseteq Messages
    BY <2>1, PublishedIs
  <2> QED
    BY <1>1, <2>2 DEF PageRec
<1>4. q = ClearBatch(ResetBackoff(t))
  BY <1>1, <1>2 DEF PageRec
<1>5. <<>> \in Seq(Msg)
  BY EmptySeq
<1>6. /\ abort => lost = p.lost \cup Published(p.queue) \cup Lost(p, ToSet(p.envelopes))
      /\ ~abort => lost = p.lost \cup Published(p.queue)
  BY <1>1
<1> HIDE DEF lost
<1>7. /\ t \in PageRec /\ t.status = "disconnected" /\ t.due = "none" /\ t.client = 0 /\ t.queue = <<>> /\ t.lost = lost
      /\ t.held = s.held /\ t.threw = s.threw /\ t.breaks = s.breaks
      /\ t.told = s.told /\ t.last = s.last /\ t.why = s.why /\ Wires(s, t)
  BY <1>1, <1>3, <1>5 DEF PageRec, Phases, Wires
<1> HIDE DEF t
<1> DEFINE u == ResetBackoff(t)
<1>8. Moves(t, u) /\ Plan(t, u) /\ u.why = t.why
  BY <1>7, BackoffIs
<1>9. u \in PageRec /\ q = [u EXCEPT !.batch = 0]
  BY <1>4, <1>8 DEF Moves, ClearBatch
<1> HIDE DEF u
<1>10. /\ q \in PageRec /\ q.batch = 0 /\ Wires(u, q) /\ Words(u, q) /\ Plan(u, q)
       /\ q.client = u.client /\ q.threw = u.threw /\ q.breaks = u.breaks /\ q.why = u.why
  BY <1>9, ClearBatchIs
<1> QED
  BY <1>1, <1>6, <1>7, <1>8, <1>10 DEF Moves, Wires, Words, Calm, Plan

-----------------------------------------------------------------------------
(* The messages of one request.                                            *)

Numbers(msgs, n) == {msgs[i].number : i \in 1..n}
TellAll(p, M) == [p EXCEPT !.told = [m \in Messages |-> IF m \in M THEN p.told[m] + 1 ELSE p.told[m]]]

LEMMA TellAllIs ==
  ASSUME NEW p \in PageRec, NEW M, NEW q, q = TellAll(p, M)
  PROVE  /\ q \in PageRec /\ Wires(p, q) /\ Calm(p, q) /\ Plan(p, q) /\ q.why = p.why /\ q.advice = p.advice
         /\ q.queue = p.queue /\ q.lost = p.lost /\ q.last = p.last
         /\ \A m \in Messages : /\ m \in M => q.told[m] = p.told[m] + 1
                                /\ m \notin M => q.told[m] = p.told[m]
<1> DEFINE told == [m \in Messages |-> IF m \in M THEN p.told[m] + 1 ELSE p.told[m]]
<1>1. p.told \in [Messages -> Nat]
  BY DEF PageRec
<1>2. told \in [Messages -> Nat]
  BY <1>1
<1>3. q = [p EXCEPT !.told = told]
  BY DEF TellAll
<1>4. \A m \in Messages : (m \in M => told[m] = p.told[m] + 1) /\ (m \notin M => told[m] = p.told[m])
  OBVIOUS
<1> HIDE DEF told
<1>5. q \in PageRec /\ q.told = told
  BY <1>2, <1>3 DEF PageRec
<1> QED
  BY <1>3, <1>4, <1>5 DEF PageRec, Wires, Calm, Plan

LEMMA TellNone ==
  ASSUME NEW p \in PageRec
  PROVE  TellAll(p, {}) = p
<1> DEFINE q == TellAll(p, {})
<1>1. q = [p EXCEPT !.told = [m \in Messages |-> p.told[m]]]
  BY DEF TellAll
<1>2. p.told = [m \in Messages |-> p.told[m]]
  BY DEF PageRec
<1> QED
  BY <1>1, <1>2 DEF PageRec

LEMMA TellOneMore ==
  ASSUME NEW p \in PageRec, NEW M, NEW m \in Messages, m \notin M
  PROVE  Tell(TellAll(p, M), m) = TellAll(p, M \cup {m})
<1> DEFINE a == [n \in Messages |-> IF n \in M THEN p.told[n] + 1 ELSE p.told[n]]
           b == [n \in Messages |-> IF n \in M \cup {m} THEN p.told[n] + 1 ELSE p.told[n]]
<1>1. TellAll(p, M) = [p EXCEPT !.told = a] /\ TellAll(p, M \cup {m}) = [p EXCEPT !.told = b]
  BY DEF TellAll
<1>2. [a EXCEPT ![m] = @ + 1] = b
  OBVIOUS
<1>3. [p EXCEPT !.told = a].told = a
  BY DEF PageRec
<1>4. Tell(TellAll(p, M), m) = [[p EXCEPT !.told = a] EXCEPT !.told = [a EXCEPT ![m] = @ + 1]]
  BY <1>1, <1>3 DEF Tell
<1> HIDE DEF a, b
<1>5. Tell(TellAll(p, M), m) = [[p EXCEPT !.told = a] EXCEPT !.told = b]
  BY <1>2, <1>4
<1> QED
  BY <1>1, <1>5 DEF PageRec

LEMMA BatchIs ==
  ASSUME NEW msgs \in Seq(Msg), Batch(msgs)
  PROVE  /\ Len(msgs) \in Nat \ {0} /\ DOMAIN msgs = 1..Len(msgs)
         /\ Numbers(msgs, 0) = {} /\ Numbers(msgs, Len(msgs)) = Published(msgs)
         /\ \A i \in 1..Len(msgs) :
              /\ msgs[i].what = "publish" /\ msgs[i].number \in Messages
              /\ msgs[i].number \notin Numbers(msgs, i - 1)
              /\ Numbers(msgs, i) = Numbers(msgs, i - 1) \cup {msgs[i].number}
         /\ Published(msgs) \subseteq Messages
<1>1. Len(msgs) \in Nat \ {0} /\ DOMAIN msgs = 1..Len(msgs)
  BY EmptySeq, Members DEF Batch
<1>2. \A i \in 1..Len(msgs) : msgs[i].what = "publish" /\ msgs[i].number \in Messages
  BY <1>1 DEF Batch
<1>3. Numbers(msgs, 0) = {}
  BY DEF Numbers
<1>4. 0 \notin Messages
  BY CometdAssumption DEF Messages
<1>5. Numbers(msgs, Len(msgs)) = Published(msgs)
  BY <1>1, <1>2, <1>4 DEF Numbers, Published
<1>6. ASSUME NEW i \in 1..Len(msgs) PROVE msgs[i].number \notin Numbers(msgs, i - 1)
  <2>1. SUFFICES ASSUME NEW j \in 1..i - 1, msgs[j].number = msgs[i].number PROVE FALSE
    BY DEF Numbers
  <2>2. j \in DOMAIN msgs /\ i \in DOMAIN msgs /\ j < i
    BY <1>1
  <2>3. msgs[j].number < msgs[i].number
    BY <2>2 DEF Batch
  <2>4. msgs[i].number \in Int
    BY <1>2, CometdAssumption DEF Messages
  <2> QED
    BY <2>1, <2>3, <2>4
<1>7. ASSUME NEW i \in 1..Len(msgs) PROVE Numbers(msgs, i) = Numbers(msgs, i - 1) \cup {msgs[i].number}
  <2>1. 1..i = (1..i - 1) \cup {i}
    BY <1>1
  <2> QED
    BY <2>1 DEF Numbers
<1>8. Published(msgs) \subseteq Messages
  BY PublishedIs
<1> QED
  BY <1>1, <1>2, <1>3, <1>5, <1>6, <1>7, <1>8

\* A request that failed: each of its messages has.
LEMMA FailureOfOne ==
  ASSUME NEW s, NEW msgs, Len(msgs) = 1,
         NEW f, f = CHOOSE g : g = [i \in 0..Len(msgs) |-> IF i = 0 THEN s ELSE Failure(g[i-1], msgs[i])]
  PROVE  f[Len(msgs)] = Failure(s, msgs[1])
<1> DEFINE h == [i \in 0..1 |-> IF i = 0 THEN s ELSE Failure(s, msgs[1])]
<1>1. \A i \in 0..1 : i = 0 \/ (i = 1 /\ i - 1 = 0)
  OBVIOUS
<1>2. h = [i \in 0..1 |-> IF i = 0 THEN s ELSE Failure(h[i-1], msgs[i])]
  BY <1>1
<1>3. f = [i \in 0..1 |-> IF i = 0 THEN s ELSE Failure(f[i-1], msgs[i])]
  BY <1>2
<1>4. f[0] = s /\ f[1] = Failure(f[0], msgs[1])
  BY <1>3
<1> QED
  BY <1>4

LEMMA FailureOfBatch ==
  ASSUME NEW s \in PageRec, NEW msgs \in Seq(Msg), Batch(msgs),
         NEW f, f = CHOOSE g : g = [i \in 0..Len(msgs) |-> IF i = 0 THEN s ELSE Failure(g[i-1], msgs[i])]
  PROVE  f[Len(msgs)] = TellAll(s, Published(msgs))
<1> DEFINE n == Len(msgs)
           h == [i \in 0..n |-> TellAll(s, Numbers(msgs, i))]
<1>1. n \in Nat \ {0}
  BY BatchIs
<1>2. ASSUME NEW i \in 1..n PROVE TellAll(s, Numbers(msgs, i)) = Failure(TellAll(s, Numbers(msgs, i - 1)), msgs[i])
  <2>1. /\ msgs[i].what = "publish" /\ msgs[i].number \in Messages /\ msgs[i].number \notin Numbers(msgs, i - 1)
        /\ Numbers(msgs, i) = Numbers(msgs, i - 1) \cup {msgs[i].number}
    BY BatchIs
  <2> QED
    BY <2>1, TellOneMore DEF Failure
<1>3. TellAll(s, Numbers(msgs, 0)) = s
  BY BatchIs, TellNone
<1>4. h = [i \in 0..n |-> IF i = 0 THEN s ELSE Failure(h[i-1], msgs[i])]
  <2>1. \A i \in 0..n : h[i] = TellAll(s, Numbers(msgs, i))
    OBVIOUS
  <2>2. \A i \in 0..n : i # 0 => i \in 1..n /\ i - 1 \in 0..n
    BY <1>1
  <2>3. \A i \in 0..n : h[i] = IF i = 0 THEN s ELSE Failure(h[i-1], msgs[i])
    BY <1>2, <1>3, <2>1, <2>2
  <2> QED
    BY <2>3
<1>5. f = [i \in 0..n |-> IF i = 0 THEN s ELSE Failure(f[i-1], msgs[i])]
  BY <1>4
<1> HIDE DEF n
<1>6. \A i \in 0..n : f[i] = TellAll(s, Numbers(msgs, i))
  <2> DEFINE S == {i \in 0..n : f[i] = TellAll(s, Numbers(msgs, i))}
  <2>1. 0 \in S
    <3>1. 0 \in 0..n
      BY <1>1
    <3>2. f[0] = s
      BY <1>5, <3>1
    <3> QED
      BY <1>3, <3>1, <3>2
  <2>2. ASSUME NEW i \in 1..n, i - 1 \in S PROVE i \in S
    <3>1. i \in 0..n /\ i # 0
      BY <1>1
    <3>2. f[i] = Failure(f[i-1], msgs[i])
      BY <1>5, <3>1
    <3> QED
      BY <1>2, <2>2, <3>1, <3>2
  <2> HIDE DEF S
  <2>3. \A i \in 0..n : i \in S
    BY <1>1, <2>1, <2>2, UpTo
  <2> QED
    BY <2>3 DEF S
<1>7. f[n] = TellAll(s, Numbers(msgs, n))
  BY <1>1, <1>6
<1> QED
  BY <1>7, BatchIs DEF n

\* An answer: the same.
LEMMA ReceiveOne ==
  ASSUME NEW s, NEW reply, Len(reply) = 1,
         NEW f, f = CHOOSE g : g = [i \in 0..Len(reply) |-> IF i = 0 THEN s ELSE Receive(g[i-1], reply[i])]
  PROVE  f[Len(reply)] = Receive(s, reply[1])
<1> DEFINE h == [i \in 0..1 |-> IF i = 0 THEN s ELSE Receive(s, reply[1])]
<1>1. \A i \in 0..1 : i = 0 \/ (i = 1 /\ i - 1 = 0)
  OBVIOUS
<1>2. h = [i \in 0..1 |-> IF i = 0 THEN s ELSE Receive(h[i-1], reply[i])]
  BY <1>1
<1>3. f = [i \in 0..1 |-> IF i = 0 THEN s ELSE Receive(f[i-1], reply[i])]
  BY <1>2
<1>4. f[0] = s /\ f[1] = Receive(f[0], reply[1])
  BY <1>3
<1> QED
  BY <1>4

LEMMA ReceiveBatch ==
  ASSUME NEW s \in PageRec, ~s.threw, NEW msgs \in Seq(Msg), Batch(msgs), NEW reply, Echoes(reply, msgs),
         NEW f, f = CHOOSE g : g = [i \in 0..Len(reply) |-> IF i = 0 THEN s ELSE Receive(g[i-1], reply[i])]
  PROVE  f[Len(reply)] = TellAll(s, Published(msgs))
<1> DEFINE n == Len(msgs)
           h == [i \in 0..n |-> TellAll(s, Numbers(msgs, i))]
<1>1. n \in Nat \ {0}
  BY BatchIs
<1>0. DOMAIN msgs = 1..n
  BY BatchIs
<1>2. ASSUME NEW i \in 1..n PROVE TellAll(s, Numbers(msgs, i)) = Receive(TellAll(s, Numbers(msgs, i - 1)), reply[i])
  <2>1. /\ msgs[i].what = "publish" /\ msgs[i].number \in Messages /\ msgs[i].number \notin Numbers(msgs, i - 1)
        /\ Numbers(msgs, i) = Numbers(msgs, i - 1) \cup {msgs[i].number}
    BY BatchIs
  <2>2. reply[i].what = "publish" /\ reply[i].number = msgs[i].number /\ reply[i].advice = ""
    BY <1>0, <2>1 DEF Echoes
  <2> DEFINE q == TellAll(s, Numbers(msgs, i - 1))
  <2>5. Calm(s, q)
    BY TellAllIs
  <2>3. ~q.threw
    BY <2>5 DEF Calm
  <2>4. Receive(TellAll(s, Numbers(msgs, i - 1)), reply[i]) = Tell(TellAll(s, Numbers(msgs, i - 1)), msgs[i].number)
    BY <2>2, <2>3 DEF Receive
  <2> QED
    BY <2>1, <2>4, TellOneMore
<1>3. TellAll(s, Numbers(msgs, 0)) = s
  BY BatchIs, TellNone
<1>4. h = [i \in 0..n |-> IF i = 0 THEN s ELSE Receive(h[i-1], reply[i])]
  <2>1. \A i \in 0..n : h[i] = TellAll(s, Numbers(msgs, i))
    OBVIOUS
  <2>2. \A i \in 0..n : i # 0 => i \in 1..n /\ i - 1 \in 0..n
    BY <1>1
  <2>3. \A i \in 0..n : h[i] = IF i = 0 THEN s ELSE Receive(h[i-1], reply[i])
    BY <1>2, <1>3, <2>1, <2>2
  <2> QED
    BY <2>3
<1>5. f = [i \in 0..n |-> IF i = 0 THEN s ELSE Receive(f[i-1], reply[i])]
  <2>1. Len(reply) = n
    BY DEF Echoes
  <2> QED
    BY <1>4, <2>1
<1> HIDE DEF n
<1>6. \A i \in 0..n : f[i] = TellAll(s, Numbers(msgs, i))
  <2> DEFINE S == {i \in 0..n : f[i] = TellAll(s, Numbers(msgs, i))}
  <2>1. 0 \in S
    <3>1. 0 \in 0..n
      BY <1>1
    <3>2. f[0] = s
      BY <1>5, <3>1
    <3> QED
      BY <1>3, <3>1, <3>2
  <2>2. ASSUME NEW i \in 1..n, i - 1 \in S PROVE i \in S
    <3>1. i \in 0..n /\ i # 0
      BY <1>1
    <3>2. f[i] = Receive(f[i-1], reply[i])
      BY <1>5, <3>1
    <3> QED
      BY <1>2, <2>2, <3>1, <3>2
  <2> HIDE DEF S
  <2>3. \A i \in 0..n : i \in S
    BY <1>1, <2>1, <2>2, UpTo
  <2> QED
    BY <2>3 DEF S
<1>7. f[n] = TellAll(s, Numbers(msgs, n))
  BY <1>1, <1>6
<1>8. Len(reply) = n
  BY DEF Echoes, n
<1> QED
  BY <1>7, <1>8, BatchIs DEF n

-----------------------------------------------------------------------------
(* A request that is over.                                                 *)

\* The long poll is another.
Clash(p, r) == p.req[r].poll /\ p.longpoll \notin {0, r}

\* There is no other.
OwnPoll(p, r) == p.req[r].poll /\ p.longpoll \in {0, r}

\* What ends a request leaves alone.
Same(p, q) == /\ q \in PageRec /\ q.req = p.req /\ q.envelopes = p.envelopes /\ Words(p, q) /\ Plan(p, q)
              /\ q.client = p.client /\ q.batch = p.batch /\ q.breaks = p.breaks /\ q.advice = p.advice

LEMMA LetGoPlain ==
  ASSUME NEW p \in PageRec, Distinct(p.requests), NEW r \in Slots, ~p.req[r].poll, NEW q, q = LetGo(p, r)
  PROVE  /\ Same(p, q) /\ q.threw = p.threw /\ q.longpoll = p.longpoll /\ q.requests = Without(p.requests, r)
         /\ r \in ToSet(p.requests) => q.why = p.why
         /\ r \notin ToSet(p.requests) => q.why = p.why \cup {"stray"}
<1> DEFINE w == IF r \in ToSet(p.requests) THEN p.why ELSE p.why \cup {"stray"}
<1>1. w \in SUBSET Reasons
  BY DEF PageRec, Reasons
<1>2. Without(p.requests, r) \in Seq(Slots)
  BY WithoutIs DEF PageRec
<1>3. q = [p EXCEPT !.requests = Without(p.requests, r), !.why = w]
  BY DEF LetGo, PageRec
<1>4. (r \in ToSet(p.requests) => w = p.why) /\ (r \notin ToSet(p.requests) => w = p.why \cup {"stray"})
  OBVIOUS
<1> HIDE DEF w
<1> QED
  BY ZenonT(60), <1>1, <1>2, <1>3, <1>4 DEF PageRec, Words, Plan, Same

LEMMA LetGoPoll ==
  ASSUME NEW p \in PageRec, NEW r \in Slots, OwnPoll(p, r), NEW q, q = LetGo(p, r)
  PROVE  /\ Same(p, q) /\ q.requests = p.requests /\ q.longpoll = 0 /\ q.threw = p.threw
         /\ p.longpoll = r => q.why = p.why
         /\ p.longpoll # r => q.why = p.why \cup {"stray"}
<1> DEFINE v == IF p.longpoll = r THEN p.why ELSE p.why \cup {"stray"}
<1>1. v \in SUBSET Reasons
  BY DEF PageRec, Reasons
<1>2. q = [p EXCEPT !.longpoll = 0, !.why = v]
  BY DEF LetGo, PageRec, OwnPoll
<1>3. (p.longpoll = r => v = p.why) /\ (p.longpoll # r => v = p.why \cup {"stray"})
  OBVIOUS
<1> HIDE DEF v
<1> QED
  BY ZenonT(60), <1>1, <1>2, <1>3 DEF PageRec, Words, Plan, Same

LEMMA LetGoClash ==
  ASSUME NEW p \in PageRec, NEW r \in Slots, Clash(p, r), NEW q, q = LetGo(p, r)
  PROVE  /\ Same(p, q) /\ q.requests = p.requests /\ q.longpoll = p.longpoll /\ q.threw = TRUE /\ q.why = p.why
<1>1. q = [p EXCEPT !.threw = TRUE]
  BY DEF LetGo, Throw, Clash
<1> QED
  BY ZenonT(60), <1>1 DEF PageRec, Words, Plan, Same

LEMMA LetGoIs ==
  ASSUME NEW p \in PageRec, Distinct(p.requests), NEW r \in Slots, NEW q, q = LetGo(p, r)
  PROVE  /\ Same(p, q) /\ p.why \subseteq q.why /\ q.why \subseteq p.why \cup {"stray"}
         /\ Clash(p, r) => q.threw = TRUE
         /\ ~Clash(p, r) => q.threw = p.threw
<1>1. CASE ~p.req[r].poll
  BY <1>1, LetGoPlain DEF Clash
<1>2. CASE OwnPoll(p, r)
  BY <1>2, LetGoPoll DEF Clash, OwnPoll
<1>3. CASE Clash(p, r)
  BY <1>3, LetGoClash
<1> QED
  BY <1>1, <1>2, <1>3 DEF Clash, OwnPoll

LEMMA GiveUpNextIs ==
  ASSUME NEW p \in PageRec, NEW q, q = GiveUpNext(p)
  PROVE  /\ p.envelopes = <<>> => q = p
         /\ p.envelopes # <<>> =>
              /\ q \in PageRec /\ q.requests = p.requests /\ q.longpoll = p.longpoll
              /\ q.envelopes = Tail(p.envelopes) /\ q.why = p.why \cup {"stray"}
              /\ Words(p, q) /\ Calm(p, q) /\ Plan(p, q) /\ q.advice = p.advice
              /\ q.req[Head(p.envelopes)] = [p.req[Head(p.envelopes)] EXCEPT !.xhr = "failing"]
              /\ \A r \in Slots \ {Head(p.envelopes)} : q.req[r] = p.req[r]
<1>1. CASE p.envelopes = <<>>
  BY <1>1 DEF GiveUpNext
<1>2. CASE p.envelopes # <<>>
  <2> DEFINE e == Head(p.envelopes)
             req == [p.req EXCEPT ![e].xhr = "failing"]
  <2>1. e \in Slots /\ Tail(p.envelopes) \in Seq(Slots)
    BY <1>2, TailOf DEF PageRec
  <2>2. req[e] = [p.req[e] EXCEPT !.xhr = "failing"] /\ \A r \in Slots \ {e} : req[r] = p.req[r]
    BY <2>1 DEF PageRec
  <2>3. req \in [Slots -> Request]
    <3>1. p.req[e] \in Request /\ "failing" \in Xhr
      BY <2>1 DEF PageRec, Xhr
    <3>2. [p.req[e] EXCEPT !.xhr = "failing"] \in Request
      BY <3>1, XhrIs
    <3> QED
      BY <2>1, <3>2 DEF PageRec
  <2>4. q = [p EXCEPT !.envelopes = Tail(p.envelopes), !.req = req, !.why = p.why \cup {"stray"}]
    BY <1>2 DEF GiveUpNext, PageRec
  <2>5. p.why \cup {"stray"} \in SUBSET Reasons
    BY DEF PageRec, Reasons
  <2> HIDE DEF req, e
  <2>6. /\ q \in PageRec /\ q.requests = p.requests /\ q.longpoll = p.longpoll
        /\ q.envelopes = Tail(p.envelopes) /\ q.why = p.why \cup {"stray"}
        /\ Words(p, q) /\ Calm(p, q) /\ Plan(p, q) /\ q.advice = p.advice /\ q.req = req
    BY ZenonT(60), <2>1, <2>3, <2>4, <2>5 DEF PageRec, Words, Calm, Plan
  <2> QED
    BY <1>2, <2>2, <2>6 DEF e
<1> QED
  BY <1>1, <1>2

\* What is made of the failure of msgs.
Reports(p, q, msgs) ==
  \/ OneMeta(msgs, "handshake")  /\ q = HandshakeFailed(p)
  \/ OneMeta(msgs, "connect")    /\ q = ConnectFailure(p)
  \/ OneMeta(msgs, "disconnect") /\ q = Disconnect(p, TRUE)
  \/ Batch(msgs) /\ q = TellAll(p, Published(msgs))

Dropped(p, r) == IF p.req[r].poll THEN LetGo(p, r) ELSE GiveUpNext(LetGo(p, r))

LEMMA DroppedType ==
  ASSUME NEW p \in PageRec, Distinct(p.requests), NEW r \in Slots
  PROVE  Dropped(p, r) \in PageRec
<1> DEFINE g == LetGo(p, r)
<1>1. g \in PageRec
  BY LetGoIs DEF Same
<1> HIDE DEF g
<1>2. GiveUpNext(g) \in PageRec
  BY <1>1, GiveUpNextIs
<1> QED
  BY <1>1, <1>2 DEF Dropped, g

LEMMA HandleFailureIs ==
  ASSUME NEW p \in PageRec, Distinct(p.requests), NEW r \in Slots, Formed(p.req[r]), NEW q, q = HandleFailure(p, r)
  PROVE  /\ LetGo(p, r).threw => q = LetGo(p, r)
         /\ ~LetGo(p, r).threw => Reports(Dropped(p, r), q, p.req[r].msgs)
<1> DEFINE s == Dropped(p, r)
           msgs == p.req[r].msgs
           f == CHOOSE g : g = [i \in 0..Len(msgs) |-> IF i = 0 THEN s ELSE Failure(g[i-1], msgs[i])]
<1>1. q = IF LetGo(p, r).threw THEN LetGo(p, r) ELSE f[Len(msgs)]
  BY DEF HandleFailure, Dropped
<1>2. msgs \in Seq(Msg)
  BY DEF PageRec, Request
<1>3. s \in PageRec
  BY DroppedType
<1>4. OneMeta(msgs, "handshake") \/ OneMeta(msgs, "connect") \/ OneMeta(msgs, "disconnect") \/ Batch(msgs)
  BY DEF Formed
<1> HIDE DEF s, msgs
<1>5. CASE Batch(msgs)
  BY <1>1, <1>2, <1>3, <1>5, FailureOfBatch DEF Reports, s, msgs
<1>6. ASSUME NEW w \in {"handshake", "connect", "disconnect"}, OneMeta(msgs, w)
      PROVE  f[Len(msgs)] = Failure(s, msgs[1]) /\ msgs[1].what = w
  BY <1>6, FailureOfOne DEF OneMeta
<1>7. CASE OneMeta(msgs, "handshake")
  <2>0. f[Len(msgs)] = Failure(s, msgs[1]) /\ msgs[1].what = "handshake"
    BY <1>6, <1>7
  <2> HIDE DEF f
  <2>1. f[Len(msgs)] = HandshakeFailed(s)
    BY <2>0 DEF Failure
  <2> QED
    BY <1>1, <1>7, <2>1 DEF Reports, s, msgs, f
<1>8. CASE OneMeta(msgs, "connect")
  <2>0. f[Len(msgs)] = Failure(s, msgs[1]) /\ msgs[1].what = "connect"
    BY <1>6, <1>8
  <2> HIDE DEF f
  <2>1. f[Len(msgs)] = ConnectFailure(s)
    BY <2>0 DEF Failure
  <2> QED
    BY <1>1, <1>8, <2>1 DEF Reports, s, msgs, f
<1>9. CASE OneMeta(msgs, "disconnect")
  <2>0. f[Len(msgs)] = Failure(s, msgs[1]) /\ msgs[1].what = "disconnect"
    BY <1>6, <1>9
  <2> HIDE DEF f
  <2>1. f[Len(msgs)] = Disconnect(s, TRUE)
    BY <2>0 DEF Failure
  <2> QED
    BY <1>1, <1>9, <2>1 DEF Reports, s, msgs, f
<1> QED
  BY <1>4, <1>5, <1>7, <1>8, <1>9

-----------------------------------------------------------------------------
(* The requests stay in order.                                             *)

LEMMA WType == ASSUME NEW p, NEW h, W(p, h) PROVE p \in PageRec /\ Distinct(p.requests)
  BY DEF W

LEMMA WSame ==
  ASSUME NEW p, NEW h, W(p, h), NEW q \in PageRec, Wires(p, q), q.queue = p.queue, p.why \subseteq q.why
  PROVE  W(q, h)
  BY DEF W, Wires, Listed

LEMMA WLetGo ==
  ASSUME NEW p, NEW h \in Slots, W(p, h), NEW q, q = LetGo(p, h)
  PROVE  W(q, h) /\ (Clash(p, h) => W(q, 0)) /\ (~Clash(p, h) => Loose(q, h))
<1>1. p \in PageRec /\ Distinct(p.requests) /\ p.requests \in Seq(Slots) /\ p.req[h].poll \in BOOLEAN
  BY DEF W, PageRec, Request
<1>2. q \in PageRec /\ q.req = p.req /\ q.envelopes = p.envelopes /\ q.queue = p.queue /\ p.why \subseteq q.why
  <2>1. Same(p, q) /\ p.why \subseteq q.why
    BY <1>1, LetGoIs
  <2> QED
    BY <2>1 DEF Words, Same
<1>3. 0 \notin Slots /\ h # 0
  BY CometdAssumption
<1>4. h \notin ToSet(p.envelopes)
  BY DEF W
<1>5. CASE ~p.req[h].poll
  <2>1. q.requests = Without(p.requests, h) /\ q.longpoll = p.longpoll
    BY <1>1, <1>5, LetGoPlain
  <2>2. /\ Distinct(q.requests) /\ ToSet(q.requests) = ToSet(p.requests) \ {h}
        /\ h \in ToSet(p.requests) => Len(q.requests) = Len(p.requests) - 1
        /\ h \notin ToSet(p.requests) => q.requests = p.requests
    BY <1>1, <2>1, WithoutIs
  <2>3. Len(p.requests) \in Nat /\ MaxConnections \in Nat
    BY <1>1, Members, CometdAssumption
  <2>4. Len(q.requests) < MaxConnections
    BY <2>2, <2>3 DEF W
  <2>5. W(q, h)
    BY <1>2, <2>1, <2>2, <2>4 DEF W, Listed
  <2>6. p.longpoll # h
    BY <1>3, <1>5 DEF W
  <2>7. Loose(q, h)
    BY <1>2, <1>4, <2>1, <2>2, <2>6 DEF Loose
  <2> QED
    BY <1>5, <2>5, <2>7 DEF Clash
<1>6. CASE p.req[h].poll /\ p.longpoll \in {0, h}
  <2>1. q.requests = p.requests /\ q.longpoll = 0
    <3>1. OwnPoll(p, h)
      BY <1>6 DEF OwnPoll
    <3> QED
      BY <1>1, <3>1, LetGoPoll
  <2>2. W(q, h)
    BY <1>2, <2>1 DEF W, Listed
  <2>3. h \notin ToSet(p.requests)
    BY <1>6 DEF W, Listed
  <2>4. Loose(q, h)
    BY <1>2, <1>3, <1>4, <2>1, <2>3 DEF Loose
  <2> QED
    BY <1>6, <2>2, <2>4 DEF Clash
<1>7. CASE p.req[h].poll /\ p.longpoll \notin {0, h}
  <2>1. q.requests = p.requests /\ q.longpoll = p.longpoll
    BY <1>1, <1>7, LetGoClash DEF Clash
  <2>2. W(q, h)
    BY <1>2, <2>1 DEF W, Listed
  <2>3. ToSet(q.envelopes) \subseteq Slots
    BY <1>2, Members DEF PageRec
  <2>4. W(q, 0)
    BY <1>3, <1>7, <2>1, <2>2, <2>3 DEF W
  <2> QED
    BY <1>7, <2>2, <2>4 DEF Clash
<1> QED
  BY <1>1, <1>5, <1>6, <1>7

LEMMA WGiveUpNext ==
  ASSUME NEW p, NEW h, W(p, h), NEW q, q = GiveUpNext(p)
  PROVE  W(q, h) /\ (Loose(p, h) => Loose(q, h)) /\ q.requests = p.requests /\ q.longpoll = p.longpoll
<1>1. CASE p.envelopes = <<>>
  BY <1>1, GiveUpNextIs, WType
<1>2. CASE p.envelopes # <<>>
  <2> DEFINE e == Head(p.envelopes)
  <2>1. p \in PageRec /\ p.envelopes \in Seq(Slots) /\ Distinct(p.envelopes)
    BY DEF W, PageRec
  <2>2. /\ e \in Slots /\ e \in ToSet(p.envelopes) /\ e \notin ToSet(q.envelopes)
        /\ ToSet(q.envelopes) \subseteq ToSet(p.envelopes) /\ Distinct(q.envelopes)
    <3>1. q.envelopes = Tail(p.envelopes)
      BY <1>2, <2>1, GiveUpNextIs
    <3> QED
      BY <1>2, <2>1, <3>1, TailOf
  <2>3. /\ q \in PageRec /\ q.requests = p.requests /\ q.longpoll = p.longpoll /\ q.queue = p.queue
        /\ p.why \subseteq q.why
        /\ q.req[e] = [p.req[e] EXCEPT !.xhr = "failing"] /\ \A r \in Slots \ {e} : q.req[r] = p.req[r]
    BY <1>2, <2>1, GiveUpNextIs DEF Words
  <2>4. e # h /\ p.req[e].xhr = "waiting" /\ ~p.req[e].poll
    BY <2>2 DEF W, Listed
  <2>5. p.req[e] \in Request /\ "failing" \in Xhr
    BY <2>1, <2>2 DEF PageRec, Xhr
  <2>6. Kept(p.req[e], q.req[e]) /\ q.req[e].xhr = "failing"
    BY <2>2, <2>3, <2>5, XhrIs
  <2>7. \A r \in Slots \ {e} : q.req[r] = p.req[r]
    BY <2>3
  <2>8. Busy(p.req[e]) /\ Busy(q.req[e])
    BY <2>4, <2>6 DEF Busy
  <2>9. Formed(q.req[e])
    BY <2>2, <2>6, <2>8 DEF W, Formed, Kept
  <2>10. ToSet(p.requests) \subseteq Slots /\ ToSet(p.envelopes) \subseteq Slots /\ e \notin ToSet(p.requests)
    BY <2>1, <2>2, Members DEF W, PageRec
  <2> HIDE DEF e
  <2>11. \A r \in ToSet(q.envelopes) : r # h /\ q.req[r].xhr = "waiting" /\ ~q.req[r].timer
    BY <2>2, <2>7, <2>10 DEF W
  <2>12. \A r \in Listed(q) : ~q.req[r].poll
    BY <2>2, <2>3, <2>7, <2>10 DEF W, Listed
  <2>13. \A r \in Slots : Busy(q.req[r]) \/ r = h => Formed(q.req[r])
    BY <2>4, <2>7, <2>9 DEF W
  <2>14. q.longpoll # 0 => q.req[q.longpoll].poll /\ (Busy(q.req[q.longpoll]) \/ "garbled" \in q.why \/ q.longpoll = h)
    <3>1. p.longpoll # 0 => p.longpoll \in Slots /\ p.longpoll # e
      BY <2>1, <2>4 DEF PageRec, W
    <3> QED
      BY <2>3, <2>7, <3>1 DEF W
  <2>15. W(q, h)
    BY <2>2, <2>3, <2>11, <2>12, <2>13, <2>14 DEF W
  <2> QED
    BY <2>2, <2>3, <2>15 DEF Loose
<1> QED
  BY <1>1, <1>2

LEMMA AbortedIs ==
  ASSUME NEW p \in PageRec, NEW r \in Slots
  PROVE  /\ Aborted(p, r) = NoRequest \/ (Kept(p.req[r], Aborted(p, r)) /\ Aborted(p, r).timer = p.req[r].timer
                                           /\ Aborted(p, r).xhr \in {p.req[r].xhr, "none"})
         /\ Busy(Aborted(p, r)) => Busy(p.req[r]) /\ r \notin ToSet(p.envelopes)
         /\ r \notin ToSet(p.envelopes) /\ Busy(p.req[r]) /\ p.req[r].xhr = "none" => Busy(Aborted(p, r))
         /\ r \notin Listed(p) \cup {p.longpoll} => Aborted(p, r) = p.req[r]
<1>1. p.req[r] \in Request /\ "none" \in Xhr
  BY DEF PageRec, Xhr
<1> DEFINE b == [p.req[r] EXCEPT !.xhr = "none"]
<1>2. Kept(p.req[r], b) /\ b.xhr = "none" /\ b.timer = p.req[r].timer
  BY <1>1, XhrIs
<1>3. ~Busy(NoRequest)
  BY NoRequestIs
<1>4. CASE r \in ToSet(p.envelopes)
  BY <1>3, <1>4 DEF Aborted, Listed
<1>5. CASE r \notin ToSet(p.envelopes) /\ r \in ToSet(p.requests) \cup {p.longpoll}
  <2>1. Aborted(p, r) = b
    BY <1>5 DEF Aborted
  <2> HIDE DEF b
  <2> QED
    BY <1>2, <1>5, <2>1 DEF Busy, Listed
<1>6. CASE r \notin ToSet(p.envelopes) /\ r \notin ToSet(p.requests) \cup {p.longpoll}
  <2>1. Aborted(p, r) = p.req[r]
    BY <1>6 DEF Aborted
  <2> QED
    BY <1>6, <2>1 DEF Kept, Listed
<1> QED
  BY <1>4, <1>5, <1>6

LEMMA WDisconnect ==
  ASSUME NEW p, NEW h, W(p, h), NEW abort \in BOOLEAN, NEW q, q = Disconnect(p, abort)
  PROVE  W(q, h) /\ (Loose(p, h) => Loose(q, h)) /\ Len(q.requests) <= Len(p.requests)
<1>1. /\ p \in PageRec /\ p.requests \in Seq(Slots) /\ Len(p.requests) \in Nat
      /\ MaxConnections \in Nat \ {0, 1}
  BY Members, CometdAssumption DEF W, PageRec
<1>2. /\ q \in PageRec /\ q.queue = <<>> /\ q.why = p.why
      /\ abort => /\ q.requests = <<>> /\ q.envelopes = <<>> /\ q.longpoll = 0
                  /\ \A r \in Slots : q.req[r] = Aborted(p, r)
      /\ ~abort => Wires(p, q)
  BY <1>1, DisconnectIs
<1>3. CASE ~abort
  <2>1. Wires(p, q)
    BY <1>2, <1>3
  <2>2. W(q, h)
    BY <1>2, <2>1 DEF W, Wires, Listed
  <2> QED
    BY <1>1, <2>1, <2>2 DEF Wires, Loose
<1>4. CASE abort
  <2>1. /\ Len(q.requests) = 0 /\ Distinct(q.requests) /\ Distinct(q.envelopes)
        /\ ToSet(q.requests) = {} /\ ToSet(q.envelopes) = {}
    BY <1>2, <1>4, EmptyList
  <2>2. ASSUME NEW r \in Slots, Busy(q.req[r]) \/ r = h PROVE Formed(q.req[r])
    <3>1. q.req[r] = Aborted(p, r)
      BY <1>2, <1>4
    <3>2. r \notin ToSet(p.envelopes)
      <4>1. CASE r = h
        BY <4>1 DEF W
      <4>2. CASE Busy(q.req[r])
        BY <1>1, <3>1, <4>2, AbortedIs
      <4> QED
        BY <2>2, <4>1, <4>2
    <3>3. Formed(p.req[r])
      <4>1. Busy(q.req[r]) => Busy(p.req[r])
        BY <1>1, <3>1, AbortedIs
      <4> QED
        BY <2>2, <4>1 DEF W
    <3>4. Aborted(p, r) = p.req[r] \/ Aborted(p, r) = [p.req[r] EXCEPT !.xhr = "none"]
      BY <3>2 DEF Aborted
    <3>5. CASE Aborted(p, r) = p.req[r]
      BY <3>1, <3>3, <3>5
    <3>6. CASE Aborted(p, r) = [p.req[r] EXCEPT !.xhr = "none"]
      <4>1. p.req[r] \in Request /\ "none" \in Xhr
        BY <1>1 DEF PageRec, Xhr
      <4>2. Kept(p.req[r], q.req[r]) /\ q.req[r].xhr = "none"
        BY <3>1, <3>6, <4>1, XhrIs
      <4> QED
        BY <3>3, <4>2 DEF Formed, Kept
    <3> QED
      BY <3>4, <3>5, <3>6
  <2>3. q.longpoll = 0 /\ (q.queue = <<>> \/ Batch(q.queue)) /\ Listed(q) = {}
    BY <1>2, <1>4, <2>1 DEF Listed
  <2>4. Len(q.requests) < MaxConnections /\ Len(q.requests) <= Len(p.requests)
    BY <1>1, <2>1
  <2>5. q \in PageRec
    BY <1>2
  <2>6. W(q, h)
    BY <2>1, <2>2, <2>3, <2>4, <2>5 DEF W
  <2>7. Loose(q, h)
    BY <2>1, <2>3 DEF Loose
  <2> QED
    BY <2>4, <2>6, <2>7
<1> QED
  BY <1>3, <1>4

LEMMA WReports ==
  ASSUME NEW p, NEW h, W(p, h), NEW msgs, NEW q, Reports(p, q, msgs)
  PROVE  W(q, h) /\ (Loose(p, h) => Loose(q, h)) /\ Len(q.requests) <= Len(p.requests)
<1>1. p \in PageRec /\ Len(p.requests) \in Nat
  BY Members DEF W, PageRec
<1>2. CASE q \in PageRec /\ Wires(p, q) /\ q.queue = p.queue /\ p.why \subseteq q.why
  <2>1. W(q, h)
    BY <1>2, WSame
  <2> QED
    BY <1>1, <1>2, <2>1 DEF Wires, Loose
<1>3. CASE q = HandshakeFailed(p)
  BY <1>1, <1>2, <1>3, HandshakeFailedIs DEF Moves, Words
<1>4. CASE q = ConnectFailure(p)
  BY <1>1, <1>2, <1>4, ConnectFailureIs DEF Moves, Words
<1>5. CASE q = Disconnect(p, TRUE)
  BY <1>5, WDisconnect
<1>6. CASE q = TellAll(p, Published(msgs))
  <2> DEFINE M == Published(msgs)
  <2>0. q = TellAll(p, M) /\ p \in PageRec
    BY <1>1, <1>6
  <2> HIDE DEF M
  <2>1. q \in PageRec /\ Wires(p, q) /\ q.queue = p.queue /\ q.why = p.why
    BY <2>0, TellAllIs
  <2> QED
    BY <1>2, <2>1
<1> QED
  BY <1>3, <1>4, <1>5, <1>6 DEF Reports

-----------------------------------------------------------------------------
(* Sending.                                                                *)

\* The number of the last message that has left the page.
Sent(p, r) == IF Published(p.req[r].msgs) = {} THEN p.last ELSE Last(p.req[r].msgs).number

LEMMA SentIs ==
  ASSUME NEW p \in PageRec, NEW r \in Slots
  PROVE  /\ Sent(p, r) \in Messages \cup {0}
         /\ Published(p.req[r].msgs) = {} => Sent(p, r) = p.last
         /\ Published(p.req[r].msgs) # {} =>
              Len(p.req[r].msgs) \in Nat \ {0} /\ Sent(p, r) = p.req[r].msgs[Len(p.req[r].msgs)].number
<1> DEFINE msgs == p.req[r].msgs
<1>1. msgs \in Seq(Msg) /\ p.last \in Messages \cup {0}
  BY DEF PageRec, Request
<1> HIDE DEF msgs
<1>2. Published(msgs) # {} => Len(msgs) \in Nat \ {0} /\ msgs[Len(msgs)] \in Msg
  <2>1. Published(msgs) # {} => msgs # <<>>
    BY <1>1, PublishedIs
  <2>2. msgs # <<>> => Len(msgs) \in Nat \ {0}
    BY <1>1, EmptySeq
  <2>3. Len(msgs) \in Nat \ {0} => msgs[Len(msgs)] \in Msg
    BY <1>1, ElementOfSeq
  <2> QED
    BY <2>1, <2>2, <2>3
<1>3. Published(msgs) # {} => Last(msgs).number \in Messages \cup {0}
  BY <1>2 DEF Last, Msg
<1> QED
  BY <1>1, <1>2, <1>3 DEF Sent, Last, msgs

\* The request is on its way, or will be when the timer is set.
Launched(p, q, r, x) ==
  /\ q \in PageRec /\ q.requests = p.requests /\ q.envelopes = p.envelopes /\ q.longpoll = p.longpoll
  /\ q.req[r] \in Request /\ Kept(p.req[r], q.req[r]) /\ q.req[r].xhr = x /\ q.req[r].timer = TRUE
  /\ \A s \in Slots \ {r} : q.req[s] = p.req[s]
  /\ q.queue = p.queue /\ q.told = p.told /\ q.lost = p.lost
  /\ Calm(p, q) /\ Plan(p, q) /\ q.advice = p.advice

Launch(p, r, x, l) == [p EXCEPT !.req[r].xhr = x, !.req[r].timer = TRUE, !.last = l]

LEMMA LaunchedIs ==
  ASSUME NEW p \in PageRec, NEW r \in Slots, NEW x \in Xhr, NEW l \in Messages \cup {0},
         NEW q, q = Launch(p, r, x, l)
  PROVE  Launched(p, q, r, x) /\ q.last = l /\ q.why = p.why
<1> DEFINE b == [p.req[r] EXCEPT !.xhr = x, !.timer = TRUE]
           req == [p.req EXCEPT ![r] = b]
<1>1. p.req[r] \in Request /\ p.req \in [Slots -> Request]
  BY DEF PageRec
<1>2. b \in Request /\ Kept(p.req[r], b) /\ b.xhr = x /\ b.timer = TRUE
  BY <1>1 DEF Request, Kept
<1>3. q = [p EXCEPT !.req = req, !.last = l]
  BY <1>1 DEF PageRec, Request, Launch
<1> HIDE DEF b
<1>4. req \in [Slots -> Request] /\ req[r] = b /\ \A s \in Slots \ {r} : req[s] = p.req[s]
  BY <1>1, <1>2
<1> HIDE DEF req
<1>5. q \in PageRec /\ q.req = req /\ q.last = l /\ q.why = p.why /\ q.requests = p.requests /\ q.envelopes = p.envelopes
      /\ q.longpoll = p.longpoll /\ q.queue = p.queue /\ q.told = p.told /\ q.lost = p.lost
      /\ Calm(p, q) /\ Plan(p, q) /\ q.advice = p.advice
  BY ZenonT(60), <1>3, <1>4 DEF PageRec, Calm, Plan
<1> QED
  BY <1>2, <1>4, <1>5 DEF Launched

LEMMA GiveUpNextKeeps ==
  ASSUME NEW p \in PageRec, NEW q, q = GiveUpNext(p)
  PROVE  /\ q \in PageRec /\ q.requests = p.requests /\ q.longpoll = p.longpoll
         /\ Words(p, q) /\ Calm(p, q) /\ Plan(p, q) /\ q.advice = p.advice
         /\ p.why \subseteq q.why /\ q.why \subseteq p.why \cup {"stray"}
         /\ \A r \in Slots : r \notin ToSet(p.envelopes) => q.req[r] = p.req[r]
<1>1. CASE p.envelopes = <<>>
  <2>1. q = p
    BY <1>1, GiveUpNextIs
  <2> QED
    BY <2>1 DEF Words, Calm, Plan
<1>2. CASE p.envelopes # <<>>
  <2> DEFINE e == Head(p.envelopes)
  <2>1. /\ q \in PageRec /\ q.requests = p.requests /\ q.longpoll = p.longpoll
        /\ q.why = p.why \cup {"stray"}
        /\ Words(p, q) /\ Calm(p, q) /\ Plan(p, q) /\ q.advice = p.advice
    BY <1>2, GiveUpNextIs
  <2>3. \A r \in Slots \ {e} : q.req[r] = p.req[r]
    <3>1. q.req = [p.req EXCEPT ![e].xhr = "failing"]
      BY <1>2 DEF GiveUpNext, PageRec
    <3> QED
      BY <3>1 DEF PageRec
  <2>2. e \in ToSet(p.envelopes)
    <3>1. p.envelopes \in Seq(Slots)
      BY DEF PageRec
    <3> QED
      BY <1>2, <3>1, TailOf
  <2> HIDE DEF e
  <2> QED
    BY <2>1, <2>2, <2>3
<1> QED
  BY <1>1, <1>2

Unbroken(p) == [p EXCEPT !.breaks = FALSE]

LEMMA UnbrokenIs ==
  ASSUME NEW p \in PageRec, NEW q, q = Unbroken(p)
  PROVE  /\ q \in PageRec /\ Wires(p, q) /\ Words(p, q) /\ Plan(p, q) /\ q.why = p.why /\ q.advice = p.advice
         /\ q.client = p.client /\ q.batch = p.batch /\ q.threw = p.threw
  BY DEF Unbroken, PageRec, Wires, Words, Plan

\* A request that is about to be sent.
Ready(p, r) == W(p, r) /\ Loose(p, r) /\ r \in Slots /\ ~p.threw /\ (p.req[r].poll => p.longpoll = 0)

\* The send throws: its failure is reported at once.
LEMMA FailsAtOnce ==
  ASSUME NEW p, NEW r, Ready(p, r), NEW s, s = Unbroken(p), NEW g, g = Dropped(s, r), NEW f, f = HandleFailure(s, r)
  PROVE  /\ W(s, r) /\ ~Clash(s, r) /\ W(LetGo(s, r), r) /\ Loose(LetGo(s, r), r) /\ W(g, r) /\ Loose(g, r)
         /\ Reports(g, f, p.req[r].msgs) /\ W(f, r) /\ Loose(f, r)
         /\ Len(f.requests) <= Len(p.requests) /\ f.req[r] = p.req[r]
<1>1. /\ p \in PageRec /\ r \in Slots /\ W(p, r) /\ Loose(p, r) /\ p.threw \in BOOLEAN /\ ~p.threw
      /\ (p.req[r].poll => p.longpoll = 0) /\ p.requests \in Seq(Slots)
  BY DEF Ready, W, PageRec
<1>2. /\ s \in PageRec /\ Wires(p, s) /\ s.queue = p.queue /\ s.why = p.why /\ s.threw = p.threw
  BY <1>1, UnbrokenIs DEF Words
<1>3. W(s, r) /\ Loose(s, r)
  BY <1>1, <1>2, WSame DEF Loose, Wires
<1>4. Distinct(s.requests) /\ Formed(s.req[r])
  BY <1>1, <1>3 DEF W
<1>5. ~Clash(s, r)
  BY <1>1, <1>2 DEF Clash, Wires
<1> DEFINE t == LetGo(s, r)
<1>6. W(t, r) /\ Loose(t, r)
  BY <1>1, <1>3, <1>5, WLetGo
<1>7. Same(s, t) /\ t.threw = s.threw
  BY <1>1, <1>2, <1>4, <1>5, LetGoIs
<1>8. t.req = p.req /\ ~t.threw
  BY <1>1, <1>2, <1>7 DEF Same, Wires
<1>9. Len(t.requests) = Len(p.requests)
  <2>1. CASE ~s.req[r].poll
    <3>1. t.requests = Without(s.requests, r) /\ r \notin ToSet(s.requests)
      BY <1>1, <1>2, <1>3, <1>4, <2>1, LetGoPlain DEF Loose
    <3>2. t.requests = s.requests
      BY <3>1 DEF Without
    <3> QED
      BY <1>2, <3>2 DEF Wires
  <2>2. CASE s.req[r].poll
    <3>1. OwnPoll(s, r)
      BY <1>1, <1>2, <2>2 DEF OwnPoll, Wires
    <3>2. t.requests = s.requests
      BY <1>1, <1>2, <3>1, LetGoPoll
    <3> QED
      BY <1>2, <3>2 DEF Wires
  <2> QED
    BY <2>1, <2>2
<1>10. Reports(g, f, p.req[r].msgs)
  <2>1. Reports(g, f, s.req[r].msgs)
    BY <1>1, <1>2, <1>4, <1>8, HandleFailureIs
  <2> QED
    BY <1>2, <2>1 DEF Wires
<1> HIDE DEF t
<1>11. W(g, r) /\ Loose(g, r) /\ g.requests = t.requests
  <2>1. g = t \/ g = GiveUpNext(t)
    BY DEF Dropped, t
  <2>2. CASE g = t
    BY <1>6, <2>2
  <2>3. CASE g = GiveUpNext(t)
    BY <1>6, <2>3, WGiveUpNext
  <2> QED
    BY <2>1, <2>2, <2>3
<1>12. g.req[r] = p.req[r]
  <2>1. t \in PageRec
    BY <1>6 DEF W
  <2>2. r \notin ToSet(t.envelopes)
    BY <1>6 DEF Loose
  <2>3. CASE g = t
    BY <1>8, <2>3
  <2>4. CASE g = GiveUpNext(t)
    BY <1>1, <1>8, <2>1, <2>2, <2>4, GiveUpNextKeeps
  <2> QED
    BY <2>3, <2>4 DEF Dropped, t
<1>13. W(f, r) /\ Loose(f, r) /\ Len(f.requests) <= Len(g.requests)
  BY <1>10, <1>11, WReports
<1>14. f.req[r] = g.req[r]
  <2>1. g \in PageRec
    BY <1>11 DEF W
  <2>2. CASE f = HandshakeFailed(g)
    BY <2>1, <2>2, HandshakeFailedIs DEF Moves, Wires
  <2>3. CASE f = ConnectFailure(g)
    BY <2>1, <2>3, ConnectFailureIs DEF Moves, Wires
  <2>4. CASE f = Disconnect(g, TRUE)
    <3>0. TRUE \in BOOLEAN
      OBVIOUS
    <3>3. \A x \in Slots : f.req[x] = Aborted(g, x)
      BY ZenonT(60), <2>1, <2>4, <3>0, DisconnectIs
    <3>1. f.req[r] = Aborted(g, r)
      BY <1>1, <3>3
    <3>2. r \notin Listed(g) \cup {g.longpoll}
      BY <1>1, <1>11, CometdAssumption DEF Loose, Listed
    <3> QED
      BY <1>1, <2>1, <3>1, <3>2, AbortedIs
  <2>5. CASE \E M : f = TellAll(g, M)
    BY <2>1, <2>5, TellAllIs DEF Wires
  <2> QED
    BY <1>10, <2>2, <2>3, <2>4, <2>5 DEF Reports
<1> QED
  BY <1>3, <1>5, <1>6, <1>9, <1>10, <1>11, <1>12, <1>13, <1>14 DEF t

LEMMA ReportsSent ==
  ASSUME NEW p \in PageRec, NEW msgs, NEW q, Reports(p, q, msgs)
  PROVE  q \in PageRec /\ q.last = p.last /\ q.threw = p.threw /\ q.breaks = p.breaks /\ p.why \subseteq q.why
         /\ q.why \subseteq p.why \cup {"none"}
<1>1. CASE q = HandshakeFailed(p)
  BY <1>1, HandshakeFailedIs DEF Moves, Words, Calm
<1>2. CASE q = ConnectFailure(p)
  BY <1>2, ConnectFailureIs DEF Moves, Words, Calm
<1>3. CASE q = Disconnect(p, TRUE)
  BY ZenonT(60), <1>3, DisconnectIs
<1>4. CASE \E M : q = TellAll(p, M)
  BY <1>4, TellAllIs DEF Calm
<1> QED
  BY <1>1, <1>2, <1>3, <1>4 DEF Reports

LEMMA DroppedSent ==
  ASSUME NEW p \in PageRec, Distinct(p.requests), NEW r \in Slots, NEW q, q = Dropped(p, r)
  PROVE  q \in PageRec /\ q.last = p.last /\ q.breaks = p.breaks /\ p.why \subseteq q.why /\ q.why \subseteq p.why \cup {"stray"}
         /\ (~Clash(p, r) => q.threw = p.threw)
<1> DEFINE g == LetGo(p, r)
<1>1. Same(p, g) /\ p.why \subseteq g.why /\ g.why \subseteq p.why \cup {"stray"} /\ (~Clash(p, r) => g.threw = p.threw)
  BY LetGoIs
<1>2. q = g \/ q = GiveUpNext(g)
  BY DEF Dropped
<1> HIDE DEF g
<1>3. g \in PageRec /\ g.last = p.last /\ g.breaks = p.breaks
  BY <1>1 DEF Same, Words
<1>4. CASE q = g
  BY <1>1, <1>3, <1>4
<1>5. CASE q = GiveUpNext(g)
  <2>1. q \in PageRec /\ q.last = g.last /\ q.breaks = g.breaks /\ q.threw = g.threw /\ g.why \subseteq q.why /\ q.why \subseteq g.why \cup {"stray"}
    BY <1>3, <1>5, GiveUpNextKeeps DEF Words, Calm
  <2> QED
    BY <1>1, <1>3, <2>1
<1> QED
  BY <1>2, <1>4, <1>5

\* What becomes of the rest of the object while requests end.
Shrinks(p, q) ==
  /\ q.client \in {p.client, 0} /\ q.batch \in {p.batch, 0} /\ q.queue \in {p.queue, <<>>}
  /\ q.longpoll \in {p.longpoll, 0}

LEMMA ReportsShrinks ==
  ASSUME NEW p \in PageRec, NEW msgs, NEW q, Reports(p, q, msgs)
  PROVE  Shrinks(p, q)
<1>1. CASE q = HandshakeFailed(p)
  BY <1>1, HandshakeFailedIs DEF Moves, Words, Calm, Wires, Shrinks
<1>2. CASE q = ConnectFailure(p)
  BY <1>2, ConnectFailureIs DEF Moves, Words, Calm, Wires, Shrinks
<1>3. CASE q = Disconnect(p, TRUE)
  BY ZenonT(60), <1>3, DisconnectIs DEF Shrinks
<1>4. CASE \E M : q = TellAll(p, M)
  BY <1>4, TellAllIs DEF Calm, Wires, Shrinks
<1> QED
  BY <1>1, <1>2, <1>3, <1>4 DEF Reports

LEMMA DroppedShrinks ==
  ASSUME NEW p \in PageRec, Distinct(p.requests), NEW r \in Slots, NEW q, q = Dropped(p, r)
  PROVE  Shrinks(p, q) /\ (p.req[r].poll /\ ~Clash(p, r) => q.longpoll = 0)
<1> DEFINE g == LetGo(p, r)
<1>1. Same(p, g)
  BY LetGoIs
<1>2. g.longpoll \in {p.longpoll, 0} /\ (p.req[r].poll /\ ~Clash(p, r) => g.longpoll = 0)
  <2>1. CASE ~p.req[r].poll
    BY <2>1, LetGoPlain
  <2>2. CASE OwnPoll(p, r)
    BY <2>2, LetGoPoll
  <2>3. CASE Clash(p, r)
    BY <2>3, LetGoClash
  <2> QED
    BY <2>1, <2>2, <2>3 DEF OwnPoll, Clash
<1>3. (p.req[r].poll /\ q = g) \/ (~p.req[r].poll /\ q = GiveUpNext(g))
  BY DEF Dropped
<1> HIDE DEF g
<1>4. g \in PageRec /\ Shrinks(p, g)
  BY <1>1, <1>2 DEF Same, Words, Shrinks
<1>5. CASE q = g
  BY <1>2, <1>3, <1>4, <1>5
<1>6. CASE q = GiveUpNext(g) /\ ~p.req[r].poll
  <2>1. Words(g, q) /\ Calm(g, q) /\ q.longpoll = g.longpoll
    BY <1>4, <1>6, GiveUpNextKeeps
  <2> QED
    BY <1>4, <1>6, <2>1 DEF Shrinks, Words, Calm
<1> QED
  BY <1>3, <1>5, <1>6

LEMMA SendWorks ==
  ASSUME NEW p, NEW r, Ready(p, r), ~p.breaks, NEW q, q = TransportSend(p, r)
  PROVE  Launched(p, q, r, "open") /\ q.last = Sent(p, r) /\ q.why = p.why
<1>1. p \in PageRec /\ r \in Slots
  BY DEF Ready, W
<1>2. q = [p EXCEPT !.req[r].xhr = "open", !.req[r].timer = TRUE, !.last = Sent(p, r)]
  BY DEF TransportSend, Sent
<1>3. PICK l \in Messages \cup {0} : l = Sent(p, r)
  BY <1>1, SentIs
<1>4. "open" \in Xhr /\ q = Launch(p, r, "open", l)
  BY <1>2, <1>3 DEF Xhr, OnWire, Launch
<1>5. Launched(p, q, r, "open") /\ q.last = l /\ q.why = p.why
  BY <1>1, <1>4, LaunchedIs
<1> QED
  BY <1>3, <1>5

LEMMA SendThrows ==
  ASSUME NEW p, NEW r, Ready(p, r), p.breaks, NEW q, q = TransportSend(p, r), NEW f, f = HandleFailure(Unbroken(p), r)
  PROVE  /\ Launched(f, q, r, "none") /\ q.last = Sent(p, r) /\ ~f.threw /\ f \in PageRec
         /\ p.why \subseteq q.why /\ "throws" \in q.why /\ q.why \subseteq p.why \cup {"none", "throws"}
         /\ f.why \subseteq q.why \cup {"stray"} /\ Shrinks(p, f) /\ (p.req[r].poll => f.longpoll = 0)
<1> DEFINE s == Unbroken(p)
           g == Dropped(s, r)
<1>1. p \in PageRec /\ r \in Slots /\ ~p.threw /\ p.why \subseteq Reasons
  BY DEF Ready, W, PageRec
<1>2. s \in PageRec /\ s.why = p.why /\ s.threw = p.threw /\ Wires(p, s) /\ Words(p, s)
      /\ s.client = p.client /\ s.batch = p.batch
  BY <1>1, UnbrokenIs
<1>3. W(s, r) /\ ~Clash(s, r) /\ W(g, r) /\ Reports(g, f, p.req[r].msgs) /\ W(f, r)
  BY FailsAtOnce
<1>4. Distinct(s.requests) /\ g \in PageRec /\ f \in PageRec
  BY <1>3, WType
<1> HIDE DEF s
<1>18. g \in PageRec /\ g.last = s.last /\ s.why \subseteq g.why
  BY <1>1, <1>2, <1>3, <1>4, DroppedSent
<1>5. p.why \subseteq g.why /\ g.why \subseteq p.why \cup {"stray"} /\ g.threw = p.threw
  BY <1>1, <1>2, <1>3, <1>4, DroppedSent
<1>6. Shrinks(s, g) /\ (p.req[r].poll => g.longpoll = 0)
  BY <1>1, <1>2, <1>3, <1>4, DroppedShrinks DEF Wires
<1> HIDE DEF g
<1>7. /\ f.threw = g.threw /\ g.why \subseteq f.why /\ f.why \subseteq g.why \cup {"none"} /\ Shrinks(g, f)
  BY <1>3, <1>4, ReportsSent, ReportsShrinks
<1>8. Shrinks(p, f) /\ (p.req[r].poll => f.longpoll = 0)
  BY <1>2, <1>6, <1>7 DEF Shrinks, Wires, Words
<1> DEFINE w == (f.why \ ({"stray"} \ p.why)) \cup {"throws"}
           c == [f EXCEPT !.threw = FALSE, !.why = w]
<1>9. q = [c EXCEPT !.req[r].xhr = "none", !.req[r].timer = TRUE, !.last = Sent(p, r)]
  <2>1. f = HandleFailure([p EXCEPT !.breaks = FALSE], r)
    BY DEF Unbroken
  <2>2. q = [[Caught(f) EXCEPT !.why = (@ \ ({"stray"} \ p.why)) \cup {"throws"}] EXCEPT
               !.req[r].xhr = "none", !.req[r].timer = TRUE,
               !.last = IF Published(p.req[r].msgs) = {} THEN @ ELSE Last(p.req[r].msgs).number]
    BY <2>1 DEF TransportSend
  <2>3. [Caught(f) EXCEPT !.why = (@ \ ({"stray"} \ p.why)) \cup {"throws"}] = c
    BY <1>4 DEF Caught, PageRec
  <2>4. c.last = f.last
    BY <1>4 DEF PageRec
  <2>5. f.last = p.last
    <3>1. s.last = p.last
      BY <1>2 DEF Words
    <3>2. g.last = s.last
      BY <1>18
    <3>3. f.last = g.last
      BY <1>3, <1>4, ReportsSent
    <3> QED
      BY <3>1, <3>2, <3>3
  <2> HIDE DEF c
  <2> QED
    BY <2>2, <2>3, <2>4, <2>5 DEF Sent
<1>10. w \in SUBSET Reasons
  BY <1>4 DEF PageRec, Reasons
<1>11. /\ p.why \subseteq w /\ "throws" \in w /\ w \subseteq p.why \cup {"none", "throws"} /\ f.why \subseteq w \cup {"stray"}
  BY <1>5, <1>7
<1> HIDE DEF w
<1>12. /\ c \in PageRec /\ c.why = w /\ Wires(f, c) /\ Words(f, c) /\ Plan(f, c) /\ c.client = f.client
       /\ c.batch = f.batch /\ c.breaks = f.breaks /\ c.threw = FALSE /\ c.advice = f.advice
  BY ZenonT(60), <1>4, <1>10 DEF PageRec, Wires, Words, Plan
<1> HIDE DEF c
<1>13. PICK l \in Messages \cup {0} : l = Sent(p, r)
  BY <1>1, SentIs
<1>17. "none" \in Xhr /\ q = Launch(c, r, "none", l)
  BY <1>9, <1>13 DEF Xhr, Launch
<1>14. Launched(c, q, r, "none") /\ q.last = Sent(p, r) /\ q.why = c.why
  <2>1. Launched(c, q, r, "none") /\ q.last = l /\ q.why = c.why
    BY <1>1, <1>12, <1>17, LaunchedIs
  <2> QED
    BY <1>13, <2>1
<1>15. f.threw = FALSE
  BY <1>1, <1>4, <1>5, <1>7 DEF PageRec
<1>16. Launched(f, q, r, "none")
  <2>1. c.req = f.req /\ c.requests = f.requests /\ c.envelopes = f.envelopes /\ c.longpoll = f.longpoll
        /\ c.queue = f.queue /\ c.told = f.told /\ c.lost = f.lost /\ c.advice = f.advice
    BY <1>12 DEF Wires, Words
  <2>2. Calm(f, q) /\ Plan(f, q)
    BY <1>12, <1>14, <1>15 DEF Calm, Plan, Launched
  <2> QED
    BY <1>14, <2>1, <2>2 DEF Launched
<1> QED
  BY <1>4, <1>8, <1>11, <1>12, <1>14, <1>15, <1>16

LEMMA WLaunched ==
  ASSUME NEW p, NEW r \in Slots, W(p, r), Loose(p, r), NEW x \in {"open", "none"}, NEW q, Launched(p, q, r, x),
         "garbled" \in p.why => "garbled" \in q.why
  PROVE  W(q, 0) /\ Loose(q, r) /\ Busy(q.req[r]) /\ Kept(p.req[r], q.req[r])
<1>1. 0 \notin Slots /\ p \in PageRec
  BY CometdAssumption DEF W
<1>2. /\ q \in PageRec /\ q.requests = p.requests /\ q.envelopes = p.envelopes /\ q.longpoll = p.longpoll
      /\ q.queue = p.queue /\ \A s \in Slots \ {r} : q.req[s] = p.req[s]
      /\ Kept(p.req[r], q.req[r]) /\ q.req[r].xhr = x /\ q.req[r].timer = TRUE
  BY DEF Launched
<1>3. Busy(q.req[r])
  BY <1>2 DEF Busy
<1>4. Loose(q, r)
  BY <1>2 DEF Loose
<1>5. Formed(q.req[r])
  <2>1. Formed(p.req[r])
    BY DEF W
  <2> QED
    BY <1>2, <2>1 DEF Formed, Kept
<1>6. ToSet(p.requests) \subseteq Slots \ {r} /\ ToSet(p.envelopes) \subseteq Slots \ {r} /\ p.longpoll \in (Slots \cup {0}) \ {r}
  BY <1>1, Members DEF PageRec, Loose
<1>7. \A s \in ToSet(q.envelopes) : s # 0 /\ q.req[s].xhr = "waiting" /\ ~q.req[s].timer
  BY <1>1, <1>2, <1>6 DEF W
<1>8. \A s \in Listed(q) : ~q.req[s].poll
  BY <1>2, <1>6 DEF W, Listed
<1>9. \A s \in Slots : Busy(q.req[s]) \/ s = 0 => Formed(q.req[s])
  BY <1>1, <1>2, <1>5 DEF W
<1>10. q.longpoll # 0 => q.req[q.longpoll].poll /\ (Busy(q.req[q.longpoll]) \/ "garbled" \in q.why \/ q.longpoll = 0)
  BY <1>2, <1>6 DEF W
<1>11. W(q, 0)
  BY <1>2, <1>7, <1>8, <1>9, <1>10 DEF W
<1> QED
  BY <1>2, <1>3, <1>4, <1>11

LEMMA WTransportSend ==
  ASSUME NEW p, NEW r, Ready(p, r), NEW q, q = TransportSend(p, r)
  PROVE  /\ W(q, 0) /\ Loose(q, r) /\ Busy(q.req[r]) /\ Kept(p.req[r], q.req[r]) /\ ~q.threw
         /\ Len(q.requests) <= Len(p.requests) /\ Shrinks(p, q)
         /\ p.why \subseteq q.why /\ (p.req[r].poll => q.longpoll = 0)
<1>1. /\ W(p, r) /\ Loose(p, r) /\ r \in Slots /\ p.threw \in BOOLEAN /\ ~p.threw /\ (p.req[r].poll => p.longpoll = 0)
      /\ p.breaks \in BOOLEAN /\ Len(p.requests) \in Nat
  BY Members DEF Ready, W, PageRec
<1>2. CASE ~p.breaks
  <2>1. Launched(p, q, r, "open") /\ q.why = p.why
    BY <1>2, SendWorks
  <2>2. W(q, 0) /\ Loose(q, r) /\ Busy(q.req[r]) /\ Kept(p.req[r], q.req[r])
    BY <1>1, <2>1, WLaunched
  <2> QED
    BY <1>1, <2>1, <2>2 DEF Launched, Calm, Shrinks
<1>3. CASE p.breaks
  <2> DEFINE f == HandleFailure(Unbroken(p), r)
  <2>1. /\ W(f, r) /\ Loose(f, r) /\ Len(f.requests) <= Len(p.requests) /\ f.req[r] = p.req[r]
    BY FailsAtOnce
  <2>2. /\ Launched(f, q, r, "none") /\ ~f.threw /\ p.why \subseteq q.why /\ f.why \subseteq q.why \cup {"stray"}
        /\ Shrinks(p, f) /\ (p.req[r].poll => f.longpoll = 0)
    BY <1>3, SendThrows
  <2> HIDE DEF f
  <2>3. "garbled" \in f.why => "garbled" \in q.why
    BY <2>2
  <2>4. W(q, 0) /\ Loose(q, r) /\ Busy(q.req[r]) /\ Kept(f.req[r], q.req[r])
    BY <1>1, <2>1, <2>2, <2>3, WLaunched
  <2>5. ~q.threw /\ q.requests = f.requests /\ q.client = f.client /\ q.batch = f.batch /\ q.queue = f.queue /\ q.longpoll = f.longpoll
    BY <2>2 DEF Launched, Calm
  <2>6. Shrinks(p, q)
    BY <2>2, <2>5 DEF Shrinks
  <2> QED
    BY <2>1, <2>2, <2>4, <2>5, <2>6
<1> QED
  BY <1>1, <1>2, <1>3

-----------------------------------------------------------------------------
(* A request joins its list.                                               *)

LEMMA WLoose ==
  ASSUME NEW p, NEW h, W(p, h), Loose(p, h), h # 0
  PROVE  W(p, 0)
<1>1. 0 \notin Slots /\ p \in PageRec
  BY CometdAssumption DEF W
<1>2. ToSet(p.envelopes) \subseteq Slots
  BY <1>1, Members DEF PageRec
<1> QED
  BY <1>1, <1>2 DEF W, Loose

Enlisted(p, r)  == [p EXCEPT !.requests = Append(p.requests, r)]
Polling(p, r)   == [p EXCEPT !.longpoll = r]
Enveloped(p, r) == [p EXCEPT !.envelopes = Append(p.envelopes, r), !.req[r].xhr = "waiting"]

LEMMA EnlistedIs ==
  ASSUME NEW p \in PageRec, NEW r \in Slots, NEW q, q = Enlisted(p, r)
  PROVE  /\ q \in PageRec /\ q.requests = Append(p.requests, r)
         /\ q.req = p.req /\ q.envelopes = p.envelopes /\ q.longpoll = p.longpoll
         /\ Words(p, q) /\ Calm(p, q) /\ Plan(p, q) /\ q.why = p.why /\ q.advice = p.advice
<1>1. Append(p.requests, r) \in Seq(Slots)
  BY Appended DEF PageRec
<1> QED
  BY <1>1 DEF Enlisted, PageRec, Words, Calm, Plan

LEMMA PollingIs ==
  ASSUME NEW p \in PageRec, NEW r \in Slots, NEW q, q = Polling(p, r)
  PROVE  /\ q \in PageRec /\ q.longpoll = r
         /\ q.req = p.req /\ q.envelopes = p.envelopes /\ q.requests = p.requests
         /\ Words(p, q) /\ Calm(p, q) /\ Plan(p, q) /\ q.why = p.why /\ q.advice = p.advice
  BY DEF Polling, PageRec, Words, Calm, Plan

LEMMA EnvelopedIs ==
  ASSUME NEW p \in PageRec, NEW r \in Slots, NEW q, q = Enveloped(p, r)
  PROVE  /\ q \in PageRec /\ q.envelopes = Append(p.envelopes, r)
         /\ q.req[r] \in Request /\ Kept(p.req[r], q.req[r]) /\ q.req[r].xhr = "waiting" /\ q.req[r].timer = p.req[r].timer
         /\ \A s \in Slots \ {r} : q.req[s] = p.req[s]
         /\ q.requests = p.requests /\ q.longpoll = p.longpoll
         /\ Words(p, q) /\ Calm(p, q) /\ Plan(p, q) /\ q.why = p.why /\ q.advice = p.advice
<1> DEFINE b == [p.req[r] EXCEPT !.xhr = "waiting"]
           req == [p.req EXCEPT ![r] = b]
           env == Append(p.envelopes, r)
<1>1. p.req[r] \in Request /\ "waiting" \in Xhr /\ p.req \in [Slots -> Request]
  BY DEF PageRec, Xhr
<1>2. b \in Request /\ Kept(p.req[r], b) /\ b.xhr = "waiting" /\ b.timer = p.req[r].timer
  BY <1>1, XhrIs
<1>3. env \in Seq(Slots)
  BY Appended DEF PageRec
<1>4. q = [p EXCEPT !.envelopes = env, !.req = req]
  BY <1>1 DEF Enveloped, PageRec
<1> HIDE DEF b
<1>5. req \in [Slots -> Request] /\ req[r] = b /\ \A s \in Slots \ {r} : req[s] = p.req[s]
  BY <1>1, <1>2
<1>6. env = Append(p.envelopes, r)
  OBVIOUS
<1> HIDE DEF req, env
<1>7. /\ q \in PageRec /\ q.envelopes = env /\ q.req = req
      /\ q.requests = p.requests /\ q.longpoll = p.longpoll
      /\ Words(p, q) /\ Calm(p, q) /\ Plan(p, q) /\ q.why = p.why /\ q.advice = p.advice
  BY ZenonT(60), <1>3, <1>4, <1>5 DEF PageRec, Words, Calm, Plan
<1> QED
  BY <1>2, <1>5, <1>6, <1>7

LEMMA WEnlisted ==
  ASSUME NEW p, NEW r \in Slots, W(p, 0), Loose(p, r), ~p.req[r].poll, Len(p.requests) < MaxConnections - 1,
         NEW q, q = Enlisted(p, r)
  PROVE  W(q, 0)
<1>1. p \in PageRec /\ p.requests \in Seq(Slots) /\ Len(p.requests) \in Nat /\ MaxConnections \in Nat
  BY Members, CometdAssumption DEF W, PageRec
<1>2. /\ q \in PageRec /\ q.requests = Append(p.requests, r)
      /\ q.req = p.req /\ q.envelopes = p.envelopes /\ q.longpoll = p.longpoll
      /\ q.queue = p.queue /\ q.why = p.why
  BY <1>1, EnlistedIs DEF Words
<1>3. Len(q.requests) = Len(p.requests) + 1 /\ ToSet(q.requests) = ToSet(p.requests) \cup {r} /\ Distinct(q.requests)
  BY <1>1, <1>2, Appended DEF W, Loose
<1>4. Len(q.requests) < MaxConnections
  BY <1>1, <1>3
<1>5. ToSet(q.requests) \cap ToSet(q.envelopes) = {}
  BY <1>2, <1>3 DEF W, Loose
<1>6. \A s \in Listed(q) : ~q.req[s].poll
  BY <1>2, <1>3 DEF W, Listed
<1> QED
  BY <1>2, <1>3, <1>4, <1>5, <1>6 DEF W

LEMMA WPolling ==
  ASSUME NEW p, NEW r \in Slots, W(p, 0), p.req[r].poll, Busy(p.req[r]), NEW q, q = Polling(p, r)
  PROVE  W(q, 0)
<1>1. p \in PageRec
  BY DEF W
<1>2. /\ q \in PageRec /\ q.longpoll = r /\ q.req = p.req /\ q.envelopes = p.envelopes /\ q.requests = p.requests
      /\ q.queue = p.queue /\ q.why = p.why
  BY <1>1, PollingIs DEF Words
<1> QED
  BY <1>2 DEF W, Listed

LEMMA WEnveloped ==
  ASSUME NEW p, NEW r \in Slots, W(p, r), Loose(p, r), ~p.req[r].poll, ~p.req[r].timer,
         NEW q, q = Enveloped(p, r)
  PROVE  W(q, 0)
<1>1. p \in PageRec /\ p.envelopes \in Seq(Slots) /\ 0 \notin Slots
  BY CometdAssumption DEF W, PageRec
<1>2. /\ q \in PageRec /\ q.envelopes = Append(p.envelopes, r)
      /\ Kept(p.req[r], q.req[r]) /\ q.req[r].xhr = "waiting" /\ q.req[r].timer = p.req[r].timer
      /\ q.requests = p.requests /\ q.longpoll = p.longpoll
      /\ q.queue = p.queue /\ q.why = p.why
  <2>1. Words(p, q) /\ q.why = p.why /\ q \in PageRec /\ q.envelopes = Append(p.envelopes, r)
        /\ q.requests = p.requests /\ q.longpoll = p.longpoll
    BY ZenonT(60), <1>1, EnvelopedIs
  <2>2. Kept(p.req[r], q.req[r]) /\ q.req[r].xhr = "waiting" /\ q.req[r].timer = p.req[r].timer
    BY <1>1, EnvelopedIs
  <2> QED
    BY <2>1, <2>2 DEF Words
<1>3. \A s \in Slots \ {r} : q.req[s] = p.req[s]
  BY <1>1, EnvelopedIs
<1>4. ToSet(q.envelopes) = ToSet(p.envelopes) \cup {r} /\ Distinct(q.envelopes)
  BY <1>1, <1>2, Appended DEF W, Loose
<1>5. ToSet(p.requests) \subseteq Slots \ {r} /\ ToSet(p.envelopes) \subseteq Slots \ {r} /\ p.longpoll \in (Slots \cup {0}) \ {r}
  BY <1>1, Members DEF PageRec, Loose
<1>6. ToSet(q.requests) \cap ToSet(q.envelopes) = {}
  BY <1>2, <1>4, <1>5 DEF W
<1>7. \A s \in ToSet(q.envelopes) : s # 0 /\ q.req[s].xhr = "waiting" /\ ~q.req[s].timer
  BY <1>1, <1>2, <1>3, <1>4, <1>5 DEF W
<1>8. \A s \in Listed(q) : ~q.req[s].poll
  BY <1>2, <1>3, <1>4, <1>5 DEF W, Listed, Kept
<1>9. \A s \in Slots : Busy(q.req[s]) \/ s = 0 => Formed(q.req[s])
  <2>1. Formed(q.req[r])
    <3>1. Formed(p.req[r])
      BY DEF W
    <3> QED
      BY <1>2, <3>1 DEF Formed, Kept
  <2> QED
    BY <1>1, <1>3, <2>1 DEF W
<1>10. q.longpoll # 0 => q.req[q.longpoll].poll /\ (Busy(q.req[q.longpoll]) \/ "garbled" \in q.why \/ q.longpoll = 0)
  BY <1>2, <1>3, <1>5 DEF W
<1> QED
  BY <1>2, <1>4, <1>6, <1>7, <1>8, <1>9, <1>10 DEF W

\* A request takes a connection, or waits for one.
LEMMA QueueSendIs ==
  ASSUME NEW p, NEW r, Ready(p, r), NEW q, q = QueueSend(p, r)
  PROVE  /\ Len(p.requests) < MaxConnections - 1 => q = Enlisted(TransportSend(p, r), r)
         /\ ~(Len(p.requests) < MaxConnections - 1) => q = Enveloped(p, r)
<1>1. CASE Len(p.requests) < MaxConnections - 1
  <2> DEFINE s == TransportSend(p, r)
  <2>1. q = [s EXCEPT !.requests = Append(@, r)]
    BY <1>1 DEF QueueSend
  <2>2. s \in PageRec
    <3>1. W(s, 0)
      BY WTransportSend
    <3> QED
      BY <3>1 DEF W
  <2> HIDE DEF s
  <2>3. q = Enlisted(s, r)
    BY <2>1, <2>2 DEF Enlisted, PageRec
  <2> QED
    BY <1>1, <2>3 DEF s
<1>2. CASE ~(Len(p.requests) < MaxConnections - 1)
  <2>1. q = [p EXCEPT !.envelopes = Append(@, r), !.req[r].xhr = "waiting"]
    BY <1>2 DEF QueueSend
  <2>2. p \in PageRec
    BY DEF Ready, W
  <2> QED
    BY <1>2, <2>1, <2>2 DEF Enveloped, PageRec
<1> QED
  BY <1>1, <1>2

\* What sending leaves of the rest of the object.
Fades(p, q) == q.client \in {p.client, 0} /\ q.batch \in {p.batch, 0} /\ q.queue \in {p.queue, <<>>}

LEMMA WQueueSend ==
  ASSUME NEW p, NEW r, Ready(p, r), ~p.req[r].poll, ~p.req[r].timer, NEW q, q = QueueSend(p, r)
  PROVE  W(q, 0) /\ ~q.threw /\ Fades(p, q) /\ p.why \subseteq q.why
<1>1. /\ W(p, r) /\ Loose(p, r) /\ r \in Slots /\ p.threw \in BOOLEAN /\ ~p.threw
      /\ p \in PageRec /\ Len(p.requests) \in Nat /\ MaxConnections \in Nat
  BY Members, CometdAssumption DEF Ready, W, PageRec
<1>2. CASE Len(p.requests) < MaxConnections - 1
  <2> DEFINE s == TransportSend(p, r)
  <2>1. /\ W(s, 0) /\ Loose(s, r) /\ Kept(p.req[r], s.req[r]) /\ ~s.threw
        /\ Len(s.requests) <= Len(p.requests) /\ Shrinks(p, s) /\ p.why \subseteq s.why
    BY WTransportSend
  <2>2. q = Enlisted(s, r)
    BY <1>2, QueueSendIs
  <2> HIDE DEF s
  <2>3. s \in PageRec /\ Len(s.requests) \in Nat
    BY <2>1, Members DEF W, PageRec
  <2>4. ~s.req[r].poll /\ Len(s.requests) < MaxConnections - 1
    BY <1>1, <1>2, <2>1, <2>3 DEF Kept
  <2>5. W(q, 0)
    BY <1>1, <2>1, <2>2, <2>4, WEnlisted
  <2>6. Calm(s, q) /\ Words(s, q) /\ q.why = s.why
    BY <1>1, <2>2, <2>3, EnlistedIs
  <2> QED
    BY <2>1, <2>5, <2>6 DEF Calm, Words, Shrinks, Fades
<1>3. CASE ~(Len(p.requests) < MaxConnections - 1)
  <2>1. q = Enveloped(p, r)
    BY <1>3, QueueSendIs
  <2>2. W(q, 0)
    BY <1>1, <2>1, WEnveloped
  <2>3. Calm(p, q) /\ Words(p, q) /\ q.why = p.why
    BY <1>1, <2>1, EnvelopedIs
  <2> QED
    BY <1>1, <2>2, <2>3 DEF Calm, Words, Fades
<1> QED
  BY <1>2, <1>3

LEMMA WLongpollSend ==
  ASSUME NEW p, NEW r, Ready(p, r), p.req[r].poll, NEW q, q = LongpollSend(p, r)
  PROVE  W(q, 0) /\ ~q.threw /\ Fades(p, q) /\ p.why \subseteq q.why /\ q = Polling(TransportSend(p, r), r)
<1> DEFINE s == TransportSend(p, r)
<1>1. /\ W(s, 0) /\ Loose(s, r) /\ Kept(p.req[r], s.req[r]) /\ ~s.threw /\ Busy(s.req[r])
      /\ Shrinks(p, s) /\ p.why \subseteq s.why
  BY WTransportSend
<1>2. r \in Slots /\ p.longpoll = 0
  BY DEF Ready
<1>3. q = [s EXCEPT !.longpoll = r]
  BY <1>2 DEF LongpollSend
<1>4. q = Polling(s, r)
  BY <1>3 DEF Polling
<1> HIDE DEF s
<1>5. s \in PageRec /\ s.req[r].poll
  BY <1>1 DEF W, Kept
<1>6. W(q, 0)
  BY <1>1, <1>2, <1>4, <1>5, WPolling
<1>7. Calm(s, q) /\ Words(s, q) /\ q.why = s.why
  BY <1>2, <1>4, <1>5, PollingIs
<1>8. ~q.threw /\ Fades(p, q) /\ p.why \subseteq q.why
  BY <1>1, <1>7 DEF Calm, Words, Shrinks, Fades
<1> QED
  BY <1>4, <1>6, <1>8 DEF s

-----------------------------------------------------------------------------
(* A new request.                                                          *)

LEMMA FreeIs ==
  ASSUME NEW p \in PageRec, NEW x
  PROVE  x \in Free(p) <=> x \in Slots /\ Loose(p, x) /\ ~Busy(p.req[x])
<1>1. 0 \notin Slots
  BY CometdAssumption
<1>2. x \in Slots => p.req[x] \in Request
  BY DEF PageRec
<1> QED
  BY <1>1, <1>2 DEF Free, InUse, Loose, Busy, Request

\* The messages carry the session.
Carried(msgs, client) ==
  [i \in DOMAIN msgs |-> [msgs[i] EXCEPT !.client = IF client = 0 THEN @ ELSE client]]

LEMMA CarriedIs ==
  ASSUME NEW msgs \in Seq(Msg), NEW client \in Nat, NEW c, c = Carried(msgs, client)
  PROVE  /\ c \in Seq(Msg) /\ Len(c) = Len(msgs) /\ DOMAIN c = DOMAIN msgs
         /\ \A i \in DOMAIN msgs : /\ c[i].what = msgs[i].what /\ c[i].number = msgs[i].number
                                   /\ client # 0 => c[i].client = client
                                   /\ client = 0 => c[i].client = msgs[i].client
         /\ Published(c) = Published(msgs) /\ (Batch(msgs) => Batch(c))
         /\ \A w \in Whats : OneMeta(msgs, w) => OneMeta(c, w)
<1>1. Len(msgs) \in Nat /\ DOMAIN msgs = 1..Len(msgs)
  BY Members
<1>2. \A i \in DOMAIN msgs : msgs[i] \in Msg
  BY <1>1
<1>3. DOMAIN c = DOMAIN msgs
  BY DEF Carried
<1>4. ASSUME NEW i \in DOMAIN msgs
      PROVE  /\ c[i] \in Msg /\ c[i].what = msgs[i].what /\ c[i].number = msgs[i].number
             /\ client # 0 => c[i].client = client
             /\ client = 0 => c[i].client = msgs[i].client
  <2>1. c[i] = [msgs[i] EXCEPT !.client = IF client = 0 THEN @ ELSE client] /\ msgs[i] \in Msg
    BY <1>2 DEF Carried
  <2>2. CASE client = 0
    <3>1. c[i] = [msgs[i] EXCEPT !.client = msgs[i].client]
      BY <2>1, <2>2
    <3> QED
      BY <2>1, <2>2, <3>1 DEF Msg
  <2>3. CASE client # 0
    <3>1. c[i] = [msgs[i] EXCEPT !.client = client]
      BY <2>1, <2>3
    <3> QED
      BY <2>1, <2>3, <3>1 DEF Msg
  <2> QED
    BY <2>2, <2>3
<1>5. c = [i \in 1..Len(msgs) |-> c[i]]
  BY <1>1 DEF Carried
<1>6. c \in Seq(Msg) /\ Len(c) = Len(msgs)
  <2>1. c \in [1..Len(msgs) -> Msg]
    BY <1>1, <1>4, <1>5
  <2> QED
    BY <1>1, <2>1
<1>7. Published(c) = Published(msgs)
  BY <1>3, <1>4 DEF Published
<1>8. Batch(msgs) => Batch(c)
  <2>1. msgs # <<>> => c # <<>>
    BY <1>6, EmptySeq
  <2> QED
    BY <1>3, <1>4, <2>1 DEF Batch
<1>9. ASSUME NEW w \in Whats, OneMeta(msgs, w) PROVE OneMeta(c, w)
  <2>1. 1 \in DOMAIN msgs
    BY <1>1, <1>9 DEF OneMeta
  <2> QED
    BY <1>4, <1>6, <1>9, <2>1 DEF OneMeta
<1> QED
  BY <1>3, <1>4, <1>6, <1>7, <1>8, <1>9

Fresh(p, r, msgs, poll) ==
  [p EXCEPT !.req[r] = [NoRequest EXCEPT !.poll = poll, !.msgs = Carried(msgs, p.client)]]

LEMMA FreshIs ==
  ASSUME NEW p \in PageRec, NEW r \in Slots, NEW msgs \in Seq(Msg), NEW poll \in BOOLEAN,
         NEW q, q = Fresh(p, r, msgs, poll)
  PROVE  /\ q \in PageRec /\ q.requests = p.requests /\ q.envelopes = p.envelopes /\ q.longpoll = p.longpoll
         /\ Words(p, q) /\ Calm(p, q) /\ Plan(p, q) /\ q.why = p.why /\ q.advice = p.advice
         /\ q.req[r].msgs = Carried(msgs, p.client) /\ q.req[r].poll = poll
         /\ q.req[r].xhr = "none" /\ ~q.req[r].timer
         /\ \A s \in Slots \ {r} : q.req[s] = p.req[s]
<1> DEFINE c == Carried(msgs, p.client)
           b == [NoRequest EXCEPT !.poll = poll, !.msgs = c]
           req == [p.req EXCEPT ![r] = b]
<1>1. c \in Seq(Msg) /\ p.req \in [Slots -> Request]
  BY CarriedIs DEF PageRec
<1>2. q = [p EXCEPT !.req = req]
  BY DEF Fresh, PageRec
<1> HIDE DEF c
<1>3. b \in Request /\ b.msgs = c /\ b.poll = poll /\ b.xhr = "none" /\ b.timer = FALSE
  BY <1>1, NoRequestIs DEF Request, NoRequest
<1> HIDE DEF b
<1>4. req \in [Slots -> Request] /\ req[r] = b /\ \A s \in Slots \ {r} : req[s] = p.req[s]
  BY <1>1, <1>3
<1> HIDE DEF req
<1>5. /\ q \in PageRec /\ q.req = req /\ q.requests = p.requests /\ q.envelopes = p.envelopes /\ q.longpoll = p.longpoll
      /\ Words(p, q) /\ Calm(p, q) /\ Plan(p, q) /\ q.why = p.why /\ q.advice = p.advice
  BY <1>2, <1>4 DEF PageRec, Words, Calm, Plan
<1> QED
  BY <1>3, <1>4, <1>5 DEF c

\* What a request may consist of.
Fit(msgs, poll) ==
  /\ msgs \in Seq(Msg)
  /\ poll => OneMeta(msgs, "connect")
  /\ ~poll => OneMeta(msgs, "handshake") \/ OneMeta(msgs, "disconnect") \/ Batch(msgs)

LEMMA ReadyFresh ==
  ASSUME NEW p, W(p, 0), ~p.threw, NEW r \in Free(p), NEW poll \in BOOLEAN, NEW msgs, Fit(msgs, poll),
         poll => p.longpoll = 0, NEW q, q = Fresh(p, r, msgs, poll)
  PROVE  Ready(q, r) /\ ~q.req[r].timer /\ q.req[r].poll = poll /\ p.why = q.why /\ Fades(p, q)
<1>1. p \in PageRec /\ 0 \notin Slots /\ msgs \in Seq(Msg)
  BY CometdAssumption DEF W, Fit
<1>2. r \in Slots /\ Loose(p, r) /\ ~Busy(p.req[r])
  BY <1>1, FreeIs
<1>3. /\ q \in PageRec /\ q.requests = p.requests /\ q.envelopes = p.envelopes /\ q.longpoll = p.longpoll
      /\ Words(p, q) /\ Calm(p, q) /\ q.why = p.why
      /\ q.req[r].msgs = Carried(msgs, p.client) /\ q.req[r].poll = poll
      /\ q.req[r].xhr = "none" /\ ~q.req[r].timer
  BY <1>1, <1>2, FreshIs
<1>4. \A s \in Slots \ {r} : q.req[s] = p.req[s]
  BY <1>1, <1>2, FreshIs
<1>5. Formed(q.req[r])
  <2> DEFINE c == Carried(msgs, p.client)
  <2>1. p.client \in Nat
    BY <1>1 DEF PageRec
  <2>2. (Batch(msgs) => Batch(c)) /\ \A w \in Whats : OneMeta(msgs, w) => OneMeta(c, w)
    BY <1>1, <2>1, CarriedIs
  <2> HIDE DEF c
  <2>3. q.req[r].msgs = c
    BY <1>3 DEF c
  <2> QED
    BY <1>3, <2>2, <2>3 DEF Formed, Fit, Whats
<1>6. ToSet(p.requests) \subseteq Slots \ {r} /\ ToSet(p.envelopes) \subseteq Slots \ {r} /\ p.longpoll \in (Slots \cup {0}) \ {r}
  BY <1>1, <1>2, Members DEF PageRec, Loose
<1>7. \A s \in ToSet(q.envelopes) : s # r /\ q.req[s].xhr = "waiting" /\ ~q.req[s].timer
  BY <1>3, <1>4, <1>6 DEF W
<1>8. \A s \in Listed(q) : ~q.req[s].poll
  BY <1>3, <1>4, <1>6 DEF W, Listed
<1>9. \A s \in Slots : Busy(q.req[s]) \/ s = r => Formed(q.req[s])
  BY <1>4, <1>5 DEF W
<1>10. q.longpoll # 0 => q.req[q.longpoll].poll /\ (Busy(q.req[q.longpoll]) \/ "garbled" \in q.why \/ q.longpoll = r)
  BY <1>3, <1>4, <1>6 DEF W
<1>11. q.queue = p.queue
  BY <1>3 DEF Words
<1>12. W(q, r)
  BY <1>3, <1>7, <1>8, <1>9, <1>10, <1>11 DEF W
<1>13. Loose(q, r)
  BY <1>2, <1>3 DEF Loose
<1> QED
  BY <1>2, <1>3, <1>12, <1>13 DEF Ready, Calm, Words, Fades

\* _send(): with a request that is free.
LEMMA SendMessagesIs ==
  ASSUME NEW p \in PageRec, Free(p) # {}, ~p.threw, NEW poll \in BOOLEAN, NEW msgs, Fit(msgs, poll),
         NEW q, q = SendMessages(p, msgs, poll)
  PROVE  \E r \in Free(p) :
           /\ ~poll => q = QueueSend(Fresh(p, r, msgs, poll), r)
           /\ poll /\ p.longpoll # 0 => q = Throw(p)
           /\ poll /\ p.longpoll = 0 => \/ q = LongpollSend(Fresh(p, r, msgs, poll), r)
                                               \/ LongpollSend(Fresh(p, r, msgs, poll), r).threw
<1> DEFINE r == CHOOSE x \in Free(p) : \A y \in Free(p) : x <= y
           c == Fresh(p, r, msgs, poll)
<1>1. r \in Free(p)
  <2>1. Free(p) \subseteq Nat
    <3>1. Free(p) \subseteq Slots
      BY FreeIs
    <3> QED
      BY <3>1, CometdAssumption
  <2>2. \E x \in Free(p) : \A y \in Free(p) : x <= y
    BY <2>1, LeastNat
  <2> QED
    BY <2>2
<1>2. q = IF ~poll THEN QueueSend(c, r) ELSE IF LongpollSend(c, r).threw THEN Throw(p) ELSE LongpollSend(c, r)
  BY DEF SendMessages, Fresh, Carried
<1>3. c \in PageRec /\ c.longpoll = p.longpoll
  <2>1. msgs \in Seq(Msg) /\ r \in Slots
    BY <1>1, FreeIs DEF Fit
  <2> HIDE DEF r
  <2> QED
    BY <2>1, FreshIs
<1> HIDE DEF r, c
<1>4. poll /\ p.longpoll # 0 => LongpollSend(c, r).threw
  BY <1>3 DEF LongpollSend, Throw, PageRec
<1> QED
  BY <1>1, <1>2, <1>4 DEF c

LEMMA WSendMessages ==
  ASSUME NEW p, W(p, 0), ~p.threw, Free(p) # {}, NEW poll \in BOOLEAN, NEW msgs, Fit(msgs, poll),
         NEW q, q = SendMessages(p, msgs, poll)
  PROVE  W(q, 0) /\ Fades(p, q) /\ p.why \subseteq q.why /\ (~poll \/ p.longpoll = 0 => ~q.threw)
         /\ (poll /\ p.longpoll # 0 => q = Throw(p))
<1>1. p \in PageRec
  BY DEF W
<1>2. PICK r \in Free(p) :
           /\ ~poll => q = QueueSend(Fresh(p, r, msgs, poll), r)
           /\ poll /\ p.longpoll # 0 => q = Throw(p)
           /\ poll /\ p.longpoll = 0 => \/ q = LongpollSend(Fresh(p, r, msgs, poll), r)
                                               \/ LongpollSend(Fresh(p, r, msgs, poll), r).threw
  BY <1>1, SendMessagesIs
<1> DEFINE c == Fresh(p, r, msgs, poll)
<1>3. /\ ~poll => q = QueueSend(c, r)
      /\ poll /\ p.longpoll # 0 => q = Throw(p)
      /\ poll /\ p.longpoll = 0 => q = LongpollSend(c, r) \/ LongpollSend(c, r).threw
  BY <1>2
<1>4. CASE poll /\ p.longpoll # 0
  <2>1. q = Throw(p)
    BY <1>3, <1>4
  <2>2. q \in PageRec /\ Wires(p, q) /\ q.queue = p.queue /\ q.why = p.why /\ q.client = p.client /\ q.batch = p.batch
    BY <1>1, <2>1 DEF Throw, PageRec, Wires
  <2>3. W(q, 0)
    BY <2>2, WSame
  <2> QED
    BY <1>4, <2>1, <2>2, <2>3 DEF Fades
<1>5. CASE ~(poll /\ p.longpoll # 0)
  <2>1. Ready(c, r) /\ ~c.req[r].timer /\ c.req[r].poll = poll /\ p.why = c.why /\ Fades(p, c)
    BY <1>5, ReadyFresh
  <2> HIDE DEF c
  <2>2. CASE ~poll
    BY <1>3, <2>1, <2>2, WQueueSend DEF Fades
  <2>3. CASE poll
    <3> DEFINE l == LongpollSend(c, r)
    <3>1. c.req[r].poll
      BY <2>1, <2>3
    <3>2. W(l, 0) /\ ~l.threw /\ Fades(c, l) /\ c.why \subseteq l.why
      BY <2>1, <3>1, WLongpollSend
    <3>3. q = l \/ l.threw
      BY <1>3, <1>5, <2>3 DEF c
    <3> HIDE DEF l
    <3> QED
      BY <1>5, <2>1, <2>3, <3>2, <3>3 DEF Fades
  <2> QED
    BY <2>2, <2>3
<1> QED
  BY <1>4, <1>5

-----------------------------------------------------------------------------
(* A free request stays free.                                              *)

Spare(p, x) == x \in Slots /\ Loose(p, x) /\ ~Busy(p.req[x])

LEMMA SpareLetGo ==
  ASSUME NEW p \in PageRec, Distinct(p.requests), NEW r \in Slots, NEW x, Spare(p, x), NEW q, q = LetGo(p, r)
  PROVE  Spare(q, x)
<1>1. Same(p, q)
  BY LetGoIs
<1>2. ToSet(q.requests) \subseteq ToSet(p.requests) /\ q.longpoll \in {p.longpoll, 0}
  <2>1. CASE ~p.req[r].poll
    <3>1. q.requests = Without(p.requests, r) /\ q.longpoll = p.longpoll
      BY <2>1, LetGoPlain
    <3>2. ToSet(Without(p.requests, r)) = ToSet(p.requests) \ {r}
      BY WithoutIs DEF PageRec
    <3> QED
      BY <3>1, <3>2
  <2>2. CASE OwnPoll(p, r)
    BY <2>2, LetGoPoll
  <2>3. CASE Clash(p, r)
    BY <2>3, LetGoClash
  <2> QED
    BY <2>1, <2>2, <2>3 DEF OwnPoll, Clash
<1> QED
  BY <1>1, <1>2 DEF Same, Spare, Loose

LEMMA SpareGiveUpNext ==
  ASSUME NEW p \in PageRec, NEW x, Spare(p, x), NEW q, q = GiveUpNext(p)
  PROVE  Spare(q, x)
<1>1. x \in Slots /\ x \notin ToSet(p.envelopes)
  BY DEF Spare, Loose
<1>2. /\ q.requests = p.requests /\ q.longpoll = p.longpoll
      /\ \A r \in Slots : r \notin ToSet(p.envelopes) => q.req[r] = p.req[r]
  BY GiveUpNextKeeps
<1>3. ToSet(q.envelopes) \subseteq ToSet(p.envelopes)
  <2>1. CASE p.envelopes = <<>>
    BY <2>1, GiveUpNextIs
  <2>2. CASE p.envelopes # <<>>
    <3>1. q.envelopes = Tail(p.envelopes)
      BY <2>2, GiveUpNextIs
    <3>2. ToSet(Tail(p.envelopes)) \subseteq ToSet(p.envelopes)
      BY <2>2, TailOf DEF PageRec
    <3> QED
      BY <3>1, <3>2
  <2> QED
    BY <2>1, <2>2
<1> QED
  BY <1>1, <1>2, <1>3 DEF Spare, Loose

LEMMA SpareReports ==
  ASSUME NEW p \in PageRec, NEW msgs, NEW x, Spare(p, x), NEW q, Reports(p, q, msgs)
  PROVE  Spare(q, x)
<1>1. CASE Wires(p, q)
  BY <1>1 DEF Wires, Spare, Loose
<1>2. CASE q = HandshakeFailed(p)
  BY <1>1, <1>2, HandshakeFailedIs DEF Moves
<1>3. CASE q = ConnectFailure(p)
  BY <1>1, <1>3, ConnectFailureIs DEF Moves
<1>4. CASE \E M : q = TellAll(p, M)
  BY <1>1, <1>4, TellAllIs
<1>5. CASE q = Disconnect(p, TRUE)
  <2>0. TRUE \in BOOLEAN
    OBVIOUS
  <2>1. q.requests = <<>> /\ q.envelopes = <<>> /\ q.longpoll = 0
    BY <1>5, <2>0, DisconnectIs
  <2>2. \A y \in Slots : q.req[y] = Aborted(p, y)
    BY ZenonT(60), <1>5, <2>0, DisconnectIs
  <2>3. x \notin Listed(p) \cup {p.longpoll} /\ x \in Slots /\ 0 \notin Slots
    BY CometdAssumption DEF Spare, Loose, Listed
  <2>4. q.req[x] = p.req[x]
    BY <2>2, <2>3, AbortedIs
  <2> QED
    BY <2>1, <2>3, <2>4, EmptyList DEF Spare, Loose
<1> QED
  BY <1>2, <1>3, <1>4, <1>5 DEF Reports

LEMMA SpareTransportSend ==
  ASSUME NEW p, NEW r, Ready(p, r), NEW x, x # r, Spare(p, x), NEW q, q = TransportSend(p, r)
  PROVE  Spare(q, x)
<1>1. p \in PageRec /\ r \in Slots /\ p.breaks \in BOOLEAN /\ x \in Slots
  BY DEF Ready, W, PageRec, Spare
<1>2. ASSUME NEW f, Spare(f, x), NEW y, Launched(f, q, r, y) PROVE Spare(q, x)
  BY <1>1, <1>2 DEF Launched, Spare, Loose
<1>3. CASE ~p.breaks
  BY <1>2, <1>3, SendWorks
<1>4. CASE p.breaks
  <2> DEFINE s == Unbroken(p)
             t == LetGo(s, r)
             g == Dropped(s, r)
             f == HandleFailure(s, r)
  <2>1. W(s, r) /\ W(t, r) /\ W(g, r) /\ Reports(g, f, p.req[r].msgs)
    BY FailsAtOnce
  <2>2. Launched(f, q, r, "none")
    BY <1>4, SendThrows
  <2>3. s \in PageRec /\ Distinct(s.requests) /\ t \in PageRec /\ g \in PageRec
    BY <2>1, WType
  <2>4. Wires(p, s)
    BY <1>1, UnbrokenIs
  <2>5. Spare(s, x)
    BY <2>4 DEF Wires, Spare, Loose
  <2> HIDE DEF s
  <2>6. Spare(t, x)
    BY <1>1, <2>3, <2>5, SpareLetGo
  <2>7. g = t \/ g = GiveUpNext(t)
    BY DEF Dropped
  <2> HIDE DEF t, g, f
  <2>8. Spare(g, x)
    BY <2>3, <2>6, <2>7, SpareGiveUpNext
  <2>9. Spare(f, x)
    BY <2>1, <2>3, <2>8, SpareReports
  <2> QED
    BY <1>2, <2>2, <2>9
<1> QED
  BY <1>1, <1>3, <1>4

LEMMA SpareQueueSend ==
  ASSUME NEW p, NEW r, Ready(p, r), NEW x, x # r, Spare(p, x), NEW q, q = QueueSend(p, r)
  PROVE  Spare(q, x)
<1>1. p \in PageRec /\ r \in Slots /\ x \in Slots
  BY DEF Ready, W, Spare
<1>2. CASE Len(p.requests) < MaxConnections - 1
  <2> DEFINE s == TransportSend(p, r)
  <2>1. Spare(s, x) /\ W(s, 0)
    BY SpareTransportSend, WTransportSend
  <2>2. q = Enlisted(s, r)
    BY <1>2, QueueSendIs
  <2> HIDE DEF s
  <2>3. s \in PageRec
    BY <2>1, WType
  <2>4. /\ q.requests = Append(s.requests, r) /\ q.req = s.req /\ q.envelopes = s.envelopes /\ q.longpoll = s.longpoll
    BY <1>1, <2>2, <2>3, EnlistedIs
  <2>5. ToSet(Append(s.requests, r)) = ToSet(s.requests) \cup {r}
    BY <1>1, <2>3, Appended DEF PageRec
  <2> QED
    BY <2>1, <2>4, <2>5 DEF Spare, Loose
<1>3. CASE ~(Len(p.requests) < MaxConnections - 1)
  <2>1. q = Enveloped(p, r)
    BY <1>3, QueueSendIs
  <2>2. /\ q.envelopes = Append(p.envelopes, r) /\ q.requests = p.requests /\ q.longpoll = p.longpoll
    BY <1>1, <2>1, EnvelopedIs
  <2>3. \A s \in Slots \ {r} : q.req[s] = p.req[s]
    BY SMTT(60), <1>1, <2>1, EnvelopedIs
  <2>4. ToSet(Append(p.envelopes, r)) = ToSet(p.envelopes) \cup {r}
    BY <1>1, Appended DEF PageRec
  <2> QED
    BY <1>1, <2>2, <2>3, <2>4 DEF Spare, Loose
<1> QED
  BY <1>2, <1>3

-----------------------------------------------------------------------------
(* The next envelope.                                                      *)

Opening(p) == [p EXCEPT !.envelopes = Tail(p.envelopes)]

LEMMA OpeningIs ==
  ASSUME NEW p \in PageRec, p.envelopes # <<>>, NEW q, q = Opening(p)
  PROVE  /\ q \in PageRec /\ q.envelopes = Tail(p.envelopes)
         /\ q.req = p.req /\ q.requests = p.requests /\ q.longpoll = p.longpoll
         /\ Words(p, q) /\ Calm(p, q) /\ Plan(p, q) /\ q.why = p.why /\ q.advice = p.advice
<1>1. Tail(p.envelopes) \in Seq(Slots)
  BY TailOf DEF PageRec
<1> QED
  BY <1>1 DEF Opening, PageRec, Words, Calm, Plan

LEMMA ReadyOpening ==
  ASSUME NEW p, W(p, 0), ~p.threw, p.envelopes # <<>>, NEW e, e = Head(p.envelopes), NEW q, q = Opening(p)
  PROVE  Ready(q, e) /\ ~q.req[e].poll /\ ~q.req[e].timer /\ e \in ToSet(p.envelopes) /\ p.req[e].xhr = "waiting"
<1>1. p \in PageRec /\ p.envelopes \in Seq(Slots) /\ p.requests \in Seq(Slots) /\ Distinct(p.envelopes) /\ 0 \notin Slots
  BY CometdAssumption DEF W, PageRec
<1>2. /\ q \in PageRec /\ q.envelopes = Tail(p.envelopes)
      /\ q.req = p.req /\ q.requests = p.requests /\ q.longpoll = p.longpoll
      /\ q.queue = p.queue /\ q.why = p.why /\ q.threw = p.threw
  <2>1. Words(p, q) /\ Calm(p, q)
    BY <1>1, OpeningIs
  <2> QED
    BY <1>1, <2>1, OpeningIs DEF Words, Calm
<1>3. /\ e \in Slots /\ e \in ToSet(p.envelopes) /\ e \notin ToSet(q.envelopes)
      /\ ToSet(q.envelopes) \subseteq ToSet(p.envelopes) /\ Distinct(q.envelopes)
  BY <1>1, <1>2, TailOf
<1>4. p.req[e].xhr = "waiting" /\ ~p.req[e].timer /\ ~p.req[e].poll
  BY <1>3 DEF W, Listed
<1>5. Busy(p.req[e])
  BY <1>4 DEF Busy
<1>6. Formed(p.req[e])
  BY <1>3, <1>5 DEF W
<1>7. W(q, e)
  BY <1>2, <1>3, <1>4, <1>6 DEF W, Listed
<1>8. e \notin ToSet(p.requests)
  BY <1>3 DEF W
<1>9. p.longpoll # 0 => p.longpoll # e
  BY <1>4 DEF W
<1>10. Loose(q, e)
  BY <1>1, <1>2, <1>3, <1>8, <1>9 DEF Loose
<1> QED
  BY <1>2, <1>3, <1>4, <1>7, <1>10 DEF Ready

LEMMA SendNextIs ==
  ASSUME NEW p, p.envelopes # <<>>, NEW q, q = SendNext(p)
  PROVE  q = QueueSend(Opening(p), Head(p.envelopes))
  BY DEF SendNext, Opening

LEMMA WSendNext ==
  ASSUME NEW p, W(p, 0), ~p.threw, NEW q, q = SendNext(p)
  PROVE  W(q, 0) /\ ~q.threw /\ Fades(p, q) /\ p.why \subseteq q.why
         /\ \A x : Spare(p, x) => Spare(q, x)
<1>1. CASE p.envelopes = <<>>
  BY <1>1 DEF SendNext, Fades
<1>2. CASE p.envelopes # <<>>
  <2> DEFINE c == Opening(p)
             e == Head(p.envelopes)
  <2>1. q = QueueSend(c, e)
    BY <1>2, SendNextIs
  <2>2. Ready(c, e) /\ ~c.req[e].poll /\ ~c.req[e].timer /\ e \in ToSet(p.envelopes)
    BY <1>2, ReadyOpening
  <2>3. p \in PageRec
    BY WType
  <2>4. /\ c.envelopes = Tail(p.envelopes) /\ c.req = p.req /\ c.requests = p.requests /\ c.longpoll = p.longpoll
        /\ Words(p, c) /\ Calm(p, c) /\ c.why = p.why
    BY <1>2, <2>3, OpeningIs
  <2>5. ToSet(c.envelopes) \subseteq ToSet(p.envelopes)
    BY <1>2, <2>3, <2>4, TailOf DEF PageRec
  <2> HIDE DEF c, e
  <2>6. W(q, 0) /\ ~q.threw /\ Fades(c, q) /\ c.why \subseteq q.why
    BY <2>1, <2>2, WQueueSend
  <2>7. Fades(p, q) /\ p.why \subseteq q.why
    BY <2>4, <2>6 DEF Fades, Words, Calm
  <2>8. ASSUME NEW x, Spare(p, x) PROVE Spare(q, x)
    <3>1. x # e /\ Spare(c, x)
      BY <2>2, <2>4, <2>5, <2>8 DEF Spare, Loose
    <3> QED
      BY <2>1, <2>2, <3>1, SpareQueueSend
  <2> QED
    BY <2>6, <2>7, <2>8
<1> QED
  BY <1>1, <1>2

-----------------------------------------------------------------------------
(* What the application and the timers send.                               *)

LEMMA FreeSpare ==
  ASSUME NEW p \in PageRec
  PROVE  \A x : x \in Free(p) <=> Spare(p, x)
  BY FreeIs DEF Spare

LEMMA SpareSame ==
  ASSUME NEW p, NEW q, Wires(p, q)
  PROVE  \A x : Spare(p, x) <=> Spare(q, x)
  BY DEF Wires, Spare, Loose

LEMMA OneOf ==
  ASSUME NEW S, NEW x \in S
  PROVE  <<x>> \in Seq(S) /\ Len(<<x>>) = 1 /\ <<x>>[1] = x /\ <<x>> # <<>> /\ DOMAIN <<x>> = 1..1
  OBVIOUS

LEMMA MetaIs ==
  ASSUME NEW w \in Whats, NEW msgs, msgs = <<Meta(w)>>
  PROVE  msgs \in Seq(Msg) /\ OneMeta(msgs, w) /\ Published(msgs) = {} /\ msgs[1].client = 0
<1>1. Meta(w) \in Msg /\ Meta(w).what = w /\ Meta(w).number = 0 /\ Meta(w).client = 0
  BY DEF Meta, Msg
<1> DEFINE m == Meta(w)
<1> HIDE DEF m
<1>2. msgs \in Seq(Msg) /\ Len(msgs) = 1 /\ msgs[1] = m /\ DOMAIN msgs = 1..1
  BY <1>1, OneOf DEF m
<1>3. OneMeta(msgs, w) /\ msgs[1].client = 0
  BY <1>1, <1>2 DEF OneMeta, m
<1>4. Published(msgs) = {}
  BY <1>1, <1>2 DEF Published, m
<1> QED
  BY <1>2, <1>3, <1>4

LEMMA MessageIs ==
  ASSUME NEW n \in Messages, NEW msgs, msgs = <<Message(n)>>
  PROVE  msgs \in Seq(Msg) /\ Batch(msgs) /\ Published(msgs) = {n} /\ msgs[1].client = 0
<1>1. Message(n) \in Msg /\ Message(n).what = "publish" /\ Message(n).number = n /\ Message(n).client = 0
  BY DEF Message, Msg, Whats
<1> DEFINE m == Message(n)
<1> HIDE DEF m
<1>2. msgs \in Seq(Msg) /\ Len(msgs) = 1 /\ msgs[1] = m /\ DOMAIN msgs = 1..1 /\ msgs # <<>>
  BY <1>1, OneOf DEF m
<1>3. Batch(msgs) /\ msgs[1].client = 0
  BY <1>1, <1>2 DEF Batch, m
<1>4. n # 0
  BY CometdAssumption DEF Messages
<1>5. Published(msgs) = {n}
  BY <1>1, <1>2, <1>4 DEF Published, m
<1> QED
  BY <1>2, <1>3, <1>5

Unloaded(p) == [p EXCEPT !.queue = <<>>]

LEMMA UnloadedIs ==
  ASSUME NEW p \in PageRec, NEW q, q = Unloaded(p)
  PROVE  /\ q \in PageRec /\ q.queue = <<>> /\ Wires(p, q) /\ Calm(p, q) /\ Plan(p, q)
         /\ q.why = p.why /\ q.advice = p.advice /\ q.told = p.told /\ q.lost = p.lost /\ q.last = p.last
<1>1. <<>> \in Seq(Msg)
  BY EmptySeq
<1> QED
  BY <1>1 DEF Unloaded, PageRec, Wires, Calm, Plan

LEMMA FlushBatchIs ==
  ASSUME NEW p, W(p, 0), ~p.threw, NEW x, Spare(p, x), NEW q, q = FlushBatch(p)
  PROVE  /\ p.queue = <<>> => q = p
         /\ p.queue # <<>> => q = SendMessages(Unloaded(p), p.queue, FALSE)
         /\ p.queue # <<>> => W(Unloaded(p), 0) /\ ~Unloaded(p).threw /\ Spare(Unloaded(p), x) /\ Fit(p.queue, FALSE)
                              /\ Batch(p.queue)
<1>1. p \in PageRec /\ p.queue \in Seq(Msg)
  BY DEF W, PageRec
<1> DEFINE u == Unloaded(p)
<1>2. u \in PageRec /\ u.queue = <<>> /\ Wires(p, u) /\ Calm(p, u) /\ u.why = p.why
  BY <1>1, UnloadedIs
<1> HIDE DEF u
<1>3. W(u, 0)
  BY <1>2 DEF W, Wires, Listed
<1>4. Spare(u, x) /\ ~u.threw
  BY <1>2, SpareSame DEF Calm
<1>5. p.queue # <<>> => Batch(p.queue)
  BY DEF W
<1>6. Batch(p.queue) => Fit(p.queue, FALSE)
  BY <1>1 DEF Fit
<1>7. /\ p.queue = <<>> => q = p
      /\ p.queue # <<>> => q = SendMessages(Unloaded(p), p.queue, FALSE)
  BY DEF FlushBatch, Unloaded
<1> QED
  BY <1>3, <1>4, <1>5, <1>6, <1>7 DEF u

LEMMA WFlushBatch ==
  ASSUME NEW p, W(p, 0), ~p.threw, NEW x, Spare(p, x), NEW q, q = FlushBatch(p)
  PROVE  W(q, 0) /\ ~q.threw /\ Fades(p, q) /\ p.why \subseteq q.why
<1>1. CASE p.queue = <<>>
  <2>1. q = p
    BY <1>1, FlushBatchIs
  <2> QED
    BY <2>1 DEF Fades
<1>2. CASE p.queue # <<>>
  <2> DEFINE u == Unloaded(p)
  <2>1. W(u, 0) /\ ~u.threw /\ Spare(u, x) /\ Fit(p.queue, FALSE) /\ q = SendMessages(u, p.queue, FALSE)
    BY <1>2, FlushBatchIs
  <2>2. p \in PageRec /\ u.queue = <<>> /\ Calm(p, u) /\ u.why = p.why
    BY WType, UnloadedIs
  <2> HIDE DEF u
  <2>3. Free(u) # {} /\ FALSE \in BOOLEAN
    BY <2>1, WType, FreeSpare
  <2>4. W(q, 0) /\ ~q.threw /\ Fades(u, q) /\ u.why \subseteq q.why
    BY <2>1, <2>3, WSendMessages
  <2> QED
    BY <2>2, <2>4 DEF Fades, Calm
<1> QED
  BY <1>1, <1>2

LEMMA WConnect ==
  ASSUME NEW p, W(p, 0), ~p.threw, NEW x, Spare(p, x), NEW q, q = Connect(p)
  PROVE  /\ W(q, 0) /\ Fades(p, q) /\ p.why \subseteq q.why
<1> DEFINE s == Status(p, "connecting")
           msgs == <<Meta("connect")>>
           t == SendMessages(s, msgs, TRUE)
<1>1. p \in PageRec /\ "connecting" \in Phases /\ "connected" \in Phases
  BY WType DEF Phases
<1>2. Moves(p, s) /\ s.why = p.why
  BY <1>1, StatusIs
<1>3. Fit(msgs, TRUE)
  <2>1. "connect" \in Whats
    BY DEF Whats
  <2> HIDE DEF msgs
  <2>2. msgs = <<Meta("connect")>>
    BY DEF msgs
  <2>3. msgs \in Seq(Msg) /\ OneMeta(msgs, "connect")
    BY <2>1, <2>2, MetaIs
  <2> QED
    BY <2>3 DEF Fit
<1> HIDE DEF s, msgs
<1>4. s \in PageRec /\ Wires(p, s) /\ s.queue = p.queue /\ s.client = p.client /\ s.batch = p.batch /\ ~s.threw
  BY <1>2 DEF Moves, Words, Calm
<1>5. W(s, 0) /\ Free(s) # {} /\ TRUE \in BOOLEAN
  BY <1>2, <1>4, WSame, SpareSame, FreeSpare
<1>6. W(t, 0) /\ Fades(s, t) /\ s.why \subseteq t.why
  BY <1>3, <1>4, <1>5, WSendMessages
<1>7. q = IF t.threw THEN t ELSE Status(t, "connected")
  BY DEF Connect, s, msgs
<1> HIDE DEF t
<1>8. CASE t.threw
  BY <1>2, <1>4, <1>6, <1>7, <1>8 DEF Fades
<1>9. CASE ~t.threw
  <2>1. t \in PageRec /\ q = Status(t, "connected")
    BY <1>6, <1>7, <1>9, WType
  <2>2. Moves(t, q) /\ q.why = t.why
    BY <1>1, <2>1, StatusIs
  <2>3. q \in PageRec /\ Wires(t, q) /\ q.queue = t.queue /\ q.client = t.client /\ q.batch = t.batch
    BY <2>2 DEF Moves, Words, Calm
  <2>4. W(q, 0)
    BY <1>6, <2>2, <2>3, WSame
  <2> QED
    BY <1>2, <1>4, <1>6, <2>2, <2>3, <2>4 DEF Fades
<1> QED
  BY <1>8, <1>9

LEMMA WReset ==
  ASSUME NEW p, W(p, 0), NEW q, q = Reset(p)
  PROVE  W(q, 0) /\ \A x : Spare(p, x) => Spare(q, x)
<1>1. p \in PageRec /\ 0 \notin Slots /\ MaxConnections \in Nat \ {0, 1}
  BY WType, CometdAssumption
<1>2. Emptied(p, q)
  BY <1>1, ResetIs
<1>3. \A r \in Slots : /\ r \in ToSet(p.envelopes) => q.req[r] = NoRequest
                       /\ r \notin ToSet(p.envelopes) => q.req[r] = p.req[r]
  BY <1>1, ResetIs
<1>4. q \in PageRec /\ q.requests = <<>> /\ q.envelopes = <<>> /\ q.longpoll = 0 /\ q.queue = p.queue
  BY <1>2 DEF Emptied
<1>5. Len(q.requests) = 0 /\ ToSet(q.requests) = {} /\ ToSet(q.envelopes) = {} /\ Distinct(q.requests) /\ Distinct(q.envelopes)
  BY <1>4, EmptyList
<1>6. \A r \in Slots : Busy(q.req[r]) \/ r = 0 => Formed(q.req[r])
  BY <1>1, <1>3, NoRequestIs DEF W
<1>7. W(q, 0)
  BY <1>1, <1>4, <1>5, <1>6 DEF W, Listed
<1>8. ASSUME NEW x, Spare(p, x) PROVE Spare(q, x)
  BY <1>1, <1>3, <1>4, <1>5, <1>8, NoRequestIs DEF Spare, Loose
<1> QED
  BY <1>7, <1>8

\* What handshake() starts from.
Renewed(p)  == [p EXCEPT !.client = 0]
Shaking(p)  == [ClearBatch(p) EXCEPT !.held = TRUE, !.status = "handshaking"]
Prepared(p) == IF Disconnected(p) THEN Reset(Renewed(p)) ELSE Renewed(p)

LEMMA RenewedIs ==
  ASSUME NEW p \in PageRec, NEW q, q = Renewed(p)
  PROVE  /\ q \in PageRec /\ q.client = 0 /\ q.batch = p.batch /\ q.threw = p.threw /\ q.breaks = p.breaks
         /\ Wires(p, q) /\ Words(p, q) /\ Plan(p, q) /\ q.why = p.why /\ q.advice = p.advice
  BY DEF Renewed, PageRec, Wires, Words, Plan

LEMMA ShakingIs ==
  ASSUME NEW p \in PageRec, NEW q, q = Shaking(p)
  PROVE  /\ q \in PageRec /\ q.batch = 0 /\ q.held /\ q.status = "handshaking" /\ q.due = p.due
         /\ Wires(p, q) /\ Words(p, q) /\ q.why = p.why /\ q.advice = p.advice
         /\ q.client = p.client /\ q.threw = p.threw /\ q.breaks = p.breaks
<1>1. q = [p EXCEPT !.batch = 0, !.held = TRUE, !.status = "handshaking"]
  BY DEF Shaking, ClearBatch, PageRec
<1>2. 0 \in Int /\ TRUE \in BOOLEAN /\ "handshaking" \in Phases
  BY DEF Phases
<1>3. q \in PageRec
  BY ZenonT(60), <1>1, <1>2 DEF PageRec
<1> QED
  BY SMTT(60), <1>1, <1>3 DEF PageRec, Wires, Words

LEMMA WHandshake ==
  ASSUME NEW p, W(p, 0), ~p.threw, NEW x, Spare(p, x), NEW q, q = Handshake(p)
  PROVE  /\ W(q, 0) /\ ~q.threw /\ q.client = 0 /\ q.batch = 0 /\ q.queue \in {p.queue, <<>>} /\ p.why \subseteq q.why
<1> DEFINE a == Renewed(p)
           b == Prepared(p)
           c == Shaking(b)
           msgs == <<Meta("handshake")>>
<1>1. p \in PageRec
  BY WType
<1>2. /\ a \in PageRec /\ a.client = 0 /\ a.threw = p.threw /\ Wires(p, a) /\ Words(p, a) /\ a.why = p.why
  BY <1>1, RenewedIs
<1>3. a.queue = p.queue
  BY <1>2 DEF Words
<1>4. q = SendMessages(c, msgs, FALSE)
  BY DEF Handshake, Prepared, Shaking, Renewed
<1>5. b = a \/ b = Reset(a)
  BY DEF Prepared
<1> HIDE DEF a
<1>6. W(a, 0) /\ Spare(a, x)
  BY <1>2, <1>3, WSame, SpareSame
<1>7. /\ W(b, 0) /\ Spare(b, x) /\ b.client = 0 /\ b.threw = p.threw /\ b.queue = p.queue /\ b.why = p.why
  <2>1. CASE b = a
    BY <1>2, <1>3, <1>6, <2>1
  <2>2. CASE b = Reset(a)
    <3>1. Emptied(a, b)
      BY <1>2, <2>2, ResetIs
    <3>2. W(b, 0) /\ Spare(b, x)
      BY <1>6, <2>2, WReset
    <3> QED
      BY <1>2, <1>3, <3>1, <3>2 DEF Emptied, Calm
  <2> QED
    BY <1>5, <2>1, <2>2
<1> HIDE DEF b
<1>8. b \in PageRec
  BY <1>7, WType
<1>9. /\ c \in PageRec /\ c.batch = 0 /\ Wires(b, c) /\ Words(b, c) /\ c.why = b.why /\ c.client = b.client /\ c.threw = b.threw
  BY <1>8, ShakingIs
<1>10. c.queue = b.queue
  BY <1>9 DEF Words
<1> HIDE DEF c
<1>11. W(c, 0) /\ Spare(c, x)
  BY <1>7, <1>9, <1>10, WSame, SpareSame
<1>12. Free(c) # {} /\ FALSE \in BOOLEAN /\ ~c.threw
  BY <1>7, <1>9, <1>11, FreeSpare
<1>13. Fit(msgs, FALSE)
  <2>1. "handshake" \in Whats
    BY DEF Whats
  <2> HIDE DEF msgs
  <2>2. msgs = <<Meta("handshake")>>
    BY DEF msgs
  <2>3. msgs \in Seq(Msg) /\ OneMeta(msgs, "handshake")
    BY <2>1, <2>2, MetaIs
  <2> QED
    BY <2>3 DEF Fit
<1> HIDE DEF msgs
<1>14. W(q, 0) /\ ~q.threw /\ Fades(c, q) /\ c.why \subseteq q.why
  BY <1>4, <1>11, <1>12, <1>13, WSendMessages
<1> QED
  BY <1>7, <1>9, <1>10, <1>14 DEF Fades

-----------------------------------------------------------------------------
(* An answer.                                                              *)

LEMMA ActionIs ==
  ASSUME NEW p \in PageRec
  PROVE  Action(p) \in {"retry", "handshake", "none"}
  BY DEF Action, PageRec, Advice

Advised(p, msg) == IF msg.advice = "" THEN p ELSE [p EXCEPT !.advice = msg.advice]

LEMMA AdvisedIs ==
  ASSUME NEW p \in PageRec, NEW msg \in Ans, NEW q, q = Advised(p, msg)
  PROVE  Moves(p, q) /\ Plan(p, q) /\ q.why = p.why
<1>1. msg.advice \in Advice
  BY DEF Ans
<1> DEFINE a == msg.advice
<1> HIDE DEF a
<1>2. q = p \/ q = [p EXCEPT !.advice = a]
  BY DEF Advised, a
<1>3. a \in Advice
  BY <1>1 DEF a
<1> QED
  BY ZenonT(60), <1>2, <1>3 DEF PageRec, Moves, Wires, Words, Calm, Plan

\* A session is given.
Granted(p, c) == [p EXCEPT !.client = c]

LEMMA GrantedIs ==
  ASSUME NEW p \in PageRec, NEW c \in Nat, NEW q, q = Granted(p, c)
  PROVE  /\ q \in PageRec /\ q.client = c /\ q.batch = p.batch /\ q.threw = p.threw /\ q.breaks = p.breaks
         /\ Wires(p, q) /\ Words(p, q) /\ Plan(p, q) /\ q.why = p.why /\ q.advice = p.advice
  BY DEF Granted, PageRec, Wires, Words, Plan

LEMMA HandshakeResponseIs ==
  ASSUME NEW p \in PageRec, NEW msg \in Ans, NEW q, q = HandshakeResponse(p, msg)
  PROVE  /\ q \in PageRec /\ Wires(p, q) /\ Words(p, q) /\ q.batch = p.batch /\ q.breaks = p.breaks /\ p.why \subseteq q.why
         /\ ~msg.ok => q = HandshakeFailed(p)
         /\ msg.ok => /\ q.client = msg.client
                      /\ \/ q.threw /\ "unsupported" \in q.why /\ Plan(p, q)
                         \/ q.threw = p.threw /\ "none" \in q.why /\ Plan(p, q)
                         \/ q.threw = p.threw /\ q.why = p.why /\ q.status = "connecting" /\ q.due = "connect" /\ q.held = p.held
<1>0. msg.client \in Nat /\ msg.ok \in BOOLEAN /\ msg.unsupported \in BOOLEAN /\ {"none", "unsupported"} \subseteq Reasons
  BY DEF Ans, Reasons
<1>1. CASE ~msg.ok
  <2>1. q = HandshakeFailed(p)
    BY <1>1 DEF HandshakeResponse
  <2>2. Moves(p, q) /\ p.why \subseteq q.why
    BY <2>1, HandshakeFailedIs
  <2> QED
    BY <1>1, <2>1, <2>2 DEF Moves, Calm
<1>2. CASE msg.ok
  <2> DEFINE g == Granted(p, msg.client)
  <2>1. /\ g \in PageRec /\ g.client = msg.client /\ g.batch = p.batch /\ g.threw = p.threw /\ g.breaks = p.breaks
        /\ Wires(p, g) /\ Words(p, g) /\ Plan(p, g) /\ g.why = p.why
    BY <1>0, GrantedIs
  <2>2. \/ msg.unsupported /\ q = Because(Throw(g), "unsupported")
        \/ Action(g) = "retry" /\ q = DelayedConnect(g)
        \/ q = Because(g, "none")
    <3>1. q = CASE msg.unsupported     -> Because(Throw(g), "unsupported")
                [] Action(g) = "retry" -> DelayedConnect(g)
                [] OTHER               -> Because(g, "none")
      BY <1>2 DEF HandshakeResponse, Granted
    <3> HIDE DEF g
    <3>2. CASE msg.unsupported
      <4> DEFINE P1 == q = Because(Throw(g), "unsupported")
                 P2 == q = DelayedConnect(g)
                 P3 == q = Because(g, "none")
      <4> QED
        BY <1>2, <3>2 DEF HandshakeResponse, Granted, g
    <3>3. CASE ~msg.unsupported /\ Action(g) = "retry"
      BY <3>1, <3>3
    <3>4. CASE ~msg.unsupported /\ Action(g) # "retry"
      BY <3>1, <3>4
    <3> QED
      BY <3>2, <3>3, <3>4
  <2> HIDE DEF g
  <2>3. CASE q = Because(Throw(g), "unsupported")
    <3> DEFINE t == Throw(g)
    <3>1. t \in PageRec /\ t.threw /\ Wires(g, t) /\ Words(g, t) /\ Plan(g, t) /\ t.why = g.why
          /\ t.client = g.client /\ t.batch = g.batch /\ t.breaks = g.breaks
      BY <2>1 DEF Throw, PageRec, Wires, Words, Plan
    <3>3. q = Because(t, "unsupported")
      BY <2>3
    <3> HIDE DEF t
    <3>2. Moves(t, q) /\ Plan(t, q) /\ q.why = t.why \cup {"unsupported"}
      BY <1>0, <3>1, <3>3, BecauseIs
    <3> QED
      BY <1>2, <2>1, <3>1, <3>2 DEF Moves, Wires, Words, Calm, Plan
  <2>4. CASE q = DelayedConnect(g)
    <3>1. Moves(g, q) /\ q.status = "connecting" /\ q.due = "connect" /\ q.held = g.held /\ q.why = g.why
      BY <2>1, <2>4, DelayedConnectIs
    <3> QED
      BY <1>2, <2>1, <3>1 DEF Moves, Wires, Words, Calm, Plan
  <2>5. CASE q = Because(g, "none")
    <3>1. Moves(g, q) /\ Plan(g, q) /\ q.why = g.why \cup {"none"}
      BY <1>0, <2>1, <2>5, BecauseIs
    <3> QED
      BY <1>2, <2>1, <3>1 DEF Moves, Wires, Words, Calm, Plan
  <2> QED
    BY <2>2, <2>3, <2>4, <2>5
<1> QED
  BY <1>0, <1>1, <1>2

\* The queue is let out once the page is connected.
Connected(p, u) ==
  /\ Moves(p, u) /\ ~u.held /\ u.due = p.due /\ u.why = p.why
  /\ Disconnected(p) => u.status = p.status
  /\ ~Disconnected(p) => u.status \in {"connecting", "disconnecting"}

LEMMA ConnectResponseFails ==
  ASSUME NEW p \in PageRec, NEW msg \in Ans, ~msg.ok, NEW q, q = ConnectResponse(p, msg)
  PROVE  /\ Moves(p, q) /\ p.why \subseteq q.why
         /\ \/ ~Disconnected(p) /\ q.status = "connecting" /\ q.due = "connect" /\ q.held = p.held
            \/ ~Disconnected(p) /\ q.status = "handshaking" /\ q.due = "handshake" /\ q.held
            \/ q.status = "disconnected" /\ q.due = p.due /\ q.held = p.held /\ (Disconnected(p) \/ "none" \in q.why)
<1> DEFINE action == IF Disconnected(p) THEN "none" ELSE Action(p)
           z == IF Disconnected(p) THEN p ELSE Status(p, IF action = "retry" THEN "connecting" ELSE "disconnecting")
           w == IF Disconnected(p) THEN p.why ELSE p.why \cup {"none"}
           b == ResetBackoff(z)
<1>1. /\ action \in {"retry", "handshake", "none"}
      /\ Disconnected(p) => action = "none"
  BY ActionIs
<1>2. Moves(p, z) /\ z.due = p.due /\ z.held = p.held /\ z.why = p.why
  <2>1. CASE Disconnected(p)
    BY <2>1 DEF Moves, Wires, Words, Calm
  <2>2. CASE ~Disconnected(p) /\ action = "retry"
    <3>1. z = Status(p, "connecting") /\ "connecting" \in Phases
      BY <2>2 DEF Phases
    <3> HIDE DEF z
    <3> QED
      BY <3>1, StatusIs
  <2>3. CASE ~Disconnected(p) /\ action # "retry"
    <3>1. z = Status(p, "disconnecting") /\ "disconnecting" \in Phases
      BY <2>3 DEF Phases
    <3> HIDE DEF z
    <3> QED
      BY <3>1, StatusIs
  <2> QED
    BY <2>1, <2>2, <2>3
<1>3. q = CASE action = "retry"     -> DelayedConnect(IncreaseBackoff(z))
            [] action = "handshake" -> DelayedHandshake(b)
            [] action = "none"      -> [b EXCEPT !.status = "disconnected",
                                          !.why = IF Disconnected(p) THEN @ ELSE @ \cup {"none"}]
  BY DEF ConnectResponse
<1> HIDE DEF action, z
<1>4. z \in PageRec
  BY <1>2 DEF Moves
<1>5. CASE action = "retry"
  <2> DEFINE i == IncreaseBackoff(z)
  <2>1. q = DelayedConnect(i)
    BY <1>3, <1>5
  <2>2. Moves(z, i) /\ Plan(z, i) /\ i.why = z.why
    BY <1>4, BackoffIs
  <2> HIDE DEF i
  <2>3. Moves(i, q) /\ q.status = "connecting" /\ q.due = "connect" /\ q.held = i.held /\ q.why = i.why
    BY <2>1, <2>2, DelayedConnectIs DEF Moves
  <2> QED
    BY <1>1, <1>2, <1>5, <2>2, <2>3 DEF Moves, Wires, Words, Calm, Plan
<1>6. Moves(z, b) /\ Plan(z, b) /\ b.why = z.why
  BY <1>4, BackoffIs
<1>7. CASE action = "handshake"
  <2>1. q = DelayedHandshake(b)
    BY <1>3, <1>7
  <2> HIDE DEF b
  <2>2. Moves(b, q) /\ q.status = "handshaking" /\ q.due = "handshake" /\ q.held /\ q.why = b.why
    BY <1>6, <2>1, DelayedHandshakeIs DEF Moves
  <2> QED
    BY <1>1, <1>2, <1>6, <1>7, <2>2 DEF Moves, Wires, Words, Calm, Plan
<1>8. CASE action = "none"
  <2>1. q = [b EXCEPT !.status = "disconnected", !.why = IF Disconnected(p) THEN @ ELSE @ \cup {"none"}]
    BY <1>3, <1>8
  <2> HIDE DEF b
  <2>2. b \in PageRec /\ b.why = p.why
    BY <1>2, <1>6 DEF Moves
  <2>3. q = [b EXCEPT !.status = "disconnected", !.why = w]
    BY <2>1, <2>2 DEF PageRec
  <2>4. p.why \subseteq w /\ w \in SUBSET Reasons /\ (Disconnected(p) \/ "none" \in w)
    BY DEF PageRec, Reasons
  <2> HIDE DEF w
  <2>5. Moves(b, q) /\ q.status = "disconnected" /\ q.due = b.due /\ q.held = b.held /\ q.why = w
    BY ZenonT(60), <2>2, <2>3, <2>4 DEF PageRec, Moves, Wires, Words, Calm, Phases
  <2> QED
    BY <1>2, <1>6, <2>4, <2>5 DEF Moves, Wires, Words, Calm, Plan
<1> QED
  BY <1>1, <1>5, <1>7, <1>8

LEMMA ConnectResponseWorks ==
  ASSUME NEW p \in PageRec, NEW msg \in Ans, msg.ok, NEW q, q = ConnectResponse(p, msg),
         \A u : Connected(p, u) => FlushBatch(u) \in PageRec
  PROVE  \E u : /\ Connected(p, u) /\ Moves(FlushBatch(u), q) /\ FlushBatch(u).why \subseteq q.why
                /\ q.held = FlushBatch(u).held
                /\ \/ ~Disconnected(p) /\ q.status = "connecting" /\ q.due = "connect"
                   \/ q.status = "disconnected" /\ q.due = FlushBatch(u).due /\ (Disconnected(p) \/ "none" \in q.why)
<1> DEFINE action == IF Disconnected(p) THEN "none" ELSE Action(p)
           z == IF Disconnected(p) THEN p ELSE Status(p, IF action = "retry" THEN "connecting" ELSE "disconnecting")
           u == [z EXCEPT !.held = FALSE]
           s == FlushBatch(u)
           b == ResetBackoff(s)
           w == IF Disconnected(p) THEN s.why ELSE s.why \cup {"none"}
<1>1. action = "retry" => ~Disconnected(p)
  OBVIOUS
<1>2. /\ Moves(p, z) /\ z.due = p.due /\ z.why = p.why
      /\ Disconnected(p) => z.status = p.status
      /\ ~Disconnected(p) => z.status \in {"connecting", "disconnecting"}
  <2>1. CASE Disconnected(p)
    BY <2>1 DEF Moves, Wires, Words, Calm
  <2>2. CASE ~Disconnected(p) /\ action = "retry"
    <3>1. z = Status(p, "connecting") /\ "connecting" \in Phases
      BY <2>2 DEF Phases
    <3> HIDE DEF z
    <3>2. Moves(p, z) /\ z.due = p.due /\ z.why = p.why /\ z.status = "connecting"
      BY <3>1, StatusIs
    <3> QED
      BY <2>2, <3>2
  <2>3. CASE ~Disconnected(p) /\ action # "retry"
    <3>1. z = Status(p, "disconnecting") /\ "disconnecting" \in Phases
      BY <2>3 DEF Phases
    <3> HIDE DEF z
    <3>2. Moves(p, z) /\ z.due = p.due /\ z.why = p.why /\ z.status = "disconnecting"
      BY <3>1, StatusIs
    <3> QED
      BY <2>3, <3>2
  <2> QED
    BY <2>1, <2>2, <2>3
<1>3. q = IF action = "retry" THEN DelayedConnect(b)
          ELSE [b EXCEPT !.status = "disconnected", !.why = IF Disconnected(p) THEN @ ELSE @ \cup {"none"}]
  BY DEF ConnectResponse
<1> HIDE DEF z
<1>4. Connected(p, u)
  <2>1. z \in PageRec
    BY <1>2 DEF Moves
  <2>2. u \in PageRec /\ ~u.held /\ u.status = z.status /\ u.due = z.due /\ u.why = z.why /\ Wires(z, u) /\ Words(z, u) /\ Calm(z, u)
    BY <2>1 DEF PageRec, Wires, Words, Calm
  <2> HIDE DEF u
  <2> QED
    BY <1>2, <2>2 DEF Connected, Moves, Wires, Words, Calm
<1> HIDE DEF action, u
<1>5. s \in PageRec
  BY <1>4
<1> HIDE DEF s
<1>6. Moves(s, b) /\ Plan(s, b) /\ b.why = s.why
  BY <1>5, BackoffIs
<1>7. /\ Moves(s, q) /\ s.why \subseteq q.why /\ q.held = s.held
      /\ \/ ~Disconnected(p) /\ q.status = "connecting" /\ q.due = "connect"
         \/ q.status = "disconnected" /\ q.due = s.due /\ (Disconnected(p) \/ "none" \in q.why)
  <2>1. CASE action = "retry"
    <3>1. q = DelayedConnect(b)
      BY <1>3, <2>1
    <3> HIDE DEF b
    <3>2. Moves(b, q) /\ q.status = "connecting" /\ q.due = "connect" /\ q.held = b.held /\ q.why = b.why
      BY <1>6, <3>1, DelayedConnectIs DEF Moves
    <3> QED
      BY <1>1, <1>6, <2>1, <3>2 DEF Moves, Wires, Words, Calm, Plan
  <2>2. CASE action # "retry"
    <3>1. q = [b EXCEPT !.status = "disconnected", !.why = IF Disconnected(p) THEN @ ELSE @ \cup {"none"}]
      BY <1>3, <2>2
    <3> HIDE DEF b
    <3>2. b \in PageRec
      BY <1>6 DEF Moves
    <3>3. q = [b EXCEPT !.status = "disconnected", !.why = w]
      BY <1>6, <3>1, <3>2 DEF PageRec
    <3>4. s.why \subseteq w /\ w \in SUBSET Reasons /\ (Disconnected(p) \/ "none" \in w)
      BY <1>5 DEF PageRec, Reasons
    <3> HIDE DEF w
    <3>5. Moves(b, q) /\ q.status = "disconnected" /\ q.due = b.due /\ q.held = b.held /\ q.why = w
      <4>1. q \in PageRec
        BY ZenonT(60), <3>2, <3>3, <3>4 DEF PageRec, Phases
      <4>2. q.status = "disconnected" /\ q.why = w
        BY <3>2, <3>3 DEF PageRec
      <4> QED
        BY <3>2, <3>3, <4>1, <4>2 DEF PageRec, Moves, Wires, Words, Calm
    <3> QED
      BY <1>6, <3>4, <3>5 DEF Moves, Wires, Words, Calm, Plan
  <2> QED
    BY <2>1, <2>2
<1> QED
  BY <1>4, <1>7 DEF s

LEMMA ReceiveIs ==
  ASSUME NEW p \in PageRec, ~p.threw, NEW msg \in Ans, NEW q, q = Receive(p, msg)
  PROVE  /\ msg.what = "handshake"  => q = HandshakeResponse(Advised(p, msg), msg)
         /\ msg.what = "connect"    => q = ConnectResponse(Advised(p, msg), msg)
         /\ msg.what = "disconnect" => q = Disconnect(Advised(p, msg), ~msg.ok)
  BY DEF Receive, Advised

\* What is made of the answer to msgs.
Received(p, q, msgs, reply) ==
  \/ Batch(msgs) /\ q = TellAll(p, Published(msgs))
  \/ \E w \in {"handshake", "connect", "disconnect"} :
       OneMeta(msgs, w) /\ reply[1] \in Ans /\ reply[1].what = w /\ q = Receive(p, reply[1])

LEMMA WReceiveConnect ==
  ASSUME NEW p, W(p, 0), ~p.threw, NEW x, Spare(p, x), NEW msg \in Ans, NEW q, q = ConnectResponse(p, msg)
  PROVE  W(q, 0) /\ Fades(p, q) /\ p.why \subseteq q.why
<1>0. p \in PageRec /\ msg.ok \in BOOLEAN
  BY WType DEF Ans
<1>1. CASE ~msg.ok
  <2>1. Moves(p, q) /\ p.why \subseteq q.why
    BY <1>0, <1>1, ConnectResponseFails
  <2>2. q \in PageRec /\ Wires(p, q) /\ q.queue = p.queue /\ q.client = p.client /\ q.batch = p.batch
    BY <2>1 DEF Moves, Words, Calm
  <2> QED
    BY <2>1, <2>2, WSame DEF Fades
<1>2. CASE msg.ok
  <2>1. ASSUME NEW u, Connected(p, u)
        PROVE  W(u, 0) /\ ~u.threw /\ Spare(u, x) /\ Fades(p, u) /\ p.why = u.why
    <3>1. u \in PageRec /\ Wires(p, u) /\ u.queue = p.queue /\ u.why = p.why /\ u.client = p.client /\ u.batch = p.batch
          /\ u.threw = p.threw
      BY <2>1 DEF Connected, Moves, Words, Calm
    <3>2. W(u, 0)
      BY <3>1, WSame
    <3> QED
      BY <3>1, <3>2, SpareSame DEF Fades
  <2>2. ASSUME NEW u, Connected(p, u), NEW s, s = FlushBatch(u)
        PROVE  W(s, 0) /\ s \in PageRec /\ Fades(u, s) /\ u.why \subseteq s.why
    BY <2>1, <2>2, WFlushBatch, WType
  <2>3. PICK u : Connected(p, u) /\ Moves(FlushBatch(u), q) /\ FlushBatch(u).why \subseteq q.why
    <3>1. \A u : Connected(p, u) => FlushBatch(u) \in PageRec
      BY <2>2
    <3> QED
      BY <1>0, <1>2, <3>1, ConnectResponseWorks
  <2> DEFINE s == FlushBatch(u)
  <2>4. W(s, 0) /\ Fades(u, s) /\ u.why \subseteq s.why /\ Moves(s, q) /\ s.why \subseteq q.why
    BY <2>2, <2>3
  <2> HIDE DEF s
  <2>5. q \in PageRec /\ Wires(s, q) /\ q.queue = s.queue /\ q.client = s.client /\ q.batch = s.batch
    BY <2>4 DEF Moves, Words, Calm
  <2>6. W(q, 0)
    BY <2>4, <2>5, WSame
  <2> QED
    BY <2>1, <2>3, <2>4, <2>5, <2>6 DEF Fades
<1> QED
  BY <1>0, <1>1, <1>2

LEMMA WReceived ==
  ASSUME NEW p, W(p, 0), ~p.threw, NEW x, Spare(p, x), NEW msgs, NEW reply, NEW q, Received(p, q, msgs, reply)
  PROVE  /\ W(q, 0) /\ p.why \subseteq q.why /\ q.batch \in {p.batch, 0} /\ q.queue \in {p.queue, <<>>}
         /\ \/ q.client \in {p.client, 0}
            \/ OneMeta(msgs, "handshake") /\ q.client = reply[1].client
<1>0. p \in PageRec
  BY WType
<1>1. CASE Batch(msgs) /\ q = TellAll(p, Published(msgs))
  <2> DEFINE M == Published(msgs)
  <2>0. q = TellAll(p, M)
    BY <1>1
  <2> HIDE DEF M
  <2>1. q \in PageRec /\ Wires(p, q) /\ q.queue = p.queue /\ q.why = p.why /\ Calm(p, q)
    BY <1>0, <2>0, TellAllIs
  <2>2. W(q, 0)
    BY <2>1, WSame
  <2> QED
    BY <2>1, <2>2 DEF Calm
<1>2. CASE \E w \in {"handshake", "connect", "disconnect"} :
             OneMeta(msgs, w) /\ reply[1] \in Ans /\ reply[1].what = w /\ q = Receive(p, reply[1])
  <2> DEFINE msg == reply[1]
             a == Advised(p, msg)
  <2>1. msg \in Ans /\ q = Receive(p, msg) /\ msg.what \in {"handshake", "connect", "disconnect"} /\ msg.ok \in BOOLEAN
        /\ OneMeta(msgs, msg.what)
    BY <1>2 DEF Ans
  <2> HIDE DEF msg
  <2>2. Moves(p, a) /\ a.why = p.why
    BY <1>0, <2>1, AdvisedIs
  <2>3. /\ msg.what = "handshake"  => q = HandshakeResponse(a, msg)
        /\ msg.what = "connect"    => q = ConnectResponse(a, msg)
        /\ msg.what = "disconnect" => q = Disconnect(a, ~msg.ok)
    BY <1>0, <2>1, ReceiveIs
  <2> HIDE DEF a
  <2>4. a \in PageRec /\ Wires(p, a) /\ a.queue = p.queue /\ a.client = p.client /\ a.batch = p.batch /\ a.threw = p.threw
    BY <2>2 DEF Moves, Words, Calm
  <2>5. W(a, 0) /\ Spare(a, x) /\ ~a.threw
    BY <2>2, <2>4, WSame, SpareSame
  <2>6. CASE msg.what = "handshake"
    <3>1. q = HandshakeResponse(a, msg)
      BY <2>3, <2>6
    <3>2. /\ q \in PageRec /\ Wires(a, q) /\ Words(a, q) /\ q.batch = a.batch /\ a.why \subseteq q.why
          /\ ~msg.ok => q = HandshakeFailed(a)
          /\ msg.ok => q.client = msg.client
      BY <2>1, <2>4, <3>1, HandshakeResponseIs
    <3>3. W(q, 0)
      BY <2>5, <3>2, WSame DEF Words
    <3>4. ~msg.ok => q.client = a.client
      BY <2>4, <3>2, HandshakeFailedIs DEF Moves, Calm
    <3> QED
      BY <2>1, <2>2, <2>4, <2>6, <3>2, <3>3, <3>4 DEF Words, msg
  <2>7. CASE msg.what = "connect"
    <3>1. q = ConnectResponse(a, msg)
      BY <2>3, <2>7
    <3>2. W(q, 0) /\ Fades(a, q) /\ a.why \subseteq q.why
      BY <2>1, <2>5, <3>1, WReceiveConnect
    <3> QED
      BY <2>2, <2>4, <3>2 DEF Fades
  <2>8. CASE msg.what = "disconnect"
    <3> DEFINE t == ~msg.ok
    <3>1. q = Disconnect(a, t) /\ t \in BOOLEAN
      BY <2>1, <2>3, <2>8
    <3> HIDE DEF t
    <3>2. W(q, 0)
      BY <2>5, <3>1, WDisconnect
    <3>3. q.client = 0 /\ q.batch = 0 /\ q.queue = <<>> /\ q.why = a.why
      BY <2>4, <3>1, DisconnectIs
    <3> QED
      BY <2>2, <3>2, <3>3
  <2> QED
    BY <2>1, <2>6, <2>7, <2>8
<1> QED
  BY <1>1, <1>2 DEF Received

Passed(p, r) == IF p.req[r].poll THEN LetGo(p, r) ELSE SendNext(LetGo(p, r))

LEMMA HandleResponseIs ==
  ASSUME NEW p, NEW r \in Slots, W(p, r), ~p.threw, Echoes(p.req[r].reply, p.req[r].msgs), NEW q, q = HandleResponse(p, r)
  PROVE  /\ Clash(p, r) => q = LetGo(p, r)
         /\ ~Clash(p, r) => /\ W(Passed(p, r), 0) /\ ~Passed(p, r).threw /\ Fades(p, Passed(p, r))
                            /\ p.why \subseteq Passed(p, r).why
                            /\ \A x : Spare(p, x) => Spare(Passed(p, r), x)
                            /\ Received(Passed(p, r), q, p.req[r].msgs, p.req[r].reply)
<1> DEFINE g == LetGo(p, r)
           s == Passed(p, r)
           msgs == p.req[r].msgs
           reply == p.req[r].reply
           f == CHOOSE h : h = [i \in 0..Len(reply) |-> IF i = 0 THEN s ELSE Receive(h[i-1], reply[i])]
<1>1. p \in PageRec /\ Distinct(p.requests) /\ Formed(p.req[r]) /\ p.threw \in BOOLEAN /\ r # 0
  BY CometdAssumption DEF W, PageRec
<1>2. /\ Same(p, g) /\ p.why \subseteq g.why /\ W(g, r)
      /\ Clash(p, r) => g.threw
      /\ ~Clash(p, r) => ~g.threw /\ W(g, 0)
  <2>1. W(g, r) /\ (~Clash(p, r) => Loose(g, r))
    BY WLetGo
  <2>2. ~Clash(p, r) => W(g, 0)
    BY <1>1, <2>1, WLoose
  <2> QED
    BY <1>1, <2>1, <2>2, LetGoIs
<1>3. ASSUME NEW x, Spare(p, x) PROVE Spare(g, x)
  BY <1>1, <1>3, SpareLetGo
<1>4. q = IF g.threw THEN g ELSE f[Len(reply)]
  BY DEF HandleResponse, Passed
<1>5. (p.req[r].poll /\ s = g) \/ (~p.req[r].poll /\ s = SendNext(g))
  BY DEF Passed
<1> HIDE DEF g, s
<1>6. g.client = p.client /\ g.batch = p.batch /\ g.queue = p.queue
  BY <1>2 DEF Same, Words
<1>7. ASSUME ~Clash(p, r)
      PROVE  W(s, 0) /\ ~s.threw /\ Fades(p, s) /\ p.why \subseteq s.why /\ \A x : Spare(p, x) => Spare(s, x)
  <2>1. CASE s = g
    BY <1>2, <1>3, <1>6, <1>7, <2>1 DEF Fades
  <2>2. CASE s = SendNext(g)
    <3>1. W(s, 0) /\ ~s.threw /\ Fades(g, s) /\ g.why \subseteq s.why /\ \A x : Spare(g, x) => Spare(s, x)
      BY <1>2, <1>7, <2>2, WSendNext
    <3> QED
      BY <1>2, <1>3, <1>6, <3>1 DEF Fades
  <2> QED
    BY <1>5, <2>1, <2>2
<1>8. msgs \in Seq(Msg) /\ reply \in Seq(Ans) /\ Echoes(reply, msgs)
  BY <1>1 DEF PageRec, Request
<1>9. OneMeta(msgs, "handshake") \/ OneMeta(msgs, "connect") \/ OneMeta(msgs, "disconnect") \/ Batch(msgs)
  BY <1>1 DEF Formed
<1> HIDE DEF msgs, reply
<1>10. ASSUME ~Clash(p, r), Batch(msgs) PROVE f[Len(reply)] = TellAll(s, Published(msgs))
  <2>1. s \in PageRec /\ ~s.threw
    BY <1>7, <1>10, WType
  <2> QED
    BY <1>8, <1>10, <2>1, ReceiveBatch
<1>11. ASSUME NEW w \in {"handshake", "connect", "disconnect"}, OneMeta(msgs, w)
       PROVE  f[Len(reply)] = Receive(s, reply[1]) /\ reply[1] \in Ans /\ reply[1].what = w
  <2>1. Len(reply) = 1
    BY <1>8, <1>11 DEF OneMeta, Echoes
  <2>2. reply[1] \in Ans
    <3>1. 1 \in 1..Len(reply)
      BY <2>1
    <3> QED
      BY <1>8, <3>1, ElementOfSeq
  <2>3. 1 \in DOMAIN msgs
    <3>1. DOMAIN msgs = 1..Len(msgs)
      BY <1>8, Members
    <3> QED
      BY <1>11, <3>1 DEF OneMeta
  <2>4. reply[1].what = w
    BY <1>8, <1>11, <2>3 DEF OneMeta, Echoes
  <2> QED
    BY <2>1, <2>2, <2>4, ReceiveOne
<1> HIDE DEF f
<1>12. ASSUME ~Clash(p, r) PROVE Received(s, q, msgs, reply)
  <2>1. q = f[Len(reply)]
    BY <1>2, <1>4, <1>12
  <2>2. CASE Batch(msgs)
    BY <1>10, <1>12, <2>1, <2>2 DEF Received
  <2>3. CASE \E w \in {"handshake", "connect", "disconnect"} : OneMeta(msgs, w)
    <3>1. PICK w \in {"handshake", "connect", "disconnect"} : OneMeta(msgs, w)
      BY <2>3
    <3>2. f[Len(reply)] = Receive(s, reply[1]) /\ reply[1] \in Ans /\ reply[1].what = w
      BY <1>11, <3>1
    <3> QED
      BY <2>1, <3>1, <3>2 DEF Received
  <2> QED
    BY <1>9, <2>2, <2>3
<1> QED
  BY <1>2, <1>4, <1>7, <1>12 DEF g, s, msgs, reply

LEMMA WHandleResponse ==
  ASSUME NEW p, NEW r \in Slots, W(p, r), ~p.threw, Echoes(p.req[r].reply, p.req[r].msgs), NEW x, Spare(p, x),
         NEW q, q = HandleResponse(p, r)
  PROVE  /\ W(q, 0) /\ p.why \subseteq q.why /\ q.batch \in {p.batch, 0} /\ q.queue \in {p.queue, <<>>}
         /\ \/ q.client \in {p.client, 0}
            \/ OneMeta(p.req[r].msgs, "handshake") /\ q.client = p.req[r].reply[1].client
<1>1. CASE Clash(p, r)
  <2>1. q = LetGo(p, r) /\ p \in PageRec /\ Distinct(p.requests)
    BY <1>1, HandleResponseIs, WType
  <2>2. W(q, 0)
    BY <1>1, <2>1, WLetGo
  <2>3. Same(p, q) /\ p.why \subseteq q.why
    BY <2>1, LetGoIs
  <2> QED
    BY <2>2, <2>3 DEF Same, Words
<1>2. CASE ~Clash(p, r)
  <2> DEFINE s == Passed(p, r)
  <2>1. W(s, 0) /\ ~s.threw /\ Fades(p, s) /\ p.why \subseteq s.why /\ Spare(s, x)
        /\ Received(s, q, p.req[r].msgs, p.req[r].reply)
    BY <1>2, HandleResponseIs
  <2> HIDE DEF s
  <2> DEFINE msgs == p.req[r].msgs
             reply == p.req[r].reply
  <2> HIDE DEF msgs, reply
  <2>2. Received(s, q, msgs, reply)
    BY <2>1 DEF msgs, reply
  <2>3. /\ W(q, 0) /\ s.why \subseteq q.why /\ q.batch \in {s.batch, 0} /\ q.queue \in {s.queue, <<>>}
        /\ \/ q.client \in {s.client, 0}
           \/ OneMeta(msgs, "handshake") /\ q.client = reply[1].client
    BY <2>1, <2>2, WReceived
  <2> QED
    BY <2>1, <2>3 DEF Fades, msgs, reply
<1> QED
  BY <1>1, <1>2

LEMMA WHandleFailure ==
  ASSUME NEW p, NEW r \in Slots, W(p, r), ~p.threw, NEW q, q = HandleFailure(p, r)
  PROVE  W(q, 0) /\ Shrinks(p, q) /\ p.why \subseteq q.why
<1> DEFINE g == LetGo(p, r)
           s == Dropped(p, r)
<1>1. p \in PageRec /\ Distinct(p.requests) /\ Formed(p.req[r]) /\ p.threw \in BOOLEAN /\ r # 0 /\ 0 \notin Slots
  BY CometdAssumption DEF W, PageRec
<1>2. W(g, r) /\ (Clash(p, r) => W(g, 0)) /\ (~Clash(p, r) => Loose(g, r))
  BY WLetGo
<1>3. Same(p, g) /\ p.why \subseteq g.why /\ (Clash(p, r) => g.threw) /\ (~Clash(p, r) => ~g.threw)
  BY <1>1, LetGoIs
<1>4. (g.threw => q = g) /\ (~g.threw => Reports(s, q, p.req[r].msgs))
  BY <1>1, HandleFailureIs
<1>5. s = g \/ s = GiveUpNext(g)
  BY DEF Dropped
<1>6. s \in PageRec /\ p.why \subseteq s.why /\ Shrinks(p, s)
  BY <1>1, DroppedSent, DroppedShrinks
<1> HIDE DEF s
<1>7. CASE Clash(p, r)
  <2>1. q = g
    BY <1>3, <1>4, <1>7
  <2>2. g.longpoll = p.longpoll
    BY <1>1, <1>7, LetGoClash
  <2> HIDE DEF g
  <2> QED
    BY <1>2, <1>3, <1>7, <2>1, <2>2 DEF Same, Words, Shrinks
<1> HIDE DEF g
<1>8. CASE ~Clash(p, r)
  <2>1. W(s, r) /\ Loose(s, r)
    BY <1>2, <1>5, <1>8, WGiveUpNext
  <2> DEFINE msgs == p.req[r].msgs
  <2> HIDE DEF msgs
  <2>2. Reports(s, q, msgs)
    BY <1>3, <1>4, <1>8 DEF msgs
  <2>3. W(q, r) /\ Loose(q, r)
    BY <2>1, <2>2, WReports
  <2>4. W(q, 0)
    BY <1>1, <2>3, WLoose
  <2>5. Shrinks(s, q) /\ s.why \subseteq q.why
    BY <1>6, <2>2, ReportsShrinks, ReportsSent
  <2> QED
    BY <1>6, <2>4, <2>5 DEF Shrinks
<1> QED
  BY <1>7, <1>8

-----------------------------------------------------------------------------
(* A turn ends.                                                            *)

Settled(p) == [p EXCEPT !.threw = FALSE, !.req = [r \in Slots |-> IF r \in Free(p) THEN NoRequest ELSE p.req[r]]]

LEMMA SettledIs ==
  ASSUME NEW p \in PageRec, NEW q, q = Settled(p)
  PROVE  /\ q \in PageRec /\ ~q.threw /\ q.requests = p.requests /\ q.envelopes = p.envelopes /\ q.longpoll = p.longpoll
         /\ Words(p, q) /\ Plan(p, q) /\ q.client = p.client /\ q.batch = p.batch /\ q.breaks = p.breaks
         /\ q.why = p.why /\ q.advice = p.advice
         /\ \A r \in Slots : (Spare(p, r) => q.req[r] = NoRequest) /\ (~Spare(p, r) => q.req[r] = p.req[r])
<1> DEFINE req == [r \in Slots |-> IF r \in Free(p) THEN NoRequest ELSE p.req[r]]
<1>1. req \in [Slots -> Request]
  BY NoRequestIs DEF PageRec
<1>2. q = [p EXCEPT !.threw = FALSE, !.req = req]
  BY DEF Settled
<1>3. \A r \in Slots : (Spare(p, r) => req[r] = NoRequest) /\ (~Spare(p, r) => req[r] = p.req[r])
  BY FreeSpare
<1> HIDE DEF req
<1>4. FALSE \in BOOLEAN
  OBVIOUS
<1>5. /\ q \in PageRec /\ ~q.threw /\ q.req = req
      /\ q.requests = p.requests /\ q.envelopes = p.envelopes /\ q.longpoll = p.longpoll
      /\ Words(p, q) /\ Plan(p, q) /\ q.client = p.client /\ q.batch = p.batch /\ q.breaks = p.breaks
      /\ q.why = p.why /\ q.advice = p.advice
  BY ZenonT(60), <1>1, <1>2, <1>4 DEF PageRec, Words, Plan
<1> QED
  BY <1>3, <1>5

LEMMA WSettled ==
  ASSUME NEW p, W(p, 0), NEW q, q = Settled(p)
  PROVE  W(q, 0)
<1>1. p \in PageRec /\ 0 \notin Slots
  BY WType, CometdAssumption
<1>2. /\ q \in PageRec /\ q.requests = p.requests /\ q.envelopes = p.envelopes /\ q.longpoll = p.longpoll
      /\ q.queue = p.queue /\ q.why = p.why
  <2>1. Words(p, q) /\ q.why = p.why /\ q \in PageRec /\ q.requests = p.requests /\ q.envelopes = p.envelopes
        /\ q.longpoll = p.longpoll
    BY <1>1, SettledIs
  <2> QED
    BY <2>1 DEF Words
<1>3. \A r \in Slots : (Spare(p, r) => q.req[r] = NoRequest) /\ (~Spare(p, r) => q.req[r] = p.req[r])
  BY <1>1, SettledIs
<1>4. ToSet(p.requests) \subseteq Slots /\ ToSet(p.envelopes) \subseteq Slots /\ p.longpoll \in Slots \cup {0}
  BY <1>1, Members DEF PageRec
<1>5. \A r \in Listed(p) \cup {p.longpoll} : r # 0 => r \in Slots /\ q.req[r] = p.req[r]
  BY <1>1, <1>3, <1>4 DEF Listed, Spare, Loose
<1>6. \A r \in ToSet(q.envelopes) : r # 0 /\ q.req[r].xhr = "waiting" /\ ~q.req[r].timer
  BY <1>1, <1>2, <1>4, <1>5 DEF W, Listed
<1>7. \A r \in Listed(q) : ~q.req[r].poll
  BY <1>1, <1>2, <1>4, <1>5 DEF W, Listed
<1>8. \A r \in Slots : Busy(q.req[r]) \/ r = 0 => Formed(q.req[r])
  BY <1>1, <1>3, NoRequestIs DEF W
<1>9. q.longpoll # 0 => q.req[q.longpoll].poll /\ (Busy(q.req[q.longpoll]) \/ "garbled" \in q.why \/ q.longpoll = 0)
  BY <1>2, <1>5 DEF W
<1> QED
  BY <1>2, <1>6, <1>7, <1>8, <1>9 DEF W

LEMMA EndOfTurn ==
  ASSUME NEW q, W(q, 0), Turn(q), granted' = granted
  PROVE  /\ W(page, 0)' /\ ~page'.threw /\ page' = Settled(q)
         /\ page'.client = q.client /\ page'.batch = q.batch /\ page'.queue = q.queue /\ page'.why = q.why
<1>1. page' = Settled(q)
  BY DEF Turn, Settled
<1> DEFINE n == page'
<1> HIDE DEF n
<1>2. n = Settled(q)
  BY <1>1 DEF n
<1>3. W(n, 0)
  BY <1>2, WSettled
<1>4. q \in PageRec
  BY WType
<1>5. Words(q, n) /\ ~n.threw /\ n.client = q.client /\ n.batch = q.batch /\ n.why = q.why
  BY <1>2, <1>4, SettledIs
<1>6. W(page, 0)'
  BY <1>3 DEF W, Formed, Known, n
<1> QED
  BY <1>1, <1>5, <1>6 DEF Words, n

-----------------------------------------------------------------------------
(* The invariant.                                                          *)

\* The page counts with what there is.
Dated ==
  /\ granted \in Nat /\ sessions \subseteq 1..granted /\ page.client \in 0..granted
  /\ asked \in 0..MaxMessages /\ Published(page.queue) \subseteq 1..asked
  /\ opened \in BOOLEAN /\ spent \in [Event -> Nat]
  /\ opened => page.batch \in {0, 1}
  /\ ~opened => page.batch \in {-1, 0}

\* The requests are in order, and the page counts with what there is.
Wired == W(page, 0) /\ ~page.threw /\ Dated

LEMMA SpendIs ==
  ASSUME NEW e \in Event, spent \in [Event -> Nat], Spend(e)
  PROVE  spent' \in [Event -> Nat]
<1>1. spent' = [spent EXCEPT ![e] = @ + 1]
  BY Zenon DEF Spend
<1> QED
  BY <1>1

LEMMA RoomIs ==
  ASSUME Wired, Room
  PROVE  \E x : Spare(page, x)
<1>1. Free(page) # {}
  BY FS_EmptySet DEF Room
<1>2. page \in PageRec
  BY DEF Wired, W
<1> QED
  BY <1>1, <1>2, FreeSpare

\* A turn in which nothing is asked for.
LEMMA WiredTurn ==
  ASSUME Wired, NEW q, W(q, 0), Turn(q), UNCHANGED <<sessions, granted, asked, opened>>, spent' \in [Event -> Nat],
         q.client \in 0..granted, q.batch \in {page.batch, 0}, q.queue \in {page.queue, <<>>}
  PROVE  Wired'
<1>1. /\ W(page, 0)' /\ ~page'.threw /\ page'.client = q.client /\ page'.batch = q.batch /\ page'.queue = q.queue
  BY EndOfTurn
<1>2. Published(<<>>) = {}
  BY EmptySeq DEF Published
<1>3. Published(page'.queue) \subseteq 1..asked
  BY <1>1, <1>2 DEF Wired, Dated
<1> QED
  BY <1>1, <1>3 DEF Wired, Dated

LEMMA WiredAppHandshake ==
  ASSUME Wired, Room, AppHandshake
  PROVE  Wired'
<1> DEFINE w == IF page.due # "none" THEN page.why \cup {"overtaken"} ELSE page.why
           p == [page EXCEPT !.status = "disconnected", !.why = w]
           q == Handshake(p)
<1>1. W(page, 0) /\ ~page.threw /\ page \in PageRec /\ Dated
  BY WType DEF Wired
<1>2. w \in SUBSET Reasons /\ page.why \subseteq w /\ "disconnected" \in Phases
  BY <1>1 DEF PageRec, Reasons, Phases
<1>3. Turn(q)
  <2>1. [page EXCEPT !.status = "disconnected", !.why = IF page.due # "none" THEN @ \cup {"overtaken"} ELSE @] = p
    BY <1>1 DEF PageRec
  <2> QED
    BY <2>1 DEF AppHandshake
<1> HIDE DEF w
<1>4. p \in PageRec /\ Wires(page, p) /\ p.queue = page.queue /\ p.why = w /\ p.threw = page.threw
  BY <1>1, <1>2 DEF PageRec, Wires
<1> HIDE DEF p
<1>5. PICK x : Spare(p, x)
  BY <1>4, RoomIs, SpareSame
<1>6. W(p, 0)
  BY <1>1, <1>2, <1>4, WSame
<1>7. W(q, 0) /\ q.client = 0 /\ q.batch = 0 /\ q.queue \in {p.queue, <<>>}
  BY <1>1, <1>4, <1>5, <1>6, WHandshake
<1>8. spent' \in [Event -> Nat]
  BY <1>1, SpendIs DEF AppHandshake, Dated, Event
<1>9. q.client \in 0..granted
  BY <1>1, <1>7 DEF Dated
<1> HIDE DEF q
<1> QED
  BY <1>3, <1>4, <1>7, <1>8, <1>9, WiredTurn DEF AppHandshake

LEMMA FadesClient ==
  ASSUME Dated, NEW p, NEW q, Fades(p, q), p.client = page.client, p.batch = page.batch, p.queue = page.queue
  PROVE  q.client \in 0..granted /\ q.batch \in {page.batch, 0} /\ q.queue \in {page.queue, <<>>}
  BY DEF Fades, Dated

LEMMA WiredAppDisconnect ==
  ASSUME Wired, Room, AppDisconnect
  PROVE  Wired'
<1> DEFINE p == Status(page, "disconnecting")
           msgs == <<Meta("disconnect")>>
           q == SendMessages(p, msgs, FALSE)
<1>1. W(page, 0) /\ ~page.threw /\ page \in PageRec /\ Dated /\ "disconnecting" \in Phases
  BY WType DEF Wired, Phases
<1>2. Moves(page, p) /\ p.why = page.why
  BY <1>1, StatusIs
<1>3. Turn(q)
  BY DEF AppDisconnect
<1>4. Fit(msgs, FALSE)
  <2>1. "disconnect" \in Whats
    BY DEF Whats
  <2> HIDE DEF msgs
  <2>2. msgs = <<Meta("disconnect")>>
    BY DEF msgs
  <2>3. msgs \in Seq(Msg) /\ OneMeta(msgs, "disconnect")
    BY <2>1, <2>2, MetaIs
  <2> QED
    BY <2>3 DEF Fit
<1> HIDE DEF p, msgs
<1>5. p \in PageRec /\ Wires(page, p) /\ p.queue = page.queue /\ p.client = page.client /\ p.batch = page.batch
      /\ p.threw = page.threw
  BY <1>2 DEF Moves, Words, Calm
<1>6. PICK x : Spare(p, x)
  BY <1>5, RoomIs, SpareSame
<1>7. W(p, 0) /\ Free(p) # {} /\ FALSE \in BOOLEAN
  BY <1>1, <1>2, <1>5, <1>6, WSame, FreeSpare
<1>8. W(q, 0) /\ Fades(p, q)
  BY <1>1, <1>4, <1>5, <1>7, WSendMessages
<1>9. spent' \in [Event -> Nat]
  BY <1>1, SpendIs DEF AppDisconnect, Dated, Event
<1> HIDE DEF q
<1>10. q.client \in 0..granted /\ q.batch \in {page.batch, 0} /\ q.queue \in {page.queue, <<>>}
  BY <1>1, <1>5, <1>8, FadesClient
<1> QED
  BY <1>3, <1>8, <1>9, <1>10, WiredTurn DEF AppDisconnect

LEMMA WiredDue ==
  ASSUME Wired, Room, Due
  PROVE  Wired'
<1> DEFINE p == [page EXCEPT !.due = "none"]
           q == IF page.due = "connect" THEN Connect(p) ELSE Handshake(p)
<1>1. W(page, 0) /\ ~page.threw /\ page \in PageRec /\ Dated
  BY WType DEF Wired
<1>2. p \in PageRec /\ Wires(page, p) /\ p.queue = page.queue /\ p.why = page.why /\ p.threw = page.threw
      /\ p.client = page.client /\ p.batch = page.batch
  BY <1>1 DEF PageRec, Wires
<1>3. Turn(q)
  BY DEF Due
<1>4. q = Connect(p) \/ q = Handshake(p)
  OBVIOUS
<1> HIDE DEF p, q
<1>5. PICK x : Spare(p, x)
  BY <1>2, RoomIs, SpareSame
<1>6. W(p, 0)
  BY <1>1, <1>2, WSame
<1>7. W(q, 0) /\ q.client \in {p.client, 0} /\ q.batch \in {p.batch, 0} /\ q.queue \in {p.queue, <<>>}
  <2>1. CASE q = Connect(p)
    BY <1>1, <1>2, <1>5, <1>6, <2>1, WConnect DEF Fades
  <2>2. CASE q = Handshake(p)
    BY <1>1, <1>2, <1>5, <1>6, <2>2, WHandshake
  <2> QED
    BY <1>4, <2>1, <2>2
<1>8. q.client \in 0..granted
  BY <1>1, <1>2, <1>7 DEF Dated
<1>9. spent' \in [Event -> Nat]
  BY <1>1 DEF Due, Dated
<1> QED
  BY <1>2, <1>3, <1>7, <1>8, <1>9, WiredTurn DEF Due

\* A message joins the queue.
LEMMA AppendMessage ==
  ASSUME NEW msgs \in Seq(Msg), msgs = <<>> \/ Batch(msgs), NEW n \in Messages, \A m \in Published(msgs) : m < n,
         NEW q, q = Append(msgs, Message(n))
  PROVE  q \in Seq(Msg) /\ Batch(q) /\ Published(q) = Published(msgs) \cup {n}
<1> DEFINE m == Message(n)
<1>1. m \in Msg /\ m.what = "publish" /\ m.number = n
  BY DEF Message, Msg, Whats
<1> HIDE DEF m
<1>2. Len(msgs) \in Nat /\ DOMAIN msgs = 1..Len(msgs) /\ 0 \notin Messages /\ Messages \subseteq Nat
  BY Members, CometdAssumption DEF Messages
<1>3. q \in Seq(Msg) /\ Len(q) = Len(msgs) + 1
  BY <1>1, Appended DEF m
<1>4. \A i \in 1..Len(msgs) : q[i] = msgs[i]
  BY <1>1, Appended DEF m
<1>5. q[Len(msgs) + 1] = m
  BY <1>1, Appended DEF m
<1>6. DOMAIN q = 1..Len(msgs) + 1 /\ q # <<>>
  BY <1>2, <1>3, Members, EmptySeq
<1>7. \A i \in 1..Len(msgs) : msgs[i].what = "publish" /\ msgs[i].number \in Messages /\ msgs[i].number \in Published(msgs)
  <2>1. CASE msgs = <<>>
    <3>1. Len(msgs) = 0
      BY <2>1, EmptySeq
    <3> QED
      BY <3>1
  <2>2. CASE Batch(msgs)
    BY <1>2, <2>2 DEF Batch, Published
  <2> QED
    BY <2>1, <2>2
<1>8. \A i, j \in 1..Len(msgs) : i < j => msgs[i].number < msgs[j].number
  <2>1. CASE msgs = <<>>
    <3>1. Len(msgs) = 0
      BY <2>1, EmptySeq
    <3> QED
      BY <3>1
  <2>2. CASE Batch(msgs)
    BY <1>2, <2>2 DEF Batch
  <2> QED
    BY <2>1, <2>2
<1>9. \A i \in 1..Len(msgs) + 1 : i \in 1..Len(msgs) \/ i = Len(msgs) + 1
  BY <1>2
<1>10. \A i \in 1..Len(msgs) + 1 : q[i].what = "publish" /\ q[i].number \in Messages
  BY <1>1, <1>4, <1>5, <1>7, <1>9
<1>11. ASSUME NEW i \in 1..Len(msgs) + 1, NEW j \in 1..Len(msgs) + 1, i < j PROVE q[i].number < q[j].number
  <2>1. i \in 1..Len(msgs)
    BY <1>2, <1>11
  <2>2. CASE j \in 1..Len(msgs)
    BY <1>4, <1>8, <1>11, <2>1, <2>2
  <2>3. CASE j = Len(msgs) + 1
    BY <1>1, <1>4, <1>5, <1>7, <2>1, <2>3
  <2> QED
    BY <1>9, <2>2, <2>3
<1>12. Batch(q)
  BY <1>6, <1>10, <1>11 DEF Batch
<1>13. Published(q) = Published(msgs) \cup {n}
  <2>1. ASSUME NEW x \in Published(q) PROVE x \in Published(msgs) \cup {n}
    BY <1>1, <1>4, <1>5, <1>6, <1>7, <1>9 DEF Published
  <2>2. ASSUME NEW x \in Published(msgs) PROVE x \in Published(q)
    <3>1. PICK i \in 1..Len(msgs) : x = msgs[i].number /\ x # 0
      BY <1>2 DEF Published
    <3>2. i \in DOMAIN q /\ q[i].number = x
      BY <1>2, <1>4, <1>6, <3>1
    <3> QED
      BY <3>1, <3>2 DEF Published
  <2>3. n \in Published(q)
    <3>1. Len(msgs) + 1 \in DOMAIN q /\ q[Len(msgs) + 1].number = n /\ n # 0
      BY <1>1, <1>2, <1>5, <1>6
    <3> QED
      BY <3>1 DEF Published
  <2> QED
    BY <2>1, <2>2, <2>3
<1> QED
  BY <1>3, <1>12, <1>13

Queued(p, n) == [p EXCEPT !.queue = Append(p.queue, Message(n))]

LEMMA QueuedIs ==
  ASSUME NEW p \in PageRec, p.queue = <<>> \/ Batch(p.queue), NEW n \in Messages, \A m \in Published(p.queue) : m < n,
         NEW q, q = Queued(p, n)
  PROVE  /\ q \in PageRec /\ Batch(q.queue) /\ Published(q.queue) = Published(p.queue) \cup {n}
         /\ Wires(p, q) /\ Calm(p, q) /\ Plan(p, q) /\ q.why = p.why /\ q.advice = p.advice
         /\ q.told = p.told /\ q.lost = p.lost /\ q.last = p.last
<1> DEFINE s == Append(p.queue, Message(n))
<1>1. q = [p EXCEPT !.queue = s] /\ p.queue \in Seq(Msg)
  BY DEF Queued, PageRec
<1>2. s \in Seq(Msg) /\ Batch(s) /\ Published(s) = Published(p.queue) \cup {n}
  BY <1>1, AppendMessage
<1> HIDE DEF s
<1>3. q \in PageRec /\ q.queue = s
  BY <1>1, <1>2 DEF PageRec
<1> QED
  BY <1>1, <1>2, <1>3 DEF PageRec, Wires, Calm, Plan

LEMMA WiredPublish ==
  ASSUME Wired, Room, Publish
  PROVE  Wired'
<1> DEFINE n == asked + 1
           msgs == <<Message(n)>>
           q == IF page.batch > 0 \/ page.held THEN Queued(page, n) ELSE SendMessages(page, msgs, FALSE)
<1>1. W(page, 0) /\ ~page.threw /\ page \in PageRec /\ Dated /\ (page.queue = <<>> \/ Batch(page.queue))
  BY WType DEF Wired, W
<1>2. asked' = n /\ n \in Messages /\ n \in 0..MaxMessages /\ asked \in Nat /\ MaxMessages \in Nat
  BY <1>1, CometdAssumption DEF Publish, Dated, Messages
<1>3. \A m \in Published(page.queue) : m < n
  BY <1>1, <1>2 DEF Dated
<1>4. Turn(q)
  <2>1. Turn(IF page.batch > 0 \/ page.held THEN [page EXCEPT !.queue = Append(@, Message(n))]
             ELSE SendMessages(page, <<Message(n)>>, FALSE))
    BY <1>2 DEF Publish
  <2>2. [page EXCEPT !.queue = Append(@, Message(n))] = Queued(page, n)
    BY <1>1 DEF Queued, PageRec
  <2> QED
    BY <2>1, <2>2
<1>5. q = Queued(page, n) \/ q = SendMessages(page, msgs, FALSE)
  OBVIOUS
<1>9. Fit(msgs, FALSE)
  <2> HIDE DEF msgs, n
  <2>1. msgs = <<Message(n)>> /\ n \in Messages
    BY <1>2 DEF msgs
  <2>2. msgs \in Seq(Msg) /\ Batch(msgs)
    BY <2>1, MessageIs
  <2> QED
    BY <2>2 DEF Fit
<1>10. n \in Nat /\ 1..asked \subseteq 1..n /\ n \in 1..n
  BY <1>2
<1> HIDE DEF q, msgs, n
<1>6. /\ W(q, 0) /\ q.client \in 0..granted /\ q.batch \in {page.batch, 0} /\ Published(q.queue) \subseteq 1..n
  <2>1. CASE q = Queued(page, n)
    <3>1. /\ q \in PageRec /\ Batch(q.queue) /\ Published(q.queue) = Published(page.queue) \cup {n}
          /\ Wires(page, q) /\ Calm(page, q) /\ q.why = page.why
      BY <1>1, <1>2, <1>3, <2>1, QueuedIs
    <3>2. W(q, 0)
      BY <1>1, <3>1 DEF W, Wires, Listed
    <3>3. Published(page.queue) \subseteq 1..asked /\ page.client \in 0..granted
      BY <1>1 DEF Dated
    <3> QED
      BY <1>10, <3>1, <3>2, <3>3 DEF Calm
  <2>2. CASE q = SendMessages(page, msgs, FALSE)
    <3>1. Free(page) # {} /\ FALSE \in BOOLEAN
      BY <1>1, RoomIs, FreeSpare
    <3>2. W(q, 0) /\ Fades(page, q)
      BY <1>1, <1>9, <2>2, <3>1, WSendMessages
    <3>3. q.client \in 0..granted /\ q.batch \in {page.batch, 0} /\ q.queue \in {page.queue, <<>>}
      BY <1>1, <3>2, FadesClient
    <3>4. Published(q.queue) \subseteq 1..asked
      <4>1. Published(<<>>) = {}
        BY EmptySeq DEF Published
      <4> QED
        BY <1>1, <3>3, <4>1 DEF Dated
    <3> QED
      BY <1>10, <3>2, <3>3, <3>4
  <2> QED
    BY <1>5, <2>1, <2>2
<1>7. /\ W(page, 0)' /\ ~page'.threw /\ page'.client = q.client /\ page'.batch = q.batch /\ page'.queue = q.queue
  BY <1>4, <1>6, EndOfTurn DEF Publish
<1> QED
  BY <1>1, <1>2, <1>6, <1>7 DEF Wired, Dated, Publish

\* The application opens and closes a batch.
Counted(p, b) == [p EXCEPT !.batch = b]

LEMMA CountedIs ==
  ASSUME NEW p \in PageRec, NEW b \in Int, NEW q, q = Counted(p, b)
  PROVE  /\ q \in PageRec /\ q.batch = b /\ Wires(p, q) /\ Words(p, q) /\ Plan(p, q)
         /\ q.client = p.client /\ q.threw = p.threw /\ q.breaks = p.breaks /\ q.why = p.why /\ q.advice = p.advice
  BY DEF Counted, PageRec, Wires, Words, Plan

LEMMA WiredStartBatch ==
  ASSUME Wired, Room, StartBatch
  PROVE  Wired'
<1> DEFINE q == Counted(page, page.batch + 1)
<1>1. W(page, 0) /\ ~page.threw /\ page \in PageRec /\ Dated
  BY WType DEF Wired
<1>2. page.batch + 1 \in {0, 1} /\ page.batch + 1 \in Int /\ opened' = TRUE
  BY <1>1 DEF StartBatch, Dated
<1>3. Turn(q)
  <2>1. [page EXCEPT !.batch = @ + 1] = q
    BY <1>1 DEF Counted, PageRec
  <2> QED
    BY <2>1 DEF StartBatch
<1>4. q \in PageRec /\ q.batch = page.batch + 1 /\ Wires(page, q) /\ q.queue = page.queue /\ q.why = page.why /\ q.client = page.client
  BY <1>1, <1>2, CountedIs DEF Words
<1> HIDE DEF q
<1>5. W(q, 0)
  BY <1>1, <1>4, WSame
<1>6. /\ W(page, 0)' /\ ~page'.threw /\ page'.client = q.client /\ page'.batch = q.batch /\ page'.queue = q.queue
  BY <1>3, <1>5, EndOfTurn DEF StartBatch
<1>7. spent' \in [Event -> Nat]
  BY <1>1, SpendIs DEF StartBatch, Dated, Event
<1> QED
  BY <1>1, <1>2, <1>4, <1>6, <1>7 DEF Wired, Dated, StartBatch

LEMMA WiredEndBatch ==
  ASSUME Wired, Room, EndBatch
  PROVE  Wired'
<1> DEFINE p == Counted(page, page.batch - 1)
           q == IF p.batch = 0 /\ ~Disconnected(p) /\ ~p.held THEN FlushBatch(p)
                ELSE IF p.queue # <<>> /\ ~p.held THEN Because(p, "kept") ELSE p
<1>1. W(page, 0) /\ ~page.threw /\ page \in PageRec /\ Dated
  BY WType DEF Wired
<1>2. page.batch - 1 \in {-1, 0} /\ page.batch - 1 \in Int /\ opened' = FALSE
  BY <1>1 DEF EndBatch, Dated
<1>3. Turn(q)
  <2>1. [page EXCEPT !.batch = @ - 1] = p
    BY <1>1 DEF Counted, PageRec
  <2> HIDE DEF p
  <2> QED
    BY <2>1 DEF EndBatch
<1>4. /\ p \in PageRec /\ p.batch = page.batch - 1 /\ Wires(page, p) /\ p.queue = page.queue /\ p.why = page.why
      /\ p.client = page.client /\ p.threw = page.threw
  BY <1>1, <1>2, CountedIs DEF Words
<1> HIDE DEF p
<1>5. q = FlushBatch(p) \/ q = Because(p, "kept") \/ q = p
  OBVIOUS
<1> HIDE DEF q
<1>6. W(p, 0)
  BY <1>1, <1>4, WSame
<1>7. PICK x : Spare(p, x)
  BY <1>4, RoomIs, SpareSame
<1>8. W(q, 0) /\ Fades(p, q)
  <2>1. CASE q = FlushBatch(p)
    BY <1>1, <1>4, <1>6, <1>7, <2>1, WFlushBatch
  <2>2. CASE q = Because(p, "kept")
    <3>1. Moves(p, q) /\ q.why = p.why \cup {"kept"}
      BY <1>4, <2>2, BecauseIs DEF Reasons
    <3> QED
      BY <1>6, <3>1, WSame DEF Moves, Words, Calm, Fades
  <2>3. CASE q = p
    BY <1>6, <2>3 DEF Fades
  <2> QED
    BY <1>5, <2>1, <2>2, <2>3
<1>9. /\ W(page, 0)' /\ ~page'.threw /\ page'.client = q.client /\ page'.batch = q.batch /\ page'.queue = q.queue
  BY <1>3, <1>8, EndOfTurn DEF EndBatch
<1>10. /\ page'.client \in 0..granted /\ page'.batch \in {-1, 0} /\ page'.queue \in {page.queue, <<>>}
  BY <1>1, <1>2, <1>4, <1>8, <1>9 DEF Fades, Dated
<1>11. Published(page'.queue) \subseteq 1..asked
  <2>1. Published(<<>>) = {}
    BY EmptySeq DEF Published
  <2> QED
    BY <1>1, <1>10, <2>1 DEF Dated
<1> QED
  BY <1>1, <1>2, <1>9, <1>10, <1>11 DEF Wired, Dated, EndBatch

-----------------------------------------------------------------------------
(* A request is over.                                                      *)

Ended(p, r) == [p EXCEPT !.req[r].xhr = "none", !.req[r].timer = FALSE]

LEMMA EndedIs ==
  ASSUME NEW p \in PageRec, NEW r \in Slots, NEW q, q = Ended(p, r)
  PROVE  /\ q \in PageRec /\ q.requests = p.requests /\ q.envelopes = p.envelopes /\ q.longpoll = p.longpoll
         /\ Words(p, q) /\ Calm(p, q) /\ Plan(p, q) /\ q.why = p.why /\ q.advice = p.advice
         /\ Kept(p.req[r], q.req[r]) /\ q.req[r].xhr = "none" /\ ~q.req[r].timer
         /\ \A s \in Slots : s # r => q.req[s] = p.req[s]
<1> DEFINE b == [p.req[r] EXCEPT !.xhr = "none", !.timer = FALSE]
           req == [p.req EXCEPT ![r] = b]
<1>1. p.req[r] \in Request /\ p.req \in [Slots -> Request] /\ "none" \in Xhr
  BY DEF PageRec, Xhr
<1>2. b \in Request /\ Kept(p.req[r], b) /\ b.xhr = "none" /\ ~b.timer
  BY <1>1 DEF Request, Kept
<1>3. q = [p EXCEPT !.req = req]
  BY <1>1 DEF Ended, PageRec, Request
<1> HIDE DEF b
<1>4. req \in [Slots -> Request] /\ req[r] = b /\ \A s \in Slots : s # r => req[s] = p.req[s]
  BY <1>1, <1>2
<1> HIDE DEF req
<1>5. q \in PageRec /\ q.req = req /\ q.requests = p.requests /\ q.envelopes = p.envelopes /\ q.longpoll = p.longpoll
      /\ Words(p, q) /\ Calm(p, q) /\ Plan(p, q) /\ q.why = p.why /\ q.advice = p.advice
  BY ZenonT(60), <1>3, <1>4 DEF PageRec, Words, Calm, Plan
<1> QED
  BY <1>2, <1>4, <1>5

\* It was out, or its timer runs.
Out(p, r) == p.req[r].xhr \in {"answered", "garbled", "broken", "open", "failing"} \/ p.req[r].timer

LEMMA WEnded ==
  ASSUME NEW p, W(p, 0), NEW r \in Slots, Out(p, r), NEW q, q = Ended(p, r)
  PROVE  W(q, r) /\ Formed(p.req[r]) /\ \A x : Spare(p, x) => Spare(q, x)
<1>1. p \in PageRec /\ 0 \notin Slots
  BY WType, CometdAssumption
<1>2. /\ q \in PageRec /\ q.requests = p.requests /\ q.envelopes = p.envelopes /\ q.longpoll = p.longpoll
      /\ q.queue = p.queue /\ q.why = p.why
      /\ Kept(p.req[r], q.req[r]) /\ q.req[r].xhr = "none" /\ ~q.req[r].timer
  <2>1. /\ q \in PageRec /\ q.requests = p.requests /\ q.envelopes = p.envelopes /\ q.longpoll = p.longpoll
        /\ Words(p, q) /\ q.why = p.why
        /\ Kept(p.req[r], q.req[r]) /\ q.req[r].xhr = "none" /\ ~q.req[r].timer
    BY <1>1, EndedIs
  <2> QED
    BY <2>1 DEF Words
<1>3. \A s \in Slots : s # r => q.req[s] = p.req[s]
  BY <1>1, EndedIs
<1>4. r \notin ToSet(p.envelopes)
  BY DEF W, Out
<1>5. Busy(p.req[r]) /\ Formed(p.req[r])
  <2>1. Busy(p.req[r])
    BY DEF Out, Busy
  <2> QED
    BY <2>1 DEF W
<1>6. ToSet(p.requests) \subseteq Slots /\ ToSet(p.envelopes) \subseteq Slots /\ p.longpoll \in Slots \cup {0}
  BY <1>1, Members DEF PageRec
<1>7. \A s \in ToSet(q.envelopes) : s # r /\ q.req[s].xhr = "waiting" /\ ~q.req[s].timer
  BY <1>2, <1>3, <1>4, <1>6 DEF W
<1>8. \A s \in Listed(q) : ~q.req[s].poll
  BY <1>2, <1>3, <1>6 DEF W, Listed, Kept
<1>9. Formed(q.req[r])
  BY <1>2, <1>5 DEF Formed, Kept
<1>10. \A s \in Slots : Busy(q.req[s]) \/ s = r => Formed(q.req[s])
  BY <1>3, <1>9 DEF W
<1>11. q.longpoll # 0 => q.req[q.longpoll].poll /\ (Busy(q.req[q.longpoll]) \/ "garbled" \in q.why \/ q.longpoll = r)
  BY <1>2, <1>3, <1>6 DEF W, Kept
<1>12. W(q, r)
  BY <1>2, <1>7, <1>8, <1>10, <1>11 DEF W
<1>13. ASSUME NEW x, Spare(p, x) PROVE Spare(q, x)
  <2>1. x # r
    BY <1>5, <1>13 DEF Spare
  <2> QED
    BY <1>2, <1>3, <1>13, <2>1 DEF Spare, Loose
<1> QED
  BY <1>5, <1>12, <1>13

\* The turn in which a request has failed.
LEMMA WiredFailure ==
  ASSUME Wired, Room, NEW r \in Slots, Out(page, r), Turn(HandleFailure(Over(r), r)),
         UNCHANGED <<sessions, granted, asked, opened>>, spent' \in [Event -> Nat]
  PROVE  Wired'
<1> DEFINE p == Ended(page, r)
           q == HandleFailure(p, r)
<1>1. W(page, 0) /\ ~page.threw /\ page \in PageRec /\ Dated
  BY WType DEF Wired
<1>2. Turn(q)
  BY DEF Over, Ended
<1>3. W(p, r) /\ Words(page, p) /\ Calm(page, p)
  BY <1>1, WEnded, EndedIs
<1> HIDE DEF p
<1>4. p.threw = page.threw /\ p.client = page.client /\ p.batch = page.batch /\ p.queue = page.queue
  BY <1>3 DEF Words, Calm
<1>5. W(q, 0) /\ Shrinks(p, q)
  BY <1>1, <1>3, <1>4, WHandleFailure
<1> HIDE DEF q
<1>6. q.client \in 0..granted /\ q.batch \in {page.batch, 0} /\ q.queue \in {page.queue, <<>>}
  BY <1>1, <1>4, <1>5 DEF Shrinks, Dated
<1> QED
  BY <1>2, <1>5, <1>6, WiredTurn

\* A garbled answer: nothing is done.
Forgotten(p, msgs) == [Because(p, "garbled") EXCEPT !.lost = @ \cup Published(msgs)]

LEMMA ForgottenIs ==
  ASSUME NEW p \in PageRec, NEW msgs \in Seq(Msg), NEW q, q = Forgotten(p, msgs)
  PROVE  /\ q \in PageRec /\ Wires(p, q) /\ Calm(p, q) /\ Plan(p, q) /\ q.why = p.why \cup {"garbled"} /\ q.advice = p.advice
         /\ q.queue = p.queue /\ q.told = p.told /\ q.last = p.last /\ q.lost = p.lost \cup Published(msgs)
<1> DEFINE l == p.lost \cup Published(msgs)
           w == p.why \cup {"garbled"}
<1>1. l \in SUBSET Messages
  BY PublishedIs DEF PageRec
<1>2. w \in SUBSET Reasons
  BY DEF PageRec, Reasons
<1>3. q = [p EXCEPT !.why = w, !.lost = l]
  BY DEF Forgotten, Because, PageRec
<1>4. l = p.lost \cup Published(msgs) /\ w = p.why \cup {"garbled"}
  OBVIOUS
<1> HIDE DEF l, w
<1>5. q \in PageRec /\ q.why = w /\ q.lost = l
  BY ZenonT(60), <1>1, <1>2, <1>3 DEF PageRec
<1> QED
  BY <1>3, <1>4, <1>5 DEF PageRec, Wires, Calm, Plan

LEMMA WiredPoll ==
  ASSUME Wired, Room, NEW r \in Slots, Poll(r)
  PROVE  Wired'
<1> DEFINE p == Ended(page, r)
<1>1. W(page, 0) /\ ~page.threw /\ page \in PageRec /\ Dated
  BY WType DEF Wired
<1>2. p = Over(r)
  BY DEF Over, Ended
<1>3. ASSUME Out(page, r)
      PROVE  /\ W(p, r) /\ p.threw = page.threw /\ p.client = page.client /\ p.batch = page.batch /\ p.queue = page.queue
             /\ p.req[r].msgs = page.req[r].msgs /\ p.req[r].reply = page.req[r].reply
             /\ Formed(page.req[r]) /\ \A x : Spare(page, x) => Spare(p, x)
  <2>1. W(p, r) /\ Words(page, p) /\ Calm(page, p) /\ Kept(page.req[r], p.req[r])
    BY <1>1, <1>3, WEnded, EndedIs
  <2>2. Formed(page.req[r]) /\ \A x : Spare(page, x) => Spare(p, x)
    BY <1>1, <1>3, WEnded
  <2> HIDE DEF p
  <2> QED
    BY <2>1, <2>2 DEF Words, Calm, Kept
<1>4. spent' \in [Event -> Nat] /\ UNCHANGED <<sessions, granted, asked, opened>>
  BY <1>1 DEF Poll, Dated
<1>5. CASE page.req[r].xhr = "broken" /\ Turn(HandleFailure(Over(r), r))
  BY <1>4, <1>5, WiredFailure DEF Out
<1> HIDE DEF p
<1>6. CASE page.req[r].xhr = "answered" /\ Turn(HandleResponse(Over(r), r))
  <2> DEFINE q == HandleResponse(p, r)
  <2>1. Turn(q)
    BY <1>2, <1>6
  <2>2. Out(page, r)
    BY <1>6 DEF Out
  <2>3. /\ Echoes(page.req[r].reply, page.req[r].msgs) /\ Known(page.req[r].reply)
    BY <1>3, <1>6, <2>2 DEF Formed
  <2>4. PICK x : Spare(p, x)
    BY <1>3, <2>2, RoomIs
  <2>5. Echoes(p.req[r].reply, p.req[r].msgs) /\ W(p, r) /\ ~p.threw
    BY <1>1, <1>3, <2>2, <2>3
  <2>6. /\ W(q, 0) /\ q.batch \in {p.batch, 0} /\ q.queue \in {p.queue, <<>>}
        /\ q.client \in {p.client, 0} \/ q.client = p.req[r].reply[1].client
    BY <2>4, <2>5, WHandleResponse
  <2> HIDE DEF q
  <2>7. q.client \in 0..granted /\ q.batch \in {page.batch, 0} /\ q.queue \in {page.queue, <<>>}
    BY <1>1, <1>3, <2>2, <2>3, <2>6 DEF Dated, Known
  <2> QED
    BY <1>4, <2>1, <2>6, <2>7, WiredTurn
<1>7. CASE page.req[r].xhr = "garbled" /\ Turn([Because(Over(r), "garbled") EXCEPT !.lost = @ \cup Published(page.req[r].msgs)])
  <2> DEFINE q == Forgotten(p, page.req[r].msgs)
  <2>1. Turn(q)
    BY <1>2, <1>7 DEF Forgotten
  <2>2. Out(page, r)
    BY <1>7 DEF Out
  <2>3. p \in PageRec /\ page.req[r].msgs \in Seq(Msg) /\ W(p, r)
    BY <1>1, <1>3, <2>2, WType DEF PageRec, Request
  <2>4. q \in PageRec /\ Wires(p, q) /\ Calm(p, q) /\ q.why = p.why \cup {"garbled"} /\ q.queue = p.queue
    BY <2>3, ForgottenIs
  <2> HIDE DEF q
  <2>5. W(q, r)
    BY <2>3, <2>4, WSame
  <2>6. ToSet(q.envelopes) \subseteq Slots /\ 0 \notin Slots /\ r # 0
    BY <2>4, Members, CometdAssumption DEF PageRec
  <2>7. W(q, 0)
    BY <2>4, <2>5, <2>6 DEF W
  <2>8. q.client \in 0..granted /\ q.batch \in {page.batch, 0} /\ q.queue \in {page.queue, <<>>}
    BY <1>1, <1>3, <2>2, <2>4 DEF Dated, Calm
  <2> QED
    BY <1>4, <2>1, <2>7, <2>8, WiredTurn
<1> QED
  BY <1>5, <1>6, <1>7 DEF Poll

LEMMA WiredGivenUp ==
  ASSUME Wired, Room, NEW r \in Slots, GivenUp(r)
  PROVE  Wired'
<1>1. Out(page, r) /\ Turn(HandleFailure(Over(r), r)) /\ UNCHANGED <<sessions, granted, asked, opened>>
      /\ spent' \in [Event -> Nat]
  BY DEF GivenUp, Out, Wired, Dated
<1> QED
  BY <1>1, WiredFailure

LEMMA WiredExpire ==
  ASSUME Wired, Room, NEW r \in Slots, Expire(r)
  PROVE  Wired'
<1>1. Out(page, r) /\ Turn(HandleFailure(Over(r), r)) /\ UNCHANGED <<sessions, granted, asked, opened>>
  BY DEF Expire, Out
<1>2. spent' \in [Event -> Nat]
  <2>1. spent \in [Event -> Nat] /\ "silence" \in Event
    BY DEF Wired, Dated, Event
  <2>2. spent' = spent \/ Spend("silence")
    BY Zenon DEF Expire
  <2> QED
    BY <2>1, <2>2, SpendIs
<1> QED
  BY <1>1, <1>2, WiredFailure

-----------------------------------------------------------------------------
(* The network and the server.                                             *)

Answered(p, r, reply) == [p EXCEPT !.req[r].xhr = "answered", !.req[r].reply = reply]

LEMMA AnsweredIs ==
  ASSUME NEW p \in PageRec, NEW r \in Slots, NEW reply \in Seq(Ans), NEW q, q = Answered(p, r, reply)
  PROVE  /\ q \in PageRec /\ q.requests = p.requests /\ q.envelopes = p.envelopes /\ q.longpoll = p.longpoll
         /\ Words(p, q) /\ Calm(p, q) /\ Plan(p, q) /\ q.why = p.why /\ q.advice = p.advice
         /\ q.req[r].msgs = p.req[r].msgs /\ q.req[r].poll = p.req[r].poll /\ q.req[r].timer = p.req[r].timer
         /\ q.req[r].xhr = "answered" /\ q.req[r].reply = reply
         /\ \A s \in Slots : s # r => q.req[s] = p.req[s]
<1> DEFINE b == [p.req[r] EXCEPT !.xhr = "answered", !.reply = reply]
           req == [p.req EXCEPT ![r] = b]
<1>1. p.req[r] \in Request /\ p.req \in [Slots -> Request] /\ "answered" \in Xhr
  BY DEF PageRec, Xhr, OnWire
<1>2. b \in Request /\ b.msgs = p.req[r].msgs /\ b.poll = p.req[r].poll /\ b.timer = p.req[r].timer
      /\ b.xhr = "answered" /\ b.reply = reply
  BY <1>1 DEF Request
<1>3. q = [p EXCEPT !.req = req]
  BY <1>1 DEF Answered, PageRec, Request
<1> HIDE DEF b
<1>4. req \in [Slots -> Request] /\ req[r] = b /\ \A s \in Slots : s # r => req[s] = p.req[s]
  BY <1>1, <1>2
<1> HIDE DEF req
<1>5. q \in PageRec /\ q.req = req /\ q.requests = p.requests /\ q.envelopes = p.envelopes /\ q.longpoll = p.longpoll
      /\ Words(p, q) /\ Calm(p, q) /\ Plan(p, q) /\ q.why = p.why /\ q.advice = p.advice
  BY ZenonT(60), <1>3, <1>4 DEF PageRec, Words, Calm, Plan
<1> QED
  BY <1>2, <1>4, <1>5

LEMMA WiredArrives ==
  ASSUME Wired, NEW r \in Slots, page.req[r].xhr = "open", NEW reply \in Seq(Ans), Arrives(r, reply),
         Echoes(reply, page.req[r].msgs), reply[1].client \in 0..granted',
         granted' \in {granted, granted + 1}, sessions' \subseteq 1..granted', UNCHANGED <<asked, opened>>,
         spent' \in [Event -> Nat]
  PROVE  Wired'
<1> DEFINE q == page'
<1>1. W(page, 0) /\ ~page.threw /\ page \in PageRec /\ Dated /\ 0 \notin Slots
  BY WType, CometdAssumption DEF Wired
<1>2. q = Answered(page, r, reply)
  BY DEF Arrives, Answered
<1> HIDE DEF q
<1>3. /\ q \in PageRec /\ q.requests = page.requests /\ q.envelopes = page.envelopes /\ q.longpoll = page.longpoll
      /\ Words(page, q) /\ Calm(page, q) /\ q.why = page.why
      /\ q.req[r].msgs = page.req[r].msgs /\ q.req[r].poll = page.req[r].poll /\ q.req[r].timer = page.req[r].timer
      /\ q.req[r].xhr = "answered" /\ q.req[r].reply = reply
  BY <1>1, <1>2, AnsweredIs
<1>4. \A s \in Slots : s # r => q.req[s] = page.req[s]
  BY <1>1, <1>2, AnsweredIs
<1>5. q.queue = page.queue /\ q.client = page.client /\ q.batch = page.batch /\ q.threw = page.threw
  BY <1>3 DEF Words, Calm
<1>6. granted \in Nat /\ granted' \in Nat /\ 0..granted \subseteq 0..granted'
  BY <1>1 DEF Dated
<1>7. ToSet(page.requests) \subseteq Slots /\ ToSet(page.envelopes) \subseteq Slots /\ page.longpoll \in Slots \cup {0}
  BY <1>1, Members DEF PageRec
<1>8. r \notin ToSet(page.envelopes) /\ Busy(page.req[r]) /\ Busy(q.req[r])
  BY <1>1, <1>3 DEF W, Busy
<1>9. \A s \in ToSet(q.envelopes) : s # 0 /\ q.req[s].xhr = "waiting" /\ ~q.req[s].timer
  BY <1>1, <1>3, <1>4, <1>7, <1>8 DEF W
<1>10. \A s \in Listed(q) : ~q.req[s].poll
  BY <1>1, <1>3, <1>4, <1>7 DEF W, Listed
<1>11. q.longpoll # 0 => q.req[q.longpoll].poll /\ (Busy(q.req[q.longpoll]) \/ "garbled" \in q.why \/ q.longpoll = 0)
  BY <1>1, <1>3, <1>4, <1>7, <1>8 DEF W
<1> DEFINE Shape(x) == IF x.poll THEN OneMeta(x.msgs, "connect")
                       ELSE OneMeta(x.msgs, "handshake") \/ OneMeta(x.msgs, "disconnect") \/ Batch(x.msgs)
           FormedThen(x) == /\ Shape(x)
                            /\ x.xhr = "answered" => Echoes(x.reply, x.msgs) /\ x.reply[1].client \in 0..granted'
<1>12. ASSUME NEW s \in Slots, Busy(q.req[s]) PROVE FormedThen(q.req[s])
  <2>1. CASE s = r
    <3>1. Shape(page.req[r])
      BY <1>1, <1>8 DEF W, Formed
    <3> QED
      BY <1>3, <2>1, <3>1
  <2>2. CASE s # r
    <3>1. q.req[s] = page.req[s]
      BY <1>4, <2>2
    <3>2. Formed(page.req[s])
      BY <1>1, <1>12, <3>1 DEF W
    <3> QED
      BY <1>6, <3>1, <3>2 DEF Formed, Known
  <2> QED
    BY <2>1, <2>2
<1> HIDE DEF FormedThen
<1>13. \A s \in Slots : Busy(page'.req[s]) => FormedThen(page'.req[s])
  BY <1>12 DEF q
<1>14. \A s \in Slots : Busy(page'.req[s]) => Formed(page.req[s])'
  BY <1>13 DEF FormedThen, Formed, Known
<1>15. W(page, 0)'
  <2>1. /\ page' \in PageRec /\ Len(page'.requests) < MaxConnections
        /\ Distinct(page'.requests) /\ Distinct(page'.envelopes)
        /\ ToSet(page'.requests) \cap ToSet(page'.envelopes) = {} /\ (page'.queue = <<>> \/ Batch(page'.queue))
    BY <1>1, <1>3, <1>5 DEF W, q
  <2> QED
    BY <1>9, <1>10, <1>11, <1>14, <1>1, <2>1 DEF W, Listed, q
<1> QED
  BY <1>1, <1>5, <1>6, <1>15 DEF Wired, Dated, q
LEMMA ReplyIs ==
  ASSUME NEW msg \in Msg, NEW ok \in BOOLEAN
  PROVE  /\ Reply(msg, ok) \in Ans /\ Reply(msg, ok).what = msg.what /\ Reply(msg, ok).number = msg.number
         /\ Reply(msg, ok).client = 0 /\ Reply(msg, ok).advice = ""
BY DEF Reply, Ans, Msg, Advice

Silent(a) == a.advice = ""
ReplyIn(msg, c, S) == Reply(msg, c \in S)

LEMMA ReplyIf ==
  ASSUME NEW msg \in Msg, NEW c, NEW S, NEW a, a = ReplyIn(msg, c, S)
  PROVE  a \in Ans /\ a.what = msg.what /\ a.number = msg.number /\ a.client = 0 /\ Silent(a)
<1>1. PICK ok \in BOOLEAN : a = Reply(msg, ok)
  <2>1. CASE c \in S
    <3>1. (c \in S) = TRUE
      BY <2>1
    <3> QED
      BY <3>1 DEF ReplyIn
  <2>2. CASE c \notin S
    <3>1. (c \in S) = FALSE
      BY <2>2
    <3> QED
      BY <3>1 DEF ReplyIn
  <2> QED
    BY <2>1, <2>2
<1> QED
  BY <1>1, ReplyIs DEF Silent

\* A request on the wire has messages, and a meta message is alone.
LEMMA OpenIs ==
  ASSUME Wired, NEW r \in Slots, page.req[r].xhr = "open"
  PROVE  LET msgs == page.req[r].msgs IN
         /\ msgs \in Seq(Msg) /\ msgs # <<>> /\ Head(msgs) = msgs[1] /\ 1 \in 1..Len(msgs) /\ msgs[1] \in Msg
         /\ msgs[1].what # "publish" => Len(msgs) = 1
<1> DEFINE msgs == page.req[r].msgs
<1>1. page.req[r] \in Request /\ Formed(page.req[r])
  BY DEF Wired, W, PageRec, Busy
<1>2. msgs \in Seq(Msg)
  BY <1>1 DEF Request
<1>3. \/ OneMeta(msgs, "connect") \/ OneMeta(msgs, "handshake") \/ OneMeta(msgs, "disconnect") \/ Batch(msgs)
  BY <1>1 DEF Formed
<1>4. msgs # <<>> /\ (msgs[1].what # "publish" => Len(msgs) = 1)
  <2>1. CASE Batch(msgs)
    <3>1. 1 \in DOMAIN msgs
      BY <1>2, <2>1 DEF Batch
    <3> QED
      BY <2>1, <3>1 DEF Batch
  <2>2. CASE OneMeta(msgs, "connect") \/ OneMeta(msgs, "handshake") \/ OneMeta(msgs, "disconnect")
    BY <1>2, <2>2 DEF OneMeta
  <2> QED
    BY <1>3, <2>1, <2>2
<1>5. Len(msgs) \in Nat /\ Len(msgs) # 0
  BY <1>2, <1>4, EmptySeq, LenProperties
<1>6. 1 \in 1..Len(msgs)
  BY <1>5
<1>7. msgs[1] \in Msg /\ Head(msgs) = msgs[1]
  BY <1>2, <1>4, <1>6, ElementOfSeq
<1> QED
  BY <1>2, <1>4, <1>6, <1>7

\* The answer to a message that is alone.
LEMMA OneReply ==
  ASSUME NEW msgs \in Seq(Msg), Len(msgs) = 1, msgs[1].what # "publish", NEW a \in Ans,
         a.what = msgs[1].what, a.number = msgs[1].number
  PROVE  <<a>> \in Seq(Ans) /\ Echoes(<<a>>, msgs) /\ <<a>>[1] = a
<1>1. DOMAIN msgs = {1}
  BY LenProperties
<1>2. <<a>> \in Seq(Ans) /\ Len(<<a>>) = 1 /\ <<a>>[1] = a
  OBVIOUS
<1> QED
  BY <1>1, <1>2 DEF Echoes

LEMMA WiredAnswerHandshake ==
  ASSUME Wired, NEW r \in Slots, page.req[r].xhr = "open", page.req[r].msgs[1].what = "handshake",
         AnswerHandshake(r, page.req[r].msgs[1]), UNCHANGED <<asked, opened>>
  PROVE  Wired'
<1> DEFINE msgs == page.req[r].msgs
           msg == msgs[1]
<1>1. msgs \in Seq(Msg) /\ msg \in Msg /\ Len(msgs) = 1 /\ msg.what # "publish"
  BY OpenIs
<1>2. granted \in Nat /\ sessions \subseteq 1..granted /\ spent \in [Event -> Nat]
  BY DEF Wired, Dated
<1> HIDE DEF msgs
<1>3. ASSUME granted' = granted + 1, sessions' = sessions \cup {granted'},
             NEW a \in {"retry", "none"}, NEW u \in BOOLEAN, spent' \in [Event -> Nat],
             Arrives(r, <<[Reply(msg, TRUE) EXCEPT !.client = granted', !.advice = a, !.unsupported = u]>>)
      PROVE  Wired'
  <2> DEFINE b == [Reply(msg, TRUE) EXCEPT !.client = granted', !.advice = a, !.unsupported = u]
  <2>1. b \in Ans /\ b.what = msg.what /\ b.number = msg.number /\ b.client = granted'
    <3> DEFINE c == Reply(msg, TRUE)
    <3>1. c \in Ans /\ c.what = msg.what /\ c.number = msg.number
      <4>1. TRUE \in BOOLEAN
        OBVIOUS
      <4> QED
        BY <1>1, <4>1, ReplyIs
    <3>2. granted' \in Nat
      BY <1>2, <1>3
    <3> HIDE DEF c
    <3>3. /\ [c EXCEPT !.client = granted', !.advice = a, !.unsupported = u] \in Ans
          /\ [c EXCEPT !.client = granted', !.advice = a, !.unsupported = u].what = c.what
          /\ [c EXCEPT !.client = granted', !.advice = a, !.unsupported = u].number = c.number
          /\ [c EXCEPT !.client = granted', !.advice = a, !.unsupported = u].client = granted'
      BY <1>3, <3>1, <3>2 DEF Ans, Advice
    <3> QED
      BY <3>1, <3>3 DEF c
  <2> HIDE DEF b
  <2>2. <<b>> \in Seq(Ans) /\ Echoes(<<b>>, msgs) /\ <<b>>[1] = b
    BY <1>1, <2>1, OneReply
  <2>3. <<b>>[1].client \in 0..granted' /\ sessions' \subseteq 1..granted' /\ granted' \in {granted, granted + 1}
    BY <1>2, <1>3, <2>1, <2>2
  <2>4. Arrives(r, <<b>>)
    BY <1>3 DEF b
  <2> QED
    BY <1>3, <2>2, <2>3, <2>4, WiredArrives DEF msgs
<1>4. ASSUME sessions' = sessions, granted' = granted, spent' \in [Event -> Nat],
             Arrives(r, <<[Reply(msg, FALSE) EXCEPT !.advice = "handshake"]>>)
      PROVE  Wired'
  <2> DEFINE b == [Reply(msg, FALSE) EXCEPT !.advice = "handshake"]
  <2>1. b \in Ans /\ b.what = msg.what /\ b.number = msg.number /\ b.client = 0
    BY <1>1 DEF Reply, Ans, Msg, Advice
  <2> HIDE DEF b
  <2>2. <<b>> \in Seq(Ans) /\ Echoes(<<b>>, msgs) /\ <<b>>[1] = b
    BY <1>1, <2>1, OneReply
  <2>3. <<b>>[1].client \in 0..granted' /\ sessions' \subseteq 1..granted' /\ granted' \in {granted, granted + 1}
    BY <1>2, <1>4, <2>1, <2>2
  <2>4. Arrives(r, <<b>>)
    BY <1>4 DEF b
  <2> QED
    BY <1>4, <2>2, <2>3, <2>4, WiredArrives DEF msgs
<1>5. "none" \in Event /\ "unsupported" \in Event /\ "refuse" \in Event
  BY DEF Event
<1>6. CASE granted' = granted + 1 /\ sessions' = sessions \cup {granted'} /\ \E a \in {"retry", "none"}, u \in BOOLEAN :
          /\ \/ Spend("none") \/ Spend("unsupported") \/ spent' = spent
          /\ Arrives(r, <<[Reply(msg, TRUE) EXCEPT !.client = granted', !.advice = a, !.unsupported = u]>>)
  <2>1. PICK a \in {"retry", "none"}, u \in BOOLEAN :
          /\ \/ Spend("none") \/ Spend("unsupported") \/ spent' = spent
          /\ Arrives(r, <<[Reply(msg, TRUE) EXCEPT !.client = granted', !.advice = a, !.unsupported = u]>>)
    BY Zenon, <1>6
  <2>2. spent' \in [Event -> Nat]
    BY <1>2, <1>5, <2>1, SpendIs
  <2> QED
    BY <1>3, <1>6, <2>1, <2>2
<1>7. CASE Spend("refuse") /\ sessions' = sessions /\ granted' = granted
           /\ Arrives(r, <<[Reply(msg, FALSE) EXCEPT !.advice = "handshake"]>>)
  <2>1. spent' \in [Event -> Nat]
    BY <1>2, <1>5, <1>7, SpendIs
  <2> QED
    BY <1>4, <1>7, <2>1
<1>8. \/ granted' = granted + 1 /\ sessions' = sessions \cup {granted'} /\ \E a \in {"retry", "none"}, u \in BOOLEAN :
          /\ \/ Spend("none") \/ Spend("unsupported") \/ spent' = spent
          /\ Arrives(r, <<[Reply(msg, TRUE) EXCEPT !.client = granted', !.advice = a, !.unsupported = u]>>)
      \/ Spend("refuse") /\ sessions' = sessions /\ granted' = granted
           /\ Arrives(r, <<[Reply(msg, FALSE) EXCEPT !.advice = "handshake"]>>)
  <2>1. ASSUME NEW a \in {"retry", "none"}, NEW u \in BOOLEAN,
               CASE a = "none" /\ ~u  -> Spend("none")
                 [] a = "retry" /\ u  -> Spend("unsupported")
                 [] a = "retry" /\ ~u -> UNCHANGED spent
                 [] OTHER             -> FALSE
        PROVE  Spend("none") \/ Spend("unsupported") \/ spent' = spent
    BY <2>1
  <2> QED
    BY Zenon, <2>1 DEF AnswerHandshake, msgs
<1> QED
  BY <1>6, <1>7, <1>8

LEMMA WiredAnswerConnect ==
  ASSUME Wired, NEW r \in Slots, page.req[r].xhr = "open", page.req[r].msgs[1].what = "connect",
         AnswerConnect(r, page.req[r].msgs[1]), UNCHANGED <<asked, opened>>
  PROVE  Wired'
<1> DEFINE msgs == page.req[r].msgs
           msg == msgs[1]
<1>1. msgs \in Seq(Msg) /\ msg \in Msg /\ Len(msgs) = 1 /\ msg.what # "publish"
  BY OpenIs
<1>2. granted \in Nat /\ sessions \subseteq 1..granted /\ spent \in [Event -> Nat] /\ "none" \in Event
  BY DEF Wired, Dated, Event
<1>3. PICK ok \in BOOLEAN, a \in {"retry", "none"} :
       /\ spent' = spent \/ Spend("none")
       /\ Arrives(r, <<[Reply(msg, ok) EXCEPT !.advice = IF ok THEN a ELSE "handshake"]>>)
  BY SMT DEF AnswerConnect
<1>4. sessions' = sessions /\ granted' = granted /\ spent' \in [Event -> Nat]
  BY <1>2, <1>3, SpendIs DEF AnswerConnect
<1> HIDE DEF msgs
<1> DEFINE b == [Reply(msg, ok) EXCEPT !.advice = IF ok THEN a ELSE "handshake"]
<1>5. b \in Ans /\ b.what = msg.what /\ b.number = msg.number /\ b.client = 0
  BY <1>1 DEF Reply, Ans, Msg, Advice
<1> HIDE DEF b
<1>6. <<b>> \in Seq(Ans) /\ Echoes(<<b>>, msgs) /\ <<b>>[1] = b
  BY <1>1, <1>5, OneReply
<1>7. <<b>>[1].client \in 0..granted' /\ sessions' \subseteq 1..granted' /\ granted' \in {granted, granted + 1}
  BY <1>2, <1>4, <1>5, <1>6
<1>8. Arrives(r, <<b>>)
  BY <1>3 DEF b
<1> QED
  BY <1>4, <1>6, <1>7, <1>8, WiredArrives DEF msgs

LEMMA WiredAnswerDisconnect ==
  ASSUME Wired, NEW r \in Slots, page.req[r].xhr = "open", page.req[r].msgs[1].what = "disconnect",
         AnswerDisconnect(r, page.req[r].msgs[1]), UNCHANGED <<asked, opened>>
  PROVE  Wired'
<1> DEFINE msgs == page.req[r].msgs
           msg == msgs[1]
<1>1. msgs \in Seq(Msg) /\ msg \in Msg /\ Len(msgs) = 1 /\ msg.what # "publish"
  BY OpenIs
<1>2. granted \in Nat /\ sessions \subseteq 1..granted /\ spent \in [Event -> Nat]
  BY DEF Wired, Dated
<1> DEFINE a == ReplyIn(msg, msg.client, sessions)
<1>3. a \in Ans /\ a.what = msg.what /\ a.number = msg.number /\ a.client = 0
  BY <1>1, ReplyIf
<1>4. Arrives(r, <<a>>) /\ sessions' \subseteq sessions /\ granted' = granted /\ spent' = spent
  BY DEF AnswerDisconnect, ReplyIn
<1> HIDE DEF msgs
<1> HIDE DEF a
<1>5. <<a>> \in Seq(Ans) /\ Echoes(<<a>>, msgs) /\ <<a>>[1].client = 0
  BY <1>1, <1>3, OneReply
<1>6. <<a>>[1].client \in 0..granted' /\ sessions' \subseteq 1..granted' /\ granted' \in {granted, granted + 1}
  BY <1>2, <1>4, <1>5
<1> QED
  BY <1>2, <1>4, <1>5, <1>6, WiredArrives DEF msgs

LEMMA WiredAnswerMessages ==
  ASSUME Wired, NEW r \in Slots, page.req[r].xhr = "open", AnswerMessages(r), UNCHANGED <<asked, opened>>
  PROVE  Wired'
<1> DEFINE msgs == page.req[r].msgs
           reply == [i \in DOMAIN msgs |-> Reply(msgs[i], msgs[i].client \in sessions)]
<1>1. msgs \in Seq(Msg) /\ 1 \in 1..Len(msgs)
  BY OpenIs
<1>2. granted \in Nat /\ sessions \subseteq 1..granted /\ spent \in [Event -> Nat]
  BY DEF Wired, Dated
<1>3. Arrives(r, reply) /\ sessions' = sessions /\ granted' = granted /\ spent' = spent
  BY DEF AnswerMessages
<1> HIDE DEF msgs
<1>4. DOMAIN msgs = 1..Len(msgs) /\ Len(msgs) \in Nat
  BY <1>1, LenProperties
<1>5. ASSUME NEW i \in DOMAIN msgs
      PROVE  /\ reply[i] \in Ans /\ reply[i].what = msgs[i].what /\ reply[i].number = msgs[i].number
             /\ reply[i].client = 0 /\ Silent(reply[i])
  <2>1. msgs[i] \in Msg
    BY <1>1, <1>4, <1>5, ElementOfSeq
  <2>2. reply[i] = ReplyIn(msgs[i], msgs[i].client, sessions)
    BY <1>5 DEF ReplyIn
  <2> HIDE DEF reply
  <2> QED
    BY <2>1, <2>2, ReplyIf
<1>6. reply = [i \in 1..Len(msgs) |-> reply[i]]
  BY <1>4
<1>7. \A i \in 1..Len(msgs) : reply[i] \in Ans
  BY <1>4, <1>5
<1>8. DOMAIN reply = 1..Len(msgs)
  BY <1>4
<1> HIDE DEF reply
<1>9. reply \in [1..Len(msgs) -> Ans]
  BY <1>6, <1>7
<1>10. reply \in Seq(Ans) /\ Len(reply) = Len(msgs)
  BY <1>4, <1>9, IsASeq, LenProperties
<1>11. Echoes(reply, msgs) /\ reply[1].client \in 0..granted'
  <2>1. \A i \in DOMAIN msgs : reply[i].what = msgs[i].what /\ reply[i].number = msgs[i].number /\ Silent(reply[i])
    BY <1>5
  <2>2. Echoes(reply, msgs)
    BY <1>10, <2>1 DEF Echoes, Silent
  <2>3. reply[1].client = 0
    BY <1>1, <1>4, <1>5
  <2> QED
    BY <1>2, <1>3, <2>2, <2>3
<1> QED
  BY <1>2, <1>3, <1>10, <1>11, WiredArrives DEF msgs

LEMMA WiredAnswer ==
  ASSUME Wired, NEW r \in Slots, Answer(r)
  PROVE  Wired'
<1>1. page.req[r].xhr = "open" /\ UNCHANGED <<asked, opened>>
  BY DEF Answer
<1>2. Head(page.req[r].msgs) = page.req[r].msgs[1]
  BY <1>1, OpenIs
<1> QED
  BY <1>1, <1>2, WiredAnswerHandshake, WiredAnswerConnect, WiredAnswerDisconnect, WiredAnswerMessages DEF Answer
-----------------------------------------------------------------------------
(* Faults, and the whole of a step.                                        *)

Faulty(p, r, x) == [p EXCEPT !.req[r].xhr = x]

LEMMA FaultyIs ==
  ASSUME NEW p \in PageRec, NEW r \in Slots, NEW x \in Xhr, NEW q, q = Faulty(p, r, x)
  PROVE  /\ q \in PageRec /\ q.requests = p.requests /\ q.envelopes = p.envelopes /\ q.longpoll = p.longpoll
         /\ Words(p, q) /\ Calm(p, q) /\ Plan(p, q) /\ q.why = p.why /\ q.advice = p.advice
         /\ q.req[r].msgs = p.req[r].msgs /\ q.req[r].poll = p.req[r].poll /\ q.req[r].timer = p.req[r].timer
         /\ q.req[r].xhr = x
         /\ \A s \in Slots : s # r => q.req[s] = p.req[s]
<1> DEFINE b == [p.req[r] EXCEPT !.xhr = x]
           req == [p.req EXCEPT ![r] = b]
<1>1. p.req[r] \in Request /\ p.req \in [Slots -> Request]
  BY DEF PageRec
<1>2. b \in Request /\ b.msgs = p.req[r].msgs /\ b.poll = p.req[r].poll /\ b.timer = p.req[r].timer /\ b.xhr = x
  BY <1>1 DEF Request
<1>3. q = [p EXCEPT !.req = req]
  BY <1>1 DEF Faulty, PageRec, Request
<1> HIDE DEF b
<1>4. req \in [Slots -> Request] /\ req[r] = b /\ \A s \in Slots : s # r => req[s] = p.req[s]
  BY <1>1, <1>2
<1> HIDE DEF req
<1>5. q \in PageRec /\ q.req = req /\ q.requests = p.requests /\ q.envelopes = p.envelopes /\ q.longpoll = p.longpoll
      /\ Words(p, q) /\ Calm(p, q) /\ Plan(p, q) /\ q.why = p.why /\ q.advice = p.advice
  BY ZenonT(60), <1>3, <1>4 DEF PageRec, Words, Calm, Plan
<1> QED
  BY <1>2, <1>4, <1>5

LEMMA WiredFault ==
  ASSUME Wired, NEW r \in Slots, Fault(r)
  PROVE  Wired'
<1> DEFINE q == page'
<1>1. W(page, 0) /\ ~page.threw /\ page \in PageRec /\ Dated /\ 0 \notin Slots
  BY WType, CometdAssumption DEF Wired
<1>2. PICK x \in {"broken", "garbled"} : q = Faulty(page, r, x)
  BY Zenon DEF Fault, Faulty
<1>3. page.req[r].xhr = "open" /\ UNCHANGED <<sessions, granted, asked, opened>> /\ spent' \in [Event -> Nat]
  <2>1. spent \in [Event -> Nat] /\ "error" \in Event /\ "garbled" \in Event
    BY <1>1 DEF Dated, Event
  <2>2. Spend("error") \/ Spend("garbled")
    BY Zenon DEF Fault
  <2>3. page.req[r].xhr = "open" /\ UNCHANGED <<sessions, granted, asked, opened>>
    BY Zenon DEF Fault
  <2> QED
    BY <2>1, <2>2, <2>3, SpendIs
<1> HIDE DEF q
<1>4. x \in Xhr /\ x # "answered" /\ x # "none"
  BY <1>2 DEF Xhr, OnWire
<1>5. /\ q \in PageRec /\ q.requests = page.requests /\ q.envelopes = page.envelopes /\ q.longpoll = page.longpoll
      /\ Words(page, q) /\ Calm(page, q) /\ q.why = page.why
      /\ q.req[r].msgs = page.req[r].msgs /\ q.req[r].poll = page.req[r].poll /\ q.req[r].timer = page.req[r].timer
      /\ q.req[r].xhr = x
  BY <1>1, <1>2, <1>4, FaultyIs
<1>6. \A s \in Slots : s # r => q.req[s] = page.req[s]
  BY <1>1, <1>2, <1>4, FaultyIs
<1>7. q.queue = page.queue /\ q.client = page.client /\ q.batch = page.batch /\ q.threw = page.threw
  BY <1>5 DEF Words, Calm
<1>8. ToSet(page.requests) \subseteq Slots /\ ToSet(page.envelopes) \subseteq Slots /\ page.longpoll \in Slots \cup {0}
  BY <1>1, Members DEF PageRec
<1>9. r \notin ToSet(page.envelopes) /\ Busy(page.req[r]) /\ Busy(q.req[r])
  BY <1>1, <1>3, <1>4, <1>5 DEF W, Busy
<1>10. \A s \in ToSet(q.envelopes) : s # 0 /\ q.req[s].xhr = "waiting" /\ ~q.req[s].timer
  BY <1>1, <1>5, <1>6, <1>8, <1>9 DEF W
<1>11. \A s \in Listed(q) : ~q.req[s].poll
  BY <1>1, <1>5, <1>6, <1>8 DEF W, Listed
<1>12. q.longpoll # 0 => q.req[q.longpoll].poll /\ (Busy(q.req[q.longpoll]) \/ "garbled" \in q.why \/ q.longpoll = 0)
  BY <1>1, <1>5, <1>6, <1>8, <1>9 DEF W
<1>13. ASSUME NEW s \in Slots, Busy(q.req[s]) PROVE Formed(q.req[s])
  <2>1. CASE s = r
    <3>1. Formed(page.req[r])
      BY <1>1, <1>9 DEF W
    <3> QED
      BY <1>4, <1>5, <2>1, <3>1 DEF Formed
  <2>2. CASE s # r
    <3>1. q.req[s] = page.req[s]
      BY <1>6, <2>2
    <3> QED
      BY <1>1, <1>13, <3>1 DEF W
  <2> QED
    BY <2>1, <2>2
<1>14. \A s \in Slots : Busy(page'.req[s]) => Formed(page.req[s])'
  BY <1>3, <1>13 DEF q, Formed, Known
<1>15. /\ page' \in PageRec /\ Len(page'.requests) < MaxConnections
       /\ Distinct(page'.requests) /\ Distinct(page'.envelopes)
       /\ ToSet(page'.requests) \cap ToSet(page'.envelopes) = {} /\ (page'.queue = <<>> \/ Batch(page'.queue))
  BY <1>1, <1>5, <1>7 DEF W, q
<1>16. W(page, 0)'
  BY <1>10, <1>11, <1>12, <1>14, <1>1, <1>15 DEF W, Listed, q
<1> QED
  BY <1>1, <1>3, <1>7, <1>16 DEF Wired, Dated, q

\* The page as it is, but for whether the next send throws.
LEMMA WiredStays ==
  ASSUME Wired, page' = page \/ page' = [page EXCEPT !.breaks = TRUE],
         sessions' \subseteq sessions, UNCHANGED <<granted, asked, opened>>, spent' \in [Event -> Nat]
  PROVE  Wired'
<1>1. W(page, 0) /\ ~page.threw /\ page \in PageRec /\ Dated
  BY WType DEF Wired
<1>2. /\ page' \in PageRec /\ page'.requests = page.requests /\ page'.envelopes = page.envelopes
      /\ page'.longpoll = page.longpoll /\ page'.req = page.req /\ page'.queue = page.queue /\ page'.why = page.why
      /\ page'.client = page.client /\ page'.batch = page.batch /\ page'.threw = page.threw
  BY ZenonT(60), <1>1 DEF PageRec
<1>3. W(page, 0)'
  BY <1>1, <1>2 DEF W, Listed, Formed, Known
<1> QED
  BY <1>1, <1>2, <1>3 DEF Wired, Dated

LEMMA WiredInit ==
  ASSUME PageInit
  PROVE  Wired
<1>1. 0 \notin Slots /\ MaxConnections \in Nat /\ MaxConnections > 0 /\ MaxBackoff \in Nat /\ MaxMessages \in Nat
  BY CometdAssumption
<1>2. NoRequest \in Request /\ ~Busy(NoRequest)
  BY DEF NoRequest, Request, Xhr, Busy
<1>3. page \in PageRec
  <2> DEFINE req == [r \in Slots |-> NoRequest]
             told == [m \in Messages |-> 0]
  <2>1. req \in [Slots -> Request] /\ told \in [Messages -> Nat]
    BY <1>2
  <2>2. <<>> \in Seq(Msg) /\ <<>> \in Seq(Slots)
    BY EmptySeq
  <2>3. "disconnected" \in Phases /\ "" \in Advice /\ {} \in SUBSET Messages /\ {} \in SUBSET Reasons
    BY DEF Phases, Advice
  <2>4. 0 \in 0..MaxBackoff /\ 0 \in Slots \cup {0} /\ 0 \in Messages \cup {0} /\ 0 \in Nat /\ 0 \in Int
        /\ "none" \in {"none", "connect", "handshake"} /\ FALSE \in BOOLEAN
    BY <1>1
  <2>5. page = [status |-> "disconnected", client |-> 0, batch |-> 0, held |-> FALSE, queue |-> <<>>,
             backoff |-> 0, due |-> "none", advice |-> "", longpoll |-> 0, requests |-> <<>>,
             envelopes |-> <<>>, req |-> req, threw |-> FALSE, breaks |-> FALSE,
             told |-> told, lost |-> {}, last |-> 0, why |-> {}]
    BY Zenon DEF PageInit
  <2> HIDE DEF req, told
  <2> QED
    BY Zenon, <2>1, <2>2, <2>3, <2>4, <2>5 DEF PageRec
<1>4. /\ page.requests = <<>> /\ page.envelopes = <<>> /\ page.queue = <<>> /\ page.longpoll = 0 /\ page.client = 0
      /\ page.batch = 0 /\ ~page.threw /\ page.req = [r \in Slots |-> NoRequest]
  BY DEF PageInit
<1>5. W(page, 0)
  BY <1>1, <1>2, <1>3, <1>4, EmptyList DEF W, Listed
<1>6. Published(page.queue) = {}
  BY <1>4, EmptyList DEF Published
<1>7. spent \in [Event -> Nat]
  BY DEF PageInit
<1> QED
  <2>1. sessions = {} /\ granted = 0 /\ asked = 0 /\ opened \in BOOLEAN /\ ~opened
    BY Zenon DEF PageInit
  <2>2. Dated
    BY <1>1, <1>4, <1>6, <1>7, <2>1 DEF Dated
  <2> QED
    BY <1>4, <1>5, <2>2 DEF Wired

LEMMA WiredNext ==
  ASSUME Wired, [PageNext]_pageVars
  PROVE  Wired'
<1>1. spent \in [Event -> Nat] /\ "throws" \in Event /\ "forget" \in Event
  BY DEF Wired, Dated, Event
<1>2. CASE UNCHANGED pageVars
  BY <1>1, <1>2, WiredStays DEF pageVars
<1>3. CASE Room /\ Application
  BY <1>3, WiredAppHandshake, WiredAppDisconnect, WiredPublish, WiredStartBatch, WiredEndBatch DEF Application
<1>4. CASE Room /\ TimersFire
  BY <1>4, WiredDue, WiredPoll, WiredGivenUp, WiredExpire DEF TimersFire
<1>5. CASE BreakNext
  <2>1. Spend("throws") /\ page' = [page EXCEPT !.breaks = TRUE] /\ UNCHANGED <<sessions, granted, asked, opened>>
    BY Zenon, <1>5 DEF BreakNext
  <2> QED
    BY <1>1, <2>1, SpendIs, WiredStays
<1>6. CASE Forget
  <2>1. Spend("forget") /\ sessions' = {} /\ UNCHANGED <<page, granted, asked, opened>>
    BY Zenon, <1>6 DEF Forget
  <2> QED
    BY <1>1, <2>1, SpendIs, WiredStays
<1>7. CASE \E r \in Slots : Answer(r) \/ Fault(r)
  BY <1>7, WiredAnswer, WiredFault
<1> QED
  BY <1>2, <1>3, <1>4, <1>5, <1>6, <1>7 DEF PageNext, Network

LEMMA WiredShows ==
  ASSUME Wired
  PROVE  PageTypeOK
BY DEF Wired, Dated, W, PageRec, PageTypeOK

\* Between two turns the requests are in order and what is dated is of this time: Wired is
\* the invariant from which the rest is read off.
THEOREM PageInvariant == PageSpec => []Wired
<1>1. PageInit => Wired
  BY WiredInit
<1>2. Wired /\ [PageNext]_pageVars => Wired'
  BY WiredNext
<1> QED
  BY <1>1, <1>2, PTL DEF PageSpec

\* The state is of its type: whatever is answered, fails, expires or throws, and in whatever
\* order, the requests that are not long polls leave one connection free and `_batch` stays
\* within -1 and 1.
THEOREM PageIsTyped == PageSpec => []PageTypeOK
<1>1. Wired => PageTypeOK
  BY WiredShows
<1> QED
  BY <1>1, PageInvariant, PTL

-----------------------------------------------------------------------------
(* What becomes of what is sent.                                           *)

\* A message that is no long poll, and one that is.
Plain(msgs)         == Fit(msgs, FALSE)
SendPlain(p, msgs)  == SendMessages(p, msgs, FALSE)
Polls(msgs)         == Fit(msgs, TRUE)
SendPoll(p, msgs)   == SendMessages(p, msgs, TRUE)

LEMMA NoPoll ==
  ASSUME NEW p, NEW msgs, NEW q, q = SendPlain(p, msgs), Plain(msgs)
  PROVE  \E b \in BOOLEAN : ~b /\ q = SendMessages(p, msgs, b) /\ Fit(msgs, b)
<1>1. FALSE \in BOOLEAN /\ ~FALSE /\ q = SendMessages(p, msgs, FALSE) /\ Fit(msgs, FALSE)
  BY DEF SendPlain, Plain
<1> WITNESS FALSE \in BOOLEAN
<1> QED
  BY <1>1

LEMMA ByPoll ==
  ASSUME NEW p, NEW msgs, NEW q, q = SendPoll(p, msgs), Polls(msgs)
  PROVE  \E b \in BOOLEAN : b /\ q = SendMessages(p, msgs, b) /\ Fit(msgs, b)
<1>1. TRUE \in BOOLEAN /\ q = SendMessages(p, msgs, TRUE) /\ Fit(msgs, TRUE)
  BY DEF SendPoll, Polls
<1> WITNESS TRUE \in BOOLEAN
<1> QED
  BY <1>1

\* c is p with a request r of its own for msgs.
Begun(p, c, r, msgs) ==
  \E b \in BOOLEAN : c = Fresh(p, r, msgs, b) /\ Fit(msgs, b) /\ (b => p.longpoll = 0) /\ (c.req[r].poll <=> b)

\* A message that is no long poll is queued, and one that is goes out on its own.
LEMMA SendsQueued ==
  ASSUME NEW p, W(p, 0), Free(p) # {}, ~p.threw, NEW msgs, Plain(msgs),
         NEW q, q = SendPlain(p, msgs)
  PROVE  \E r \in Free(p) : \E c : /\ Begun(p, c, r, msgs) /\ ~c.req[r].poll /\ Ready(c, r)
                                   /\ q = QueueSend(c, r)
<1>1. p \in PageRec
  BY WType
<1>2. PICK b \in BOOLEAN : ~b /\ q = SendMessages(p, msgs, b) /\ Fit(msgs, b)
  BY NoPoll
<1>3. PICK r \in Free(p) :
           /\ ~b => q = QueueSend(Fresh(p, r, msgs, b), r)
           /\ b /\ p.longpoll # 0 => q = Throw(p)
           /\ b /\ p.longpoll = 0 => \/ q = LongpollSend(Fresh(p, r, msgs, b), r)
                                     \/ LongpollSend(Fresh(p, r, msgs, b), r).threw
  BY <1>1, <1>2, SendMessagesIs
<1> DEFINE c == Fresh(p, r, msgs, b)
<1>4. Ready(c, r) /\ c.req[r].poll = b
  BY <1>2, ReadyFresh
<1>5. q = QueueSend(c, r)
  BY <1>2, <1>3
<1>6. c = Fresh(p, r, msgs, b)
  OBVIOUS
<1> HIDE DEF c
<1>7. Begun(p, c, r, msgs) /\ ~c.req[r].poll
  BY <1>2, <1>4, <1>6 DEF Begun
<1> QED
  BY <1>4, <1>5, <1>7

LEMMA SendsPoll ==
  ASSUME NEW p, W(p, 0), Free(p) # {}, ~p.threw, NEW msgs, Polls(msgs),
         NEW q, q = SendPoll(p, msgs)
  PROVE  /\ p.longpoll # 0 => q = Throw(p)
         /\ p.longpoll = 0 => \E r \in Free(p) : \E c : /\ Begun(p, c, r, msgs) /\ c.req[r].poll /\ Ready(c, r)
                                                        /\ q = LongpollSend(c, r)
<1>1. p \in PageRec
  BY WType
<1>2. PICK b \in BOOLEAN : b /\ q = SendMessages(p, msgs, b) /\ Fit(msgs, b)
  BY ByPoll
<1>3. PICK r \in Free(p) :
           /\ ~b => q = QueueSend(Fresh(p, r, msgs, b), r)
           /\ b /\ p.longpoll # 0 => q = Throw(p)
           /\ b /\ p.longpoll = 0 => \/ q = LongpollSend(Fresh(p, r, msgs, b), r)
                                     \/ LongpollSend(Fresh(p, r, msgs, b), r).threw
  BY <1>1, <1>2, SendMessagesIs
<1>4. CASE p.longpoll # 0
  BY <1>2, <1>3, <1>4
<1>5. CASE p.longpoll = 0
  <2> DEFINE c == Fresh(p, r, msgs, b)
             l == LongpollSend(c, r)
  <2>0. (b => p.longpoll = 0) /\ Fit(msgs, b)
    BY <1>2, <1>5
  <2>1. Ready(c, r) /\ c.req[r].poll = b
    BY <2>0, ReadyFresh
  <2>2. q = l \/ l.threw
    BY <1>2, <1>3, <1>5
  <2>3. c = Fresh(p, r, msgs, b)
    OBVIOUS
  <2> HIDE DEF c
  <2>4. c.req[r].poll
    BY <1>2, <2>1
  <2>5. ~l.threw
    BY <2>1, <2>4, WLongpollSend
  <2>6. q = l
    BY <2>2, <2>5
  <2>7. Begun(p, c, r, msgs)
    BY <1>2, <1>5, <2>1, <2>3 DEF Begun
  <2> QED
    BY <1>5, <2>1, <2>4, <2>6, <2>7
<1> QED
  BY <1>4, <1>5

-----------------------------------------------------------------------------
(* Somebody will call back.                                                *)

Active == {"handshaking", "connecting", "connected"}
Excused == {"none", "unsupported", "garbled"}
Metas == {"handshake", "connect", "disconnect"}

\* What a request is about.
About(msgs, w) == (w \in Metas /\ OneMeta(msgs, w)) \/ (w = "publish" /\ Batch(msgs))

\* A request with the one message w calls back, or is the one in hand.
Waits(p, h, w) == \E r \in Slots : (Busy(p.req[r]) \/ r = h) /\ OneMeta(p.req[r].msgs, w)

\* NeverStuck, of any record; h is the request in hand, v what is about to be asked or made
\* of an answer.
N(p, h, v) == p.why \cap Excused = {} =>
  /\ p.status \in Active =>
       \/ p.due # "none" \/ Waits(p, h, "handshake") \/ Waits(p, h, "connect") \/ v \in {"handshake", "connect"}
  /\ p.status = "disconnecting" => Waits(p, h, "disconnect") \/ v = "disconnect"

\* Requests that call back still do, with the same messages.
Holds(p, h, q, k) ==
  \A s \in Slots : Busy(p.req[s]) \/ s = h => (Busy(q.req[s]) \/ s = k) /\ q.req[s].msgs = p.req[s].msgs

LEMMA WaitsOn ==
  ASSUME NEW p, NEW h, NEW q, NEW k, Holds(p, h, q, k), NEW w, Waits(p, h, w)
  PROVE  Waits(q, k, w)
<1>1. PICK r \in Slots : (Busy(p.req[r]) \/ r = h) /\ OneMeta(p.req[r].msgs, w)
  BY DEF Waits
<1>2. (Busy(q.req[r]) \/ r = k) /\ q.req[r].msgs = p.req[r].msgs
  BY <1>1 DEF Holds
<1> QED
  BY <1>1, <1>2 DEF Waits

LEMMA NKept ==
  ASSUME NEW p, NEW h, NEW q, NEW k, NEW v, N(p, h, v), Holds(p, h, q, k), q.status = p.status, q.due = p.due,
         p.why \cap Excused \subseteq q.why
  PROVE  N(q, k, v)
<1>1. SUFFICES ASSUME q.why \cap Excused = {}
               PROVE  /\ q.status \in Active =>
                           \/ q.due # "none" \/ Waits(q, k, "handshake") \/ Waits(q, k, "connect")
                           \/ v \in {"handshake", "connect"}
                      /\ q.status = "disconnecting" => Waits(q, k, "disconnect") \/ v = "disconnect"
  BY DEF N
<1>2. p.why \cap Excused = {}
  BY <1>1
<1>3. \A w \in Metas : Waits(p, h, w) => Waits(q, k, w)
  BY WaitsOn
<1> QED
  BY <1>2, <1>3 DEF N, Metas

\* Nothing is waited for.
LEMMA NCertain ==
  ASSUME NEW q, NEW k, NEW v,
         \/ q.status = "disconnected"
         \/ q.status \in Active /\ q.due # "none"
         \/ "none" \in q.why \/ "unsupported" \in q.why \/ "garbled" \in q.why
  PROVE  N(q, k, v)
BY DEF N, Active, Excused

\* The meta message of a request is one thing.
LEMMA OneThing ==
  ASSUME NEW msgs \in Seq(Msg)
  PROVE  /\ \A v, w \in Whats : OneMeta(msgs, v) /\ OneMeta(msgs, w) => v = w
         /\ \A w \in Metas : ~(OneMeta(msgs, w) /\ Batch(msgs))
<1>1. \A v, w \in Whats : OneMeta(msgs, v) /\ OneMeta(msgs, w) => v = w
  BY DEF OneMeta
<1>2. ASSUME NEW w \in Metas, OneMeta(msgs, w), Batch(msgs) PROVE FALSE
  <2>1. 1 \in 1..Len(msgs)
    BY <1>2 DEF OneMeta
  <2>2. msgs[1].what = "publish"
    BY <1>2, <2>1, BatchIs
  <2> QED
    BY <1>2, <2>2 DEF OneMeta, Metas
<1> QED
  BY <1>1, <1>2

LEMMA AboutOne ==
  ASSUME NEW msgs \in Seq(Msg), NEW v \in Whats, NEW w \in Whats, About(msgs, v), About(msgs, w)
  PROVE  v = w
BY OneThing DEF About, Metas, Whats

LEMMA FormedAbout ==
  ASSUME NEW q, Formed(q)
  PROVE  \E w \in Whats : About(q.msgs, w) /\ (q.poll => w = "connect")
<1>1. CASE OneMeta(q.msgs, "connect")
  BY <1>1 DEF About, Whats, Metas
<1>2. CASE ~q.poll /\ OneMeta(q.msgs, "handshake")
  BY <1>2 DEF About, Whats, Metas
<1>3. CASE ~q.poll /\ OneMeta(q.msgs, "disconnect")
  BY <1>3 DEF About, Whats, Metas
<1>4. CASE ~q.poll /\ Batch(q.msgs)
  BY <1>4 DEF About, Whats
<1> QED
  BY <1>1, <1>2, <1>3, <1>4 DEF Formed

\* A request that ends: what it asked is in hand, or nothing.
LEMMA NEnds ==
  ASSUME NEW p, NEW h \in Slots, NEW v, N(p, h, "publish"), p.req[h].msgs \in Seq(Msg), v \in Whats,
         About(p.req[h].msgs, v),
         NEW q, q.req = p.req, q.status = p.status, q.due = p.due, p.why \cap Excused \subseteq q.why
  PROVE  N(q, 0, v)
<1>1. \A w \in Metas : Waits(p, h, w) => Waits(q, 0, w) \/ v = w
  <2> SUFFICES ASSUME NEW w \in Metas, Waits(p, h, w), v # w PROVE Waits(q, 0, w)
    OBVIOUS
  <2>1. PICK r \in Slots : (Busy(p.req[r]) \/ r = h) /\ OneMeta(p.req[r].msgs, w)
    BY DEF Waits
  <2>2. r # h
    BY <2>1, OneThing DEF About, Metas, Whats
  <2> QED
    BY <2>1, <2>2 DEF Waits
<1>2. SUFFICES ASSUME q.why \cap Excused = {}
               PROVE  /\ q.status \in Active =>
                           \/ q.due # "none" \/ Waits(q, 0, "handshake") \/ Waits(q, 0, "connect")
                           \/ v \in {"handshake", "connect"}
                      /\ q.status = "disconnecting" => Waits(q, 0, "disconnect") \/ v = "disconnect"
  BY DEF N
<1>3. p.why \cap Excused = {}
  BY <1>2
<1> QED
  BY <1>1, <1>3 DEF N, Metas

\* The long poll the transport remembers calls back.
LEMMA LongpollWaits ==
  ASSUME NEW p, NEW h, W(p, h), p.longpoll # 0, p.longpoll # h, "garbled" \notin p.why
  PROVE  Waits(p, 0, "connect")
<1>1. p.longpoll \in Slots
  BY DEF W, PageRec
<1>2. p.req[p.longpoll].poll /\ Busy(p.req[p.longpoll])
  BY DEF W
<1>3. OneMeta(p.req[p.longpoll].msgs, "connect")
  BY <1>1, <1>2 DEF W, Formed
<1> QED
  BY <1>1, <1>2, <1>3 DEF Waits

\* It is another that ends.
LEMMA NClash ==
  ASSUME NEW p, NEW h \in Slots, W(p, h), N(p, h, "publish"), Clash(p, h), NEW q, q = LetGo(p, h)
  PROVE  N(q, 0, "publish")
<1>1. p \in PageRec /\ Formed(p.req[h]) /\ p.req[h].poll
  BY DEF W, Clash
<1>2. Same(p, q) /\ q.why = p.why /\ q.longpoll = p.longpoll
  BY <1>1, LetGoClash
<1>9. OneMeta(p.req[h].msgs, "connect") /\ p.req[h].msgs \in Seq(Msg)
  BY <1>1 DEF Formed, PageRec, Request
<1>3. About(p.req[h].msgs, "connect") /\ p.req[h].msgs \in Seq(Msg)
  BY <1>9 DEF About, Metas
<1>4. q.req = p.req /\ q.status = p.status /\ q.due = p.due
  BY <1>2 DEF Same, Plan
<1>5. N(q, 0, "connect")
  BY <1>2, <1>3, <1>4, NEnds DEF Whats
<1>6. W(q, 0)
  BY WLetGo
<1>7. "garbled" \notin q.why => Waits(q, 0, "connect")
  BY <1>2, <1>6, CometdAssumption, LongpollWaits DEF Clash
<1> QED
  BY <1>5, <1>7 DEF N, Excused

LEMMA NLetGo ==
  ASSUME NEW p, NEW h \in Slots, W(p, h), N(p, h, "publish"), NEW v \in Whats, About(p.req[h].msgs, v),
         NEW q, q = LetGo(p, h)
  PROVE  N(q, 0, v)
<1>1. p \in PageRec /\ Distinct(p.requests) /\ p.req[h].msgs \in Seq(Msg)
  BY DEF W, PageRec, Request
<1>2. Same(p, q) /\ p.why \subseteq q.why
  BY <1>1, LetGoIs
<1>4. q.req = p.req /\ q.status = p.status /\ q.due = p.due
  BY <1>2 DEF Same, Plan
<1> QED
  BY <1>1, <1>2, <1>4, NEnds

\* What handshake() sends, and from which state.
LEMMA PreparedIs ==
  ASSUME NEW p, W(p, 0), ~p.threw, NEW x, Spare(p, x), NEW b, b = Prepared(p)
  PROVE  /\ Handshake(p) = SendMessages(Shaking(b), <<Meta("handshake")>>, FALSE)
         /\ W(b, 0) /\ Spare(b, x) /\ ~b.threw /\ b.client = 0 /\ b.why = p.why /\ b.breaks = p.breaks
         /\ b.queue = p.queue /\ b.told = p.told /\ b.last = p.last /\ Plan(p, b)
         /\ ~Disconnected(p) => Wires(p, b) /\ b.lost = p.lost
         /\ Disconnected(p) => /\ b.lost = p.lost \cup Lost(p, ToSet(p.envelopes))
                               /\ b.requests = <<>> /\ b.envelopes = <<>> /\ b.longpoll = 0
                               /\ \A r \in Slots : /\ r \in ToSet(p.envelopes) => b.req[r] = NoRequest
                                                   /\ r \notin ToSet(p.envelopes) => b.req[r] = p.req[r]
<1> DEFINE a == Renewed(p)
<1>1. p \in PageRec
  BY WType
<1>2. /\ a \in PageRec /\ a.client = 0 /\ a.threw = p.threw /\ a.breaks = p.breaks /\ Wires(p, a) /\ Words(p, a)
      /\ Plan(p, a) /\ a.why = p.why
  BY <1>1, RenewedIs
<1>3. Handshake(p) = SendMessages(Shaking(b), <<Meta("handshake")>>, FALSE)
  BY DEF Handshake, Prepared, Shaking, Renewed
<1>4. (Disconnected(p) /\ b = Reset(a)) \/ (~Disconnected(p) /\ b = a)
  BY DEF Prepared
<1> HIDE DEF a
<1>5. W(a, 0) /\ Spare(a, x)
  BY <1>2, WSame, SpareSame DEF Words
<1>6. CASE ~Disconnected(p) /\ b = a
  BY <1>2, <1>3, <1>5, <1>6 DEF Words
<1>7. CASE Disconnected(p) /\ b = Reset(a)
  <2>1. Emptied(a, b)
    BY <1>2, <1>7, ResetIs
  <2>2. \A r \in Slots : /\ r \in ToSet(a.envelopes) => b.req[r] = NoRequest
                         /\ r \notin ToSet(a.envelopes) => b.req[r] = a.req[r]
    BY <1>2, <1>7, ResetIs
  <2>3. W(b, 0) /\ Spare(b, x)
    BY <1>5, <1>7, WReset
  <2>4. Lost(a, ToSet(a.envelopes)) = Lost(p, ToSet(p.envelopes)) /\ a.envelopes = p.envelopes /\ a.req = p.req
    BY <1>2 DEF Wires, Lost
  <2>5. /\ b.queue = p.queue /\ b.told = p.told /\ b.last = p.last /\ b.lost = p.lost \cup Lost(p, ToSet(p.envelopes))
        /\ b.requests = <<>> /\ b.envelopes = <<>> /\ b.longpoll = 0
        /\ b.why = p.why /\ b.breaks = p.breaks /\ ~b.threw /\ b.client = 0
    BY <1>2, <2>1, <2>4 DEF Emptied, Calm, Words
  <2>6. Plan(p, b)
    BY <1>2, <2>1 DEF Emptied, Plan
  <2> QED
    BY <1>3, <1>7, <2>2, <2>3, <2>4, <2>5, <2>6
<1> QED
  BY <1>4, <1>6, <1>7

\* The meta messages.
LEMMA MetaFits ==
  ASSUME NEW w \in Metas, NEW msgs, msgs = <<Meta(w)>>, NEW poll \in BOOLEAN, poll <=> w = "connect"
  PROVE  Fit(msgs, poll) /\ About(msgs, w) /\ w \in Whats /\ Published(msgs) = {}
<1>1. w \in Whats
  BY DEF Whats, Metas
<1>2. msgs \in Seq(Msg) /\ OneMeta(msgs, w) /\ Published(msgs) = {}
  BY <1>1, MetaIs
<1>3. About(msgs, w)
  BY <1>2 DEF About
<1>4. CASE poll
  BY <1>1, <1>2, <1>3, <1>4 DEF Fit
<1>5. CASE ~poll
  BY <1>1, <1>2, <1>3, <1>5 DEF Fit, Metas
<1> QED
  BY <1>4, <1>5

\* All but the long poll are plain.
LEMMA MetaPlain ==
  ASSUME NEW w \in {"handshake", "disconnect"}, NEW msgs, msgs = <<Meta(w)>>
  PROVE  Plain(msgs) /\ About(msgs, w) /\ w \in Whats /\ Published(msgs) = {}
<1>1. w \in Metas /\ w # "connect"
  BY DEF Metas
<1>2. FALSE \in BOOLEAN
  OBVIOUS
<1>3. Fit(msgs, FALSE)
  BY <1>1, <1>2, MetaFits
<1>4. TRUE \in BOOLEAN
  OBVIOUS
<1>5. About(msgs, w) /\ w \in Whats /\ Published(msgs) = {}
  BY <1>1, <1>2, MetaFits
<1> QED
  BY <1>3, <1>5 DEF Plain

LEMMA NDropped ==
  ASSUME NEW p \in PageRec, Distinct(p.requests), NEW h \in Slots, NEW v, N(p, h, v), NEW q, q = Dropped(p, h)
  PROVE  N(q, h, v)
<1> DEFINE s == LetGo(p, h)
<1>1. Same(p, s) /\ p.why \subseteq s.why
  BY LetGoIs
<1>2. s \in PageRec /\ s.req = p.req /\ s.status = p.status /\ s.due = p.due
  BY <1>1 DEF Same, Plan
<1> HIDE DEF s
<1>3. Holds(p, h, s, h)
  BY <1>2 DEF Holds
<1>4. N(s, h, v)
  BY <1>1, <1>2, <1>3, NKept
<1>5. CASE q = s
  BY <1>4, <1>5
<1>6. CASE q = GiveUpNext(s) /\ s.envelopes = <<>>
  BY <1>2, <1>4, <1>6, GiveUpNextIs
<1>7. CASE q = GiveUpNext(s) /\ s.envelopes # <<>>
  <2> DEFINE e == Head(s.envelopes)
  <2>1. s.envelopes \in Seq(Slots)
    BY <1>2 DEF PageRec
  <2>2. e \in Slots
    BY <1>7, <2>1, TailOf
  <2>3. Plan(s, q) /\ s.why \subseteq q.why
    BY <1>2, <1>7, GiveUpNextKeeps
  <2>9. s.envelopes # <<>> /\ q = GiveUpNext(s)
    BY <1>7
  <2>4. /\ q.req[e] = [s.req[e] EXCEPT !.xhr = "failing"] /\ \A r \in Slots \ {e} : q.req[r] = s.req[r]
    BY <1>2, <2>9, GiveUpNextIs
  <2>5. q.req[e].msgs = s.req[e].msgs /\ Busy(q.req[e])
    BY <1>2, <2>2, <2>4 DEF PageRec, Request, Busy
  <2> HIDE DEF e
  <2>6. Holds(s, h, q, h)
    BY <2>4, <2>5 DEF Holds
  <2> QED
    BY <1>4, <2>3, <2>6, NKept DEF Plan
<1> QED
  BY <1>5, <1>6, <1>7 DEF Dropped, s

LEMMA NReports ==
  ASSUME NEW p \in PageRec, NEW h \in Slots, NEW v, N(p, h, v), NEW msgs \in Seq(Msg), NEW q, Reports(p, q, msgs),
         p.req[h].msgs = msgs
  PROVE  N(q, 0, v)
<1>1. CASE OneMeta(msgs, "handshake") /\ q = HandshakeFailed(p)
  BY <1>1, HandshakeFailedIs, NCertain DEF Active
<1>2. CASE OneMeta(msgs, "disconnect") /\ q = Disconnect(p, TRUE)
  <2>1. TRUE \in BOOLEAN
    OBVIOUS
  <2>2. q.status = "disconnected"
    BY <1>2, <2>1, DisconnectIs
  <2> QED
    BY <2>2, NCertain
<1>3. CASE OneMeta(msgs, "connect") /\ q = ConnectFailure(p)
  <2>1. ~OneMeta(msgs, "disconnect")
    BY <1>3, OneThing DEF Whats
  <2>2. CASE Disconnected(p)
    <3>1. q = p
      BY <1>3, <2>2, ConnectFailureIs
    <3>2. Waits(p, h, "disconnect") => Waits(q, 0, "disconnect")
      BY <2>1, <3>1 DEF Waits
    <3> QED
      BY <2>2, <3>1, <3>2 DEF N, Disconnected, Active
  <2>3. CASE ~Disconnected(p)
    BY <1>3, <2>3, ConnectFailureIs, NCertain DEF Active
  <2> QED
    BY <2>2, <2>3
<1>4. CASE Batch(msgs) /\ q = TellAll(p, Published(msgs))
  <2>1. q \in PageRec /\ Wires(p, q) /\ Plan(p, q) /\ q.why = p.why
    BY <1>4, TellAllIs
  <2>2. \A w \in Metas : ~OneMeta(msgs, w)
    BY <1>4, OneThing
  <2>3. \A w \in Metas : Waits(p, h, w) => Waits(q, 0, w)
    BY <2>1, <2>2 DEF Waits, Wires
  <2> QED
    BY <2>1, <2>3 DEF N, Plan, Metas
<1> QED
  BY <1>1, <1>2, <1>3, <1>4 DEF Reports

\* What has failed is no longer waited for.
LEMMA NFailed ==
  ASSUME NEW p \in PageRec, Distinct(p.requests), NEW h \in Slots, h \notin ToSet(p.envelopes), NEW v, N(p, h, v),
         NEW q, Reports(Dropped(p, h), q, p.req[h].msgs)
  PROVE  N(q, 0, v)
<1>1. Dropped(p, h) \in PageRec
  BY DroppedType
<1>2. N(Dropped(p, h), h, v)
  BY NDropped
<1>3. Dropped(p, h).req[h].msgs = p.req[h].msgs
  <2>1. LetGo(p, h).req = p.req /\ LetGo(p, h).envelopes = p.envelopes /\ LetGo(p, h) \in PageRec
    <3>1. Same(p, LetGo(p, h))
      BY LetGoIs
    <3> QED
      BY <3>1 DEF Same
  <2>2. GiveUpNext(LetGo(p, h)).req[h] = LetGo(p, h).req[h]
    BY <2>1, GiveUpNextKeeps
  <2> QED
    BY <2>1, <2>2 DEF Dropped
<1>4. p.req[h].msgs \in Seq(Msg)
  BY DEF PageRec, Request
<1> QED
  BY <1>1, <1>2, <1>3, <1>4, NReports

LEMMA NFailure ==
  ASSUME NEW p, NEW h \in Slots, W(p, h), N(p, h, "publish"), ~p.threw, NEW q, q = HandleFailure(p, h)
  PROVE  N(q, 0, "publish")
<1>1. p \in PageRec /\ Distinct(p.requests) /\ Formed(p.req[h]) /\ h \notin ToSet(p.envelopes)
  BY DEF W
<1>2. CASE Clash(p, h)
  <2>1. LetGo(p, h).threw
    BY <1>1, <1>2, LetGoIs
  <2>2. q = LetGo(p, h)
    BY <1>1, <2>1, HandleFailureIs
  <2> QED
    BY <1>2, <2>2, NClash
<1>3. CASE ~Clash(p, h)
  <2>1. ~LetGo(p, h).threw
    BY <1>1, <1>3, LetGoIs
  <2>2. Reports(Dropped(p, h), q, p.req[h].msgs)
    BY <1>1, <2>1, HandleFailureIs
  <2> QED
    BY <1>1, <2>2, NFailed
<1> QED
  BY <1>2, <1>3

-----------------------------------------------------------------------------
(* A send, while something waits for it.                                   *)

LEMMA NTransportSend ==
  ASSUME NEW p, NEW r, Ready(p, r), NEW v, N(p, r, v), NEW q, q = TransportSend(p, r)
  PROVE  N(q, 0, v) /\ Busy(q.req[r])
<1>1. p \in PageRec /\ r \in Slots /\ Distinct(p.requests)
  BY DEF Ready, W
<1>2. Busy(q.req[r]) /\ p.why \subseteq q.why
  BY WTransportSend
<1>3. CASE ~p.breaks
  <2>1. Launched(p, q, r, "open")
    BY <1>3, SendWorks
  <2>2. Holds(p, r, q, 0) /\ q.status = p.status /\ q.due = p.due
    BY <1>2, <2>1 DEF Launched, Holds, Kept, Plan
  <2> QED
    BY <1>2, <2>2, NKept
<1>4. CASE p.breaks
  <2> DEFINE s == Unbroken(p)
             f == HandleFailure(s, r)
  <2>1. Launched(f, q, r, "none") /\ f.why \subseteq q.why \cup {"stray"}
    BY <1>4, SendThrows
  <2>2. s \in PageRec /\ Wires(p, s) /\ Plan(p, s) /\ s.why = p.why
    BY <1>1, UnbrokenIs
  <2>3. W(s, r) /\ Reports(Dropped(s, r), f, p.req[r].msgs) /\ f.req[r] = p.req[r]
    BY FailsAtOnce
  <2> HIDE DEF s, f
  <2>4. Holds(p, r, s, r) /\ s.status = p.status /\ s.due = p.due /\ s.req = p.req
    BY <2>2 DEF Holds, Wires, Plan
  <2>5. N(s, r, v)
    BY <2>2, <2>4, NKept
  <2>6. Distinct(s.requests) /\ r \notin ToSet(s.envelopes)
    BY <1>1, <2>3 DEF W
  <2>7. N(f, 0, v)
    BY <1>1, <2>2, <2>3, <2>4, <2>5, <2>6, NFailed
  <2>8. Holds(f, 0, q, 0) /\ q.status = f.status /\ q.due = f.due
    BY <1>1, <1>2, <2>1, CometdAssumption DEF Launched, Holds, Kept, Plan
  <2> QED
    BY <1>2, <2>1, <2>7, <2>8, NKept DEF Excused
<1> QED
  BY <1>3, <1>4

\* Lists make no difference.
LEMMA NListed ==
  ASSUME NEW p, NEW h, NEW v, N(p, h, v), NEW q, q.req = p.req, Plan(p, q), q.why = p.why
  PROVE  N(q, h, v)
<1>1. Holds(p, h, q, h)
  BY DEF Holds
<1> QED
  BY <1>1, NKept DEF Plan

LEMMA NQueueSend ==
  ASSUME NEW p, NEW r, Ready(p, r), NEW v, N(p, r, v), NEW q, q = QueueSend(p, r)
  PROVE  N(q, 0, v)
<1>1. p \in PageRec /\ r \in Slots
  BY DEF Ready, W
<1>2. CASE q = Enlisted(TransportSend(p, r), r)
  <2> DEFINE s == TransportSend(p, r)
  <2>1. N(s, 0, v)
    BY NTransportSend
  <2>2. s \in PageRec
    BY WTransportSend, WType
  <2> HIDE DEF s
  <2>3. q = Enlisted(s, r)
    BY <1>2 DEF s
  <2>4. q.req = s.req /\ Plan(s, q) /\ q.why = s.why
    BY <1>1, <2>2, <2>3, EnlistedIs
  <2> QED
    BY <2>1, <2>4, NListed
<1>3. CASE q = Enveloped(p, r)
  <2>1. /\ Kept(p.req[r], q.req[r]) /\ q.req[r].xhr = "waiting" /\ \A s \in Slots \ {r} : q.req[s] = p.req[s]
        /\ Plan(p, q) /\ q.why = p.why
    BY <1>1, <1>3, EnvelopedIs
  <2>2. Holds(p, r, q, 0)
    BY <2>1 DEF Holds, Kept, Busy
  <2> QED
    BY <2>1, <2>2, NKept DEF Plan
<1> QED
  BY <1>2, <1>3, QueueSendIs

LEMMA NFresh ==
  ASSUME NEW p \in PageRec, NEW r \in Free(p), NEW v \in Whats, N(p, 0, v), NEW poll \in BOOLEAN, NEW msgs \in Seq(Msg),
         About(msgs, v), NEW q, q = Fresh(p, r, msgs, poll)
  PROVE  N(q, r, "publish")
<1>1. r \in Slots /\ ~Busy(p.req[r])
  BY FreeIs
<1>2. /\ q.req[r].msgs = Carried(msgs, p.client) /\ \A s \in Slots \ {r} : q.req[s] = p.req[s]
      /\ Plan(p, q) /\ q.why = p.why
  BY <1>1, FreshIs
<1>3. Holds(p, 0, q, r)
  BY <1>1, <1>2, CometdAssumption DEF Holds
<1>4. N(q, r, v)
  BY <1>2, <1>3, NKept DEF Plan
<1>5. p.client \in Nat
  BY DEF PageRec
<1>6. v \in Metas => OneMeta(q.req[r].msgs, v)
  BY <1>2, <1>5, CarriedIs DEF About, Metas
<1>7. v \in Metas => Waits(q, r, v)
  BY <1>1, <1>6 DEF Waits
<1> QED
  BY <1>4, <1>7 DEF N, Metas

\* An envelope is taken up.
LEMMA NOpening ==
  ASSUME NEW p \in PageRec, p.envelopes # <<>>, NEW v, N(p, 0, v), NEW e, NEW q, q = Opening(p)
  PROVE  N(q, e, v)
<1>1. q.req = p.req /\ Plan(p, q) /\ q.why = p.why
  BY OpeningIs
<1>2. Holds(p, 0, q, e)
  BY <1>1, CometdAssumption DEF Holds
<1> QED
  BY <1>1, <1>2, NKept DEF Plan

LEMMA NBegun ==
  ASSUME NEW p \in PageRec, NEW r \in Free(p), NEW msgs, NEW v \in Whats, About(msgs, v), N(p, 0, v),
         NEW c, Begun(p, c, r, msgs)
  PROVE  N(c, r, "publish")
<1>1. PICK b \in BOOLEAN : c = Fresh(p, r, msgs, b) /\ Fit(msgs, b)
  BY DEF Begun
<1>2. msgs \in Seq(Msg)
  BY <1>1 DEF Fit
<1> QED
  BY <1>1, <1>2, NFresh

LEMMA NSendMessages ==
  ASSUME NEW p, W(p, 0), ~p.threw, Free(p) # {}, NEW msgs, Plain(msgs), NEW v \in Whats, About(msgs, v), N(p, 0, v),
         NEW q, q = SendPlain(p, msgs)
  PROVE  N(q, 0, "publish")
<1>1. p \in PageRec
  BY WType
<1>2. PICK r \in Free(p) : \E c : /\ Begun(p, c, r, msgs) /\ ~c.req[r].poll /\ Ready(c, r)
                                   /\ q = QueueSend(c, r)
  BY SendsQueued
<1>3. PICK c : /\ Begun(p, c, r, msgs) /\ ~c.req[r].poll /\ Ready(c, r)
               /\ q = QueueSend(c, r)
  BY <1>2
<1>4. N(c, r, "publish")
  BY <1>1, <1>3, NBegun
<1> QED
  BY <1>3, <1>4, NQueueSend

LEMMA NSendNext ==
  ASSUME NEW p, W(p, 0), ~p.threw, NEW v, N(p, 0, v), NEW q, q = SendNext(p)
  PROVE  N(q, 0, v)
<1>1. CASE p.envelopes = <<>>
  BY <1>1 DEF SendNext
<1>2. CASE p.envelopes # <<>>
  <2> DEFINE c == Opening(p)
             e == Head(p.envelopes)
  <2>1. q = QueueSend(c, e)
    BY <1>2, SendNextIs
  <2>2. Ready(c, e)
    BY <1>2, ReadyOpening
  <2>3. N(c, e, v)
    BY <1>2, WType, NOpening
  <2> HIDE DEF c, e
  <2> QED
    BY <2>1, <2>2, <2>3, NQueueSend
<1> QED
  BY <1>1, <1>2

LEMMA NFlushBatch ==
  ASSUME NEW p, W(p, 0), ~p.threw, NEW x, Spare(p, x), N(p, 0, "publish"), NEW q, q = FlushBatch(p)
  PROVE  N(q, 0, "publish")
<1>1. CASE p.queue = <<>>
  BY <1>1, FlushBatchIs
<1>2. CASE p.queue # <<>>
  <2> DEFINE u == Unloaded(p)
  <2>1. /\ W(u, 0) /\ ~u.threw /\ Spare(u, x) /\ Plain(p.queue) /\ Batch(p.queue)
        /\ q = SendPlain(u, p.queue)
    BY <1>2, FlushBatchIs DEF Plain, SendPlain
  <2>2. Wires(p, u) /\ Plan(p, u) /\ u.why = p.why
    BY WType, UnloadedIs
  <2> HIDE DEF u
  <2>3. Free(u) # {}
    BY <2>1, WType, FreeSpare
  <2>4. N(u, 0, "publish")
    BY <2>2, NListed DEF Wires
  <2>5. "publish" \in Whats /\ About(p.queue, "publish")
    BY <2>1 DEF Whats, About
  <2> QED
    BY <2>1, <2>3, <2>4, <2>5, NSendMessages
<1> QED
  BY <1>1, <1>2

\* connect() leaves a long poll.
LEMMA ConnectIs ==
  ASSUME NEW p, W(p, 0), ~p.threw, NEW x, Spare(p, x), NEW q, q = Connect(p)
  PROVE  q.longpoll # 0 /\ q.status \in {"connecting", "connected"}
<1> DEFINE s == Status(p, "connecting")
           msgs == <<Meta("connect")>>
           t == SendPoll(s, msgs)
<1>1. p \in PageRec /\ "connecting" \in Phases /\ "connected" \in Phases
  BY WType DEF Phases
<1>2. Moves(p, s) /\ s.why = p.why /\ s.status = "connecting"
  BY <1>1, StatusIs
<1>3. Polls(msgs)
  <2>1. "connect" \in Whats
    BY DEF Whats
  <2> HIDE DEF msgs
  <2>2. msgs = <<Meta("connect")>>
    BY DEF msgs
  <2>3. msgs \in Seq(Msg) /\ OneMeta(msgs, "connect")
    BY <2>1, <2>2, MetaIs
  <2> QED
    BY <2>3 DEF Fit, Polls
<1> HIDE DEF s, msgs
<1>4. s \in PageRec /\ Wires(p, s) /\ s.queue = p.queue /\ ~s.threw
  BY <1>2 DEF Moves, Words, Calm
<1>5. W(s, 0) /\ Free(s) # {} /\ TRUE \in BOOLEAN
  BY <1>2, <1>4, WSame, SpareSame, FreeSpare
<1>7. q = IF t.threw THEN t ELSE Status(t, "connected")
  BY DEF Connect, s, msgs, SendPoll
<1>8. CASE s.longpoll # 0
  <2>1. t = Throw(s)
    BY <1>3, <1>4, <1>5, <1>8, SendsPoll
  <2> HIDE DEF t
  <2>2. t.threw /\ t.longpoll = s.longpoll /\ t.status = s.status
    BY <1>4, <2>1 DEF Throw, PageRec
  <2> QED
    BY <1>2, <1>7, <1>8, <2>2
<1>9. CASE s.longpoll = 0
  <2>1. PICK r \in Free(s) : \E c : /\ Begun(s, c, r, msgs) /\ c.req[r].poll /\ Ready(c, r)
                                     /\ t = LongpollSend(c, r)
    BY <1>3, <1>4, <1>5, <1>9, SendsPoll
  <2>2. PICK c : Ready(c, r) /\ c.req[r].poll /\ t = LongpollSend(c, r)
    BY <2>1
  <2> DEFINE l == LongpollSend(c, r)
             z == TransportSend(c, r)
  <2>3. W(l, 0) /\ ~l.threw /\ l = Polling(z, r)
    BY <2>2, WLongpollSend
  <2>4. z \in PageRec
    BY <2>2, WTransportSend, WType
  <2>5. t = l
    BY <2>2
  <2> HIDE DEF l, t, z
  <2>6. r \in Slots /\ r # 0
    BY <1>4, FreeIs, CometdAssumption
  <2>7. l.longpoll = r
    BY <2>3, <2>4, <2>6, PollingIs
  <2>8. ~t.threw /\ t.longpoll # 0 /\ t \in PageRec
    BY <2>3, <2>5, <2>6, <2>7, WType
  <2>9. q = Status(t, "connected")
    BY <1>7, <2>8
  <2>10. Moves(t, q) /\ q.status = "connected"
    BY <1>1, <2>8, <2>9, StatusIs
  <2> QED
    BY <2>8, <2>10 DEF Moves, Wires
<1> QED
  BY <1>8, <1>9

LEMMA NConnect ==
  ASSUME NEW p, W(p, 0), ~p.threw, NEW x, Spare(p, x), NEW q, q = Connect(p)
  PROVE  N(q, 0, "publish")
<1>1. q.longpoll # 0 /\ q.status \in {"connecting", "connected"}
  BY ConnectIs
<1>2. W(q, 0)
  BY WConnect
<1>3. "garbled" \notin q.why => Waits(q, 0, "connect")
  BY <1>1, <1>2, LongpollWaits
<1> QED
  BY <1>1, <1>3 DEF N, Excused

LEMMA NHandshake ==
  ASSUME NEW p, W(p, 0), ~p.threw, NEW x, Spare(p, x), NEW q, q = Handshake(p)
  PROVE  N(q, 0, "publish")
<1> DEFINE b == Prepared(p)
           c == Shaking(b)
           msgs == <<Meta("handshake")>>
<1>1. q = SendPlain(c, msgs) /\ W(b, 0) /\ Spare(b, x) /\ ~b.threw
  BY PreparedIs DEF SendPlain
<1> HIDE DEF b
<1>2. b \in PageRec
  BY <1>1, WType
<1>3. c \in PageRec /\ Wires(b, c) /\ Words(b, c) /\ c.why = b.why /\ c.threw = b.threw /\ c.status = "handshaking"
  BY <1>2, ShakingIs
<1> HIDE DEF c
<1>4. W(c, 0) /\ Spare(c, x) /\ ~c.threw /\ Free(c) # {}
  BY <1>1, <1>3, WSame, SpareSame, FreeSpare DEF Words
<1>5. N(c, 0, "handshake")
  BY <1>3 DEF N
<1>6. Plain(msgs) /\ About(msgs, "handshake") /\ "handshake" \in Whats
  BY MetaPlain
<1> HIDE DEF msgs
<1> QED
  BY <1>1, <1>4, <1>5, <1>6, NSendMessages

-----------------------------------------------------------------------------
(* An answer, and who waits for what then.                                 *)

\* After the answer to a meta message there is nothing to wait for.
LEMMA NReceivedConnect ==
  ASSUME NEW p, W(p, 0), ~p.threw, NEW x, Spare(p, x), NEW msg \in Ans, NEW q, q = ConnectResponse(p, msg), NEW v
  PROVE  N(q, 0, v)
<1>0. p \in PageRec /\ msg.ok \in BOOLEAN
  BY WType DEF Ans
<1>1. CASE ~msg.ok
  BY <1>0, <1>1, ConnectResponseFails, NCertain DEF Active
<1>2. CASE msg.ok
  <2>1. ASSUME NEW u, Connected(p, u), NEW s, s = FlushBatch(u)
        PROVE  s \in PageRec
    <3>1. u \in PageRec /\ Wires(p, u) /\ u.queue = p.queue /\ u.why = p.why /\ u.threw = p.threw
      BY <2>1 DEF Connected, Moves, Words, Calm
    <3>2. W(u, 0) /\ Spare(u, x) /\ ~u.threw
      BY <3>1, WSame, SpareSame
    <3> QED
      BY <2>1, <3>2, WFlushBatch, WType
  <2>2. \A u : Connected(p, u) => FlushBatch(u) \in PageRec
    BY <2>1
  <2>3. \/ q.status = "connecting" /\ q.due = "connect"
        \/ q.status = "disconnected"
    BY <1>0, <1>2, <2>2, ConnectResponseWorks
  <2> QED
    BY <2>3, NCertain DEF Active
<1> QED
  BY <1>0, <1>1, <1>2

LEMMA NReceived ==
  ASSUME NEW p, W(p, 0), ~p.threw, NEW x, Spare(p, x), NEW msgs \in Seq(Msg), NEW v \in Whats, About(msgs, v),
         N(p, 0, v), NEW reply, NEW q, Received(p, q, msgs, reply)
  PROVE  N(q, 0, "publish")
<1>0. p \in PageRec
  BY WType
<1>1. CASE Batch(msgs) /\ q = TellAll(p, Published(msgs))
  <2> DEFINE M == Published(msgs)
  <2>0. q = TellAll(p, M)
    BY <1>1
  <2> HIDE DEF M
  <2>1. q.req = p.req /\ Plan(p, q) /\ q.why = p.why
    BY <1>0, <2>0, TellAllIs DEF Wires
  <2>2. About(msgs, "publish") /\ "publish" \in Whats
    BY <1>1 DEF About, Whats
  <2>3. v = "publish"
    BY <2>2, AboutOne
  <2> QED
    BY <2>1, <2>3, NListed
<1>2. CASE \E w \in {"handshake", "connect", "disconnect"} :
             OneMeta(msgs, w) /\ reply[1] \in Ans /\ reply[1].what = w /\ q = Receive(p, reply[1])
  <2> DEFINE msg == reply[1]
             a == Advised(p, msg)
  <2>1. msg \in Ans /\ q = Receive(p, msg) /\ msg.what \in {"handshake", "connect", "disconnect"} /\ msg.ok \in BOOLEAN
    BY <1>2 DEF Ans
  <2> HIDE DEF msg
  <2>2. Moves(p, a) /\ a.why = p.why
    BY <1>0, <2>1, AdvisedIs
  <2>3. /\ msg.what = "handshake"  => q = HandshakeResponse(a, msg)
        /\ msg.what = "connect"    => q = ConnectResponse(a, msg)
        /\ msg.what = "disconnect" => q = Disconnect(a, ~msg.ok)
    BY <1>0, <2>1, ReceiveIs
  <2> HIDE DEF a
  <2>4. a \in PageRec /\ Wires(p, a) /\ a.queue = p.queue /\ a.threw = p.threw
    BY <2>2 DEF Moves, Words, Calm
  <2>5. W(a, 0) /\ Spare(a, x) /\ ~a.threw
    BY <2>2, <2>4, WSame, SpareSame
  <2>6. CASE msg.what = "handshake"
    <3>1. q = HandshakeResponse(a, msg)
      BY <2>3, <2>6
    <3>2. /\ ~msg.ok => q = HandshakeFailed(a)
          /\ msg.ok => \/ "unsupported" \in q.why
                       \/ "none" \in q.why
                       \/ q.status = "connecting" /\ q.due = "connect"
      BY <2>1, <2>4, <3>1, HandshakeResponseIs
    <3>3. CASE ~msg.ok
      BY <2>4, <3>2, <3>3, HandshakeFailedIs, NCertain DEF Active
    <3>4. CASE msg.ok
      BY <3>2, <3>4, NCertain DEF Active
    <3> QED
      BY <2>1, <3>3, <3>4
  <2>7. CASE msg.what = "connect"
    BY <2>1, <2>3, <2>5, <2>7, NReceivedConnect
  <2>8. CASE msg.what = "disconnect"
    <3> DEFINE t == ~msg.ok
    <3>1. q = Disconnect(a, t) /\ t \in BOOLEAN
      BY <2>1, <2>3, <2>8
    <3> HIDE DEF t
    <3>2. q.status = "disconnected"
      BY <2>4, <3>1, DisconnectIs
    <3> QED
      BY <3>2, NCertain
  <2> QED
    BY <2>1, <2>6, <2>7, <2>8
<1> QED
  BY <1>1, <1>2 DEF Received

LEMMA NHandleResponse ==
  ASSUME NEW p, NEW r \in Slots, W(p, r), N(p, r, "publish"), ~p.threw, Formed(p.req[r]),
         Echoes(p.req[r].reply, p.req[r].msgs), NEW x, Spare(p, x), NEW q, q = HandleResponse(p, r)
  PROVE  N(q, 0, "publish")
<1>0. p \in PageRec /\ Distinct(p.requests) /\ p.req[r].msgs \in Seq(Msg)
  BY DEF W, PageRec, Request
<1>1. CASE Clash(p, r)
  BY <1>1, HandleResponseIs, NClash
<1>2. CASE ~Clash(p, r)
  <2> DEFINE l == LetGo(p, r)
             s == Passed(p, r)
  <2>1. PICK v \in Whats : About(p.req[r].msgs, v)
    BY FormedAbout
  <2>2. N(l, 0, v)
    BY <2>1, NLetGo
  <2>3. W(l, 0) /\ ~l.threw
    <3>1. W(l, r) /\ Loose(l, r)
      BY <1>2, WLetGo
    <3>2. l.threw = p.threw
      BY <1>0, <1>2, LetGoIs
    <3> QED
      BY <3>1, <3>2, WLoose, CometdAssumption
  <2>4. W(s, 0) /\ ~s.threw /\ Spare(s, x) /\ Received(s, q, p.req[r].msgs, p.req[r].reply)
    BY <1>2, HandleResponseIs
  <2>5. s = l \/ s = SendNext(l)
    BY DEF Passed
  <2> HIDE DEF l, s
  <2>6. N(s, 0, v)
    BY <2>2, <2>3, <2>5, NSendNext
  <2> QED
    BY <1>0, <2>1, <2>4, <2>6, NReceived
<1> QED
  BY <1>1, <1>2

LEMMA NSettled ==
  ASSUME NEW p, W(p, 0), N(p, 0, "publish"), NEW q, q = Settled(p)
  PROVE  N(q, 0, "publish")
<1>1. p \in PageRec
  BY WType
<1>2. Plan(p, q) /\ q.why = p.why
  BY <1>1, SettledIs
<1>3. \A r \in Slots : ~Spare(p, r) => q.req[r] = p.req[r]
  BY <1>1, SettledIs
<1>4. Holds(p, 0, q, 0)
  BY <1>3, CometdAssumption DEF Holds, Spare
<1> QED
  BY <1>2, <1>4, NKept DEF Plan

LEMMA NEnded ==
  ASSUME NEW p, W(p, 0), N(p, 0, "publish"), NEW r \in Slots, NEW q, q = Ended(p, r)
  PROVE  N(q, r, "publish")
<1>1. p \in PageRec
  BY WType
<1>2. Plan(p, q) /\ q.why = p.why /\ Kept(p.req[r], q.req[r])
  BY <1>1, EndedIs
<1>3. \A s \in Slots : s # r => q.req[s] = p.req[s]
  BY <1>1, EndedIs
<1>4. Holds(p, 0, q, r)
  BY <1>2, <1>3, CometdAssumption DEF Holds, Kept
<1> QED
  BY <1>2, <1>4, NKept DEF Plan

-----------------------------------------------------------------------------
(* Whole turns, between which somebody will call back.                     *)

Awaits == N(page, 0, "publish")

LEMMA AwaitsTurn ==
  ASSUME NEW q, W(q, 0), N(q, 0, "publish"), Turn(q), granted' = granted
  PROVE  Awaits'
<1> DEFINE n == page'
<1>1. n = Settled(q)
  BY EndOfTurn
<1> HIDE DEF n
<1>2. N(n, 0, "publish")
  BY <1>1, NSettled
<1> QED
  BY <1>2 DEF Awaits, n, N, Waits, Busy

LEMMA AwaitsAppHandshake ==
  ASSUME Wired, Awaits, Room, AppHandshake
  PROVE  Awaits'
<1> DEFINE w == IF page.due # "none" THEN page.why \cup {"overtaken"} ELSE page.why
           p == [page EXCEPT !.status = "disconnected", !.why = w]
           q == Handshake(p)
<1>1. W(page, 0) /\ ~page.threw /\ page \in PageRec
  BY WType DEF Wired
<1>2. w \in SUBSET Reasons /\ page.why \subseteq w /\ "disconnected" \in Phases
  BY <1>1 DEF PageRec, Reasons, Phases
<1>3. Turn(q)
  <2>1. [page EXCEPT !.status = "disconnected", !.why = IF page.due # "none" THEN @ \cup {"overtaken"} ELSE @] = p
    BY <1>1 DEF PageRec
  <2> QED
    BY <2>1 DEF AppHandshake
<1> HIDE DEF w
<1>4. p \in PageRec /\ Wires(page, p) /\ p.queue = page.queue /\ p.why = w /\ p.threw = page.threw
  BY <1>1, <1>2 DEF PageRec, Wires
<1> HIDE DEF p
<1>5. PICK x : Spare(p, x)
  BY <1>4, RoomIs, SpareSame
<1>6. W(p, 0)
  BY <1>1, <1>2, <1>4, WSame
<1>7. W(q, 0) /\ N(q, 0, "publish")
  BY <1>1, <1>4, <1>5, <1>6, WHandshake, NHandshake
<1> HIDE DEF q
<1> QED
  BY <1>3, <1>7, AwaitsTurn DEF AppHandshake

LEMMA AwaitsAppDisconnect ==
  ASSUME Wired, Awaits, Room, AppDisconnect
  PROVE  Awaits'
<1> DEFINE p == Status(page, "disconnecting")
           msgs == <<Meta("disconnect")>>
           q == SendPlain(p, msgs)
<1>1. W(page, 0) /\ ~page.threw /\ page \in PageRec /\ "disconnecting" \in Phases
  BY WType DEF Wired, Phases
<1>2. Moves(page, p) /\ p.why = page.why /\ p.status = "disconnecting"
  BY <1>1, StatusIs
<1>3. Turn(q)
  BY DEF AppDisconnect, SendPlain
<1>4. Plain(msgs) /\ About(msgs, "disconnect") /\ "disconnect" \in Whats
  BY MetaPlain
<1> HIDE DEF p, msgs
<1>5. p \in PageRec /\ Wires(page, p) /\ p.queue = page.queue /\ p.threw = page.threw
  BY <1>2 DEF Moves, Words, Calm
<1>6. PICK x : Spare(p, x)
  BY <1>5, RoomIs, SpareSame
<1>7. W(p, 0) /\ Free(p) # {} /\ FALSE \in BOOLEAN /\ ~p.threw
  BY <1>1, <1>2, <1>5, <1>6, WSame, FreeSpare
<1>8. N(p, 0, "disconnect")
  BY <1>2 DEF N, Active
<1>9. N(q, 0, "publish")
  BY <1>4, <1>7, <1>8, NSendMessages
<1>10. W(q, 0)
  BY <1>4, <1>7, WSendMessages DEF Plain, SendPlain
<1> HIDE DEF q
<1> QED
  BY <1>3, <1>9, <1>10, AwaitsTurn DEF AppDisconnect

LEMMA AwaitsDue ==
  ASSUME Wired, Awaits, Room, Due
  PROVE  Awaits'
<1> DEFINE p == [page EXCEPT !.due = "none"]
           q == IF page.due = "connect" THEN Connect(p) ELSE Handshake(p)
<1>1. W(page, 0) /\ ~page.threw /\ page \in PageRec
  BY WType DEF Wired
<1>2. p \in PageRec /\ Wires(page, p) /\ p.queue = page.queue /\ p.why = page.why /\ p.threw = page.threw
  BY <1>1 DEF PageRec, Wires
<1>3. Turn(q)
  BY DEF Due
<1>4. q = Connect(p) \/ q = Handshake(p)
  OBVIOUS
<1> HIDE DEF p, q
<1>5. PICK x : Spare(p, x)
  BY <1>2, RoomIs, SpareSame
<1>6. W(p, 0)
  BY <1>1, <1>2, WSame
<1>7. W(q, 0) /\ N(q, 0, "publish")
  <2>1. CASE q = Connect(p)
    BY <1>1, <1>2, <1>5, <1>6, <2>1, WConnect, NConnect
  <2>2. CASE q = Handshake(p)
    BY <1>1, <1>2, <1>5, <1>6, <2>2, WHandshake, NHandshake
  <2> QED
    BY <1>4, <2>1, <2>2
<1> QED
  BY <1>3, <1>7, AwaitsTurn DEF Due

LEMMA AwaitsPublish ==
  ASSUME Wired, Awaits, Room, Publish
  PROVE  Awaits'
<1> DEFINE n == asked + 1
           msgs == <<Message(n)>>
           q == IF page.batch > 0 \/ page.held THEN Queued(page, n) ELSE SendPlain(page, msgs)
<1>1. W(page, 0) /\ ~page.threw /\ page \in PageRec /\ Dated /\ (page.queue = <<>> \/ Batch(page.queue))
  BY WType DEF Wired, W
<1>2. asked' = n /\ n \in Messages /\ asked \in Nat
  BY <1>1, CometdAssumption DEF Publish, Dated, Messages
<1>3. \A m \in Published(page.queue) : m < n
  BY <1>1, <1>2 DEF Dated
<1>4. Turn(q)
  <2>1. Turn(IF page.batch > 0 \/ page.held THEN [page EXCEPT !.queue = Append(@, Message(n))]
             ELSE SendMessages(page, <<Message(n)>>, FALSE))
    BY <1>2 DEF Publish
  <2>2. [page EXCEPT !.queue = Append(@, Message(n))] = Queued(page, n)
    BY <1>1 DEF Queued, PageRec
  <2> QED
    BY <2>1, <2>2 DEF SendPlain
<1>5. q = Queued(page, n) \/ q = SendPlain(page, msgs)
  OBVIOUS
<1>6. Plain(msgs) /\ About(msgs, "publish") /\ "publish" \in Whats
  <2> HIDE DEF msgs, n
  <2>1. msgs = <<Message(n)>> /\ n \in Messages
    BY <1>2 DEF msgs
  <2>2. msgs \in Seq(Msg) /\ Batch(msgs)
    BY <2>1, MessageIs
  <2> QED
    BY <2>2 DEF Fit, Plain, About, Whats
<1> HIDE DEF q, msgs, n
<1>7. CASE q = Queued(page, n)
  <2>1. q \in PageRec /\ Batch(q.queue) /\ Wires(page, q) /\ Plan(page, q) /\ q.why = page.why
    BY <1>1, <1>2, <1>3, <1>7, QueuedIs
  <2>2. W(q, 0)
    BY <1>1, <2>1 DEF W, Wires, Listed
  <2>3. N(q, 0, "publish")
    BY <2>1, NListed DEF Wires, Awaits
  <2> QED
    BY <1>4, <2>2, <2>3, AwaitsTurn DEF Publish
<1>8. CASE q = SendPlain(page, msgs)
  <2>1. Free(page) # {} /\ FALSE \in BOOLEAN
    BY <1>1, RoomIs, FreeSpare
  <2>2. W(q, 0)
    BY <1>1, <1>6, <1>8, <2>1, WSendMessages DEF Plain, SendPlain
  <2>3. N(q, 0, "publish")
    BY <1>1, <1>6, <1>8, <2>1, NSendMessages DEF Awaits
  <2> QED
    BY <1>4, <2>2, <2>3, AwaitsTurn DEF Publish
<1> QED
  BY <1>5, <1>7, <1>8

LEMMA AwaitsStartBatch ==
  ASSUME Wired, Awaits, Room, StartBatch
  PROVE  Awaits'
<1> DEFINE q == Counted(page, page.batch + 1)
<1>1. W(page, 0) /\ page \in PageRec /\ Dated
  BY WType DEF Wired
<1>2. page.batch + 1 \in Int
  BY <1>1 DEF StartBatch, Dated
<1>3. Turn(q)
  <2>1. [page EXCEPT !.batch = @ + 1] = q
    BY <1>1 DEF Counted, PageRec
  <2> QED
    BY <2>1 DEF StartBatch
<1>4. q \in PageRec /\ Wires(page, q) /\ q.queue = page.queue /\ q.why = page.why /\ Plan(page, q)
  BY <1>1, <1>2, CountedIs DEF Words
<1> HIDE DEF q
<1>5. W(q, 0)
  BY <1>1, <1>4, WSame
<1>6. N(q, 0, "publish")
  BY <1>4, NListed DEF Awaits, Wires
<1> QED
  BY <1>3, <1>5, <1>6, AwaitsTurn DEF StartBatch

LEMMA AwaitsEndBatch ==
  ASSUME Wired, Awaits, Room, EndBatch
  PROVE  Awaits'
<1> DEFINE p == Counted(page, page.batch - 1)
           q == IF p.batch = 0 /\ ~Disconnected(p) /\ ~p.held THEN FlushBatch(p)
                ELSE IF p.queue # <<>> /\ ~p.held THEN Because(p, "kept") ELSE p
<1>1. W(page, 0) /\ ~page.threw /\ page \in PageRec /\ Dated
  BY WType DEF Wired
<1>2. page.batch - 1 \in Int
  BY <1>1 DEF EndBatch, Dated
<1>3. Turn(q)
  <2>1. [page EXCEPT !.batch = @ - 1] = p
    BY <1>1 DEF Counted, PageRec
  <2> HIDE DEF p
  <2> QED
    BY <2>1 DEF EndBatch
<1>4. /\ p \in PageRec /\ Wires(page, p) /\ p.queue = page.queue /\ p.why = page.why /\ Plan(page, p)
      /\ p.threw = page.threw
  BY <1>1, <1>2, CountedIs DEF Words
<1> HIDE DEF p
<1>5. q = FlushBatch(p) \/ q = Because(p, "kept") \/ q = p
  OBVIOUS
<1> HIDE DEF q
<1>6. W(p, 0)
  BY <1>1, <1>4, WSame
<1>7. PICK x : Spare(p, x)
  BY <1>4, RoomIs, SpareSame
<1>8. N(p, 0, "publish")
  BY <1>4, NListed DEF Awaits, Wires
<1>9. W(q, 0) /\ N(q, 0, "publish")
  <2>1. CASE q = FlushBatch(p)
    BY <1>1, <1>4, <1>6, <1>7, <1>8, <2>1, WFlushBatch, NFlushBatch
  <2>2. CASE q = Because(p, "kept")
    <3>1. Moves(p, q) /\ Plan(p, q) /\ q.why = p.why \cup {"kept"}
      BY <1>4, <2>2, BecauseIs DEF Reasons
    <3>2. Holds(p, 0, q, 0)
      BY <3>1 DEF Moves, Wires, Holds
    <3>3. N(q, 0, "publish")
      BY <1>8, <3>1, <3>2, NKept DEF Plan
    <3> QED
      BY <1>6, <3>1, <3>3, WSame DEF Moves, Words
  <2>3. CASE q = p
    BY <1>6, <1>8, <2>3
  <2> QED
    BY <1>5, <2>1, <2>2, <2>3
<1> QED
  BY <1>3, <1>9, AwaitsTurn DEF EndBatch

LEMMA AwaitsFailure ==
  ASSUME Wired, Awaits, Room, NEW r \in Slots, Out(page, r), Turn(HandleFailure(Over(r), r)), granted' = granted
  PROVE  Awaits'
<1> DEFINE p == Ended(page, r)
           q == HandleFailure(p, r)
<1>1. W(page, 0) /\ ~page.threw /\ page \in PageRec
  BY WType DEF Wired
<1>2. Turn(q)
  BY DEF Over, Ended
<1>3. W(p, r) /\ Calm(page, p) /\ N(p, r, "publish")
  BY <1>1, WEnded, EndedIs, NEnded DEF Awaits
<1> HIDE DEF p
<1>4. W(q, 0) /\ N(q, 0, "publish")
  BY <1>1, <1>3, WHandleFailure, NFailure DEF Calm
<1> HIDE DEF q
<1> QED
  BY <1>2, <1>4, AwaitsTurn

LEMMA AwaitsPoll ==
  ASSUME Wired, Awaits, Room, NEW r \in Slots, Poll(r)
  PROVE  Awaits'
<1> DEFINE p == Ended(page, r)
<1>1. W(page, 0) /\ ~page.threw /\ page \in PageRec
  BY WType DEF Wired
<1>2. p = Over(r)
  BY DEF Over, Ended
<1>3. ASSUME Out(page, r)
      PROVE  /\ W(p, r) /\ p.threw = page.threw /\ p.req[r].msgs = page.req[r].msgs /\ p.req[r].reply = page.req[r].reply
             /\ Formed(page.req[r]) /\ Formed(p.req[r]) /\ N(p, r, "publish")
             /\ \A x : Spare(page, x) => Spare(p, x)
  <2>1. W(p, r) /\ Calm(page, p) /\ Kept(page.req[r], p.req[r]) /\ N(p, r, "publish")
    BY <1>1, <1>3, WEnded, EndedIs, NEnded DEF Awaits
  <2>2. Formed(page.req[r]) /\ \A x : Spare(page, x) => Spare(p, x)
    BY <1>1, <1>3, WEnded
  <2> HIDE DEF p
  <2>3. Formed(p.req[r])
    BY <2>1 DEF W
  <2> QED
    BY <2>1, <2>2, <2>3 DEF Calm, Kept
<1>4. granted' = granted
  BY DEF Poll
<1>5. CASE page.req[r].xhr = "broken" /\ Turn(HandleFailure(Over(r), r))
  BY <1>4, <1>5, AwaitsFailure DEF Out
<1> HIDE DEF p
<1>6. CASE page.req[r].xhr = "answered" /\ Turn(HandleResponse(Over(r), r))
  <2> DEFINE q == HandleResponse(p, r)
  <2>1. Turn(q)
    BY <1>2, <1>6
  <2>2. Out(page, r)
    BY <1>6 DEF Out
  <2>3. Echoes(page.req[r].reply, page.req[r].msgs)
    BY <1>3, <1>6, <2>2 DEF Formed
  <2>4. PICK x : Spare(p, x)
    BY <1>3, <2>2, RoomIs
  <2>5. Echoes(p.req[r].reply, p.req[r].msgs) /\ W(p, r) /\ ~p.threw /\ Formed(p.req[r]) /\ N(p, r, "publish")
    BY <1>1, <1>3, <2>2, <2>3
  <2>6. W(q, 0) /\ N(q, 0, "publish")
    BY <2>4, <2>5, WHandleResponse, NHandleResponse
  <2> HIDE DEF q
  <2> QED
    BY <1>4, <2>1, <2>6, AwaitsTurn
<1>7. CASE page.req[r].xhr = "garbled" /\ Turn([Because(Over(r), "garbled") EXCEPT !.lost = @ \cup Published(page.req[r].msgs)])
  <2> DEFINE q == Forgotten(p, page.req[r].msgs)
  <2>1. Turn(q)
    BY <1>2, <1>7 DEF Forgotten
  <2>2. Out(page, r)
    BY <1>7 DEF Out
  <2>3. p \in PageRec /\ page.req[r].msgs \in Seq(Msg) /\ W(p, r)
    BY <1>1, <1>3, <2>2, WType DEF PageRec, Request
  <2>4. q \in PageRec /\ Wires(p, q) /\ q.why = p.why \cup {"garbled"} /\ q.queue = p.queue
    BY <2>3, ForgottenIs
  <2> HIDE DEF q
  <2>5. W(q, r)
    BY <2>3, <2>4, WSame
  <2>6. ToSet(q.envelopes) \subseteq Slots /\ 0 \notin Slots /\ r # 0
    BY <2>4, Members, CometdAssumption DEF PageRec
  <2>7. W(q, 0)
    BY <2>4, <2>5, <2>6 DEF W
  <2>8. N(q, 0, "publish")
    BY <2>4, NCertain
  <2> QED
    BY <1>4, <2>1, <2>7, <2>8, AwaitsTurn
<1> QED
  BY <1>5, <1>6, <1>7 DEF Poll

\* On the wire a request changes its state, and is the same request.
LEMMA AwaitsWire ==
  ASSUME Awaits, NEW r \in Slots, page.req[r].xhr = "open", page'.why = page.why, Plan(page, page'),
         page'.req[r].msgs = page.req[r].msgs, page'.req[r].xhr # "none", \A s \in Slots : s # r => page'.req[s] = page.req[s]
  PROVE  Awaits'
<1> DEFINE n == page'
<1>1. Holds(page, 0, n, 0)
  BY CometdAssumption DEF Holds, Busy
<1>2. n.why = page.why /\ Plan(page, n)
  OBVIOUS
<1> HIDE DEF n
<1>3. N(n, 0, "publish")
  BY <1>1, <1>2, NKept DEF Plan, Awaits
<1> QED
  BY <1>3 DEF Awaits, n, N, Waits, Busy

\* An answer, whatever it says, is an answer to what was asked.
LEMMA ArrivedIs ==
  ASSUME NEW p \in PageRec, NEW r \in Slots, NEW reply, NEW q, q = Answered(p, r, reply)
  PROVE  /\ q.requests = p.requests /\ q.envelopes = p.envelopes /\ q.longpoll = p.longpoll
         /\ Words(p, q) /\ Calm(p, q) /\ Plan(p, q) /\ q.why = p.why
         /\ q.req[r].msgs = p.req[r].msgs /\ q.req[r].poll = p.req[r].poll /\ q.req[r].timer = p.req[r].timer
         /\ q.req[r].xhr = "answered" /\ q.req[r].reply = reply
         /\ \A s \in Slots : s # r => q.req[s] = p.req[s]
<1> DEFINE b == [p.req[r] EXCEPT !.xhr = "answered", !.reply = reply]
           req == [p.req EXCEPT ![r] = b]
<1>1. p.req[r] \in Request /\ p.req \in [Slots -> Request]
  BY DEF PageRec
<1>2. b.msgs = p.req[r].msgs /\ b.poll = p.req[r].poll /\ b.timer = p.req[r].timer /\ b.xhr = "answered" /\ b.reply = reply
  BY <1>1 DEF Request
<1>3. q = [p EXCEPT !.req = req]
  BY <1>1 DEF Answered, PageRec, Request
<1> HIDE DEF b
<1>4. req[r] = b /\ \A s \in Slots : s # r => req[s] = p.req[s]
  BY <1>1
<1> HIDE DEF req
<1>5. q.req = req /\ q.requests = p.requests /\ q.envelopes = p.envelopes /\ q.longpoll = p.longpoll
      /\ Words(p, q) /\ Calm(p, q) /\ Plan(p, q) /\ q.why = p.why
  BY <1>3 DEF PageRec, Words, Calm, Plan
<1> QED
  BY <1>2, <1>4, <1>5

LEMMA AnswerArrives ==
  ASSUME NEW r, Answer(r)
  PROVE  page.req[r].xhr = "open" /\ \E reply : page' = Answered(page, r, reply)
<1> USE DEF Arrives, Answered
<1> DEFINE msg == Head(page.req[r].msgs)
<1>1. page.req[r].xhr = "open"
  BY DEF Answer
<1>2. AnswerHandshake(r, msg) \/ AnswerConnect(r, msg) \/ AnswerDisconnect(r, msg) \/ AnswerMessages(r)
  BY Zenon DEF Answer
<1> HIDE DEF msg
<1>3. AnswerHandshake(r, msg) => \E reply : page' = Answered(page, r, reply)
  BY Zenon DEF AnswerHandshake
<1>4. AnswerConnect(r, msg) => \E reply : page' = Answered(page, r, reply)
  BY Zenon DEF AnswerConnect
<1>5. AnswerDisconnect(r, msg) => \E reply : page' = Answered(page, r, reply)
  BY Zenon DEF AnswerDisconnect
<1>6. AnswerMessages(r) => \E reply : page' = Answered(page, r, reply)
  BY Zenon DEF AnswerMessages
<1> QED
  BY <1>1, <1>2, <1>3, <1>4, <1>5, <1>6

LEMMA AwaitsAnswer ==
  ASSUME Wired, Awaits, NEW r \in Slots, Answer(r)
  PROVE  Awaits'
<1> DEFINE q == page'
<1>1. page \in PageRec
  BY WType DEF Wired
<1>2. page.req[r].xhr = "open"
  BY AnswerArrives
<1>3. PICK reply : q = Answered(page, r, reply)
  BY AnswerArrives
<1> HIDE DEF q
<1>4. Plan(page, q) /\ q.why = page.why /\ q.req[r].msgs = page.req[r].msgs /\ q.req[r].xhr = "answered"
  BY <1>1, <1>3, ArrivedIs
<1>5. \A s \in Slots : s # r => q.req[s] = page.req[s]
  BY <1>1, <1>3, ArrivedIs
<1> QED
  BY <1>2, <1>4, <1>5, AwaitsWire DEF q

LEMMA AwaitsFault ==
  ASSUME Wired, Awaits, NEW r \in Slots, Fault(r)
  PROVE  Awaits'
<1> DEFINE q == page'
<1>1. page \in PageRec
  BY WType DEF Wired
<1>2. page.req[r].xhr = "open"
  BY Zenon DEF Fault
<1>3. PICK x \in {"broken", "garbled"} : q = Faulty(page, r, x)
  BY Zenon DEF Fault, Faulty
<1> HIDE DEF q
<1>4. x \in Xhr /\ x # "none"
  BY <1>3 DEF Xhr, OnWire
<1>5. Plan(page, q) /\ q.why = page.why /\ q.req[r].msgs = page.req[r].msgs /\ q.req[r].xhr = x
  BY <1>1, <1>3, <1>4, FaultyIs
<1>6. \A s \in Slots : s # r => q.req[s] = page.req[s]
  BY <1>1, <1>3, <1>4, FaultyIs
<1> QED
  BY <1>2, <1>4, <1>5, <1>6, AwaitsWire DEF q

LEMMA AwaitsStays ==
  ASSUME Wired, Awaits, page' = page \/ page' = [page EXCEPT !.breaks = TRUE]
  PROVE  Awaits'
<1>1. page \in PageRec
  BY WType DEF Wired
<1> DEFINE q == page'
<1>2. q.req = page.req /\ Plan(page, q) /\ q.why = page.why
  BY <1>1 DEF PageRec, Plan
<1> HIDE DEF q
<1>3. N(q, 0, "publish")
  BY <1>2, NListed DEF Awaits
<1> QED
  BY <1>3 DEF Awaits, q, N, Waits, Busy

LEMMA AwaitsInit ==
  ASSUME PageInit
  PROVE  Awaits
BY DEF PageInit, Awaits, N, Active

LEMMA AwaitsNext ==
  ASSUME Wired, Awaits, [PageNext]_pageVars
  PROVE  Awaits'
<1>2. CASE UNCHANGED pageVars
  BY <1>2, AwaitsStays DEF pageVars
<1>3. CASE Room /\ Application
  BY <1>3, AwaitsAppHandshake, AwaitsAppDisconnect, AwaitsPublish, AwaitsStartBatch, AwaitsEndBatch DEF Application
<1>4. CASE Room /\ TimersFire
  <2>1. CASE Due
    BY <1>4, <2>1, AwaitsDue
  <2>2. ASSUME NEW r \in Slots, Poll(r) PROVE Awaits'
    BY <1>4, <2>2, AwaitsPoll
  <2>3. ASSUME NEW r \in Slots, GivenUp(r) PROVE Awaits'
    <3>1. Out(page, r) /\ Turn(HandleFailure(Over(r), r)) /\ granted' = granted
      BY <2>3 DEF GivenUp, Out
    <3> QED
      BY <1>4, <3>1, AwaitsFailure
  <2>4. ASSUME NEW r \in Slots, Expire(r) PROVE Awaits'
    <3>1. Out(page, r) /\ Turn(HandleFailure(Over(r), r)) /\ granted' = granted
      BY <2>4 DEF Expire, Out
    <3> QED
      BY <1>4, <3>1, AwaitsFailure
  <2> QED
    BY <1>4, <2>1, <2>2, <2>3, <2>4 DEF TimersFire
<1>5. CASE BreakNext
  BY Zenon, <1>5, AwaitsStays DEF BreakNext
<1>6. CASE Forget
  BY Zenon, <1>6, AwaitsStays DEF Forget
<1>7. CASE \E r \in Slots : Answer(r) \/ Fault(r)
  BY <1>7, AwaitsAnswer, AwaitsFault
<1> QED
  BY <1>2, <1>3, <1>4, <1>5, <1>6, <1>7 DEF PageNext, Network

\* Whoever is waited for is under way.
LEMMA AwaitsShows ==
  ASSUME Wired, Awaits
  PROVE  NeverStuck
<1>1. ASSUME NEW w \in Metas, Waits(page, 0, w) PROVE UnderWay(w, 0)
  <2>1. PICK r \in Slots : (Busy(page.req[r]) \/ r = 0) /\ OneMeta(page.req[r].msgs, w)
    BY <1>1 DEF Waits
  <2>2. CallsBack(r)
    BY <2>1, CometdAssumption DEF CallsBack, Busy
  <2>3. page.req[r].msgs \in Seq(Msg)
    BY WType DEF Wired, PageRec, Request
  <2>4. 1 \in DOMAIN page.req[r].msgs
    BY <2>1, <2>3, LenProperties DEF OneMeta
  <2>5. Carries(r, w, 0)
    BY <2>1, <2>4 DEF Carries, OneMeta
  <2> QED
    BY <2>2, <2>5 DEF UnderWay
<1>2. /\ Waits(page, 0, "handshake") => UnderWay("handshake", 0)
      /\ Waits(page, 0, "connect") => UnderWay("connect", 0)
      /\ Waits(page, 0, "disconnect") => UnderWay("disconnect", 0)
  BY <1>1 DEF Metas
<1>3. Unless(Excused) => page.why \cap Excused = {}
  BY DEF Unless
<1> QED
  BY <1>2, <1>3 DEF Awaits, N, NeverStuck, Active, Excused

\* Whatever fails, and in whatever order answers and timers come, the page is never left
\* waiting for nothing: while it handshakes, connects or is connected a send is scheduled or
\* a handshake or connect calls back, and while it disconnects its disconnect does
\* (_connectFailure(), _handshakeFailure(), _connectResponse(), _disconnect()).
THEOREM PageNeverStuck == PageSpec => []NeverStuck
<1>1. PageInit => Wired /\ Awaits
  BY WiredInit, AwaitsInit
<1>2. Wired /\ Awaits /\ [PageNext]_pageVars => Wired' /\ Awaits'
  BY WiredNext, AwaitsNext
<1>3. Wired /\ Awaits => NeverStuck
  BY AwaitsShows
<1> QED
  BY <1>1, <1>2, <1>3, PTL DEF PageSpec

-----------------------------------------------------------------------------
(* Where a message is.                                                     *)

\* The request r has the message m and calls back, or is the one in hand.
Bears(p, h, r, m) == (Busy(p.req[r]) \/ r = h) /\ m \in Published(p.req[r].msgs)
\* The messages M are in hand, besides the request h; n are published; the application is told
\* of a message at most t times before the request that has it ends.
Place(p, h, M, n, t, m) ==
  /\ p.told[m] <= 1 + t
  /\ \A r, s \in Slots : Bears(p, h, r, m) /\ Bears(p, h, s, m) => r = s
  /\ \A r \in Slots : Bears(p, h, r, m) =>
       /\ m \notin Published(p.queue) /\ m \notin M /\ m <= n
       /\ p.told[m] = 0 \/ ((r = h \/ p.req[r].xhr = "none") /\ p.told[m] <= t)
  /\ m \in Published(p.queue) \/ m \in M => p.told[m] = 0 /\ m <= n
  /\ ~(m \in Published(p.queue) /\ m \in M)
  /\ m <= n => m \in Published(p.queue) \/ m \in M \/ p.told[m] # 0 \/ \E r \in Slots : Bears(p, h, r, m)
  /\ m > n => p.told[m] = 0
\* A request that has a connection is aborted after a time.
Timed(p) == \A r \in ToSet(p.requests) : Busy(p.req[r]) => p.req[r].timer
A(p, h, M, n, t) == (\A m \in Messages : m \in p.lost \/ Place(p, h, M, n, t, m)) /\ Timed(p)
\* What is in the request r has not been told.
Untold(p, r) == \A m \in Published(p.req[r].msgs) : m \in p.lost \/ p.told[m] = 0

\* A message that is not lost stays where it is.
Rests(p, h, q, k, m) ==
  /\ m \notin p.lost /\ q.told[m] = p.told[m] /\ (m \in Published(q.queue) <=> m \in Published(p.queue))
  /\ \A r \in Slots : (Bears(q, k, r, m) <=> Bears(p, h, r, m))
  /\ \A r \in Slots : Bears(q, k, r, m) => r = k \/ q.req[r].xhr = "none" \/ (r # h /\ p.req[r].xhr # "none")

LEMMA PlaceRests ==
  ASSUME NEW p, NEW h, NEW M, NEW n, NEW t, NEW m, Place(p, h, M, n, t, m), NEW q, NEW k, Rests(p, h, q, k, m)
  PROVE  Place(q, k, M, n, t, m)
<1> DEFINE Bp(r) == Bears(p, h, r, m)
           Bq(r) == Bears(q, k, r, m)
<1>1. /\ \A r \in Slots : Bq(r) <=> Bp(r)
      /\ q.told[m] = p.told[m] /\ (m \in Published(q.queue) <=> m \in Published(p.queue))
  BY DEF Rests
<1>2. \A r \in Slots : Bq(r) => r = k \/ q.req[r].xhr = "none" \/ (r # h /\ p.req[r].xhr # "none")
  BY DEF Rests
<1>3. /\ p.told[m] <= 1 + t
      /\ \A r, s \in Slots : Bp(r) /\ Bp(s) => r = s
      /\ m \in Published(p.queue) \/ m \in M => p.told[m] = 0 /\ m <= n
      /\ ~(m \in Published(p.queue) /\ m \in M)
      /\ m > n => p.told[m] = 0
  BY DEF Place
<1>4. \A r \in Slots : Bp(r) => /\ m \notin Published(p.queue) /\ m \notin M /\ m <= n
                                /\ p.told[m] = 0 \/ ((r = h \/ p.req[r].xhr = "none") /\ p.told[m] <= t)
  BY DEF Place
<1>5. m <= n => m \in Published(p.queue) \/ m \in M \/ p.told[m] # 0 \/ \E r \in Slots : Bp(r)
  BY DEF Place
<1> HIDE DEF Bp, Bq
<1>6. \A r \in Slots : Bq(r) => /\ m \notin Published(q.queue) /\ m \notin M /\ m <= n
                                /\ q.told[m] = 0 \/ ((r = k \/ q.req[r].xhr = "none") /\ q.told[m] <= t)
  BY <1>1, <1>2, <1>4
<1>7. m <= n => m \in Published(q.queue) \/ m \in M \/ q.told[m] # 0 \/ \E r \in Slots : Bq(r)
  BY <1>1, <1>5
<1>8. /\ q.told[m] <= 1 + t
      /\ \A r, s \in Slots : Bq(r) /\ Bq(s) => r = s
      /\ m \in Published(q.queue) \/ m \in M => q.told[m] = 0 /\ m <= n
      /\ ~(m \in Published(q.queue) /\ m \in M)
      /\ m > n => q.told[m] = 0
  BY <1>1, <1>3
<1> QED
  BY <1>6, <1>7, <1>8 DEF Place, Bq

LEMMA ARests ==
  ASSUME NEW p, NEW h, NEW M, NEW n, NEW t, A(p, h, M, n, t), NEW q, NEW k,
         \A m \in Messages : m \in q.lost \/ Rests(p, h, q, k, m), Timed(q)
  PROVE  A(q, k, M, n, t)
<1> SUFFICES ASSUME NEW m \in Messages, m \notin q.lost PROVE Place(q, k, M, n, t, m)
  BY DEF A
<1>1. Rests(p, h, q, k, m)
  OBVIOUS
<1>2. Place(p, h, M, n, t, m)
  BY <1>1 DEF A, Rests
<1> QED
  BY <1>1, <1>2, PlaceRests

\* Nothing happens to the messages.
Trims(p, q) ==
  /\ q.req = p.req /\ q.queue = p.queue /\ q.told = p.told /\ p.lost \subseteq q.lost
  /\ ToSet(q.requests) \subseteq ToSet(p.requests)
LEMMA ATrims ==
  ASSUME NEW p, NEW h, NEW M, NEW n, NEW t, A(p, h, M, n, t), NEW q, Trims(p, q)
  PROVE  A(q, h, M, n, t)
<1>1. ASSUME NEW m \in Messages, m \notin q.lost
      PROVE  Rests(p, h, q, h, m)
  BY <1>1 DEF Trims, Rests, Bears
<1>2. Timed(q)
  BY DEF Trims, A, Timed
<1> QED
  BY <1>1, <1>2, ARests

\* The request in hand has no message that matters.
LEMMA ARelease ==
  ASSUME NEW p, NEW h, NEW M, NEW n, NEW t, A(p, h, M, n, t), h \in Slots => Published(p.req[h].msgs) \subseteq p.lost,
         NEW k, k \in Slots => Published(p.req[k].msgs) \subseteq p.lost
  PROVE  A(p, k, M, n, t)
<1>1. ASSUME NEW m \in Messages, m \notin p.lost
      PROVE  Rests(p, h, p, k, m)
  BY <1>1 DEF Rests, Bears
<1>2. Timed(p)
  BY DEF A
<1> QED
  BY <1>1, <1>2, ARests

\* Moves, and the end of a request, are of that kind.
LEMMA TrimsMoves ==
  ASSUME NEW p, NEW q, Moves(p, q) \/ (Wires(p, q) /\ Words(p, q))
  PROVE  Trims(p, q)
  BY DEF Moves, Wires, Words, Trims

LEMMA TrimsLetGo ==
  ASSUME NEW p \in PageRec, Distinct(p.requests), NEW r \in Slots, NEW q, q = LetGo(p, r)
  PROVE  Trims(p, q)
<1>1. Same(p, q)
  BY LetGoIs
<1>2. p.requests \in Seq(Slots)
  BY DEF PageRec
<1>3. q.requests = p.requests \/ q.requests = Without(p.requests, r)
  <2>1. CASE ~p.req[r].poll
    BY <2>1, LetGoPlain
  <2>2. CASE OwnPoll(p, r)
    BY <2>2, LetGoPoll
  <2>3. CASE Clash(p, r)
    BY <2>3, LetGoClash
  <2> QED
    BY <2>1, <2>2, <2>3 DEF OwnPoll, Clash
<1>4. ToSet(q.requests) \subseteq ToSet(p.requests)
  BY <1>2, <1>3, WithoutIs
<1> QED
  BY <1>1, <1>4 DEF Same, Words, Trims

LEMMA AGiveUpNext ==
  ASSUME NEW p, NEW h, NEW M, NEW n, NEW t, W(p, h), A(p, h, M, n, t), NEW q, q = GiveUpNext(p)
  PROVE  A(q, h, M, n, t)
<1>1. CASE p.envelopes = <<>>
  BY <1>1, WType, GiveUpNextIs
<1>2. CASE p.envelopes # <<>>
  <2> DEFINE e == Head(p.envelopes)
  <2>1. /\ q.requests = p.requests /\ Words(p, q)
        /\ q.req[e] = [p.req[e] EXCEPT !.xhr = "failing"]
        /\ \A r \in Slots \ {e} : q.req[r] = p.req[r]
    BY <1>2, WType, GiveUpNextIs
  <2>2. e \in Slots /\ e \in ToSet(p.envelopes)
    BY <1>2, WType, TailOf DEF PageRec
  <2>3. e # h /\ p.req[e].xhr = "waiting" /\ ~p.req[e].timer /\ e \notin ToSet(p.requests)
    BY <2>2 DEF W
  <2> HIDE DEF e
  <2>4. p.req[e] \in Request /\ "failing" \in Xhr
    BY <2>2, WType DEF PageRec, Xhr
  <2>5. Kept(p.req[e], q.req[e]) /\ q.req[e].xhr = "failing" /\ q.req[e].timer = p.req[e].timer
    BY <2>1, <2>4, XhrIs
  <2>6. \A r \in Slots : /\ q.req[r].msgs = p.req[r].msgs /\ (Busy(q.req[r]) <=> Busy(p.req[r]))
                         /\ q.req[r].timer = p.req[r].timer
                         /\ q.req[r].xhr = p.req[r].xhr \/ (r # h /\ p.req[r].xhr # "none")
    BY <2>1, <2>3, <2>5 DEF Kept, Busy
  <2>7. ASSUME NEW m \in Messages, m \notin q.lost
        PROVE  Rests(p, h, q, h, m)
    BY <2>1, <2>6, <2>7 DEF Rests, Bears, Words
  <2>8. ToSet(p.requests) \subseteq Slots
    BY WType, Members DEF PageRec
  <2>9. Timed(q)
    BY <2>1, <2>6, <2>8 DEF A, Timed
  <2> QED
    BY <2>7, <2>9, ARests
<1> QED
  BY <1>1, <1>2

LEMMA ADropped ==
  ASSUME NEW p, NEW h \in Slots, NEW M, NEW n, NEW t, W(p, h), A(p, h, M, n, t), NEW q, q = Dropped(p, h)
  PROVE  A(q, h, M, n, t)
<1> DEFINE l == LetGo(p, h)
<1>1. Trims(p, l)
  BY WType, TrimsLetGo
<1>2. W(l, h)
  BY WLetGo
<1>3. q = l \/ q = GiveUpNext(l)
  BY DEF Dropped
<1> HIDE DEF l
<1>4. A(l, h, M, n, t)
  BY <1>1, ATrims
<1> QED
  BY <1>2, <1>3, <1>4, AGiveUpNext

\* A long poll publishes nothing.
LEMMA MetaNothing ==
  ASSUME NEW msgs \in Seq(Msg), NEW w, OneMeta(msgs, w)
  PROVE  Published(msgs) = {}
  BY PublishedIs DEF OneMeta, Messages

LEMMA PollNothing ==
  ASSUME NEW p, NEW h, W(p, h), NEW r \in Slots, p.req[r].poll, Busy(p.req[r]) \/ r = h
  PROVE  Published(p.req[r].msgs) = {}
<1>1. p.req[r].msgs \in Seq(Msg)
  BY WType DEF PageRec, Request
<1>2. OneMeta(p.req[r].msgs, "connect")
  BY DEF W, Formed
<1> QED
  BY <1>1, <1>2, MetaNothing

\* What is dropped with the session is lost.
LEMMA ADisconnect ==
  ASSUME NEW p, NEW h, NEW M, NEW n, NEW t, W(p, h), A(p, h, M, n, t), NEW abort \in BOOLEAN, NEW q, q = Disconnect(p, abort)
  PROVE  A(q, h, M, n, t)
<1>1. p \in PageRec
  BY WType
<1>2. /\ q.queue = <<>> /\ q.told = p.told
      /\ abort => /\ q.lost = p.lost \cup Published(p.queue) \cup Lost(p, ToSet(p.envelopes))
                  /\ q.requests = <<>>
                  /\ \A r \in Slots : q.req[r] = Aborted(p, r)
      /\ ~abort => q.lost = p.lost \cup Published(p.queue) /\ Wires(p, q)
  BY <1>1, DisconnectIs
<1>3. Published(q.queue) = {}
  BY <1>2, EmptySeq, PublishedIs
<1>4. CASE ~abort
  <2>1. ASSUME NEW m \in Messages, m \notin q.lost
        PROVE  Rests(p, h, q, h, m)
    BY <1>2, <1>3, <1>4, <2>1 DEF Rests, Bears, Wires
  <2>2. Timed(q)
    BY <1>2, <1>4 DEF A, Timed, Wires
  <2> QED
    BY <2>1, <2>2, ARests
<1>5. CASE abort
  <2>1. ASSUME NEW m \in Messages, m \notin q.lost
        PROVE  Rests(p, h, q, h, m)
    <3>1. m \notin p.lost /\ m \notin Published(p.queue) /\ q.told[m] = p.told[m]
      BY <1>2, <1>5, <2>1
    <3>2. ASSUME NEW r \in Slots
          PROVE  /\ Bears(q, h, r, m) <=> Bears(p, h, r, m)
                 /\ Bears(q, h, r, m) => q.req[r].xhr = "none" \/ r = h \/ (r # h /\ p.req[r].xhr # "none")
      <4>1. q.req[r] = Aborted(p, r) /\ p.req[r] \in Request
        BY <1>1, <1>2, <1>5 DEF PageRec
      <4>2. CASE r \in ToSet(p.envelopes)
        <5>1. m \notin Published(p.req[r].msgs)
          BY <1>2, <1>5, <2>1, <4>2 DEF Lost
        <5>2. Published(q.req[r].msgs) = {}
          BY <4>1, <4>2, NoRequestIs, EmptySeq, PublishedIs DEF Aborted
        <5> QED
          BY <5>1, <5>2 DEF Bears
      <4>3. CASE r \notin ToSet(p.envelopes) /\ r \in ToSet(p.requests)
        <5>1. q.req[r] = [p.req[r] EXCEPT !.xhr = "none"]
          BY <4>1, <4>3 DEF Aborted
        <5>2. q.req[r].xhr = "none" /\ q.req[r].msgs = p.req[r].msgs /\ q.req[r].timer = p.req[r].timer
          BY <4>1, <5>1 DEF Request
        <5>3. Busy(p.req[r]) => p.req[r].timer
          BY <4>3 DEF A, Timed
        <5> QED
          BY <5>2, <5>3 DEF Bears, Busy
      <4>4. CASE r \notin Listed(p) /\ r = p.longpoll
        <5>1. q.req[r] = [p.req[r] EXCEPT !.xhr = "none"]
          BY <4>1, <4>4 DEF Aborted, Listed
        <5>2. q.req[r].xhr = "none" /\ q.req[r].msgs = p.req[r].msgs /\ q.req[r].timer = p.req[r].timer
          BY <4>1, <5>1 DEF Request
        <5>3. p.req[r].poll
          BY <4>4, CometdAssumption DEF W
        <5>4. Busy(p.req[r]) \/ r = h => m \notin Published(p.req[r].msgs)
          BY <5>3, PollNothing
        <5> QED
          BY <5>2, <5>4 DEF Bears, Busy
      <4>5. CASE r \notin Listed(p) /\ r # p.longpoll
        <5>1. q.req[r] = p.req[r]
          BY <4>1, <4>5 DEF Aborted, Listed
        <5> QED
          BY <5>1 DEF Bears
      <4> QED
        BY <4>2, <4>3, <4>4, <4>5 DEF Listed
    <3> QED
      BY <1>3, <3>1, <3>2 DEF Rests
  <2>2. Timed(q)
    BY <1>2, <1>5, EmptyList DEF Timed
  <2> QED
    BY <2>1, <2>2, ARests
<1> QED
  BY <1>4, <1>5

-----------------------------------------------------------------------------
(* The application is told.                                                *)

LEMMA ToldIs ==
  ASSUME NEW p \in PageRec, NEW m \in Messages
  PROVE  p.told[m] \in Nat /\ m \in Nat
<1>1. p.told \in [Messages -> Nat]
  BY DEF PageRec
<1>2. p.told[m] \in Nat
  BY <1>1
<1>3. m \in Nat
  BY CometdAssumption DEF Messages
<1> QED
  BY <1>2, <1>3

LEMMA APlaceMore ==
  ASSUME NEW p \in PageRec, NEW h, NEW M, NEW n, NEW t \in {0, 1}, NEW m \in Messages, Place(p, h, M, n, t, m)
  PROVE  Place(p, h, M, n, 1, m)
<1>1. p.told[m] \in Nat /\ m \in Nat
  BY ToldIs
<1>2. p.told[m] <= 1 + t /\ p.told[m] <= 2
  BY <1>1 DEF Place
<1>3. \A r \in Slots : Bears(p, h, r, m) =>
        /\ m \notin Published(p.queue) /\ m \notin M /\ m <= n
        /\ p.told[m] = 0 \/ ((r = h \/ p.req[r].xhr = "none") /\ p.told[m] <= 1)
  BY <1>1 DEF Place
<1> QED
  BY <1>2, <1>3 DEF Place

LEMMA AMore ==
  ASSUME NEW p \in PageRec, NEW h, NEW M, NEW n, NEW t \in {0, 1}, A(p, h, M, n, t)
  PROVE  A(p, h, M, n, 1)
  BY APlaceMore DEF A

\* The request in hand ends: the application is told of all it has, ...
LEMMA ATellsRelease ==
  ASSUME NEW p \in PageRec, NEW h \in Slots, ~Busy(p.req[h]), NEW M, NEW n \in Nat, NEW t \in {0, 1},
         A(p, h, M, n, t), NEW S, S = Published(p.req[h].msgs), NEW q, q = TellAll(p, S)
  PROVE  A(q, 0, M, n, t)
<1>1. Wires(p, q) /\ q.queue = p.queue /\ q.lost = p.lost
  BY TellAllIs
<1>2. \A m \in Messages : /\ m \in S => q.told[m] = p.told[m] + 1
                          /\ m \notin S => q.told[m] = p.told[m]
  BY TellAllIs
<1>3. Timed(q)
  BY <1>1 DEF A, Timed, Wires
<1>4. \A r \in Slots, m \in Messages : Bears(q, 0, r, m) => Bears(p, h, r, m)
  BY <1>1, CometdAssumption DEF Bears, Wires
<1>5. \A r \in Slots, m \in Messages : Bears(p, h, r, m) /\ r # h => Bears(q, 0, r, m)
  BY <1>1 DEF Bears, Wires
<1> SUFFICES ASSUME NEW m \in Messages, m \notin q.lost PROVE Place(q, 0, M, n, t, m)
  BY <1>3 DEF A
<1>6. Place(p, h, M, n, t, m)
  BY <1>1 DEF A
<1>7. p.told[m] \in Nat /\ m \in Nat
  BY ToldIs
<1>8. CASE m \in S
  <2>1. Bears(p, h, h, m)
    BY <1>8 DEF Bears
  <2>2. m \notin Published(p.queue) /\ m \notin M /\ m <= n /\ p.told[m] <= t
    BY <1>6, <2>1 DEF Place
  <2>3. \A r \in Slots : Bears(p, h, r, m) => r = h
    BY <1>6, <2>1 DEF Place
  <2>4. \A r \in Slots : ~Bears(q, 0, r, m)
    <3> SUFFICES ASSUME NEW r \in Slots, Bears(q, 0, r, m) PROVE FALSE
      OBVIOUS
    <3>1. r = h
      BY <1>4, <2>3
    <3>2. Busy(q.req[h])
      BY <3>1, CometdAssumption DEF Bears
    <3> QED
      BY <1>1, <3>2 DEF Wires
  <2>5. q.told[m] = p.told[m] + 1 /\ q.queue = p.queue
    BY <1>1, <1>2, <1>8
  <2> QED
    BY <1>7, <2>2, <2>4, <2>5 DEF Place
<1>9. CASE m \notin S
  <2>1. \A r \in Slots : Bears(p, h, r, m) => r # h
    BY <1>9 DEF Bears
  <2>2. Rests(p, h, q, 0, m)
    BY <1>1, <1>2, <1>4, <1>5, <1>9, <2>1 DEF Rests, Wires
  <2> QED
    BY <1>6, <2>2, PlaceRests
<1> QED
  BY <1>8, <1>9

\* ... or it is told, and keeps the request, whose send has thrown.
LEMMA ATells ==
  ASSUME NEW p \in PageRec, NEW h \in Slots, Untold(p, h), NEW M, NEW n \in Nat, NEW t \in {0, 1}, A(p, h, M, n, t),
         NEW S, S = Published(p.req[h].msgs), NEW q, q = TellAll(p, S)
  PROVE  A(q, h, M, n, 1)
<1>1. Wires(p, q) /\ q.queue = p.queue /\ q.lost = p.lost
  BY TellAllIs
<1>2. \A m \in Messages : /\ m \in S => q.told[m] = p.told[m] + 1
                          /\ m \notin S => q.told[m] = p.told[m]
  BY TellAllIs
<1>3. Timed(q)
  BY <1>1 DEF A, Timed, Wires
<1>4. \A r, m : Bears(q, h, r, m) <=> Bears(p, h, r, m)
  BY <1>1 DEF Bears, Wires
<1> SUFFICES ASSUME NEW m \in Messages, m \notin q.lost PROVE Place(q, h, M, n, 1, m)
  BY <1>3 DEF A
<1>5. Place(p, h, M, n, t, m)
  BY <1>1 DEF A
<1>6. p.told[m] \in Nat /\ m \in Nat
  BY ToldIs
<1>7. CASE m \in S
  <2>1. Bears(p, h, h, m)
    BY <1>7 DEF Bears
  <2>2. m \notin Published(p.queue) /\ m \notin M /\ m <= n
    BY <1>5, <2>1 DEF Place
  <2>3. \A r \in Slots : Bears(p, h, r, m) => r = h
    BY <1>5, <2>1 DEF Place
  <2>4. q.told[m] = 1 /\ q.queue = p.queue
    BY <1>1, <1>2, <1>7 DEF Untold
  <2>5. \A r \in Slots : Bears(q, h, r, m) => r = h
    BY <1>4, <2>3
  <2> QED
    BY <1>6, <2>2, <2>4, <2>5 DEF Place
<1>8. CASE m \notin S
  <2>1. Rests(p, h, q, h, m)
    <3>1. \A r \in Slots : Bears(p, h, r, m) => r # h
      BY <1>8 DEF Bears
    <3> QED
      BY <1>1, <1>2, <1>4, <1>8, <3>1 DEF Rests, Wires
  <2>2. Place(q, h, M, n, t, m)
    BY <1>5, <2>1, PlaceRests
  <2> QED
    BY <2>2, TellAllIs, APlaceMore
<1> QED
  BY <1>7, <1>8

LEMMA DisconnectHand ==
  ASSUME NEW p \in PageRec, NEW h \in Slots, NEW abort \in BOOLEAN, NEW q, q = Disconnect(p, abort)
  PROVE  q.req[h].msgs = <<>> \/ q.req[h].msgs = p.req[h].msgs
<1>0. (abort => \A r \in Slots : q.req[r] = Aborted(p, r)) /\ (~abort => Wires(p, q))
  BY DisconnectIs
<1>1. CASE abort
  <2>1. q.req[h] = Aborted(p, h)
    BY <1>0, <1>1
  <2>2. Aborted(p, h) = NoRequest \/ Kept(p.req[h], Aborted(p, h))
    BY AbortedIs
  <2> QED
    BY <2>1, <2>2, NoRequestIs DEF Kept
<1>2. CASE ~abort
  BY <1>0, <1>2 DEF Wires
<1> QED
  BY <1>1, <1>2

\* A failure with no message to tell of.
LEMMA AReportsMeta ==
  ASSUME NEW p, NEW h \in Slots, NEW M, NEW n, NEW t, W(p, h), A(p, h, M, n, t), NEW msgs, msgs = p.req[h].msgs,
         NEW q, Reports(p, q, msgs), ~Batch(msgs)
  PROVE  A(q, h, M, n, t) /\ Published(q.req[h].msgs) = {}
<1>1. p \in PageRec /\ msgs \in Seq(Msg)
  BY WType DEF PageRec, Request
<1>2. Published(msgs) = {}
  BY <1>1, MetaNothing DEF Reports
<1>3. CASE q = HandshakeFailed(p) \/ q = ConnectFailure(p)
  <2>1. Moves(p, q)
    BY <1>1, <1>3, HandshakeFailedIs, ConnectFailureIs
  <2>2. Trims(p, q)
    BY <2>1, TrimsMoves
  <2> QED
    BY <1>2, <2>1, <2>2, ATrims DEF Moves, Wires
<1>4. CASE q = Disconnect(p, TRUE)
  <2>1. PICK b \in BOOLEAN : b /\ q = Disconnect(p, b)
    <3>1. TRUE \in BOOLEAN
      OBVIOUS
    <3> QED
      BY <1>4, <3>1
  <2>2. q = Disconnect(p, b)
    BY <2>1
  <2>3. A(q, h, M, n, t)
    BY <2>2, ADisconnect
  <2>6. q.req[h].msgs = <<>> \/ q.req[h].msgs = msgs
    BY <1>1, <2>2, DisconnectHand
  <2>7. Published(<<>>) = {}
    BY EmptySeq, PublishedIs
  <2> QED
    BY <1>2, <2>3, <2>6, <2>7
<1> QED
  BY <1>3, <1>4 DEF Reports

LEMMA AReports ==
  ASSUME NEW p, NEW h \in Slots, ~Busy(p.req[h]), NEW M, NEW n \in Nat, NEW t \in {0, 1}, W(p, h), A(p, h, M, n, t),
         NEW msgs, msgs = p.req[h].msgs, NEW q, Reports(p, q, msgs)
  PROVE  A(q, 0, M, n, t)
<1>1. CASE ~Batch(msgs)
  <2>1. A(q, h, M, n, t) /\ Published(q.req[h].msgs) = {}
    BY <1>1, AReportsMeta
  <2> QED
    BY <2>1, ARelease, CometdAssumption
<1>2. CASE Batch(msgs)
  <2>1. p \in PageRec /\ msgs \in Seq(Msg)
    BY WType DEF PageRec, Request
  <2>2. q = TellAll(p, Published(msgs))
    BY <1>2, <2>1, OneThing DEF Reports, Metas
  <2> QED
    BY <2>1, <2>2, ATellsRelease
<1> QED
  BY <1>1, <1>2

LEMMA AReportsThrown ==
  ASSUME NEW p, NEW h \in Slots, Untold(p, h), NEW M, NEW n \in Nat, NEW t \in {0, 1}, W(p, h), A(p, h, M, n, t),
         NEW msgs, msgs = p.req[h].msgs, NEW q, Reports(p, q, msgs)
  PROVE  A(q, h, M, n, 1)
<1>1. p \in PageRec /\ msgs \in Seq(Msg) /\ q \in PageRec
  <2>1. W(q, h)
    BY WReports
  <2>2. q \in PageRec
    BY <2>1, WType
  <2>3. p \in PageRec /\ msgs \in Seq(Msg)
    BY WType DEF PageRec, Request
  <2> QED
    BY <2>2, <2>3
<1>2. CASE ~Batch(msgs)
  <2>1. A(q, h, M, n, t)
    BY <1>2, AReportsMeta
  <2> QED
    BY <1>1, <2>1, AMore
<1>3. CASE Batch(msgs)
  <2>1. q = TellAll(p, Published(msgs))
    BY <1>1, <1>3, OneThing DEF Reports, Metas
  <2> QED
    BY <1>1, <2>1, ATells
<1> QED
  BY <1>2, <1>3

\* What is dropped leaves the request in hand as it is.
LEMMA DroppedHand ==
  ASSUME NEW p, NEW h \in Slots, W(p, h), NEW q, q = Dropped(p, h)
  PROVE  q.req[h] = p.req[h] /\ q.told = p.told /\ q.lost = p.lost
<1> DEFINE l == LetGo(p, h)
<1>1. Same(p, l)
  BY WType, LetGoIs
<1>2. h \notin ToSet(p.envelopes)
  BY DEF W
<1>3. q = l \/ q = GiveUpNext(l)
  BY DEF Dropped
<1> HIDE DEF l
<1>4. q.req[h] = l.req[h] /\ q.told = l.told /\ q.lost = l.lost
  BY <1>1, <1>2, <1>3, GiveUpNextKeeps DEF Same, Words
<1> QED
  BY <1>1, <1>4 DEF Same, Words

LEMMA AFailure ==
  ASSUME NEW p, NEW h \in Slots, ~Busy(p.req[h]), W(p, h), ~p.threw, NEW M, NEW n \in Nat, NEW t \in {0, 1},
         A(p, h, M, n, t), NEW q, q = HandleFailure(p, h)
  PROVE  A(q, 0, M, n, t)
<1>1. p \in PageRec /\ Distinct(p.requests) /\ Formed(p.req[h])
  BY DEF W
<1> DEFINE l == LetGo(p, h)
           d == Dropped(p, h)
<1>2. CASE Clash(p, h)
  <2>1. l.threw = TRUE /\ Same(p, l)
    BY <1>1, <1>2, LetGoClash
  <2>2. q = l
    BY <1>1, <2>1, HandleFailureIs
  <2>3. Trims(p, l)
    BY <1>1, TrimsLetGo
  <2> HIDE DEF l
  <2>4. A(q, h, M, n, t)
    BY <2>2, <2>3, ATrims
  <2>5. Published(q.req[h].msgs) = {}
    BY <1>2, <2>1, <2>2, PollNothing DEF Clash, Same
  <2> QED
    BY <2>4, <2>5, ARelease, CometdAssumption
<1>3. CASE ~Clash(p, h)
  <2>1. l.threw = p.threw
    BY <1>1, <1>3, LetGoIs
  <2>2. Reports(d, q, p.req[h].msgs)
    BY <1>1, <2>1, HandleFailureIs
  <2>3. A(d, h, M, n, t) /\ d.req[h] = p.req[h]
    BY ADropped, DroppedHand
  <2>4. W(d, h)
    <3>1. W(l, h)
      BY WLetGo
    <3>2. d = l \/ d = GiveUpNext(l)
      BY DEF Dropped
    <3> HIDE DEF l, d
    <3> QED
      BY <3>1, <3>2, WGiveUpNext
  <2> HIDE DEF d
  <2> QED
    BY <2>2, <2>3, <2>4, AReports
<1> QED
  BY <1>2, <1>3

-----------------------------------------------------------------------------
(* What is sent is not lost on the way.                                    *)

\* The application is told once of a message, twice of one whose send has thrown.
B(p, h, M, n) == \E t \in {0, 1} : (t = 1 => "throws" \in p.why) /\ A(p, h, M, n, t)

\* The request in hand is on its way.
LEMMA AGoes ==
  ASSUME NEW p, NEW r \in Slots, NEW M, NEW n, NEW t, A(p, r, M, n, t),
         NEW q, q.req[r].xhr = "none" \/ Untold(p, r), Busy(q.req[r]), q.req[r].msgs = p.req[r].msgs,
         \A s \in Slots \ {r} : q.req[s] = p.req[s],
         q.queue = p.queue, q.told = p.told, q.lost = p.lost, Timed(q)
  PROVE  A(q, 0, M, n, t)
<1>1. \A s \in Slots \ {r} : q.req[s] = p.req[s]
  OBVIOUS
<1>2. q.queue = p.queue /\ q.told = p.told /\ q.lost = p.lost
  OBVIOUS
<1>3. \A s \in Slots : s # 0
  BY CometdAssumption
<1>4. ASSUME NEW m \in Messages, m \notin q.lost
      PROVE  Place(q, 0, M, n, t, m)
  <2>1. \A s \in Slots : Bears(q, 0, s, m) <=> Bears(p, r, s, m)
    BY <1>1, <1>3 DEF Bears
  <2>2. Place(p, r, M, n, t, m)
    BY <1>2, <1>4 DEF A
  <2>3. Bears(p, r, r, m) => p.told[m] = 0 \/ (q.req[r].xhr = "none" /\ p.told[m] <= t)
    BY <1>2, <1>4, <2>2 DEF Place, Bears, Untold
  <2>4. ASSUME NEW s \in Slots, Bears(q, 0, s, m)
        PROVE  /\ m \notin Published(q.queue) /\ m \notin M /\ m <= n
               /\ q.told[m] = 0 \/ ((s = 0 \/ q.req[s].xhr = "none") /\ q.told[m] <= t)
    <3>1. Bears(p, r, s, m)
      BY <2>1, <2>4
    <3>2. /\ m \notin Published(p.queue) /\ m \notin M /\ m <= n
          /\ p.told[m] = 0 \/ ((s = r \/ p.req[s].xhr = "none") /\ p.told[m] <= t)
      BY <2>2, <3>1 DEF Place
    <3> QED
      BY <1>1, <1>2, <2>3, <3>1, <3>2
  <2>5. \A s, u \in Slots : Bears(q, 0, s, m) /\ Bears(q, 0, u, m) => s = u
    BY <2>1, <2>2 DEF Place
  <2>6. m <= n => m \in Published(q.queue) \/ m \in M \/ q.told[m] # 0 \/ \E s \in Slots : Bears(q, 0, s, m)
    BY <1>2, <2>1, <2>2 DEF Place
  <2> QED
    BY <1>2, <2>2, <2>4, <2>5, <2>6 DEF Place
<1> QED
  BY <1>4 DEF A

LEMMA ALaunched ==
  ASSUME NEW p \in PageRec, NEW r \in Slots, NEW M, NEW n, NEW t, A(p, r, M, n, t),
         NEW x \in {"open", "none"}, x = "open" => Untold(p, r), NEW q, Launched(p, q, r, x)
  PROVE  A(q, 0, M, n, t)
<1>1. /\ q.requests = p.requests /\ Kept(p.req[r], q.req[r]) /\ q.req[r].xhr = x /\ q.req[r].timer = TRUE
      /\ q.queue = p.queue /\ q.told = p.told /\ q.lost = p.lost
  BY DEF Launched
<1>2. \A s \in Slots \ {r} : q.req[s] = p.req[s]
  BY DEF Launched
<1>3. Busy(q.req[r]) /\ q.req[r].msgs = p.req[r].msgs
  BY <1>1 DEF Busy, Kept
<1>4. ToSet(p.requests) \subseteq Slots
  BY Members DEF PageRec
<1>5. Timed(q)
  BY <1>1, <1>2, <1>4 DEF A, Timed
<1> QED
  BY <1>1, <1>2, <1>3, <1>5, AGoes

LEMMA ATransportSend ==
  ASSUME NEW p, NEW r, Ready(p, r), NEW M, NEW n \in Nat, B(p, r, M, n), Untold(p, r), NEW q, q = TransportSend(p, r)
  PROVE  B(q, 0, M, n)
<1>1. p \in PageRec /\ r \in Slots /\ Distinct(p.requests)
  BY DEF Ready, W
<1>2. PICK t \in {0, 1} : (t = 1 => "throws" \in p.why) /\ A(p, r, M, n, t)
  BY DEF B
<1>3. CASE ~p.breaks
  <2>1. Launched(p, q, r, "open") /\ q.why = p.why
    BY <1>3, SendWorks
  <2>2. A(q, 0, M, n, t)
    BY <1>1, <1>2, <2>1, ALaunched
  <2> QED
    BY <1>2, <2>1, <2>2 DEF B
<1>4. CASE p.breaks
  <2> DEFINE s == Unbroken(p)
             g == Dropped(s, r)
             f == HandleFailure(s, r)
  <2>1. Launched(f, q, r, "none") /\ "throws" \in q.why /\ f \in PageRec
    BY <1>4, SendThrows
  <2>2. s \in PageRec /\ Wires(p, s) /\ Words(p, s)
    BY <1>1, UnbrokenIs
  <2>3. W(s, r) /\ W(g, r) /\ Reports(g, f, p.req[r].msgs)
    BY FailsAtOnce
  <2>4. A(s, r, M, n, t)
    <3> HIDE DEF s
    <3> QED
      BY <1>2, <2>2, TrimsMoves, ATrims
  <2>5. A(g, r, M, n, t)
    BY <1>1, <2>3, <2>4, ADropped
  <2>6. g.req[r] = s.req[r] /\ g.told = s.told /\ g.lost = s.lost
    BY <1>1, <2>3, DroppedHand
  <2> HIDE DEF s, g, f
  <2>7. Untold(g, r) /\ g.req[r].msgs = p.req[r].msgs
    BY <2>2, <2>6 DEF Untold, Wires, Words
  <2>8. A(f, r, M, n, 1)
    BY <1>1, <2>3, <2>5, <2>7, AReportsThrown
  <2>9. A(q, 0, M, n, 1)
    BY <1>1, <2>1, <2>8, ALaunched
  <2> QED
    BY <2>1, <2>9 DEF B
<1> QED
  BY <1>3, <1>4

LEMMA TimerIsSet ==
  ASSUME NEW p, NEW r, Ready(p, r), NEW q, q = TransportSend(p, r)
  PROVE  q.req[r].timer
<1>1. CASE ~p.breaks
  <2>1. Launched(p, q, r, "open")
    BY <1>1, SendWorks
  <2> QED
    BY <2>1 DEF Launched
<1>2. CASE p.breaks
  <2> DEFINE f == HandleFailure(Unbroken(p), r)
  <2>1. Launched(f, q, r, "none")
    BY <1>2, SendThrows
  <2> QED
    BY <2>1 DEF Launched
<1> QED
  BY <1>1, <1>2

LEMMA AEnlisted ==
  ASSUME NEW p \in PageRec, NEW r \in Slots, p.req[r].timer, NEW M, NEW n, NEW t, A(p, 0, M, n, t), NEW q, q = Enlisted(p, r)
  PROVE  A(q, 0, M, n, t)
<1>1. q.requests = Append(p.requests, r) /\ q.req = p.req /\ Words(p, q)
  BY EnlistedIs
<1>2. ToSet(q.requests) = ToSet(p.requests) \cup {r}
  BY <1>1, Appended DEF PageRec
<1>3. Timed(q)
  BY <1>1, <1>2 DEF A, Timed
<1>4. ASSUME NEW m \in Messages, m \notin q.lost
      PROVE  Rests(p, 0, q, 0, m)
  BY <1>1, <1>4 DEF Rests, Bears, Words
<1> QED
  BY <1>3, <1>4, ARests

LEMMA AEnveloped ==
  ASSUME NEW p \in PageRec, NEW r \in Slots, Loose(p, r), Untold(p, r), NEW M, NEW n, NEW t, A(p, r, M, n, t),
         NEW q, q = Enveloped(p, r)
  PROVE  A(q, 0, M, n, t)
<1>1. Kept(p.req[r], q.req[r]) /\ q.req[r].xhr = "waiting" /\ q.requests = p.requests /\ Words(p, q)
  BY EnvelopedIs
<1>2. \A s \in Slots \ {r} : q.req[s] = p.req[s]
  BY EnvelopedIs
<1>3. Busy(q.req[r]) /\ q.req[r].msgs = p.req[r].msgs
  BY <1>1 DEF Busy, Kept
<1>4. ToSet(p.requests) \subseteq Slots /\ r \notin ToSet(p.requests)
  BY Members DEF PageRec, Loose
<1>5. Timed(q)
  BY <1>1, <1>2, <1>4 DEF A, Timed
<1>6. q.queue = p.queue /\ q.told = p.told /\ q.lost = p.lost
  BY <1>1 DEF Words
<1> QED
  BY <1>2, <1>3, <1>5, <1>6, AGoes

LEMMA AQueueSend ==
  ASSUME NEW p, NEW r, Ready(p, r), NEW M, NEW n \in Nat, B(p, r, M, n), Untold(p, r), NEW q, q = QueueSend(p, r)
  PROVE  B(q, 0, M, n)
<1>1. p \in PageRec /\ r \in Slots /\ Loose(p, r)
  BY DEF Ready, W
<1>2. CASE q = Enlisted(TransportSend(p, r), r)
  <2> DEFINE s == TransportSend(p, r)
  <2>1. B(s, 0, M, n) /\ s.req[r].timer
    BY ATransportSend, TimerIsSet
  <2>2. s \in PageRec
    BY WTransportSend, WType
  <2> HIDE DEF s
  <2>3. q = Enlisted(s, r)
    BY <1>2 DEF s
  <2>4. PICK t \in {0, 1} : (t = 1 => "throws" \in s.why) /\ A(s, 0, M, n, t)
    BY <2>1 DEF B
  <2>5. q.why = s.why
    BY <1>1, <2>2, <2>3, EnlistedIs
  <2>6. A(q, 0, M, n, t)
    BY <1>1, <2>1, <2>2, <2>3, <2>4, AEnlisted
  <2> QED
    BY <2>4, <2>5, <2>6 DEF B
<1>3. CASE q = Enveloped(p, r)
  <2>1. PICK t \in {0, 1} : (t = 1 => "throws" \in p.why) /\ A(p, r, M, n, t)
    BY DEF B
  <2>2. q.why = p.why
    BY <1>1, <1>3, EnvelopedIs
  <2>3. A(q, 0, M, n, t)
    BY <1>1, <1>3, <2>1, AEnveloped
  <2> QED
    BY <2>1, <2>2, <2>3 DEF B
<1> QED
  BY <1>2, <1>3, QueueSendIs

\* Nothing happens to the messages, and a send that has thrown has.
LEMMA BTrims ==
  ASSUME NEW p, NEW h, NEW M, NEW n, B(p, h, M, n), NEW q, Trims(p, q), p.why \subseteq q.why
  PROVE  B(q, h, M, n)
<1>1. PICK t \in {0, 1} : (t = 1 => "throws" \in p.why) /\ A(p, h, M, n, t)
  BY DEF B
<1>2. A(q, h, M, n, t)
  BY <1>1, ATrims
<1> QED
  BY <1>1, <1>2 DEF B

LEMMA ALongpollSend ==
  ASSUME NEW p, NEW r, Ready(p, r), p.req[r].poll, NEW M, NEW n \in Nat, B(p, r, M, n), NEW q, q = LongpollSend(p, r)
  PROVE  B(q, 0, M, n)
<1>1. p \in PageRec /\ r \in Slots /\ W(p, r)
  BY DEF Ready, W
<1> DEFINE s == TransportSend(p, r)
<1>2. Untold(p, r)
  BY <1>1, PollNothing DEF Untold
<1>3. B(s, 0, M, n)
  BY <1>2, ATransportSend
<1>4. s \in PageRec
  BY WTransportSend, WType
<1>5. q = Polling(s, r)
  BY WLongpollSend
<1> HIDE DEF s
<1>6. Trims(s, q) /\ q.why = s.why
  BY <1>1, <1>4, <1>5, PollingIs DEF Trims, Words
<1> QED
  BY <1>3, <1>6, BTrims

\* A message in hand goes into a request of its own, ...
LEMMA AFresh ==
  ASSUME NEW p \in PageRec, NEW r \in Free(p), NEW poll \in BOOLEAN, NEW msgs \in Seq(Msg), NEW S, S = Published(msgs),
         NEW n, NEW t, A(p, 0, S, n, t), NEW q, q = Fresh(p, r, msgs, poll)
  PROVE  A(q, r, {}, n, t) /\ Untold(q, r)
<1>1. r \in Slots /\ ~Busy(p.req[r]) /\ p.client \in Nat
  BY FreeIs DEF PageRec
<1>2. /\ q.requests = p.requests /\ Words(p, q) /\ q.req[r].msgs = Carried(msgs, p.client) /\ ~Busy(q.req[r])
  BY <1>1, FreshIs DEF Busy
<1>3. \A s \in Slots \ {r} : q.req[s] = p.req[s]
  BY <1>1, FreshIs
<1>4. Published(q.req[r].msgs) = S
  BY <1>1, <1>2, CarriedIs
<1>5. ToSet(p.requests) \subseteq Slots
  BY Members DEF PageRec
<1>6. Timed(q)
  BY <1>2, <1>3, <1>5 DEF A, Timed
<1>7. q.queue = p.queue /\ q.told = p.told /\ q.lost = p.lost
  BY <1>2 DEF Words
<1>8. \A s \in Slots : s # 0
  BY CometdAssumption
<1>9. ASSUME NEW m \in Messages
      PROVE  \A s \in Slots : Bears(q, r, s, m) <=> (Bears(p, 0, s, m) \/ (s = r /\ m \in S))
  BY <1>1, <1>3, <1>4, <1>8 DEF Bears
<1>10. ASSUME NEW m \in Messages, m \notin q.lost
       PROVE  Place(q, r, {}, n, t, m) /\ (m \in S => q.told[m] = 0)
  <2>1. Place(p, 0, S, n, t, m)
    BY <1>7, <1>10 DEF A
  <2>2. \A s \in Slots : Bears(q, r, s, m) <=> (Bears(p, 0, s, m) \/ (s = r /\ m \in S))
    BY <1>9
  <2>3. ~Bears(p, 0, r, m)
    BY <1>1, <1>8 DEF Bears
  <2>4. CASE m \in S
    <3>1. p.told[m] = 0 /\ m <= n /\ m \notin Published(p.queue) /\ p.told[m] <= 1 + t
      BY <2>1, <2>4 DEF Place
    <3>2. \A s \in Slots : ~Bears(p, 0, s, m)
      BY <2>1, <2>4 DEF Place
    <3>3. \A s \in Slots : Bears(q, r, s, m) <=> s = r
      BY <2>2, <2>4, <3>2
    <3>4. \E s \in Slots : Bears(q, r, s, m)
      BY <1>1, <3>3
    <3>5. \A s \in Slots : Bears(q, r, s, m) =>
            /\ m \notin Published(q.queue) /\ m \notin {} /\ m <= n
            /\ q.told[m] = 0 \/ ((s = r \/ q.req[s].xhr = "none") /\ q.told[m] <= t)
      BY <1>7, <3>1
    <3>6. \A s, u \in Slots : Bears(q, r, s, m) /\ Bears(q, r, u, m) => s = u
      BY <3>3
    <3> QED
      BY <1>7, <3>1, <3>4, <3>5, <3>6 DEF Place
  <2>5. CASE m \notin S
    <3>1. \A s \in Slots : Bears(q, r, s, m) <=> Bears(p, 0, s, m)
      BY <2>2, <2>5
    <3>2. Rests(p, 0, q, r, m)
      BY <1>3, <1>7, <1>8, <1>10, <2>3, <3>1 DEF Rests
    <3>3. Place(q, r, S, n, t, m)
      BY <2>1, <3>2, PlaceRests
    <3> QED
      BY <2>5, <3>3 DEF Place
  <2> QED
    BY <2>4, <2>5
<1>11. S \subseteq Messages
  BY PublishedIs
<1>12. Untold(q, r)
  BY <1>4, <1>10, <1>11 DEF Untold
<1> QED
  BY <1>6, <1>10, <1>12 DEF A

LEMMA BBegun ==
  ASSUME NEW p \in PageRec, NEW r \in Free(p), NEW msgs, NEW S, S = Published(msgs), NEW n, B(p, 0, S, n),
         NEW c, Begun(p, c, r, msgs)
  PROVE  B(c, r, {}, n) /\ Untold(c, r)
<1>1. PICK b \in BOOLEAN : c = Fresh(p, r, msgs, b) /\ Fit(msgs, b)
  BY DEF Begun
<1>2. msgs \in Seq(Msg) /\ c = Fresh(p, r, msgs, b)
  BY <1>1 DEF Fit
<1>3. r \in Slots
  BY FreeIs
<1>4. c.why = p.why
  BY <1>2, <1>3, FreshIs
<1>5. PICK t \in {0, 1} : (t = 1 => "throws" \in p.why) /\ A(p, 0, S, n, t)
  BY DEF B
<1>6. A(c, r, {}, n, t) /\ Untold(c, r)
  BY <1>2, <1>5, AFresh
<1> QED
  BY <1>4, <1>5, <1>6 DEF B

LEMMA ASendMessages ==
  ASSUME NEW p, W(p, 0), ~p.threw, Free(p) # {}, NEW msgs, Plain(msgs), NEW S, S = Published(msgs), NEW n \in Nat,
         B(p, 0, S, n), NEW q, q = SendPlain(p, msgs)
  PROVE  B(q, 0, {}, n)
<1>1. p \in PageRec
  BY WType
<1>2. PICK r \in Free(p) : \E c : /\ Begun(p, c, r, msgs) /\ ~c.req[r].poll /\ Ready(c, r)
                                   /\ q = QueueSend(c, r)
  BY SendsQueued
<1>3. PICK c : /\ Begun(p, c, r, msgs) /\ ~c.req[r].poll /\ Ready(c, r)
               /\ q = QueueSend(c, r)
  BY <1>2
<1>4. B(c, r, {}, n) /\ Untold(c, r)
  BY <1>1, <1>3, BBegun
<1> QED
  BY <1>3, <1>4, AQueueSend

\* ... and one from an envelope stays in it.
LEMMA AOpening ==
  ASSUME NEW p, W(p, 0), ~p.threw, p.envelopes # <<>>, NEW M, NEW n, NEW t, A(p, 0, M, n, t), NEW e, e = Head(p.envelopes),
         NEW q, q = Opening(p)
  PROVE  A(q, e, M, n, t) /\ Untold(q, e)
<1>1. p \in PageRec
  BY WType
<1>2. q.req = p.req /\ q.requests = p.requests /\ Words(p, q)
  BY <1>1, OpeningIs
<1>3. e \in Slots /\ p.req[e].xhr = "waiting" /\ e # 0
  BY ReadyOpening, CometdAssumption DEF Ready
<1>4. Busy(p.req[e])
  BY <1>3 DEF Busy
<1>5. \A s \in Slots : s # 0
  BY CometdAssumption
<1>6. ASSUME NEW m \in Messages, m \notin q.lost
      PROVE  Rests(p, 0, q, e, m)
  BY <1>2, <1>4, <1>5, <1>6 DEF Rests, Bears, Words
<1>7. Timed(q)
  BY <1>2 DEF A, Timed
<1>8. Published(p.req[e].msgs) \subseteq Messages
  BY <1>1, <1>3, PublishedIs DEF PageRec, Request
<1>9. ASSUME NEW m \in Published(p.req[e].msgs), m \notin p.lost
      PROVE  p.told[m] = 0
  <2>1. Bears(p, 0, e, m) /\ Place(p, 0, M, n, t, m)
    BY <1>4, <1>8, <1>9 DEF Bears, A
  <2> QED
    BY <1>3, <2>1 DEF Place
<1>10. Untold(q, e)
  BY <1>2, <1>9 DEF Untold, Words
<1> QED
  BY <1>6, <1>7, <1>10, ARests

LEMMA ASendNext ==
  ASSUME NEW p, W(p, 0), ~p.threw, NEW M, NEW n \in Nat, B(p, 0, M, n), NEW q, q = SendNext(p)
  PROVE  B(q, 0, M, n)
<1>1. CASE p.envelopes = <<>>
  BY <1>1 DEF SendNext
<1>2. CASE p.envelopes # <<>>
  <2> DEFINE c == Opening(p)
             e == Head(p.envelopes)
  <2>1. q = QueueSend(c, e)
    BY <1>2, SendNextIs
  <2>2. Ready(c, e)
    BY <1>2, ReadyOpening
  <2>3. PICK t \in {0, 1} : (t = 1 => "throws" \in p.why) /\ A(p, 0, M, n, t)
    BY DEF B
  <2>4. A(c, e, M, n, t) /\ Untold(c, e)
    BY <1>2, <2>3, AOpening
  <2>5. c.why = p.why
    BY <1>2, WType, OpeningIs
  <2> HIDE DEF c, e
  <2>6. B(c, e, M, n)
    BY <2>3, <2>4, <2>5 DEF B
  <2> QED
    BY <2>1, <2>2, <2>4, <2>6, AQueueSend
<1> QED
  BY <1>1, <1>2

-----------------------------------------------------------------------------
(* What the application and the timers send is not lost on the way.        *)

\* The queue is taken in hand.
LEMMA AUnloaded ==
  ASSUME NEW p \in PageRec, NEW S, S = Published(p.queue), NEW n, NEW t, A(p, 0, {}, n, t), NEW q, q = Unloaded(p)
  PROVE  A(q, 0, S, n, t)
<1>1. Wires(p, q) /\ q.told = p.told /\ q.lost = p.lost /\ q.queue = <<>>
  BY UnloadedIs
<1>2. Published(q.queue) = {}
  BY <1>1, EmptySeq, PublishedIs
<1>3. Timed(q)
  BY <1>1 DEF A, Timed, Wires
<1>4. \A r, m : Bears(q, 0, r, m) <=> Bears(p, 0, r, m)
  BY <1>1 DEF Bears, Wires
<1>5. ASSUME NEW m \in Messages, m \notin q.lost
      PROVE  Place(q, 0, S, n, t, m)
  <2>1. Place(p, 0, {}, n, t, m)
    BY <1>1, <1>5 DEF A
  <2>2. \A r \in Slots : Bears(q, 0, r, m) =>
          /\ m \notin Published(q.queue) /\ m \notin S /\ m <= n
          /\ q.told[m] = 0 \/ ((r = 0 \/ q.req[r].xhr = "none") /\ q.told[m] <= t)
    BY <1>1, <1>2, <1>4, <2>1 DEF Place, Wires
  <2>3. m <= n => m \in Published(q.queue) \/ m \in S \/ q.told[m] # 0 \/ \E r \in Slots : Bears(q, 0, r, m)
    BY <1>1, <1>4, <2>1 DEF Place
  <2>4. \A r, s \in Slots : Bears(q, 0, r, m) /\ Bears(q, 0, s, m) => r = s
    BY <1>4, <2>1 DEF Place
  <2> QED
    BY <1>1, <1>2, <2>1, <2>2, <2>3, <2>4 DEF Place
<1> QED
  BY <1>3, <1>5 DEF A

LEMMA AFlushBatch ==
  ASSUME NEW p, W(p, 0), ~p.threw, NEW x, Spare(p, x), NEW n \in Nat, B(p, 0, {}, n), NEW q, q = FlushBatch(p)
  PROVE  B(q, 0, {}, n)
<1>1. CASE p.queue = <<>>
  BY <1>1, FlushBatchIs
<1>2. CASE p.queue # <<>>
  <2> DEFINE u == Unloaded(p)
             S == Published(p.queue)
  <2>1. /\ W(u, 0) /\ ~u.threw /\ Spare(u, x) /\ Plain(p.queue)
        /\ q = SendPlain(u, p.queue)
    BY <1>2, FlushBatchIs DEF Plain, SendPlain
  <2>2. u.why = p.why
    BY WType, UnloadedIs
  <2>3. PICK t \in {0, 1} : (t = 1 => "throws" \in p.why) /\ A(p, 0, {}, n, t)
    BY DEF B
  <2>4. A(u, 0, S, n, t)
    BY <2>3, WType, AUnloaded
  <2> HIDE DEF u
  <2>5. Free(u) # {}
    BY <2>1, WType, FreeSpare
  <2>6. B(u, 0, S, n)
    BY <2>2, <2>3, <2>4 DEF B
  <2> QED
    BY <2>1, <2>5, <2>6, ASendMessages
<1> QED
  BY <1>1, <1>2

LEMMA AConnect ==
  ASSUME NEW p, W(p, 0), ~p.threw, NEW x, Spare(p, x), NEW n \in Nat, B(p, 0, {}, n), NEW q, q = Connect(p)
  PROVE  B(q, 0, {}, n)
<1> DEFINE s == Status(p, "connecting")
           msgs == <<Meta("connect")>>
           t == SendPoll(s, msgs)
<1>1. p \in PageRec /\ "connecting" \in Phases /\ "connected" \in Phases
  BY WType DEF Phases
<1>2. Moves(p, s) /\ s.why = p.why
  BY <1>1, StatusIs
<1>3. Polls(msgs) /\ Published(msgs) = {}
  <2>1. "connect" \in Whats
    BY DEF Whats
  <2> HIDE DEF msgs
  <2>2. msgs = <<Meta("connect")>>
    BY DEF msgs
  <2>3. msgs \in Seq(Msg) /\ OneMeta(msgs, "connect") /\ Published(msgs) = {}
    BY <2>1, <2>2, MetaIs
  <2> QED
    BY <2>3 DEF Fit, Polls
<1> HIDE DEF s, msgs
<1>4. s \in PageRec /\ Wires(p, s) /\ s.queue = p.queue /\ ~s.threw
  BY <1>2 DEF Moves, Words, Calm
<1>5. W(s, 0) /\ Free(s) # {} /\ B(s, 0, {}, n)
  BY <1>2, <1>4, WSame, SpareSame, FreeSpare, TrimsMoves, BTrims
<1>6. q = IF t.threw THEN t ELSE Status(t, "connected")
  BY DEF Connect, s, msgs, SendPoll
<1>7. CASE s.longpoll # 0
  <2>1. t = Throw(s)
    BY <1>3, <1>4, <1>5, <1>7, SendsPoll
  <2> HIDE DEF t
  <2>2. t.threw /\ Trims(s, t) /\ t.why = s.why
    BY <1>4, <2>1 DEF Throw, PageRec, Trims
  <2> QED
    BY <1>5, <1>6, <2>2, BTrims
<1>8. CASE s.longpoll = 0
  <2>1. PICK r \in Free(s) : \E c : /\ Begun(s, c, r, msgs) /\ c.req[r].poll /\ Ready(c, r)
                                     /\ t = LongpollSend(c, r)
    BY <1>3, <1>4, <1>5, <1>8, SendsPoll
  <2>2. PICK c : Begun(s, c, r, msgs) /\ Ready(c, r) /\ c.req[r].poll /\ t = LongpollSend(c, r)
    BY <2>1
  <2>3. B(c, r, {}, n)
    BY <1>3, <1>4, <1>5, <2>2, BBegun
  <2> HIDE DEF t
  <2>4. B(t, 0, {}, n) /\ ~t.threw /\ t \in PageRec
    BY <2>2, <2>3, ALongpollSend, WLongpollSend, WType
  <2>5. q = Status(t, "connected")
    BY <1>6, <2>4
  <2>6. Moves(t, q) /\ q.why = t.why
    BY <1>1, <2>4, <2>5, StatusIs
  <2> QED
    BY <2>4, <2>6, TrimsMoves, BTrims
<1> QED
  BY <1>7, <1>8

\* reset() loses the envelopes.
LEMMA AReset ==
  ASSUME NEW p \in PageRec, NEW M, NEW n, NEW t, A(p, 0, M, n, t), NEW q, q = Reset(p)
  PROVE  A(q, 0, M, n, t)
<1>1. Emptied(p, q)
  BY ResetIs
<1>2. \A r \in Slots : /\ r \in ToSet(p.envelopes) => q.req[r] = NoRequest
                       /\ r \notin ToSet(p.envelopes) => q.req[r] = p.req[r]
  BY ResetIs
<1>3. q.lost = p.lost \cup Lost(p, ToSet(p.envelopes)) /\ q.requests = <<>> /\ q.queue = p.queue /\ q.told = p.told
  BY <1>1 DEF Emptied
<1>4. Published(NoRequest.msgs) = {}
  BY NoRequestIs, EmptySeq, PublishedIs
<1>5. ASSUME NEW m \in Messages, m \notin q.lost
      PROVE  Rests(p, 0, q, 0, m)
  <2>1. m \notin p.lost /\ \A r \in ToSet(p.envelopes) : m \notin Published(p.req[r].msgs)
    BY <1>3, <1>5 DEF Lost
  <2>2. \A r \in Slots : /\ Bears(q, 0, r, m) <=> Bears(p, 0, r, m)
                         /\ Bears(q, 0, r, m) => q.req[r] = p.req[r]
    BY <1>2, <1>4, <2>1 DEF Bears
  <2> QED
    BY <1>3, <2>1, <2>2, CometdAssumption DEF Rests
<1>6. Timed(q)
  BY <1>3, EmptyList DEF Timed
<1> QED
  BY <1>5, <1>6, ARests

LEMMA APrepared ==
  ASSUME NEW p, W(p, 0), NEW n \in Nat, B(p, 0, {}, n), NEW b, b = Prepared(p)
  PROVE  B(b, 0, {}, n)
<1> DEFINE a == Renewed(p)
<1>1. a \in PageRec /\ Wires(p, a) /\ Words(p, a) /\ a.why = p.why
  BY WType, RenewedIs
<1>2. b = Reset(a) \/ b = a
  BY DEF Prepared
<1> HIDE DEF a
<1>3. B(a, 0, {}, n)
  BY <1>1, TrimsMoves, BTrims
<1>4. CASE b = Reset(a)
  <2>1. PICK t \in {0, 1} : (t = 1 => "throws" \in a.why) /\ A(a, 0, {}, n, t)
    BY <1>3 DEF B
  <2>2. A(b, 0, {}, n, t)
    BY <1>1, <1>4, <2>1, AReset
  <2>3. b.why = a.why
    BY <1>1, <1>4, ResetIs DEF Emptied
  <2> QED
    BY <2>1, <2>2, <2>3 DEF B
<1> QED
  BY <1>2, <1>3, <1>4

LEMMA AHandshake ==
  ASSUME NEW p, W(p, 0), ~p.threw, NEW x, Spare(p, x), NEW n \in Nat, B(p, 0, {}, n), NEW q, q = Handshake(p)
  PROVE  B(q, 0, {}, n)
<1> DEFINE b == Prepared(p)
           c == Shaking(b)
           msgs == <<Meta("handshake")>>
<1>1. q = SendPlain(c, msgs) /\ W(b, 0) /\ Spare(b, x) /\ ~b.threw
  BY PreparedIs DEF SendPlain
<1>2. B(b, 0, {}, n)
  BY APrepared
<1> HIDE DEF b
<1>3. b \in PageRec
  BY <1>1, WType
<1>4. c \in PageRec /\ Wires(b, c) /\ Words(b, c) /\ c.why = b.why /\ c.threw = b.threw
  BY <1>3, ShakingIs
<1> HIDE DEF c
<1>5. W(c, 0) /\ Spare(c, x) /\ ~c.threw /\ Free(c) # {}
  BY <1>1, <1>4, WSame, SpareSame, FreeSpare DEF Words
<1>6. B(c, 0, {}, n)
  BY <1>2, <1>4, TrimsMoves, BTrims
<1>7. Plain(msgs) /\ Published(msgs) = {}
  BY MetaPlain
<1> HIDE DEF msgs
<1> QED
  BY <1>1, <1>5, <1>6, <1>7, ASendMessages

-----------------------------------------------------------------------------
(* An answer, and what the application is told then.                       *)

\* What is in a request that ends is in hand, ...
LEMMA AHandOver ==
  ASSUME NEW p \in PageRec, NEW r \in Slots, ~Busy(p.req[r]), Untold(p, r), NEW n, NEW t, A(p, r, {}, n, t),
         NEW S, S = Published(p.req[r].msgs)
  PROVE  A(p, 0, S, n, t)
<1>1. \A s \in Slots : s # 0
  BY CometdAssumption
<1>2. ASSUME NEW m \in Messages, m \notin p.lost
      PROVE  Place(p, 0, S, n, t, m)
  <2>1. Place(p, r, {}, n, t, m)
    BY <1>2 DEF A
  <2>2. CASE m \in S
    <3>1. Bears(p, r, r, m)
      BY <2>2 DEF Bears
    <3>2. p.told[m] = 0 /\ m \notin Published(p.queue) /\ m <= n /\ p.told[m] <= 1 + t
      BY <1>2, <2>1, <2>2, <3>1 DEF Place, Untold
    <3>3. \A s \in Slots : Bears(p, 0, s, m) => Bears(p, r, s, m) /\ s # r
      BY <1>1 DEF Bears
    <3>4. \A s \in Slots : ~Bears(p, 0, s, m)
      BY <2>1, <3>1, <3>3 DEF Place
    <3> QED
      BY <2>2, <3>2, <3>4 DEF Place
  <2>3. CASE m \notin S
    <3>1. Rests(p, r, p, 0, m)
      BY <1>1, <1>2, <2>3 DEF Rests, Bears
    <3>2. Place(p, 0, {}, n, t, m)
      BY <2>1, <3>1, PlaceRests
    <3> QED
      BY <2>3, <3>2 DEF Place
  <2> QED
    BY <2>2, <2>3
<1>3. Timed(p)
  BY DEF A
<1> QED
  BY <1>2, <1>3 DEF A

\* ... until the application is told.
LEMMA ATellsHand ==
  ASSUME NEW p \in PageRec, NEW S, NEW n \in Nat, NEW t \in {0, 1}, A(p, 0, S, n, t), NEW q, q = TellAll(p, S)
  PROVE  A(q, 0, {}, n, t)
<1>1. Wires(p, q) /\ q.queue = p.queue /\ q.lost = p.lost
  BY TellAllIs
<1>2. \A m \in Messages : /\ m \in S => q.told[m] = p.told[m] + 1
                          /\ m \notin S => q.told[m] = p.told[m]
  BY TellAllIs
<1>3. Timed(q)
  BY <1>1 DEF A, Timed, Wires
<1>4. \A r, m : Bears(q, 0, r, m) <=> Bears(p, 0, r, m)
  BY <1>1 DEF Bears, Wires
<1>5. ASSUME NEW m \in Messages, m \notin q.lost
      PROVE  Place(q, 0, {}, n, t, m)
  <2>1. Place(p, 0, S, n, t, m)
    BY <1>1, <1>5 DEF A
  <2>2. CASE m \in S
    <3>1. p.told[m] = 0 /\ m \notin Published(p.queue) /\ m <= n
      BY <2>1, <2>2 DEF Place
    <3>2. \A r \in Slots : ~Bears(q, 0, r, m)
      BY <1>4, <2>1, <2>2 DEF Place
    <3>3. q.told[m] = 1 /\ q.told[m] <= 1 + t /\ q.queue = p.queue
      BY <1>1, <1>2, <2>2, <3>1
    <3>4. m > n => q.told[m] = 0
      BY <3>1, ToldIs
    <3> QED
      BY <3>1, <3>2, <3>3, <3>4 DEF Place
  <2>3. CASE m \notin S
    <3>1. Rests(p, 0, q, 0, m)
      BY <1>1, <1>2, <1>4, <1>5, <2>3 DEF Rests, Wires
    <3>2. Place(q, 0, S, n, t, m)
      BY <2>1, <3>1, PlaceRests
    <3> QED
      BY <2>3, <3>2 DEF Place
  <2> QED
    BY <2>2, <2>3
<1> QED
  BY <1>3, <1>5 DEF A

LEMMA AReceivedConnect ==
  ASSUME NEW p, W(p, 0), ~p.threw, NEW x, Spare(p, x), NEW n \in Nat, B(p, 0, {}, n), NEW msg \in Ans,
         NEW q, q = ConnectResponse(p, msg)
  PROVE  B(q, 0, {}, n)
<1>0. p \in PageRec /\ msg.ok \in BOOLEAN
  BY WType DEF Ans
<1>1. CASE ~msg.ok
  <2>1. Moves(p, q) /\ p.why \subseteq q.why
    BY <1>0, <1>1, ConnectResponseFails
  <2> QED
    BY <2>1, TrimsMoves, BTrims
<1>2. CASE msg.ok
  <2>1. ASSUME NEW u, Connected(p, u), NEW s, s = FlushBatch(u)
        PROVE  s \in PageRec /\ B(s, 0, {}, n)
    <3>1. u \in PageRec /\ Wires(p, u) /\ u.queue = p.queue /\ u.why = p.why /\ u.threw = p.threw /\ Moves(p, u)
      BY <2>1 DEF Connected, Moves, Words, Calm
    <3>2. W(u, 0) /\ Spare(u, x) /\ ~u.threw
      BY <3>1, WSame, SpareSame
    <3>3. B(u, 0, {}, n)
      BY <3>1, TrimsMoves, BTrims
    <3>4. W(s, 0) /\ B(s, 0, {}, n)
      BY <2>1, <3>2, <3>3, WFlushBatch, AFlushBatch
    <3> QED
      BY <3>4, WType
  <2>2. \A u : Connected(p, u) => FlushBatch(u) \in PageRec
    BY <2>1
  <2>3. PICK u : Connected(p, u) /\ Moves(FlushBatch(u), q) /\ FlushBatch(u).why \subseteq q.why
    BY <1>0, <1>2, <2>2, ConnectResponseWorks
  <2> DEFINE s == FlushBatch(u)
  <2>4. B(s, 0, {}, n)
    BY <2>1, <2>3
  <2>5. Moves(s, q) /\ s.why \subseteq q.why
    BY <2>3
  <2> HIDE DEF s
  <2> QED
    BY <2>4, <2>5, TrimsMoves, BTrims
<1> QED
  BY <1>0, <1>1, <1>2

LEMMA AReceived ==
  ASSUME NEW p, W(p, 0), ~p.threw, NEW x, Spare(p, x), NEW msgs \in Seq(Msg), NEW S, S = Published(msgs), NEW n \in Nat,
         B(p, 0, S, n), NEW reply, NEW q, Received(p, q, msgs, reply)
  PROVE  B(q, 0, {}, n)
<1>0. p \in PageRec
  BY WType
<1>1. PICK t \in {0, 1} : (t = 1 => "throws" \in p.why) /\ A(p, 0, S, n, t)
  BY DEF B
<1>2. CASE Batch(msgs) /\ q = TellAll(p, Published(msgs))
  <2>1. q = TellAll(p, S)
    BY <1>2
  <2>2. q.why = p.why
    BY <1>0, <2>1, TellAllIs
  <2>3. A(q, 0, {}, n, t)
    BY <1>0, <1>1, <2>1, ATellsHand
  <2> QED
    BY <1>1, <2>2, <2>3 DEF B
<1>3. CASE \E w \in {"handshake", "connect", "disconnect"} :
             OneMeta(msgs, w) /\ reply[1] \in Ans /\ reply[1].what = w /\ q = Receive(p, reply[1])
  <2> DEFINE msg == reply[1]
             a == Advised(p, msg)
  <2>1. msg \in Ans /\ q = Receive(p, msg) /\ msg.what \in {"handshake", "connect", "disconnect"} /\ msg.ok \in BOOLEAN
    BY <1>3 DEF Ans
  <2>2. S = {}
    BY <1>3, MetaNothing
  <2> HIDE DEF msg
  <2>3. Moves(p, a) /\ a.why = p.why
    BY <1>0, <2>1, AdvisedIs
  <2>4. /\ msg.what = "handshake"  => q = HandshakeResponse(a, msg)
        /\ msg.what = "connect"    => q = ConnectResponse(a, msg)
        /\ msg.what = "disconnect" => q = Disconnect(a, ~msg.ok)
    BY <1>0, <2>1, ReceiveIs
  <2> HIDE DEF a
  <2>5. a \in PageRec /\ Wires(p, a) /\ a.queue = p.queue /\ a.threw = p.threw
    BY <2>3 DEF Moves, Words, Calm
  <2>6. W(a, 0) /\ Spare(a, x) /\ ~a.threw
    BY <2>3, <2>5, WSame, SpareSame
  <2>7. B(a, 0, {}, n)
    BY <2>2, <2>3, TrimsMoves, BTrims
  <2>8. CASE msg.what = "handshake"
    <3>1. q = HandshakeResponse(a, msg)
      BY <2>4, <2>8
    <3>2. Wires(a, q) /\ Words(a, q) /\ a.why \subseteq q.why
      BY <2>1, <2>5, <3>1, HandshakeResponseIs
    <3> QED
      BY <2>7, <3>2, TrimsMoves, BTrims
  <2>9. CASE msg.what = "connect"
    BY <2>1, <2>4, <2>6, <2>7, <2>9, AReceivedConnect
  <2>10. CASE msg.what = "disconnect"
    <3> DEFINE d == ~msg.ok
    <3>1. q = Disconnect(a, d) /\ d \in BOOLEAN
      BY <2>1, <2>4, <2>10
    <3> HIDE DEF d
    <3>2. PICK u \in {0, 1} : (u = 1 => "throws" \in a.why) /\ A(a, 0, {}, n, u)
      BY <2>7 DEF B
    <3>3. q.why = a.why
      BY <2>5, <3>1, DisconnectIs
    <3>4. A(q, 0, {}, n, u)
      BY <2>6, <3>1, <3>2, ADisconnect
    <3> QED
      BY <3>2, <3>3, <3>4 DEF B
  <2> QED
    BY <2>1, <2>8, <2>9, <2>10
<1> QED
  BY <1>2, <1>3 DEF Received

LEMMA AHandleResponse ==
  ASSUME NEW p, NEW r \in Slots, W(p, r), ~Busy(p.req[r]), Untold(p, r), NEW n \in Nat, B(p, r, {}, n), ~p.threw,
         Echoes(p.req[r].reply, p.req[r].msgs), NEW x, Spare(p, x), NEW q, q = HandleResponse(p, r)
  PROVE  B(q, 0, {}, n)
<1>0. p \in PageRec /\ Distinct(p.requests) /\ p.req[r].msgs \in Seq(Msg)
  BY DEF W, PageRec, Request
<1> DEFINE l == LetGo(p, r)
<1>1. Same(p, l) /\ Trims(p, l) /\ p.why \subseteq l.why
  BY <1>0, LetGoIs, TrimsLetGo
<1>2. PICK t \in {0, 1} : (t = 1 => "throws" \in p.why) /\ A(p, r, {}, n, t)
  BY DEF B
<1>3. CASE Clash(p, r)
  <2>1. q = l
    BY <1>3, HandleResponseIs
  <2>2. p.req[r].poll
    BY <1>3 DEF Clash
  <2> HIDE DEF l
  <2>3. Published(q.req[r].msgs) = {}
    BY <1>1, <2>1, <2>2, PollNothing DEF Same
  <2>4. A(q, r, {}, n, t)
    BY <1>1, <1>2, <2>1, ATrims
  <2>5. A(q, 0, {}, n, t)
    BY <2>3, <2>4, ARelease, CometdAssumption
  <2> QED
    BY <1>1, <1>2, <2>1, <2>5 DEF B
<1>4. CASE ~Clash(p, r)
  <2> DEFINE s == Passed(p, r)
             S == Published(p.req[r].msgs)
  <2>1. W(l, 0) /\ ~l.threw
    <3>1. W(l, r) /\ Loose(l, r)
      BY <1>4, WLetGo
    <3>2. l.threw = p.threw
      BY <1>0, <1>4, LetGoIs
    <3> QED
      BY <3>1, <3>2, WLoose, CometdAssumption
  <2>2. W(s, 0) /\ ~s.threw /\ Spare(s, x) /\ Received(s, q, p.req[r].msgs, p.req[r].reply)
    BY <1>4, HandleResponseIs
  <2>3. s = l \/ s = SendNext(l)
    BY DEF Passed
  <2>4. A(p, 0, S, n, t)
    BY <1>0, <1>2, AHandOver
  <2> HIDE DEF l, s, S
  <2>5. A(l, 0, S, n, t)
    BY <1>1, <2>4, ATrims
  <2>6. B(l, 0, S, n)
    BY <1>1, <1>2, <2>5 DEF B
  <2>7. B(s, 0, S, n)
    BY <2>1, <2>3, <2>6, ASendNext
  <2> QED
    BY <1>0, <2>2, <2>7, AReceived DEF S
<1> QED
  BY <1>3, <1>4

LEMMA ASettled ==
  ASSUME NEW p \in PageRec, NEW n, B(p, 0, {}, n), NEW q, q = Settled(p)
  PROVE  B(q, 0, {}, n)
<1>1. q.requests = p.requests /\ Words(p, q) /\ q.why = p.why
  BY SettledIs
<1>2. \A r \in Slots : (Spare(p, r) => q.req[r] = NoRequest) /\ (~Spare(p, r) => q.req[r] = p.req[r])
  BY SettledIs
<1>3. PICK t \in {0, 1} : (t = 1 => "throws" \in p.why) /\ A(p, 0, {}, n, t)
  BY DEF B
<1>4. \A r \in Slots : r # 0
  BY CometdAssumption
<1>5. \A r \in Slots : Busy(p.req[r]) \/ Busy(q.req[r]) => q.req[r] = p.req[r]
  BY <1>2, NoRequestIs DEF Spare
<1>6. ASSUME NEW m \in Messages, m \notin q.lost
      PROVE  Rests(p, 0, q, 0, m)
  BY <1>1, <1>4, <1>5, <1>6 DEF Rests, Bears, Words
<1>7. ToSet(p.requests) \subseteq Slots
  BY Members DEF PageRec
<1>8. Timed(q)
  BY <1>1, <1>3, <1>5, <1>7 DEF A, Timed
<1>9. A(q, 0, {}, n, t)
  BY <1>3, <1>6, <1>8, ARests
<1> QED
  BY <1>1, <1>3, <1>9 DEF B

LEMMA AEnded ==
  ASSUME NEW p \in PageRec, NEW n, NEW t, A(p, 0, {}, n, t), NEW r \in Slots, Busy(p.req[r]), NEW q, q = Ended(p, r)
  PROVE  /\ A(q, r, {}, n, t) /\ ~Busy(q.req[r])
         /\ p.req[r].xhr # "none" => Untold(q, r)
<1>1. /\ q.requests = p.requests /\ Words(p, q) /\ Kept(p.req[r], q.req[r]) /\ q.req[r].xhr = "none" /\ ~q.req[r].timer
  BY EndedIs
<1>2. \A s \in Slots : s # r => q.req[s] = p.req[s]
  BY EndedIs
<1>3. \A s \in Slots : s # 0
  BY CometdAssumption
<1>4. q.req[r].msgs = p.req[r].msgs /\ ~Busy(q.req[r])
  BY <1>1 DEF Kept, Busy
<1>5. ASSUME NEW m \in Messages, m \notin q.lost
      PROVE  Rests(p, 0, q, r, m)
  BY <1>1, <1>2, <1>3, <1>4, <1>5 DEF Rests, Bears, Words
<1>6. ToSet(p.requests) \subseteq Slots
  BY Members DEF PageRec
<1>7. Timed(q)
  BY <1>1, <1>2, <1>4, <1>6 DEF A, Timed
<1>8. Published(p.req[r].msgs) \subseteq Messages
  BY PublishedIs DEF PageRec, Request
<1>9. ASSUME NEW m \in Published(p.req[r].msgs), m \notin p.lost, p.req[r].xhr # "none"
      PROVE  p.told[m] = 0
  <2>1. Bears(p, 0, r, m) /\ Place(p, 0, {}, n, t, m)
    BY <1>8, <1>9 DEF Bears, A
  <2> QED
    BY <1>3, <1>9, <2>1 DEF Place
<1>10. p.req[r].xhr # "none" => Untold(q, r)
  BY <1>1, <1>4, <1>9 DEF Untold, Words
<1> QED
  BY <1>4, <1>5, <1>7, <1>10, ARests

-----------------------------------------------------------------------------
(* Whole turns, between which every message is somewhere.                  *)

Traced == B(page, 0, {}, asked)

LEMMA TracedThen ==
  ASSUME NEW q, page' = q, NEW n, asked' = n, B(q, 0, {}, n)
  PROVE  Traced'
  BY DEF Traced, B, A, Place, Timed, Bears, Busy

LEMMA TracedTurn ==
  ASSUME NEW q, W(q, 0), NEW n, asked' = n, B(q, 0, {}, n), Turn(q)
  PROVE  Traced'
<1> DEFINE s == page'
<1>1. s = Settled(q)
  BY DEF Turn, Settled
<1> HIDE DEF s
<1>2. B(s, 0, {}, n)
  BY <1>1, WType, ASettled
<1> QED
  BY <1>2, TracedThen DEF s

LEMMA AskedIs ==
  ASSUME Wired
  PROVE  asked \in Nat /\ asked <= MaxMessages
  BY CometdAssumption DEF Wired, Dated

LEMMA TracedAppHandshake ==
  ASSUME Wired, Traced, Room, AppHandshake
  PROVE  Traced'
<1> DEFINE w == IF page.due # "none" THEN page.why \cup {"overtaken"} ELSE page.why
           p == [page EXCEPT !.status = "disconnected", !.why = w]
           q == Handshake(p)
<1>1. W(page, 0) /\ ~page.threw /\ page \in PageRec
  BY WType DEF Wired
<1>2. w \in SUBSET Reasons /\ page.why \subseteq w /\ "disconnected" \in Phases
  BY <1>1 DEF PageRec, Reasons, Phases
<1>3. Turn(q)
  <2>1. [page EXCEPT !.status = "disconnected", !.why = IF page.due # "none" THEN @ \cup {"overtaken"} ELSE @] = p
    BY <1>1 DEF PageRec
  <2> QED
    BY <2>1 DEF AppHandshake
<1> HIDE DEF w
<1>4. p \in PageRec /\ Wires(page, p) /\ Words(page, p) /\ p.why = w /\ p.threw = page.threw
  BY <1>1, <1>2 DEF PageRec, Wires, Words
<1> HIDE DEF p
<1>5. PICK x : Spare(p, x)
  BY <1>4, RoomIs, SpareSame
<1>6. W(p, 0)
  BY <1>1, <1>2, <1>4, WSame DEF Words
<1>7. B(p, 0, {}, asked)
  BY <1>2, <1>4, TrimsMoves, BTrims DEF Traced
<1>8. W(q, 0) /\ B(q, 0, {}, asked)
  BY <1>1, <1>4, <1>5, <1>6, <1>7, AskedIs, WHandshake, AHandshake
<1> HIDE DEF q
<1>9. asked' = asked
  BY DEF AppHandshake
<1> QED
  BY <1>3, <1>8, <1>9, TracedTurn

LEMMA TracedAppDisconnect ==
  ASSUME Wired, Traced, Room, AppDisconnect
  PROVE  Traced'
<1> DEFINE p == Status(page, "disconnecting")
           msgs == <<Meta("disconnect")>>
           q == SendPlain(p, msgs)
<1>1. W(page, 0) /\ ~page.threw /\ page \in PageRec /\ "disconnecting" \in Phases
  BY WType DEF Wired, Phases
<1>2. Moves(page, p) /\ p.why = page.why
  BY <1>1, StatusIs
<1>3. Turn(q) /\ asked' = asked
  BY DEF AppDisconnect, SendPlain
<1>4. Plain(msgs) /\ Published(msgs) = {}
  BY MetaPlain
<1> HIDE DEF p, msgs
<1>5. p \in PageRec /\ Wires(page, p) /\ p.queue = page.queue /\ p.threw = page.threw
  BY <1>2 DEF Moves, Words, Calm
<1>6. PICK x : Spare(p, x)
  BY <1>5, RoomIs, SpareSame
<1>7. W(p, 0) /\ Free(p) # {} /\ FALSE \in BOOLEAN /\ ~p.threw
  BY <1>1, <1>2, <1>5, <1>6, WSame, FreeSpare
<1>8. B(p, 0, {}, asked)
  BY <1>2, TrimsMoves, BTrims DEF Traced
<1>9. B(q, 0, {}, asked)
  BY <1>4, <1>7, <1>8, AskedIs, ASendMessages
<1>10. W(q, 0)
  BY <1>4, <1>7, WSendMessages DEF Plain, SendPlain
<1> HIDE DEF q
<1> QED
  BY <1>3, <1>9, <1>10, TracedTurn

LEMMA TracedDue ==
  ASSUME Wired, Traced, Room, Due
  PROVE  Traced'
<1> DEFINE p == [page EXCEPT !.due = "none"]
           q == IF page.due = "connect" THEN Connect(p) ELSE Handshake(p)
<1>1. W(page, 0) /\ ~page.threw /\ page \in PageRec
  BY WType DEF Wired
<1>2. p \in PageRec /\ Wires(page, p) /\ Words(page, p) /\ p.why = page.why /\ p.threw = page.threw
  BY <1>1 DEF PageRec, Wires, Words
<1>3. Turn(q) /\ asked' = asked
  BY DEF Due
<1>4. q = Connect(p) \/ q = Handshake(p)
  OBVIOUS
<1> HIDE DEF p, q
<1>5. PICK x : Spare(p, x)
  BY <1>2, RoomIs, SpareSame
<1>6. W(p, 0)
  BY <1>1, <1>2, WSame DEF Words
<1>7. B(p, 0, {}, asked)
  BY <1>2, TrimsMoves, BTrims DEF Traced
<1>8. W(q, 0) /\ B(q, 0, {}, asked)
  <2>1. CASE q = Connect(p)
    BY <1>1, <1>2, <1>5, <1>6, <1>7, <2>1, AskedIs, WConnect, AConnect
  <2>2. CASE q = Handshake(p)
    BY <1>1, <1>2, <1>5, <1>6, <1>7, <2>2, AskedIs, WHandshake, AHandshake
  <2> QED
    BY <1>4, <2>1, <2>2
<1> QED
  BY <1>3, <1>8, TracedTurn

\* Another message is asked for: it is in hand, ...
LEMMA AAsked ==
  ASSUME NEW p \in PageRec, NEW k \in Nat, NEW n, n = k + 1, NEW t \in {0, 1}, A(p, 0, {}, k, t)
  PROVE  A(p, 0, {n}, n, t)
<1>1. ASSUME NEW m \in Messages, m \notin p.lost
      PROVE  Place(p, 0, {n}, n, t, m)
  <2>1. Place(p, 0, {}, k, t, m) /\ m \in Nat /\ p.told[m] \in Nat
    BY <1>1, ToldIs DEF A
  <2>2. \A r \in Slots : Bears(p, 0, r, m) =>
          /\ m \notin Published(p.queue) /\ m \notin {n} /\ m <= n
          /\ p.told[m] = 0 \/ ((r = 0 \/ p.req[r].xhr = "none") /\ p.told[m] <= t)
    BY <2>1 DEF Place
  <2>3. /\ p.told[m] <= 1 + t
        /\ m \in Published(p.queue) \/ m \in {n} => p.told[m] = 0 /\ m <= n
        /\ ~(m \in Published(p.queue) /\ m \in {n})
        /\ m > n => p.told[m] = 0
    BY <2>1 DEF Place
  <2>4. m <= n => m \in Published(p.queue) \/ m \in {n} \/ p.told[m] # 0 \/ \E r \in Slots : Bears(p, 0, r, m)
    BY <2>1 DEF Place
  <2>5. \A r, s \in Slots : Bears(p, 0, r, m) /\ Bears(p, 0, s, m) => r = s
    BY <2>1 DEF Place
  <2> QED
    BY <2>2, <2>3, <2>4, <2>5 DEF Place
<1> QED
  BY <1>1 DEF A

\* ... and joins the queue.
LEMMA AQueued ==
  ASSUME NEW p \in PageRec, p.queue = <<>> \/ Batch(p.queue), NEW n \in Messages, \A m \in Published(p.queue) : m < n,
         NEW t, A(p, 0, {n}, n, t), NEW q, q = Queued(p, n)
  PROVE  A(q, 0, {}, n, t)
<1>1. /\ Published(q.queue) = Published(p.queue) \cup {n} /\ Wires(p, q) /\ q.told = p.told /\ q.lost = p.lost
  BY QueuedIs
<1>2. Timed(q)
  BY <1>1 DEF A, Timed, Wires
<1>3. \A r, m : Bears(q, 0, r, m) <=> Bears(p, 0, r, m)
  BY <1>1 DEF Bears, Wires
<1>4. ASSUME NEW m \in Messages, m \notin q.lost
      PROVE  Place(q, 0, {}, n, t, m)
  <2>1. Place(p, 0, {n}, n, t, m)
    BY <1>1, <1>4 DEF A
  <2>2. \A r \in Slots : Bears(q, 0, r, m) =>
          /\ m \notin Published(q.queue) /\ m \notin {} /\ m <= n
          /\ q.told[m] = 0 \/ ((r = 0 \/ q.req[r].xhr = "none") /\ q.told[m] <= t)
    BY <1>1, <1>3, <2>1 DEF Place, Wires
  <2>3. m <= n => m \in Published(q.queue) \/ m \in {} \/ q.told[m] # 0 \/ \E r \in Slots : Bears(q, 0, r, m)
    BY <1>1, <1>3, <2>1 DEF Place
  <2>4. \A r, s \in Slots : Bears(q, 0, r, m) /\ Bears(q, 0, s, m) => r = s
    BY <1>3, <2>1 DEF Place
  <2> QED
    BY <1>1, <2>1, <2>2, <2>3, <2>4 DEF Place
<1> QED
  BY <1>2, <1>4 DEF A

LEMMA TracedPublish ==
  ASSUME Wired, Traced, Room, Publish
  PROVE  Traced'
<1> DEFINE n == asked + 1
           msgs == <<Message(n)>>
           q == IF page.batch > 0 \/ page.held THEN Queued(page, n) ELSE SendPlain(page, msgs)
<1>1. W(page, 0) /\ ~page.threw /\ page \in PageRec /\ Dated /\ (page.queue = <<>> \/ Batch(page.queue))
  BY WType DEF Wired, W
<1>2. asked' = n /\ n \in Messages /\ asked \in Nat /\ n \in Nat
  BY <1>1, CometdAssumption DEF Publish, Dated, Messages
<1>3. \A m \in Published(page.queue) : m < n
  BY <1>1, <1>2 DEF Dated
<1>4. Turn(q)
  <2>1. Turn(IF page.batch > 0 \/ page.held THEN [page EXCEPT !.queue = Append(@, Message(n))]
             ELSE SendMessages(page, <<Message(n)>>, FALSE))
    BY <1>2 DEF Publish
  <2>2. [page EXCEPT !.queue = Append(@, Message(n))] = Queued(page, n)
    BY <1>1 DEF Queued, PageRec
  <2> QED
    BY <2>1, <2>2 DEF SendPlain
<1>5. q = Queued(page, n) \/ q = SendPlain(page, msgs)
  OBVIOUS
<1>6. Plain(msgs) /\ Published(msgs) = {n}
  <2> HIDE DEF msgs, n
  <2>1. msgs = <<Message(n)>> /\ n \in Messages
    BY <1>2 DEF msgs
  <2>2. msgs \in Seq(Msg) /\ Batch(msgs) /\ Published(msgs) = {n}
    BY <2>1, MessageIs
  <2> QED
    BY <2>2 DEF Fit, Plain
<1>7. PICK t \in {0, 1} : (t = 1 => "throws" \in page.why) /\ A(page, 0, {}, asked, t)
  BY DEF Traced, B
<1>8. A(page, 0, {n}, n, t)
  BY <1>1, <1>2, <1>7, AAsked
<1> HIDE DEF q, msgs, n
<1>9. CASE q = Queued(page, n)
  <2>1. q \in PageRec /\ Batch(q.queue) /\ Wires(page, q) /\ q.why = page.why
    BY <1>1, <1>2, <1>3, <1>9, QueuedIs
  <2>2. W(q, 0)
    BY <1>1, <2>1 DEF W, Wires, Listed
  <2>3. A(q, 0, {}, n, t)
    BY <1>1, <1>2, <1>3, <1>8, <1>9, AQueued
  <2>4. B(q, 0, {}, n)
    BY <1>7, <2>1, <2>3 DEF B
  <2> QED
    BY <1>2, <1>4, <2>2, <2>4, TracedTurn
<1>10. CASE q = SendPlain(page, msgs)
  <2>1. Free(page) # {} /\ FALSE \in BOOLEAN
    BY <1>1, RoomIs, FreeSpare
  <2>2. W(q, 0)
    BY <1>1, <1>6, <1>10, <2>1, WSendMessages DEF Plain, SendPlain
  <2>3. B(page, 0, {n}, n)
    BY <1>7, <1>8 DEF B
  <2>4. B(q, 0, {}, n)
    BY <1>1, <1>2, <1>6, <1>10, <2>1, <2>3, ASendMessages
  <2> QED
    BY <1>2, <1>4, <2>2, <2>4, TracedTurn
<1> QED
  BY <1>5, <1>9, <1>10

LEMMA TracedStartBatch ==
  ASSUME Wired, Traced, Room, StartBatch
  PROVE  Traced'
<1> DEFINE q == Counted(page, page.batch + 1)
<1>1. W(page, 0) /\ page \in PageRec /\ Dated
  BY WType DEF Wired
<1>2. page.batch + 1 \in Int
  BY <1>1 DEF StartBatch, Dated
<1>3. Turn(q) /\ asked' = asked
  <2>1. [page EXCEPT !.batch = @ + 1] = q
    BY <1>1 DEF Counted, PageRec
  <2> QED
    BY <2>1 DEF StartBatch
<1>4. q \in PageRec /\ Wires(page, q) /\ Words(page, q) /\ q.why = page.why
  BY <1>1, <1>2, CountedIs
<1> HIDE DEF q
<1>5. W(q, 0)
  BY <1>1, <1>4, WSame DEF Words
<1>6. B(q, 0, {}, asked)
  BY <1>4, TrimsMoves, BTrims DEF Traced
<1> QED
  BY <1>3, <1>5, <1>6, TracedTurn

LEMMA TracedEndBatch ==
  ASSUME Wired, Traced, Room, EndBatch
  PROVE  Traced'
<1> DEFINE p == Counted(page, page.batch - 1)
           q == IF p.batch = 0 /\ ~Disconnected(p) /\ ~p.held THEN FlushBatch(p)
                ELSE IF p.queue # <<>> /\ ~p.held THEN Because(p, "kept") ELSE p
<1>1. W(page, 0) /\ ~page.threw /\ page \in PageRec /\ Dated
  BY WType DEF Wired
<1>2. page.batch - 1 \in Int
  BY <1>1 DEF EndBatch, Dated
<1>3. Turn(q) /\ asked' = asked
  <2>1. [page EXCEPT !.batch = @ - 1] = p
    BY <1>1 DEF Counted, PageRec
  <2> HIDE DEF p
  <2> QED
    BY <2>1 DEF EndBatch
<1>4. /\ p \in PageRec /\ Wires(page, p) /\ Words(page, p) /\ p.why = page.why
      /\ p.threw = page.threw
  BY <1>1, <1>2, CountedIs
<1> HIDE DEF p
<1>5. q = FlushBatch(p) \/ q = Because(p, "kept") \/ q = p
  OBVIOUS
<1> HIDE DEF q
<1>6. W(p, 0)
  BY <1>1, <1>4, WSame DEF Words
<1>7. PICK x : Spare(p, x)
  BY <1>4, RoomIs, SpareSame
<1>8. B(p, 0, {}, asked)
  BY <1>4, TrimsMoves, BTrims DEF Traced
<1>9. W(q, 0) /\ B(q, 0, {}, asked)
  <2>1. CASE q = FlushBatch(p)
    BY <1>1, <1>4, <1>6, <1>7, <1>8, <2>1, AskedIs, WFlushBatch, AFlushBatch
  <2>2. CASE q = Because(p, "kept")
    <3>1. Moves(p, q) /\ p.why \subseteq q.why
      BY <1>4, <2>2, BecauseIs DEF Reasons
    <3>2. B(q, 0, {}, asked)
      BY <1>8, <3>1, TrimsMoves, BTrims
    <3> QED
      BY <1>6, <3>1, <3>2, WSame DEF Moves, Words
  <2>3. CASE q = p
    BY <1>6, <1>8, <2>3
  <2> QED
    BY <1>5, <2>1, <2>2, <2>3
<1> QED
  BY <1>3, <1>9, TracedTurn

LEMMA OutBusy ==
  ASSUME NEW p, NEW r, Out(p, r)
  PROVE  Busy(p.req[r])
  BY DEF Out, Busy

LEMMA TracedFailure ==
  ASSUME Wired, Traced, Room, NEW r \in Slots, Out(page, r), Turn(HandleFailure(Over(r), r)), asked' = asked
  PROVE  Traced'
<1> DEFINE p == Ended(page, r)
           q == HandleFailure(p, r)
<1>1. W(page, 0) /\ ~page.threw /\ page \in PageRec
  BY WType DEF Wired
<1>2. Turn(q)
  BY DEF Over, Ended
<1>3. PICK t \in {0, 1} : (t = 1 => "throws" \in page.why) /\ A(page, 0, {}, asked, t)
  BY DEF Traced, B
<1>4. W(p, r) /\ Calm(page, p) /\ p.why = page.why
  BY <1>1, WEnded, EndedIs
<1>5. A(p, r, {}, asked, t) /\ ~Busy(p.req[r])
  BY <1>1, <1>3, OutBusy, AEnded
<1> HIDE DEF p
<1>6. W(q, 0) /\ p.why \subseteq q.why
  BY <1>1, <1>4, WHandleFailure DEF Calm
<1>7. A(q, 0, {}, asked, t)
  BY <1>1, <1>4, <1>5, AskedIs, AFailure DEF Calm
<1> HIDE DEF q
<1>8. B(q, 0, {}, asked)
  BY <1>3, <1>4, <1>6, <1>7 DEF B
<1> QED
  BY <1>2, <1>6, <1>8, TracedTurn

LEMMA TracedPoll ==
  ASSUME Wired, Traced, Room, NEW r \in Slots, Poll(r)
  PROVE  Traced'
<1> DEFINE p == Ended(page, r)
<1>1. W(page, 0) /\ ~page.threw /\ page \in PageRec
  BY WType DEF Wired
<1>2. p = Over(r)
  BY DEF Over, Ended
<1>3. PICK t \in {0, 1} : (t = 1 => "throws" \in page.why) /\ A(page, 0, {}, asked, t)
  BY DEF Traced, B
<1>4. ASSUME Out(page, r), page.req[r].xhr # "none"
      PROVE  /\ W(p, r) /\ p.threw = page.threw /\ p.req[r].msgs = page.req[r].msgs /\ p.req[r].reply = page.req[r].reply
             /\ Formed(page.req[r]) /\ p.why = page.why /\ \A x : Spare(page, x) => Spare(p, x)
             /\ A(p, r, {}, asked, t) /\ ~Busy(p.req[r]) /\ Untold(p, r)
  <2>1. W(p, r) /\ Calm(page, p) /\ Kept(page.req[r], p.req[r]) /\ p.why = page.why
    BY <1>1, <1>4, WEnded, EndedIs
  <2>2. Formed(page.req[r]) /\ \A x : Spare(page, x) => Spare(p, x)
    BY <1>1, <1>4, WEnded
  <2>3. A(p, r, {}, asked, t) /\ ~Busy(p.req[r]) /\ Untold(p, r)
    BY <1>1, <1>3, <1>4, OutBusy, AEnded
  <2> HIDE DEF p
  <2> QED
    BY <2>1, <2>2, <2>3 DEF Calm, Kept
<1>5. asked' = asked
  BY DEF Poll
<1>6. CASE page.req[r].xhr = "broken" /\ Turn(HandleFailure(Over(r), r))
  BY <1>5, <1>6, TracedFailure DEF Out
<1> HIDE DEF p
<1>7. CASE page.req[r].xhr = "answered" /\ Turn(HandleResponse(Over(r), r))
  <2> DEFINE q == HandleResponse(p, r)
  <2>1. Turn(q)
    BY <1>2, <1>7
  <2>2. Out(page, r) /\ page.req[r].xhr # "none"
    BY <1>7 DEF Out
  <2>3. Echoes(page.req[r].reply, page.req[r].msgs)
    BY <1>4, <1>7, <2>2 DEF Formed
  <2>4. PICK x : Spare(p, x)
    BY <1>4, <2>2, RoomIs
  <2>5. Echoes(p.req[r].reply, p.req[r].msgs) /\ W(p, r) /\ ~p.threw /\ ~Busy(p.req[r]) /\ Untold(p, r)
    BY <1>1, <1>4, <2>2, <2>3
  <2>6. B(p, r, {}, asked)
    BY <1>3, <1>4, <2>2 DEF B
  <2>7. W(q, 0) /\ B(q, 0, {}, asked)
    BY <2>4, <2>5, <2>6, AskedIs, WHandleResponse, AHandleResponse
  <2> HIDE DEF q
  <2> QED
    BY <1>5, <2>1, <2>7, TracedTurn
<1>8. CASE page.req[r].xhr = "garbled" /\ Turn([Because(Over(r), "garbled") EXCEPT !.lost = @ \cup Published(page.req[r].msgs)])
  <2> DEFINE msgs == page.req[r].msgs
             q == Forgotten(p, msgs)
  <2>1. Turn(q)
    BY <1>2, <1>8 DEF Forgotten
  <2>2. Out(page, r) /\ page.req[r].xhr # "none"
    BY <1>8 DEF Out
  <2>3. p \in PageRec /\ msgs \in Seq(Msg) /\ W(p, r) /\ p.req[r].msgs = msgs
    BY <1>1, <1>4, <2>2, WType DEF PageRec, Request
  <2> HIDE DEF msgs
  <2>4. q \in PageRec /\ Wires(p, q) /\ q.why = p.why \cup {"garbled"} /\ q.queue = p.queue /\ q.told = p.told
        /\ q.lost = p.lost \cup Published(msgs)
    BY <2>3, ForgottenIs
  <2> HIDE DEF q
  <2>5. W(q, r)
    BY <2>3, <2>4, WSame
  <2>6. ToSet(q.envelopes) \subseteq Slots /\ 0 \notin Slots /\ r # 0
    BY <2>4, Members, CometdAssumption DEF PageRec
  <2>7. W(q, 0)
    BY <2>4, <2>5, <2>6 DEF W
  <2>8. Trims(p, q)
    BY <2>4 DEF Trims, Wires
  <2>9. A(q, r, {}, asked, t)
    BY <1>4, <2>2, <2>8, ATrims
  <2>10. Published(q.req[r].msgs) \subseteq q.lost
    BY <2>3, <2>4 DEF Wires
  <2>11. A(q, 0, {}, asked, t)
    BY <2>6, <2>9, <2>10, ARelease
  <2>12. B(q, 0, {}, asked)
    BY <1>3, <1>4, <2>2, <2>4, <2>11 DEF B
  <2> QED
    BY <1>5, <2>1, <2>7, <2>12, TracedTurn
<1> QED
  BY <1>6, <1>7, <1>8 DEF Poll

LEMMA TracedWire ==
  ASSUME Wired, Traced, NEW r \in Slots, page.req[r].xhr = "open", NEW q, page' = q, asked' = asked,
         q.why = page.why, q.requests = page.requests, Words(page, q),
         q.req[r].msgs = page.req[r].msgs, q.req[r].xhr # "none", q.req[r].timer = page.req[r].timer,
         \A s \in Slots : s # r => q.req[s] = page.req[s]
  PROVE  Traced'
<1>1. PICK t \in {0, 1} : (t = 1 => "throws" \in page.why) /\ A(page, 0, {}, asked, t)
  BY DEF Traced, B
<1>2. \A s \in Slots : s # 0
  BY CometdAssumption
<1>3. Busy(q.req[r]) /\ Busy(page.req[r])
  BY DEF Busy
<1>4. ASSUME NEW m \in Messages, m \notin q.lost
      PROVE  Rests(page, 0, q, 0, m)
  BY <1>2, <1>3, <1>4 DEF Rests, Bears, Words
<1>5. ToSet(page.requests) \subseteq Slots
  BY WType, Members DEF Wired, PageRec
<1>6. Timed(q)
  BY <1>1, <1>3, <1>5 DEF A, Timed
<1>7. A(q, 0, {}, asked, t)
  BY <1>1, <1>4, <1>6, ARests
<1>8. B(q, 0, {}, asked)
  BY <1>1, <1>7 DEF B
<1> QED
  BY <1>8, TracedThen

LEMMA TracedAnswer ==
  ASSUME Wired, Traced, NEW r \in Slots, Answer(r)
  PROVE  Traced'
<1> DEFINE q == page'
<1>1. page \in PageRec
  BY WType DEF Wired
<1>2. page.req[r].xhr = "open" /\ asked' = asked
  BY AnswerArrives DEF Answer
<1>3. PICK reply : q = Answered(page, r, reply)
  BY AnswerArrives
<1> HIDE DEF q
<1>4. /\ q.why = page.why /\ q.requests = page.requests /\ Words(page, q)
      /\ q.req[r].msgs = page.req[r].msgs /\ q.req[r].xhr = "answered" /\ q.req[r].timer = page.req[r].timer
  BY <1>1, <1>3, ArrivedIs
<1>5. \A s \in Slots : s # r => q.req[s] = page.req[s]
  BY <1>1, <1>3, ArrivedIs
<1> QED
  BY <1>2, <1>4, <1>5, TracedWire DEF q

LEMMA TracedFault ==
  ASSUME Wired, Traced, NEW r \in Slots, Fault(r)
  PROVE  Traced'
<1> DEFINE q == page'
<1>1. page \in PageRec
  BY WType DEF Wired
<1>2. page.req[r].xhr = "open" /\ asked' = asked
  BY Zenon DEF Fault
<1>3. PICK x \in {"broken", "garbled"} : q = Faulty(page, r, x)
  BY Zenon DEF Fault, Faulty
<1> HIDE DEF q
<1>4. x \in Xhr /\ x # "none"
  BY <1>3 DEF Xhr, OnWire
<1>5. /\ q.why = page.why /\ q.requests = page.requests /\ Words(page, q)
      /\ q.req[r].msgs = page.req[r].msgs /\ q.req[r].xhr = x /\ q.req[r].timer = page.req[r].timer
  BY <1>1, <1>3, <1>4, FaultyIs
<1>6. \A s \in Slots : s # r => q.req[s] = page.req[s]
  BY <1>1, <1>3, <1>4, FaultyIs
<1> QED
  BY <1>2, <1>4, <1>5, <1>6, TracedWire DEF q

LEMMA TracedStays ==
  ASSUME Wired, Traced, page' = page \/ page' = [page EXCEPT !.breaks = TRUE], asked' = asked
  PROVE  Traced'
<1>1. page \in PageRec
  BY WType DEF Wired
<1> DEFINE q == page'
<1>2. Wires(page, q) /\ Words(page, q) /\ q.why = page.why
  BY <1>1 DEF PageRec, Wires, Words
<1> HIDE DEF q
<1>3. B(q, 0, {}, asked)
  BY <1>2, TrimsMoves, BTrims DEF Traced
<1> QED
  BY <1>3, TracedThen DEF q

LEMMA TracedInit ==
  ASSUME PageInit
  PROVE  Traced
<1>1. /\ page.queue = <<>> /\ page.requests = <<>> /\ page.lost = {} /\ asked = 0
      /\ page.told = [m \in Messages |-> 0] /\ page.req = [r \in Slots |-> NoRequest]
  BY DEF PageInit
<1>2. Published(page.queue) = {}
  BY <1>1, EmptySeq, PublishedIs
<1>3. \A m : \A r \in Slots : ~Bears(page, 0, r, m)
  BY <1>1, NoRequestIs, CometdAssumption DEF Bears
<1>4. ASSUME NEW m \in Messages
      PROVE  Place(page, 0, {}, asked, 0, m)
  <2>1. page.told[m] = 0 /\ m \in Nat /\ ~(m <= 0)
    BY <1>1, CometdAssumption DEF Messages
  <2> QED
    BY <1>1, <1>2, <1>3, <2>1 DEF Place
<1>5. Timed(page)
  BY <1>1, EmptyList DEF Timed
<1>6. A(page, 0, {}, asked, 0)
  BY <1>4, <1>5 DEF A
<1> QED
  BY <1>6 DEF Traced, B

LEMMA TracedNext ==
  ASSUME Wired, Traced, [PageNext]_pageVars
  PROVE  Traced'
<1>1. CASE UNCHANGED pageVars
  BY <1>1, TracedStays DEF pageVars
<1>2. CASE Room /\ Application
  BY <1>2, TracedAppHandshake, TracedAppDisconnect, TracedPublish, TracedStartBatch, TracedEndBatch DEF Application
<1>3. CASE Room /\ TimersFire
  <2>1. CASE Due
    BY <1>3, <2>1, TracedDue
  <2>2. ASSUME NEW r \in Slots, Poll(r) PROVE Traced'
    BY <1>3, <2>2, TracedPoll
  <2>3. ASSUME NEW r \in Slots, GivenUp(r) PROVE Traced'
    <3>1. Out(page, r) /\ Turn(HandleFailure(Over(r), r)) /\ asked' = asked
      BY <2>3 DEF GivenUp, Out
    <3> QED
      BY <1>3, <3>1, TracedFailure
  <2>4. ASSUME NEW r \in Slots, Expire(r) PROVE Traced'
    <3>1. Out(page, r) /\ Turn(HandleFailure(Over(r), r)) /\ asked' = asked
      BY <2>4 DEF Expire, Out
    <3> QED
      BY <1>3, <3>1, TracedFailure
  <2> QED
    BY <1>3, <2>1, <2>2, <2>3, <2>4 DEF TimersFire
<1>4. CASE BreakNext
  BY Zenon, <1>4, TracedStays DEF BreakNext
<1>5. CASE Forget
  BY Zenon, <1>5, TracedStays DEF Forget
<1>6. CASE \E r \in Slots : Answer(r) \/ Fault(r)
  BY <1>6, TracedAnswer, TracedFault
<1> QED
  BY <1>1, <1>2, <1>3, <1>4, <1>5, <1>6 DEF PageNext, Network

\* What has a place is accounted for.
LEMMA TracedShows ==
  ASSUME Wired, Traced
  PROVE  Accounted
<1>1. page \in PageRec /\ W(page, 0) /\ asked \in Nat /\ asked <= MaxMessages
  BY WType, AskedIs DEF Wired
<1>2. PICK t \in {0, 1} : (t = 1 => "throws" \in page.why) /\ A(page, 0, {}, asked, t)
  BY DEF Traced, B
<1>3. ASSUME NEW m \in 1..asked
      PROVE  \/ m \in Published(page.queue) \/ UnderWay("publish", m)
             \/ page.told[m] \in (IF "throws" \in page.why THEN {1, 2} ELSE {1}) \/ m \in page.lost
  <2>1. m \in Messages /\ m <= asked /\ page.told[m] \in Nat
    BY <1>1, <1>3, ToldIs, CometdAssumption DEF Messages
  <2>2. SUFFICES ASSUME m \notin page.lost, m \notin Published(page.queue)
                 PROVE  UnderWay("publish", m) \/ page.told[m] \in (IF "throws" \in page.why THEN {1, 2} ELSE {1})
    OBVIOUS
  <2>3. Place(page, 0, {}, asked, t, m)
    BY <1>2, <2>1, <2>2 DEF A
  <2>4. page.told[m] <= 1 + t /\ (page.told[m] # 0 \/ \E r \in Slots : Bears(page, 0, r, m))
    BY <2>1, <2>2, <2>3 DEF Place
  <2>5. CASE page.told[m] # 0
    <3>1. page.told[m] = 1 \/ (t = 1 /\ page.told[m] = 2)
      BY <2>1, <2>4, <2>5
    <3> QED
      BY <1>2, <3>1
  <2>6. ASSUME NEW r \in Slots, Bears(page, 0, r, m)
        PROVE  UnderWay("publish", m)
    <3> DEFINE msgs == page.req[r].msgs
    <3>1. Busy(page.req[r]) /\ m \in Published(msgs)
      BY <2>6, CometdAssumption DEF Bears
    <3>2. msgs \in Seq(Msg) /\ Formed(page.req[r])
      BY <1>1, <3>1 DEF W, PageRec, Request
    <3>3. Batch(msgs)
      <4>1. \A w : ~OneMeta(msgs, w)
        BY <3>1, <3>2, MetaNothing
      <4> QED
        BY <3>2, <4>1 DEF Formed
    <3>4. PICK i \in DOMAIN msgs : msgs[i].number = m
      BY <3>1 DEF Published
    <3>5. msgs[i].what = "publish"
      BY <3>3, <3>4 DEF Batch
    <3> QED
      BY <3>1, <3>4, <3>5 DEF UnderWay, CallsBack, Carries, Busy
  <2> QED
    BY <2>4, <2>5, <2>6
<1> QED
  BY <1>3 DEF Accounted

\* No published message is dropped without a word, but by the three ways named at Accounted,
\* and the application hears of none twice, but of one whose send has thrown: whatever is
\* answered, fails, expires, is aborted or given up, and in whatever order (_flushBatch(),
\* queueSend(), complete(), the failure and answer handlers, reset(), abort()).
THEOREM PageAccounts == PageSpec => []Accounted
<1>1. PageInit => Wired /\ Traced
  BY WiredInit, TracedInit
<1>2. Wired /\ Traced /\ [PageNext]_pageVars => Wired' /\ Traced'
  BY WiredNext, TracedNext
<1>3. Wired /\ Traced => Accounted
  BY TracedShows
<1> QED
  BY <1>1, <1>2, <1>3, PTL DEF PageSpec
=============================================================================
