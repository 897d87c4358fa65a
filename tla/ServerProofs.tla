---------------------------- MODULE ServerProofs ----------------------------
(***************************************************************************)
(* A server: its remote calls and its start.                               *)
(*                                                                         *)
(* First SocketRpc: three safety properties of the remote calls, for any   *)
(* number of nodes, callers, connections and workers and any sizes of the  *)
(* queues.                                                                 *)
(*                                                                         *)
(* Then Startup: services are initialised in order, one start at most      *)
(* creates the badge's definition unhindered, and what a server awards is  *)
(* stored, for any services and any number of starts.                      *)
(***************************************************************************)
EXTENDS SocketRpc, Startup, SequenceTheorems, FiniteSetTheorems, TLAPS

-----------------------------------------------------------------------------
(* Every call goes out by its client's one cached connection.              *)

\* What a call knows at each step: it has an object of its own to put, and
\* from then on the one in the map, which stays there.
CallerInv ==
  /\ pc \in [Requests -> {"call", "dial", "put", "check", "send", "sent", "failed"}]
  /\ conn \in [Requests -> Connections \cup {None}]
  /\ cached \in [Clients -> Connections \cup {None}]
  /\ \A r \in Requests :
       /\ pc[r] = "put" => conn[r] # None
       /\ pc[r] \in {"check", "send", "sent"} =>
            conn[r] # None /\ conn[r] = cached[From[r]]

LEMMA CallerInvInit == Init => CallerInv
BY DEF Init, CallerInv

LEMMA CallerInvStep ==
  ASSUME CallerInv, [Next]_vars
  PROVE  CallerInv'
<1> USE RpcAssumption DEF RpcAssumption, CallerInv, Goto
<1>1. ASSUME NEW r \in Requests, LookUp(r) PROVE CallerInv'
  BY <1>1 DEF LookUp, sockets
<1>2. ASSUME NEW r \in Requests, Dial(r) PROVE CallerInv'
  BY <1>2 DEF Dial
<1>3. ASSUME NEW r \in Requests, Put(r) PROVE CallerInv'
  <2>1. CASE cached[From[r]] = None
    BY <1>3, <2>1 DEF Put
  <2>2. CASE cached[From[r]] # None
    BY <1>3, <2>2 DEF Put
  <2>3. QED
    BY <2>1, <2>2
<1>4. ASSUME NEW r \in Requests, Check(r) PROVE CallerInv'
  BY <1>4 DEF Check, sockets
<1>5. ASSUME NEW r \in Requests, Send(r) PROVE CallerInv'
  BY <1>5 DEF Send
<1>6. ASSUME UNCHANGED <<pc, conn, cached>> PROVE CallerInv'
  BY <1>6
<1>7. ASSUME NEW c \in Clients, ReadReply(c) \/ WriteRequest(c) PROVE CallerInv'
  BY <1>6, <1>7 DEF ReadReply, WriteRequest, callers
<1>8. ASSUME Accept \/ ReadRequest \/ WriteReply PROVE CallerInv'
  BY <1>6, <1>8 DEF Accept, ReadRequest, WriteReply, callers, sockets
<1>9. ASSUME Scheduler PROVE CallerInv'
  BY <1>6, <1>9 DEF Scheduler, Acquire, Drain, Offer, Notify, callers, sockets
<1>10. ASSUME NEW w \in Workers, Worker(w) PROVE CallerInv'
  BY <1>6, <1>10 DEF Worker, Poll, Process, Park, callers, sockets
<1>11. CASE UNCHANGED vars
  BY <1>6, <1>11 DEF vars, callers, sockets
<1>12. QED
  BY <1>1, <1>2, <1>3, <1>4, <1>5, <1>7, <1>8, <1>9, <1>10, <1>11 DEF Next, Caller

\* However many callers of a client race to build its first connection, they
\* all come to use the one that putIfAbsent() kept.
THEOREM CallersShareTheConnection == Spec => []OneConnection
<1>1. CallerInv => OneConnection
  BY DEF CallerInv, OneConnection
<1>2. QED
  BY CallerInvInit, CallerInvStep, <1>1, PTL DEF Spec

-----------------------------------------------------------------------------
(* An answer comes from the server.                                        *)

\* Whatever travels back has been through onRequest().
ReplyInv ==
  /\ answered \subseteq served
  /\ mailbox \in [Connections -> Seq(served)]
  /\ toClient \in [Connections -> Seq(served)]

LEMMA ReplyInvInit == Init => ReplyInv
BY DEF Init, ReplyInv

LEMMA ReplyInvStep ==
  ASSUME ReplyInv, [Next]_vars
  PROVE  ReplyInv'
<1> USE DEF ReplyInv
<1>1. ASSUME UNCHANGED <<answered, mailbox, toClient, served>> PROVE ReplyInv'
  BY <1>1
<1>2. ASSUME NEW r \in Requests, Caller(r) PROVE ReplyInv'
  BY <1>1, <1>2 DEF Caller, LookUp, Dial, Put, Check, Send, wires, server, history
<1>3. ASSUME NEW c \in Clients, ReadReply(c) PROVE ReplyInv'
  <2>1. PICK k \in Connections :
          /\ toClient[k] # <<>>
          /\ toClient' = [toClient EXCEPT ![k] = Tail(@)]
          /\ answered' \in {answered, answered \cup {Head(toClient[k])}}
          /\ UNCHANGED <<mailbox, served>>
    BY <1>3 DEF ReadReply, server
  <2>2. Head(toClient[k]) \in served /\ Tail(toClient[k]) \in Seq(served)
    BY <2>1
  <2>3. QED
    BY <2>1, <2>2
<1>4. ASSUME NEW c \in Clients, WriteRequest(c) PROVE ReplyInv'
  BY <1>1, <1>4 DEF WriteRequest, callers, server, history
<1>5. ASSUME Accept \/ ReadRequest PROVE ReplyInv'
  BY <1>1, <1>5 DEF Accept, ReadRequest, callers, wires, history
<1>6. ASSUME WriteReply PROVE ReplyInv'
  <2>1. PICK k \in handlers :
          /\ mailbox[k] # <<>>
          /\ mailbox' = [mailbox EXCEPT ![k] = Tail(@)]
          /\ toClient' = [toClient EXCEPT ![k] = Append(@, Head(mailbox[k]))]
          /\ UNCHANGED <<answered, served>>
    BY <1>6 DEF WriteReply, callers, history
  <2>2. CASE k \in Connections
    <3>1. Head(mailbox[k]) \in served /\ Tail(mailbox[k]) \in Seq(served)
      BY <2>1, <2>2
    <3>2. Append(toClient[k], Head(mailbox[k])) \in Seq(served)
      BY <2>2, <3>1
    <3>3. QED
      BY <2>1, <2>2, <3>1, <3>2
  <2>3. CASE k \notin Connections
    BY <2>1, <2>3
  <2>4. QED
    BY <2>2, <2>3
<1>7. ASSUME Scheduler PROVE ReplyInv'
  BY <1>1, <1>7 DEF Scheduler, Acquire, Drain, Offer, Notify, callers, wires, server, history
<1>8. ASSUME NEW w \in Workers, Process(w) PROVE ReplyInv'
  <2> DEFINE k == hand[w][1][1]
             r == hand[w][1][2]
  <2>1. /\ \/ mailbox' = [mailbox EXCEPT ![k] = Append(@, r)] /\ served' = served \cup {r}
           \/ mailbox' = mailbox /\ served' = served
        /\ UNCHANGED <<answered, toClient>>
    BY <1>8 DEF Process, callers, wires
  <2> HIDE DEF k, r
  <2>2. served \subseteq served'
    BY <2>1
  <2>3. Seq(served) \subseteq Seq(served')
    BY <2>2
  <2>4. CASE mailbox' = mailbox
    BY <2>1, <2>2, <2>3, <2>4
  <2>5. CASE mailbox' = [mailbox EXCEPT ![k] = Append(@, r)] /\ served' = served \cup {r}
    <3>1. ASSUME k \in Connections PROVE Append(mailbox[k], r) \in Seq(served')
      <4>1. mailbox[k] \in Seq(served') /\ r \in served'
        BY <2>3, <2>5, <3>1
      <4>2. QED
        BY <4>1
    <3>2. mailbox' \in [Connections -> Seq(served')]
      BY <2>3, <2>5, <3>1
    <3>3. QED
      BY <2>1, <2>2, <2>3, <3>2
  <2>6. QED
    BY <2>1, <2>4, <2>5
<1>9. ASSUME NEW w \in Workers, Poll(w) \/ Park(w) PROVE ReplyInv'
  BY <1>1, <1>9 DEF Poll, Park, callers, wires, server, history
<1>10. CASE UNCHANGED vars
  BY <1>1, <1>10 DEF vars, callers, wires, server, history
<1>11. QED
  BY <1>2, <1>3, <1>4, <1>5, <1>6, <1>7, <1>8, <1>9, <1>10 DEF Next, Worker

\* A caller's future is set only with what the server's onRequest() answered.
THEOREM AnswersComeFromTheServer == Spec => []AnswersAreServed
<1>1. ReplyInv => AnswersAreServed
  BY DEF ReplyInv, AnswersAreServed
<1>2. QED
  BY ReplyInvInit, ReplyInvStep, <1>1, PTL DEF Spec

-----------------------------------------------------------------------------
(* One copy of each message.                                               *)

\* The message of a call that was sent is at one place, those of others at none.
OnePlace == \A r \in Requests :
  IF pc[r] = "sent" THEN \E p \in Places : \A o \in Places : r \in At(o) <=> o = p
                    ELSE \A o \in Places : r \notin At(o)

\* The scheduler has a batch while it offers it, a worker has a request in its
\* hand while it is busy, and nothing is lost when the one or the other is reset.
Hands ==
  /\ task \in [step : {"rest", "drain", "offer", "notify"}, worker : Workers \cup {None}, batch : Seq(Pairs)]
  /\ task.step # "rest" => task.worker \in Workers
  /\ task.step # "offer" => task.batch = <<>>
  /\ \A w \in Workers : IF wpc[w] = "busy" THEN hand[w] # <<>> /\ Tail(hand[w]) = <<>> ELSE hand[w] = <<>>

Copied  == TypeOK /\ IsFiniteSet(handlers) /\ NoneTwice /\ Hands /\ OnePlace
CopyInv == CallerInv /\ Copied

\* Queues of requests.
LEMMA NoCalls == Calls(<<>>) = {} /\ CallsOf(<<>>) = {} /\ Once(<<>>) /\ OnceOf(<<>>)
BY DEF Calls, CallsOf, Once, OnceOf

LEMMA CallsAppended ==
  ASSUME NEW s \in Seq(Requests), NEW r \in Requests
  PROVE  /\ Append(s, r) \in Seq(Requests)
         /\ Calls(Append(s, r)) = Calls(s) \cup {r}
         /\ Once(s) /\ r \notin Calls(s) => Once(Append(s, r))
<1>1. /\ Append(s, r) \in Seq(Requests) /\ DOMAIN Append(s, r) = 1..Len(s) + 1 /\ DOMAIN s = 1..Len(s)
      /\ Len(s) \in Nat
      /\ \A i \in 1..Len(s) : Append(s, r)[i] = s[i]
      /\ Append(s, r)[Len(s) + 1] = r
  BY AppendProperties, LenProperties
<1>2. Calls(Append(s, r)) = Calls(s) \cup {r}
  BY <1>1 DEF Calls
<1>3. Once(s) /\ r \notin Calls(s) => Once(Append(s, r))
  BY <1>1 DEF Calls, Once
<1>4. QED
  BY <1>1, <1>2, <1>3

LEMMA CallsTaken ==
  ASSUME NEW s \in Seq(Requests), s # <<>>, Once(s)
  PROVE  /\ Head(s) \in Requests /\ Head(s) \in Calls(s)
         /\ Tail(s) \in Seq(Requests) /\ Once(Tail(s))
         /\ Calls(Tail(s)) = Calls(s) \ {Head(s)}
<1>1. /\ DOMAIN s = 1..Len(s) /\ Len(s) \in Nat \ {0} /\ Head(s) = s[1] /\ Head(s) \in Requests
      /\ Tail(s) \in Seq(Requests) /\ DOMAIN Tail(s) = 1..Len(s) - 1
      /\ \A i \in 1..Len(s) - 1 : Tail(s)[i] = s[i + 1]
  BY HeadTailProperties, LenProperties, EmptySeq
<1>2. Once(Tail(s))
  BY <1>1 DEF Once
<1>3. Head(s) \in Calls(s) /\ \A x \in Calls(Tail(s)) : x \in Calls(s) /\ x # Head(s)
  BY <1>1 DEF Calls, Once
<1>4. \A x \in Calls(s) : x # Head(s) => x \in Calls(Tail(s))
  <2> SUFFICES ASSUME NEW i \in DOMAIN s, s[i] # Head(s)
               PROVE  s[i] \in Calls(Tail(s))
    BY DEF Calls
  <2>1. i # 1 /\ i - 1 \in 1..Len(s) - 1
    BY <1>1
  <2>2. Tail(s)[i - 1] = s[i]
    BY <1>1, <2>1
  <2>3. QED
    BY <1>1, <2>1, <2>2 DEF Calls
<1>5. QED
  BY <1>1, <1>2, <1>3, <1>4

\* Queues of pairs.
LEMMA PairsAppended ==
  ASSUME NEW s \in Seq(Pairs), NEW x \in Pairs
  PROVE  /\ Append(s, x) \in Seq(Pairs)
         /\ CallsOf(Append(s, x)) = CallsOf(s) \cup {x[2]}
         /\ OnceOf(s) /\ x[2] \notin CallsOf(s) => OnceOf(Append(s, x))
<1>1. /\ Append(s, x) \in Seq(Pairs) /\ DOMAIN Append(s, x) = 1..Len(s) + 1 /\ DOMAIN s = 1..Len(s)
      /\ Len(s) \in Nat
      /\ \A i \in 1..Len(s) : Append(s, x)[i] = s[i]
      /\ Append(s, x)[Len(s) + 1] = x
  BY AppendProperties, LenProperties
<1>2. CallsOf(Append(s, x)) = CallsOf(s) \cup {x[2]}
  BY <1>1 DEF CallsOf
<1>3. OnceOf(s) /\ x[2] \notin CallsOf(s) => OnceOf(Append(s, x))
  BY <1>1 DEF CallsOf, OnceOf
<1>4. QED
  BY <1>1, <1>2, <1>3

\* The first of them and the rest: what drainTo() takes and what it leaves.
LEMMA PairsDrained ==
  ASSUME NEW s \in Seq(Pairs), NEW n \in 0..Len(s), OnceOf(s)
  PROVE  LET a == SubSeq(s, 1, n)
             b == SubSeq(s, n + 1, Len(s))
         IN  /\ a \in Seq(Pairs) /\ OnceOf(a) /\ Len(a) = n
             /\ b \in Seq(Pairs) /\ OnceOf(b) /\ Len(b) = Len(s) - n
             /\ CallsOf(s) = CallsOf(a) \cup CallsOf(b) /\ CallsOf(a) \cap CallsOf(b) = {}
<1> DEFINE a == SubSeq(s, 1, n)
           b == SubSeq(s, n + 1, Len(s))
<1>1. Len(s) \in Nat /\ DOMAIN s = 1..Len(s) /\ \A i \in 1..Len(s) : s[i] \in Pairs
  BY LenProperties, ElementOfSeq
<1>2. a \in Seq(Pairs) /\ DOMAIN a = 1..n /\ Len(a) = n /\ \A i \in 1..n : a[i] = s[i]
  <2>1. /\ a \in Seq(Pairs) /\ Len(a) = (IF 1 <= n THEN n - 1 + 1 ELSE 0)
        /\ \A i \in 1..n - 1 + 1 : a[i] = s[1 + i - 1]
    BY <1>1, SubSeqProperties
  <2>2. QED
    BY <1>1, <2>1, LenProperties
<1>3. /\ b \in Seq(Pairs) /\ DOMAIN b = 1..Len(s) - n /\ Len(b) = Len(s) - n
      /\ \A i \in 1..Len(s) - n : b[i] = s[n + i]
  <2>1. /\ b \in Seq(Pairs) /\ Len(b) = (IF n + 1 <= Len(s) THEN Len(s) - (n + 1) + 1 ELSE 0)
        /\ \A i \in 1..Len(s) - (n + 1) + 1 : b[i] = s[n + 1 + i - 1]
    BY <1>1, SubSeqProperties
  <2> HIDE DEF b
  <2>2. Len(b) = Len(s) - n
    <3>1. n \in Nat /\ n <= Len(s)
      BY <1>1
    <3>2. CASE n + 1 <= Len(s)
      BY <1>1, <2>1, <3>1, <3>2
    <3>3. CASE n = Len(s)
      <4>1. ~(n + 1 <= Len(s)) /\ Len(s) - n = 0
        BY <1>1, <3>3
      <4>2. QED
        BY <2>1, <4>1
    <3>4. n + 1 <= Len(s) \/ n = Len(s)
      <4>1. \A k, m \in Nat : k <= m => k + 1 <= m \/ k = m
        OBVIOUS
      <4>2. QED
        BY <1>1, <3>1, <4>1
    <3>5. QED
      BY <3>2, <3>3, <3>4
  <2>3. DOMAIN b = 1..Len(s) - n
    BY <2>1, <2>2, LenProperties
  <2>4. ASSUME NEW i \in 1..Len(s) - n PROVE b[i] = s[n + i]
    <3>1. i \in 1..Len(s) - (n + 1) + 1 /\ n + 1 + i - 1 = n + i
      BY <1>1
    <3>2. QED
      BY <2>1, <3>1
  <2>5. QED
    BY <2>1, <2>2, <2>3, <2>4
<1> HIDE DEF a, b
<1>4. OnceOf(a)
  BY <1>1, <1>2 DEF OnceOf
<1>5. OnceOf(b)
  <2> SUFFICES ASSUME NEW i \in 1..Len(s) - n, NEW j \in 1..Len(s) - n, b[i][2] = b[j][2]
               PROVE  i = j
    BY <1>3 DEF OnceOf
  <2>1. n + i \in DOMAIN s /\ n + j \in DOMAIN s /\ s[n + i][2] = s[n + j][2]
    BY <1>1, <1>3
  <2>2. n + i = n + j
    BY <2>1 DEF OnceOf
  <2>3. QED
    BY <1>1, <2>2
<1>6. CallsOf(a) \cap CallsOf(b) = {}
  <2> SUFFICES ASSUME NEW i \in 1..n, NEW j \in 1..Len(s) - n, a[i][2] = b[j][2]
               PROVE  FALSE
    BY <1>2, <1>3 DEF CallsOf
  <2>1. i \in DOMAIN s /\ n + j \in DOMAIN s /\ s[i][2] = s[n + j][2] /\ i # n + j
    BY <1>1, <1>2, <1>3
  <2>2. QED
    BY <2>1 DEF OnceOf
<1>7. CallsOf(a) \subseteq CallsOf(s) /\ CallsOf(b) \subseteq CallsOf(s)
  <2>1. \A i \in 1..n : i \in DOMAIN s /\ a[i] = s[i]
    BY <1>1, <1>2
  <2>2. \A i \in 1..Len(s) - n : n + i \in DOMAIN s /\ b[i] = s[n + i]
    BY <1>1, <1>3
  <2>3. CallsOf(a) \subseteq CallsOf(s)
    BY <1>2, <2>1 DEF CallsOf
  <2>4. CallsOf(b) \subseteq CallsOf(s)
    <3>1. ASSUME NEW x \in CallsOf(b) PROVE x \in CallsOf(s)
      <4>1. PICK i \in 1..Len(s) - n : x = b[i][2]
        BY <1>3 DEF CallsOf
      <4>2. QED
        BY <2>2, <4>1 DEF CallsOf
    <3>2. QED
      BY <3>1
  <2>5. QED
    BY <2>3, <2>4
<1>8. CallsOf(s) \subseteq CallsOf(a) \cup CallsOf(b)
  <2> SUFFICES ASSUME NEW i \in 1..Len(s)
               PROVE  s[i][2] \in CallsOf(a) \/ s[i][2] \in CallsOf(b)
    BY <1>1 DEF CallsOf
  <2>1. CASE i <= n
    BY <1>2, <2>1 DEF CallsOf
  <2>2. CASE i > n
    <3>1. i - n \in 1..Len(s) - n /\ n + (i - n) = i
      BY <1>1, <2>2
    <3>2. b[i - n] = s[n + (i - n)]
      BY <1>3, <3>1
    <3>3. QED
      BY <1>3, <3>1, <3>2 DEF CallsOf
  <2>3. QED
    BY <1>1, <2>1, <2>2
<1>9. QED
  BY <1>2, <1>3, <1>4, <1>5, <1>6, <1>7, <1>8 DEF a, b

LEMMA PairsTaken ==
  ASSUME NEW s \in Seq(Pairs), s # <<>>, OnceOf(s)
  PROVE  /\ Head(s) \in Pairs /\ Head(s)[2] \in Requests /\ Head(s)[2] \in CallsOf(s)
         /\ Tail(s) \in Seq(Pairs) /\ OnceOf(Tail(s))
         /\ CallsOf(Tail(s)) = CallsOf(s) \ {Head(s)[2]}
         /\ CallsOf(<<Head(s)>>) = {Head(s)[2]} /\ OnceOf(<<Head(s)>>) /\ <<Head(s)>> \in Seq(Pairs)
<1>1. /\ DOMAIN s = 1..Len(s) /\ Len(s) \in Nat \ {0} /\ Head(s) = s[1] /\ Head(s) \in Pairs
      /\ Tail(s) \in Seq(Pairs) /\ DOMAIN Tail(s) = 1..Len(s) - 1
      /\ \A i \in 1..Len(s) - 1 : Tail(s)[i] = s[i + 1]
  BY HeadTailProperties, LenProperties, EmptySeq
<1>2. OnceOf(Tail(s))
  BY <1>1 DEF OnceOf
<1>3. Head(s)[2] \in CallsOf(s) /\ \A x \in CallsOf(Tail(s)) : x \in CallsOf(s) /\ x # Head(s)[2]
  BY <1>1 DEF CallsOf, OnceOf
<1>4. \A x \in CallsOf(s) : x # Head(s)[2] => x \in CallsOf(Tail(s))
  <2> SUFFICES ASSUME NEW i \in DOMAIN s, s[i][2] # Head(s)[2]
               PROVE  s[i][2] \in CallsOf(Tail(s))
    BY DEF CallsOf
  <2>1. i # 1 /\ i - 1 \in 1..Len(s) - 1
    BY <1>1
  <2>2. Tail(s)[i - 1] = s[i]
    BY <1>1, <2>1
  <2>3. QED
    BY <1>1, <2>1, <2>2 DEF CallsOf
<1>5. CallsOf(<<Head(s)>>) = {Head(s)[2]} /\ OnceOf(<<Head(s)>>) /\ <<Head(s)>> \in Seq(Pairs)
  BY <1>1 DEF CallsOf, OnceOf
<1>6. QED
  BY <1>1, <1>2, <1>3, <1>4, <1>5 DEF Pairs

\* The places, and which part of the state each stands for.
LEMMA PlaceKinds ==
  ASSUME NEW o \in Places
  PROVE  /\ o = <<o[1], o[2]>>
         /\ \/ o[1] \in {"requests", "toServer", "mailbox", "toClient"} /\ o[2] \in Connections
            \/ o[1] \in {"work", "hand"} /\ o[2] \in Workers
            \/ o[1] \in {"queue", "batch", "answered", "dropped"} /\ o[2] = None
BY DEF Places

LEMMA PlacesAre ==
  /\ \A k \in Connections : {<<"requests", k>>, <<"toServer", k>>, <<"mailbox", k>>, <<"toClient", k>>} \subseteq Places
  /\ \A w \in Workers : {<<"work", w>>, <<"hand", w>>} \subseteq Places
  /\ {<<"queue", None>>, <<"batch", None>>, <<"answered", None>>, <<"dropped", None>>} \subseteq Places
BY DEF Places

LEMMA Contents ==
  /\ \A k \in Connections :
       /\ At(<<"requests", k>>) = Calls(requests[k]) /\ At(<<"toServer", k>>) = Calls(toServer[k])
       /\ At(<<"mailbox", k>>) = Calls(mailbox[k]) /\ At(<<"toClient", k>>) = Calls(toClient[k])
  /\ \A w \in Workers : At(<<"work", w>>) = CallsOf(work[w]) /\ At(<<"hand", w>>) = CallsOf(hand[w])
  /\ At(<<"queue", None>>) = CallsOf(queue) /\ At(<<"batch", None>>) = CallsOf(task.batch)
  /\ At(<<"answered", None>>) = answered /\ At(<<"dropped", None>>) = dropped
BY DEF At

LEMMA ContentsNext ==
  /\ \A k \in Connections :
       /\ At(<<"requests", k>>)' = Calls(requests'[k]) /\ At(<<"toServer", k>>)' = Calls(toServer'[k])
       /\ At(<<"mailbox", k>>)' = Calls(mailbox'[k]) /\ At(<<"toClient", k>>)' = Calls(toClient'[k])
  /\ \A w \in Workers : At(<<"work", w>>)' = CallsOf(work'[w]) /\ At(<<"hand", w>>)' = CallsOf(hand'[w])
  /\ At(<<"queue", None>>)' = CallsOf(queue') /\ At(<<"batch", None>>)' = CallsOf(task'.batch)
  /\ At(<<"answered", None>>)' = answered' /\ At(<<"dropped", None>>)' = dropped'
BY DEF At, Calls, CallsOf

LEMMA Unmoved ==
  ASSUME NEW o \in Places,
         o[1] = "requests" => requests'[o[2]] = requests[o[2]],
         o[1] = "toServer" => toServer'[o[2]] = toServer[o[2]],
         o[1] = "mailbox" => mailbox'[o[2]] = mailbox[o[2]],
         o[1] = "toClient" => toClient'[o[2]] = toClient[o[2]],
         o[1] = "work" => work'[o[2]] = work[o[2]],
         o[1] = "hand" => hand'[o[2]] = hand[o[2]],
         o[1] = "queue" => queue' = queue,
         o[1] = "batch" => task'.batch = task.batch,
         o[1] = "answered" => answered' = answered,
         o[1] = "dropped" => dropped' = dropped
  PROVE  At(o)' = At(o)
<1>1. CASE o[1] = "requests"
  BY <1>1 DEF At, Calls, CallsOf
<1>2. CASE o[1] = "toServer"
  BY <1>2 DEF At, Calls, CallsOf
<1>3. CASE o[1] = "mailbox"
  BY <1>3 DEF At, Calls, CallsOf
<1>4. CASE o[1] = "toClient"
  BY <1>4 DEF At, Calls, CallsOf
<1>5. CASE o[1] = "work"
  BY <1>5 DEF At, Calls, CallsOf
<1>6. CASE o[1] = "hand"
  BY <1>6 DEF At, Calls, CallsOf
<1>7. CASE o[1] = "queue"
  BY <1>7 DEF At, Calls, CallsOf
<1>8. CASE o[1] = "batch"
  BY <1>8 DEF At, Calls, CallsOf
<1>9. CASE o[1] = "answered"
  BY <1>9 DEF At, Calls, CallsOf
<1>10. CASE o[1] = "dropped"
  BY <1>10 DEF At, Calls, CallsOf
<1>11. QED
  BY <1>1, <1>2, <1>3, <1>4, <1>5, <1>6, <1>7, <1>8, <1>9, <1>10, PlaceKinds

\* A message goes from one place to another.
LEMMA Moves ==
  ASSUME OnePlace, NEW p \in Places, NEW q \in Places, p # q, NEW r \in Requests, r \in At(p),
         At(p)' = At(p) \ {r}, At(q)' = At(q) \cup {r},
         \A o \in Places \ {p, q} : At(o)' = At(o), pc' = pc
  PROVE  OnePlace'
<1> SUFFICES ASSUME NEW s \in Requests
             PROVE  IF pc[s] = "sent" THEN \E n \in Places : \A o \in Places : s \in At(o)' <=> o = n
                                      ELSE \A o \in Places : s \notin At(o)'
  BY DEF OnePlace
<1>1. CASE s = r
  <2>1. pc[r] = "sent" /\ \A o \in Places : r \in At(o) <=> o = p
    BY DEF OnePlace
  <2>2. \A o \in Places : r \in At(o)' <=> o = q
    BY <2>1
  <2>3. QED
    BY <1>1, <2>1, <2>2
<1>2. CASE s # r
  <2>1. \A o \in Places : s \in At(o)' <=> s \in At(o)
    BY <1>2
  <2>2. QED
    BY <2>1 DEF OnePlace
<1>3. QED
  BY <1>1, <1>2

LEMMA Elsewhere ==
  ASSUME OnePlace, NEW p \in Places, NEW q \in Places, p # q, NEW r \in Requests, r \in At(p)
  PROVE  r \notin At(q)
BY DEF OnePlace

-----------------------------------------------------------------------------
(* The steps that move a message.                                          *)

LEMMA WritesRequest ==
  ASSUME CopyInv, NEW c \in Clients, WriteRequest(c)
  PROVE  Copied'
<1>1. PICK k \in Connections :
        /\ requests[k] # <<>>
        /\ requests' = [requests EXCEPT ![k] = Tail(@)]
        /\ toServer' = [toServer EXCEPT ![k] = Append(@, Head(requests[k]))]
        /\ UNCHANGED <<callers, cached, socket, replyRead, toClient, server, pool, history>>
  BY DEF WriteRequest
<1> DEFINE r == Head(requests[k])
           p == <<"requests", k>>
           q == <<"toServer", k>>
<1>2. /\ requests \in [Connections -> Seq(Requests)] /\ toServer \in [Connections -> Seq(Requests)]
      /\ Once(requests[k]) /\ Once(toServer[k])
  BY DEF CopyInv, Copied, TypeOK, NoneTwice
<1>3. /\ r \in Requests /\ r \in Calls(requests[k]) /\ Tail(requests[k]) \in Seq(Requests)
      /\ Once(Tail(requests[k])) /\ Calls(Tail(requests[k])) = Calls(requests[k]) \ {r}
  BY <1>1, <1>2, CallsTaken
<1>4. p \in Places /\ q \in Places /\ p # q /\ r \in At(p) /\ r \notin Calls(toServer[k])
  <2>1. p \in Places /\ q \in Places /\ p # q
    BY PlacesAre
  <2>2. r \in At(p) /\ At(q) = Calls(toServer[k])
    BY <1>3, Contents
  <2>3. QED
    BY <1>3, <2>1, <2>2, Elsewhere DEF CopyInv, Copied
<1>5. LET t == Append(toServer[k], r)
      IN  t \in Seq(Requests) /\ Once(t) /\ Calls(t) = Calls(toServer[k]) \cup {r}
  BY <1>2, <1>3, <1>4, CallsAppended
<1>6. /\ requests'[k] = Tail(requests[k]) /\ toServer'[k] = Append(toServer[k], r)
      /\ \A j \in Connections \ {k} : requests'[j] = requests[j] /\ toServer'[j] = toServer[j]
      /\ requests' \in [Connections -> Seq(Requests)] /\ toServer' \in [Connections -> Seq(Requests)]
  BY <1>1, <1>2, <1>3, <1>5
<1> HIDE DEF r
<1>7. At(p)' = At(p) \ {r} /\ At(q)' = At(q) \cup {r}
  BY <1>3, <1>5, <1>6, Contents, ContentsNext
<1>8. ASSUME NEW o \in Places \ {p, q} PROVE At(o)' = At(o)
  BY <1>1, <1>6, Unmoved, PlaceKinds DEF callers, server, pool, history
<1>9. OnePlace'
  BY <1>1, <1>3, <1>4, <1>7, <1>8, Moves DEF CopyInv, Copied, callers
<1>10. NoneTwice'
  BY <1>1, <1>3, <1>5, <1>6 DEF CopyInv, Copied, NoneTwice, server, pool
<1>11. Hands' /\ IsFiniteSet(handlers)'
  BY <1>1 DEF CopyInv, Copied, Hands, server, pool
<1>12. TypeOK'
  BY <1>1, <1>6 DEF CopyInv, Copied, TypeOK, callers, server, pool, history
<1>13. QED
  BY <1>9, <1>10, <1>11, <1>12 DEF Copied

LEMMA WritesReply ==
  ASSUME CopyInv, WriteReply
  PROVE  Copied'
<1>1. PICK k \in handlers :
        /\ mailbox[k] # <<>>
        /\ mailbox' = [mailbox EXCEPT ![k] = Tail(@)]
        /\ toClient' = [toClient EXCEPT ![k] = Append(@, Head(mailbox[k]))]
        /\ UNCHANGED <<callers, sockets, toServer, handlers, backlog, requestRead, pool, history>>
  BY DEF WriteReply
<1> DEFINE r == Head(mailbox[k])
           p == <<"mailbox", k>>
           q == <<"toClient", k>>
<1>2. /\ mailbox \in [Connections -> Seq(Requests)] /\ toClient \in [Connections -> Seq(Requests)]
      /\ k \in Connections /\ Once(mailbox[k]) /\ Once(toClient[k])
  BY DEF CopyInv, Copied, TypeOK, NoneTwice
<1>3. /\ r \in Requests /\ r \in Calls(mailbox[k]) /\ Tail(mailbox[k]) \in Seq(Requests)
      /\ Once(Tail(mailbox[k])) /\ Calls(Tail(mailbox[k])) = Calls(mailbox[k]) \ {r}
  BY <1>1, <1>2, CallsTaken
<1>4. p \in Places /\ q \in Places /\ p # q /\ r \in At(p) /\ r \notin Calls(toClient[k])
  <2>1. p \in Places /\ q \in Places /\ p # q
    BY <1>2, PlacesAre
  <2>2. r \in At(p) /\ At(q) = Calls(toClient[k])
    BY <1>2, <1>3, Contents
  <2>3. QED
    BY <1>3, <2>1, <2>2, Elsewhere DEF CopyInv, Copied
<1>5. LET t == Append(toClient[k], r)
      IN  t \in Seq(Requests) /\ Once(t) /\ Calls(t) = Calls(toClient[k]) \cup {r}
  BY <1>2, <1>3, <1>4, CallsAppended
<1>6. /\ mailbox'[k] = Tail(mailbox[k]) /\ toClient'[k] = Append(toClient[k], r)
      /\ \A j \in Connections \ {k} : mailbox'[j] = mailbox[j] /\ toClient'[j] = toClient[j]
      /\ mailbox' \in [Connections -> Seq(Requests)] /\ toClient' \in [Connections -> Seq(Requests)]
  BY <1>1, <1>2, <1>3, <1>5
<1> HIDE DEF r
<1>7. At(p)' = At(p) \ {r} /\ At(q)' = At(q) \cup {r}
  BY <1>2, <1>3, <1>5, <1>6, Contents, ContentsNext
<1>8. ASSUME NEW o \in Places \ {p, q} PROVE At(o)' = At(o)
  BY <1>1, <1>6, Unmoved, PlaceKinds DEF callers, sockets, pool, history
<1>9. OnePlace'
  BY <1>1, <1>3, <1>4, <1>7, <1>8, Moves DEF CopyInv, Copied, callers
<1>10. NoneTwice'
  BY <1>1, <1>3, <1>5, <1>6 DEF CopyInv, Copied, NoneTwice, sockets, pool
<1>11. Hands' /\ IsFiniteSet(handlers)'
  BY <1>1 DEF CopyInv, Copied, Hands, pool
<1>12. TypeOK'
  BY <1>1, <1>6 DEF CopyInv, Copied, TypeOK, callers, sockets, pool, history
<1>13. QED
  BY <1>9, <1>10, <1>11, <1>12 DEF Copied

LEMMA ReadsReply ==
  ASSUME CopyInv, NEW c \in Clients, ReadReply(c)
  PROVE  Copied'
<1>1. PICK k \in Connections :
        /\ toClient[k] # <<>>
        /\ replyRead' = [replyRead EXCEPT ![k] = TRUE]
        /\ toClient' = [toClient EXCEPT ![k] = Tail(@)]
        /\ \/ answered' = answered \cup {Head(toClient[k])} /\ dropped' = dropped
           \/ dropped' = dropped \cup {Head(toClient[k])} /\ answered' = answered
        /\ UNCHANGED <<pc, conn, cached, socket, requests, toServer, server, pool, served>>
  BY DEF ReadReply
<1> DEFINE r == Head(toClient[k])
           p == <<"toClient", k>>
<1>2. toClient \in [Connections -> Seq(Requests)] /\ Once(toClient[k])
  BY DEF CopyInv, Copied, TypeOK, NoneTwice
<1>3. /\ r \in Requests /\ r \in Calls(toClient[k]) /\ Tail(toClient[k]) \in Seq(Requests)
      /\ Once(Tail(toClient[k])) /\ Calls(Tail(toClient[k])) = Calls(toClient[k]) \ {r}
  BY <1>1, <1>2, CallsTaken
<1>4. p \in Places /\ r \in At(p)
  BY <1>3, PlacesAre, Contents
<1>5. /\ toClient'[k] = Tail(toClient[k]) /\ toClient' \in [Connections -> Seq(Requests)]
      /\ \A j \in Connections \ {k} : toClient'[j] = toClient[j]
  BY <1>1, <1>2, <1>3
<1> HIDE DEF r
<1>6. At(p)' = At(p) \ {r}
  BY <1>3, <1>5, Contents, ContentsNext
<1>7. ASSUME NEW q \in {<<"answered", None>>, <<"dropped", None>>}, At(q)' = At(q) \cup {r},
             \A o \in {<<"answered", None>>, <<"dropped", None>>} \ {q} : At(o)' = At(o)
      PROVE  OnePlace'
  <2>1. q \in Places /\ p # q
    BY PlacesAre
  <2>2. ASSUME NEW o \in Places \ {p, q} PROVE At(o)' = At(o)
    <3>1. CASE o \in {<<"answered", None>>, <<"dropped", None>>}
      BY <1>7, <2>2, <3>1
    <3>2. CASE o \notin {<<"answered", None>>, <<"dropped", None>>}
      BY <1>1, <1>5, <2>2, <3>2, Unmoved, PlaceKinds DEF server, pool
    <3>3. QED
      BY <3>1, <3>2
  <2>3. QED
    BY <1>1, <1>3, <1>4, <1>6, <1>7, <2>1, <2>2, Moves DEF CopyInv, Copied
<1>8. OnePlace'
  <2>1. /\ \/ At(<<"answered", None>>)' = At(<<"answered", None>>) \cup {r} /\ At(<<"dropped", None>>)' = At(<<"dropped", None>>)
           \/ At(<<"dropped", None>>)' = At(<<"dropped", None>>) \cup {r} /\ At(<<"answered", None>>)' = At(<<"answered", None>>)
    BY <1>1, Contents, ContentsNext DEF r
  <2>2. QED
    BY <1>7, <2>1
<1>9. NoneTwice'
  BY <1>1, <1>3, <1>5 DEF CopyInv, Copied, NoneTwice, server, pool
<1>10. Hands' /\ IsFiniteSet(handlers)'
  BY <1>1 DEF CopyInv, Copied, Hands, server, pool
<1>11. TypeOK'
  <2>1. answered' \subseteq Requests /\ dropped' \subseteq Requests
    BY <1>1, <1>3 DEF r, CopyInv, Copied, TypeOK
  <2>2. QED
    BY <1>1, <1>5, <2>1 DEF CopyInv, Copied, TypeOK, server, pool
<1>12. QED
  BY <1>8, <1>9, <1>10, <1>11 DEF Copied

\* A call that is sent has its first message in its connection's queue.
LEMMA Sends ==
  ASSUME CopyInv, NEW r \in Requests, Send(r)
  PROVE  Copied'
<1>1. PICK k \in Connections :
      /\ pc[r] = "send" /\ UNCHANGED <<conn, answered, cached, socket, replyRead, wires, server, pool, history>>
      /\ \/ /\ Len(requests[k]) < RequestsCap /\ requests' = [requests EXCEPT ![k] = Append(@, r)]
            /\ pc' = [pc EXCEPT ![r] = "sent"]
         \/ requests' = requests /\ pc' = [pc EXCEPT ![r] = "failed"]
  BY DEF Send, Goto, CopyInv, CallerInv
<1> DEFINE p == <<"requests", k>>
<1>2. requests \in [Connections -> Seq(Requests)] /\ Once(requests[k])
  BY DEF CopyInv, Copied, TypeOK, NoneTwice
<1>3. pc \in [Requests -> {"call", "dial", "put", "check", "send", "sent", "failed"}]
  BY DEF CopyInv, CallerInv
<1>4. \A o \in Places : r \notin At(o)
  BY <1>1 DEF CopyInv, Copied, OnePlace
<1>5. CASE requests' = requests /\ pc' = [pc EXCEPT ![r] = "failed"]
  <2>1. \A o \in Places : At(o)' = At(o)
    BY <1>1, <1>5, Unmoved DEF wires, server, pool, history
  <2>2. OnePlace'
    BY <1>3, <1>4, <1>5, <2>1 DEF CopyInv, Copied, OnePlace
  <2>3. NoneTwice' /\ Hands' /\ IsFiniteSet(handlers)'
    BY <1>1, <1>5 DEF CopyInv, Copied, NoneTwice, Hands, wires, server, pool
  <2>4. TypeOK'
    BY <1>1, <1>3, <1>5 DEF CopyInv, Copied, TypeOK, wires, server, pool, history
  <2>5. QED
    BY <2>2, <2>3, <2>4 DEF Copied
<1>6. CASE requests' = [requests EXCEPT ![k] = Append(@, r)] /\ pc' = [pc EXCEPT ![r] = "sent"]
  <2>1. p \in Places /\ r \notin Calls(requests[k])
    BY <1>2, <1>4, PlacesAre, Contents
  <2>2. LET t == Append(requests[k], r)
        IN  t \in Seq(Requests) /\ Once(t) /\ Calls(t) = Calls(requests[k]) \cup {r}
    BY <1>2, <2>1, CallsAppended
  <2>3. /\ requests'[k] = Append(requests[k], r) /\ requests' \in [Connections -> Seq(Requests)]
        /\ \A j \in Connections \ {k} : requests'[j] = requests[j]
    BY <1>2, <1>6, <2>2
  <2>4. At(p)' = At(p) \cup {r}
    BY <1>2, <2>2, <2>3, Contents, ContentsNext
  <2>5. ASSUME NEW o \in Places \ {p} PROVE At(o)' = At(o)
    BY <1>1, <2>3, <2>5, Unmoved, PlaceKinds DEF wires, server, pool, history
  <2>6. OnePlace'
    <3> SUFFICES ASSUME NEW s \in Requests
                 PROVE  IF pc'[s] = "sent" THEN \E n \in Places : \A o \in Places : s \in At(o)' <=> o = n
                                           ELSE \A o \in Places : s \notin At(o)'
      BY DEF OnePlace
    <3>1. CASE s = r
      BY <1>3, <1>4, <1>6, <2>1, <2>4, <2>5, <3>1
    <3>2. CASE s # r
      <4>1. \A o \in Places : s \in At(o)' <=> s \in At(o)
        BY <2>4, <2>5, <3>2
      <4>2. pc'[s] = pc[s]
        BY <1>3, <1>6, <3>2
      <4>3. QED
        BY <4>1, <4>2 DEF CopyInv, Copied, OnePlace
    <3>3. QED
      BY <3>1, <3>2
  <2>7. NoneTwice'
    BY <1>1, <2>2, <2>3 DEF CopyInv, Copied, NoneTwice, wires, server, pool
  <2>8. Hands' /\ IsFiniteSet(handlers)'
    BY <1>1 DEF CopyInv, Copied, Hands, server, pool
  <2>9. TypeOK'
    BY <1>1, <1>3, <1>6, <2>3 DEF CopyInv, Copied, TypeOK, wires, server, pool, history
  <2>10. QED
    BY <2>6, <2>7, <2>8, <2>9 DEF Copied
<1>7. QED
  BY <1>1, <1>5, <1>6

LEMMA ReadsRequest ==
  ASSUME CopyInv, ReadRequest
  PROVE  Copied'
<1>1. PICK k \in handlers :
        /\ toServer[k] # <<>>
        /\ requestRead' = [requestRead EXCEPT ![k] = TRUE]
        /\ toServer' = [toServer EXCEPT ![k] = Tail(@)]
        /\ \/ Len(queue) < QueueCap /\ queue' = Append(queue, <<k, Head(toServer[k])>>) /\ dropped' = dropped
           \/ dropped' = dropped \cup {Head(toServer[k])} /\ queue' = queue
        /\ UNCHANGED <<callers, sockets, toClient, handlers, backlog, mailbox, task, wpc, work, hand, served>>
  BY DEF ReadRequest
<1> DEFINE r == Head(toServer[k])
           p == <<"toServer", k>>
<1>2. /\ toServer \in [Connections -> Seq(Requests)] /\ k \in Connections /\ Once(toServer[k])
      /\ queue \in Seq(Pairs) /\ OnceOf(queue) /\ Len(queue) <= QueueCap
  BY DEF CopyInv, Copied, TypeOK, NoneTwice
<1>3. /\ r \in Requests /\ r \in Calls(toServer[k]) /\ Tail(toServer[k]) \in Seq(Requests)
      /\ Once(Tail(toServer[k])) /\ Calls(Tail(toServer[k])) = Calls(toServer[k]) \ {r}
  BY <1>1, <1>2, CallsTaken
<1>4. p \in Places /\ r \in At(p) /\ r \notin CallsOf(queue)
  BY <1>2, <1>3, PlacesAre, Contents, Elsewhere DEF CopyInv, Copied
<1>5. /\ toServer'[k] = Tail(toServer[k]) /\ toServer' \in [Connections -> Seq(Requests)]
      /\ \A j \in Connections \ {k} : toServer'[j] = toServer[j]
  BY <1>1, <1>2, <1>3
<1> HIDE DEF r
<1>6. At(p)' = At(p) \ {r}
  BY <1>2, <1>3, <1>5, Contents, ContentsNext
<1>7. \/ /\ queue' \in Seq(Pairs) /\ OnceOf(queue') /\ Len(queue') <= QueueCap
         /\ CallsOf(queue') = CallsOf(queue) \cup {r} /\ dropped' = dropped
      \/ queue' = queue /\ dropped' = dropped \cup {r}
  <2>1. CASE Len(queue) < QueueCap /\ queue' = Append(queue, <<k, r>>) /\ dropped' = dropped
    <3>1. <<k, r>> \in Pairs /\ <<k, r>>[2] = r
      BY <1>2, <1>3 DEF Pairs
    <3>2. /\ queue' \in Seq(Pairs) /\ OnceOf(queue') /\ CallsOf(queue') = CallsOf(queue) \cup {r}
          /\ Len(queue') = Len(queue) + 1
      BY <1>2, <1>4, <2>1, <3>1, PairsAppended, AppendProperties
    <3>3. Len(queue') <= QueueCap
      BY <1>2, <2>1, <3>2, RpcAssumption, LenProperties DEF RpcAssumption
    <3>4. QED
      BY <2>1, <3>2, <3>3
  <2>2. CASE dropped' = dropped \cup {r} /\ queue' = queue
    BY <2>2
  <2>3. QED
    BY <1>1, <2>1, <2>2 DEF r
<1>8. ASSUME NEW q \in {<<"queue", None>>, <<"dropped", None>>}, At(q)' = At(q) \cup {r},
             \A o \in {<<"queue", None>>, <<"dropped", None>>} \ {q} : At(o)' = At(o)
      PROVE  OnePlace'
  <2>1. q \in Places /\ p # q
    BY PlacesAre
  <2>2. ASSUME NEW o \in Places \ {p, q} PROVE At(o)' = At(o)
    <3>1. CASE o \in {<<"queue", None>>, <<"dropped", None>>}
      BY <1>8, <2>2, <3>1
    <3>2. CASE o \notin {<<"queue", None>>, <<"dropped", None>>}
      BY <1>1, <1>5, <2>2, <3>2, Unmoved, PlaceKinds DEF callers, sockets
    <3>3. QED
      BY <3>1, <3>2
  <2>3. QED
    BY <1>1, <1>3, <1>4, <1>6, <1>8, <2>1, <2>2, Moves DEF CopyInv, Copied, callers
<1>9. OnePlace'
  <2>1. \/ At(<<"queue", None>>)' = At(<<"queue", None>>) \cup {r} /\ At(<<"dropped", None>>)' = At(<<"dropped", None>>)
        \/ At(<<"dropped", None>>)' = At(<<"dropped", None>>) \cup {r} /\ At(<<"queue", None>>)' = At(<<"queue", None>>)
    BY <1>7, Contents, ContentsNext
  <2>2. QED
    BY <1>8, <2>1
<1>10. NoneTwice'
  <2>1. OnceOf(queue')
    BY <1>2, <1>7
  <2>2. QED
    BY <1>1, <1>3, <1>5, <2>1 DEF CopyInv, Copied, NoneTwice, sockets
<1>11. Hands' /\ IsFiniteSet(handlers)'
  BY <1>1 DEF CopyInv, Copied, Hands
<1>12. TypeOK'
  <2>1. queue' \in Seq(Pairs) /\ Len(queue') <= QueueCap /\ dropped' \subseteq Requests
    BY <1>2, <1>3, <1>7 DEF CopyInv, Copied, TypeOK
  <2>2. QED
    BY <1>1, <1>5, <2>1 DEF CopyInv, Copied, TypeOK, callers, sockets
<1>13. QED
  BY <1>9, <1>10, <1>11, <1>12 DEF Copied

\* drainTo() moves the first of the queue into the batch, all in one step.
LEMMA Drains ==
  ASSUME CopyInv, Drain
  PROVE  Copied'
<1> DEFINE a == task'.batch
           p == <<"queue", None>>
           q == <<"batch", None>>
<1>1. PICK n \in 0..Len(queue) :
        /\ task.step = "drain" /\ UNCHANGED <<callers, sockets, wires, server, wpc, work, hand, history>>
        /\ task' = [task EXCEPT !.step = "offer", !.batch = SubSeq(queue, 1, n)]
        /\ queue' = SubSeq(queue, n + 1, Len(queue))
  <2>1. Len(queue) \in Nat /\ BatchCap \in Nat
    BY RpcAssumption, LenProperties DEF RpcAssumption, CopyInv, Copied, TypeOK
  <2>2. (IF Len(queue) < BatchCap THEN Len(queue) ELSE BatchCap) \in 0..Len(queue)
    BY <2>1
  <2>3. QED
    BY <2>2 DEF Drain
<1>2. /\ queue \in Seq(Pairs) /\ OnceOf(queue) /\ Len(queue) <= QueueCap
      /\ task \in [step : {"rest", "drain", "offer", "notify"}, worker : Workers \cup {None}, batch : Seq(Pairs)]
      /\ task.batch = <<>> /\ task.worker \in Workers
  BY <1>1 DEF CopyInv, Copied, TypeOK, NoneTwice, Hands
<1>3. /\ SubSeq(queue, 1, n) \in Seq(Pairs) /\ OnceOf(SubSeq(queue, 1, n))
      /\ queue' \in Seq(Pairs) /\ OnceOf(queue') /\ Len(queue') = Len(queue) - n
      /\ CallsOf(queue) = CallsOf(SubSeq(queue, 1, n)) \cup CallsOf(queue')
      /\ CallsOf(SubSeq(queue, 1, n)) \cap CallsOf(queue') = {}
  BY <1>1, <1>2, PairsDrained
<1>4. task'.batch = SubSeq(queue, 1, n) /\ task'.step = "offer" /\ task'.worker = task.worker
      /\ task' \in [step : {"rest", "drain", "offer", "notify"}, worker : Workers \cup {None}, batch : Seq(Pairs)]
  BY <1>1, <1>2, <1>3
<1>5. OnceOf(a) /\ CallsOf(queue) = CallsOf(a) \cup CallsOf(queue') /\ CallsOf(a) \cap CallsOf(queue') = {}
  BY <1>3, <1>4
<1>6. /\ p \in Places /\ q \in Places /\ p # q /\ At(q) = {} /\ At(p) = At(p)' \cup At(q)' /\ At(p)' \cap At(q)' = {}
      /\ \A o \in Places \ {p, q} : At(o)' = At(o)
  <2>1. At(q) = {}
    BY <1>2, Contents, NoCalls
  <2>2. At(p) = At(p)' \cup At(q)' /\ At(p)' \cap At(q)' = {}
    BY <1>5, Contents, ContentsNext
  <2>3. \A o \in Places \ {p, q} : At(o)' = At(o)
    BY <1>1, Unmoved, PlaceKinds DEF callers, sockets, wires, server, history
  <2>4. QED
    BY <2>1, <2>2, <2>3, PlacesAre
<1>7. OnePlace'
  <2> SUFFICES ASSUME NEW r \in Requests
               PROVE  IF pc[r] = "sent" THEN \E m \in Places : \A o \in Places : r \in At(o)' <=> o = m
                                        ELSE \A o \in Places : r \notin At(o)'
    BY <1>1 DEF OnePlace, callers
  <2>1. CASE r \in At(p)
    <3>1. pc[r] = "sent" /\ \A o \in Places : r \in At(o) <=> o = p
      BY <1>6, <2>1 DEF CopyInv, Copied, OnePlace
    <3>2. PICK m \in {p, q} : r \in At(m)' /\ \A o \in {p, q} \ {m} : r \notin At(o)'
      BY <1>6, <2>1
    <3>3. \A o \in Places : r \in At(o)' <=> o = m
      BY <1>6, <3>1, <3>2
    <3>4. QED
      BY <1>6, <3>1, <3>2, <3>3
  <2>2. CASE r \notin At(p)
    <3>1. \A o \in Places : r \in At(o)' <=> r \in At(o)
      BY <1>6, <2>2
    <3>2. QED
      BY <3>1 DEF CopyInv, Copied, OnePlace
  <2>3. QED
    BY <2>1, <2>2
<1>8. NoneTwice'
  BY <1>1, <1>3, <1>5 DEF CopyInv, Copied, NoneTwice, sockets, wires, server
<1>9. Hands' /\ IsFiniteSet(handlers)'
  BY <1>1, <1>2, <1>4 DEF CopyInv, Copied, Hands, server
<1>10. TypeOK'
  <2>1. Len(queue') <= QueueCap
    BY <1>2, <1>3, RpcAssumption, LenProperties DEF RpcAssumption
  <2>2. QED
    BY <1>1, <1>3, <1>4, <2>1 DEF CopyInv, Copied, TypeOK, callers, sockets, wires, server, history
<1>11. QED
  BY <1>7, <1>8, <1>9, <1>10 DEF Copied

LEMMA Offers ==
  ASSUME CopyInv, Offer
  PROVE  Copied'
<1>1. PICK w \in Workers, s \in Seq(Pairs) :
        /\ task.step = "offer" /\ task.worker = w /\ task.batch = s /\ s # <<>>
        /\ work' = [work EXCEPT ![w] = Append(@, Head(s))]
        /\ task' = [task EXCEPT !.batch = Tail(@), !.step = IF Len(s) = 1 THEN "notify" ELSE "offer"]
        /\ UNCHANGED <<callers, sockets, wires, server, queue, wpc, hand, history>>
  BY DEF Offer, CopyInv, Copied, Hands
<1> DEFINE r == Head(s)[2]
           p == <<"batch", None>>
           q == <<"work", w>>
<1>2. /\ work \in [Workers -> Seq(Pairs)] /\ OnceOf(work[w]) /\ OnceOf(s)
      /\ task \in [step : {"rest", "drain", "offer", "notify"}, worker : Workers \cup {None}, batch : Seq(Pairs)]
  BY <1>1 DEF CopyInv, Copied, TypeOK, NoneTwice, Hands
<1>3. /\ Head(s) \in Pairs /\ r \in Requests /\ r \in CallsOf(s) /\ Tail(s) \in Seq(Pairs)
      /\ OnceOf(Tail(s)) /\ CallsOf(Tail(s)) = CallsOf(s) \ {r}
  BY <1>1, <1>2, PairsTaken
<1>4. p \in Places /\ q \in Places /\ p # q /\ r \in At(p) /\ r \notin CallsOf(work[w])
  <2>1. p \in Places /\ q \in Places /\ p # q /\ At(p) = CallsOf(s) /\ At(q) = CallsOf(work[w])
    BY <1>1, PlacesAre, Contents
  <2>2. r \notin At(q)
    BY <1>3, <2>1, Elsewhere DEF CopyInv, Copied
  <2>3. QED
    BY <1>3, <2>1, <2>2
<1>5. LET t == Append(work[w], Head(s))
      IN  t \in Seq(Pairs) /\ OnceOf(t) /\ CallsOf(t) = CallsOf(work[w]) \cup {r}
  BY <1>2, <1>3, <1>4, PairsAppended
<1>6. /\ work'[w] = Append(work[w], Head(s)) /\ work' \in [Workers -> Seq(Pairs)]
      /\ \A v \in Workers \ {w} : work'[v] = work[v]
      /\ task'.batch = Tail(s) /\ task'.worker = w
      /\ task'.step = IF Len(s) = 1 THEN "notify" ELSE "offer"
      /\ task' \in [step : {"rest", "drain", "offer", "notify"}, worker : Workers \cup {None}, batch : Seq(Pairs)]
  BY <1>1, <1>2, <1>3, <1>5
<1>7. Len(s) = 1 => Tail(s) = <<>>
  <2>1. Len(s) = 1 => Len(Tail(s)) = 0
    BY <1>1, HeadTailProperties
  <2>2. QED
    BY <1>3, <2>1, EmptySeq
<1> HIDE DEF r
<1>8. At(p)' = At(p) \ {r} /\ At(q)' = At(q) \cup {r}
  BY <1>1, <1>3, <1>5, <1>6, Contents, ContentsNext
<1>9. ASSUME NEW o \in Places \ {p, q} PROVE At(o)' = At(o)
  BY <1>1, <1>6, Unmoved, PlaceKinds DEF callers, sockets, wires, server, history
<1>10. OnePlace'
  BY <1>1, <1>3, <1>4, <1>8, <1>9, Moves DEF CopyInv, Copied, callers
<1>11. NoneTwice'
  BY <1>1, <1>3, <1>5, <1>6 DEF CopyInv, Copied, NoneTwice, sockets, wires, server
<1>12. Hands' /\ IsFiniteSet(handlers)'
  BY <1>1, <1>6, <1>7 DEF CopyInv, Copied, Hands, server
<1>13. TypeOK'
  BY <1>1, <1>3, <1>6 DEF CopyInv, Copied, TypeOK, callers, sockets, wires, server, history
<1>14. QED
  BY <1>10, <1>11, <1>12, <1>13 DEF Copied

LEMMA Polls ==
  ASSUME CopyInv, NEW w \in Workers, Poll(w)
  PROVE  Copied'
<1>1. /\ wpc[w] = "loop" /\ UNCHANGED <<callers, sockets, wires, server, queue, task, history>>
      /\ \/ /\ work[w] # <<>> /\ hand' = [hand EXCEPT ![w] = <<Head(work[w])>>]
            /\ work' = [work EXCEPT ![w] = Tail(@)] /\ wpc' = [wpc EXCEPT ![w] = "busy"]
         \/ wpc' = [wpc EXCEPT ![w] = "parking"] /\ UNCHANGED <<hand, work>>
  BY DEF Poll
<1>2. /\ work \in [Workers -> Seq(Pairs)] /\ hand \in [Workers -> Seq(Pairs)] /\ OnceOf(work[w])
      /\ wpc \in [Workers -> {"unborn", "loop", "busy", "parking", "waiting", "exited"}]
      /\ hand[w] = <<>>
  BY <1>1 DEF CopyInv, Copied, TypeOK, NoneTwice, Hands
<1>3. CASE wpc' = [wpc EXCEPT ![w] = "parking"] /\ UNCHANGED <<hand, work>>
  <2>1. \A o \in Places : At(o)' = At(o)
    BY <1>1, <1>3, Unmoved DEF callers, sockets, wires, server, history
  <2>2. OnePlace'
    BY <1>1, <2>1 DEF CopyInv, Copied, OnePlace, callers
  <2>3. NoneTwice' /\ IsFiniteSet(handlers)'
    BY <1>1, <1>3 DEF CopyInv, Copied, NoneTwice, sockets, wires, server
  <2>4. Hands'
    BY <1>1, <1>2, <1>3 DEF CopyInv, Copied, Hands
  <2>5. TypeOK'
    BY <1>1, <1>2, <1>3 DEF CopyInv, Copied, TypeOK, callers, sockets, wires, server, history
  <2>6. QED
    BY <2>2, <2>3, <2>4, <2>5 DEF Copied
<1>4. CASE /\ work[w] # <<>> /\ hand' = [hand EXCEPT ![w] = <<Head(work[w])>>]
           /\ work' = [work EXCEPT ![w] = Tail(@)] /\ wpc' = [wpc EXCEPT ![w] = "busy"]
  <2> DEFINE r == Head(work[w])[2]
             p == <<"work", w>>
             q == <<"hand", w>>
  <2>1. /\ r \in Requests /\ r \in CallsOf(work[w]) /\ Tail(work[w]) \in Seq(Pairs)
        /\ OnceOf(Tail(work[w])) /\ CallsOf(Tail(work[w])) = CallsOf(work[w]) \ {r}
        /\ CallsOf(<<Head(work[w])>>) = {r} /\ OnceOf(<<Head(work[w])>>) /\ <<Head(work[w])>> \in Seq(Pairs)
    BY <1>2, <1>4, PairsTaken
  <2>2. /\ work'[w] = Tail(work[w]) /\ hand'[w] = <<Head(work[w])>> /\ wpc'[w] = "busy"
        /\ \A v \in Workers \ {w} : work'[v] = work[v] /\ hand'[v] = hand[v] /\ wpc'[v] = wpc[v]
        /\ work' \in [Workers -> Seq(Pairs)] /\ hand' \in [Workers -> Seq(Pairs)]
        /\ wpc' \in [Workers -> {"unborn", "loop", "busy", "parking", "waiting", "exited"}]
    BY <1>2, <1>4, <2>1
  <2>3. hand'[w] # <<>> /\ Tail(hand'[w]) = <<>>
    BY <2>2
  <2> HIDE DEF r
  <2>4. /\ p \in Places /\ q \in Places /\ p # q /\ r \in At(p) /\ At(q) = {}
    <3>1. p \in Places /\ q \in Places /\ p # q
      BY <1>2, PlacesAre
    <3>2. r \in At(p)
      BY <1>2, <2>1, Contents
    <3>3. At(q) = {}
      BY <1>2, Contents, NoCalls
    <3>4. QED
      BY <3>1, <3>2, <3>3
  <2>5. At(p)' = At(p) \ {r} /\ At(q)' = At(q) \cup {r}
    <3>1. At(p)' = CallsOf(Tail(work[w])) /\ At(q)' = CallsOf(<<Head(work[w])>>)
      BY <1>2, <2>2, ContentsNext
    <3>2. At(p) = CallsOf(work[w])
      BY <1>2, Contents
    <3>3. QED
      BY <2>1, <2>4, <3>1, <3>2
  <2>6. ASSUME NEW o \in Places \ {p, q} PROVE At(o)' = At(o)
    BY <1>1, <2>2, Unmoved, PlaceKinds DEF callers, sockets, wires, server, history
  <2>7. OnePlace'
    BY <1>1, <2>1, <2>4, <2>5, <2>6, Moves DEF CopyInv, Copied, callers
  <2>8. NoneTwice'
    BY <1>1, <2>1, <2>2 DEF CopyInv, Copied, NoneTwice, sockets, wires, server
  <2>9. Hands' /\ IsFiniteSet(handlers)'
    <3>1. \A v \in Workers : IF wpc'[v] = "busy" THEN hand'[v] # <<>> /\ Tail(hand'[v]) = <<>> ELSE hand'[v] = <<>>
      BY <2>2, <2>3 DEF CopyInv, Copied, Hands
    <3>2. UNCHANGED <<task, handlers>>
      BY <1>1 DEF server
    <3>3. QED
      BY <3>1, <3>2 DEF CopyInv, Copied, Hands
  <2>10. TypeOK'
    BY <1>1, <2>2 DEF CopyInv, Copied, TypeOK, callers, sockets, wires, server, history
  <2>11. QED
    BY <2>7, <2>8, <2>9, <2>10 DEF Copied
<1>5. QED
  BY <1>1, <1>3, <1>4

LEMMA Processes ==
  ASSUME CopyInv, NEW w \in Workers, Process(w)
  PROVE  Copied'
<1>1. PICK s \in Seq(Pairs), k \in Connections, r \in Requests :
        /\ wpc[w] = "busy" /\ hand[w] = s /\ s # <<>> /\ Tail(s) = <<>> /\ Head(s) = <<k, r>> /\ OnceOf(s)
        /\ hand' = [hand EXCEPT ![w] = <<>>]
        /\ \/ /\ mailbox' = [mailbox EXCEPT ![k] = Append(@, r)] /\ served' = served \cup {r}
              /\ wpc' = [wpc EXCEPT ![w] = "loop"] /\ dropped' = dropped
           \/ /\ dropped' = dropped \cup {r} /\ wpc' = [wpc EXCEPT ![w] = "exited"]
              /\ UNCHANGED <<mailbox, served>>
        /\ UNCHANGED <<callers, sockets, wires, handlers, backlog, requestRead, queue, task, work>>
  <2>1. /\ wpc[w] = "busy" /\ hand[w] \in Seq(Pairs) /\ hand[w] # <<>> /\ Tail(hand[w]) = <<>> /\ OnceOf(hand[w])
    BY DEF Process, CopyInv, Copied, TypeOK, Hands, NoneTwice
  <2>2. Head(hand[w]) = hand[w][1] /\ Head(hand[w]) \in Pairs
    BY <2>1, HeadTailProperties
  <2>3. PICK k \in Connections, r \in Requests : Head(hand[w]) = <<k, r>>
    BY <2>2 DEF Pairs
  <2>4. hand[w][1][1] = k /\ hand[w][1][2] = r
    BY <2>2, <2>3
  <2>5. QED
    BY <2>1, <2>3, <2>4 DEF Process
<1> DEFINE p == <<"hand", w>>
<1>2. /\ mailbox \in [Connections -> Seq(Requests)] /\ Once(mailbox[k])
      /\ hand \in [Workers -> Seq(Pairs)]
      /\ wpc \in [Workers -> {"unborn", "loop", "busy", "parking", "waiting", "exited"}]
  BY DEF CopyInv, Copied, TypeOK, NoneTwice
<1>3. CallsOf(s) = {r}
  <2>1. r \in CallsOf(s) /\ CallsOf(Tail(s)) = CallsOf(s) \ {r}
    <3>1. Head(s)[2] \in CallsOf(s) /\ CallsOf(Tail(s)) = CallsOf(s) \ {Head(s)[2]}
      BY <1>1, PairsTaken
    <3>2. Head(s)[2] = r
      BY <1>1
    <3>3. QED
      BY <3>1, <3>2
  <2>2. CallsOf(s) \ {r} = {}
    BY <1>1, <2>1, NoCalls
  <2>3. QED
    BY <2>1, <2>2
<1>4. /\ hand'[w] = <<>> /\ wpc'[w] # "busy"
      /\ \A v \in Workers \ {w} : hand'[v] = hand[v] /\ wpc'[v] = wpc[v]
      /\ hand' \in [Workers -> Seq(Pairs)]
      /\ wpc' \in [Workers -> {"unborn", "loop", "busy", "parking", "waiting", "exited"}]
  BY <1>1, <1>2, EmptySeq
<1>5. p \in Places /\ r \in At(p) /\ At(p)' = At(p) \ {r}
  <2>1. p \in Places /\ At(p) = {r}
    BY <1>1, <1>3, PlacesAre, Contents
  <2>2. At(p)' = {}
    BY <1>4, ContentsNext, NoCalls
  <2>3. QED
    BY <2>1, <2>2
<1>6. Hands' /\ IsFiniteSet(handlers)'
  BY <1>1, <1>4 DEF CopyInv, Copied, Hands
<1>7. CASE mailbox' = [mailbox EXCEPT ![k] = Append(@, r)] /\ served' = served \cup {r} /\ dropped' = dropped
  <2> DEFINE q == <<"mailbox", k>>
  <2>1. q \in Places /\ p # q /\ r \notin Calls(mailbox[k])
    <3>1. q \in Places /\ p # q /\ At(q) = Calls(mailbox[k])
      BY PlacesAre, Contents
    <3>2. r \notin At(q)
      BY <1>5, <3>1, Elsewhere DEF CopyInv, Copied
    <3>3. QED
      BY <3>1, <3>2
  <2>2. LET t == Append(mailbox[k], r)
        IN  t \in Seq(Requests) /\ Once(t) /\ Calls(t) = Calls(mailbox[k]) \cup {r}
    BY <1>2, <2>1, CallsAppended
  <2>3. /\ mailbox'[k] = Append(mailbox[k], r) /\ mailbox' \in [Connections -> Seq(Requests)]
        /\ \A j \in Connections \ {k} : mailbox'[j] = mailbox[j]
    BY <1>2, <1>7, <2>2
  <2>4. At(q)' = At(q) \cup {r}
    BY <2>2, <2>3, Contents, ContentsNext
  <2>5. ASSUME NEW o \in Places \ {p, q} PROVE At(o)' = At(o)
    BY <1>1, <1>4, <1>7, <2>3, Unmoved, PlaceKinds DEF callers, sockets, wires
  <2>6. OnePlace'
    BY <1>1, <1>5, <2>1, <2>4, <2>5, Moves DEF CopyInv, Copied, callers
  <2>7. NoneTwice'
    BY <1>1, <1>4, <2>2, <2>3, NoCalls DEF CopyInv, Copied, NoneTwice, sockets, wires
  <2>8. TypeOK'
    BY <1>1, <1>4, <1>7, <2>3 DEF CopyInv, Copied, TypeOK, callers, sockets, wires
  <2>9. QED
    BY <1>6, <2>6, <2>7, <2>8 DEF Copied
<1>8. CASE dropped' = dropped \cup {r} /\ UNCHANGED <<mailbox, served>>
  <2> DEFINE q == <<"dropped", None>>
  <2>1. q \in Places /\ p # q /\ At(q)' = At(q) \cup {r}
    BY <1>8, PlacesAre, Contents, ContentsNext
  <2>2. ASSUME NEW o \in Places \ {p, q} PROVE At(o)' = At(o)
    BY <1>1, <1>4, <1>8, Unmoved, PlaceKinds DEF callers, sockets, wires
  <2>3. OnePlace'
    BY <1>1, <1>5, <2>1, <2>2, Moves DEF CopyInv, Copied, callers
  <2>4. NoneTwice'
    BY <1>1, <1>4, <1>8, NoCalls DEF CopyInv, Copied, NoneTwice, sockets, wires
  <2>5. TypeOK'
    BY <1>1, <1>4, <1>8 DEF CopyInv, Copied, TypeOK, callers, sockets, wires
  <2>6. QED
    BY <1>6, <2>3, <2>4, <2>5 DEF Copied
<1>9. QED
  BY <1>1, <1>7, <1>8

-----------------------------------------------------------------------------
(* The steps that move none.                                               *)

LEMMA StaysPut ==
  ASSUME CopyInv, \A r \in Requests : pc'[r] = "sent" <=> pc[r] = "sent",
         UNCHANGED <<requests, wires, mailbox, work, hand, queue, task.batch, answered, dropped>>
  PROVE  OnePlace' /\ NoneTwice'
<1>1. \A o \in Places : At(o)' = At(o)
  BY Unmoved DEF wires
<1>2. OnePlace'
  BY <1>1 DEF CopyInv, Copied, OnePlace
<1>3. NoneTwice'
  BY DEF CopyInv, Copied, NoneTwice, wires
<1>4. QED
  BY <1>2, <1>3

LEMMA CallerSteps ==
  ASSUME CopyInv, NEW r \in Requests, LookUp(r) \/ Dial(r) \/ Put(r) \/ Check(r)
  PROVE  Copied'
<1>1. /\ pc[r] # "sent"
      /\ UNCHANGED <<answered, requests, replyRead, wires, handlers, requestRead, mailbox, pool, history>>
      /\ \E where \in {"dial", "check", "put", "failed", "send"} : pc' = [pc EXCEPT ![r] = where]
  BY DEF LookUp, Dial, Put, Check, Goto, sockets, server
<1>2. pc \in [Requests -> {"call", "dial", "put", "check", "send", "sent", "failed"}]
  BY DEF CopyInv, CallerInv
<1>3. \A s \in Requests : pc'[s] = "sent" <=> pc[s] = "sent"
  BY <1>1, <1>2
<1>4. OnePlace' /\ NoneTwice'
  BY <1>1, <1>3, StaysPut DEF pool, history
<1>5. Hands' /\ IsFiniteSet(handlers)'
  BY <1>1 DEF CopyInv, Copied, Hands, pool
<1>6. CallerInv'
  BY CallerInvStep DEF CopyInv, Next, Caller
<1>7. socket' \in [Connections -> {"new", "up", "down", "closed"}] /\ backlog' \subseteq Connections
  <2>1. socket \in [Connections -> {"new", "up", "down", "closed"}] /\ backlog \subseteq Connections
    BY DEF CopyInv, Copied, TypeOK
  <2>2. CASE LookUp(r) \/ Check(r)
    BY <2>1, <2>2 DEF LookUp, Check, sockets, server
  <2>3. CASE Dial(r)
    BY <2>1, <2>3 DEF Dial
  <2>4. CASE Put(r)
    <3>1. \/ socket' = [socket EXCEPT ![conn[r]] = IF @ = "up" THEN "closed" ELSE @]
          \/ socket' = socket
      BY <2>4 DEF Put
    <3>2. backlog' = backlog
      BY <2>4 DEF Put, server
    <3>3. QED
      BY <2>1, <3>1, <3>2
  <2>5. QED
    BY <2>2, <2>3, <2>4
<1>8. TypeOK'
  BY <1>1, <1>6, <1>7 DEF CopyInv, Copied, TypeOK, CallerInv, wires, pool, history
<1>9. QED
  BY <1>4, <1>5, <1>8 DEF Copied

LEMMA Accepts ==
  ASSUME CopyInv, Accept
  PROVE  Copied'
<1>1. PICK k \in backlog :
        /\ backlog' = backlog \ {k}
        /\ handlers' = IF Cardinality(handlers) < HandlersCap THEN handlers \cup {k} ELSE handlers
        /\ UNCHANGED <<callers, sockets, wires, requestRead, mailbox, pool, history>>
  BY DEF Accept
<1>2. /\ handlers \subseteq Connections /\ backlog \subseteq Connections /\ IsFiniteSet(handlers)
      /\ Cardinality(handlers) <= HandlersCap
  BY DEF CopyInv, Copied, TypeOK
<1>3. /\ IsFiniteSet(handlers \cup {k}) /\ Cardinality(handlers) \in Nat
      /\ Cardinality(handlers \cup {k}) = IF k \in handlers THEN Cardinality(handlers) ELSE Cardinality(handlers) + 1
  BY <1>2, FS_AddElement, FS_CardinalityType
<1>4. IsFiniteSet(handlers') /\ Cardinality(handlers') <= HandlersCap
  <2>1. CASE Cardinality(handlers) < HandlersCap
    <3>1. handlers' = handlers \cup {k} /\ Cardinality(handlers \cup {k}) <= HandlersCap
      BY <1>1, <1>3, <2>1, RpcAssumption DEF RpcAssumption
    <3>2. QED
      BY <1>3, <3>1
  <2>2. CASE ~(Cardinality(handlers) < HandlersCap)
    BY <1>1, <1>2, <2>2
  <2>3. QED
    BY <2>1, <2>2
<1>5. OnePlace' /\ NoneTwice'
  BY <1>1, StaysPut DEF callers, sockets, pool, history
<1>6. Hands'
  BY <1>1 DEF CopyInv, Copied, Hands, pool
<1>7. TypeOK'
  BY <1>1, <1>2, <1>4 DEF CopyInv, Copied, TypeOK, callers, sockets, wires, pool, history
<1>8. QED
  BY <1>4, <1>5, <1>6, <1>7 DEF Copied

\* The scheduler takes a worker, which has nothing in its hand, and lets it go
\* when it has handed over the batch; a worker goes to wait.
LEMMA WorkerSteps ==
  ASSUME CopyInv, Acquire \/ Notify \/ \E w \in Workers : Park(w)
  PROVE  Copied'
<1>1. /\ UNCHANGED <<callers, sockets, wires, server, queue, work, hand, history>>
      /\ \/ /\ task.step = "rest"
            /\ \E w \in Workers : /\ wpc[w] = "unborn" /\ wpc' = [wpc EXCEPT ![w] = "loop"]
                                  /\ task' = [task EXCEPT !.step = "drain", !.worker = w]
         \/ /\ task.step = "notify" /\ task' = Rest
            /\ wpc' = [wpc EXCEPT ![task.worker] = IF @ = "waiting" THEN "exited" ELSE @]
         \/ /\ task' = task
            /\ \E w \in Workers : wpc[w] = "parking" /\ wpc' = [wpc EXCEPT ![w] = "waiting"]
  BY DEF Acquire, Notify, Park
<1>2. /\ task \in [step : {"rest", "drain", "offer", "notify"}, worker : Workers \cup {None}, batch : Seq(Pairs)]
      /\ wpc \in [Workers -> {"unborn", "loop", "busy", "parking", "waiting", "exited"}]
      /\ task.step # "rest" => task.worker \in Workers
      /\ task.step # "offer" => task.batch = <<>>
      /\ <<>> \in Seq(Pairs)
  BY DEF CopyInv, Copied, TypeOK, Hands
<1>3. /\ task' \in [step : {"rest", "drain", "offer", "notify"}, worker : Workers \cup {None}, batch : Seq(Pairs)]
      /\ task'.batch = task.batch
      /\ task'.step # "rest" => task'.worker \in Workers
      /\ task'.step # "offer" => task'.batch = <<>>
  <2>1. CASE task' = task
    BY <1>2, <2>1
  <2>2. CASE task.step = "notify" /\ task' = Rest
    BY <1>2, <2>2 DEF Rest
  <2>3. CASE task.step = "rest" /\ \E w \in Workers : task' = [task EXCEPT !.step = "drain", !.worker = w]
    BY <1>2, <2>3
  <2>4. QED
    BY <1>1, <2>1, <2>2, <2>3
<1>4. /\ wpc' \in [Workers -> {"unborn", "loop", "busy", "parking", "waiting", "exited"}]
      /\ \A v \in Workers : wpc'[v] = "busy" <=> wpc[v] = "busy"
  BY <1>1, <1>2
<1>5. OnePlace' /\ NoneTwice'
  BY <1>1, <1>3, StaysPut DEF callers, sockets, server, history
<1>6. Hands'
  BY <1>1, <1>3, <1>4 DEF CopyInv, Copied, Hands
<1>7. TypeOK'
  BY <1>1, <1>3, <1>4 DEF CopyInv, Copied, TypeOK, callers, sockets, wires, server, history
<1>8. IsFiniteSet(handlers)'
  BY <1>1 DEF CopyInv, Copied, server
<1>9. QED
  BY <1>5, <1>6, <1>7, <1>8 DEF Copied

LEMMA CopyInvInit == Init => CopyInv
<1> SUFFICES ASSUME Init PROVE CopyInv
  OBVIOUS
<1> USE DEF Init
<1>1. IsFiniteSet(handlers) /\ Cardinality(handlers) = 0
  BY FS_EmptySet
<1>2. TypeOK
  BY <1>1, RpcAssumption DEF RpcAssumption, TypeOK, Rest
<1>3. NoneTwice
  BY NoCalls DEF NoneTwice, Rest
<1>4. Hands
  BY DEF Hands, Rest
<1>5. OnePlace
  <2> SUFFICES ASSUME NEW o \in Places PROVE At(o) = {}
    BY DEF OnePlace
  <2>1. o = <<o[1], o[2]>>
    BY PlaceKinds
  <2>2. CASE o[1] \in {"requests", "toServer", "mailbox", "toClient"} /\ o[2] \in Connections
    BY <2>1, <2>2, Contents, NoCalls
  <2>3. CASE o[1] \in {"work", "hand"} /\ o[2] \in Workers
    BY <2>1, <2>3, Contents, NoCalls
  <2>4. CASE o[1] \in {"queue", "batch", "answered", "dropped"} /\ o[2] = None
    BY <2>1, <2>4, Contents, NoCalls DEF Rest
  <2>5. QED
    BY <2>2, <2>3, <2>4, PlaceKinds
<1>6. QED
  BY <1>1, <1>2, <1>3, <1>4, <1>5, CallerInvInit DEF CopyInv, Copied

LEMMA CopyInvStep ==
  ASSUME CopyInv, [Next]_vars
  PROVE  CopyInv'
<1>1. CASE UNCHANGED vars
  <2>1. OnePlace' /\ NoneTwice'
    BY <1>1, StaysPut DEF vars, callers, sockets, server, pool, history
  <2>2. TypeOK' /\ Hands' /\ IsFiniteSet(handlers)'
    BY <1>1 DEF vars, callers, sockets, wires, server, pool, history, CopyInv, Copied, TypeOK, Hands
  <2>3. Copied'
    BY <2>1, <2>2 DEF Copied
  <2>4. QED
    BY <2>3, CallerInvStep DEF CopyInv
<1>2. ASSUME NEW r \in Requests, Caller(r) PROVE Copied'
  BY <1>2, CallerSteps, Sends DEF Caller
<1>3. ASSUME NEW c \in Clients, ReadReply(c) \/ WriteRequest(c) PROVE Copied'
  BY <1>3, ReadsReply, WritesRequest
<1>4. ASSUME Accept \/ ReadRequest \/ WriteReply PROVE Copied'
  BY <1>4, Accepts, ReadsRequest, WritesReply
<1>5. ASSUME Scheduler PROVE Copied'
  BY <1>5, WorkerSteps, Drains, Offers DEF Scheduler
<1>6. ASSUME NEW w \in Workers, Worker(w) PROVE Copied'
  BY <1>6, WorkerSteps, Polls, Processes DEF Worker
<1>7. QED
  BY <1>1, <1>2, <1>3, <1>4, <1>5, <1>6, CallerInvStep DEF Next, CopyInv

\* The message of a call that was sent is in one of the seven queues, in a worker's hand,
\* in the caller's future or thrown away: there once, and nowhere else (SocketConnection,
\* SocketAcceptor and SocketWorkerPool together).  The types hold with it.
THEOREM NoCopyNoLoss == Spec => []OneCopy
<1>1. CopyInv => OneCopy
  <2> SUFFICES ASSUME CopyInv, NEW r \in Requests
               PROVE  Cardinality({p \in Places : r \in At(p)}) = IF pc[r] = "sent" THEN 1 ELSE 0
    BY DEF OneCopy, CopyInv, Copied
  <2>1. CASE pc[r] = "sent"
    <3>1. PICK p \in Places : \A o \in Places : r \in At(o) <=> o = p
      BY <2>1 DEF CopyInv, Copied, OnePlace
    <3>2. {o \in Places : r \in At(o)} = {p}
      BY <3>1
    <3>3. QED
      BY <2>1, <3>2, FS_Singleton
  <2>2. CASE pc[r] # "sent"
    <3>1. {o \in Places : r \in At(o)} = {}
      BY <2>2 DEF CopyInv, Copied, OnePlace
    <3>2. QED
      BY <2>2, <3>1, FS_EmptySet
  <2>3. QED
    BY <2>1, <2>2
<1>2. QED
  BY CopyInvInit, CopyInvStep, <1>1, PTL DEF Spec

-----------------------------------------------------------------------------
(* The start of a server.                                                 *)

Row == [{"badge"} -> {Welcome, Blank}]

\* What the rest needs of the types.
Shape ==
  /\ phase \in [Starts -> {"off", "check", "init"} \cup Defining \cup Ended]
  /\ todo \in [Starts -> SUBSET Services]
  /\ rows \in [Badges!Ids -> Row \cup {NoRow}]
  /\ DOMAIN node = Starts /\ DOMAIN key = Starts /\ DOMAIN created = Starts
  /\ DOMAIN map = Starts /\ dirty \in [Starts -> [{"badge"} -> {Welcome, Blank, Null}]]
  /\ inserted \in [Starts -> SUBSET Badges!Ids] /\ unanswered \in [Starts -> Nat]
  /\ DOMAIN missed = Starts /\ DOMAIN overtaken = Starts /\ DOMAIN seen = Starts

\* Who is about to save, saves the definition; who has looked in vain saw none.
Looked ==
  \A s \in Starts :
    /\ phase[s] = "save" => dirty[s]["badge"] = Welcome
    /\ phase[s] \in {"create", "set", "save"} /\ s \notin blind => seen[s] = {}

\* What a start has, or has inserted, is a definition; and it has one when it is done.
Stored ==
  \A s \in Starts :
    /\ inserted[s] \subseteq Welcomes
    /\ created[s] => key[s] \in Welcomes
    /\ Neighbourhood \notin todo[s] => created[s] \/ s \in unsaved \/ unanswered[s] > 0
    /\ phase[s] = "up" => todo[s] = {}

StartInv == Shape /\ InOrder /\ Looked /\ Stored /\ OneCreator

-----------------------------------------------------------------------------
LEMMA StartBegins == StartInit => StartInv
<1> SUFFICES ASSUME StartInit PROVE StartInv
  OBVIOUS
<1> USE StartupAssumption
<1>1. Shape
  BY DEF StartInit, Shape, Badges!Init, Badges!Nothing
<1>2. InOrder
  BY DEF StartInit, InOrder, Defining
<1>3. Looked /\ Stored /\ OneCreator
  BY DEF StartInit, Looked, Stored, OneCreator, Badges!Init
<1> QED
  BY <1>1, <1>2, <1>3 DEF StartInv

\* A start goes from one place to another and nothing else happens to the table.
LEMMA StartMoves ==
  ASSUME Shape, NEW s \in Starts, NEW from, NEW to, Goes(s, from, to),
         to \in {"off", "check", "init"} \cup Defining \cup Ended
  PROVE  /\ phase' \in [Starts -> {"off", "check", "init"} \cup Defining \cup Ended]
         /\ phase[s] = from /\ phase'[s] = to /\ \A t \in Starts \ {s} : phase'[t] = phase[t]
         /\ needs' = needs
  BY DEF Goes, Shape

\* Services are initialised in order, if a step takes at most one off the list, whose
\* needs are off it already.
LEMMA KeepsOrder ==
  ASSUME Shape, InOrder, NEW s \in Starts, UNCHANGED needs,
         \A t \in Starts \ {s} : phase'[t] = phase[t],
         \/ UNCHANGED todo
         \/ \E v \in Services : needs[v] \cap todo[s] = {} /\ todo' = [todo EXCEPT ![s] = @ \ {v}],
         phase'[s] \in Defining => phase[s] \in Defining \/ needs[Neighbourhood] \cap todo[s] = {}
  PROVE  InOrder' /\ todo' \in [Starts -> SUBSET Services] /\ \A t \in Starts : todo'[t] \subseteq todo[t]
<1>1. CASE UNCHANGED todo
  BY <1>1 DEF InOrder, Shape
<1>2. CASE \E v \in Services : needs[v] \cap todo[s] = {} /\ todo' = [todo EXCEPT ![s] = @ \ {v}]
  <2>1. PICK v \in Services : needs[v] \cap todo[s] = {} /\ todo' = [todo EXCEPT ![s] = @ \ {v}]
    BY <1>2
  <2>2. /\ todo' \in [Starts -> SUBSET Services] /\ todo'[s] = todo[s] \ {v}
        /\ \A t \in Starts \ {s} : todo'[t] = todo[t]
    BY <2>1 DEF Shape
  <2>3. \A w \in Services \ todo'[s] : needs'[w] \cap todo'[s] = {}
    BY <2>1, <2>2 DEF InOrder
  <2> QED
    BY <2>2, <2>3 DEF InOrder
<1> QED
  BY <1>1, <1>2

-----------------------------------------------------------------------------
LEMMA StartKeeps == StartInv /\ [StartNext]_startVars => StartInv'
<1> SUFFICES ASSUME StartInv, [StartNext]_startVars PROVE StartInv'
  OBVIOUS
<1> USE StartupAssumption DEF StartInv
<1>1. CASE UNCHANGED startVars
  BY <1>1 DEF startVars, table, startHistory, Shape, InOrder, Looked, Stored, OneCreator, Welcomes, Badges!Present
<1>2. ASSUME NEW s \in Starts, NEW from, NEW to, Goes(s, from, to), UNCHANGED <<todo, table, startHistory>>,
             to \in {"check", "init", "query", "up", "exited", "gone"},
             to = "query" => needs[Neighbourhood] \cap todo[s] = {},
             to = "up" => todo[s] = {}
      PROVE  StartInv'
  <2>1. InOrder' /\ Shape'
    BY <1>2, StartMoves, KeepsOrder DEF table, startHistory, Shape, Defining, Ended
  <2>2. Looked' /\ Stored' /\ OneCreator'
    BY <1>2, StartMoves DEF table, startHistory, Looked, Stored, OneCreator, Welcomes, Badges!Present, Defining, Ended
  <2> QED
    BY <2>1, <2>2
<1>3. ASSUME NEW s \in Starts, Begin(s) \/ CheckNeeds(s) \/ LoadNeighbourhood(s) \/ PostInit(s) \/ Stop(s)
      PROVE  StartInv'
  <2>1. CASE Begin(s)
    BY <1>2, <2>1 DEF Begin
  <2>2. CASE CheckNeeds(s)
    BY <1>2, <2>2 DEF CheckNeeds
  <2>3. CASE LoadNeighbourhood(s)
    BY <1>2, <2>3 DEF LoadNeighbourhood, Ready
  <2>4. CASE PostInit(s)
    BY <1>2, <2>4 DEF PostInit
  <2>5. CASE Stop(s)
    BY <1>2, <2>5 DEF Stop
  <2> QED
    BY <1>3, <2>1, <2>2, <2>3, <2>4, <2>5
<1>4. ASSUME NEW s \in Starts, Load(s) PROVE StartInv'
  <2>1. PICK v \in Services \ {Neighbourhood} : Ready(s, v) /\ todo' = [todo EXCEPT ![s] = @ \ {v}]
    BY <1>4 DEF Load
  <2>2. Goes(s, "init", "init") /\ UNCHANGED <<table, startHistory>>
    BY <1>4 DEF Load
  <2>3. InOrder' /\ Shape'
    BY <2>1, <2>2, StartMoves, KeepsOrder DEF Ready, table, startHistory, Shape, Defining, Ended
  <2>4. \A t \in Starts : Neighbourhood \in todo[t] <=> Neighbourhood \in todo'[t]
    BY <2>1 DEF Shape
  <2>5. \A t \in Starts : phase'[t] = "up" => todo'[t] = {}
    BY <2>1, <2>2, StartMoves DEF Stored, Shape
  <2>6. Looked' /\ Stored' /\ OneCreator'
    BY <2>2, <2>4, <2>5, StartMoves DEF table, startHistory, Looked, Stored, OneCreator, Welcomes, Badges!Present
  <2> QED
    BY <2>3, <2>6
<1>5. ASSUME NEW s \in Starts, Found(s) PROVE StartInv'
  <2>1. PICK id \in Welcomes : Badges!Wrap(s, id)
    BY <1>5 DEF Found, Matching
  <2>2. /\ Goes(s, "query", "init") /\ todo' = [todo EXCEPT ![s] = @ \ {Neighbourhood}]
        /\ UNCHANGED startHistory
    BY <1>5 DEF Found, Loaded
  <2>3. /\ UNCHANGED <<rows, nextId, dirty, inserted, unanswered, missed>>
        /\ created' = [created EXCEPT ![s] = TRUE] /\ key' = [key EXCEPT ![s] = id]
        /\ DOMAIN node' = Starts /\ DOMAIN map' = Starts /\ DOMAIN overtaken' = Starts
    BY <2>1 DEF Badges!Wrap, Badges!table, Shape
  <2>4. needs[Neighbourhood] \cap todo[s] = {}
    BY <2>2 DEF Goes, InOrder, Defining
  <2>5. InOrder' /\ todo' \in [Starts -> SUBSET Services] /\ \A t \in Starts : todo'[t] \subseteq todo[t]
    BY <2>2, <2>4, StartMoves, KeepsOrder DEF Defining
  <2>6. Shape'
    BY <2>2, <2>3, <2>5, StartMoves DEF Shape, startHistory, Defining
  <2>7. Welcomes' = Welcomes
    BY <2>3 DEF Welcomes, Badges!Present
  <2>8. Looked' /\ OneCreator'
    BY <2>2, <2>3, StartMoves DEF Looked, OneCreator, startHistory
  <2>9. \A t \in Starts \ {s} : todo'[t] = todo[t] /\ created'[t] = created[t] /\ key'[t] = key[t]
    BY <2>2, <2>3 DEF Shape
  <2>10. created'[s] /\ key'[s] = id /\ phase'[s] = "init"
    BY <2>2, <2>3, StartMoves DEF Shape
  <2>11. Stored'
    <3>1. UNCHANGED <<unsaved, unanswered, inserted>> /\ \A t \in Starts \ {s} : phase'[t] = phase[t]
      BY <2>2, <2>3, StartMoves DEF startHistory
    <3>2. \A t \in Starts \ {s} :
            /\ inserted'[t] \subseteq Welcomes'
            /\ created'[t] => key'[t] \in Welcomes'
            /\ Neighbourhood \notin todo'[t] => created'[t] \/ t \in unsaved' \/ unanswered'[t] > 0
            /\ phase'[t] = "up" => todo'[t] = {}
      BY <2>7, <2>9, <3>1 DEF Stored
    <3>3. /\ inserted'[s] \subseteq Welcomes' /\ key'[s] \in Welcomes'
          /\ created'[s] /\ phase'[s] # "up"
      BY <2>1, <2>7, <2>10, <3>1 DEF Stored
    <3> QED
      BY <3>2, <3>3 DEF Stored
  <2> QED
    BY <2>5, <2>6, <2>8, <2>11
<1>6. ASSUME NEW s \in Starts, NotFound(s) PROVE StartInv'
  <2>1. /\ Goes(s, "query", "create") /\ seen' = [seen EXCEPT ![s] = Welcomes] /\ UNCHANGED <<todo, late, unsaved>>
        /\ UNCHANGED <<rows, nextId, node, key, created, map, dirty, inserted, unanswered, missed, overtaken>>
    BY <1>6 DEF NotFound
  <2>2. \/ Welcomes = {} /\ UNCHANGED blind
        \/ blind' = blind \cup {s}
    BY <1>6 DEF NotFound, Matching, Badges!Fault
  <2>3. InOrder'
    BY <2>1, StartMoves, KeepsOrder DEF Defining
  <2>4. Shape'
    BY <2>1, <2>2, StartMoves DEF Shape, Defining
  <2>5. phase'[s] = "create" /\ \A t \in Starts \ {s} : phase'[t] = phase[t]
    BY <2>1, StartMoves DEF Defining
  <2>6. /\ seen'[s] = Welcomes /\ \A t \in Starts \ {s} : seen'[t] = seen[t]
        /\ blind \subseteq blind' /\ (s \notin blind' => Welcomes = {})
    BY <2>1, <2>2 DEF Shape
  <2>7. Looked'
    BY <2>1, <2>5, <2>6 DEF Looked
  <2>8. Welcomes' = Welcomes
    BY <2>1 DEF Welcomes, Badges!Present
  <2>9. Stored'
    BY <2>1, <2>5, <2>6, <2>8 DEF Stored
  <2>10. OneCreator'
    BY <2>1, <2>6 DEF OneCreator
  <2> QED
    BY <2>3, <2>4, <2>7, <2>9, <2>10
<1>7. ASSUME NEW s \in Starts, Create(s) \/ Set(s) PROVE StartInv'
  <2>1. /\ \/ Goes(s, "create", "set") /\ UNCHANGED dirty
           \/ Goes(s, "set", "save") /\ dirty' = [dirty EXCEPT ![s]["badge"] = Welcome]
        /\ UNCHANGED <<todo, startHistory, rows, nextId, key, created, inserted, unanswered, missed, overtaken>>
        /\ DOMAIN node' = Starts /\ DOMAIN map' = Starts
    BY <1>7 DEF Create, Set, Badges!Create, Badges!Assign, Badges!table, Badges!history, Shape
  <2>2. InOrder'
    BY <2>1, StartMoves, KeepsOrder DEF Defining
  <2>3. Shape'
    BY <2>1, StartMoves DEF Shape, Defining, startHistory
  <2>4. /\ \/ phase[s] = "create" /\ phase'[s] = "set" /\ UNCHANGED dirty
           \/ phase[s] = "set" /\ phase'[s] = "save" /\ dirty' = [dirty EXCEPT ![s]["badge"] = Welcome]
        /\ \A t \in Starts \ {s} : phase'[t] = phase[t]
    BY <2>1, StartMoves DEF Defining
  <2>5. phase'[s] = "save" => dirty'[s]["badge"] = Welcome
    BY <2>4 DEF Shape
  <2>6. \A t \in Starts \ {s} : dirty'[t] = dirty[t]
    BY <2>4 DEF Shape
  <2>7. Looked'
    BY <2>1, <2>4, <2>5, <2>6 DEF Looked, startHistory
  <2>8. Welcomes' = Welcomes
    BY <2>1 DEF Welcomes, Badges!Present
  <2>9. Stored' /\ OneCreator'
    BY <2>1, <2>4, <2>8 DEF Stored, OneCreator, startHistory
  <2> QED
    BY <2>2, <2>3, <2>7, <2>9
<1>8. ASSUME NEW s \in Starts, SaveFails(s) PROVE StartInv'
  <2>1. /\ Goes(s, "save", "init") /\ todo' = [todo EXCEPT ![s] = @ \ {Neighbourhood}]
        /\ unsaved' = unsaved \cup {s} /\ UNCHANGED <<seen, late, blind>>
        /\ UNCHANGED <<rows, nextId, node, key, created, map, dirty, inserted, unanswered, missed, overtaken>>
    BY <1>8 DEF SaveFails, Loaded
  <2>2. needs[Neighbourhood] \cap todo[s] = {}
    BY <2>1 DEF Goes, InOrder, Defining
  <2>3. InOrder' /\ todo' \in [Starts -> SUBSET Services] /\ \A t \in Starts : todo'[t] \subseteq todo[t]
    BY <2>1, <2>2, StartMoves, KeepsOrder DEF Defining
  <2>4. Shape'
    BY <2>1, <2>3, StartMoves DEF Shape, Defining
  <2>5. Looked' /\ OneCreator'
    BY <2>1, StartMoves DEF Looked, OneCreator
  <2>6. Stored'
    BY <2>1, <2>3, StartMoves DEF Stored, Welcomes, Badges!Present, Shape
  <2> QED
    BY <2>3, <2>4, <2>5, <2>6
<1>9. ASSUME NEW s \in Starts, Save(s) PROVE StartInv'
  <2>1. /\ Goes(s, "save", "init") /\ todo' = [todo EXCEPT ![s] = @ \ {Neighbourhood}]
        /\ late' = IF Welcomes = seen[s] THEN late ELSE late \cup {s}
        /\ UNCHANGED <<seen, blind, unsaved, node, map, missed>>
    BY <1>9 DEF Save, Loaded, Badges!Insert
  <2> DEFINE id  == nextId
             new == Badges!Streamed(s, [f \in {"badge"} |-> Blank])
  <2>2. /\ id \in Badges!Ids /\ rows' = [rows EXCEPT ![id] = new]
        /\ inserted' = [inserted EXCEPT ![s] = @ \cup {id}]
    BY <1>9 DEF Save, Badges!Insert, Badges!Inserted
  <2>3. new \in Row /\ new["badge"] = Welcome /\ new # NoRow
    <3>1. dirty[s]["badge"] = Welcome
      BY <2>1 DEF Goes, Looked
    <3> QED
      BY <3>1 DEF Badges!Streamed, Badges!Dirty, Row
  <2> HIDE DEF id, new
  <2>4. /\ \/ /\ key' = [key EXCEPT ![s] = id] /\ created' = [created EXCEPT ![s] = TRUE]
              /\ dirty' = [dirty EXCEPT ![s] = [f \in {"badge"} |-> Null]]
              /\ UNCHANGED unanswered /\ DOMAIN overtaken' = Starts
           \/ /\ unanswered' = [unanswered EXCEPT ![s] = @ + 1]
              /\ UNCHANGED <<key, created, dirty, overtaken>>
    BY <1>9 DEF Save, Badges!Insert, Badges!Saved, Badges!Nothing, Shape, id
  <2>5. needs[Neighbourhood] \cap todo[s] = {}
    BY <2>1 DEF Goes, InOrder, Defining
  <2>6. InOrder' /\ todo' \in [Starts -> SUBSET Services] /\ \A t \in Starts : todo'[t] \subseteq todo[t]
    BY <2>1, <2>5, StartMoves, KeepsOrder DEF Defining
  <2>7. Welcomes' = Welcomes \cup {id}
    BY <2>2, <2>3 DEF Welcomes, Badges!Present, Shape
  <2>8. Shape'
    <3>1. rows' \in [Badges!Ids -> Row \cup {NoRow}] /\ inserted' \in [Starts -> SUBSET Badges!Ids]
      BY <2>2, <2>3 DEF Shape
    <3>2. unanswered' \in [Starts -> Nat]
      BY <2>4 DEF Shape
    <3>3. dirty' \in [Starts -> [{"badge"} -> {Welcome, Blank, Null}]]
      BY <2>4 DEF Shape
    <3>4. DOMAIN key' = Starts /\ DOMAIN created' = Starts /\ DOMAIN overtaken' = Starts
      BY <2>4 DEF Shape
    <3>5. phase' \in [Starts -> {"off", "check", "init"} \cup Defining \cup Ended]
      BY <2>1, StartMoves
    <3> QED
      BY <2>1, <2>6, <3>1, <3>2, <3>3, <3>4, <3>5 DEF Shape
  <2>9. Looked'
    BY <2>1, <2>4, StartMoves DEF Looked, Shape
  <2>10. \A t \in Starts : inserted'[t] \subseteq Welcomes' /\ (created'[t] => key'[t] \in Welcomes')
    BY <2>2, <2>4, <2>7 DEF Stored, Shape
  <2>11. /\ created'[s] \/ unanswered'[s] > 0
         /\ \A t \in Starts \ {s} : created'[t] = created[t] /\ unanswered'[t] = unanswered[t]
    BY <2>4 DEF Shape
  <2>12. Stored'
    BY <2>1, <2>4, <2>6, <2>10, <2>11, StartMoves DEF Stored, Shape
  <2>13. OneCreator'
    <3>1. ASSUME s \notin late', s \notin blind, NEW t \in Starts, inserted[t] # {} PROVE FALSE
      <4>1. Welcomes = seen[s] /\ seen[s] = {}
        BY <2>1, <3>1 DEF Goes, Looked
      <4> QED
        BY <3>1, <4>1 DEF Stored
    <3>2. \A t \in Starts \ {s} : inserted'[t] = inserted[t]
      BY <2>2 DEF Shape
    <3> QED
      BY <2>1, <3>1, <3>2 DEF OneCreator
  <2> QED
    BY <2>6, <2>8, <2>9, <2>12, <2>13
<1> QED
  BY <1>1, <1>3, <1>4, <1>5, <1>6, <1>7, <1>8, <1>9 DEF StartNext, Proceed

-----------------------------------------------------------------------------
THEOREM StartInvariant == StartSpec => []StartInv
  BY StartBegins, StartKeeps, PTL DEF StartSpec

\* ServiceManager.setupServices(): no service is initialised before one it has a field
\* for, whatever the fields and the order of the hash table.
THEOREM InitialisedInOrder == StartSpec => []InOrder
<1>1. StartInv => InOrder
  BY DEF StartInv
<1> QED
  BY StartInvariant, <1>1, PTL

\* LogicalBadge.initDefinition(): among the starts of any number of servers, one at most
\* has created a definition without a failed query or another's insert in between.
THEOREM CreatedOnce == StartSpec => []OneCreator
<1>1. StartInv => OneCreator
  BY DEF StartInv
<1> QED
  BY StartInvariant, <1>1, PTL

\* A server that is up has a stored definition, or none after its own insert failed or
\* was not answered, whatever happened to the statements of others.
THEOREM AwardedIsStored == StartSpec => []AwardsStored
<1>1. StartInv => AwardsStored
  BY DEF StartInv, Stored, AwardsStored, Shape
<1> QED
  BY StartInvariant, <1>1, PTL
=============================================================================
