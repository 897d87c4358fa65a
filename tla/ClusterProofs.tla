--------------------------- MODULE ClusterProofs ---------------------------
(***************************************************************************)
(* Membership and the ring.                                                *)
(*                                                                         *)
(* First ClusterHeartbeat: what a peer's place on the ring has to do with  *)
(* the two tables, but for the named accidents of interleaving, for any    *)
(* layers, any number of beats, starts and switches of the peer and any    *)
(* outages.                                                                *)
(*                                                                         *)
(* Then ClusterRing: add() and remove() are the atomic steps that          *)
(* ClusterHeartbeat takes them for, for any nodes, any hash function and   *)
(* any number of threads.                                                  *)
(***************************************************************************)
EXTENDS ClusterHeartbeat, ClusterRing, FiniteSetTheorems, TLAPS

\* Starts and beats have numbers above 0, which stands for null.
Numbered ==
  /\ liveTime > 0 /\ clock > 0
  /\ \A b \in flying : b.live > 0 /\ b.sent > 0
  /\ rpc # "receive" => beat.live > 0 /\ beat.sent > 0

Finishing == {"liveSize", "detachLive", "liveRefilled", "reattachLive"}

\* Which inner maps the sweep has in its local variables, and when: only it
\* takes maps out of the tables.
Holds ==
  /\ spc \in {"check", "fail", "leave", "forget", "detachHeard"} => heard # NoMap
  /\ lastHeard # NoMap <=> spc \in {"detachHeard", "heardRefilled", "reattachHeard"} \cup Finishing
  /\ liveTimes # NoMap <=> spc \in Finishing \ {"liveSize"}
  /\ spc = "detachHeard" => lastHeard = heard
  /\ spc = "detachLive" => liveTimes = live

\* A map that a constructor makes is empty.
Unheld == \A m \in MapIds \ Held : maps[m] = Blank

\* The two tables share no map.
Apart == No({"wrongMap"}) =>
  /\ {heard, lastHeard} \cap {live, liveTimes} \subseteq {NoMap}
  /\ rpc = "putHeard" => putInto \notin {live, liveTimes}
  /\ rpc = "putLive" => putInto \notin {heard, lastHeard}

Filled(m) == m # NoMap /\ ~IsEmpty(m)

\* A peer on the ring has a last heard time, or is about to: to be given one, to
\* be taken off the ring, or to get back the one that the sweep holds.
Heard == ring > 0 /\ No(Ghosting) =>
  \/ Filled(heard)
  \/ rpc \in {"heard", "putHeard"}
  \/ spc = "leave"
  \/ spc \in {"heardRefilled", "reattachHeard"} /\ Filled(lastHeard)

\* A peer off the ring has no live time, neither in the table nor with the sweep,
\* unless it is about to join; the one of the layer that failed is yet to go.
Lived == ring = 0 /\ No(Hiding) =>
  \/ rpc \in {"confirm", "join"}
  \/ /\ spc # "forget" => ~Filled(live)
     /\ spc = "forget" => \A l \in Layers \ {failing.layer} : Value(live, l) = 0
     /\ ~Filled(liveTimes)

IInv == TypeOK /\ Numbered /\ Holds /\ Unheld /\ Apart /\ Heard /\ Lived

-----------------------------------------------------------------------------
(* The tables.                                                             *)

Maps == [MapIds -> [Layers -> Times]]

PeerTyped ==
  /\ up \in BOOLEAN /\ active \subseteq Layers
  /\ liveTime \in Times /\ clock \in Times /\ old \in Times /\ switches \in 0..MaxSwitches
  /\ flying \subseteq Beats /\ ring \in Nat
  /\ mishaps \subseteq {"detachedHeard", "cleared", "stale", "wrongMap", "crossed", "unconfirmed"}

MapsTyped ==
  /\ maps \in Maps
  /\ {heard, live, putInto, lastHeard, liveTimes} \subseteq MapIds \cup {NoMap}

ReceiverTyped ==
  /\ rpc \in {"receive", "layer", "known", "live", "putLive", "confirm", "join", "heard", "putHeard"}
  /\ putInto # NoMap <=> rpc \in {"putLive", "putHeard"}
  /\ beat \in Beats /\ todo \subseteq Layers
  /\ layer \in Layers /\ knownLive \in Times /\ knownTime \in Times

SenderTyped ==
  /\ spc \in {"sleep", "check", "fail", "leave", "forget", "detachHeard", "heardRefilled",
              "reattachHeard", "liveSize", "detachLive", "liveRefilled", "reattachLive",
              "clearHeard", "clearLive"}
  /\ online \in BOOLEAN /\ outages \in 0..MaxOutages /\ cut \in Times
  /\ toCheck \subseteq Layers /\ hasTimeout \in BOOLEAN
  /\ failing \in [layer : Layers, value : Times]

LEMMA TypesSplit == TypeOK <=> PeerTyped /\ MapsTyped /\ ReceiverTyped /\ SenderTyped
BY DEF TypeOK, PeerTyped, MapsTyped, ReceiverTyped, SenderTyped, Maps

LEMMA ZeroIsATime == 0 \in Times /\ MaxTime \in Times /\ Blank \in [Layers -> Times] /\ NoMap \notin MapIds
BY HeartbeatAssumption DEF HeartbeatAssumption, Times, Blank, NoMap, MapIds

\* The constructor makes a map that nobody holds.
LEMMA FreshIsFree ==
  ASSUME TypeOK, NoMap \in {heard, live}
  PROVE  Fresh \in MapIds /\ Fresh \notin Held /\ Fresh # NoMap
<1>1. \E m \in MapIds : m \notin Held
  BY DEF MapIds, NoMap, Held
<1>2. \E m \in MapIds \ Held : \A n \in MapIds \ Held : m <= n
  <2> DEFINE free(m) == m \notin Held
  <2>1. free(1) \/ free(2) \/ free(3) \/ free(4) \/ free(5)
    BY <1>1 DEF MapIds
  <2> HIDE DEF free
  <2>2. \E m \in MapIds : free(m) /\ \A n \in MapIds : free(n) => m <= n
    BY <2>1 DEF MapIds
  <2>3. QED
    BY <2>2 DEF free
<1>3. QED
  BY <1>2, ZeroIsATime DEF Fresh

\* get() of a table.
LEMMA Getting ==
  ASSUME TypeOK, Unheld, NEW table \in {heard, live}
  PROVE  /\ Got(table) \in MapIds /\ Got(table) # NoMap
         /\ table # NoMap => Got(table) = table
         /\ table = NoMap => Got(table) \notin Held /\ maps[Got(table)] = Blank
BY FreshIsFree, ZeroIsATime DEF Got, TypeOK, Unheld, Held

LEMMA Values ==
  ASSUME TypeOK, NEW table \in {heard, live}, NEW l \in Layers
  PROVE  Value(table, l) \in Times
BY ZeroIsATime DEF Value, TypeOK

\* What put(), remove(), putIfAbsent() and the collector make of the maps.
LEMMA Putting ==
  ASSUME TypeOK, NEW m \in MapIds, NEW l \in Layers, NEW value \in Times
  PROVE  /\ Put(m, l, value) \in Maps
         /\ \A n \in MapIds : n # m => Put(m, l, value)[n] = maps[n]
         /\ Put(m, l, value)[m][l] = value
         /\ \A k \in Layers : k # l => Put(m, l, value)[m][k] = maps[m][k]
BY DEF TypeOK, Put, Maps

LEMMA Collecting ==
  ASSUME NEW f \in Maps, NEW held
  PROVE  /\ Collected(f, held) \in Maps
         /\ \A m \in MapIds : m \in held => Collected(f, held)[m] = f[m]
         /\ \A m \in MapIds : m \notin held => Collected(f, held)[m] = Blank
BY ZeroIsATime DEF Collected, Maps

LEMMA Merging ==
  ASSUME TypeOK, NEW m \in MapIds, NEW n \in MapIds
  PROVE  /\ Merged(m, n) \in Maps
         /\ \A k \in MapIds : k # n => Merged(m, n)[k] = maps[k]
         /\ \A l \in Layers : Merged(m, n)[n][l] = IF maps[n][l] = 0 THEN maps[m][l] ELSE maps[n][l]
<1>1. [l \in Layers |-> IF maps[n][l] = 0 THEN maps[m][l] ELSE maps[n][l]] \in [Layers -> Times]
  BY DEF TypeOK
<1>2. QED
  BY <1>1 DEF TypeOK, Merged, Maps

LEMMA Emptiness ==
  ASSUME NEW f \in Maps, NEW m \in MapIds
  PROVE  f[m] = Blank <=> \A l \in Layers : f[m][l] = 0
<1>1. f[m] \in [Layers -> Times]
  BY DEF Maps
<1>2. QED
  BY <1>1 DEF Blank

LEMMA FilledSomewhere ==
  ASSUME MapsTyped, NEW m \in MapIds
  PROVE  Filled(m) <=> \E l \in Layers : maps[m][l] # 0
BY Emptiness, ZeroIsATime DEF MapsTyped, Filled, IsEmpty

LEMMA FilledNext ==
  ASSUME maps' \in Maps, NEW m \in MapIds
  PROVE  maps'[m] # Blank <=> \E l \in Layers : maps'[m][l] # 0
BY Emptiness

\* The steps that change what is in the maps: the receiver puts a time into the map
\* that it has fetched, if anybody still has it otherwise,
LEMMA Puts ==
  ASSUME IInv, PutLive \/ PutHeard
  PROVE  /\ maps' \in Maps /\ putInto \in MapIds /\ putInto' = NoMap
         /\ UNCHANGED <<heard, live, lastHeard, liveTimes>>
         /\ \A m \in MapIds : m \notin {heard, live, lastHeard, liveTimes} => maps'[m] = Blank
         /\ \A m \in MapIds \ {putInto} : m \in {heard, live, lastHeard, liveTimes} => maps'[m] = maps[m]
         /\ putInto \in {heard, live, lastHeard, liveTimes} =>
              /\ maps'[putInto][layer] # 0
              /\ \A k \in Layers \ {layer} : maps'[putInto][k] = maps[putInto][k]
<1>1. PICK time \in {beat.live, beat.sent} :
        /\ maps' = Collected(Put(putInto, layer, time), {heard, live, lastHeard, liveTimes})
        /\ rpc \in {"putLive", "putHeard"} /\ putInto' = NoMap
        /\ UNCHANGED <<heard, live, lastHeard, liveTimes>>
  BY DEF PutLive, PutHeard, Onward, sender
<1>2. time \in Times /\ time > 0 /\ putInto \in MapIds /\ layer \in Layers
  BY <1>1 DEF IInv, TypeOK, Numbered, Beats
<1>3. Put(putInto, layer, time) \in Maps
  BY <1>2, Putting DEF IInv
<1>4. QED
  BY <1>1, <1>2, <1>3, Putting, Collecting DEF IInv

LEMMA StillFilled ==
  ASSUME IInv, PutLive \/ PutHeard, NEW m \in {heard, live, lastHeard, liveTimes}, Filled(m)
  PROVE  maps'[m] # Blank
<1>1. m \in MapIds /\ layer \in Layers /\ maps[m] # Blank
  BY DEF IInv, TypeOK, Filled, IsEmpty
<1>2. QED
  BY <1>1, Puts, FilledNext

\* the sweep removes the time of the layer that has failed,
LEMMA Removes ==
  ASSUME IInv, NEW m \in {heard, live}, m # NoMap, maps' = Put(m, failing.layer, 0)
  PROVE  /\ maps' \in Maps /\ m \in MapIds /\ failing.layer \in Layers
         /\ \A n \in MapIds \ {m} : maps'[n] = maps[n]
         /\ maps'[m][failing.layer] = 0
         /\ \A k \in Layers \ {failing.layer} : maps'[m][k] = maps[m][k]
<1>1. m \in MapIds /\ failing.layer \in Layers
  BY DEF IInv, TypeOK
<1>2. QED
  BY <1>1, Putting, ZeroIsATime DEF IInv

\* and gives the other map the entries that it lacks.
LEMMA Merges ==
  ASSUME IInv, NEW m \in {lastHeard, liveTimes}, NEW n \in {heard, live}, m # NoMap, n # NoMap
  PROVE  /\ m \in MapIds /\ n \in MapIds /\ Merged(m, n) \in Maps
         /\ \A k \in MapIds \ {n} : Merged(m, n)[k] = maps[k]
         /\ \A l \in Layers : Merged(m, n)[n][l] = IF maps[n][l] = 0 THEN maps[m][l] ELSE maps[n][l]
<1>1. m \in MapIds /\ n \in MapIds
  BY DEF IInv, TypeOK
<1>2. QED
  BY <1>1, Merging DEF IInv

-----------------------------------------------------------------------------
(* The steps.                                                              *)

\* The types, by who has the variables.
LEMMA PeerTypes ==
  ASSUME IInv, [Next]_vars
  PROVE  PeerTyped'
<1> USE HeartbeatAssumption, TypesSplit
        DEF peerVars, tables, receiver, sender, Sweeping, Asleep, Unswept, Outside, Onward, AfterLive, Mishap,
            HeartbeatAssumption, IInv, PeerTyped, Numbered, Beats, Times
<1>1. CASE Peer
  <2>1. CASE SendBeat
    BY <2>1 DEF SendBeat
  <2>2. CASE SwitchLayer
    BY <2>2 DEF SwitchLayer
  <2>3. CASE Die
    BY <2>3 DEF Die
  <2>4. CASE Start
    BY <2>4 DEF Start
  <2>5. CASE Lose
    BY <2>5 DEF Lose
  <2>6. CASE Age
    BY <2>6 DEF Age
  <2>7. QED
    BY <1>1, <2>1, <2>2, <2>3, <2>4, <2>5, <2>6 DEF Peer
<1>2. CASE Receive
  BY <1>2 DEF Receive
<1>3. CASE ReadLive
  BY <1>3 DEF ReadLive
<1>4. CASE ReadHeard
  BY <1>4 DEF ReadHeard
<1>5. CASE FetchLive
  BY <1>5 DEF FetchLive
<1>6. CASE PutLive
  BY <1>6 DEF PutLive
<1>7. CASE Confirm
  BY <1>7 DEF Confirm
<1>8. CASE Join
  BY <1>8 DEF Join
<1>9. CASE FetchHeard
  BY <1>9 DEF FetchHeard
<1>10. CASE PutHeard
  BY <1>10 DEF PutHeard
<1>11. CASE BeginSweep
  BY <1>11 DEF BeginSweep
<1>12. CASE SendFails
  BY <1>12 DEF SendFails
<1>13. CASE Check
  BY <1>13 DEF Check
<1>14. CASE Fail
  BY <1>14 DEF Fail
<1>15. CASE Leave
  BY <1>15 DEF Leave
<1>16. CASE Forget
  BY <1>16 DEF Forget
<1>17. CASE CheckDone
  BY <1>17 DEF CheckDone
<1>18. CASE DetachHeard
  BY <1>18 DEF DetachHeard
<1>19. CASE HeardRefilled
  BY <1>19 DEF HeardRefilled
<1>20. CASE ReattachHeard
  BY <1>20 DEF ReattachHeard
<1>21. CASE LiveSize
  BY <1>21 DEF LiveSize
<1>22. CASE DetachLive
  BY <1>22 DEF DetachLive
<1>23. CASE LiveRefilled
  BY <1>23 DEF LiveRefilled
<1>24. CASE ReattachLive
  BY <1>24 DEF ReattachLive
<1>25. CASE ClearHeard
  BY <1>25 DEF ClearHeard
<1>26. CASE ClearLive
  BY <1>26 DEF ClearLive
<1>27. CASE UNCHANGED vars
  BY <1>27 DEF vars
<1>28. QED
  BY <1>1, <1>2, <1>3, <1>4, <1>5, <1>6, <1>7, <1>8, <1>9, <1>10, <1>11, <1>12, <1>13, <1>14, <1>15, <1>16,
     <1>17, <1>18, <1>19, <1>20, <1>21, <1>22, <1>23, <1>24, <1>25, <1>26, <1>27 DEF Next, Receiver, Sender

LEMMA MapsTypes ==
  ASSUME IInv, [Next]_vars
  PROVE  MapsTyped'
<1> USE TypesSplit, ZeroIsATime
        DEF peerVars, tables, receiver, sender, Sweeping, Asleep, Unswept, Outside, Onward, AfterLive, Mishap,
            IInv, MapsTyped, ReceiverTyped, SenderTyped, Holds, Finishing
<1>1. CASE Peer
  BY <1>1, Getting DEF Peer, SendBeat, SwitchLayer, Die, Start, Lose, Age
<1>2. CASE Receive
  BY <1>2, Getting DEF Receive
<1>3. CASE ReadLive
  BY <1>3, Getting DEF ReadLive
<1>4. CASE ReadHeard
  BY <1>4, Getting DEF ReadHeard
<1>5. CASE FetchLive
  BY <1>5, Getting DEF FetchLive
<1>6. CASE PutLive
  BY <1>6, Puts
<1>7. CASE Confirm
  BY <1>7, Getting DEF Confirm
<1>8. CASE Join
  BY <1>8, Getting DEF Join
<1>9. CASE FetchHeard
  BY <1>9, Getting DEF FetchHeard
<1>10. CASE PutHeard
  BY <1>10, Puts
<1>11. CASE BeginSweep
  BY <1>11, Getting DEF BeginSweep
<1>12. CASE SendFails
  BY <1>12, Getting DEF SendFails
<1>13. CASE Check
  BY <1>13, Getting DEF Check
<1>14. CASE Fail
  BY <1>14, Removes DEF Fail
<1>15. CASE Leave
  BY <1>15, Getting DEF Leave
<1>16. CASE Forget
  BY <1>16, Getting, Removes DEF Forget
<1>17. CASE CheckDone
  BY <1>17, Getting DEF CheckDone
<1>18. CASE DetachHeard
  BY <1>18, Getting DEF DetachHeard
<1>19. CASE HeardRefilled
  BY <1>19, Getting DEF HeardRefilled
<1>20. CASE ReattachHeard
  BY <1>20, Merges DEF ReattachHeard
<1>21. CASE LiveSize
  BY <1>21, Getting, Collecting DEF LiveSize
<1>22. CASE DetachLive
  BY <1>22, Getting DEF DetachLive
<1>23. CASE LiveRefilled
  BY <1>23, Collecting DEF LiveRefilled
<1>24. CASE ReattachLive
  BY <1>24, Merges, Collecting DEF ReattachLive
<1>25. CASE ClearHeard
  BY <1>25, Collecting DEF ClearHeard
<1>26. CASE ClearLive
  BY <1>26, Collecting DEF ClearLive
<1>27. CASE UNCHANGED vars
  BY <1>27 DEF vars
<1>28. QED
  BY <1>1, <1>2, <1>3, <1>4, <1>5, <1>6, <1>7, <1>8, <1>9, <1>10, <1>11, <1>12, <1>13, <1>14, <1>15, <1>16,
     <1>17, <1>18, <1>19, <1>20, <1>21, <1>22, <1>23, <1>24, <1>25, <1>26, <1>27 DEF Next, Receiver, Sender

LEMMA ReceiverTypes ==
  ASSUME IInv, [Next]_vars
  PROVE  ReceiverTyped'
<1> USE HeartbeatAssumption, TypesSplit, ZeroIsATime
        DEF peerVars, tables, receiver, sender, Sweeping, Asleep, Unswept, Outside, Onward, AfterLive, Mishap,
            HeartbeatAssumption, IInv, PeerTyped, ReceiverTyped
<1>1. CASE Peer
  BY <1>1 DEF Peer, SendBeat, SwitchLayer, Die, Start, Lose, Age
<1>2. CASE Receive
  <2>1. PICK b \in flying :
          \/ UNCHANGED receiver
          \/ /\ rpc = "receive" /\ rpc' = "layer" /\ beat' = b /\ todo' = b.layers
             /\ UNCHANGED <<layer, knownLive, knownTime, putInto>>
    BY <1>2 DEF Receive
  <2>2. b \in Beats /\ b.layers \subseteq Layers
    BY DEF Beats
  <2>3. QED
    BY <2>1, <2>2
<1>3. CASE ReadLive
  BY <1>3, Values DEF ReadLive
<1>4. CASE ReadHeard
  <2>1. NoBeat \in Beats
    BY DEF NoBeat, Beats
  <2>2. /\ rpc' \in {"receive", "layer", "join", "heard", "live"} /\ putInto' = NoMap
        /\ beat' \in {beat, NoBeat} /\ todo' \subseteq todo
        /\ layer' \in {layer, Base} /\ knownLive' \in {0, knownLive} /\ knownTime' \in Times
    BY <1>4, Values DEF ReadHeard
  <2>3. QED
    BY <2>1, <2>2
<1>5. CASE FetchLive
  BY <1>5, Getting DEF FetchLive
<1>6. CASE PutLive
  BY <1>6 DEF PutLive
<1>7. CASE Confirm
  <2>1. NoBeat \in Beats
    BY DEF NoBeat, Beats
  <2>2. /\ rpc' \in {"receive", "layer", "join", "heard", "live"} /\ putInto' = NoMap
        /\ beat' \in {beat, NoBeat} /\ todo' \subseteq todo
        /\ layer' \in {layer, Base} /\ knownLive' \in {0, knownLive} /\ knownTime' \in Times
    BY <1>7, Values DEF Confirm
  <2>3. QED
    BY <2>1, <2>2
<1>8. CASE Join
  <2>1. NoBeat \in Beats
    BY DEF NoBeat, Beats
  <2>2. /\ rpc' \in {"receive", "layer", "join", "heard", "live"} /\ putInto' = NoMap
        /\ beat' \in {beat, NoBeat} /\ todo' \subseteq todo
        /\ layer' \in {layer, Base} /\ knownLive' \in {0, knownLive} /\ knownTime' \in Times
    BY <1>8, Values DEF Join
  <2>3. QED
    BY <2>1, <2>2
<1>9. CASE FetchHeard
  BY <1>9, Getting DEF FetchHeard
<1>10. CASE PutHeard
  <2>1. NoBeat \in Beats
    BY DEF NoBeat, Beats
  <2>2. /\ rpc' \in {"receive", "layer", "join", "heard", "live"} /\ putInto' = NoMap
        /\ beat' \in {beat, NoBeat} /\ todo' \subseteq todo
        /\ layer' \in {layer, Base} /\ knownLive' \in {0, knownLive} /\ knownTime' \in Times
    BY <1>10, Values DEF PutHeard
  <2>3. QED
    BY <2>1, <2>2
<1>11. CASE BeginSweep
  BY <1>11 DEF BeginSweep
<1>12. CASE SendFails
  BY <1>12 DEF SendFails
<1>13. CASE Check
  BY <1>13 DEF Check
<1>14. CASE Fail
  BY <1>14 DEF Fail
<1>15. CASE Leave
  BY <1>15 DEF Leave
<1>16. CASE Forget
  BY <1>16 DEF Forget
<1>17. CASE CheckDone
  BY <1>17 DEF CheckDone
<1>18. CASE DetachHeard
  BY <1>18 DEF DetachHeard
<1>19. CASE HeardRefilled
  BY <1>19 DEF HeardRefilled
<1>20. CASE ReattachHeard
  BY <1>20 DEF ReattachHeard
<1>21. CASE LiveSize
  BY <1>21 DEF LiveSize
<1>22. CASE DetachLive
  BY <1>22 DEF DetachLive
<1>23. CASE LiveRefilled
  BY <1>23 DEF LiveRefilled
<1>24. CASE ReattachLive
  BY <1>24 DEF ReattachLive
<1>25. CASE ClearHeard
  BY <1>25 DEF ClearHeard
<1>26. CASE ClearLive
  BY <1>26 DEF ClearLive
<1>27. CASE UNCHANGED vars
  BY <1>27 DEF vars
<1>28. QED
  BY <1>1, <1>2, <1>3, <1>4, <1>5, <1>6, <1>7, <1>8, <1>9, <1>10, <1>11, <1>12, <1>13, <1>14, <1>15, <1>16,
     <1>17, <1>18, <1>19, <1>20, <1>21, <1>22, <1>23, <1>24, <1>25, <1>26, <1>27 DEF Next, Receiver, Sender

LEMMA SenderTypes ==
  ASSUME IInv, [Next]_vars
  PROVE  SenderTyped'
<1> USE HeartbeatAssumption, TypesSplit, ZeroIsATime
        DEF peerVars, tables, receiver, sender, Sweeping, Asleep, Unswept, Outside, Onward, AfterLive, Mishap,
            HeartbeatAssumption, IInv, PeerTyped, SenderTyped
<1>1. CASE Peer
  BY <1>1 DEF Peer, SendBeat, SwitchLayer, Die, Start, Lose, Age
<1>2. CASE Receive
  BY <1>2 DEF Receive
<1>3. CASE ReadLive
  BY <1>3 DEF ReadLive
<1>4. CASE ReadHeard
  BY <1>4 DEF ReadHeard
<1>5. CASE FetchLive
  BY <1>5 DEF FetchLive
<1>6. CASE PutLive
  BY <1>6 DEF PutLive
<1>7. CASE Confirm
  BY <1>7 DEF Confirm
<1>8. CASE Join
  BY <1>8 DEF Join
<1>9. CASE FetchHeard
  BY <1>9 DEF FetchHeard
<1>10. CASE PutHeard
  BY <1>10 DEF PutHeard
<1>11. CASE BeginSweep
  BY <1>11 DEF BeginSweep
<1>12. CASE SendFails
  <2>1. /\ outages < MaxOutages /\ outages' = outages + 1 /\ online' = FALSE
        /\ UNCHANGED <<failing, hasTimeout>>
    BY <1>12 DEF SendFails
  <2>2. /\ spc' \in {spc, "clearHeard", "check"} /\ cut' \in {cut, MaxTime}
        /\ toCheck' \in {toCheck, Layers}
    BY <1>12 DEF SendFails
  <2>3. outages' \in 0..MaxOutages
    BY <2>1
  <2>4. QED
    BY <2>1, <2>2, <2>3
<1>13. CASE Check
  BY <1>13, Values DEF Check
<1>14. CASE Fail
  BY <1>14 DEF Fail
<1>15. CASE Leave
  BY <1>15 DEF Leave
<1>16. CASE Forget
  BY <1>16 DEF Forget
<1>17. CASE CheckDone
  <2>1. spc' \in {"detachHeard", "liveSize", "sleep", "clearHeard"} /\ UNCHANGED <<online, outages, cut>>
    BY <1>17 DEF CheckDone
  <2>2. Asleep \/ UNCHANGED <<toCheck, failing, hasTimeout>>
    BY <1>17 DEF CheckDone
  <2>3. Asleep => toCheck' = {} /\ hasTimeout' = FALSE /\ failing' \in [layer : Layers, value : Times]
    OBVIOUS
  <2>4. QED
    BY <2>1, <2>2, <2>3
<1>18. CASE DetachHeard
  BY <1>18 DEF DetachHeard
<1>19. CASE HeardRefilled
  BY <1>19 DEF HeardRefilled
<1>20. CASE ReattachHeard
  BY <1>20 DEF ReattachHeard
<1>21. CASE LiveSize
  <2>1. spc' \in {"detachLive", "sleep"} /\ UNCHANGED <<online, outages, cut>>
    BY <1>21 DEF LiveSize
  <2>2. Asleep \/ UNCHANGED <<toCheck, failing, hasTimeout>>
    BY <1>21 DEF LiveSize
  <2>3. Asleep => toCheck' = {} /\ hasTimeout' = FALSE /\ failing' \in [layer : Layers, value : Times]
    OBVIOUS
  <2>4. QED
    BY <2>1, <2>2, <2>3
<1>22. CASE DetachLive
  BY <1>22 DEF DetachLive
<1>23. CASE LiveRefilled
  <2>1. spc' \in {"sleep", "reattachLive"} /\ UNCHANGED <<online, outages, cut>>
    BY <1>23 DEF LiveRefilled
  <2>2. Asleep \/ UNCHANGED <<toCheck, failing, hasTimeout>>
    BY <1>23 DEF LiveRefilled
  <2>3. Asleep => toCheck' = {} /\ hasTimeout' = FALSE /\ failing' \in [layer : Layers, value : Times]
    OBVIOUS
  <2>4. QED
    BY <2>1, <2>2, <2>3
<1>24. CASE ReattachLive
  BY <1>24 DEF ReattachLive
<1>25. CASE ClearHeard
  BY <1>25 DEF ClearHeard
<1>26. CASE ClearLive
  BY <1>26 DEF ClearLive
<1>27. CASE UNCHANGED vars
  BY <1>27 DEF vars
<1>28. QED
  BY <1>1, <1>2, <1>3, <1>4, <1>5, <1>6, <1>7, <1>8, <1>9, <1>10, <1>11, <1>12, <1>13, <1>14, <1>15, <1>16,
     <1>17, <1>18, <1>19, <1>20, <1>21, <1>22, <1>23, <1>24, <1>25, <1>26, <1>27 DEF Next, Receiver, Sender

\* The parts of the invariant: numbers above 0,
LEMMA Numbers ==
  ASSUME IInv, [Next]_vars
  PROVE  Numbered'
<1> USE TypesSplit
        DEF peerVars, tables, receiver, sender, Sweeping, Asleep, Unswept, Outside, Onward, AfterLive, Mishap,
            IInv, PeerTyped, Numbered, Times
<1>1. CASE Peer
  BY <1>1 DEF Peer, SendBeat, SwitchLayer, Die, Start, Lose, Age
<1>2. CASE Receive
  BY <1>2 DEF Receive
<1>3. CASE ReadLive
  BY <1>3 DEF ReadLive
<1>4. CASE ReadHeard
  BY <1>4 DEF ReadHeard
<1>5. CASE FetchLive
  BY <1>5 DEF FetchLive
<1>6. CASE PutLive
  BY <1>6 DEF PutLive
<1>7. CASE Confirm
  BY <1>7 DEF Confirm
<1>8. CASE Join
  BY <1>8 DEF Join
<1>9. CASE FetchHeard
  BY <1>9 DEF FetchHeard
<1>10. CASE PutHeard
  BY <1>10 DEF PutHeard
<1>11. CASE BeginSweep
  BY <1>11 DEF BeginSweep
<1>12. CASE SendFails
  BY <1>12 DEF SendFails
<1>13. CASE Check
  BY <1>13 DEF Check
<1>14. CASE Fail
  BY <1>14 DEF Fail
<1>15. CASE Leave
  BY <1>15 DEF Leave
<1>16. CASE Forget
  BY <1>16 DEF Forget
<1>17. CASE CheckDone
  BY <1>17 DEF CheckDone
<1>18. CASE DetachHeard
  BY <1>18 DEF DetachHeard
<1>19. CASE HeardRefilled
  BY <1>19 DEF HeardRefilled
<1>20. CASE ReattachHeard
  BY <1>20 DEF ReattachHeard
<1>21. CASE LiveSize
  BY <1>21 DEF LiveSize
<1>22. CASE DetachLive
  BY <1>22 DEF DetachLive
<1>23. CASE LiveRefilled
  BY <1>23 DEF LiveRefilled
<1>24. CASE ReattachLive
  BY <1>24 DEF ReattachLive
<1>25. CASE ClearHeard
  BY <1>25 DEF ClearHeard
<1>26. CASE ClearLive
  BY <1>26 DEF ClearLive
<1>27. CASE UNCHANGED vars
  BY <1>27 DEF vars
<1>28. QED
  BY <1>1, <1>2, <1>3, <1>4, <1>5, <1>6, <1>7, <1>8, <1>9, <1>10, <1>11, <1>12, <1>13, <1>14, <1>15, <1>16,
     <1>17, <1>18, <1>19, <1>20, <1>21, <1>22, <1>23, <1>24, <1>25, <1>26, <1>27 DEF Next, Receiver, Sender

\* what the sweep holds,
LEMMA HoldsStay ==
  ASSUME IInv, [Next]_vars
  PROVE  Holds'
<1> USE ZeroIsATime
        DEF peerVars, tables, receiver, sender, Sweeping, Asleep, Unswept, Outside, Onward, AfterLive, Mishap,
            IInv, Holds, Finishing
<1>1. CASE Peer
  BY <1>1, Getting DEF Peer, SendBeat, SwitchLayer, Die, Start, Lose, Age
<1>2. CASE Receive
  BY <1>2, Getting DEF Receive
<1>3. CASE ReadLive
  BY <1>3, Getting DEF ReadLive
<1>4. CASE ReadHeard
  BY <1>4, Getting DEF ReadHeard
<1>5. CASE FetchLive
  BY <1>5, Getting DEF FetchLive
<1>6. CASE PutLive
  BY <1>6, Getting DEF PutLive
<1>7. CASE Confirm
  BY <1>7, Getting DEF Confirm
<1>8. CASE Join
  BY <1>8, Getting DEF Join
<1>9. CASE FetchHeard
  BY <1>9, Getting DEF FetchHeard
<1>10. CASE PutHeard
  BY <1>10, Getting DEF PutHeard
<1>11. CASE BeginSweep
  BY <1>11, Getting DEF BeginSweep
<1>12. CASE SendFails
  BY <1>12, Getting DEF SendFails
<1>13. CASE Check
  BY <1>13, Getting DEF Check
<1>14. CASE Fail
  BY <1>14, Getting DEF Fail
<1>15. CASE Leave
  BY <1>15, Getting DEF Leave
<1>16. CASE Forget
  BY <1>16, Getting DEF Forget
<1>17. CASE CheckDone
  BY <1>17, Getting DEF CheckDone
<1>18. CASE DetachHeard
  BY <1>18, Getting DEF DetachHeard
<1>19. CASE HeardRefilled
  BY <1>19, Getting DEF HeardRefilled
<1>20. CASE ReattachHeard
  BY <1>20, Getting DEF ReattachHeard
<1>21. CASE LiveSize
  BY <1>21, Getting DEF LiveSize
<1>22. CASE DetachLive
  BY <1>22, Getting DEF DetachLive
<1>23. CASE LiveRefilled
  BY <1>23, Getting DEF LiveRefilled
<1>24. CASE ReattachLive
  BY <1>24, Getting DEF ReattachLive
<1>25. CASE ClearHeard
  BY <1>25, Getting DEF ClearHeard
<1>26. CASE ClearLive
  BY <1>26, Getting DEF ClearLive
<1>27. CASE UNCHANGED vars
  BY <1>27 DEF vars
<1>28. QED
  BY <1>1, <1>2, <1>3, <1>4, <1>5, <1>6, <1>7, <1>8, <1>9, <1>10, <1>11, <1>12, <1>13, <1>14, <1>15, <1>16,
     <1>17, <1>18, <1>19, <1>20, <1>21, <1>22, <1>23, <1>24, <1>25, <1>26, <1>27 DEF Next, Receiver, Sender

\* the empty maps,
LEMMA UnheldAreEmpty ==
  ASSUME IInv, [Next]_vars
  PROVE  Unheld'
<1> USE TypesSplit, ZeroIsATime
        DEF peerVars, tables, receiver, sender, Sweeping, Asleep, Unswept, Outside, Onward, AfterLive, Mishap,
            IInv, Unheld, Held, MapsTyped, ReceiverTyped, Holds, Finishing
<1>1. CASE Peer
  BY <1>1 DEF Peer, SendBeat, SwitchLayer, Die, Start, Lose, Age
<1>2. CASE Receive
  BY <1>2 DEF Receive
<1>3. CASE ReadLive
  BY <1>3, Getting DEF ReadLive
<1>4. CASE ReadHeard
  BY <1>4, Getting DEF ReadHeard
<1>5. CASE FetchLive
  BY <1>5, Getting DEF FetchLive
<1>6. CASE PutLive
  BY <1>6, Puts
<1>7. CASE Confirm
  BY <1>7, Getting DEF Confirm
<1>8. CASE Join
  BY <1>8 DEF Join
<1>9. CASE FetchHeard
  BY <1>9, Getting DEF FetchHeard
<1>10. CASE PutHeard
  BY <1>10, Puts
<1>11. CASE BeginSweep
  BY <1>11 DEF BeginSweep
<1>12. CASE SendFails
  BY <1>12 DEF SendFails
<1>13. CASE Check
  BY <1>13 DEF Check
<1>14. CASE Fail
  BY <1>14, Removes DEF Fail
<1>15. CASE Leave
  BY <1>15 DEF Leave
<1>16. CASE Forget
  BY <1>16, Getting, Removes DEF Forget
<1>17. CASE CheckDone
  BY <1>17 DEF CheckDone
<1>18. CASE DetachHeard
  BY <1>18 DEF DetachHeard
<1>19. CASE HeardRefilled
  BY <1>19 DEF HeardRefilled
<1>20. CASE ReattachHeard
  BY <1>20, Merges DEF ReattachHeard
<1>21. CASE LiveSize
  BY <1>21, Getting, Collecting DEF LiveSize
<1>22. CASE DetachLive
  BY <1>22 DEF DetachLive
<1>23. CASE LiveRefilled
  BY <1>23, Getting, Collecting DEF LiveRefilled
<1>24. CASE ReattachLive
  BY <1>24, Merges, Collecting DEF ReattachLive
<1>25. CASE ClearHeard
  BY <1>25, Getting, Collecting DEF ClearHeard
<1>26. CASE ClearLive
  BY <1>26, Getting, Collecting DEF ClearLive
<1>27. CASE UNCHANGED vars
  BY <1>27 DEF vars
<1>28. QED
  BY <1>1, <1>2, <1>3, <1>4, <1>5, <1>6, <1>7, <1>8, <1>9, <1>10, <1>11, <1>12, <1>13, <1>14, <1>15, <1>16,
     <1>17, <1>18, <1>19, <1>20, <1>21, <1>22, <1>23, <1>24, <1>25, <1>26, <1>27 DEF Next, Receiver, Sender

\* the maps that the tables do not share,
LEMMA ApartStays ==
  ASSUME IInv, [Next]_vars
  PROVE  Apart'
<1> USE TypesSplit, ZeroIsATime
        DEF peerVars, tables, receiver, sender, Sweeping, Asleep, Unswept, Outside, Onward, AfterLive, Mishap,
            IInv, Apart, No, Held, MapsTyped, ReceiverTyped, Holds, Finishing
<1>1. CASE Peer
  BY <1>1, Getting DEF Peer, SendBeat, SwitchLayer, Die, Start, Lose, Age
<1>2. CASE Receive
  BY <1>2, Getting DEF Receive
<1>3. CASE ReadLive
  BY <1>3, Getting DEF ReadLive
<1>4. CASE ReadHeard
  BY <1>4, Getting DEF ReadHeard
<1>5. CASE FetchLive
  BY <1>5, Getting DEF FetchLive
<1>6. CASE PutLive
  BY <1>6, Getting DEF PutLive
<1>7. CASE Confirm
  BY <1>7, Getting DEF Confirm
<1>8. CASE Join
  BY <1>8, Getting DEF Join
<1>9. CASE FetchHeard
  BY <1>9, Getting DEF FetchHeard
<1>10. CASE PutHeard
  BY <1>10, Getting DEF PutHeard
<1>11. CASE BeginSweep
  BY <1>11, Getting DEF BeginSweep
<1>12. CASE SendFails
  BY <1>12, Getting DEF SendFails
<1>13. CASE Check
  BY <1>13, Getting DEF Check
<1>14. CASE Fail
  BY <1>14, Getting DEF Fail
<1>15. CASE Leave
  BY <1>15, Getting DEF Leave
<1>16. CASE Forget
  BY <1>16, Getting DEF Forget
<1>17. CASE CheckDone
  BY <1>17, Getting DEF CheckDone
<1>18. CASE DetachHeard
  BY <1>18, Getting DEF DetachHeard
<1>19. CASE HeardRefilled
  BY <1>19, Getting DEF HeardRefilled
<1>20. CASE ReattachHeard
  BY <1>20, Getting DEF ReattachHeard
<1>21. CASE LiveSize
  BY <1>21, Getting DEF LiveSize
<1>22. CASE DetachLive
  BY <1>22, Getting DEF DetachLive
<1>23. CASE LiveRefilled
  BY <1>23, Getting DEF LiveRefilled
<1>24. CASE ReattachLive
  BY <1>24, Getting DEF ReattachLive
<1>25. CASE ClearHeard
  BY <1>25, Getting DEF ClearHeard
<1>26. CASE ClearLive
  BY <1>26, Getting DEF ClearLive
<1>27. CASE UNCHANGED vars
  BY <1>27 DEF vars
<1>28. QED
  BY <1>1, <1>2, <1>3, <1>4, <1>5, <1>6, <1>7, <1>8, <1>9, <1>10, <1>11, <1>12, <1>13, <1>14, <1>15, <1>16,
     <1>17, <1>18, <1>19, <1>20, <1>21, <1>22, <1>23, <1>24, <1>25, <1>26, <1>27 DEF Next, Receiver, Sender

\* the last heard time of a peer on the ring: the sweep takes it away only with the ring's,
LEMMA HeardStays ==
  ASSUME IInv, [Next]_vars
  PROVE  Heard'
<1> USE TypesSplit, ZeroIsATime
        DEF peerVars, tables, receiver, sender, Sweeping, Asleep, Unswept, Outside, Onward, AfterLive, Mishap,
            IInv, Heard, Filled, IsEmpty, Ghosting, No, Held, MapsTyped, ReceiverTyped, Holds, Finishing
<1>1. CASE Peer
  BY <1>1 DEF Peer, SendBeat, SwitchLayer, Die, Start, Lose, Age
<1>2. CASE Receive
  BY <1>2 DEF Receive
<1>3. CASE ReadLive
  BY <1>3, Getting DEF ReadLive
<1>4. CASE ReadHeard
  BY <1>4, Getting DEF ReadHeard
<1>5. CASE FetchLive
  BY <1>5, Getting DEF FetchLive
<1>6. CASE PutLive
  <2>1. /\ UNCHANGED <<heard, lastHeard, spc, ring, mishaps>> /\ rpc = "putLive"
        /\ \A m \in {heard, lastHeard} : Filled(m) => maps'[m] # Blank
    BY <1>6, StillFilled DEF PutLive
  <2>2. QED
    BY <2>1
<1>7. CASE Confirm
  BY <1>7, Getting DEF Confirm
<1>8. CASE Join
  <2>1. CASE knownTime = 0 \/ beat.sent > knownTime
    BY <1>8, <2>1 DEF Join
  <2>2. CASE ~(knownTime = 0 \/ beat.sent > knownTime)
    <3>1. knownTime >= beat.sent
      BY <2>2 DEF PeerTyped, Beats, Times
    <3>2. Value(heard, layer) = 0 => "stale" \in mishaps'
      BY <1>8, <3>1 DEF Join
    <3>3. Value(heard, layer) # 0 => Filled(heard)
      BY FilledSomewhere DEF Value
    <3>4. QED
      BY <1>8, <3>2, <3>3 DEF Join
  <2>3. QED
    BY <2>1, <2>2
<1>9. CASE FetchHeard
  BY <1>9, Getting DEF FetchHeard
<1>10. CASE PutHeard
  \* The time is in the table's map, or else the accident has a name.
  <2>1. putInto # heard => "detachedHeard" \in mishaps'
    BY <1>10 DEF PutHeard
  <2>2. putInto = heard => heard' = heard /\ heard # NoMap /\ maps'[heard] # Blank
    BY <1>10, Puts, FilledNext
  <2>3. QED
    BY <2>1, <2>2
<1>11. CASE BeginSweep
  BY <1>11 DEF BeginSweep
<1>12. CASE SendFails
  BY <1>12 DEF SendFails
<1>13. CASE Check
  BY <1>13 DEF Check
<1>14. CASE Fail
  BY <1>14 DEF Fail
<1>15. CASE Leave
  BY <1>15 DEF Leave
<1>16. CASE Forget
  BY <1>16, Removes DEF Forget, Apart
<1>17. CASE CheckDone
  BY <1>17 DEF CheckDone
<1>18. CASE DetachHeard
  BY <1>18 DEF DetachHeard
<1>19. CASE HeardRefilled
  BY <1>19 DEF HeardRefilled
<1>20. CASE ReattachHeard
  <2>1. CASE heard = NoMap
    BY <1>20, <2>1 DEF ReattachHeard
  <2>2. CASE heard # NoMap
    <3>1. maps' = Merged(lastHeard, heard) /\ UNCHANGED <<heard, ring, rpc, mishaps>> /\ spc = "reattachHeard"
      BY <1>20, <2>2 DEF ReattachHeard
    <3>2. Filled(heard) \/ Filled(lastHeard) => maps'[heard] # Blank
      BY <2>2, <3>1, Merges, FilledSomewhere, FilledNext
    <3>3. QED
      BY <2>2, <3>1, <3>2
  <2>3. QED
    BY <2>1, <2>2
<1>21. CASE LiveSize
  BY <1>21, Getting, Collecting DEF LiveSize
<1>22. CASE DetachLive
  BY <1>22 DEF DetachLive
<1>23. CASE LiveRefilled
  BY <1>23, Getting, Collecting DEF LiveRefilled
<1>24. CASE ReattachLive
  <2>1. live = NoMap => "wrongMap" \in mishaps'
    BY <1>24 DEF ReattachLive
  <2>2. CASE live # NoMap
    <3>1. /\ maps' = Collected(Merged(liveTimes, live), {heard, live, putInto})
          /\ UNCHANGED <<heard, ring, rpc, mishaps>> /\ spc = "reattachLive" /\ liveTimes # NoMap
      BY <1>24, <2>2 DEF ReattachLive
    <3>2. No(Ghosting) => heard # live
      BY <2>2 DEF Apart
    <3>3. heard \in MapIds /\ heard # live => maps'[heard] = maps[heard]
      BY <2>2, <3>1, Merges, Collecting
    <3>4. QED
      BY <3>1, <3>2, <3>3
  <2>3. QED
    BY <2>1, <2>2
<1>25. CASE ClearHeard
  BY <1>25, Getting, Collecting DEF ClearHeard
<1>26. CASE ClearLive
  BY <1>26, Getting, Collecting DEF ClearLive
<1>27. CASE UNCHANGED vars
  BY <1>27 DEF vars
<1>28. QED
  BY <1>1, <1>2, <1>3, <1>4, <1>5, <1>6, <1>7, <1>8, <1>9, <1>10, <1>11, <1>12, <1>13, <1>14, <1>15, <1>16,
     <1>17, <1>18, <1>19, <1>20, <1>21, <1>22, <1>23, <1>24, <1>25, <1>26, <1>27 DEF Next, Receiver, Sender

\* and no live time off the ring: the receiver puts it on the ring after its live time.
LEMMA LivedStays ==
  ASSUME IInv, [Next]_vars
  PROVE  Lived'
<1> USE TypesSplit, ZeroIsATime
        DEF peerVars, tables, receiver, sender, Sweeping, Asleep, Unswept, Outside, Onward, AfterLive, Mishap,
            IInv, Lived, Value, Filled, IsEmpty, Hiding, No, Held, MapsTyped, ReceiverTyped, Holds, Finishing
<1>1. CASE Peer
  BY <1>1 DEF Peer, SendBeat, SwitchLayer, Die, Start, Lose, Age
<1>2. CASE Receive
  BY <1>2 DEF Receive
<1>3. CASE ReadLive
  <2>1. live = NoMap => /\ live' \in MapIds /\ maps'[live'] = Blank
                        /\ \A l \in Layers : maps'[live'][l] = 0
    BY <1>3, Getting DEF ReadLive, Blank
  <2>2. live # NoMap => live' = live
    BY <1>3, Getting DEF ReadLive
  <2>3. QED
    BY <1>3, <2>1, <2>2 DEF ReadLive
<1>4. CASE ReadHeard
  BY <1>4, Getting DEF ReadHeard
<1>5. CASE FetchLive
  <2>1. live = NoMap => /\ live' \in MapIds /\ maps'[live'] = Blank
                        /\ \A l \in Layers : maps'[live'][l] = 0
    BY <1>5, Getting DEF FetchLive, Blank
  <2>2. live # NoMap => live' = live
    BY <1>5, Getting DEF FetchLive
  <2>3. QED
    BY <1>5, <2>1, <2>2 DEF FetchLive
<1>6. CASE PutLive
  BY <1>6 DEF PutLive
<1>7. CASE Confirm
  <2>1. rpc' = "join" \/ "unconfirmed" \in mishaps'
    BY <1>7 DEF Confirm, Numbered
  <2>2. QED
    BY <2>1
<1>8. CASE Join
  <2>1. ring' # 0
    BY <1>8 DEF Join, PeerTyped
  <2>2. QED
    BY <2>1
<1>9. CASE FetchHeard
  BY <1>9, Getting DEF FetchHeard
<1>10. CASE PutHeard
  <2>1. /\ UNCHANGED <<live, liveTimes, ring, spc, failing>> /\ rpc = "putHeard"
        /\ No(Hiding)' => No(Hiding)
    BY <1>10 DEF PutHeard
  <2>2. No(Hiding) => putInto \notin {live, liveTimes}
    BY <2>1 DEF Apart
  <2>3. No(Hiding) => \A m \in {live, liveTimes} \ {NoMap} : maps'[m] = maps[m]
    BY <1>10, <2>2, Puts
  <2>4. QED
    BY <2>1, <2>3
<1>11. CASE BeginSweep
  BY <1>11 DEF BeginSweep
<1>12. CASE SendFails
  BY <1>12 DEF SendFails
<1>13. CASE Check
  BY <1>13 DEF Check
<1>14. CASE Fail
  <2>1. CASE maps' = Put(heard, failing.layer, 0)
    <3>1. UNCHANGED <<live, liveTimes, ring, rpc, mishaps>> /\ spc = "fail" /\ spc' # "forget" /\ heard # NoMap
      BY <1>14 DEF Fail
    <3>2. No(Hiding) => live # heard /\ liveTimes = NoMap
      BY <3>1 DEF Apart
    <3>3. live \in MapIds /\ live # heard => maps'[live] = maps[live]
      BY <2>1, <3>1, Removes
    <3>4. QED
      BY <3>1, <3>2, <3>3
  <2>2. CASE maps' = maps
    BY <1>14, <2>2 DEF Fail
  <2>3. QED
    BY <1>14, <2>1, <2>2 DEF Fail
<1>15. CASE Leave
  BY <1>15 DEF Leave
<1>16. CASE Forget
  <2>1. UNCHANGED <<liveTimes, ring, rpc, mishaps>> /\ spc = "forget" /\ spc' = "check" /\ liveTimes = NoMap
    BY <1>16 DEF Forget
  <2>2. CASE live = NoMap
    BY <1>16, <2>1, <2>2, Getting DEF Forget
  <2>3. CASE live # NoMap
    <3>1. maps' = Put(live, failing.layer, 0) /\ live' = live
      BY <1>16, <2>3, Getting DEF Forget
    <3>2. (\A l \in Layers \ {failing.layer} : Value(live, l) = 0) => maps'[live] = Blank
      BY <2>3, <3>1, Removes, FilledNext
    <3>3. QED
      BY <2>1, <3>1, <3>2
  <2>4. QED
    BY <2>2, <2>3
<1>17. CASE CheckDone
  BY <1>17 DEF CheckDone
<1>18. CASE DetachHeard
  BY <1>18 DEF DetachHeard
<1>19. CASE HeardRefilled
  BY <1>19 DEF HeardRefilled
<1>20. CASE ReattachHeard
  <2>1. UNCHANGED <<live, liveTimes, ring, rpc, mishaps>> /\ spc = "reattachHeard" /\ spc' # "forget"
        /\ liveTimes = NoMap /\ lastHeard # NoMap
    BY <1>20 DEF ReattachHeard
  <2>2. CASE heard = NoMap
    BY <1>20, <2>1, <2>2 DEF ReattachHeard
  <2>3. CASE heard # NoMap
    <3>1. maps' = Merged(lastHeard, heard)
      BY <1>20, <2>3 DEF ReattachHeard
    <3>2. No(Hiding) /\ live # NoMap => live # heard
      BY DEF Apart
    <3>3. live \in MapIds /\ live # heard => maps'[live] = maps[live]
      BY <2>1, <2>3, <3>1, Merges
    <3>4. QED
      BY <2>1, <3>2, <3>3
  <2>4. QED
    BY <2>2, <2>3
<1>21. CASE LiveSize
  BY <1>21, Getting, Collecting DEF LiveSize
<1>22. CASE DetachLive
  BY <1>22 DEF DetachLive
<1>23. CASE LiveRefilled
  BY <1>23, Getting, Collecting DEF LiveRefilled
<1>24. CASE ReattachLive
  <2>1. live = NoMap => "wrongMap" \in mishaps'
    BY <1>24 DEF ReattachLive
  <2>2. CASE live # NoMap
    <3>1. /\ maps' = Collected(Merged(liveTimes, live), {heard, live, putInto})
          /\ UNCHANGED <<live, ring, rpc, mishaps>> /\ spc = "reattachLive" /\ liveTimes # NoMap
          /\ spc' = "sleep" /\ liveTimes' = NoMap
      BY <1>24, <2>2 DEF ReattachLive
    <3>2. live \in MapIds /\ maps' \in Maps /\ maps'[live] = Merged(liveTimes, live)[live]
      BY <2>2, <3>1, Merges, Collecting
    <3>3. ~Filled(live) /\ ~Filled(liveTimes) => maps'[live] = Blank
      <4>1. live \in MapIds /\ liveTimes \in MapIds
        BY <3>1, <3>2
      <4>2. ~Filled(live) /\ ~Filled(liveTimes) =>
              \A l \in Layers : maps[live][l] = 0 /\ maps[liveTimes][l] = 0
        BY <4>1, FilledSomewhere
      <4>3. \A l \in Layers : Merged(liveTimes, live)[live][l] =
              IF maps[live][l] = 0 THEN maps[liveTimes][l] ELSE maps[live][l]
        BY <2>2, <3>1, Merges
      <4>4. QED
        BY <3>2, <4>1, <4>2, <4>3, FilledNext
    <3>4. QED
      BY <3>1, <3>3
  <2>3. QED
    BY <2>1, <2>2
<1>25. CASE ClearHeard
  BY <1>25, Getting, Collecting DEF ClearHeard
<1>26. CASE ClearLive
  BY <1>26, Getting, Collecting DEF ClearLive
<1>27. CASE UNCHANGED vars
  BY <1>27 DEF vars
<1>28. QED
  BY <1>1, <1>2, <1>3, <1>4, <1>5, <1>6, <1>7, <1>8, <1>9, <1>10, <1>11, <1>12, <1>13, <1>14, <1>15, <1>16,
     <1>17, <1>18, <1>19, <1>20, <1>21, <1>22, <1>23, <1>24, <1>25, <1>26, <1>27 DEF Next, Receiver, Sender

LEMMA Begins == Init => IInv
<1> SUFFICES ASSUME Init PROVE IInv
  OBVIOUS
<1> USE DEF Init
<1>1. TypeOK
  <2>1. maps \in Maps
    BY ZeroIsATime DEF Maps
  <2>2. 0 \in Times /\ 1 \in Times
    BY HeartbeatAssumption DEF HeartbeatAssumption, Times
  <2>3. MapsTyped
    BY <2>1 DEF MapsTyped
  <2>4. PeerTyped
    BY <2>2, HeartbeatAssumption DEF HeartbeatAssumption, PeerTyped
  <2>5. NoBeat \in Beats /\ ReceiverTyped
    BY <2>2, HeartbeatAssumption DEF HeartbeatAssumption, ReceiverTyped, NoBeat, Beats
  <2>6. SenderTyped
    <3>1. failing \in [layer : Layers, value : Times] /\ cut \in Times
      BY <2>2, HeartbeatAssumption DEF HeartbeatAssumption
    <3>2. outages \in 0..MaxOutages
      BY HeartbeatAssumption DEF HeartbeatAssumption
    <3>3. QED
      BY <3>1, <3>2 DEF SenderTyped
  <2>7. QED
    BY <2>3, <2>4, <2>5, <2>6, TypesSplit
<1>2. Numbered /\ Holds /\ Unheld /\ Apart /\ Heard
  BY ZeroIsATime DEF Numbered, Holds, Finishing, Unheld, Apart, Heard, No
<1>3. Lived
  BY DEF Lived, Filled, NoMap
<1>4. QED
  BY <1>1, <1>2, <1>3 DEF IInv

LEMMA Inductive == IInv /\ [Next]_vars => IInv'
<1> SUFFICES ASSUME IInv, [Next]_vars PROVE IInv'
  OBVIOUS
<1>1. PeerTyped' /\ MapsTyped' /\ ReceiverTyped' /\ SenderTyped'
  BY PeerTypes, MapsTypes, ReceiverTypes, SenderTypes
<1>2. TypeOK'
  BY <1>1 DEF TypeOK, PeerTyped, MapsTyped, ReceiverTyped, SenderTyped, Maps
<1>3. QED
  BY <1>2, Numbers, HoldsStay, UnheldAreEmpty, ApartStays, HeardStays, LivedStays DEF IInv

THEOREM Invariant == Spec => []IInv
BY Begins, Inductive, PTL DEF Spec

-----------------------------------------------------------------------------
\* While neither thread is at work, a peer on the ring has a last heard time, by which
\* the sweep will miss it, unless one of the named accidents has happened (onFailure(),
\* the sweep and onHeartbeat() together).
THEOREM PeersAreWatched == Spec => []Watched
<1>1. IInv => Watched
  BY DEF IInv, Heard, Watched, Idle, Filled
<1>2. QED
  BY <1>1, Invariant, PTL

\* While neither thread is at work, a peer off the ring has no live time that would keep
\* its next beat from being a discovery (onHeartbeat(), onDiscovery(), onFailure()).
THEOREM PeersCanBeFound == Spec => []Findable
<1>1. IInv => Findable
  BY DEF IInv, Lived, Findable, Idle, Filled
<1>2. QED
  BY <1>1, Invariant, PTL

-----------------------------------------------------------------------------
(* ClusterRing: numbers, for the probes.                                   *)

\* A set of numbers that has something has a least.
LEMMA Least ==
  ASSUME NEW S, S \subseteq Nat, S # {}
  PROVE  \E x \in S : \A y \in S : x <= y
<1>1. IsWellFoundedOn(OpToRel(<, Nat), Nat)
  BY NatLessThanWellFounded
<1>2. PICK x \in S : \A y \in S : ~(<<y, x>> \in OpToRel(<, Nat))
  BY <1>1, WFMin
<1>3. \A y \in S : ~(y < x)
  BY <1>2 DEF OpToRel
<1> QED
  BY <1>3

LEMMA Induction ==
  ASSUME NEW S, 0 \in S, \A n \in Nat : n \in S => n + 1 \in S
  PROVE  \A n \in Nat : n \in S
<1>1. SUFFICES ASSUME Nat \ S # {} PROVE FALSE
  OBVIOUS
<1>2. PICK x \in Nat \ S : \A y \in Nat \ S : x <= y
  BY <1>1, Least
<1>3. x - 1 \in Nat /\ x - 1 \in S
  BY <1>2
<1> QED
  BY <1>2, <1>3

-----------------------------------------------------------------------------
(* Slots.                                                                  *)

LEMMA ModUnique ==
  ASSUME NEW n \in Nat \ {0}, NEW q \in Int, NEW i \in 0..n-1
  PROVE  (q * n + i) % n = i
<1> DEFINE x == q * n + i
           e == x \div n
<1>1. x \in Int /\ e \in Int /\ x % n \in 0..n-1 /\ x = n * e + (x % n)
  OBVIOUS
<1>2. n * (e - q) = i - (x % n)
  BY <1>1
<1>3. e - q = 0
  <2>1. CASE e - q >= 1
    <3>1. n * (e - q) >= n
      BY <1>1, <2>1
    <3> QED
      BY <1>1, <1>2, <3>1
  <2>2. CASE e - q <= -1
    <3>1. n * (e - q) <= -n
      BY <1>1, <2>2
    <3> QED
      BY <1>1, <1>2, <3>1
  <2> QED
    BY <1>1, <2>1, <2>2
<1> QED
  BY <1>1, <1>2, <1>3

\* Every slot is met within one round, from wherever the probe starts.
LEMMA Round ==
  ASSUME NEW n \in Nat \ {0}, NEW pos \in Nat, NEW i \in 0..n-1
  PROVE  \E d \in 0..n-1 : (pos + d) % n = i
<1> DEFINE q == pos \div n
           m == pos % n
<1>1. q \in Int /\ m \in 0..n-1 /\ pos = q * n + m
  OBVIOUS
<1> HIDE DEF q, m
<1>2. CASE i >= m
  <2>1. pos + (i - m) = q * n + i /\ i - m \in 0..n-1
    BY <1>1, <1>2
  <2> QED
    BY <1>1, <2>1, ModUnique
<1>3. CASE i < m
  <2>1. pos + (i - m + n) = (q + 1) * n + i /\ i - m + n \in 0..n-1 /\ q + 1 \in Int
    BY <1>1, <1>3
  <2> QED
    BY <1>1, <2>1, ModUnique
<1> QED
  BY <1>1, <1>2, <1>3

-----------------------------------------------------------------------------
(* Recursive functions.                                                    *)

\* f takes n steps from base, the i-th of them step[i].
Repeats(f, V, base, step, n) ==
  f \in [0..n -> V] /\ f[0] = base /\ \A i \in 1..n : f[i] = step[i][f[i-1]]

LEMMA Recursion ==
  ASSUME NEW V, NEW base \in V, NEW step \in [Nat -> [V -> V]], NEW n \in Nat
  PROVE  \E f : Repeats(f, V, base, step, n)
<1> DEFINE S == {m \in Nat : \E f : Repeats(f, V, base, step, m)}
<1>1. 0 \in S
  <2>1. PICK f \in [0..0 -> V] : f = [i \in 0..0 |-> base]
    OBVIOUS
  <2>2. Repeats(f, V, base, step, 0)
    BY <2>1 DEF Repeats
  <2> QED
    BY <2>1, <2>2
<1>2. ASSUME NEW m \in Nat, m \in S PROVE m + 1 \in S
  <2>1. PICK f : f \in [0..m -> V] /\ f[0] = base /\ \A i \in 1..m : f[i] = step[i][f[i-1]]
    BY <1>2 DEF Repeats
  <2> DEFINE g == [i \in 0..m+1 |-> IF i = m + 1 THEN step[m+1][f[m]] ELSE f[i]]
  <2>2. g \in [0..m+1 -> V]
    BY <2>1
  <2>3. g[0] = base
    BY <2>1
  <2>4. ASSUME NEW i \in 1..m+1 PROVE g[i] = step[i][g[i-1]]
    <3>1. CASE i = m + 1
      BY <3>1
    <3>2. CASE i # m + 1
      <4>1. i \in 1..m /\ i - 1 \in 0..m /\ i - 1 # m + 1 /\ i \in 0..m+1 /\ i - 1 \in 0..m+1
        BY <3>2
      <4>2. g[i] = f[i] /\ g[i-1] = f[i-1]
        BY <3>2, <4>1
      <4> QED
        BY <2>1, <4>1, <4>2
    <3> QED
      BY <3>1, <3>2
  <2> HIDE DEF g
  <2>5. Repeats(g, V, base, step, m + 1)
    BY <2>2, <2>3, <2>4 DEF Repeats
  <2> QED
    BY <2>5
<1> HIDE DEF S
<1>3. n \in S
  BY <1>1, <1>2, Induction
<1> QED
  BY <1>3 DEF S

-----------------------------------------------------------------------------
(* Arrays.                                                                 *)

Lines(n) == [0..n-1 -> Addresses \cup {Nothing}]
Arrays   == UNION {Lines(n) : n \in Nat \ {0}}

LEMMA Extent ==
  ASSUME NEW n \in Nat, NEW r \in Lines(n)
  PROVE  /\ Size(r) = n /\ DOMAIN r = 0..n-1
         /\ IsFiniteSet(Occupied(r)) /\ Cardinality(Occupied(r)) \in Nat /\ Cardinality(Occupied(r)) <= n
         /\ \A b : IsFiniteSet(Slots(r, b)) /\ Cardinality(Slots(r, b)) \in Nat
<1>1. DOMAIN r = 0..n-1 /\ 0 \in Int /\ n - 1 \in Int
  BY DEF Lines
<1>2. IsFiniteSet(0..n-1) /\ Cardinality(0..n-1) = n
  BY <1>1, FS_Interval
<1>3. Occupied(r) \in SUBSET (0..n-1) /\ \A b : Slots(r, b) \in SUBSET (0..n-1)
  BY <1>1 DEF Occupied, Slots
<1>4. IsFiniteSet(Occupied(r)) /\ Cardinality(Occupied(r)) <= n
  BY <1>2, <1>3, FS_Subset
<1>5. \A b : IsFiniteSet(Slots(r, b))
  BY <1>2, <1>3, FS_Subset
<1> QED
  BY <1>1, <1>2, <1>4, <1>5, FS_CardinalityType DEF Size

LEMMA PlaceType ==
  ASSUME NEW n \in Nat \ {0}, NEW r \in Lines(n), NEW pos, NEW a \in Addresses
  PROVE  Place(r, pos, a) \in Lines(n)
  BY DEF Place, Lines

Fills(r, s, a, n) == \E j \in 0..n-1 : r[j] = Nothing /\ s = [r EXCEPT ![j] = a]

\* Where there is room, one free slot is taken.
LEMMA Placing ==
  ASSUME NEW n \in Nat \ {0}, NEW r \in Lines(n), NEW pos \in Nat, NEW a \in Addresses,
         Cardinality(Occupied(r)) < n
  PROVE  Fills(r, Place(r, pos, a), a, n)
<1> DEFINE free == {d \in 0..n-1 : r[(pos + d) % n] = Nothing}
           nearest == CHOOSE d \in free : \A e \in free : d <= e
           about(d) == (pos + d) % Size(r)
           room     == {d \in 0..Size(r)-1 : r[about(d)] = Nothing}
           first    == CHOOSE d \in room : \A e \in room : d <= e
<1>1. Size(r) = n /\ DOMAIN r = 0..n-1
  BY Extent
<1>2. \E i \in 0..n-1 : r[i] = Nothing
  <2>1. SUFFICES ASSUME \A i \in 0..n-1 : r[i] # Nothing PROVE FALSE
    OBVIOUS
  <2>2. Occupied(r) = 0..n-1
    BY <1>1, <2>1 DEF Occupied
  <2>3. Cardinality(0..n-1) = n
    BY FS_Interval
  <2> QED
    BY <2>2, <2>3
<1>3. free # {}
  <2>1. PICK i \in 0..n-1 : r[i] = Nothing
    BY <1>2
  <2>2. PICK d \in 0..n-1 : (pos + d) % n = i
    BY Round
  <2> QED
    BY <2>1, <2>2
<1>4. free \subseteq Nat
  OBVIOUS
<1>5. \E d \in free : \A e \in free : d <= e
  <2> HIDE DEF free
  <2> QED
    BY <1>3, <1>4, Least
<1>6. nearest \in free
  <2> HIDE DEF free
  <2> QED
    BY <1>5
<1>7. Place(r, pos, a) = [r EXCEPT ![(pos + nearest) % n] = a]
  <2>1. Place(r, pos, a) = IF room = {} THEN r ELSE [r EXCEPT ![about(first)] = a]
    BY DEF Place
  <2>2. room = free
    BY <1>1
  <2> QED
    BY <1>1, <1>3, <2>1, <2>2
<1>8. (pos + nearest) % n \in 0..n-1 /\ r[(pos + nearest) % n] = Nothing
  <2> HIDE DEF nearest
  <2> QED
    BY <1>6
<1> QED
  BY <1>7, <1>8 DEF Fills

LEMMA PlaceCounts ==
  ASSUME NEW n \in Nat \ {0}, NEW r \in Lines(n), NEW pos \in Nat, NEW a \in Addresses,
         Cardinality(Occupied(r)) < n
  PROVE  /\ Cardinality(Occupied(Place(r, pos, a))) = Cardinality(Occupied(r)) + 1
         /\ \A b \in Addresses : Cardinality(Slots(Place(r, pos, a), b)) =
                                   Cardinality(Slots(r, b)) + (IF b = a THEN 1 ELSE 0)
<1>1. PICK j \in 0..n-1 : r[j] = Nothing /\ Place(r, pos, a) = [r EXCEPT ![j] = a]
  BY Placing DEF Fills
<1> DEFINE s == Place(r, pos, a)
<1>2. /\ DOMAIN r = 0..n-1 /\ DOMAIN s = 0..n-1 /\ s[j] = a /\ a # Nothing
      /\ \A i \in 0..n-1 : i # j => s[i] = r[i]
  BY <1>1, RingAssumption DEF Lines
<1> HIDE DEF s
<1>3. Occupied(s) = Occupied(r) \cup {j} /\ j \notin Occupied(r)
  BY <1>1, <1>2 DEF Occupied
<1>4. Slots(s, a) = Slots(r, a) \cup {j} /\ j \notin Slots(r, a)
  BY <1>1, <1>2 DEF Slots
<1>5. \A b \in Addresses : b # a => Slots(s, b) = Slots(r, b)
  BY <1>1, <1>2, RingAssumption DEF Slots
<1>6. IsFiniteSet(Occupied(r)) /\ \A b : IsFiniteSet(Slots(r, b)) /\ Cardinality(Slots(r, b)) \in Nat
  BY Extent
<1>7. Cardinality(Occupied(s)) = Cardinality(Occupied(r)) + 1
  BY <1>3, <1>6, FS_AddElement
<1>8. Cardinality(Slots(s, a)) = Cardinality(Slots(r, a)) + 1
  BY <1>4, <1>6, FS_AddElement
<1>9. \A b \in Addresses : b # a => Cardinality(Slots(s, b)) = Cardinality(Slots(r, b)) + 0
  BY <1>5, <1>6
<1> QED
  BY <1>7, <1>8, <1>9 DEF s

-----------------------------------------------------------------------------
(* rescale().                                                              *)

LEMMA EmptyLine ==
  ASSUME NEW n \in Nat \ {0}
  PROVE  /\ Empty(n) \in Lines(n) /\ Cardinality(Occupied(Empty(n))) = 0
         /\ \A b \in Addresses : Cardinality(Slots(Empty(n), b)) = 0
<1>1. Empty(n) \in Lines(n)
  BY DEF Empty, Lines
<1>2. Occupied(Empty(n)) = {} /\ \A b \in Addresses : Slots(Empty(n), b) = {}
  BY RingAssumption DEF Empty, Occupied, Slots
<1> QED
  BY <1>1, <1>2, FS_EmptySet

\* What has been moved when the loop has come to slot i.
Moves(f, n, r, size, newPos) ==
  /\ f \in [0..n -> Lines(size)] /\ f[0] = Empty(size)
  /\ \A i \in 1..n : f[i] = IF r[i-1] = Nothing THEN f[i-1] ELSE Place(f[i-1], newPos[i-1], r[i-1])

LEMMA Moved ==
  ASSUME NEW n \in Nat \ {0}, NEW r \in Lines(n), NEW size \in Nat \ {0}, NEW newPos
  PROVE  \E f : Moves(f, n, r, size, newPos) /\ Rescale(r, size, newPos) = f[n]
<1> DEFINE Loop(f) == f = [i \in 0..Size(r) |->
             IF i = 0 THEN Empty(size)
             ELSE IF r[i-1] = Nothing THEN f[i-1]
             ELSE Place(f[i-1], newPos[i-1], r[i-1])]
           moved == CHOOSE f : Loop(f)
           V == Lines(size)
           step == [i \in Nat |-> [v \in V |->
                     IF i \in 1..n /\ r[i-1] # Nothing THEN Place(v, newPos[i-1], r[i-1]) ELSE v]]
<1>1. Size(r) = n /\ \A i \in 1..n : i - 1 \in 0..n-1 /\ (r[i-1] = Nothing \/ r[i-1] \in Addresses)
  BY Extent DEF Lines
<1>2. step \in [Nat -> [V -> V]]
  BY <1>1, PlaceType
<1>3. Empty(size) \in V
  BY EmptyLine
<1>4. PICK f : f \in [0..n -> V] /\ f[0] = Empty(size) /\ \A i \in 1..n : f[i] = step[i][f[i-1]]
  <2> HIDE DEF step, V
  <2>1. \E f : Repeats(f, V, Empty(size), step, n)
    BY <1>2, <1>3, Recursion
  <2> QED
    BY <2>1 DEF Repeats
<1>5. \A i \in 1..n : f[i] = IF r[i-1] = Nothing THEN f[i-1] ELSE Place(f[i-1], newPos[i-1], r[i-1])
  <2> SUFFICES ASSUME NEW i \in 1..n
               PROVE  f[i] = IF r[i-1] = Nothing THEN f[i-1] ELSE Place(f[i-1], newPos[i-1], r[i-1])
    OBVIOUS
  <2>1. i \in Nat /\ i - 1 \in 0..n /\ f[i-1] \in V
    <3> HIDE DEF V
    <3> QED
      BY <1>4
  <2> HIDE DEF V
  <2> QED
    BY <1>4, <2>1
<1>6. Loop(f)
  <2> HIDE DEF V, step
  <2>1. DOMAIN f = 0..n
    BY <1>4
  <2>2. f = [i \in 0..n |-> f[i]]
    BY <1>4
  <2>3. ASSUME NEW i \in 0..n
        PROVE  f[i] = IF i = 0 THEN Empty(size)
                      ELSE IF r[i-1] = Nothing THEN f[i-1] ELSE Place(f[i-1], newPos[i-1], r[i-1])
    <3>1. CASE i = 0
      BY <1>4, <3>1
    <3>2. CASE i # 0
      <4>1. i \in 1..n
        BY <2>3, <3>2
      <4> QED
        BY <1>5, <3>2, <4>1
    <3> QED
      BY <3>1, <3>2
  <2> QED
    BY <1>1, <2>2, <2>3
<1>7. Loop(moved)
  <2> HIDE DEF Loop
  <2> QED
    BY <1>6
<1>8. Rescale(r, size, newPos) = moved[Size(r)]
  BY DEF Rescale
<1> HIDE DEF moved, V, step
<1>9. \A i \in 0..n : moved[i] = IF i = 0 THEN Empty(size)
             ELSE IF r[i-1] = Nothing THEN moved[i-1]
             ELSE Place(moved[i-1], newPos[i-1], r[i-1])
  BY <1>1, <1>7
<1>10. DOMAIN moved = 0..n /\ moved = [i \in 0..n |-> moved[i]]
  BY <1>1, <1>7
<1> DEFINE S == {i \in Nat : i <= n => moved[i] \in V}
<1>11. 0 \in S
  BY <1>3, <1>9
<1>12. ASSUME NEW i \in Nat, i \in S PROVE i + 1 \in S
  <2> SUFFICES ASSUME i + 1 <= n PROVE moved[i+1] \in V
    OBVIOUS
  <2>1. moved[i] \in V /\ i + 1 \in 0..n /\ i + 1 \in 1..n /\ i + 1 # 0 /\ (i + 1) - 1 = i
    BY <1>12
  <2>2. moved[i+1] = IF r[i] = Nothing THEN moved[i] ELSE Place(moved[i], newPos[i], r[i])
    BY <1>9, <2>1
  <2> QED
    BY <1>1, <2>1, <2>2, PlaceType DEF V
<1> HIDE DEF S
<1>13. \A i \in Nat : i \in S
  BY <1>11, <1>12, Induction
<1>14. \A i \in 0..n : moved[i] \in V
  BY <1>13 DEF S
<1>15. moved \in [0..n -> V]
  BY <1>10, <1>14
<1>16. \A i \in 1..n : i \in 0..n /\ i # 0
  OBVIOUS
<1>17. moved[0] = Empty(size)
  BY <1>9
<1>18. Moves(moved, n, r, size, newPos)
  BY <1>9, <1>15, <1>16, <1>17 DEF V, Moves
<1> QED
  BY <1>1, <1>8, <1>18

LEMMA RescaleType ==
  ASSUME NEW n \in Nat \ {0}, NEW r \in Lines(n), NEW size \in Nat \ {0}, NEW newPos
  PROVE  Rescale(r, size, newPos) \in Lines(size)
<1>1. PICK f : Moves(f, n, r, size, newPos) /\ Rescale(r, size, newPos) = f[n]
  BY Moved
<1> QED
  BY <1>1 DEF Moves

\* Nothing is lost or doubled on the way to the new array.
LEMMA RescaleCounts ==
  ASSUME NEW n \in Nat \ {0}, NEW r \in Lines(n), NEW size \in Nat \ {0}, NEW newPos \in [0..n-1 -> Nat],
         Cardinality(Occupied(r)) < size
  PROVE  /\ Cardinality(Occupied(Rescale(r, size, newPos))) = Cardinality(Occupied(r))
         /\ \A b \in Addresses : Cardinality(Slots(Rescale(r, size, newPos), b)) = Cardinality(Slots(r, b))
<1> PICK f : Moves(f, n, r, size, newPos) /\ Rescale(r, size, newPos) = f[n]
  BY Moved
<1>1. /\ f \in [0..n -> Lines(size)] /\ f[0] = Empty(size)
      /\ \A i \in 1..n : f[i] = IF r[i-1] = Nothing THEN f[i-1] ELSE Place(f[i-1], newPos[i-1], r[i-1])
      /\ Rescale(r, size, newPos) = f[n]
  BY DEF Moves
<1> DEFINE Taken(i)   == {k \in 0..i-1 : r[k] # Nothing}
           Kept(i, b) == {k \in 0..i-1 : r[k] = b}
           Right(i) == /\ Cardinality(Occupied(f[i])) = Cardinality(Taken(i))
                       /\ \A b \in Addresses : Cardinality(Slots(f[i], b)) = Cardinality(Kept(i, b))
           S == {i \in Nat : i <= n => Right(i)}
<1>2. DOMAIN r = 0..n-1 /\ IsFiniteSet(Occupied(r)) /\ \A k \in 0..n-1 : r[k] \in Addresses \cup {Nothing}
  BY Extent DEF Lines
<1>3. ASSUME NEW i \in Nat, i <= n
      PROVE  /\ Taken(i) \in SUBSET Occupied(r)
             /\ IsFiniteSet(Taken(i)) /\ Cardinality(Taken(i)) \in Nat
             /\ Cardinality(Taken(i)) <= Cardinality(Occupied(r))
             /\ \A b : IsFiniteSet(Kept(i, b)) /\ Cardinality(Kept(i, b)) \in Nat
  <2>1. Taken(i) \in SUBSET Occupied(r)
    BY <1>2, <1>3 DEF Occupied
  <2>2. IsFiniteSet(Taken(i)) /\ Cardinality(Taken(i)) <= Cardinality(Occupied(r))
    BY <1>2, <2>1, FS_Subset
  <2>3. IsFiniteSet(0..i-1)
    BY FS_Interval
  <2>4. \A b : Kept(i, b) \in SUBSET (0..i-1)
    OBVIOUS
  <2>5. \A b : IsFiniteSet(Kept(i, b))
    <3> HIDE DEF Kept
    <3> QED
      BY <2>3, <2>4, FS_Subset
  <2> HIDE DEF Taken, Kept
  <2> QED
    BY <2>1, <2>2, <2>5, FS_CardinalityType
<1>4. 0 \in S
  <2>1. Taken(0) = {} /\ \A b : Kept(0, b) = {}
    OBVIOUS
  <2> HIDE DEF Taken, Kept
  <2>2. Right(0)
    BY <1>1, <2>1, EmptyLine, FS_EmptySet
  <2> HIDE DEF Right
  <2> QED
    BY <2>2
<1>5. ASSUME NEW i \in Nat, i \in S PROVE i + 1 \in S
  <2> SUFFICES ASSUME i + 1 <= n PROVE Right(i + 1)
    OBVIOUS
  <2>1. Right(i) /\ i \in 0..n-1 /\ i \in 0..n /\ i + 1 \in 1..n /\ (i + 1) - 1 = i /\ i <= n
    BY <1>5
  <2>2. f[i+1] = IF r[i] = Nothing THEN f[i] ELSE Place(f[i], newPos[i], r[i])
    BY <1>1, <2>1
  <2>3. 0..((i+1)-1) = (0..i-1) \cup {i} /\ i \notin 0..i-1
    OBVIOUS
  <2>4. f[i] \in Lines(size) /\ newPos[i] \in Nat
    BY <1>1, <2>1
  <2>5. CASE r[i] = Nothing
    <3>1. Taken(i+1) = Taken(i)
      BY <2>3, <2>5
    <3>2. \A b \in Addresses : Kept(i+1, b) = Kept(i, b)
      BY <2>3, <2>5, RingAssumption
    <3> HIDE DEF Taken, Kept
    <3> QED
      BY <2>1, <2>2, <2>5, <3>1, <3>2
  <2>6. CASE r[i] # Nothing
    <3>1. r[i] \in Addresses
      BY <1>2, <2>1, <2>6
    <3>2. Taken(i+1) = Taken(i) \cup {i} /\ i \notin Taken(i)
      BY <2>3, <2>6
    <3>3. Kept(i+1, r[i]) = Kept(i, r[i]) \cup {i} /\ i \notin Kept(i, r[i])
      BY <2>3
    <3>4. \A b \in Addresses : b # r[i] => Kept(i+1, b) = Kept(i, b)
      BY <2>3
    <3> HIDE DEF Taken, Kept
    <3>5. Cardinality(Taken(i+1)) = Cardinality(Taken(i)) + 1 /\ Cardinality(Taken(i)) \in Nat
      BY <1>3, <2>1, <3>2, FS_AddElement
    <3>6. Cardinality(Kept(i+1, r[i])) = Cardinality(Kept(i, r[i])) + 1
      BY <1>3, <2>1, <3>3, FS_AddElement
    <3>7. Cardinality(Taken(i+1)) <= Cardinality(Occupied(r))
      BY <1>3
    <3>8. Cardinality(Occupied(f[i])) < size
      <4>1. Cardinality(Occupied(r)) \in Nat /\ Cardinality(Occupied(f[i])) = Cardinality(Taken(i))
        BY <2>1, Extent
      <4> QED
        BY <3>5, <3>7, <4>1
    <3>9. f[i+1] = Place(f[i], newPos[i], r[i])
      BY <2>2, <2>6
    <3>10. /\ Cardinality(Occupied(f[i+1])) = Cardinality(Occupied(f[i])) + 1
           /\ \A b \in Addresses : Cardinality(Slots(f[i+1], b)) =
                                     Cardinality(Slots(f[i], b)) + (IF b = r[i] THEN 1 ELSE 0)
      BY <2>4, <3>1, <3>8, <3>9, PlaceCounts
    <3>11. ASSUME NEW b \in Addresses PROVE Cardinality(Slots(f[i+1], b)) = Cardinality(Kept(i+1, b))
      <4>1. Cardinality(Kept(i, b)) \in Nat /\ Cardinality(Slots(f[i], b)) = Cardinality(Kept(i, b))
        BY <1>3, <2>1
      <4> QED
        BY <3>4, <3>6, <3>10, <4>1
    <3> QED
      BY <2>1, <3>5, <3>10, <3>11
  <2> QED
    BY <2>5, <2>6
<1> HIDE DEF S
<1>6. n \in S
  BY <1>4, <1>5, Induction
<1>7. Right(n)
  BY <1>6 DEF S
<1>8. Taken(n) = Occupied(r) /\ \A b : Kept(n, b) = Slots(r, b)
  BY <1>2 DEF Occupied, Slots
<1> HIDE DEF Taken, Kept
<1> QED
  BY <1>1, <1>7, <1>8

-----------------------------------------------------------------------------
(* add() and remove().                                                     *)

\* s is what r becomes when a takes more positions.
Grows(r, s, a) ==
  /\ Size(s) >= Size(r)
  /\ Size(s) = Size(r) => \A i \in DOMAIN r : s[i] = r[i] \/ (r[i] = Nothing /\ s[i] = a)

\* s has k positions of a more than r, and as many of the others.
Gains(r, s, a, k) ==
  /\ Cardinality(Occupied(s)) = Cardinality(Occupied(r)) + k
  /\ \A b \in Addresses : Cardinality(Slots(s, b)) = Cardinality(Slots(r, b)) + (IF b = a THEN k ELSE 0)

LEMMA ArrayIs == \A r : r \in Arrays <=> \E n \in Nat \ {0} : r \in Lines(n)
BY DEF Arrays

LEMMA Doubling ==
  ASSUME NEW n \in Nat \ {0}, NEW r \in Lines(n)
  PROVE  /\ Doubled(r) \in Lines(2 * n)
         /\ Cardinality(Occupied(Doubled(r))) = Cardinality(Occupied(r))
         /\ \A b \in Addresses : Cardinality(Slots(Doubled(r), b)) = Cardinality(Slots(r, b))
<1>1. /\ Size(r) = n /\ DOMAIN r = 0..n-1
      /\ Cardinality(Occupied(r)) \in Nat /\ Cardinality(Occupied(r)) <= n
  BY Extent
<1>2. 2 * n \in Nat \ {0} /\ Cardinality(Occupied(r)) < 2 * n
  BY <1>1
<1>3. PICK newPos \in [0..n-1 -> Nat] : newPos = [i \in 0..n-1 |-> 2 * i]
  <2>1. \A i \in 0..n-1 : 2 * i \in Nat
    OBVIOUS
  <2>2. [i \in 0..n-1 |-> 2 * i] \in [0..n-1 -> Nat]
    BY <2>1
  <2> QED
    BY <2>2, Zenon
<1>4. Doubled(r) = Rescale(r, 2 * n, newPos)
  BY <1>1, <1>3 DEF Doubled
<1> QED
  BY <1>2, <1>4, RescaleType, RescaleCounts

LEMMA Adding ==
  ASSUME NEW r \in Arrays, NEW a \in Addresses, NEW count \in 0..PositionsPerNode-1
  PROVE  /\ AddPosition(r, a, count) \in Arrays
         /\ Gains(r, AddPosition(r, a, count), a, 1)
         /\ Grows(r, AddPosition(r, a, count), a)
<1>1. PICK n \in Nat \ {0} : r \in Lines(n)
  BY ArrayIs
<1>2. /\ Size(r) = n /\ DOMAIN r = 0..n-1
      /\ Cardinality(Occupied(r)) \in Nat /\ Cardinality(Occupied(r)) <= n
  BY <1>1, Extent
<1>3. Hash[a][count] \in Nat /\ count \in Nat
  BY RingAssumption
<1>4. CASE 10 * (Cardinality(Occupied(r)) + count) > 9 * Size(r)
  <2>1. AddPosition(r, a, count) = Place(Doubled(r), Hash[a][count], a)
    BY <1>4 DEF AddPosition
  <2>2. /\ Doubled(r) \in Lines(2 * n) /\ 2 * n \in Nat \ {0}
        /\ Cardinality(Occupied(Doubled(r))) = Cardinality(Occupied(r))
        /\ \A b \in Addresses : Cardinality(Slots(Doubled(r), b)) = Cardinality(Slots(r, b))
    BY <1>1, Doubling
  <2>3. Cardinality(Occupied(Doubled(r))) < 2 * n
    BY <1>2, <2>2
  <2>4. AddPosition(r, a, count) \in Lines(2 * n) /\ Gains(Doubled(r), AddPosition(r, a, count), a, 1)
    BY <1>3, <2>1, <2>2, <2>3, PlaceType, PlaceCounts DEF Gains
  <2>5. Size(AddPosition(r, a, count)) = 2 * n
    BY <2>2, <2>4, Extent
  <2>6. Gains(r, AddPosition(r, a, count), a, 1)
    BY <2>2, <2>4 DEF Gains
  <2>7. Grows(r, AddPosition(r, a, count), a)
    BY <1>2, <2>5 DEF Grows
  <2> QED
    BY <2>2, <2>4, <2>6, <2>7, ArrayIs
<1>5. CASE ~(10 * (Cardinality(Occupied(r)) + count) > 9 * Size(r))
  <2>1. AddPosition(r, a, count) = Place(r, Hash[a][count], a)
    BY <1>5 DEF AddPosition
  <2>2. Cardinality(Occupied(r)) < n
    BY <1>2, <1>3, <1>5
  <2>3. AddPosition(r, a, count) \in Lines(n) /\ Gains(r, AddPosition(r, a, count), a, 1)
    BY <1>1, <1>3, <2>1, <2>2, PlaceType, PlaceCounts DEF Gains
  <2>4. Fills(r, AddPosition(r, a, count), a, n)
    BY <1>1, <1>3, <2>1, <2>2, Placing
  <2>5. Size(AddPosition(r, a, count)) = n
    BY <2>3, Extent
  <2>6. Grows(r, AddPosition(r, a, count), a)
    BY <1>2, <2>4, <2>5 DEF Grows, Fills
  <2> QED
    BY <2>3, <2>6, ArrayIs
<1> QED
  BY <1>4, <1>5

LEMMA SizeType == ASSUME NEW r \in Arrays
                  PROVE  /\ Size(r) \in Nat \ {0} /\ r \in Lines(Size(r)) /\ DOMAIN r = 0..Size(r)-1
                         /\ IsFiniteSet(Occupied(r)) /\ Cardinality(Occupied(r)) \in Nat
                         /\ \A b : IsFiniteSet(Slots(r, b)) /\ Cardinality(Slots(r, b)) \in Nat
<1>1. PICK n \in Nat \ {0} : r \in Lines(n)
  BY ArrayIs
<1> QED
  BY <1>1, Extent

LEMMA GrowsOn ==
  ASSUME NEW r \in Arrays, NEW s \in Arrays, NEW u \in Arrays, NEW a, Grows(r, s, a), Grows(s, u, a)
  PROVE  Grows(r, u, a)
<1>1. Size(r) \in Nat /\ Size(s) \in Nat /\ Size(u) \in Nat
  BY SizeType
<1>2. Size(u) >= Size(r) /\ (Size(u) = Size(r) => Size(s) = Size(r) /\ Size(u) = Size(s))
  BY <1>1 DEF Grows
<1>3. Size(s) = Size(r) => DOMAIN s = DOMAIN r
  BY SizeType
<1> QED
  BY <1>2, <1>3 DEF Grows

\* add() as a whole.
LEMMA WithNodeIs ==
  ASSUME NEW r \in Arrays, NEW a \in Addresses
  PROVE  /\ WithNode(r, a) \in Arrays
         /\ Gains(r, WithNode(r, a), a, PositionsPerNode)
         /\ Grows(r, WithNode(r, a), a)
<1> DEFINE n == PositionsPerNode
           Loop(f) == f = [i \in 0..n |-> IF i = 0 THEN r ELSE AddPosition(f[i-1], a, n - i)]
           placed == CHOOSE f : Loop(f)
           step == [i \in Nat |-> [v \in Arrays |-> IF i \in 1..n THEN AddPosition(v, a, n - i) ELSE v]]
<1>1. n \in Nat \ {0} /\ \A i \in 1..n : n - i \in 0..n-1
  BY RingAssumption
<1>2. step \in [Nat -> [Arrays -> Arrays]]
  BY <1>1, Adding
<1>3. PICK f : f \in [0..n -> Arrays] /\ f[0] = r /\ \A i \in 1..n : f[i] = step[i][f[i-1]]
  <2> HIDE DEF step, n
  <2>1. \E f : Repeats(f, Arrays, r, step, n)
    BY <1>1, <1>2, Recursion
  <2> QED
    BY <2>1 DEF Repeats
<1>4. \A i \in 1..n : f[i] = AddPosition(f[i-1], a, n - i)
  <2> HIDE DEF n
  <2> SUFFICES ASSUME NEW i \in 1..n PROVE f[i] = AddPosition(f[i-1], a, n - i)
    OBVIOUS
  <2>1. i \in Nat /\ i - 1 \in 0..n
    BY <1>1
  <2>2. f[i-1] \in Arrays
    BY <1>3, <2>1
  <2> QED
    BY <1>3, <2>1, <2>2
<1>5. Loop(f)
  <2> HIDE DEF n, step
  <2>1. f = [i \in 0..n |-> f[i]]
    BY <1>3
  <2>2. ASSUME NEW i \in 0..n PROVE f[i] = IF i = 0 THEN r ELSE AddPosition(f[i-1], a, n - i)
    <3>1. i # 0 => i \in 1..n
      BY <1>1
    <3> QED
      BY <1>3, <1>4, <3>1
  <2> QED
    BY <2>1, <2>2
<1>6. Loop(placed)
  <2> HIDE DEF Loop
  <2> QED
    BY <1>5
<1>7. WithNode(r, a) = placed[n]
  BY DEF WithNode
<1> HIDE DEF placed, step, n
<1>8. placed[0] = r /\ \A i \in 1..n : placed[i] = AddPosition(placed[i-1], a, n - i)
  BY <1>1, <1>6
<1> DEFINE Right(i) == placed[i] \in Arrays /\ Gains(r, placed[i], a, i) /\ Grows(r, placed[i], a)
           S == {i \in Nat : i <= n => Right(i)}
<1>9. 0 \in S
  <2>1. \A b : Cardinality(Slots(r, b)) \in Nat
    BY SizeType
  <2>2. Cardinality(Occupied(r)) \in Nat /\ Size(r) \in Nat
    BY SizeType
  <2>3. Gains(r, r, a, 0)
    BY <2>1, <2>2 DEF Gains
  <2>4. Grows(r, r, a)
    BY <2>2 DEF Grows
  <2> QED
    BY <1>8, <2>3, <2>4
<1>10. ASSUME NEW i \in Nat, i \in S PROVE i + 1 \in S
  <2> SUFFICES ASSUME i + 1 <= n PROVE Right(i + 1)
    OBVIOUS
  <2>1. Right(i) /\ i + 1 \in 1..n /\ (i + 1) - 1 = i /\ n - (i + 1) \in 0..PositionsPerNode-1
    BY <1>1, <1>10 DEF n
  <2>2. placed[i+1] = AddPosition(placed[i], a, n - (i + 1))
    BY <1>8, <2>1
  <2>3. placed[i+1] \in Arrays /\ Gains(placed[i], placed[i+1], a, 1) /\ Grows(placed[i], placed[i+1], a)
    BY <2>1, <2>2, Adding
  <2>4. Grows(r, placed[i+1], a)
    BY <2>1, <2>3, GrowsOn
  <2>5. Gains(r, placed[i+1], a, i + 1)
    <3>1. \A b : Cardinality(Slots(r, b)) \in Nat
      BY SizeType
    <3>2. Cardinality(Occupied(r)) \in Nat
      BY SizeType
    <3> QED
      BY <2>1, <2>3, <3>1, <3>2 DEF Gains
  <2> QED
    BY <2>3, <2>4, <2>5
<1> HIDE DEF S
<1>11. n \in S
  BY <1>1, <1>9, <1>10, Induction
<1>12. Right(n)
  BY <1>1, <1>11 DEF S
<1> QED
  BY <1>7, <1>12 DEF n

Cleared(r, a) == [i \in DOMAIN r |-> IF r[i] = a THEN Nothing ELSE r[i]]

LEMMA Clearing ==
  ASSUME NEW n \in Nat \ {0}, NEW r \in Lines(n), NEW a \in Addresses
  PROVE  /\ Cleared(r, a) \in Lines(n)
         /\ Cardinality(Occupied(Cleared(r, a))) = Cardinality(Occupied(r)) - Cardinality(Slots(r, a))
         /\ \A b \in Addresses : Cardinality(Slots(Cleared(r, a), b)) = IF b = a THEN 0 ELSE Cardinality(Slots(r, b))
<1>1. DOMAIN r = 0..n-1 /\ a # Nothing
  BY RingAssumption DEF Lines
<1>2. Cleared(r, a) \in Lines(n)
  BY <1>1 DEF Cleared, Lines
<1>3. Occupied(Cleared(r, a)) = Occupied(r) \ Slots(r, a) /\ Slots(r, a) = Occupied(r) \cap Slots(r, a)
  BY <1>1 DEF Cleared, Occupied, Slots
<1>4. Slots(Cleared(r, a), a) = {}
  BY <1>1 DEF Cleared, Slots
<1>5. \A b \in Addresses : b # a => Slots(Cleared(r, a), b) = Slots(r, b)
  BY <1>1, RingAssumption DEF Cleared, Slots
<1>6. IsFiniteSet(Occupied(r))
  BY Extent
<1>7. Cardinality(Occupied(Cleared(r, a))) = Cardinality(Occupied(r)) - Cardinality(Slots(r, a))
  BY <1>3, <1>6, FS_Difference
<1> QED
  BY <1>2, <1>4, <1>5, <1>7, FS_EmptySet

\* remove() as a whole.
LEMMA WithoutNodeIs ==
  ASSUME NEW r \in Arrays, NEW a \in Addresses
  PROVE  /\ WithoutNode(r, a) \in Arrays
         /\ Cardinality(Occupied(WithoutNode(r, a))) = Cardinality(Occupied(r)) - Cardinality(Slots(r, a))
         /\ \A b \in Addresses : Cardinality(Slots(WithoutNode(r, a), b)) = IF b = a THEN 0 ELSE Cardinality(Slots(r, b))
         /\ \/ WithoutNode(r, a) = Cleared(r, a)
            \/ Size(WithoutNode(r, a)) # Size(r)
            \/ Occupied(WithoutNode(r, a)) = {}
<1> DEFINE c == Cleared(r, a)
<1>1. PICK n \in Nat \ {0} : r \in Lines(n)
  BY ArrayIs
<1>2. Size(r) = n
  BY <1>1, Extent
<1>3. WithoutNode(r, a) = IF 4 * Cardinality(Occupied(c)) < Size(r) THEN Halved(c) ELSE c
  BY DEF WithoutNode, Cleared
<1>4. /\ c \in Lines(n)
      /\ Cardinality(Occupied(c)) = Cardinality(Occupied(r)) - Cardinality(Slots(r, a))
      /\ \A b \in Addresses : Cardinality(Slots(c, b)) = IF b = a THEN 0 ELSE Cardinality(Slots(r, b))
  BY <1>1, Clearing
<1> HIDE DEF c
<1>5. Size(c) = n /\ DOMAIN c = 0..n-1 /\ Cardinality(Occupied(c)) \in Nat
  BY <1>4, Extent
<1>6. CASE 4 * Cardinality(Occupied(c)) < Size(r)
  <2> DEFINE m == (n + 1) \div 2
  <2>1. m \in Nat \ {0} /\ Cardinality(Occupied(c)) < m /\ (m = n => n = 1)
    BY <1>2, <1>5, <1>6
  <2>2. PICK newPos \in [0..n-1 -> Nat] : newPos = [i \in 0..n-1 |-> i \div 2]
    <3>1. \A i \in 0..n-1 : i \div 2 \in Nat
      OBVIOUS
    <3>2. [i \in 0..n-1 |-> i \div 2] \in [0..n-1 -> Nat]
      BY <3>1
    <3> QED
      BY <3>2, Zenon
  <2>3. Halved(c) = Rescale(c, m, newPos)
    BY <1>5, <2>2 DEF Halved
  <2> HIDE DEF m
  <2>4. /\ Halved(c) \in Lines(m) /\ Cardinality(Occupied(Halved(c))) = Cardinality(Occupied(c))
        /\ \A b \in Addresses : Cardinality(Slots(Halved(c), b)) = Cardinality(Slots(c, b))
    BY <1>4, <2>1, <2>3, RescaleType, RescaleCounts
  <2>5. Size(Halved(c)) = m /\ IsFiniteSet(Occupied(Halved(c)))
    BY <2>1, <2>4, Extent
  <2>6. m = n => Occupied(Halved(c)) = {}
    <3>1. m = n => Cardinality(Occupied(c)) = 0
      BY <1>2, <1>5, <1>6, <2>1
    <3> QED
      BY <2>4, <2>5, <3>1, FS_EmptySet
  <2> QED
    BY <1>2, <1>3, <1>4, <1>6, <2>1, <2>4, <2>5, <2>6, ArrayIs
<1>7. CASE ~(4 * Cardinality(Occupied(c)) < Size(r))
  BY <1>3, <1>4, <1>7, ArrayIs DEF c
<1> QED
  BY <1>6, <1>7

-----------------------------------------------------------------------------
(* The threads.                                                            *)

\* What a call that has not been swapped in yet will build on is an array, and
\* the one of the ring while no other call has been.
RInv ==
  /\ array \in Arrays
  /\ pc \in [Threads -> {"idle", "swap"}]
  /\ address \in [Threads -> Addresses \cup {Nothing}]
  /\ fresh \in [Threads -> BOOLEAN]
  /\ oldRing \in [Threads -> Arrays \cup {<<>>}]
  /\ \A t \in Threads : pc[t] = "swap" =>
       /\ oldRing[t] \in Arrays /\ address[t] \in Addresses
       /\ fresh[t] => oldRing[t] = array
  /\ \A t \in Threads : fresh[t] => pc[t] = "swap"

LEMMA NewRingIs ==
  ASSUME RInv, NEW t \in Threads, pc[t] = "swap"
  PROVE  NewRing(t) \in Arrays
<1>1. oldRing[t] \in Arrays /\ address[t] \in Addresses
  BY DEF RInv
<1> QED
  BY <1>1, WithNodeIs, WithoutNodeIs DEF NewRing

LEMMA RInvInit == RingInit => RInv
<1> SUFFICES ASSUME RingInit PROVE RInv
  OBVIOUS
<1>1. array \in Arrays
  BY EmptyLine, ArrayIs, RingAssumption DEF RingInit
<1> QED
  BY <1>1 DEF RingInit, RInv

LEMMA RInvStep == RInv /\ [RingNext]_ringVars => RInv'
<1> SUFFICES ASSUME RInv, [RingNext]_ringVars PROVE RInv'
  OBVIOUS
<1>1. ASSUME NEW t \in Threads, NEW a \in Addresses, Call(t, a) PROVE RInv'
  BY <1>1 DEF Call, RInv
<1>2. ASSUME NEW t \in Threads, Swap(t) PROVE RInv'
  <2>1. array' \in Arrays
    BY <1>2, NewRingIs DEF Swap
  <2>2. /\ pc' = [pc EXCEPT ![t] = "idle"] /\ fresh' = [u \in Threads |-> FALSE]
        /\ oldRing' = [oldRing EXCEPT ![t] = <<>>] /\ address' = [address EXCEPT ![t] = Nothing]
    BY <1>2 DEF Swap
  <2> QED
    BY <2>1, <2>2 DEF RInv
<1>3. ASSUME NEW t \in Threads, Retry(t) PROVE RInv'
  BY <1>3 DEF Retry, RInv
<1>4. CASE UNCHANGED ringVars
  BY <1>4 DEF ringVars, RInv
<1> QED
  BY <1>1, <1>2, <1>3, <1>4 DEF RingNext

LEMMA RInvAlways == RingSpec => []RInv
BY RInvInit, RInvStep, PTL DEF RingSpec

\* The probes end: what add() and remove() build holds what the array they
\* read held, and the node's own positions besides, or not (Place(), rescale()).
THEOREM NoProbeGoesRound == RingSpec => []ProbesEnd
<1>1. RInv => ProbesEnd
  <2> SUFFICES ASSUME RInv PROVE ProbesEnd
    OBVIOUS
  <2>1. RingTypeOK
    <3>1. Size(array) \in Nat \ {0} /\ array \in Lines(Size(array))
      BY SizeType DEF RInv
    <3> QED
      BY <3>1 DEF RInv, RingTypeOK, Lines
  <2>2. ASSUME NEW t \in Threads, pc[t] = "swap"
        PROVE  Cardinality(Occupied(NewRing(t))) =
                 IF t \in Adders THEN Cardinality(Occupied(oldRing[t])) + PositionsPerNode
                 ELSE Cardinality(Occupied(oldRing[t])) - Cardinality(Slots(oldRing[t], address[t]))
    <3>1. oldRing[t] \in Arrays /\ address[t] \in Addresses
      BY <2>2 DEF RInv
    <3> QED
      BY <3>1, WithNodeIs, WithoutNodeIs DEF NewRing, Gains
  <2> QED
    BY <2>1, <2>2 DEF ProbesEnd
<1> QED
  BY <1>1, RInvAlways, PTL

-----------------------------------------------------------------------------
(* The bag of positions.                                                   *)

\* What a swap does to the positions.
LEMMA Swapping ==
  ASSUME RInv, NEW t \in Threads, Swap(t)
  PROVE  \E a \in Addresses : Bag!Add(a) \/ Bag!Remove(a)
<1>1. PICK a \in Addresses : a = address[t]
  BY DEF Swap, RInv
<1>2. array \in Arrays /\ oldRing[t] = array /\ array' = NewRing(t)
  BY DEF Swap, RInv
<1>3. \A b : Cardinality(Slots(array, b)) \in Nat
  BY <1>2, SizeType
<1>4. CASE t \in Adders
  <2>1. array' = WithNode(array, a)
    BY <1>1, <1>2, <1>4 DEF NewRing
  <2>2. \A b \in Addresses : Cardinality(Slots(array', b)) =
                              Cardinality(Slots(array, b)) + (IF b = a THEN PositionsPerNode ELSE 0)
    BY <1>2, <2>1, WithNodeIs DEF Gains
  <2>3. \A b \in Addresses : Cardinality(Slots(array', b)) =
                              IF b = a THEN Cardinality(Slots(array, b)) + PositionsPerNode ELSE Cardinality(Slots(array, b))
    BY <1>3, <2>2
  <2>4. Positions' = [Positions EXCEPT ![a] = @ + PositionsPerNode]
    BY <2>3 DEF Positions
  <2> QED
    BY <2>4 DEF Bag!Add
<1>5. CASE t \notin Adders
  <2>1. array' = WithoutNode(array, a)
    BY <1>1, <1>2, <1>5 DEF NewRing
  <2>2. \A b \in Addresses : Cardinality(Slots(array', b)) = IF b = a THEN 0 ELSE Cardinality(Slots(array, b))
    BY <1>2, <2>1, WithoutNodeIs
  <2>3. Positions' = [Positions EXCEPT ![a] = 0]
    BY <2>2 DEF Positions
  <2> QED
    BY <2>3 DEF Bag!Remove
<1> QED
  BY <1>4, <1>5

\* The ring implements the bag: each call takes effect as a whole, at its swap,
\* and none is lost, however the threads interleave (compareAndSet()).
THEOREM RingImplementsBag == RingSpec => RingIsBag
<1>1. RingInit => Bag!Init
  <2> SUFFICES ASSUME RingInit PROVE Bag!Init
    OBVIOUS
  <2>1. \A b \in Addresses : Cardinality(Slots(array, b)) = 0
    BY EmptyLine, RingAssumption DEF RingInit
  <2> QED
    BY <2>1 DEF Bag!Init, Positions
<1>2. RInv /\ [RingNext]_ringVars => [Bag!Next]_Positions
  <2> SUFFICES ASSUME RInv, [RingNext]_ringVars PROVE [Bag!Next]_Positions
    OBVIOUS
  <2>1. CASE \E t \in Threads : Swap(t)
    BY <2>1, Swapping DEF Bag!Next
  <2>2. CASE UNCHANGED array
    BY <2>2 DEF Positions
  <2> QED
    BY <2>1, <2>2 DEF RingNext, Call, Retry, ringVars
<1> QED
  BY <1>1, <1>2, RInvAlways, PTL DEF RingSpec, RingIsBag, Bag!Spec

-----------------------------------------------------------------------------
(* Whose a key is.                                                         *)

\* The address d slots on from the key's is the first there is.
IsNearest(r, key, d) ==
  /\ d \in 0..Size(r)-1 /\ r[(key + d) % Size(r)] # Nothing
  /\ \A e \in 0..d-1 : r[(key + e) % Size(r)] = Nothing

LEMMA OwnerIs ==
  ASSUME NEW r \in Arrays, Occupied(r) # {}, NEW key \in 0..Size(r)-1
  PROVE  \E d : IsNearest(r, key, d) /\ Owner(r, key, Size(r)) = r[(key + d) % Size(r)]
<1> DEFINE n == Size(r)
           start == (key * Size(r)) \div Size(r)
           found == CHOOSE d \in 0..Size(r)-1 :
                      /\ r[(start + d) % Size(r)] # Nothing
                      /\ \A e \in 0..d-1 : r[(start + e) % Size(r)] = Nothing
           taken == {d \in 0..n-1 : r[(key + d) % n] # Nothing}
<1>1. n \in Nat \ {0} /\ DOMAIN r = 0..n-1 /\ key \in Nat
  BY SizeType
<1>2. start = key
  <2>1. ASSUME NEW m \in Nat \ {0}, NEW k \in Nat PROVE (k * m) \div m = k
    <3> DEFINE x == (k * m) \div m
               y == (k * m) % m
    <3>1. y = 0
      <4>1. (k * m + 0) % m = 0
        BY ModUnique
      <4> QED
        BY <4>1
    <3>2. k * m = m * x + y /\ x \in Int
      OBVIOUS
    <3> HIDE DEF x, y
    <3>3. m * (k - x) = 0
      BY <3>1, <3>2
    <3>4. k - x = 0
      BY <3>2, <3>3
    <3> QED
      BY <3>2, <3>4 DEF x
  <2> QED
    BY <1>1, <2>1
<1>3. taken # {}
  <2>1. PICK i \in 0..n-1 : r[i] # Nothing
    BY <1>1 DEF Occupied
  <2>2. PICK d \in 0..n-1 : (key + d) % n = i
    BY <1>1, Round
  <2> QED
    BY <2>1, <2>2
<1>4. PICK d \in taken : \A e \in taken : d <= e
  <2>1. taken \subseteq Nat
    BY <1>1
  <2> HIDE DEF taken
  <2> QED
    BY <1>3, <2>1, Least
<1>5. IsNearest(r, key, d)
  <2>1. ASSUME NEW e \in 0..d-1 PROVE r[(key + e) % n] = Nothing
    <3>1. e \in 0..n-1 /\ ~(d <= e)
      BY <1>1
    <3> QED
      BY <1>4, <3>1
  <2> QED
    BY <2>1 DEF IsNearest
<1>6. Owner(r, key, Size(r)) = r[(start + found) % Size(r)]
  BY DEF Owner
<1> HIDE DEF start, taken, n
<1>7. IsNearest(r, key, found)
  BY <1>2, <1>5 DEF IsNearest
<1> QED
  BY <1>2, <1>6, <1>7

\* A key goes to the node that takes more slots, or to no other.
LEMMA KeyGoes ==
  ASSUME NEW r \in Arrays, NEW s \in Arrays, Size(s) = Size(r), NEW a \in Addresses,
         \A i \in DOMAIN r : s[i] = r[i] \/ (r[i] = Nothing /\ s[i] = a),
         Occupied(r) # {}, Occupied(s) # {}, NEW key \in 0..Size(r)-1
  PROVE  Owner(s, key, Size(r)) = Owner(r, key, Size(r)) \/ Owner(s, key, Size(r)) = a
<1>1. PICK n \in Nat \ {0} : n = Size(r) /\ n = Size(s) /\ DOMAIN r = 0..n-1 /\ key \in Nat
  BY SizeType
<1>2. PICK d : IsNearest(r, key, d) /\ Owner(r, key, n) = r[(key + d) % n]
  BY <1>1, OwnerIs
<1>3. PICK e : IsNearest(s, key, e) /\ Owner(s, key, n) = s[(key + e) % n]
  BY <1>1, OwnerIs
<1>4. /\ d \in 0..n-1 /\ r[(key + d) % n] # Nothing /\ \A x \in 0..d-1 : r[(key + x) % n] = Nothing
      /\ e \in 0..n-1 /\ s[(key + e) % n] # Nothing /\ \A x \in 0..e-1 : s[(key + x) % n] = Nothing
  BY <1>1, <1>2, <1>3 DEF IsNearest
<1>5. (key + d) % n \in 0..n-1 /\ (key + e) % n \in 0..n-1
  <2>1. \A x \in Nat : x % n \in 0..n-1
    OBVIOUS
  <2>2. key + d \in Nat /\ key + e \in Nat
    BY <1>1, <1>4
  <2> QED
    BY <2>1, <2>2
<1>6. CASE e < d
  <2>1. e \in 0..d-1
    BY <1>4, <1>6
  <2> QED
    BY <1>1, <1>3, <1>4, <1>5, <2>1
<1>7. CASE d < e
  <2>1. d \in 0..e-1
    BY <1>4, <1>7
  <2> QED
    BY <1>1, <1>4, <1>5, <2>1
<1>8. CASE d = e
  BY <1>1, <1>2, <1>3, <1>4, <1>5, <1>8
<1> QED
  BY <1>4, <1>6, <1>7, <1>8

\* While the array keeps its length, a key changes hands only to the node that
\* comes, or from the node that goes (findPosition()).
THEOREM KeysStayWithTheirNodes == RingSpec => KeysStay
<1> DEFINE Moving(k) ==
      LET before == Owner(array, k, Size(array))
          after  == Owner(array', k, Size(array))
      IN  after # before =>
            \E t \in Threads : address[t] = (IF t \in Adders THEN after ELSE before)
                                 /\ pc[t] = "swap" /\ pc'[t] = "idle"
<1>1. RInv /\ [RingNext]_ringVars =>
        [Occupied(array) # {} /\ Occupied(array') # {} /\ Size(array') = Size(array) =>
           \A k \in 0..Size(array)-1 : Moving(k)]_ringVars
  <2> SUFFICES ASSUME RInv, [RingNext]_ringVars, Occupied(array) # {}, Occupied(array') # {},
                      Size(array') = Size(array), NEW k \in 0..Size(array)-1
               PROVE  Moving(k)
    OBVIOUS
  <2>1. CASE UNCHANGED array
    BY <2>1
  <2>2. ASSUME NEW t \in Threads, Swap(t) PROVE Moving(k)
    <3>1. /\ array \in Arrays /\ array' \in Arrays /\ oldRing[t] = array /\ array' = NewRing(t)
          /\ address[t] \in Addresses /\ pc[t] = "swap" /\ pc'[t] = "idle"
      BY <2>2, NewRingIs DEF Swap, RInv
    <3>2. CASE t \in Adders
      <4>1. Grows(array, array', address[t])
        BY <3>1, <3>2, WithNodeIs DEF NewRing
      <4>2. \/ Owner(array', k, Size(array)) = Owner(array, k, Size(array))
            \/ Owner(array', k, Size(array)) = address[t]
        BY <3>1, <4>1, KeyGoes DEF Grows
      <4> QED
        BY <3>1, <3>2, <4>2
    <3>3. CASE t \notin Adders
      <4>1. array' = Cleared(array, address[t])
        BY <3>1, <3>3, WithoutNodeIs DEF NewRing
      <4>2. DOMAIN array' = DOMAIN array
        BY <3>1, SizeType
      <4>3. \A i \in DOMAIN array' : array[i] = array'[i] \/ (array'[i] = Nothing /\ array[i] = address[t])
        BY <4>1, <4>2 DEF Cleared
      <4>4. \/ Owner(array, k, Size(array)) = Owner(array', k, Size(array))
            \/ Owner(array, k, Size(array)) = address[t]
        BY <3>1, <4>3, KeyGoes
      <4> QED
        BY <3>1, <3>3, <4>4
    <3> QED
      BY <3>2, <3>3
  <2> QED
    BY <2>1, <2>2 DEF RingNext, Call, Retry, ringVars
<1> QED
  BY <1>1, RInvAlways, PTL DEF RingSpec, KeysStay
=============================================================================
