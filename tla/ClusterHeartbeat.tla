-------------------------- MODULE ClusterHeartbeat --------------------------
(***************************************************************************)
(* Membership: how a node learns that another is there and that it is      *)
(* gone.  Every node multicasts a heartbeat each second, naming the layers *)
(* it runs.  At the node modelled here two threads work on what it knows   *)
(* of one peer (peers share nothing but the ring, whose steps are atomic,  *)
(* see ClusterRing):                                                       *)
(*   - the receiver: onHeartbeat(), layer by layer;                        *)
(*   - the sender: after each beat of its own it sweeps the layers not     *)
(*     heard for NODE_TIMEOUT, and when it cannot send it drops them all.  *)
(* What is known is in two tables, layerLastHeardTimes and layerLiveTimes, *)
(* from the peer's address to an inner map from layers to times.  Their    *)
(* get() makes and stores the inner map when there is none; the sweep      *)
(* takes an empty one out of its table again.  The inner maps therefore    *)
(* have identities here: a thread may hold one that is in no table.        *)
(*                                                                         *)
(* Times are the peer's clock, which numbers its starts and beats.  The    *)
(* comparison with the own clock is kept as `old`: the beats up to that    *)
(* number were sent more than NODE_TIMEOUT ago.  Nothing bounds how long a *)
(* datagram travels, so the two clocks need not agree.                     *)
(***************************************************************************)
EXTENDS Naturals, FiniteSets

CONSTANTS
  Layers,      \* the cluster layers a peer may run
  Base,        \* BaseLayer
  MaxTime,     \* bound: starts and beats of the peer
  MaxSwitches, \* bound: layers the peer switches on or off
  MaxOutages   \* bound: failures to send

ASSUME HeartbeatAssumption ==
  /\ Base \in Layers
  /\ {MaxTime, MaxSwitches, MaxOutages} \subseteq Nat /\ MaxTime > 0

VARIABLES
  \* the peer and the network
  up,          \* it runs
  active,      \* its activeLayers
  liveTime,    \* the time of its start
  clock,       \* the last number given
  switches,    \* how often it switched a layer
  flying,      \* the beats on their way
  old,         \* beats up to this are older than NODE_TIMEOUT
  \* the tables
  maps,        \* the inner maps
  heard,       \* layerLastHeardTimes.get(address), or NoMap
  live,        \* layerLiveTimes.get(address), or NoMap
  ring,        \* how often the peer was added to the ring of BaseLayer
  \* the receiver
  rpc, beat, todo, layer, knownLive, knownTime,
  putInto,     \* the inner map it is about to put into
  \* the sender
  spc, online, outages, cut, toCheck, failing, hasTimeout,
  lastHeard,   \* its local lastHeardTimes
  liveTimes,   \* its local liveTimes
  \* history
  mishaps      \* which accidents of interleaving have happened

peerVars == <<up, active, liveTime, clock, switches>>
tables   == <<maps, heard, live>>
receiver == <<rpc, beat, todo, layer, knownLive, knownTime, putInto>>
sender   == <<spc, online, outages, cut, toCheck, failing, hasTimeout, lastHeard, liveTimes>>
vars     == <<peerVars, flying, old, tables, ring, receiver, sender, mishaps>>

Times  == 0..MaxTime            \* 0 is null
MapIds == 1..5                  \* as many as can be held at once
NoMap  == 0
Blank  == [l \in Layers |-> 0]
Beats  == [live : Times, sent : Times, layers : SUBSET Layers]
NoBeat == [live |-> 0, sent |-> 0, layers |-> {}]

TypeOK ==
  /\ up \in BOOLEAN /\ active \subseteq Layers
  /\ liveTime \in Times /\ clock \in Times /\ old \in Times /\ switches \in 0..MaxSwitches
  /\ flying \subseteq Beats
  /\ maps \in [MapIds -> [Layers -> Times]]
  /\ {heard, live, putInto, lastHeard, liveTimes} \subseteq MapIds \cup {NoMap}
  /\ ring \in Nat
  /\ rpc \in {"receive", "layer", "known", "live", "putLive", "confirm", "join", "heard", "putHeard"}
  /\ putInto # NoMap <=> rpc \in {"putLive", "putHeard"}
  /\ beat \in Beats /\ todo \subseteq Layers
  /\ layer \in Layers /\ knownLive \in Times /\ knownTime \in Times
  /\ spc \in {"sleep", "check", "fail", "leave", "forget", "detachHeard", "heardRefilled",
              "reattachHeard", "liveSize", "detachLive", "liveRefilled", "reattachLive",
              "clearHeard", "clearLive"}
  /\ online \in BOOLEAN /\ outages \in 0..MaxOutages /\ cut \in Times
  /\ toCheck \subseteq Layers /\ hasTimeout \in BOOLEAN
  /\ failing \in [layer : Layers, value : Times]
  /\ mishaps \subseteq {"detachedHeard", "cleared", "stale", "wrongMap", "crossed", "unconfirmed"}

Init ==
  /\ up = TRUE /\ active = {Base} /\ liveTime = 1 /\ clock = 1 /\ switches = 0
  /\ flying = {} /\ old = 0
  /\ maps = [m \in MapIds |-> Blank] /\ heard = NoMap /\ live = NoMap
  /\ ring = 0
  /\ rpc = "receive" /\ beat = NoBeat /\ todo = {} /\ layer = Base
  /\ knownLive = 0 /\ knownTime = 0 /\ putInto = NoMap
  /\ spc = "sleep" /\ online = TRUE /\ outages = 0 /\ cut = 0 /\ toCheck = {}
  /\ failing = [layer |-> Base, value |-> 0] /\ hasTimeout = FALSE
  /\ lastHeard = NoMap /\ liveTimes = NoMap
  /\ mishaps = {}

-----------------------------------------------------------------------------
(* The tables.                                                             *)

Held  == {heard, live, putInto, lastHeard, liveTimes}
\* A map that a constructor makes: none that anybody holds.
Fresh == CHOOSE m \in MapIds \ Held : \A n \in MapIds \ Held : m <= n

\* ConcurrentConstructingHashMap.get(): the inner map, made if there is none.
Got(table)       == IF table = NoMap THEN Fresh ELSE table
Value(table, l)  == IF table = NoMap THEN 0 ELSE maps[table][l]
IsEmpty(m)       == maps[m] = Blank
Put(m, l, value) == [maps EXCEPT ![m][l] = value]
\* Maps that nobody holds any longer are collected.
Collected(f, held) == [m \in MapIds |-> IF m \in held THEN f[m] ELSE Blank]
\* putIfAbsent of every entry of m into n.
Merged(m, n) == [maps EXCEPT ![n] = [l \in Layers |-> IF @[l] = 0 THEN maps[m][l] ELSE @[l]]]

Mishap(name, happens) == mishaps' = IF happens THEN mishaps \cup {name} ELSE mishaps

-----------------------------------------------------------------------------
(* The peer and the network.                                               *)

\* The body of the sending thread's loop, seen from the other side.
SendBeat ==
  /\ up /\ clock < MaxTime
  /\ clock' = clock + 1
  /\ flying' = flying \cup {[live |-> liveTime, sent |-> clock + 1, layers |-> active]}
  /\ UNCHANGED <<up, active, liveTime, switches, old, tables, ring, receiver, sender, mishaps>>

\* addLayer(), removeLayer().
SwitchLayer ==
  /\ up /\ switches < MaxSwitches /\ switches' = switches + 1
  /\ \E l \in Layers : active' = IF l \in active THEN active \ {l} ELSE active \cup {l}
  /\ UNCHANGED <<up, liveTime, clock, flying, old, tables, ring, receiver, sender, mishaps>>

Die ==
  /\ up /\ up' = FALSE
  /\ UNCHANGED <<active, liveTime, clock, switches, flying, old, tables, ring, receiver, sender, mishaps>>

Start ==
  /\ ~up /\ clock < MaxTime
  /\ up' = TRUE /\ active' = {Base}
  /\ clock' = clock + 1 /\ liveTime' = clock + 1
  /\ UNCHANGED <<switches, flying, old, tables, ring, receiver, sender, mishaps>>

Lose ==
  /\ \E b \in flying : flying' = flying \ {b}
  /\ UNCHANGED <<peerVars, old, tables, ring, receiver, sender, mishaps>>

Age ==
  /\ old < clock /\ old' = old + 1
  /\ UNCHANGED <<peerVars, flying, tables, ring, receiver, sender, mishaps>>

-----------------------------------------------------------------------------
(* The receiver: onHeartbeat() and onDiscovery().                          *)

\* What follows when a layer is dealt with, or the beat is given up.
Onward(left) ==
  /\ rpc' = IF left = {} THEN "receive" ELSE "layer"
  /\ todo' = left
  /\ beat' = IF left = {} THEN NoBeat ELSE beat
  /\ layer' = Base /\ knownLive' = 0 /\ knownTime' = 0 /\ putInto' = NoMap

\* if (knownTime == null || sentTime > knownTime).
AfterLive(known) ==
  IF known = 0 \/ beat.sent > known
  THEN /\ rpc' = "heard" /\ knownLive' = 0 /\ knownTime' = known
       /\ putInto' = NoMap /\ UNCHANGED <<beat, todo, layer>>
  ELSE Onward(todo)

Receive ==
  /\ rpc = "receive"
  /\ \E b \in flying :
       /\ flying' = flying \ {b}
       /\ IF b.layers = {} THEN UNCHANGED receiver
          ELSE /\ rpc' = "layer" /\ beat' = b /\ todo' = b.layers
               /\ UNCHANGED <<layer, knownLive, knownTime, putInto>>
  /\ UNCHANGED <<peerVars, old, tables, ring, sender, mishaps>>

ReadLive ==
  /\ rpc = "layer"
  /\ \E l \in todo :
       /\ layer' = l /\ todo' = todo \ {l}
       /\ knownLive' = Value(live, l)
  /\ live' = Got(live)
  /\ rpc' = "known"
  /\ UNCHANGED <<peerVars, flying, old, maps, heard, ring, beat, knownTime, putInto, sender, mishaps>>

ReadHeard ==
  /\ rpc = "known"
  /\ heard' = Got(heard)
  /\ LET known == Value(heard, layer)
         news  == knownLive = 0 \/ beat.live > knownLive
     IN  /\ IF news
            THEN /\ rpc' = "live" /\ knownTime' = known
                 /\ UNCHANGED <<beat, todo, layer, knownLive, putInto>>
            ELSE AfterLive(known)
  /\ UNCHANGED <<peerVars, flying, old, maps, live, ring, sender, mishaps>>

\* layerLiveTimes.get(address), then .put(layer, liveTime).
FetchLive ==
  /\ rpc = "live"
  /\ live' = Got(live) /\ putInto' = Got(live)
  /\ rpc' = "putLive"
  /\ UNCHANGED <<peerVars, flying, old, maps, heard, ring, beat, todo, layer, knownLive, knownTime,
                 sender, mishaps>>

PutLive ==
  /\ rpc = "putLive"
  /\ putInto' = NoMap
  /\ maps' = Collected(Put(putInto, layer, beat.live), {heard, live, lastHeard, liveTimes})
  /\ rpc' = "confirm"
  /\ UNCHANGED <<peerVars, flying, old, heard, live, ring, beat, todo, layer, knownLive, knownTime,
                 sender, mishaps>>

\* onDiscovery() reads the time again.  Where there is none, equals() throws
\* and the rest of the beat is lost.
Confirm ==
  /\ rpc = "confirm"
  /\ live' = Got(live)
  /\ LET known == Value(live, layer)
     IN  \/ /\ known = 0 /\ Onward({})
         \/ /\ known = beat.live /\ rpc' = "join"
            /\ UNCHANGED <<beat, todo, layer, knownLive, knownTime, putInto>>
         \/ /\ known \notin {0, beat.live} /\ AfterLive(knownTime)
  /\ Mishap("unconfirmed", Value(live, layer) # beat.live)
  /\ UNCHANGED <<peerVars, flying, old, maps, heard, ring, sender>>

\* rings.get(BaseLayer.class).add(address), whatever the layer.
Join ==
  /\ rpc = "join"
  /\ ring' = ring + 1
  /\ AfterLive(knownTime)
  /\ Mishap("stale", knownTime >= beat.sent /\ Value(heard, layer) = 0)
  /\ UNCHANGED <<peerVars, flying, old, tables, sender>>

FetchHeard ==
  /\ rpc = "heard"
  /\ heard' = Got(heard) /\ putInto' = Got(heard)
  /\ rpc' = "putHeard"
  /\ UNCHANGED <<peerVars, flying, old, maps, live, ring, beat, todo, layer, knownLive, knownTime,
                 sender, mishaps>>

PutHeard ==
  /\ rpc = "putHeard"
  /\ Mishap("detachedHeard", putInto # heard)
  /\ maps' = Collected(Put(putInto, layer, beat.sent), {heard, live, lastHeard, liveTimes})
  /\ Onward(todo)
  /\ UNCHANGED <<peerVars, flying, old, heard, live, ring, sender>>

Receiver ==
  \/ Receive \/ ReadLive \/ ReadHeard \/ FetchLive \/ PutLive
  \/ Confirm \/ Join \/ FetchHeard \/ PutHeard

-----------------------------------------------------------------------------
(* The sender: the sweep, the outage, and onFailure().                     *)

Sweeping(step) == spc' = step /\ UNCHANGED <<online, outages, cut>>

Asleep ==
  /\ toCheck' = {} /\ hasTimeout' = FALSE
  /\ failing' = [layer |-> Base, value |-> 0]
  /\ lastHeard' = NoMap /\ liveTimes' = NoMap

Unswept == UNCHANGED <<toCheck, failing, hasTimeout, lastHeard, liveTimes>>
Outside == UNCHANGED <<peerVars, flying, old, receiver>>

\* Mutant of BeginSweep: curTime read once, when the thread starts.
BeginSweepInThePast ==
  /\ spc = "sleep"
  /\ online' = TRUE /\ UNCHANGED <<outages, cut>>
  /\ IF heard = NoMap THEN UNCHANGED <<spc, toCheck>>
     ELSE spc' = "check" /\ toCheck' = Layers
  /\ UNCHANGED <<failing, hasTimeout, lastHeard, liveTimes, tables, ring, mishaps>>
  /\ Outside

\* The own beat was sent; curTime is read, and if the peer has an entry its
\* layers are gone through.
BeginSweep ==
  /\ spc = "sleep"
  /\ online' = TRUE /\ UNCHANGED outages
  /\ IF heard = NoMap THEN UNCHANGED <<spc, cut, toCheck>>
     ELSE spc' = "check" /\ cut' = old /\ toCheck' = Layers
  /\ UNCHANGED <<failing, hasTimeout, lastHeard, liveTimes, tables, ring, mishaps>>
  /\ Outside

\* IOException: every layer heard of fails, whatever its time.
SendFails ==
  /\ spc = "sleep" /\ outages < MaxOutages
  /\ outages' = outages + 1 /\ online' = FALSE
  /\ IF ~online THEN UNCHANGED <<spc, cut, toCheck>>
     ELSE IF heard = NoMap THEN spc' = "clearHeard" /\ UNCHANGED <<cut, toCheck>>
     ELSE spc' = "check" /\ cut' = MaxTime /\ toCheck' = Layers
  /\ UNCHANGED <<failing, hasTimeout, lastHeard, liveTimes, tables, ring, mishaps>>
  /\ Outside

Check ==
  /\ spc = "check"
  /\ \E l \in toCheck :
       /\ toCheck' = toCheck \ {l}
       /\ LET value == Value(heard, l)
          IN  IF value # 0 /\ value <= cut
              THEN Sweeping("fail") /\ failing' = [layer |-> l, value |-> value]
              ELSE Sweeping("check") /\ UNCHANGED failing
  /\ UNCHANGED <<hasTimeout, lastHeard, liveTimes, tables, ring, mishaps>>
  /\ Outside

\* layerLastHeardTimes.get(address).remove(layer, lastHeardTime).
Fail ==
  /\ spc = "fail"
  /\ hasTimeout' = TRUE
  /\ IF Value(heard, failing.layer) = failing.value
     THEN Sweeping("leave") /\ maps' = Put(heard, failing.layer, 0)
     ELSE Sweeping("check") /\ UNCHANGED maps
  /\ UNCHANGED <<toCheck, failing, lastHeard, liveTimes, heard, live, ring, mishaps>>
  /\ Outside

\* Mutant of Leave: only the ring of the layer that failed.
LeaveOwnRing ==
  /\ spc = "leave"
  /\ ring' = IF failing.layer = Base THEN 0 ELSE ring
  /\ Mishap("crossed", \E l \in Layers \ {failing.layer} : Value(live, l) # 0)
  /\ Sweeping("forget")
  /\ UNCHANGED tables /\ Unswept /\ Outside

\* Every ring drops the node, whichever layer has failed.
Leave ==
  /\ spc = "leave"
  /\ ring' = 0
  /\ Mishap("crossed", \E l \in Layers \ {failing.layer} : Value(live, l) # 0)
  /\ Sweeping("forget")
  /\ UNCHANGED tables /\ Unswept /\ Outside

\* Mutant of Forget: remove(layer, lastHeardTime) here, too.
ForgetIfSame ==
  /\ spc = "forget"
  /\ live' = Got(live)
  /\ maps' = IF Value(live, failing.layer) # failing.value THEN maps
           ELSE Put(live, failing.layer, 0)
  /\ Sweeping("check")
  /\ UNCHANGED <<heard, ring, mishaps>> /\ Unswept /\ Outside

Forget ==
  /\ spc = "forget"
  /\ live' = Got(live)
  /\ maps' = IF live = NoMap THEN maps ELSE Put(live, failing.layer, 0)
  /\ Sweeping("check")
  /\ UNCHANGED <<heard, ring, mishaps>> /\ Unswept /\ Outside

\* All layers were gone through; if one had timed out and none is left, the
\* inner map will be taken out of its table.
CheckDone ==
  /\ spc = "check" /\ toCheck = {}
  /\ IF online /\ hasTimeout
     THEN /\ Sweeping(IF IsEmpty(heard) THEN "detachHeard" ELSE "liveSize")
          /\ lastHeard' = heard
          /\ UNCHANGED <<toCheck, failing, hasTimeout, liveTimes>>
     ELSE /\ Sweeping(IF online THEN "sleep" ELSE "clearHeard")
          /\ Asleep
  /\ UNCHANGED <<tables, ring, mishaps>> /\ Outside

\* layerLastHeardTimes.remove(m.getKey(), lastHeardTimes).
DetachHeard ==
  /\ spc = "detachHeard"
  /\ heard' = NoMap
  /\ Sweeping("heardRefilled")
  /\ UNCHANGED <<maps, live, ring, mishaps>> /\ Unswept /\ Outside

\* if (lastHeardTimes.size() > 0).
HeardRefilled ==
  /\ spc = "heardRefilled"
  /\ Sweeping(IF IsEmpty(lastHeard) THEN "liveSize" ELSE "reattachHeard")
  /\ UNCHANGED <<tables, ring, mishaps>> /\ Unswept /\ Outside

\* putIfAbsent(m.getKey(), lastHeardTimes), or its entries into the map that
\* is there.  (Only this thread takes maps out: replace() always succeeds.)
ReattachHeard ==
  /\ spc = "reattachHeard"
  /\ IF heard = NoMap THEN heard' = lastHeard /\ UNCHANGED maps
     ELSE maps' = Merged(lastHeard, heard) /\ UNCHANGED heard
  /\ Sweeping("liveSize")
  /\ UNCHANGED <<live, ring, mishaps>> /\ Unswept /\ Outside

LiveSize ==
  /\ spc = "liveSize"
  /\ live' = Got(live)
  /\ IF IsEmpty(Got(live))
     THEN /\ Sweeping("detachLive") /\ liveTimes' = Got(live)
          /\ UNCHANGED <<toCheck, failing, hasTimeout, lastHeard, maps>>
     ELSE /\ Sweeping("sleep") /\ Asleep
          /\ maps' = Collected(maps, {heard, live, putInto})
  /\ UNCHANGED <<heard, ring, mishaps>> /\ Outside

DetachLive ==
  /\ spc = "detachLive"
  /\ live' = NoMap
  /\ Sweeping("liveRefilled")
  /\ UNCHANGED <<maps, heard, ring, mishaps>> /\ Unswept /\ Outside

LiveRefilled ==
  /\ spc = "liveRefilled"
  /\ IF IsEmpty(liveTimes)
     THEN /\ Sweeping("sleep") /\ Asleep
          /\ maps' = Collected(maps, {heard, live, putInto})
     ELSE Sweeping("reattachLive") /\ Unswept /\ UNCHANGED maps
  /\ UNCHANGED <<heard, live, ring, mishaps>> /\ Outside

\* putIfAbsent(m.getKey(), lastHeardTimes): the other table's map.
ReattachLive ==
  /\ spc = "reattachLive"
  /\ IF live = NoMap THEN live' = lastHeard /\ maps' = Collected(maps, {heard, lastHeard, putInto})
     ELSE maps' = Collected(Merged(liveTimes, live), {heard, live, putInto}) /\ UNCHANGED live
  /\ Mishap("wrongMap", live = NoMap)
  /\ Sweeping("sleep") /\ Asleep
  /\ UNCHANGED <<heard, ring>> /\ Outside

\* After an outage both tables are cleared.
ClearHeard ==
  /\ spc = "clearHeard"
  /\ heard' = NoMap
  /\ maps' = Collected(maps, {live, putInto})
  /\ Mishap("cleared", heard # NoMap /\ ~IsEmpty(heard))
  /\ Sweeping("clearLive")
  /\ UNCHANGED <<live, ring>> /\ Unswept /\ Outside

ClearLive ==
  /\ spc = "clearLive"
  /\ live' = NoMap
  /\ maps' = Collected(maps, {heard, putInto})
  /\ Sweeping("sleep")
  /\ UNCHANGED <<heard, ring, mishaps>> /\ Unswept /\ Outside

Sender ==
  \/ BeginSweep \/ SendFails \/ Check \/ Fail \/ Leave \/ Forget \/ CheckDone
  \/ DetachHeard \/ HeardRefilled \/ ReattachHeard
  \/ LiveSize \/ DetachLive \/ LiveRefilled \/ ReattachLive
  \/ ClearHeard \/ ClearLive

-----------------------------------------------------------------------------
Peer == SendBeat \/ SwitchLayer \/ Die \/ Start \/ Lose \/ Age

Next == Peer \/ Receiver \/ Sender

\* The threads run and time passes; a datagram arrives or is lost.
Fairness == WF_vars(Receiver) /\ WF_vars(Sender) /\ WF_vars(Age)

Spec == Init /\ [][Next]_vars /\ Fairness

-----------------------------------------------------------------------------
(* What a peer's place on the ring and the two tables should have to do    *)
(* with each other, when neither thread is at work.  There are accidents   *)
(* of interleaving that part them for good; `mishaps` names those that     *)
(* have happened, and each property the ones it has to except.             *)

Idle == rpc = "receive" /\ spc = "sleep"
No(accidents) == mishaps \cap accidents = {}

\* A last heard time was put into a map out of its table, cleared after an
\* outage before its layer had failed, or not put because a newer one had been
\* there; or the tables share a map and a failure removes from both.
Ghosting == {"detachedHeard", "cleared", "stale", "wrongMap"}

\* A discovery did not find its own live time again, another layer's failure
\* took the peer off the ring, or live times came out of the other table.
Hiding == {"unconfirmed", "crossed", "wrongMap"}

\* A peer on the ring has a last heard time, by which the sweep will miss it
\* when it falls silent (onFailure(), the sweep and the receiver together).
\* The types hold, too.
Watched ==
  /\ TypeOK
  /\ Idle /\ ring > 0 /\ No(Ghosting) => heard # NoMap /\ ~IsEmpty(heard)

\* A peer off the ring has no live time, so that its next beat is a discovery:
\* onHeartbeat() discovers only what has none, or an older one.
Findable == Idle /\ ring = 0 /\ No(Hiding) => live = NoMap \/ IsEmpty(live)

\* A peer that stays down leaves the ring for good, but for the ghosts above.
DeadIsSwept == <>[]~up => <>[](ring = 0 \/ ~No(Ghosting))
=============================================================================
