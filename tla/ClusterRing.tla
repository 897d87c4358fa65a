---------------------------- MODULE ClusterRing ----------------------------
(***************************************************************************)
(* ClusterRing.java: a consistent hashing ring kept as an array, replaced  *)
(* as a whole by compareAndSet.  add() and remove() read the array, build  *)
(* a changed copy -- which may be longer or shorter -- and start again if  *)
(* another thread has replaced the array meanwhile.  The heartbeat's       *)
(* receiver thread adds, its sending thread removes (ClusterHeartbeat 256  *)
(* and 269).                                                               *)
(*                                                                         *)
(* Left out: Math.abs() of the least integer is negative, so that one hash *)
(* in 2^32 gives no slot and the call throws before it has changed a thing.*)
(***************************************************************************)
EXTENDS Integers, FiniteSets

CONSTANTS
  Addresses,        \* the nodes' addresses
  Nothing,          \* an empty slot
  Hash,             \* Hash[a][k]: |MurmurHash(a, k)| % KEYSPACE
  Adders, Removers, \* the threads that call add() and remove()
  InitialSize,      \* INITIAL_RING_SIZE
  PositionsPerNode, \* POSITIONS_PER_NODE
  MaxOccupied       \* bound: no add() begins with more slots taken

Threads == Adders \cup Removers

ASSUME RingAssumption ==
  /\ Nothing \notin Addresses
  /\ InitialSize \in Nat \ {0}
  /\ PositionsPerNode \in Nat \ {0}
  /\ Hash \in [Addresses -> [0..PositionsPerNode-1 -> Nat]]
  /\ Adders \cap Removers = {}
  /\ MaxOccupied \in Nat

VARIABLES
  array,    \* ringRef: slot -> address
  pc,       \* "idle", or "swap" with a new array built
  address,  \* the argument of the call
  oldRing,  \* the array the call has read
  fresh     \* whether ringRef still refers to that very array

ringVars == <<array, pc, address, oldRing, fresh>>

-----------------------------------------------------------------------------
(* The array.                                                              *)

Size(r)        == Cardinality(DOMAIN r)
Slots(r, a)    == {i \in DOMAIN r : r[i] = a}
Occupied(r)    == {i \in DOMAIN r : r[i] # Nothing}
Empty(n)       == [i \in 0..n-1 |-> Nothing]

\* while (ring[pos++ % ring.length] != null) continue; ring[--pos % ...] = a.
\* On a full array the loop would not end; here the address finds no place,
\* and ProbesEnd says it never comes to that.
Place(r, pos, a) ==
  LET slot(d) == (pos + d) % Size(r)
      free    == {d \in 0..Size(r)-1 : r[slot(d)] = Nothing}
      nearest == CHOOSE d \in free : \A e \in free : d <= e
  IN  IF free = {} THEN r ELSE [r EXCEPT ![slot(nearest)] = a]

\* rescale(): the entries move in the order of their slots, probing again from
\* the slot newPos gives each.
Rescale(r, newSize, newPos) ==
  LET moved[i \in 0..Size(r)] ==
        IF i = 0 THEN Empty(newSize)
        ELSE IF r[i-1] = Nothing THEN moved[i-1]
        ELSE Place(moved[i-1], newPos[i-1], r[i-1])
  IN  moved[Size(r)]

Doubled(r) == Rescale(r, 2 * Size(r), [i \in DOMAIN r |-> 2 * i])

Halved(r) == Rescale(r, (Size(r) + 1) \div 2, [i \in DOMAIN r |-> i \div 2])

\* add(address, ring, count): room is made while count more are to come
\* (MAX_DENSITY is .90), then the position is taken.
AddPosition(r, a, count) ==
  LET roomy == IF 10 * (Cardinality(Occupied(r)) + count) > 9 * Size(r)
               THEN Doubled(r) ELSE r
  IN  Place(roomy, Hash[a][count], a)

\* while (i-- > 0) newRing = add(address, newRing, i).
WithNode(r, a) ==
  LET placed[i \in 0..PositionsPerNode] ==
        IF i = 0 THEN r ELSE AddPosition(placed[i-1], a, PositionsPerNode - i)
  IN  placed[PositionsPerNode]

\* Mutants of WithoutNode: MAX_DENSITY in the place of MIN_DENSITY; the gap
\* closed by moving the entries behind it up.
ShrunkToTight(r, a) ==
  LET cleared == [i \in DOMAIN r |-> IF r[i] = a THEN Nothing ELSE r[i]]
  IN  IF 10 * Cardinality(Occupied(cleared)) < 9 * Size(r) THEN Halved(cleared) ELSE cleared

GapClosed(r, a) ==
  LET cleared == [i \in DOMAIN r |-> IF r[i] = a THEN Nothing ELSE r[i]]
      n       == Size(r)
  IN  [i \in DOMAIN r |-> IF Slots(r, a) # {} THEN cleared[(i + 1) % n] ELSE r[i]]

\* Every slot of the address is emptied; below MIN_DENSITY (.25) the array is
\* halved, once, also when the address was not on the ring.
WithoutNode(r, a) ==
  LET cleared == [i \in DOMAIN r |-> IF r[i] = a THEN Nothing ELSE r[i]]
  IN  IF 4 * Cardinality(Occupied(cleared)) < Size(r) THEN Halved(cleared) ELSE cleared

\* findPosition(): the first address at or after the key's slot.  KEYSPACE is
\* cut into `parts` equal stretches, and the key lies at the start of one.
Owner(r, key, parts) ==
  LET start   == (key * Size(r)) \div parts
      slot(d) == (start + d) % Size(r)
      nearest == CHOOSE d \in 0..Size(r)-1 :
                   /\ r[slot(d)] # Nothing
                   /\ \A e \in 0..d-1 : r[slot(e)] = Nothing
  IN  r[slot(nearest)]

-----------------------------------------------------------------------------
(* The threads.                                                            *)

RingTypeOK ==
  /\ array \in [0..Size(array)-1 -> Addresses \cup {Nothing}]
  /\ Size(array) > 0
  /\ pc \in [Threads -> {"idle", "swap"}]
  /\ address \in [Threads -> Addresses \cup {Nothing}]
  /\ fresh \in [Threads -> BOOLEAN]
  /\ \A t \in Threads : pc[t] = "swap" /\ fresh[t] => oldRing[t] = array

RingInit ==
  /\ array = Empty(InitialSize)
  /\ pc = [t \in Threads |-> "idle"]
  /\ address = [t \in Threads |-> Nothing]
  /\ oldRing = [t \in Threads |-> <<>>]
  /\ fresh = [t \in Threads |-> FALSE]

\* A call of add() or remove(): ringRef.get() and the copy.
Call(t, a) ==
  /\ pc[t] = "idle"
  /\ t \in Adders => Cardinality(Occupied(array)) <= MaxOccupied
  /\ pc' = [pc EXCEPT ![t] = "swap"]
  /\ address' = [address EXCEPT ![t] = a]
  /\ oldRing' = [oldRing EXCEPT ![t] = array]
  /\ fresh' = [fresh EXCEPT ![t] = TRUE]
  /\ UNCHANGED array

NewRing(t) ==
  IF t \in Adders THEN WithNode(oldRing[t], address[t])
                  ELSE WithoutNode(oldRing[t], address[t])

\* Mutant of Swap: ringRef.set() where compareAndSet() was.
SwapBlindly(t) ==
  /\ pc[t] = "swap"
  /\ array' = NewRing(t)
  /\ pc' = [pc EXCEPT ![t] = "idle"]
  /\ fresh' = [u \in Threads |-> FALSE]
  /\ oldRing' = [oldRing EXCEPT ![t] = <<>>]
  /\ address' = [address EXCEPT ![t] = Nothing]

\* compareAndSet() finds the array it knows; no other thread's is known now.
Swap(t) ==
  /\ pc[t] = "swap"
  /\ fresh[t]
  /\ array' = NewRing(t)
  /\ pc' = [pc EXCEPT ![t] = "idle"]
  /\ fresh' = [u \in Threads |-> FALSE]
  /\ oldRing' = [oldRing EXCEPT ![t] = <<>>]
  /\ address' = [address EXCEPT ![t] = Nothing]

\* compareAndSet() fails: add(address) or remove(address) calls itself.
Retry(t) ==
  /\ pc[t] = "swap"
  /\ ~fresh[t]
  /\ oldRing' = [oldRing EXCEPT ![t] = array]
  /\ fresh' = [fresh EXCEPT ![t] = TRUE]
  /\ UNCHANGED <<array, pc, address>>

RingNext == \E t \in Threads : (\E a \in Addresses : Call(t, a)) \/ Swap(t) \/ Retry(t)

RingSpec == RingInit /\ [][RingNext]_ringVars

-----------------------------------------------------------------------------

\* Every call takes effect as a whole or not yet: the ring implements the bag
\* of positions, however the threads' reads and swaps interleave and whatever
\* the array's layout.  No add() or remove() is lost, none is done twice.
Positions == [a \in Addresses |-> Cardinality(Slots(array, a))]

Bag == INSTANCE RingBag WITH positions <- Positions

RingIsBag == Bag!Spec

\* No probe goes round a full array: what add() and remove() build from the
\* array they read holds an entry for each that was in it, plus or minus the
\* node's own, so growing and shrinking always leave room in time.  The types
\* hold, too: an array never shrinks to no slot at all.
ProbesEnd ==
  /\ RingTypeOK
  /\ \A t \in Threads : pc[t] = "swap" =>
       Cardinality(Occupied(NewRing(t))) =
         IF t \in Adders THEN Cardinality(Occupied(oldRing[t])) + PositionsPerNode
         ELSE Cardinality(Occupied(oldRing[t])) - Cardinality(Slots(oldRing[t], address[t]))

\* Consistent hashing: while the array keeps its length, a key changes hands
\* only to the node that comes or from the node that goes.
KeysStay ==
  [][ Occupied(array) # {} /\ Occupied(array') # {} /\ Size(array') = Size(array) =>
      \A k \in 0..Size(array)-1 :
        LET before == Owner(array, k, Size(array))
            after  == Owner(array', k, Size(array))
        IN  after # before =>
              \E t \in Threads : address[t] = (IF t \in Adders THEN after ELSE before)
                                   /\ pc[t] = "swap" /\ pc'[t] = "idle" ]_ringVars

=============================================================================
