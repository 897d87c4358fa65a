------------------------------ MODULE RingBag ------------------------------
(***************************************************************************)
(* What a consistent hashing ring promises to the threads that share it:   *)
(* how many positions each address holds, changed one whole call at a time.*)
(***************************************************************************)
EXTENDS Naturals

CONSTANTS
  Addresses,        \* the addresses that may be on the ring
  PositionsPerNode  \* POSITIONS_PER_NODE

VARIABLE positions  \* how many positions each address holds

Init == positions = [a \in Addresses |-> 0]

\* Another discovery of the same node gives it another set of positions.
Add(a) == positions' = [positions EXCEPT ![a] = @ + PositionsPerNode]

Remove(a) == positions' = [positions EXCEPT ![a] = 0]

Next == \E a \in Addresses : Add(a) \/ Remove(a)

Spec == Init /\ [][Next]_positions
=============================================================================
