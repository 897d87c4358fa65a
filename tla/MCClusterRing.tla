--------------------------- MODULE MCClusterRing ---------------------------
(* A small instance of ClusterRing for TLC.                                *)
EXTENDS ClusterRing, TLC

CONSTANTS a, b, c, receiver, sweeper

\* Positions that collide: b's first is a's, c's lie on the array's last slots.
Positioned ==
  [n \in Addresses |->
     [k \in 0..2 |-> IF n = a THEN 5 * k ELSE IF n = b THEN 7 * k ELSE 23 - k]]
=============================================================================
