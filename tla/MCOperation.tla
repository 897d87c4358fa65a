---------------------------- MODULE MCOperation ----------------------------
(* Small instances of Operation for TLC.                                   *)
EXTENDS Operation, TLC

CONSTANTS a, b, c, pa, t

\* One operation prefetches.
OnlyA == a :> pa
=============================================================================
