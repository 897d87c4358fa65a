---------------------------- MODULE MCSocketRpc ----------------------------
(* Small instances of SocketRpc for TLC.                                   *)
EXTENDS SocketRpc, TLC

CONSTANTS r1, r2, r3, c1, c2

\* One client calls twice, the other once; or a single call.
TwoAndOne == (r1 :> c1) @@ (r2 :> c1) @@ (r3 :> c2)
JustOne   == (r1 :> c1)
=============================================================================
