--------------------------- MODULE MCRegistration ---------------------------
(* Three requests for two names; a password may be the columns' default.   *)
EXTENDS Registration, TLC

CONSTANTS r1, r2, r3, ann, bob, p, q
Symmetry == Permutations(Requests) \cup Permutations(Names) \cup Permutations({p, q})
=============================================================================
