-------------------------- MODULE MCConceptFarmer --------------------------
(* A small instance of ConceptFarmer for TLC.                              *)
EXTENDS ConceptFarmer, TLC

CONSTANTS l1, l2, n1, f1, f2

\* One node that builds two threads: a restart, or a second activation.
SameNode == (f1 :> n1) @@ (f2 :> n1)

\* One misfortune of each kind.
OneOfEach == [k \in Misfortune |-> 1]
=============================================================================
