------------------------------ MODULE MCCometd ------------------------------
(* Small instances of Cometd for TLC.                                      *)
EXTENDS Cometd, TLC

\* Every kind of event at most twice.
Twice == [e \in Event |-> 2]
=============================================================================
