------------------------------ MODULE MCEnvjs ------------------------------
(* A small instance of Envjs for TLC.                                      *)
EXTENDS Envjs, TLC

CONSTANTS main, r1
=============================================================================
