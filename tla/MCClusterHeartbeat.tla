------------------------ MODULE MCClusterHeartbeat ------------------------
(* Small instances of ClusterHeartbeat for TLC.                            *)
EXTENDS ClusterHeartbeat, TLC

CONSTANTS base, farmer
=============================================================================
