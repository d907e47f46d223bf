---------------------------- MODULE MCHeartbeats ----------------------------
(* Instances of Heartbeats for TLC.  No symmetry: the run checks liveness.  *)
EXTENDS Heartbeats
=============================================================================
