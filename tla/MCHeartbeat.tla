---------------------------- MODULE MCHeartbeat ----------------------------
(* Bounds for model-checking heartbeats.                                   *)
EXTENDS Heartbeat

MCClocks == {"wall", "replay"}
MCWall == {"wall"}
=============================================================================
