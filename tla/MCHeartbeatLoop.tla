-------------------------- MODULE MCHeartbeatLoop --------------------------
(* Bounds for model-checking the heartbeat loop: two kinds of failure and  *)
(* twice the threshold of heartbeats.                                      *)
EXTENDS HeartbeatLoop

MCErrors == {"timeout", "locked"}
=============================================================================
