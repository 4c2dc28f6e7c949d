------------------------------- MODULE MCHitl -------------------------------
(* Bounds for model-checking the human gate: one escalation is enough for  *)
(* two humans, the reaper and the node to meet on it.                      *)
EXTENDS HitlQueue

CONSTANT d1

MCDecisions == {d1}
MCActors == {"cli", "slack"}
=============================================================================
