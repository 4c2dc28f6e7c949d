------------------------------ MODULE MCOutbox ------------------------------
(* Bounds for model-checking the outbox, and its symmetries.               *)
EXTENDS Outbox, TLC

CONSTANTS d1, d2, p1, p2, p3

MCDecisions == {d1, d2}
MCProcs == {p1, p2, p3}
MCRestricted == {p3}
MCOneProc == {p1}
MCNone == {}

\* p1 and p2 hold the same kind of broker handle; the decisions are alike.
MCSymmetry == Permutations(MCDecisions) \cup Permutations({p1, p2})
=============================================================================
