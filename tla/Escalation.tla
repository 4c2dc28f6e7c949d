----------------------------- MODULE Escalation -----------------------------
(***************************************************************************)
(* What the human gate promises, with no statement, no prompt, no clock    *)
(* and no process in sight: an escalation is on record before it is in the *)
(* queue; one answer is given to it, once, by a human, who may be ahead of *)
(* the question; and it is released only while the answer is an approval.  *)
(* Nothing is taken back.                                                  *)
(***************************************************************************)
CONSTANT Decisions      \* the decisions that may be escalated

VARIABLES
  recorded,             \* the escalations on record
  status,               \* the question put to the humans, and their answer
  released              \* the escalations let through to execution

vars == <<recorded, status, released>>

Init ==
  /\ recorded = {}
  /\ status = [d \in Decisions |-> "none"]
  /\ released = {}

\* The escalation is put on record.
Record(d) ==
  /\ recorded' = recorded \cup {d}
  /\ UNCHANGED <<status, released>>

\* It is put into the queue, and on record with it if it was not yet.
Ask(d) ==
  /\ status[d] = "none"
  /\ status' = [status EXCEPT ![d] = "pending"]
  /\ recorded' = recorded \cup {d}
  /\ UNCHANGED released

\* A human approves what is on record, queued already or not.
Approve(d) ==
  /\ d \in recorded
  /\ status[d] \in {"none", "pending"}
  /\ status' = [status EXCEPT ![d] = "approved"]
  /\ UNCHANGED <<recorded, released>>

\* A human rejects what is in the queue.
Reject(d) ==
  /\ status[d] = "pending"
  /\ status' = [status EXCEPT ![d] = "rejected"]
  /\ UNCHANGED <<recorded, released>>

\* What is approved, and on record, goes through.
Release(d) ==
  /\ d \in recorded
  /\ status[d] = "approved"
  /\ released' = released \cup {d}
  /\ UNCHANGED <<recorded, status>>

Next ==
  \E d \in Decisions : Record(d) \/ Ask(d) \/ Approve(d) \/ Reject(d) \/ Release(d)

Spec == Init /\ [][Next]_vars
=============================================================================
