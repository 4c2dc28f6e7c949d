----------------------------- MODULE OrderOnce -----------------------------
(***************************************************************************)
(* What the transactional outbox promises its callers, with no database,   *)
(* no broker call and no process in sight: an order is first intended,     *)
(* durably; then it is filled, once; then the firm durably knows that it   *)
(* is filled.  An order never goes back and never skips a stage, so it is  *)
(* never filled without an intent, never filled twice, and never believed  *)
(* filled when it is not.                                                  *)
(***************************************************************************)
CONSTANT Decisions      \* the decisions that may be executed as orders

VARIABLES
  stage,                \* how far the order of each decision has come
  orders                \* the orders the broker holds, each with its key

vars == <<stage, orders>>

Stages == {"new", "intended", "filled", "acknowledged"}

Init ==
  /\ stage = [d \in Decisions |-> "new"]
  /\ orders = {}

\* The firm durably records that it wants the order.
Intend(d) ==
  /\ stage[d] = "new"
  /\ stage' = [stage EXCEPT ![d] = "intended"]
  /\ UNCHANGED orders

\* The broker fills the order: the only step that adds to its book.
Fill(d) ==
  /\ stage[d] = "intended"
  /\ stage' = [stage EXCEPT ![d] = "filled"]
  /\ \E o \in orders' : o.key = d /\ o \notin orders /\ orders' = orders \cup {o}

\* The firm durably records that the order is filled.
Acknowledge(d) ==
  /\ stage[d] = "filled"
  /\ stage' = [stage EXCEPT ![d] = "acknowledged"]
  /\ UNCHANGED orders

Next == \E d \in Decisions : Intend(d) \/ Fill(d) \/ Acknowledge(d)

Spec == Init /\ [][Next]_vars
=============================================================================
