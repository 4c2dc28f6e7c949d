------------------------------- MODULE Outbox -------------------------------
(***************************************************************************)
(* The path of an order: the execution agent (firm/agents/execution.py)    *)
(* persists the decision it executes, the transactional outbox             *)
(* (firm/outbox/outbox.py) records the order as 'pending', submits it to   *)
(* the broker under the decision's idempotency key a bounded number of     *)
(* times and records the answer; recover_pending drives rows that were     *)
(* left 'pending'.  Processes may run these concurrently on one database   *)
(* and may crash between any two statements.                               *)
(*                                                                         *)
(* A statement on the database is one step (each connection autocommits;   *)
(* the INSERT and SELECT of an order run in one BEGIN IMMEDIATE).  A call  *)
(* of broker.submit is one step when it answers; when it raises, or when   *)
(* its caller crashes, the request may still be on its way and reach the   *)
(* broker at any later time.                                               *)
(***************************************************************************)
EXTENDS Naturals, FiniteSets

CONSTANTS
  Decisions,        \* BUY / SELL decisions (or approved proposals) to execute
  Procs,            \* processes of the firm that share the database
  Restricted,       \* those whose broker handle is bound to another agent's role
  MaxAttempts,      \* _DEFAULT_MAX_BROKER_ATTEMPTS
  None              \* no decision, no answer

ASSUME RestrictedAssumption == Restricted \subseteq Procs
ASSUME MaxAttemptsAssumption == MaxAttempts \in Nat \ {0}
ASSUME NoneAssumption == None \notin Decisions /\ None \notin Nat

VARIABLES
  decided,          \* table decisions: ids of the persisted decisions
  refused,          \* table decisions: REFUSE rows, <<decision refused, failure mode>>
  status,           \* table outbox: status of each decision's row
  result,           \* table outbox: the broker's order id stored in the row
  orders,           \* the broker's orders, each with the key it was placed under
  issued,           \* how many order ids the broker has issued
  delayed,          \* keys of requests that may still reach the broker
  proc              \* what each process is doing

dbVars == <<decided, refused, status, result>>
brokerVars == <<orders, issued, delayed>>
vars == <<dbVars, brokerVars, proc>>

RefuseModes == {"broker_unavailable", "tool_permission_denied"}

\* place_order_via_outbox: insert, submit, confirm, refuse;
\* recover_pending: recover, resubmit, reconfirm.
Steps == {"down", "idle", "insert", "submit", "confirm", "refuse",
          "recover", "resubmit", "reconfirm"}

ProcStates ==
  [at: Steps, decision: Decisions \cup {None}, attempts: 0 .. MaxAttempts,
   answer: Nat \cup {None}, mode: RefuseModes, todo: SUBSET Decisions]

Resting(step) ==
  [at |-> step, decision |-> None, attempts |-> 0, answer |-> None,
   mode |-> "broker_unavailable", todo |-> {}]

Init ==
  /\ decided = {}
  /\ refused = {}
  /\ status = [d \in Decisions |-> "none"]
  /\ result = [d \in Decisions |-> None]
  /\ orders = {}
  /\ issued = 0
  /\ delayed = {}
  /\ proc = [p \in Procs |-> Resting("idle")]

\* Process p moves to state me.
Becomes(p, me) == proc' = [proc EXCEPT ![p] = me]

-----------------------------------------------------------------------------
(* The broker: FakeBroker.submit, and the paper-trading service.           *)

\* The order under key k is known to the broker.
Known(k) == \E o \in orders : o.key = k

\* (mutant) the broker applies every request, known key or not.
TakesAlways(k) ==
  /\ orders' = orders \cup {[key |-> k, id |-> issued + 1]}
  /\ issued' = issued + 1

\* A request under key k reaches the broker, which applies an order once.
Takes(k) ==
  \/ /\ Known(k)
     /\ UNCHANGED <<orders, issued>>
  \/ /\ ~Known(k)
     /\ orders' = orders \cup {[key |-> k, id |-> issued + 1]}
     /\ issued' = issued + 1

\* A request whose caller has given up reaches the broker after all.
LateArrival(k) ==
  /\ k \in delayed
  /\ delayed' = delayed \ {k}
  /\ Takes(k)
  /\ UNCHANGED <<dbVars, proc>>

-----------------------------------------------------------------------------
(* The execution agent and place_order_via_outbox.                         *)

\* (mutant) a key that tells the attempts apart.
SubmitKeyPerAttempt(d, n) == <<d, n>>

\* The idempotency key of attempt n for d: every attempt uses the same.
SubmitKey(d, n) == d

\* (mutant) the execution agent leaves the decision to the reporter.
ExecuteUnpersisted(p, d) ==
  /\ proc[p].at = "idle"
  /\ Becomes(p, [proc[p] EXCEPT !.at = "insert", !.decision = d])
  /\ UNCHANGED <<dbVars, brokerVars>>

\* The execution node is handed d: the decision row comes first, as the
\* outbox row has a foreign key on it (INSERT OR IGNORE).
Execute(p, d) ==
  /\ proc[p].at = "idle"
  /\ decided' = decided \cup {d}
  /\ Becomes(p, [proc[p] EXCEPT !.at = "insert", !.decision = d])
  /\ UNCHANGED <<refused, status, result, brokerVars>>

\* (mutant) no row before the first attempt.
SubmitBeforeInsert(p) ==
  /\ proc[p].at = "insert"
  /\ Becomes(p, [proc[p] EXCEPT !.at = "submit"])
  /\ UNCHANGED <<dbVars, brokerVars>>

\* BEGIN IMMEDIATE; INSERT ... ON CONFLICT DO NOTHING; SELECT; COMMIT: an
\* order that is already confirmed returns its stored result.
InsertRow(p) ==
  LET d == proc[p].decision IN
  /\ proc[p].at = "insert"
  /\ status' = [status EXCEPT ![d] = IF @ = "none" THEN "pending" ELSE @]
  /\ Becomes(p, IF status[d] = "confirmed" THEN Resting("idle")
                  ELSE [proc[p] EXCEPT !.at = "submit"])
  /\ UNCHANGED <<decided, refused, result, brokerVars>>

\* broker.submit answers the process that calls it: a repeated key gets the
\* order it already has (a broker that raises on it is AttemptRaises).
Answered(p) ==
  LET k == SubmitKey(proc[p].decision, proc[p].attempts) IN
  /\ proc[p].at \in {"submit", "resubmit"}
  /\ p \notin Restricted
  /\ Takes(k)
  /\ \E o \in orders' :
       /\ o.key = k
       /\ Becomes(p, [proc[p] EXCEPT !.at = IF @ = "submit" THEN "confirm" ELSE "reconfirm",
                                  !.answer = o.id])
  /\ UNCHANGED <<dbVars, delayed>>

\* What remains of a call that raised: nothing, or a request on its way.
MayBeOnItsWay(p) ==
  \/ UNCHANGED delayed
  \/ delayed' = delayed \cup {SubmitKey(proc[p].decision, proc[p].attempts)}

\* broker.submit raises in the retry loop: next attempt, or exhausted.
AttemptRaises(p) ==
  /\ proc[p].at = "submit"
  /\ p \notin Restricted
  /\ MayBeOnItsWay(p)
  /\ Becomes(p, [proc[p] EXCEPT !.attempts = @ + 1,
                                !.at = IF proc[p].attempts + 1 = MaxAttempts
                                         THEN "refuse" ELSE "submit"])
  /\ UNCHANGED <<dbVars, orders, issued>>

\* RestrictedBroker.submit denies the tool before the broker is called.
Denied(p) ==
  /\ proc[p].at = "submit"
  /\ p \in Restricted
  /\ Becomes(p, [proc[p] EXCEPT !.at = "refuse", !.mode = "tool_permission_denied"])
  /\ UNCHANGED <<dbVars, brokerVars>>

\* The execution agent persists a REFUSE that points back at the decision;
\* the outbox row stays as it is.
PersistRefuse(p) ==
  /\ proc[p].at = "refuse"
  /\ refused' = refused \cup {<<proc[p].decision, proc[p].mode>>}
  /\ Becomes(p, Resting("idle"))
  /\ UNCHANGED <<decided, status, result, brokerVars>>

-----------------------------------------------------------------------------
(* recover_pending.                                                        *)

\* SELECT the pending rows: read once, walked while others write.
RecoverStart(p) ==
  /\ proc[p].at = "idle"
  /\ Becomes(p, [Resting("recover") EXCEPT !.todo = {d \in Decisions : status[d] = "pending"}])
  /\ UNCHANGED <<dbVars, brokerVars>>

\* The next row of the list, in any order (the SELECT has no ORDER BY).
RecoverNext(p) ==
  /\ proc[p].at = "recover"
  /\ \E d \in proc[p].todo :
       Becomes(p, [proc[p] EXCEPT !.at = "resubmit", !.decision = d, !.todo = @ \ {d}])
  /\ UNCHANGED <<dbVars, brokerVars>>

RecoverDone(p) ==
  /\ proc[p].at = "recover"
  /\ proc[p].todo = {}
  /\ Becomes(p, Resting("idle"))
  /\ UNCHANGED <<dbVars, brokerVars>>

\* broker.submit raises, or is denied: nothing catches it, so the rows not
\* yet walked stay pending.
RecoverRaises(p) ==
  /\ proc[p].at = "resubmit"
  /\ IF p \in Restricted THEN UNCHANGED delayed ELSE MayBeOnItsWay(p)
  /\ Becomes(p, Resting("idle"))
  /\ UNCHANGED <<dbVars, orders, issued>>

\* (mutant) an answer is recorded without looking at which row asked.
ConfirmAllPending(p) ==
  /\ proc[p].at \in {"confirm", "reconfirm"}
  /\ status' = [d \in Decisions |-> IF status[d] = "none" THEN "none" ELSE "confirmed"]
  /\ result' = [result EXCEPT ![proc[p].decision] = proc[p].answer]
  /\ Becomes(p, Resting("idle"))
  /\ UNCHANGED <<decided, refused, brokerVars>>

\* UPDATE outbox SET status='confirmed', result=... WHERE key=...
Confirm(p) ==
  /\ proc[p].at \in {"confirm", "reconfirm"}
  /\ status' = [status EXCEPT ![proc[p].decision] = "confirmed"]
  /\ result' = [result EXCEPT ![proc[p].decision] = proc[p].answer]
  /\ Becomes(p, IF proc[p].at = "confirm" THEN Resting("idle")
                  ELSE [Resting("recover") EXCEPT !.todo = proc[p].todo])
  /\ UNCHANGED <<decided, refused, brokerVars>>

-----------------------------------------------------------------------------
(* Crashes, between any two statements, and the next boot.                 *)

Crash(p) ==
  /\ proc[p].at # "down"
  /\ Becomes(p, Resting("down"))
  /\ IF proc[p].at \in {"submit", "resubmit"} /\ p \notin Restricted
       THEN MayBeOnItsWay(p) ELSE UNCHANGED delayed
  /\ UNCHANGED <<dbVars, orders, issued>>

Boot(p) ==
  /\ proc[p].at = "down"
  /\ Becomes(p, Resting("idle"))
  /\ UNCHANGED <<dbVars, brokerVars>>

-----------------------------------------------------------------------------

\* A call of place_order_via_outbox, once begun.
PlaceOrder(p) ==
  InsertRow(p) \/ Answered(p) \/ AttemptRaises(p) \/ Denied(p)
    \/ PersistRefuse(p) \/ Confirm(p)

RecoverPending(p) ==
  RecoverStart(p) \/ RecoverNext(p) \/ RecoverDone(p) \/ RecoverRaises(p)

Next ==
  \/ \E p \in Procs :
       \/ \E d \in Decisions : Execute(p, d)
       \/ PlaceOrder(p)
       \/ RecoverPending(p)
       \/ Crash(p)
       \/ Boot(p)
  \/ \E k \in delayed : LateArrival(k)

Spec == Init /\ [][Next]_vars

\* The outbox as `firm run` drives it (firm/cli.py): heartbeat after heartbeat
\* executes the decision it has just made, and nothing calls recover_pending.
HeartbeatNext ==
  \/ \E p \in Procs :
       \/ \E d \in Decisions \ decided : Execute(p, d)
       \/ PlaceOrder(p)
  \/ \E k \in delayed : LateArrival(k)

\* Heartbeats go on, and a broker that is called again and again answers.
HeartbeatSpec ==
  /\ Init /\ [][HeartbeatNext]_vars
  /\ \A p \in Procs :
       /\ WF_vars(\E d \in Decisions \ decided : Execute(p, d))
       /\ WF_vars(PlaceOrder(p))
       /\ SF_vars(Answered(p))

-----------------------------------------------------------------------------
(* Properties.                                                             *)

\* The sets the tables, the broker's book and the processes range over.
TypeOK ==
  /\ decided \subseteq Decisions
  /\ refused \subseteq Decisions \X RefuseModes
  /\ status \in [Decisions -> {"none", "pending", "confirmed"}]
  /\ result \in [Decisions -> Nat \cup {None}]
  /\ orders \subseteq [key: Decisions, id: Nat]
  /\ issued \in Nat
  /\ delayed \subseteq Decisions
  /\ proc \in [Procs -> ProcStates]

\* The broker keeps one order per key (a conjunct of the invariant below).
AtMostOneOrder ==
  \A o1, o2 \in orders : o1.key = o2.key => o1 = o2

\* The write-ahead rule of the outbox: by the time the broker holds an order,
\* its intent is durable: an outbox row, and the decision row it refers to.
OrderHasIntent ==
  \A o \in orders : status[o.key] # "none" /\ o.key \in decided

\* A confirmed row is true: the broker holds an order under that row's key and
\* the stored result is that order's.
ConfirmedIsFilled ==
  \A d \in Decisions :
    status[d] = "confirmed" => [key |-> d, id |-> result[d]] \in orders

\* A row once confirmed keeps its status and its result, even though the UPDATE
\* that confirms a row does not look at the row's status and two processes may
\* both be driving it, each with an answer to another attempt: what they were
\* told must be the same order.
ConfirmedForever ==
  [][\A d \in Decisions : status[d] = "confirmed" =>
       status'[d] = "confirmed" /\ result'[d] = result[d]]_vars

\* What BrokerUnavailableError says of an order that exhausted its attempts: the
\* row is left 'pending' so that the next heartbeat retries it.
PendingIsRetried ==
  \A d \in Decisions : status[d] = "pending" ~> status[d] = "confirmed"

\* What holds of a process at each of its steps: the row it works on is there,
\* and the answer it is about to record is an order of the broker.
ProcOK(me) ==
  /\ me.at \notin {"down", "idle", "recover"} => me.decision \in Decisions
  /\ me.at = "insert" => me.decision \in decided
  /\ me.at \in {"submit", "confirm", "refuse", "resubmit", "reconfirm"} =>
       status[me.decision] # "none"
  /\ me.at \in {"confirm", "reconfirm"} => [key |-> me.decision, id |-> me.answer] \in orders
  /\ me.at \in {"idle", "insert", "submit"} => me.attempts < MaxAttempts
  /\ \A d \in me.todo : status[d] # "none"

ProcInv == \A p \in Procs : ProcOK(proc[p])

\* Every row refers to a decision row, and only rows are ever on their way.
RowInv ==
  /\ \A d \in Decisions : status[d] # "none" => d \in decided
  /\ \A k \in delayed : status[k] # "none"

\* The inductive invariant behind the safety properties.
OutboxInv ==
  /\ TypeOK
  /\ AtMostOneOrder
  /\ OrderHasIntent
  /\ ConfirmedIsFilled
  /\ ProcInv
  /\ RowInv

\* The outbox implements the abstract promise.
stage ==
  [d \in Decisions |->
     CASE status[d] = "confirmed" -> "acknowledged"
       [] status[d] = "pending" -> IF Known(d) THEN "filled" ELSE "intended"
       [] OTHER -> "new"]

Promise == INSTANCE OrderOnce WITH stage <- stage, orders <- orders

ImplementsOrderOnce == Promise!Spec
=============================================================================
