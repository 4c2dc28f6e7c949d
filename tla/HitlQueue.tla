------------------------------ MODULE HitlQueue ------------------------------
(***************************************************************************)
(* The human gate: the hitl node of the graph, mark_approved,              *)
(* mark_rejected and the reaper (firm/agents/hitl.py), reached by an       *)
(* operator at the command line (ack / reject, firm/cli.py) or through     *)
(* Slack: prompts with signed buttons (firm/hitl/notify.py), the endpoint  *)
(* they call (firm/hitl/slack.py) and the two keys it accepts              *)
(* (firm/hitl/signing.py).                                                 *)
(*                                                                         *)
(* Every SQL statement is a step of its own (the connections autocommit),  *)
(* so the firm's process, the command line and the Slack endpoint          *)
(* interleave between statements.  Time is counted in ages that stop       *)
(* growing once past the limit they are compared with; it may pass between *)
(* any two statements, as a write waits for SQLite's write lock and any    *)
(* process may be suspended.                                               *)
(***************************************************************************)
EXTENDS Naturals, FiniteSets

CONSTANTS
  Decisions,        \* decisions the risk gate escalates
  Actors,           \* who answers: "cli" and "slack"
  Deadline,         \* DEFAULT_HITL_TIMEOUT_SECONDS (1800 s)
  MaxAge,           \* _MAX_AGE_SECONDS of a button's signature (300 s)
  Grace,            \* _DEFAULT_GRACE_WINDOW_SECONDS of a rotated key (86400 s)
  MaxRotations,     \* bound: how often a secret is rotated
  None

ASSUME ActorsAssumption == Actors \subseteq {"cli", "slack"}
ASSUME LimitsAssumption ==
  /\ {Deadline, MaxAge, Grace, MaxRotations} \subseteq Nat
  /\ MaxAge <= Grace            \* 300 <= 86400
ASSUME NoneAssumption == None \notin Decisions

VARIABLES
  decided,      \* table decisions: the escalations persisted
  status,       \* table hitl_queue: status of each row ("none": no row)
  answeredBy,   \* table hitl_queue: approver
  writtenAt,    \* (history) the row's age when its answer was written
  age,          \* time since queued_at
  refused,      \* escalations with a REFUSE / UNAPPROVED_HIGH_RISK row, or several
  audit,        \* audit_log: the hitl.* events of each decision
  button,       \* the Slack prompt of each decision, and its signature
  prompts,      \* how often each decision was posted to Slack, up to 2
  signerKey,    \* key the firm signs buttons with (0, then one per rotation)
  serverKey,    \* current key of the endpoint; it also holds the one before
  sinceRotated, \* time since the endpoint's rotated_at
  node,         \* the firm's process: the reaper, the hitl node
  released,     \* decisions the hitl node has let through to execution
  actor         \* the answer each actor is carrying out

rowVars == <<status, answeredBy, writtenAt>>
queueVars == <<decided, rowVars, age, refused, audit>>
slackVars == <<button, prompts, signerKey, serverKey, sinceRotated>>
vars == <<queueVars, slackVars, node, released, actor>>

Answers == {"approved", "rejected"}
Statuses == {"none", "pending"} \cup Answers
Events == {"queued", "notify_failed", "signature_rejected"} \cup Answers

NodeSteps ==
  {"idle", "reap", "insert", "select", "audit", "sign", "post", "failed", "return"}
NodeStates ==
  [at: NodeSteps, decision: Decisions \cup {None}, overdue: SUBSET Decisions,
   inserted: BOOLEAN, seen: Statuses]
NodeIdle ==
  [at |-> "idle", decision |-> None, overdue |-> {}, inserted |-> FALSE, seen |-> "none"]

ActorSteps == {"idle", "insert", "update", "audit"}
ActorStates ==
  [at: ActorSteps, decision: Decisions \cup {None}, answer: Answers, mutated: BOOLEAN]
ActorIdle ==
  [at |-> "idle", decision |-> None, answer |-> "approved", mutated |-> FALSE]

\* A prompt: is it in Slack; the age and the key of its signature; the
\* endpoint's key, and how long it had been in use, when it was signed.
Prompts ==
  [posted: BOOLEAN, age: 0..MaxAge + 1, key: 0..MaxRotations, serverKey: 0..MaxRotations,
   sinceRotated: 0..Grace + 1]
NoButton ==
  [posted |-> FALSE, age |-> MaxAge + 1, key |-> 0, serverKey |-> 0, sinceRotated |-> 0]

Init ==
  /\ decided = {}
  /\ status = [d \in Decisions |-> "none"]
  /\ answeredBy = [d \in Decisions |-> "nobody"]
  /\ writtenAt = [d \in Decisions |-> 0]
  /\ age = [d \in Decisions |-> 0]
  /\ refused = {}
  /\ audit = [d \in Decisions |-> {}]
  /\ button = [d \in Decisions |-> NoButton]
  /\ prompts = [d \in Decisions |-> 0]
  /\ signerKey = 0
  /\ serverKey = 0
  /\ sinceRotated = Grace + 1
  /\ node = NodeIdle
  /\ released = {}
  /\ actor = [a \in Actors |-> ActorIdle]

-----------------------------------------------------------------------------
(* The hitl node, run when an interrupted graph is resumed; run again when *)
(* the process crashed in it.                                              *)

\* The risk decision is persisted first: hitl_queue has a foreign key on it.
HitlEnter(d) ==
  /\ node.at = "idle"
  /\ decided' = decided \cup {d}
  /\ node' = [NodeIdle EXCEPT !.at = "insert", !.decision = d]
  /\ UNCHANGED <<rowVars, age, refused, audit, slackVars, released, actor>>

\* (mutant) INSERT OR REPLACE: a traversal starts the row over.
HitlReplace ==
  LET d == node.decision IN
  /\ node.at = "insert"
  /\ status' = [status EXCEPT ![d] = "pending"]
  /\ age' = [age EXCEPT ![d] = 0]
  /\ node' = [node EXCEPT !.at = "select", !.inserted = TRUE]
  /\ UNCHANGED <<decided, answeredBy, writtenAt, refused, audit, slackVars,
                 released, actor>>

\* INSERT OR IGNORE ... 'pending': a row already there is left alone.  Its
\* queued_at was read before the statement, which may have waited.
HitlInsert ==
  LET d == node.decision IN
  /\ node.at = "insert"
  /\ status' = [status EXCEPT ![d] = IF @ = "none" THEN "pending" ELSE @]
  /\ \E waited \in 0..Deadline :
       age' = [age EXCEPT ![d] = IF status[d] = "none" THEN waited ELSE @]
  /\ node' = [node EXCEPT !.at = "select", !.inserted = (status[d] = "none")]
  /\ UNCHANGED <<decided, answeredBy, writtenAt, refused, audit, slackVars,
                 released, actor>>

\* (mutant) prompt on every traversal.
HitlSelectNotify ==
  /\ node.at = "select"
  /\ node' = [node EXCEPT !.at = "audit", !.seen = status[node.decision]]
  /\ UNCHANGED <<queueVars, slackVars, released, actor>>

\* SELECT status; the audit event and the prompt only if the row is new.
HitlSelect ==
  /\ node.at = "select"
  /\ node' = [node EXCEPT !.at = IF node.inserted THEN "audit" ELSE "return",
                          !.seen = status[node.decision]]
  /\ UNCHANGED <<queueVars, slackVars, released, actor>>

\* hitl.queued.
HitlAudit ==
  /\ node.at = "audit"
  /\ audit' = [audit EXCEPT ![node.decision] = @ \cup {"queued"}]
  /\ node' = [node EXCEPT !.at = "sign"]
  /\ UNCHANGED <<decided, rowVars, age, refused, slackVars, released, actor>>

\* The prompt's buttons are signed; or no notifier is configured.
HitlSign ==
  /\ node.at = "sign"
  /\ \/ /\ button' = [button EXCEPT ![node.decision] =
                         [posted |-> FALSE, age |-> 0, key |-> signerKey,
                          serverKey |-> serverKey, sinceRotated |-> sinceRotated]]
        /\ node' = [node EXCEPT !.at = "post"]
     \/ /\ node' = [node EXCEPT !.at = "return"]
        /\ UNCHANGED button
  /\ UNCHANGED <<queueVars, prompts, signerKey, serverKey, sinceRotated, released, actor>>

\* chat_postMessage: the prompt is posted, or the call raises, before or after
\* Slack has posted it (an answer lost on the way).
HitlNotify ==
  LET d == node.decision IN
  /\ node.at = "post"
  /\ \/ /\ button' = [button EXCEPT ![d].posted = TRUE]
        /\ prompts' = [prompts EXCEPT ![d] = IF @ < 2 THEN @ + 1 ELSE @]
        /\ \E next \in {"return", "failed"} : node' = [node EXCEPT !.at = next]
     \/ /\ node' = [node EXCEPT !.at = "failed"]
        /\ UNCHANGED <<button, prompts>>
  /\ UNCHANGED <<queueVars, signerKey, serverKey, sinceRotated, released, actor>>

\* hitl.slack_notify_failed; the node goes on.
HitlNotifyFailed ==
  /\ node.at = "failed"
  /\ audit' = [audit EXCEPT ![node.decision] = @ \cup {"notify_failed"}]
  /\ node' = [node EXCEPT !.at = "return"]
  /\ UNCHANGED <<decided, rowVars, age, refused, slackVars, released, actor>>

\* (mutant) whatever is not refused goes through.
HitlReturnUnlessRejected ==
  /\ node.at = "return"
  /\ node' = NodeIdle
  /\ released' = IF node.seen # "rejected" THEN released \cup {node.decision} ELSE released
  /\ UNCHANGED <<queueVars, slackVars, actor>>

\* hitl_approved: the status that was read says so.
HitlReturn ==
  /\ node.at = "return"
  /\ node' = NodeIdle
  /\ released' = IF node.seen = "approved" THEN released \cup {node.decision} ELSE released
  /\ UNCHANGED <<queueVars, slackVars, actor>>

-----------------------------------------------------------------------------
(* The reaper, run at the start of every heartbeat.                        *)

\* A row is overdue: pending and at least Deadline old.
Overdue(d) == age[d] >= Deadline

\* (mutant) the SELECT without its status filter.
ReapStartAny ==
  /\ node.at = "idle"
  /\ \E d \in Decisions : status[d] # "none" /\ Overdue(d)
  /\ node' = [NodeIdle EXCEPT !.at = "reap",
                !.overdue = {d \in Decisions : status[d] # "none" /\ Overdue(d)}]
  /\ UNCHANGED <<queueVars, slackVars, released, actor>>

\* SELECT the pending rows and keep the overdue ones; the list is walked later.
ReapStart ==
  /\ node.at = "idle"
  /\ \E d \in Decisions : status[d] = "pending" /\ Overdue(d)
  /\ node' = [NodeIdle EXCEPT !.at = "reap",
                !.overdue = {d \in Decisions : status[d] = "pending" /\ Overdue(d)}]
  /\ UNCHANGED <<queueVars, slackVars, released, actor>>

\* Persist a REFUSE for one of them; the queue row stays 'pending'.
ReapOne ==
  /\ node.at = "reap"
  /\ \E d \in node.overdue :
       /\ refused' = refused \cup {d}
       /\ node' = IF node.overdue = {d} THEN NodeIdle
                  ELSE [node EXCEPT !.overdue = @ \ {d}]
  /\ UNCHANGED <<decided, rowVars, age, audit, slackVars, released, actor>>

\* The firm's process dies, and is started again.
Crash ==
  /\ node.at # "idle"
  /\ node' = NodeIdle
  /\ UNCHANGED <<queueVars, slackVars, released, actor>>

-----------------------------------------------------------------------------
(* Answers.                                                                *)

\* Both read the clock, for decided_at, before their first statement, which may
\* have to wait: mark_approved starts with an INSERT, mark_rejected with the UPDATE.
Begin(a, d, answer) ==
  actor' = [actor EXCEPT ![a] =
              [at |-> IF answer = "approved" THEN "insert" ELSE "update",
               decision |-> d, answer |-> answer, mutated |-> FALSE]]

\* firm ack / firm reject, for any decision id an operator can see.
CliAnswer(d, answer) ==
  /\ "cli" \in Actors
  /\ actor["cli"].at = "idle"
  /\ Begin("cli", d, answer)
  /\ UNCHANGED <<queueVars, slackVars, node, released>>

\* (mutant) the endpoint holds one key only.
VerifiedByCurrentKey(b) == b.age <= MaxAge /\ b.key = serverKey

\* verify_with_rotation: young enough, and signed with the current key or,
\* within the grace window, with the one before it.
Verified(b) ==
  /\ b.age <= MaxAge
  /\ \/ b.key = serverKey
     \/ b.key + 1 = serverKey /\ sinceRotated <= Grace

\* A click on a button of the prompt of d, by the approver it names, any number
\* of times; a click that fails the endpoint's other checks changes nothing.
SlackClick(d, answer) ==
  /\ "slack" \in Actors
  /\ actor["slack"].at = "idle"
  /\ button[d].posted
  /\ IF Verified(button[d])
       THEN Begin("slack", d, answer) /\ UNCHANGED audit
       ELSE audit' = [audit EXCEPT ![d] = @ \cup {"signature_rejected"}] /\ UNCHANGED actor
  /\ UNCHANGED <<decided, rowVars, age, refused, slackVars, node, released>>

\* mark_approved, first statement: INSERT OR IGNORE an 'approved' row, queued and
\* decided at the time that was read; without the decision row the foreign key
\* raises, and the command ends there.
ApproveInsert(a) ==
  LET d == actor[a].decision IN
  /\ actor[a].at = "insert"
  /\ IF d \notin decided
       THEN /\ actor' = [actor EXCEPT ![a] = ActorIdle]
            /\ UNCHANGED <<rowVars, age>>
       ELSE /\ status' = [status EXCEPT ![d] = IF @ = "none" THEN "approved" ELSE @]
            /\ answeredBy' = [answeredBy EXCEPT ![d] = IF status[d] = "none" THEN a ELSE @]
            /\ \E waited \in 0..Deadline :
                 /\ age' = [age EXCEPT ![d] = IF status[d] = "none" THEN waited ELSE @]
                 /\ writtenAt' = [writtenAt EXCEPT ![d] = IF status[d] = "none" THEN waited ELSE @]
            /\ actor' = [actor EXCEPT ![a] = [@ EXCEPT !.at = "update",
                                                      !.mutated = (status[d] = "none")]]
  /\ UNCHANGED <<decided, refused, audit, slackVars, node, released>>

\* (mutant) the UPDATE without its status guard.
UpdateAlways(a) ==
  LET d == actor[a].decision IN
  /\ actor[a].at = "update"
  /\ status' = [status EXCEPT ![d] = IF @ = "none" THEN @ ELSE actor[a].answer]
  /\ answeredBy' = [answeredBy EXCEPT ![d] = IF status[d] = "none" THEN @ ELSE a]
  /\ writtenAt' = [writtenAt EXCEPT ![d] = IF status[d] = "none" THEN @ ELSE age[d]]
  /\ actor' = [actor EXCEPT ![a] = [@ EXCEPT !.at = "audit", !.mutated = TRUE]]
  /\ UNCHANGED <<decided, age, refused, audit, slackVars, node, released>>

\* (mutant) the UPDATE's row count is not looked at.
UpdateAuditAlways(a) ==
  LET d == actor[a].decision IN
  /\ actor[a].at = "update"
  /\ status' = [status EXCEPT ![d] = IF @ = "pending" THEN actor[a].answer ELSE @]
  /\ answeredBy' = [answeredBy EXCEPT ![d] = IF status[d] = "pending" THEN a ELSE @]
  /\ writtenAt' = [writtenAt EXCEPT ![d] = IF status[d] = "pending" THEN age[d] ELSE @]
  /\ actor' = [actor EXCEPT ![a] = [@ EXCEPT !.at = "audit", !.mutated = TRUE]]
  /\ UNCHANGED <<decided, age, refused, audit, slackVars, node, released>>

\* UPDATE ... WHERE status='pending'.
Update(a) ==
  LET d == actor[a].decision IN
  /\ actor[a].at = "update"
  /\ status' = [status EXCEPT ![d] = IF @ = "pending" THEN actor[a].answer ELSE @]
  /\ answeredBy' = [answeredBy EXCEPT ![d] = IF status[d] = "pending" THEN a ELSE @]
  /\ writtenAt' = [writtenAt EXCEPT ![d] = IF status[d] = "pending" THEN age[d] ELSE @]
  /\ actor' = [actor EXCEPT ![a] =
                  [@ EXCEPT !.at = "audit",
                            !.mutated = actor[a].mutated \/ status[d] = "pending"]]
  /\ UNCHANGED <<decided, age, refused, audit, slackVars, node, released>>

\* The audit event, if a row was changed; then the human is told, either way.
AuditAndReply(a) ==
  LET d == actor[a].decision IN
  /\ actor[a].at = "audit"
  /\ audit' = [audit EXCEPT ![d] = IF actor[a].mutated THEN @ \cup {actor[a].answer} ELSE @]
  /\ actor' = [actor EXCEPT ![a] = ActorIdle]
  /\ UNCHANGED <<decided, rowVars, age, refused, slackVars, node, released>>

\* The command or the endpoint dies between two statements.
ActorCrash(a) ==
  /\ actor[a].at # "idle"
  /\ actor' = [actor EXCEPT ![a] = ActorIdle]
  /\ UNCHANGED <<queueVars, slackVars, node, released>>

-----------------------------------------------------------------------------
(* Keys and time.                                                          *)

\* The secret is rotated; the endpoint and the firm are restarted one after
\* the other, in either order.
RotateServer ==
  /\ serverKey < MaxRotations
  /\ serverKey <= signerKey
  /\ serverKey' = serverKey + 1
  /\ sinceRotated' = 0
  /\ UNCHANGED <<queueVars, button, prompts, signerKey, node, released, actor>>

RotateSigner ==
  /\ signerKey < MaxRotations
  /\ signerKey <= serverKey
  /\ signerKey' = signerKey + 1
  /\ UNCHANGED <<queueVars, button, prompts, serverKey, sinceRotated, node, released,
                 actor>>

Older(t, cap) == IF t < cap THEN t + 1 ELSE t

\* Time passes, whatever anybody is doing.
Tick ==
  /\ age' = [d \in Decisions |-> IF status[d] = "none" THEN 0 ELSE Older(age[d], Deadline)]
  /\ button' = [d \in Decisions |-> [button[d] EXCEPT !.age = Older(@, MaxAge + 1)]]
  /\ sinceRotated' = Older(sinceRotated, Grace + 1)
  /\ UNCHANGED <<decided, rowVars, refused, audit, prompts, signerKey, serverKey,
                 node, released, actor>>

-----------------------------------------------------------------------------

HitlRest ==
  HitlInsert \/ HitlSelect \/ HitlAudit \/ HitlSign \/ HitlNotify \/ HitlNotifyFailed \/ HitlReturn
Hitl == (\E d \in Decisions : HitlEnter(d)) \/ HitlRest
Reap == ReapStart \/ ReapOne
Answering(a) == ApproveInsert(a) \/ Update(a) \/ AuditAndReply(a)

Next ==
  \/ Hitl
  \/ Reap
  \/ Crash
  \/ \E d \in Decisions, answer \in Answers : CliAnswer(d, answer) \/ SlackClick(d, answer)
  \/ \E a \in Actors : Answering(a) \/ ActorCrash(a)
  \/ RotateServer
  \/ RotateSigner
  \/ Tick

Spec == Init /\ [][Next]_vars

\* Time passes; a heartbeat, which starts with the reaper, always comes again; a
\* node that is run finishes or crashes; and not every sweep crashes.  Nothing is
\* asked of whoever answers.
Fairness ==
  /\ WF_vars(Tick)
  /\ SF_vars(ReapStart)
  /\ SF_vars(ReapOne)
  /\ WF_vars(HitlRest)

FairSpec == Spec /\ Fairness

-----------------------------------------------------------------------------
(* Properties.                                                             *)

\* The sets the tables, the handlers and the clocks range over.
TypeOK ==
  /\ decided \subseteq Decisions
  /\ status \in [Decisions -> Statuses]
  /\ answeredBy \in [Decisions -> Actors \cup {"nobody"}]
  /\ writtenAt \in [Decisions -> 0..Deadline]
  /\ age \in [Decisions -> 0..Deadline]
  /\ refused \subseteq Decisions
  /\ audit \in [Decisions -> SUBSET Events]
  /\ button \in [Decisions -> Prompts]
  /\ prompts \in [Decisions -> 0..2]
  /\ signerKey \in 0..MaxRotations
  /\ serverKey \in 0..MaxRotations
  /\ sinceRotated \in 0..Grace + 1
  /\ node \in NodeStates
  /\ released \subseteq Decisions
  /\ actor \in [Actors -> ActorStates]

\* Whoever answers first decides: once a row is approved or rejected, no later
\* or concurrent answer, resumed node or restart changes the answer, who gave
\* it or when it was written (the guards of mark_approved, mark_rejected and the node's INSERT).
FirstAnswerWins ==
  [][\A d \in Decisions : status[d] \in Answers =>
        /\ status'[d] = status[d]
        /\ answeredBy'[d] = answeredBy[d]
        /\ writtenAt'[d] = writtenAt[d]]_vars

\* The node lets an escalation through only if a human approved it, and that
\* approval still stands when the graph acts on it, although the node read the
\* status some steps earlier.
ReleasedWasApproved ==
  \A d \in released : status[d] = "approved" /\ answeredBy[d] \in Actors

\* The audit log never claims an answer that is not the one in the queue: with
\* two humans answering at once only the one whose statement changed the row
\* is recorded.
AuditTrue ==
  \A d \in Decisions : audit[d] \cap Answers \subseteq {status[d]}

\* However often the node is resumed after a crash, an escalation is posted to
\* Slack at most once.
OnePrompt == \A d \in Decisions : prompts[d] <= 1

\* An escalation a human answered before the deadline is never refused as
\* unapproved by the reaper, at that or at any later sweep, whatever the sweep had
\* on its list when the answer was written.  What counts is the moment of the
\* UPDATE: decided_at was read before it, by both commands and by the endpoint,
\* and may name a moment before a sweep that has refused the row.
AnsweredInTimeNotRefused ==
  \A d \in Decisions : status[d] \in Answers /\ writtenAt[d] < Deadline => d \notin refused

\* A click on a prompt is accepted as long as its signature is young, across one
\* rotation of the key and while the two sides differ: the endpoint has the
\* signer's key or the one after it, and if it already had that one when the
\* prompt was signed, its grace window still had MaxAge to go.
FreshPromptAccepted ==
  \A d \in Decisions :
    LET b == button[d] IN
    /\ b.posted
    /\ b.age <= MaxAge
    /\ serverKey \in {b.key, b.key + 1}
    /\ b.key < b.serverKey => b.sinceRotated + MaxAge <= Grace
    => Verified(b)

\* No escalation waits for ever: each queued row is answered, or refused by the
\* reaper, however often the process crashes and the node is run again.
AnsweredOrRefused ==
  \A d \in Decisions :
    status[d] = "pending" ~> (status[d] \in Answers \/ d \in refused)

\* The queue's statements, interleaved as they are, implement the abstract promise
\* of the gate.
Promise == INSTANCE Escalation WITH recorded <- decided

ImplementsEscalation == Promise!Spec
=============================================================================
