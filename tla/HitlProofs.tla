----------------------------- MODULE HitlProofs -----------------------------
(***************************************************************************)
(* The human gate for any set of escalations and any limits in the order   *)
(* the code has them: the first answer stands, the audit log and the node  *)
(* tell no other, and the reaper refuses nobody who was answered in time.  *)
(***************************************************************************)
EXTENDS HitlQueue, TLAPS

-----------------------------------------------------------------------------
(* The inductive invariant.                                                *)

\* What an actor may rely on in each step: whoever has changed the row finds
\* its own answer in it.
ActorOK(me) ==
  me.at # "idle" =>
    /\ me.decision \in Decisions
    /\ me.at = "insert" => me.answer = "approved" /\ ~me.mutated
    /\ me.mutated => status[me.decision] = me.answer

ActorInv == \A a \in Actors : ActorOK(actor[a])

\* What the node may rely on: the approval it has read stands, and what is on
\* the reaper's list is a row that was overdue when it was read.
NodeInv ==
  /\ node.at \notin {"idle", "reap"} => node.decision \in Decisions
  /\ node.at \in {"audit", "sign", "post", "failed", "return"} /\ node.seen = "approved"
       => status[node.decision] = "approved"
  /\ \A d \in node.overdue : status[d] # "none" /\ age[d] >= Deadline

\* An answered row has an approver, and only overdue rows were refused.
RowInv ==
  \A d \in Decisions :
    /\ status[d] \in Answers => answeredBy[d] \in Actors
    /\ d \in refused => status[d] # "none" /\ age[d] >= Deadline

\* Answered before the deadline.
InTime(d) == status[d] \in Answers /\ writtenAt[d] < Deadline

\* Such a row was not refused and is not on the reaper's list.
InTimeInv == \A d \in Decisions : InTime(d) => d \notin refused /\ d \notin node.overdue

HitlInv ==
  /\ TypeOK
  /\ ActorInv
  /\ NodeInv
  /\ RowInv
  /\ AuditTrue
  /\ ReleasedWasApproved
  /\ InTimeInv

-----------------------------------------------------------------------------
(* Lemmas: what a step of one part leaves to the others.                   *)

\* Rows are never taken back: an answer stays, a row stays a row, queued when it was.
Settled ==
  \A d \in Decisions :
    /\ status[d] \in Answers => status'[d] = status[d]
    /\ status[d] # "none" => status'[d] # "none" /\ age'[d] = age[d]

\* An actor at rest, and one that begins, are well-formed.
LEMMA ActorStep ==
  ASSUME TypeOK, NEW a \in Actors, NEW me \in ActorStates,
         actor' = [actor EXCEPT ![a] = me]
  PROVE  /\ actor' \in [Actors -> ActorStates]
         /\ actor'[a] = me
         /\ \A b \in Actors \ {a} : actor'[b] = actor[b]
BY DEF TypeOK

\* A step of one actor that takes no row back leaves the others as they were.
LEMMA OthersKeep ==
  ASSUME TypeOK, ActorInv, Settled, NEW a \in Actors,
         \A b \in Actors \ {a} : actor'[b] = actor[b],
         ActorOK(actor[a])'
  PROVE  ActorInv'
<1> SUFFICES ASSUME NEW b \in Actors, b # a PROVE ActorOK(actor[b])'
  BY DEF ActorInv
<1>1. ActorOK(actor[b]) /\ actor[b] \in ActorStates /\ actor'[b] = actor[b]
  BY DEF ActorInv, TypeOK
<1> QED
  BY <1>1 DEF ActorOK, Settled, ActorStates

\* A step of no actor, likewise.
LEMMA ActorsKeep ==
  ASSUME TypeOK, ActorInv, Settled, actor' = actor
  PROVE  ActorInv'
<1> SUFFICES ASSUME NEW a \in Actors PROVE ActorOK(actor[a])'
  BY DEF ActorInv
<1>1. ActorOK(actor[a]) /\ actor[a] \in ActorStates
  BY DEF ActorInv, TypeOK
<1> QED
  BY <1>1 DEF ActorOK, Settled, ActorStates

\* A node that waits keeps what it may rely on.
LEMMA NodeKeeps ==
  ASSUME TypeOK, NodeInv, Settled, node' = node
  PROVE  NodeInv'
<1>1. node.overdue \subseteq Decisions
  BY DEF TypeOK, NodeStates
<1> QED
  BY <1>1 DEF NodeInv, Settled, Answers

\* Rows and refusals that do not change keep their invariants.
LEMMA RowsKeep ==
  ASSUME HitlInv, UNCHANGED <<rowVars, age, refused>>
  PROVE  Settled /\ RowInv'
BY DEF HitlInv, RowInv, Settled, rowVars

LEMMA NodeIdleType == NodeIdle \in NodeStates
BY DEF NodeIdle, NodeStates, NodeSteps, Statuses

LEMMA ActorIdleType == ActorIdle \in ActorStates
BY DEF ActorIdle, ActorStates, ActorSteps, Answers

-----------------------------------------------------------------------------
(* The invariant holds initially.                                          *)

LEMMA InitInv == Init => HitlInv
<1> SUFFICES ASSUME Init PROVE HitlInv
  OBVIOUS
<1>1. TypeOK
  <2>1. NoButton \in Prompts
    BY LimitsAssumption DEF NoButton, Prompts
  <2>2. 0 \in 0..Deadline /\ 0 \in 0..MaxRotations /\ Grace + 1 \in 0..Grace + 1
    BY LimitsAssumption
  <2> QED
    BY <2>1, <2>2, NodeIdleType, ActorIdleType DEF Init, TypeOK, Statuses
<1>2. ActorInv
  BY DEF Init, ActorInv, ActorOK, ActorIdle
<1>3. NodeInv
  BY DEF Init, NodeInv, NodeIdle
<1>4. RowInv /\ AuditTrue /\ ReleasedWasApproved /\ InTimeInv
  BY DEF Init, RowInv, AuditTrue, ReleasedWasApproved, InTimeInv, InTime, Answers
<1> QED
  BY <1>1, <1>2, <1>3, <1>4 DEF HitlInv

-----------------------------------------------------------------------------
(* The hitl node and the reaper.                                           *)

LEMMA HitlEnterInv ==
  ASSUME HitlInv, NEW d \in Decisions, HitlEnter(d)
  PROVE  HitlInv'
<1> USE DEF HitlEnter, HitlInv
<1>1. Settled /\ RowInv'
  BY RowsKeep
<1>2. [NodeIdle EXCEPT !.at = "insert", !.decision = d] \in NodeStates
  BY NodeIdleType DEF NodeStates, NodeSteps
<1>3. TypeOK'
  BY <1>2 DEF TypeOK, rowVars, slackVars
<1>4. ActorInv'
  BY <1>1, ActorsKeep
<1>5. node'.at = "insert" /\ node'.decision = d /\ node'.overdue = {}
  BY DEF NodeIdle
<1>6. NodeInv' /\ InTimeInv'
  BY <1>5 DEF NodeInv, InTimeInv, InTime, rowVars
<1>7. AuditTrue' /\ ReleasedWasApproved'
  BY DEF AuditTrue, ReleasedWasApproved, rowVars
<1> QED
  BY <1>1, <1>3, <1>4, <1>6, <1>7

LEMMA HitlInsertInv ==
  ASSUME HitlInv, HitlInsert
  PROVE  HitlInv'
<1> DEFINE d == node.decision
           me == [node EXCEPT !.at = "select", !.inserted = (status[d] = "none")]
<1> USE DEF HitlInsert, HitlInv
<1>1. /\ d \in Decisions /\ node \in NodeStates /\ node.at = "insert"
      /\ status \in [Decisions -> Statuses]
  BY DEF NodeInv, TypeOK
<1>2. /\ status' \in [Decisions -> Statuses]
      /\ \A e \in Decisions : /\ status[e] # "none" => status'[e] = status[e]
                              /\ status'[e] \in Answers => status[e] = status'[e]
      /\ age' \in [Decisions -> 0..Deadline]
      /\ \A e \in Decisions : status[e] # "none" => age'[e] = age[e]
  BY <1>1 DEF Statuses, Answers, TypeOK
<1>3. Settled
  BY <1>2 DEF Settled, Answers
<1>4. me \in NodeStates
  BY <1>1 DEF NodeStates, NodeSteps
<1>5. TypeOK'
  BY <1>2, <1>4 DEF TypeOK, slackVars
<1>6. ActorInv'
  BY <1>3, ActorsKeep
<1>7. node' = me /\ me.at = "select" /\ me.overdue = node.overdue /\ me.decision = d
  BY <1>1 DEF NodeStates
<1>8. NodeInv'
  <2>1. node.overdue \subseteq Decisions
    BY <1>1 DEF NodeStates
  <2> QED
    BY <1>1, <1>2, <1>7, <2>1 DEF NodeInv
<1>9. RowInv' /\ InTimeInv'
  BY <1>2, <1>7 DEF RowInv, InTimeInv, InTime
<1>10. AuditTrue'
  <2> SUFFICES ASSUME NEW e \in Decisions PROVE audit[e] \cap Answers \subseteq {status'[e]}
    BY DEF AuditTrue
  <2>1. audit[e] \cap Answers \subseteq {status[e]}
    BY DEF AuditTrue
  <2> QED
    BY <1>2, <2>1 DEF Answers
<1>11. ReleasedWasApproved'
  BY <1>2 DEF ReleasedWasApproved, TypeOK
<1> QED
  BY <1>5, <1>6, <1>8, <1>9, <1>10, <1>11

LEMMA HitlSelectInv ==
  ASSUME HitlInv, HitlSelect
  PROVE  HitlInv'
<1> DEFINE d == node.decision
           me == [node EXCEPT !.at = IF node.inserted THEN "audit" ELSE "return",
                              !.seen = status[d]]
<1> USE DEF HitlSelect, HitlInv, queueVars
<1>1. d \in Decisions /\ node \in NodeStates /\ status[d] \in Statuses
  BY DEF NodeInv, TypeOK
<1>2. Settled /\ RowInv'
  BY RowsKeep
<1>3. me \in NodeStates
  BY <1>1 DEF NodeStates, NodeSteps
<1>4. TypeOK'
  BY <1>3 DEF TypeOK, rowVars, slackVars
<1>5. ActorInv'
  BY <1>2, ActorsKeep
<1>6. /\ node' = me /\ me.decision = d /\ me.seen = status[d] /\ me.overdue = node.overdue
      /\ me.at \in {"audit", "return"}
  BY <1>1 DEF NodeStates
<1>7. NodeInv' /\ InTimeInv'
  BY <1>1, <1>6 DEF NodeInv, InTimeInv, InTime, rowVars
<1>8. AuditTrue' /\ ReleasedWasApproved'
  BY DEF AuditTrue, ReleasedWasApproved, rowVars
<1> QED
  BY <1>2, <1>4, <1>5, <1>7, <1>8

\* A step of the node that only moves it on.
LEMMA NodeMoves ==
  ASSUME HitlInv, UNCHANGED <<rowVars, age, refused>>, UNCHANGED <<released, actor>>,
         NEW next \in {"sign", "post", "failed", "return"},
         node' = [node EXCEPT !.at = next],
         node.at \in {"audit", "sign", "post", "failed"}
  PROVE  node' \in NodeStates /\ ActorInv' /\ NodeInv' /\ RowInv' /\ InTimeInv' /\ ReleasedWasApproved'
<1> USE DEF HitlInv
<1>1. node \in NodeStates /\ node.decision \in Decisions
  BY DEF NodeInv, TypeOK
<1>2. Settled /\ RowInv'
  BY RowsKeep
<1>3. /\ node' \in NodeStates /\ node'.at = next /\ node'.decision = node.decision
      /\ node'.seen = node.seen /\ node'.overdue = node.overdue
  BY <1>1 DEF NodeStates, NodeSteps
<1>4. ActorInv'
  BY <1>2, ActorsKeep
<1>5. NodeInv' /\ InTimeInv' /\ ReleasedWasApproved'
  BY <1>1, <1>3 DEF NodeInv, InTimeInv, InTime, ReleasedWasApproved, rowVars
<1> QED
  BY <1>2, <1>3, <1>4, <1>5

\* An event that is no answer leaves the audit log as true as it was.
LEMMA OtherEvent ==
  ASSUME TypeOK, AuditTrue, NEW d \in Decisions, NEW event \in Events \ Answers,
         audit' = [audit EXCEPT ![d] = @ \cup {event}], UNCHANGED status
  PROVE  audit' \in [Decisions -> SUBSET Events] /\ AuditTrue'
<1>1. audit \in [Decisions -> SUBSET Events]
  BY DEF TypeOK
<1>2. /\ audit' \in [Decisions -> SUBSET Events]
      /\ \A e \in Decisions : audit'[e] \cap Answers = audit[e] \cap Answers
  BY <1>1
<1> QED
  BY <1>2 DEF AuditTrue

LEMMA HitlAuditInv ==
  ASSUME HitlInv, HitlAudit \/ HitlNotifyFailed
  PROVE  HitlInv'
<1> USE DEF HitlInv
<1>1. node.decision \in Decisions /\ TypeOK /\ AuditTrue
  BY DEF NodeInv, HitlAudit, HitlNotifyFailed
<1>2. /\ UNCHANGED <<rowVars, age, refused>> /\ UNCHANGED <<released, actor>>
      /\ UNCHANGED <<decided, slackVars>> /\ UNCHANGED status
  BY DEF HitlAudit, HitlNotifyFailed, rowVars
<1>3. /\ "queued" \in Events \ Answers
      /\ "notify_failed" \in Events \ Answers
  BY DEF Events, Answers
<1>4. audit' \in [Decisions -> SUBSET Events] /\ AuditTrue'
  BY <1>1, <1>2, <1>3, OtherEvent DEF HitlAudit, HitlNotifyFailed
<1>5. \E next \in {"sign", "post", "failed", "return"} :
        /\ node' = [node EXCEPT !.at = next]
        /\ node.at \in {"audit", "sign", "post", "failed"}
  BY DEF HitlAudit, HitlNotifyFailed
<1>6. node' \in NodeStates /\ ActorInv' /\ NodeInv' /\ RowInv' /\ InTimeInv' /\ ReleasedWasApproved'
  BY <1>2, <1>5, NodeMoves
<1>7. TypeOK'
  BY <1>1, <1>2, <1>4, <1>6 DEF TypeOK, rowVars, slackVars
<1> QED
  BY <1>4, <1>6, <1>7

LEMMA HitlNotifyInv ==
  ASSUME HitlInv, HitlSign \/ HitlNotify
  PROVE  HitlInv'
<1> DEFINE d == node.decision
           new == [posted |-> FALSE, age |-> 0, key |-> signerKey, serverKey |-> serverKey,
                   sinceRotated |-> sinceRotated]
<1> USE DEF HitlInv
<1>1. d \in Decisions /\ TypeOK
  BY DEF NodeInv, HitlSign, HitlNotify
<1>2. /\ UNCHANGED <<rowVars, age, refused>> /\ UNCHANGED <<released, actor>>
      /\ UNCHANGED <<decided, audit, signerKey, serverKey, sinceRotated>>
  BY DEF HitlSign, HitlNotify, queueVars
<1>3. \E next \in {"sign", "post", "failed", "return"} :
        /\ node' = [node EXCEPT !.at = next]
        /\ node.at \in {"audit", "sign", "post", "failed"}
  BY DEF HitlSign, HitlNotify
<1>4. node' \in NodeStates /\ ActorInv' /\ NodeInv' /\ RowInv' /\ InTimeInv' /\ ReleasedWasApproved'
  BY <1>2, <1>3, NodeMoves
<1>5. button' \in [Decisions -> Prompts]
  <2>1. new \in Prompts
    BY <1>1, LimitsAssumption DEF TypeOK, Prompts
  <2>2. button \in [Decisions -> Prompts] /\ [button[d] EXCEPT !.posted = TRUE] \in Prompts
    BY <1>1 DEF TypeOK, Prompts
  <2>3. \/ button' = button
        \/ button' = [button EXCEPT ![d] = new]
        \/ button' = [button EXCEPT ![d] = [button[d] EXCEPT !.posted = TRUE]]
    BY <1>1, <2>2 DEF HitlSign, HitlNotify
  <2> HIDE DEF new
  <2> QED
    BY <1>1, <2>1, <2>2, <2>3
<1>6. prompts' \in [Decisions -> 0..2]
  BY <1>1 DEF TypeOK, HitlSign, HitlNotify
<1>7. TypeOK'
  BY <1>1, <1>2, <1>4, <1>5, <1>6 DEF TypeOK, rowVars
<1>8. AuditTrue'
  BY <1>2 DEF AuditTrue, rowVars
<1> QED
  BY <1>4, <1>7, <1>8

LEMMA HitlReturnInv ==
  ASSUME HitlInv, HitlReturn
  PROVE  HitlInv'
<1> USE DEF HitlReturn, HitlInv, queueVars
<1>1. Settled /\ RowInv'
  BY RowsKeep
<1>2. node.decision \in Decisions /\ (node.seen = "approved" => status[node.decision] = "approved")
  BY DEF NodeInv
<1>3. TypeOK'
  BY <1>2, NodeIdleType DEF TypeOK, rowVars, slackVars
<1>4. ActorInv'
  BY <1>1, ActorsKeep
<1>5. NodeInv' /\ InTimeInv'
  BY DEF NodeInv, NodeIdle, InTimeInv, InTime, rowVars
<1>6. AuditTrue' /\ ReleasedWasApproved'
  BY <1>2 DEF AuditTrue, ReleasedWasApproved, RowInv, Answers, rowVars
<1> QED
  BY <1>1, <1>3, <1>4, <1>5, <1>6

LEMMA ReapInv ==
  ASSUME HitlInv, Reap \/ Crash
  PROVE  HitlInv'
<1> USE DEF HitlInv
<1>1. CASE ReapStart
  <2> DEFINE due == {d \in Decisions : status[d] = "pending" /\ Overdue(d)}
             me == [NodeIdle EXCEPT !.at = "reap", !.overdue = due]
  <2> USE <1>1 DEF ReapStart, queueVars
  <2>1. Settled /\ RowInv'
    BY RowsKeep
  <2>2. me \in NodeStates
    BY NodeIdleType DEF NodeStates, NodeSteps
  <2>3. TypeOK'
    BY <2>2 DEF TypeOK, rowVars, slackVars
  <2>4. node' = me /\ me.at = "reap" /\ me.overdue = due
    BY DEF NodeIdle
  <2>5. NodeInv' /\ InTimeInv'
    BY <2>4 DEF NodeInv, InTimeInv, InTime, Overdue, Answers, rowVars
  <2>6. ActorInv' /\ AuditTrue' /\ ReleasedWasApproved'
    BY <2>1, ActorsKeep DEF AuditTrue, ReleasedWasApproved, rowVars
  <2> QED
    BY <2>1, <2>3, <2>5, <2>6
<1>2. CASE ReapOne
  <2> USE <1>2 DEF ReapOne, rowVars
  <2>1. PICK d \in node.overdue :
          /\ refused' = refused \cup {d}
          /\ node' = IF node.overdue = {d} THEN NodeIdle
                     ELSE [node EXCEPT !.overdue = @ \ {d}]
    OBVIOUS
  <2>2. node \in NodeStates /\ node.at = "reap" /\ node.overdue \subseteq Decisions
    BY DEF TypeOK, NodeStates
  <2>3. refused' \subseteq Decisions /\ refused' = refused \cup {d}
    BY <2>1, <2>2 DEF TypeOK
  <2>4. node' \in NodeStates /\ node'.overdue \subseteq node.overdue /\ node'.at \in {"idle", "reap"}
    BY <2>1, <2>2, NodeIdleType DEF NodeStates, NodeIdle
  <2>5. TypeOK'
    BY <2>3, <2>4 DEF TypeOK, slackVars
  <2>6. Settled
    BY DEF Settled
  <2>7. RowInv'
    BY <2>2, <2>3 DEF RowInv, NodeInv
  <2>8. NodeInv'
    BY <2>4 DEF NodeInv
  <2>9. InTimeInv'
    BY <2>2, <2>3, <2>4 DEF InTimeInv, InTime
  <2>10. ActorInv' /\ AuditTrue' /\ ReleasedWasApproved'
    BY <2>6, ActorsKeep DEF AuditTrue, ReleasedWasApproved
  <2> QED
    BY <2>5, <2>7, <2>8, <2>9, <2>10
<1>3. CASE Crash
  <2> USE <1>3 DEF Crash, queueVars
  <2>1. Settled /\ RowInv'
    BY RowsKeep
  <2>2. TypeOK'
    BY NodeIdleType DEF TypeOK, rowVars, slackVars
  <2>3. NodeInv' /\ InTimeInv'
    BY DEF NodeInv, NodeIdle, InTimeInv, InTime, rowVars
  <2>4. ActorInv' /\ AuditTrue' /\ ReleasedWasApproved'
    BY <2>1, ActorsKeep DEF AuditTrue, ReleasedWasApproved, rowVars
  <2> QED
    BY <2>1, <2>2, <2>3, <2>4
<1> QED
  BY <1>1, <1>2, <1>3 DEF Reap

-----------------------------------------------------------------------------
(* Answers.                                                                *)

\* The state of an actor that begins an answer.
LEMMA BeginInv ==
  ASSUME HitlInv, NEW a \in Actors, NEW d \in Decisions, NEW answer \in Answers,
         Begin(a, d, answer), UNCHANGED <<rowVars, age>>
  PROVE  actor' \in [Actors -> ActorStates] /\ ActorInv'
<1> DEFINE me == [at |-> IF answer = "approved" THEN "insert" ELSE "update",
                  decision |-> d, answer |-> answer, mutated |-> FALSE]
<1> USE DEF HitlInv
<1>1. me \in ActorStates
  BY DEF ActorStates, ActorSteps, TypeOK
<1>2. /\ actor' \in [Actors -> ActorStates] /\ actor'[a] = me
      /\ \A b \in Actors \ {a} : actor'[b] = actor[b]
  BY <1>1, ActorStep DEF Begin
<1>3. Settled
  BY DEF Settled, rowVars
<1>4. ActorOK(actor[a])'
  BY <1>2 DEF ActorOK
<1> QED
  BY <1>2, <1>3, <1>4, OthersKeep

LEMMA CliAnswerInv ==
  ASSUME HitlInv, NEW d \in Decisions, NEW answer \in Answers, CliAnswer(d, answer)
  PROVE  HitlInv'
<1> USE DEF CliAnswer, HitlInv, queueVars
<1>1. actor' \in [Actors -> ActorStates] /\ ActorInv'
  BY BeginInv
<1>2. Settled /\ RowInv'
  BY RowsKeep
<1>3. TypeOK'
  BY <1>1 DEF TypeOK, rowVars, slackVars
<1>4. NodeInv'
  BY <1>2, NodeKeeps
<1>5. AuditTrue' /\ ReleasedWasApproved' /\ InTimeInv'
  BY DEF AuditTrue, ReleasedWasApproved, InTimeInv, InTime, rowVars
<1> QED
  BY <1>1, <1>2, <1>3, <1>4, <1>5

LEMMA SlackClickInv ==
  ASSUME HitlInv, NEW d \in Decisions, NEW answer \in Answers, SlackClick(d, answer)
  PROVE  HitlInv'
<1> USE DEF SlackClick, HitlInv
<1>1. Settled /\ RowInv'
  BY RowsKeep
<1>2. actor' \in [Actors -> ActorStates] /\ ActorInv'
  <2>1. CASE Verified(button[d])
    BY <2>1, BeginInv
  <2>2. CASE ~Verified(button[d])
    BY <1>1, <2>2, ActorsKeep DEF TypeOK
  <2> QED
    BY <2>1, <2>2
<1>3. /\ audit' \in [Decisions -> SUBSET Events]
      /\ \A e \in Decisions : audit'[e] \cap Answers = audit[e] \cap Answers
  <2>1. CASE UNCHANGED audit
    BY <2>1 DEF TypeOK
  <2>2. CASE audit' = [audit EXCEPT ![d] = @ \cup {"signature_rejected"}]
    <3>1. "signature_rejected" \in Events /\ "signature_rejected" \notin Answers
      BY DEF Events, Answers
    <3>2. audit \in [Decisions -> SUBSET Events]
      BY DEF TypeOK
    <3> QED
      BY <2>2, <3>1, <3>2
  <2> QED
    BY <2>1, <2>2
<1>4. TypeOK'
  BY <1>2, <1>3 DEF TypeOK, rowVars, slackVars
<1>5. NodeInv'
  BY <1>1, NodeKeeps
<1>6. AuditTrue' /\ ReleasedWasApproved' /\ InTimeInv'
  BY <1>3 DEF AuditTrue, ReleasedWasApproved, InTimeInv, InTime, rowVars
<1> QED
  BY <1>1, <1>2, <1>4, <1>5, <1>6

\* A row that gets its answer now: the first one, written at its age now.
LEMMA FirstAnswer ==
  ASSUME TypeOK, NodeInv, RowInv, AuditTrue, ReleasedWasApproved, InTimeInv,
         NEW d \in Decisions, status[d] \notin Answers,
         NEW a \in Actors, NEW answer \in Answers,
         status' = [status EXCEPT ![d] = answer],
         answeredBy' = [answeredBy EXCEPT ![d] = a],
         writtenAt'[d] = age'[d], \A e \in Decisions \ {d} : writtenAt'[e] = writtenAt[e],
         \A e \in Decisions : status[e] # "none" => age'[e] = age[e],
         UNCHANGED <<refused, audit, node, released>>
  PROVE  NodeInv' /\ RowInv' /\ AuditTrue' /\ ReleasedWasApproved' /\ InTimeInv'
<1>1. /\ status'[d] = answer /\ answeredBy'[d] = a
      /\ \A e \in Decisions \ {d} : status'[e] = status[e] /\ answeredBy'[e] = answeredBy[e]
      /\ answer # "none"
  BY DEF TypeOK, Answers
<1>2. node.overdue \subseteq Decisions /\ released \subseteq Decisions
  BY DEF TypeOK, NodeStates
<1>3. NodeInv'
  BY <1>1, <1>2 DEF NodeInv, Answers
<1>4. RowInv'
  BY <1>1 DEF RowInv
<1>5. AuditTrue'
  <2> SUFFICES ASSUME NEW e \in Decisions PROVE audit[e] \cap Answers \subseteq {status'[e]}
    BY DEF AuditTrue
  <2>1. audit[e] \cap Answers \subseteq {status[e]}
    BY DEF AuditTrue
  <2> QED
    BY <1>1, <2>1
<1>6. ReleasedWasApproved'
  BY <1>1, <1>2 DEF ReleasedWasApproved, Answers
<1>7. InTimeInv'
  <2> SUFFICES ASSUME NEW e \in Decisions, InTime(e)'
               PROVE  e \notin refused /\ e \notin node.overdue
    BY DEF InTimeInv
  <2>1. CASE e # d
    BY <1>1, <2>1 DEF InTimeInv, InTime
  <2>2. CASE e = d
    <3>1. status[d] = "none" \/ age[d] < Deadline
      BY <2>2 DEF InTime
    <3>2. age[d] \in Nat /\ Deadline \in Nat
      BY LimitsAssumption DEF TypeOK
    <3>3. ~(status[d] # "none" /\ age[d] >= Deadline)
      BY <3>1, <3>2
    <3> QED
      BY <2>2, <3>3 DEF RowInv, NodeInv
  <2> QED
    BY <2>1, <2>2
<1> QED
  BY <1>3, <1>4, <1>5, <1>6, <1>7

LEMMA ApproveInsertInv ==
  ASSUME HitlInv, NEW a \in Actors, ApproveInsert(a)
  PROVE  HitlInv'
<1> DEFINE d == actor[a].decision
           me == [actor[a] EXCEPT !.at = "update", !.mutated = (status[d] = "none")]
<1> USE DEF HitlInv
<1>1. /\ actor[a] \in ActorStates /\ actor[a].at = "insert" /\ d \in Decisions
      /\ actor[a].answer = "approved" /\ ActorOK(actor[a])
      /\ UNCHANGED <<decided, refused, audit, slackVars, node, released>>
  BY DEF ApproveInsert, ActorInv, ActorOK, TypeOK
<1>2. CASE d \notin decided
  <2>1. UNCHANGED <<rowVars, age>> /\ actor' = [actor EXCEPT ![a] = ActorIdle]
    BY <1>2 DEF ApproveInsert
  <2>2. Settled /\ RowInv'
    BY <1>1, <2>1, RowsKeep
  <2>3. /\ actor' \in [Actors -> ActorStates] /\ actor'[a] = ActorIdle
        /\ \A b \in Actors \ {a} : actor'[b] = actor[b]
    BY <2>1, ActorIdleType, ActorStep
  <2>4. ActorOK(actor[a])'
    BY <2>3 DEF ActorOK, ActorIdle
  <2>5. ActorInv'
    BY <1>1, <2>2, <2>3, <2>4, OthersKeep
  <2>6. TypeOK'
    BY <1>1, <2>1, <2>3 DEF TypeOK, rowVars, slackVars
  <2>7. NodeInv'
    BY <1>1, <2>2, NodeKeeps
  <2>8. AuditTrue' /\ ReleasedWasApproved' /\ InTimeInv'
    BY <1>1, <2>1 DEF AuditTrue, ReleasedWasApproved, InTimeInv, InTime, rowVars
  <2> QED
    BY <2>2, <2>5, <2>6, <2>7, <2>8
<1>3. CASE d \in decided
  <2>1. /\ status' = [status EXCEPT ![d] = IF @ = "none" THEN "approved" ELSE @]
        /\ answeredBy' = [answeredBy EXCEPT ![d] = IF status[d] = "none" THEN a ELSE @]
        /\ actor' = [actor EXCEPT ![a] = me]
    BY <1>3 DEF ApproveInsert
  <2>0. PICK waited \in 0..Deadline :
          /\ age' = [age EXCEPT ![d] = IF status[d] = "none" THEN waited ELSE @]
          /\ writtenAt' = [writtenAt EXCEPT ![d] = IF status[d] = "none" THEN waited ELSE @]
    BY <1>3 DEF ApproveInsert
  <2>9. /\ \A e \in Decisions : status[e] # "none" => age'[e] = age[e]
        /\ status[d] = "none" => writtenAt'[d] = age'[d]
        /\ \A e \in Decisions \ {d} : writtenAt'[e] = writtenAt[e]
        /\ status[d] # "none" => writtenAt' = writtenAt /\ age' = age
        /\ age' \in [Decisions -> 0..Deadline] /\ writtenAt' \in [Decisions -> 0..Deadline]
    BY <1>1, <2>0 DEF TypeOK
  <2>2. me \in ActorStates
    BY <1>1 DEF ActorStates, ActorSteps
  <2>3. /\ actor' \in [Actors -> ActorStates] /\ actor'[a] = me
        /\ \A b \in Actors \ {a} : actor'[b] = actor[b]
    BY <2>1, <2>2, ActorStep
  <2>4. Settled
    BY <1>1, <2>1, <2>9 DEF TypeOK, Settled, Answers
  <2>5. ActorOK(actor[a])'
    <3>1. me.answer = "approved" /\ me.decision = d /\ me.at = "update"
      BY <1>1 DEF ActorStates
    <3>2. me.mutated => status'[d] = "approved"
      BY <1>1, <2>1 DEF ActorStates, TypeOK
    <3> QED
      BY <1>1, <2>3, <3>1, <3>2 DEF ActorOK
  <2>6. ActorInv'
    BY <1>1, <2>3, <2>4, <2>5, OthersKeep
  <2>7. TypeOK'
    <3>1. status' \in [Decisions -> Statuses] /\ answeredBy' \in [Decisions -> Actors \cup {"nobody"}]
      BY <1>1, <2>1 DEF TypeOK, Statuses, Answers
    <3> QED
      BY <1>1, <2>3, <2>9, <3>1 DEF TypeOK, slackVars
  <2>8. NodeInv' /\ RowInv' /\ AuditTrue' /\ ReleasedWasApproved' /\ InTimeInv'
    <3>1. CASE status[d] = "none"
      <4>1. status' = [status EXCEPT ![d] = "approved"] /\ answeredBy' = [answeredBy EXCEPT ![d] = a]
        BY <2>1, <3>1
      <4> QED
        BY <1>1, <2>9, <3>1, <4>1, FirstAnswer DEF Answers
    <3>2. CASE status[d] # "none"
      <4>1. status' = status /\ answeredBy' = answeredBy
        BY <1>1, <2>1, <3>2 DEF TypeOK
      <4> QED
        BY <1>1, <2>4, <2>9, <3>2, <4>1, NodeKeeps, RowsKeep
           DEF AuditTrue, ReleasedWasApproved, InTimeInv, InTime, rowVars
    <3> QED
      BY <3>1, <3>2
  <2> QED
    BY <2>6, <2>7, <2>8
<1> QED
  BY <1>2, <1>3

LEMMA UpdateInv ==
  ASSUME HitlInv, NEW a \in Actors, Update(a)
  PROVE  HitlInv'
<1> DEFINE d == actor[a].decision
           me == [actor[a] EXCEPT !.at = "audit", !.mutated = @ \/ status[d] = "pending"]
<1> USE DEF HitlInv
<1>1. /\ actor[a] \in ActorStates /\ actor[a].at = "update" /\ d \in Decisions
      /\ actor[a].answer \in Answers /\ ActorOK(actor[a])
      /\ UNCHANGED <<decided, age, refused, audit, slackVars, node, released>>
  BY DEF Update, ActorInv, ActorOK, TypeOK, ActorStates
<1>2. /\ status' = [status EXCEPT ![d] = IF @ = "pending" THEN actor[a].answer ELSE @]
      /\ answeredBy' = [answeredBy EXCEPT ![d] = IF status[d] = "pending" THEN a ELSE @]
      /\ writtenAt' = [writtenAt EXCEPT ![d] = IF status[d] = "pending" THEN age[d] ELSE @]
      /\ actor' = [actor EXCEPT ![a] = me]
  BY DEF Update
<1>3. me \in ActorStates
  BY <1>1 DEF ActorStates, ActorSteps
<1>4. /\ actor' \in [Actors -> ActorStates] /\ actor'[a] = me
      /\ \A b \in Actors \ {a} : actor'[b] = actor[b]
  BY <1>2, <1>3, ActorStep
<1>5. Settled
  BY <1>1, <1>2 DEF TypeOK, Settled, Answers
<1>6. ActorOK(actor[a])'
  <2>1. me.answer = actor[a].answer /\ me.decision = d /\ me.at = "audit"
    BY <1>1 DEF ActorStates
  <2>2. me.mutated => actor[a].mutated \/ status[d] = "pending"
    BY <1>1 DEF ActorStates
  <2>3. me.mutated => status'[d] = me.answer
    <3>1. status \in [Decisions -> Statuses]
      BY DEF TypeOK
    <3>2. actor[a].mutated => status[d] = actor[a].answer
      BY <1>1 DEF ActorOK
    <3> QED
      BY <1>1, <1>2, <2>1, <2>2, <3>1, <3>2 DEF Answers
  <2> QED
    BY <1>1, <1>4, <2>1, <2>3 DEF ActorOK
<1>7. ActorInv'
  BY <1>1, <1>4, <1>5, <1>6, OthersKeep
<1>9. TypeOK'
  <2>1. /\ status' \in [Decisions -> Statuses] /\ answeredBy' \in [Decisions -> Actors \cup {"nobody"}]
        /\ writtenAt' \in [Decisions -> 0..Deadline]
    BY <1>1, <1>2 DEF TypeOK, Statuses
  <2> QED
    BY <1>1, <1>4, <2>1 DEF TypeOK, slackVars
<1>10. NodeInv' /\ RowInv' /\ AuditTrue' /\ ReleasedWasApproved' /\ InTimeInv'
  <2>1. CASE status[d] = "pending"
    <3>1. status' = [status EXCEPT ![d] = actor[a].answer] /\ answeredBy' = [answeredBy EXCEPT ![d] = a]
      BY <1>2, <2>1
    <3>2. writtenAt'[d] = age'[d] /\ \A e \in Decisions \ {d} : writtenAt'[e] = writtenAt[e]
      BY <1>1, <1>2, <2>1 DEF TypeOK
    <3>4. status[d] \notin Answers
      BY <2>1 DEF Answers
    <3> QED
      BY <1>1, <3>1, <3>2, <3>4, FirstAnswer
  <2>2. CASE status[d] # "pending"
    <3>1. status' = status /\ answeredBy' = answeredBy /\ writtenAt' = writtenAt
      BY <1>1, <1>2, <2>2 DEF TypeOK
    <3> QED
      BY <1>1, <1>5, <3>1, NodeKeeps, RowsKeep
         DEF AuditTrue, ReleasedWasApproved, InTimeInv, InTime, rowVars
  <2> QED
    BY <2>1, <2>2
<1> QED
  BY <1>7, <1>9, <1>10

\* The audit event names the answer in the row; an actor that ends needs nothing.
LEMMA AuditInv ==
  ASSUME HitlInv, NEW a \in Actors, AuditAndReply(a) \/ ActorCrash(a)
  PROVE  HitlInv'
<1> DEFINE d == actor[a].decision
<1> USE DEF HitlInv
<1>1. /\ UNCHANGED <<decided, rowVars, age, refused, slackVars, node, released>>
      /\ actor' = [actor EXCEPT ![a] = ActorIdle]
      /\ actor[a].at # "idle"
  BY DEF AuditAndReply, ActorCrash, queueVars
<1>2. Settled /\ RowInv'
  BY <1>1, RowsKeep
<1>3. /\ actor' \in [Actors -> ActorStates] /\ actor'[a] = ActorIdle
      /\ \A b \in Actors \ {a} : actor'[b] = actor[b]
  BY <1>1, ActorIdleType, ActorStep
<1>4. ActorOK(actor[a])'
  BY <1>3 DEF ActorOK, ActorIdle
<1>5. ActorInv'
  BY <1>1, <1>2, <1>3, <1>4, OthersKeep
<1>6. audit' \in [Decisions -> SUBSET Events] /\ AuditTrue'
  <2>1. CASE audit' = audit
    BY <1>1, <2>1 DEF TypeOK, AuditTrue, rowVars
  <2>2. CASE audit' # audit
    <3>1. audit' = [audit EXCEPT ![d] = @ \cup {actor[a].answer}] /\ actor[a].mutated
      <4>1. audit' = [audit EXCEPT ![d] = IF actor[a].mutated THEN @ \cup {actor[a].answer} ELSE @]
        BY <2>2 DEF AuditAndReply, ActorCrash, queueVars
      <4>2. audit \in [Decisions -> SUBSET Events]
        BY DEF TypeOK
      <4> QED
        BY <2>2, <4>1, <4>2
    <3>2. d \in Decisions /\ status[d] = actor[a].answer /\ actor[a].answer \in Answers
      BY <1>1, <3>1 DEF ActorInv, ActorOK, TypeOK, ActorStates
    <3>3. actor[a].answer \in Events /\ audit \in [Decisions -> SUBSET Events]
      BY <3>2 DEF Events, TypeOK
    <3>4. audit' \in [Decisions -> SUBSET Events]
      BY <3>1, <3>3
    <3>5. ASSUME NEW e \in Decisions PROVE audit'[e] \cap Answers \subseteq {status[e]}
      <4>1. audit[e] \cap Answers \subseteq {status[e]}
        BY DEF AuditTrue
      <4> QED
        BY <3>1, <3>2, <3>3, <4>1
    <3> QED
      BY <1>1, <3>4, <3>5 DEF AuditTrue, rowVars
  <2> QED
    BY <2>1, <2>2
<1>7. TypeOK'
  BY <1>1, <1>3, <1>6 DEF TypeOK, rowVars, slackVars
<1>8. NodeInv'
  BY <1>1, <1>2, NodeKeeps
<1>9. ReleasedWasApproved' /\ InTimeInv'
  BY <1>1 DEF ReleasedWasApproved, InTimeInv, InTime, rowVars
<1> QED
  BY <1>2, <1>5, <1>6, <1>7, <1>8, <1>9

-----------------------------------------------------------------------------
(* Keys and time.                                                          *)

LEMMA RotateInv ==
  ASSUME HitlInv, RotateServer \/ RotateSigner
  PROVE  HitlInv'
<1> USE DEF HitlInv
<1>1. /\ UNCHANGED <<queueVars, node, released, actor>>
      /\ TypeOK'
  BY LimitsAssumption DEF RotateServer, RotateSigner, TypeOK, queueVars, rowVars
<1>2. Settled /\ RowInv'
  BY <1>1, RowsKeep DEF queueVars
<1>3. ActorInv' /\ NodeInv'
  BY <1>1, <1>2, ActorsKeep, NodeKeeps DEF queueVars
<1>4. AuditTrue' /\ ReleasedWasApproved' /\ InTimeInv'
  BY <1>1 DEF AuditTrue, ReleasedWasApproved, InTimeInv, InTime, queueVars, rowVars
<1> QED
  BY <1>1, <1>2, <1>3, <1>4

\* A row that is overdue stays so.
LEMMA TickInv ==
  ASSUME HitlInv, Tick
  PROVE  HitlInv'
<1> USE DEF Tick, HitlInv
<1>1. \A cap \in Nat : \A t \in 0..cap : Older(t, cap) \in 0..cap /\ Older(t, cap) >= t
  BY DEF Older
<1>2. /\ age' \in [Decisions -> 0..Deadline]
      /\ \A d \in Decisions : status[d] # "none" => age'[d] >= age[d]
  BY <1>1, LimitsAssumption DEF TypeOK
<1>3. button' \in [Decisions -> Prompts]
  <2>1. ASSUME NEW d \in Decisions
        PROVE  [button[d] EXCEPT !.age = Older(@, MaxAge + 1)] \in Prompts
    <3>1. button[d] \in Prompts
      BY DEF TypeOK
    <3>2. MaxAge + 1 \in Nat /\ button[d].age \in 0..MaxAge + 1
      BY <3>1, LimitsAssumption DEF Prompts
    <3>3. Older(button[d].age, MaxAge + 1) \in 0..MaxAge + 1
      BY <1>1, <3>2
    <3> QED
      BY <3>1, <3>3 DEF Prompts
  <2> QED
    BY <2>1
<1>4. sinceRotated' \in 0..Grace + 1
  <2>1. Grace + 1 \in Nat /\ sinceRotated \in 0..Grace + 1
    BY LimitsAssumption DEF TypeOK
  <2> QED
    BY <1>1, <2>1
<1>5. TypeOK'
  BY <1>2, <1>3, <1>4 DEF TypeOK, rowVars
<1>6. ActorInv'
  <2> SUFFICES ASSUME NEW a \in Actors PROVE ActorOK(actor[a])'
    BY DEF ActorInv
  <2>1. ActorOK(actor[a])
    BY DEF ActorInv
  <2> QED
    BY <2>1 DEF ActorOK, rowVars
<1>7. NodeInv' /\ RowInv'
  <2>1. node.overdue \subseteq Decisions
    BY DEF TypeOK, NodeStates
  <2>2. \A d \in Decisions : status[d] # "none" /\ age[d] >= Deadline => age'[d] >= Deadline
    <3>1. \A d \in Decisions : age[d] \in Nat /\ age'[d] \in Nat /\ Deadline \in Nat
      BY <1>2, LimitsAssumption DEF TypeOK
    <3> QED
      BY <1>2, <3>1
  <2> QED
    BY <2>1, <2>2 DEF NodeInv, RowInv, rowVars
<1>8. AuditTrue' /\ ReleasedWasApproved' /\ InTimeInv'
  BY DEF AuditTrue, ReleasedWasApproved, InTimeInv, InTime, rowVars
<1> QED
  BY <1>5, <1>6, <1>7, <1>8

-----------------------------------------------------------------------------

LEMMA NextInv == HitlInv /\ [Next]_vars => HitlInv'
<1> SUFFICES ASSUME HitlInv, [Next]_vars PROVE HitlInv'
  OBVIOUS
<1>1. CASE UNCHANGED vars
  <2>1. UNCHANGED <<queueVars, slackVars, node, released, actor>>
    BY <1>1 DEF vars
  <2>2. Settled /\ RowInv'
    BY <2>1, RowsKeep DEF queueVars
  <2>3. TypeOK'
    BY <2>1 DEF HitlInv, TypeOK, queueVars, rowVars, slackVars
  <2>4. ActorInv' /\ NodeInv'
    BY <2>1, <2>2, ActorsKeep, NodeKeeps DEF HitlInv, queueVars
  <2> QED
    BY <2>1, <2>2, <2>3, <2>4
       DEF HitlInv, AuditTrue, ReleasedWasApproved, InTimeInv, InTime, queueVars, rowVars
<1>2. CASE Hitl
  BY <1>2, HitlEnterInv, HitlInsertInv, HitlSelectInv, HitlAuditInv, HitlNotifyInv, HitlReturnInv
     DEF Hitl, HitlRest
<1>3. CASE Reap \/ Crash
  BY <1>3, ReapInv
<1>4. CASE \E d \in Decisions, answer \in Answers : CliAnswer(d, answer) \/ SlackClick(d, answer)
  BY <1>4, CliAnswerInv, SlackClickInv
<1>5. CASE \E a \in Actors : Answering(a) \/ ActorCrash(a)
  BY <1>5, ApproveInsertInv, UpdateInv, AuditInv DEF Answering
<1>6. CASE RotateServer \/ RotateSigner \/ Tick
  BY <1>6, RotateInv, TickInv
<1> QED
  BY <1>1, <1>2, <1>3, <1>4, <1>5, <1>6 DEF Next

-----------------------------------------------------------------------------
(* The theorems.                                                           *)

\* The invariant that the theorems below follow from.
THEOREM HitlInvariant == Spec => []HitlInv
BY InitInv, NextInv, PTL DEF Spec

\* Every variable keeps its type.
THEOREM TypeCorrect == Spec => []TypeOK
<1>1. HitlInv => TypeOK
  BY DEF HitlInv
<1> QED
  BY <1>1, HitlInvariant, PTL

\* What the node let through was approved by a human, and still is (hitl,
\* mark_approved, mark_rejected).
THEOREM OnlyApprovedReleased == Spec => []ReleasedWasApproved
<1>1. HitlInv => ReleasedWasApproved
  BY DEF HitlInv
<1> QED
  BY <1>1, HitlInvariant, PTL

\* An answer in the audit log is the answer in the queue (the row count that
\* mark_approved and mark_rejected look at).
THEOREM AuditIsTrue == Spec => []AuditTrue
<1>1. HitlInv => AuditTrue
  BY DEF HitlInv
<1> QED
  BY <1>1, HitlInvariant, PTL

\* An escalation whose answer was written before the deadline is not refused by
\* the reaper, then or later (reap_expired_hitl_entries).
THEOREM InTimeNotRefused == Spec => []AnsweredInTimeNotRefused
<1>1. HitlInv => AnsweredInTimeNotRefused
  BY DEF HitlInv, InTimeInv, InTime, AnsweredInTimeNotRefused
<1> QED
  BY <1>1, HitlInvariant, PTL

\* The first answer stands, with its author and its time: no statement of any
\* actor, of the node or of the reaper changes an answered row.
THEOREM FirstAnswerStands == Spec => FirstAnswerWins
<1> DEFINE Stands == \A d \in Decisions : status[d] \in Answers =>
                       /\ status'[d] = status[d]
                       /\ answeredBy'[d] = answeredBy[d]
                       /\ writtenAt'[d] = writtenAt[d]
<1>1. ASSUME HitlInv, [Next]_vars
      PROVE  [Stands]_vars
  <2> SUFFICES ASSUME NEW d \in Decisions, status[d] \in Answers, ~UNCHANGED rowVars
               PROVE  /\ status'[d] = status[d]
                      /\ answeredBy'[d] = answeredBy[d]
                      /\ writtenAt'[d] = writtenAt[d]
    BY DEF rowVars
  <2>1. TypeOK /\ status[d] # "none" /\ status[d] # "pending"
    BY <1>1 DEF HitlInv, Answers
  <2>2. HitlInsert \/ \E a \in Actors : ApproveInsert(a) \/ Update(a)
    BY <1>1 DEF Next, vars, Hitl, HitlRest, HitlEnter, HitlSelect, HitlAudit, HitlSign, HitlNotify,
                HitlNotifyFailed, HitlReturn, Reap, ReapStart,
                ReapOne, Crash, CliAnswer, SlackClick, Answering, AuditAndReply, ActorCrash,
                RotateServer, RotateSigner, Tick, queueVars
  <2>3. CASE HitlInsert
    BY <2>1, <2>3 DEF HitlInsert, TypeOK
  <2>4. ASSUME NEW a \in Actors, ApproveInsert(a)
        PROVE  /\ status'[d] = status[d]
               /\ answeredBy'[d] = answeredBy[d]
               /\ writtenAt'[d] = writtenAt[d]
    BY <2>1, <2>4 DEF ApproveInsert, TypeOK, rowVars
  <2>5. ASSUME NEW a \in Actors, Update(a)
        PROVE  /\ status'[d] = status[d]
               /\ answeredBy'[d] = answeredBy[d]
               /\ writtenAt'[d] = writtenAt[d]
    BY <2>1, <2>5 DEF Update, TypeOK
  <2> QED
    BY <2>2, <2>3, <2>4, <2>5
<1> QED
  BY <1>1, HitlInvariant, PTL DEF Spec, FirstAnswerWins

-----------------------------------------------------------------------------
(* Keys and clocks.                                                        *)

\* While a signature is valid: a rotation after it was made is no older than it,
\* and one before it has aged with it.
KeyOK(b) ==
  b.age <= MaxAge =>
    /\ b.serverKey <= serverKey
    /\ b.serverKey < serverKey => sinceRotated <= b.age
    /\ b.serverKey = serverKey => sinceRotated <= b.sinceRotated + b.age

KeyInv == \A d \in Decisions : KeyOK(button[d])

LEMMA KeyInit == Init => KeyInv
BY LimitsAssumption DEF Init, KeyInv, KeyOK, NoButton

LEMMA KeyNext ==
  ASSUME HitlInv, KeyInv, [Next]_vars
  PROVE  KeyInv'
<1> SUFFICES ASSUME NEW d \in Decisions PROVE KeyOK(button[d])'
  BY DEF KeyInv
<1>1. /\ KeyOK(button[d]) /\ serverKey \in Nat /\ sinceRotated \in 0..Grace + 1
      /\ button[d] \in Prompts /\ button \in [Decisions -> Prompts]
      /\ button[d].age \in Nat /\ button[d].serverKey \in Nat /\ button[d].sinceRotated \in Nat
      /\ MaxAge \in Nat /\ Grace \in Nat /\ sinceRotated \in Nat
  BY LimitsAssumption DEF KeyInv, HitlInv, TypeOK, Prompts
<1>2. CASE UNCHANGED slackVars
  BY <1>1, <1>2 DEF KeyOK, slackVars
<1>3. CASE HitlSign
  <2>1. serverKey' = serverKey /\ sinceRotated' = sinceRotated
    BY <1>3 DEF HitlSign
  <2>2. \/ button'[d] = button[d]
        \/ /\ button'[d].serverKey = serverKey /\ button'[d].sinceRotated = sinceRotated
           /\ button'[d].age = 0
    BY <1>1, <1>3 DEF HitlSign
  <2> QED
    BY <1>1, <2>1, <2>2 DEF KeyOK
<1>4. CASE HitlNotify
  <2>1. serverKey' = serverKey /\ sinceRotated' = sinceRotated
    BY <1>4 DEF HitlNotify
  <2>2. node.decision \in Decisions
    BY <1>4 DEF HitlInv, NodeInv, HitlNotify
  <2>3. /\ button'[d].serverKey = button[d].serverKey
        /\ button'[d].sinceRotated = button[d].sinceRotated
        /\ button'[d].age = button[d].age
    BY <1>1, <1>4, <2>2 DEF HitlNotify, Prompts
  <2> QED
    BY <1>1, <2>1, <2>3 DEF KeyOK
<1>5. CASE RotateServer
  <2>1. button' = button /\ serverKey' = serverKey + 1 /\ sinceRotated' = 0
    BY <1>5 DEF RotateServer
  <2> QED
    BY <1>1, <2>1 DEF KeyOK
<1>6. CASE RotateSigner
  BY <1>1, <1>6 DEF RotateSigner, KeyOK
<1>7. CASE Tick
  <2>1. /\ serverKey' = serverKey /\ sinceRotated' = Older(sinceRotated, Grace + 1)
        /\ button'[d] = [button[d] EXCEPT !.age = Older(@, MaxAge + 1)]
    BY <1>1, <1>7 DEF Tick
  <2>2. /\ button'[d].age = Older(button[d].age, MaxAge + 1)
        /\ button'[d].serverKey = button[d].serverKey
        /\ button'[d].sinceRotated = button[d].sinceRotated
    BY <1>1, <2>1 DEF Prompts
  <2>3. sinceRotated' <= sinceRotated + 1 /\ sinceRotated' \in Nat
    BY <1>1, <2>1 DEF Older
  <2>4. button'[d].age <= MaxAge => button'[d].age = button[d].age + 1
    BY <1>1, <2>2 DEF Older
  <2> QED
    BY <1>1, <2>1, <2>2, <2>3, <2>4 DEF KeyOK
<1> QED
  BY <1>2, <1>3, <1>4, <1>5, <1>6, <1>7
     DEF Next, vars, Hitl, HitlRest, HitlEnter, HitlInsert, HitlSelect, HitlAudit, HitlNotifyFailed,
         HitlReturn, Reap, ReapStart, ReapOne, Crash, CliAnswer, SlackClick, Answering,
         ApproveInsert, Update, AuditAndReply, ActorCrash

\* A fresh prompt is accepted across one rotation of the key, also one signed
\* while the two sides differ (verify_with_rotation).
THEOREM FreshAccepted == Spec => []FreshPromptAccepted
<1>1. HitlInv /\ KeyInv /\ [Next]_vars => KeyInv'
  BY KeyNext
<1>2. TypeOK /\ KeyInv => FreshPromptAccepted
  <2> DEFINE b(d) == button[d]
  <2> SUFFICES ASSUME TypeOK, KeyInv, NEW d \in Decisions, b(d).posted, b(d).age <= MaxAge,
                      serverKey \in {b(d).key, b(d).key + 1},
                      b(d).key < b(d).serverKey => b(d).sinceRotated + MaxAge <= Grace
               PROVE  Verified(b(d))
    BY DEF FreshPromptAccepted
  <2>1. /\ serverKey \in Nat /\ sinceRotated \in Nat /\ MaxAge \in Nat /\ Grace \in Nat
        /\ b(d).serverKey \in Nat /\ b(d).age \in Nat /\ b(d).key \in Nat
        /\ b(d).sinceRotated \in Nat
    BY LimitsAssumption DEF TypeOK, Prompts
  <2>2. KeyOK(b(d))
    BY DEF KeyInv
  <2> HIDE DEF b
  <2>3. CASE b(d).key = serverKey
    BY <2>3 DEF Verified
  <2>4. CASE b(d).key + 1 = serverKey
    <3>1. CASE b(d).serverKey < serverKey
      <4>1. sinceRotated <= b(d).age
        BY <2>2, <3>1 DEF KeyOK
      <4>2. sinceRotated <= Grace
        BY <2>1, <4>1, LimitsAssumption
      <4> QED
        BY <2>4, <4>2 DEF Verified
    <3>2. CASE b(d).serverKey = serverKey
      <4>1. b(d).sinceRotated + MaxAge <= Grace
        BY <2>1, <2>4, <3>2
      <4>2. sinceRotated <= b(d).sinceRotated + b(d).age
        BY <2>2, <3>2 DEF KeyOK
      <4>3. sinceRotated <= Grace
        BY <2>1, <4>1, <4>2
      <4> QED
        BY <2>4, <4>3 DEF Verified
    <3> QED
      BY <2>1, <2>2, <3>1, <3>2 DEF KeyOK
  <2> QED
    BY <2>1, <2>3, <2>4
<1> QED
  BY <1>1, <1>2, KeyInit, HitlInvariant, TypeCorrect, PTL DEF Spec

-----------------------------------------------------------------------------
(* One prompt for each escalation.                                         *)

\* The node is about to prompt for d: it has found its own INSERT to be the one
\* that made the row.
Prompting(d) ==
  /\ node.at \in {"audit", "sign", "post"} \/ (node.at = "select" /\ node.inserted)
  /\ node.decision = d

\* Whatever was prompted for has a row, which no later INSERT makes anew; what is
\* about to be prompted for has not been.
OnceInv ==
  \A d \in Decisions :
    /\ prompts[d] = 0 \/ (prompts[d] = 1 /\ status[d] # "none" /\ ~Prompting(d))
    /\ Prompting(d) => status[d] # "none"

LEMMA OnceInit == Init => OnceInv
BY DEF Init, OnceInv, Prompting, NodeIdle

LEMMA OnceNext ==
  ASSUME HitlInv, OnceInv, [Next]_vars
  PROVE  OnceInv'
<1>1. /\ node \in NodeStates /\ status \in [Decisions -> Statuses] /\ prompts \in [Decisions -> 0..2]
      /\ actor \in [Actors -> ActorStates]
      /\ node.at \notin {"idle", "reap"} => node.decision \in Decisions
  BY DEF HitlInv, TypeOK, NodeInv
<1> SUFFICES ASSUME NEW d \in Decisions
             PROVE  /\ prompts'[d] = 0 \/ (prompts'[d] = 1 /\ status'[d] # "none" /\ ~Prompting(d)')
                    /\ Prompting(d)' => status'[d] # "none"
  BY DEF OnceInv
<1>2. /\ prompts[d] = 0 \/ (prompts[d] = 1 /\ status[d] # "none" /\ ~Prompting(d))
      /\ Prompting(d) => status[d] # "none"
  BY DEF OnceInv
<1>3. ASSUME prompts' = prompts, status[d] # "none" => status'[d] # "none",
             Prompting(d)' => Prompting(d)
      PROVE  /\ prompts'[d] = 0 \/ (prompts'[d] = 1 /\ status'[d] # "none" /\ ~Prompting(d)')
             /\ Prompting(d)' => status'[d] # "none"
  BY <1>2, <1>3
<1>4. CASE HitlInsert
  <2>1. /\ node'.at = "select" /\ node'.decision = node.decision
        /\ node'.inserted = (status[node.decision] = "none")
    BY <1>1, <1>4 DEF HitlInsert, NodeStates
  <2>2. prompts' = prompts
    BY <1>4 DEF HitlInsert, slackVars
  <2>3. status'[d] = IF d = node.decision /\ status[d] = "none" THEN "pending" ELSE status[d]
    BY <1>1, <1>4 DEF HitlInsert
  <2>4. Prompting(d)' => d = node.decision /\ status[d] = "none"
    BY <2>1 DEF Prompting
  <2> QED
    BY <1>2, <2>2, <2>3, <2>4
<1>5. CASE HitlSelect
  <2>1. /\ node'.at = (IF node.inserted THEN "audit" ELSE "return")
        /\ node'.decision = node.decision /\ node.at = "select"
    BY <1>1, <1>5 DEF HitlSelect, NodeStates
  <2>2. prompts' = prompts /\ status' = status
    BY <1>5 DEF HitlSelect, queueVars, slackVars, rowVars
  <2>3. Prompting(d)' => Prompting(d)
    BY <2>1 DEF Prompting
  <2> QED
    BY <1>3, <2>2, <2>3
<1>6. CASE HitlNotify
  <2>1. node.at = "post" /\ node'.at \in {"return", "failed"} /\ status' = status
    BY <1>1, <1>6 DEF HitlNotify, NodeStates, queueVars, rowVars
  <2>2. ~Prompting(d)'
    BY <2>1 DEF Prompting
  <2>3. \/ prompts' = prompts
        \/ prompts' = [prompts EXCEPT ![node.decision] = IF @ < 2 THEN @ + 1 ELSE @]
    BY <1>6 DEF HitlNotify
  <2>4. CASE prompts' = prompts
    BY <1>2, <2>1, <2>2, <2>4
  <2>5. CASE prompts' = [prompts EXCEPT ![node.decision] = IF @ < 2 THEN @ + 1 ELSE @]
    <3>1. CASE d = node.decision
      <4>1. Prompting(d)
        BY <2>1, <3>1 DEF Prompting
      <4>2. prompts[d] = 0 /\ status[d] # "none"
        BY <1>2, <4>1
      <4>3. prompts'[d] = 1
        BY <1>1, <2>5, <3>1, <4>2
      <4> QED
        BY <2>1, <2>2, <4>2, <4>3
    <3>2. CASE d # node.decision
      <4>1. prompts'[d] = prompts[d]
        BY <1>1, <2>5, <3>2
      <4> QED
        BY <1>2, <2>1, <2>2, <4>1
    <3> QED
      BY <3>1, <3>2
  <2> QED
    BY <2>3, <2>4, <2>5
<1>9. CASE HitlAudit \/ HitlSign \/ HitlNotifyFailed
  <2>1. prompts' = prompts /\ status' = status
    BY <1>9 DEF HitlAudit, HitlSign, HitlNotifyFailed, queueVars, slackVars, rowVars
  <2>2. /\ node'.decision = node.decision
        /\ \/ node.at \in {"audit", "sign"}
           \/ node'.at = "return"
    BY <1>1, <1>9 DEF HitlAudit, HitlSign, HitlNotifyFailed, NodeStates
  <2>3. node'.at # "select"
    BY <1>1, <1>9 DEF HitlAudit, HitlSign, HitlNotifyFailed, NodeStates
  <2>4. Prompting(d)' => Prompting(d)
    BY <2>2, <2>3 DEF Prompting
  <2> QED
    BY <1>3, <2>1, <2>4
<1>7. CASE (\E e \in Decisions : HitlEnter(e)) \/ HitlReturn \/ Reap \/ Crash
  <2>1. prompts' = prompts /\ status' = status
    BY <1>7 DEF HitlEnter, HitlReturn, Reap, ReapStart, ReapOne, Crash, queueVars, slackVars, rowVars
  <2>2. node'.at \in {"idle", "reap", "insert"}
    <3>1. CASE ReapOne
      <4>1. node' = NodeIdle \/ \E S : node' = [node EXCEPT !.overdue = S]
        BY <3>1 DEF ReapOne
      <4>2. node.at = "reap"
        BY <3>1 DEF ReapOne
      <4> QED
        BY <1>1, <4>1, <4>2 DEF NodeIdle, NodeStates
    <3>2. CASE ~ReapOne
      <4>1. CASE \E e \in Decisions : HitlEnter(e)
        <5>1. PICK e \in Decisions : node' = [NodeIdle EXCEPT !.at = "insert", !.decision = e]
          BY <4>1 DEF HitlEnter
        <5> QED
          BY <5>1 DEF NodeIdle
      <4>2. CASE HitlReturn \/ Crash
        <5>1. node' = NodeIdle
          BY <4>2 DEF HitlReturn, Crash
        <5> QED
          BY <5>1 DEF NodeIdle
      <4>3. CASE ReapStart
        <5>1. \E S : node' = [NodeIdle EXCEPT !.at = "reap", !.overdue = S]
          BY <4>3 DEF ReapStart
        <5> QED
          BY <5>1 DEF NodeIdle
      <4> QED
        BY <1>7, <3>2, <4>1, <4>2, <4>3 DEF Reap
    <3> QED
      BY <3>1, <3>2
  <2>3. ~Prompting(d)'
    BY <2>2 DEF Prompting
  <2> QED
    BY <1>3, <2>1, <2>3
<1>8. CASE \/ \E e \in Decisions, answer \in Answers : CliAnswer(e, answer) \/ SlackClick(e, answer)
           \/ \E a \in Actors : Answering(a) \/ ActorCrash(a)
           \/ RotateServer \/ RotateSigner \/ Tick \/ UNCHANGED vars
  <2>1. prompts' = prompts /\ node' = node
    BY <1>8 DEF CliAnswer, SlackClick, Answering, ApproveInsert, Update, AuditAndReply, ActorCrash,
                RotateServer, RotateSigner, Tick, vars, queueVars, slackVars
  <2>2. Prompting(d)' => Prompting(d)
    BY <2>1 DEF Prompting
  <2>3. status[d] # "none" => status'[d] # "none"
    <3>1. CASE \E a \in Actors : ApproveInsert(a)
      <4>1. PICK a \in Actors : ApproveInsert(a)
        BY <3>1
      <4> QED
        BY <1>1, <4>1 DEF ApproveInsert, rowVars
    <3>2. CASE \E a \in Actors : Update(a)
      <4>1. PICK a \in Actors : Update(a)
        BY <3>2
      <4>2. actor[a].answer # "none"
        BY <1>1 DEF ActorStates, Answers
      <4> QED
        BY <1>1, <4>1, <4>2 DEF Update
    <3>3. CASE ~(\E a \in Actors : ApproveInsert(a) \/ Update(a))
      <4>1. status' = status
        BY <1>8, <3>3 DEF CliAnswer, SlackClick, Answering, AuditAndReply, ActorCrash,
                          RotateServer, RotateSigner, Tick, vars, queueVars, rowVars
      <4> QED
        BY <4>1
    <3> QED
      BY <3>1, <3>2, <3>3
  <2> QED
    BY <1>3, <2>1, <2>2, <2>3
<1> QED
  BY <1>4, <1>5, <1>6, <1>7, <1>8, <1>9 DEF Next, Hitl, HitlRest

\* However often the hitl node is resumed, an escalation is posted to Slack once:
\* the row its own INSERT made is made by no other (make_hitl).
THEOREM PromptedOnce == Spec => []OnePrompt
<1>1. HitlInv /\ OnceInv /\ [Next]_vars => OnceInv'
  BY OnceNext
<1>2. OnceInv => OnePrompt
  BY DEF OnceInv, OnePrompt
<1> QED
  BY <1>1, <1>2, OnceInit, HitlInvariant, PTL DEF Spec

-----------------------------------------------------------------------------
(* The refinement: every step is a step of Escalation or a stutter.        *)

\* The foreign key: what is in the queue, and what the node works on, is on record.
RecordedInv ==
  /\ \A d \in Decisions : status[d] # "none" => d \in decided
  /\ node.at \notin {"idle", "reap"} => node.decision \in decided

LEMMA RecordedNext ==
  ASSUME HitlInv, RecordedInv, [Next]_vars
  PROVE  RecordedInv' /\ [Promise!Next]_(Promise!vars)
<1> USE DEF RecordedInv
<1>0. TypeOK /\ ActorInv /\ NodeInv
  BY DEF HitlInv
<1>1. ASSUME NEW d \in Decisions, HitlEnter(d)
      PROVE  RecordedInv' /\ [Promise!Next]_(Promise!vars)
  <2>1. decided' = decided \cup {d} /\ status' = status /\ released' = released
    BY <1>1 DEF HitlEnter, rowVars
  <2>2. node' = [NodeIdle EXCEPT !.at = "insert", !.decision = d]
    BY <1>1 DEF HitlEnter
  <2>3. RecordedInv'
    BY <2>1, <2>2 DEF NodeIdle
  <2>4. Promise!Record(d)
    BY <2>1 DEF Promise!Record
  <2> QED
    BY <2>3, <2>4 DEF Promise!Next
<1>2. CASE HitlInsert
  <2> DEFINE d == node.decision
  <2>1. /\ d \in Decisions /\ d \in decided /\ decided' = decided /\ released' = released
        /\ status' = [status EXCEPT ![d] = IF @ = "none" THEN "pending" ELSE @]
        /\ node'.decision = d
    BY <1>0, <1>2 DEF HitlInsert, NodeInv, TypeOK, NodeStates
  <2>2. RecordedInv'
    BY <1>0, <2>1 DEF TypeOK
  <2>3. CASE status[d] = "none"
    <3>1. Promise!Ask(d)
      BY <2>1, <2>3 DEF Promise!Ask
    <3> QED
      BY <2>1, <2>2, <3>1 DEF Promise!Next
  <2>4. CASE status[d] # "none"
    BY <1>0, <2>1, <2>2, <2>4 DEF TypeOK, Promise!vars
  <2> QED
    BY <2>3, <2>4
<1>3. CASE HitlReturn
  <2> DEFINE d == node.decision
  <2>1. /\ d \in Decisions /\ d \in decided /\ decided' = decided /\ status' = status
        /\ node' = NodeIdle
        /\ released' = IF node.seen = "approved" THEN released \cup {d} ELSE released
    BY <1>0, <1>3 DEF HitlReturn, NodeInv, queueVars, rowVars
  <2>2. RecordedInv'
    BY <2>1 DEF NodeIdle
  <2>3. CASE node.seen = "approved"
    <3>1. status[d] = "approved"
      BY <1>0, <1>3, <2>3 DEF HitlReturn, NodeInv
    <3>2. Promise!Release(d)
      BY <2>1, <2>3, <3>1 DEF Promise!Release
    <3> QED
      BY <2>1, <2>2, <3>2 DEF Promise!Next
  <2>4. CASE node.seen # "approved"
    BY <2>1, <2>2, <2>4 DEF Promise!vars
  <2> QED
    BY <2>3, <2>4
<1>4. ASSUME NEW a \in Actors, ApproveInsert(a)
      PROVE  RecordedInv' /\ [Promise!Next]_(Promise!vars)
  <2> DEFINE d == actor[a].decision
  <2>1. d \in Decisions /\ decided' = decided /\ released' = released /\ node' = node
    BY <1>0, <1>4 DEF ApproveInsert, ActorInv, ActorOK
  <2>2. CASE d \in decided /\ status[d] = "none"
    <3>1. status' = [status EXCEPT ![d] = "approved"]
      BY <1>4, <2>2 DEF ApproveInsert
    <3>2. RecordedInv'
      BY <1>0, <2>1, <2>2, <3>1 DEF TypeOK
    <3>3. Promise!Approve(d)
      BY <2>1, <2>2, <3>1 DEF Promise!Approve
    <3> QED
      BY <2>1, <3>2, <3>3 DEF Promise!Next
  <2>3. CASE d \notin decided \/ status[d] # "none"
    <3>1. status' = status
      BY <1>0, <1>4, <2>3 DEF ApproveInsert, rowVars, TypeOK
    <3> QED
      BY <2>1, <3>1 DEF Promise!vars
  <2> QED
    BY <2>2, <2>3
<1>5. ASSUME NEW a \in Actors, Update(a)
      PROVE  RecordedInv' /\ [Promise!Next]_(Promise!vars)
  <2> DEFINE d == actor[a].decision
  <2>1. /\ d \in Decisions /\ decided' = decided /\ released' = released /\ node' = node
        /\ status' = [status EXCEPT ![d] = IF @ = "pending" THEN actor[a].answer ELSE @]
    BY <1>0, <1>5 DEF Update, ActorInv, ActorOK
  <2>2. CASE status[d] = "pending"
    <3>1. d \in decided /\ actor[a].answer \in Answers
      BY <1>0, <2>1, <2>2 DEF TypeOK, ActorStates
    <3>2. RecordedInv'
      BY <1>0, <2>1, <3>1 DEF TypeOK
    <3>3. Promise!Approve(d) \/ Promise!Reject(d)
      BY <2>1, <2>2, <3>1 DEF Promise!Approve, Promise!Reject, Answers
    <3> QED
      BY <2>1, <3>2, <3>3 DEF Promise!Next
  <2>3. CASE status[d] # "pending"
    <3>1. status' = status
      BY <1>0, <2>1, <2>3 DEF TypeOK
    <3> QED
      BY <2>1, <3>1 DEF Promise!vars
  <2> QED
    BY <2>2, <2>3
<1>6. ASSUME UNCHANGED <<decided, status, released>>,
             \/ node' = node
             \/ node'.at \in {"idle", "reap"}
             \/ node.at \notin {"idle", "reap"} /\ node'.decision = node.decision
      PROVE  RecordedInv' /\ [Promise!Next]_(Promise!vars)
  BY <1>6 DEF Promise!vars
<1>7. CASE HitlSelect \/ HitlAudit \/ HitlSign \/ HitlNotify \/ HitlNotifyFailed
  <2> USE DEF HitlSelect, HitlAudit, HitlSign, HitlNotify, HitlNotifyFailed
  <2>1. node \in NodeStates
    BY <1>0 DEF TypeOK
  <2>2. UNCHANGED <<decided, status, released>>
    BY <1>7 DEF queueVars, rowVars
  <2>3. node.at \notin {"idle", "reap"} /\ node'.decision = node.decision
    BY <1>7, <2>1 DEF NodeStates
  <2> QED
    BY <1>6, <2>2, <2>3
<1>8. CASE Reap \/ Crash
  <2>1. node \in NodeStates
    BY <1>0 DEF TypeOK
  <2>2. UNCHANGED <<decided, status, released>>
    BY <1>8 DEF Reap, ReapStart, ReapOne, Crash, queueVars, rowVars
  <2>3. CASE ReapStart
    <3> DEFINE due == {d \in Decisions : status[d] = "pending" /\ Overdue(d)}
    <3>1. node' = [NodeIdle EXCEPT !.at = "reap", !.overdue = due]
      BY <2>3 DEF ReapStart
    <3> HIDE DEF due
    <3>2. node'.at = "reap"
      BY <3>1 DEF NodeIdle
    <3> QED
      BY <1>6, <2>2, <3>2
  <2>4. CASE Crash
    <3>1. node'.at = "idle"
      BY <2>4 DEF Crash, NodeIdle
    <3> QED
      BY <1>6, <2>2, <3>1
  <2>5. CASE ReapOne
    <3>1. PICK d \in node.overdue :
            node' = IF node.overdue = {d} THEN NodeIdle ELSE [node EXCEPT !.overdue = @ \ {d}]
      BY <2>5 DEF ReapOne
    <3>2. node'.at \in {"idle", "reap"}
      BY <2>1, <2>5, <3>1 DEF ReapOne, NodeIdle, NodeStates
    <3> QED
      BY <1>6, <2>2, <3>2
  <2> QED
    BY <1>8, <2>3, <2>4, <2>5 DEF Reap
<1>9. CASE \/ \E d \in Decisions, answer \in Answers : CliAnswer(d, answer) \/ SlackClick(d, answer)
           \/ \E a \in Actors : AuditAndReply(a) \/ ActorCrash(a)
           \/ RotateServer \/ RotateSigner \/ Tick \/ UNCHANGED vars
  BY <1>6, <1>9 DEF CliAnswer, SlackClick, AuditAndReply, ActorCrash, RotateServer, RotateSigner,
     Tick, vars, queueVars, rowVars
<1> QED
  BY <1>1, <1>2, <1>3, <1>4, <1>5, <1>7, <1>8, <1>9 DEF Next, Hitl, HitlRest, Answering

\* The gate implements its promise: however the node, the reaper, both answers and
\* their crashes interleave, an escalation is recorded, asked, answered once and
\* released only while approved (make_hitl, mark_approved, mark_rejected).
THEOREM ImplementsGate == Spec => ImplementsEscalation
<1>1. Init => Promise!Init /\ RecordedInv
  BY DEF Init, Promise!Init, RecordedInv, NodeIdle
<1>2. HitlInv /\ RecordedInv /\ [Next]_vars => RecordedInv'
  BY RecordedNext
<1>3. HitlInv /\ RecordedInv /\ [Next]_vars => [Promise!Next]_(Promise!vars)
  BY RecordedNext
<1> QED
  BY <1>1, <1>2, <1>3, HitlInvariant, PTL DEF Spec, ImplementsEscalation, Promise!Spec
=============================================================================
