----------------------------- MODULE Heartbeat -----------------------------
(***************************************************************************)
(* The process that runs heartbeats: `firm run` once or in a loop          *)
(* (firm/cli.py), each heartbeat one run of the graph                      *)
(*   monitor, research, pm, risk, (hitl,) execution, reporter              *)
(* (firm/orchestrator/graph.py) on a thread of the checkpointer, paused    *)
(* before hitl.  A thread's checkpoint holds the working state and the     *)
(* node that comes next; a run on a thread that has one goes on from it.   *)
(*                                                                         *)
(* The checkpointer is a library, seen here through what it promises: a    *)
(* running graph's checkpoints reach the database in order but may lag     *)
(* behind the nodes; they have all been written when invoke returns or     *)
(* raises.  The outbox appears as the stages OrderOnce gives an order      *)
(* (Outbox implements it); the queue's statements are those of HitlQueue,  *)
(* one step per node or command.  BUY stands for BUY and SELL, HOLD for    *)
(* HOLD and REFUSE: the graph tells no more apart.  The node "monitor"     *)
(* stands for monitor and research: all their control leaves behind is     *)
(* what pm makes of it.                                                    *)
(***************************************************************************)
EXTENDS Naturals

CONSTANTS
  Clocks,            \* "wall": WallClock, "replay": ReplayClock (FIRM_REPLAY_AT)
  MaxId,             \* bound: decisions that get an id
  MaxSeq,            \* bound: heartbeats of one loop
  MaxNow             \* bound: readings of the wall clock

ASSUME ClocksAssumption == Clocks \subseteq {"wall", "replay"}
ASSUME BoundsAssumption == MaxId \in Nat /\ MaxSeq \in Nat \ {0} /\ MaxNow \in Nat

Ids == 1..MaxId
Actions == {"BUY", "HOLD", "ESCALATE"}
Nodes == {"monitor", "pm", "risk", "hitl", "execution", "reporter"}

\* id 0: a decision nothing is ever keyed by.  checked: evaluate_risk made it.
DecisionRecords == [id: 0..MaxId, action: Actions \cup {"none"}, checked: BOOLEAN]
NoDecision == [id |-> 0, action |-> "none", checked |-> FALSE]

\* WorkingState: the channels that later nodes look at.  decision: pm_decision
\* until the risk gate has run, risk_decision from then on.
WorkingStates == [decision: DecisionRecords, required: BOOLEAN, approved: BOOLEAN]
EmptyState == [decision |-> NoDecision, required |-> FALSE, approved |-> FALSE]

Threads == (0..MaxNow) \X (1..MaxSeq)
NoCheckpoint == [next |-> "none", state |-> EmptyState]

VARIABLES
  clock,      \* which clock the process was given
  now,        \* the clock's reading
  up,         \* whether the process runs
  seq,        \* heartbeats begun by this process
  at,         \* "between" heartbeats, in a node, or inside execution
  state,      \* the working state of the graph that runs
  saved,      \* the checkpoint of each thread
  made,       \* ids given out so far
  decisions,  \* table decisions
  queue,      \* table hitl_queue: status of the row of each id
  stage       \* the order of each id, as in OrderOnce

processVars == <<clock, now, up, seq>>
graphVars == <<at, state, made>>
tableVars == <<decisions, queue, stage>>
vars == <<processVars, graphVars, saved, tableVars>>

Init ==
  /\ clock \in Clocks
  /\ now = 0
  /\ up = FALSE
  /\ seq = 0
  /\ at = "between"
  /\ state = EmptyState
  /\ saved = [t \in Threads |-> NoCheckpoint]
  /\ made = 0
  /\ decisions = {}
  /\ queue = [d \in Ids |-> "none"]
  /\ stage = [d \in Ids |-> "new"]

-----------------------------------------------------------------------------
(* Threads and checkpoints.                                                *)

\* (mutant) one thread for every heartbeat.
OneThread == <<0, 1>>

\* f"{clock.now().isoformat()}-{seq}"
Thread == <<now, seq>>

\* (mutant) a checkpoint in the middle of the execution node.
NodeAsIs(a) == a

\* Inside execution the next node is still execution.
NodeOf(a) == IF a \in {"submit", "confirm"} THEN "execution" ELSE a

Unfinished(checkpoint) == checkpoint.next \notin {"none", "end"}

\* What invoke leaves behind when it returns or raises with node n to come.
Checkpointed(n, s) == saved' = [saved EXCEPT ![Thread] = [next |-> n, state |-> s]]

\* The checkpointer catches up with the node that runs.
Save ==
  /\ at # "between"
  /\ saved[Thread] # [next |-> NodeOf(at), state |-> state]
  /\ Checkpointed(NodeOf(at), state)
  /\ UNCHANGED <<processVars, graphVars, tableVars>>

-----------------------------------------------------------------------------
(* Begin and end of a heartbeat.                                           *)

\* `firm run` starts.  A replay clock stands where it stood.
Boot ==
  /\ ~up
  /\ up' = TRUE
  /\ UNCHANGED <<clock, now, seq, graphVars, saved, tableVars>>

\* The wall clock has moved on when the next heartbeat reads it.
Tock == now' = IF clock = "wall" THEN now + 1 ELSE now

\* (mutant) every heartbeat starts at the entry point.
BeginAfresh ==
  /\ up
  /\ at = "between"
  /\ seq < MaxSeq
  /\ clock = "wall" => now < MaxNow
  /\ Tock
  /\ seq' = seq + 1
  /\ at' = "monitor"
  /\ state' = saved[Thread'].state
  /\ UNCHANGED <<clock, up, made, saved, tableVars>>

\* Resume an unfinished thread, or enter the graph at its entry point with
\* whatever the thread's channels hold.
BeginHeartbeat ==
  /\ up
  /\ at = "between"
  /\ seq < MaxSeq
  /\ clock = "wall" => now < MaxNow
  /\ Tock
  /\ seq' = seq + 1
  /\ LET checkpoint == saved[Thread'] IN
       /\ at' = IF Unfinished(checkpoint) THEN checkpoint.next ELSE "monitor"
       /\ state' = checkpoint.state
  /\ UNCHANGED <<clock, up, made, saved, tableVars>>

\* The process is gone, and what it counted with it.
Gone ==
  /\ up' = FALSE
  /\ seq' = 0

\* invoke is over.  A process that runs once, that was told to stop or whose
\* loop gives up (HeartbeatLoop says when) ends; any other loop goes on.
HeartbeatOver ==
  /\ Gone \/ UNCHANGED <<up, seq>>
  /\ at' = "between"
  /\ state' = EmptyState
  /\ UNCHANGED <<clock, now>>

NodeRaises ==
  /\ at # "between"
  /\ Checkpointed(NodeOf(at), state)
  /\ HeartbeatOver
  /\ UNCHANGED <<made, tableVars>>

\* A signal between heartbeats.
Stop ==
  /\ up
  /\ at = "between"
  /\ Gone
  /\ UNCHANGED <<clock, now, graphVars, saved, tableVars>>

\* The process dies; what was not checkpointed is lost.
Crash ==
  /\ at # "between"
  /\ Gone
  /\ at' = "between"
  /\ state' = EmptyState
  /\ UNCHANGED <<clock, now, made, saved, tableVars>>

-----------------------------------------------------------------------------
(* The nodes.                                                              *)

MonitorResearch ==
  /\ at = "monitor"
  /\ at' = "pm"
  /\ UNCHANGED <<processVars, state, made, saved, tableVars>>

\* The vote's outcome, or research's own refusal or escalation passed on.  A
\* proposed trade gets its id from the risk gate, the others keep theirs.
Pm ==
  /\ at = "pm"
  /\ \E pm \in {[id |-> 0, action |-> "HOLD", checked |-> FALSE],
               [id |-> 0, action |-> "BUY", checked |-> FALSE],
               [id |-> made + 1, action |-> "ESCALATE", checked |-> FALSE]} :
       /\ pm.id <= MaxId
       /\ state' = [state EXCEPT !.decision = pm]
       /\ made' = IF pm.id > made THEN pm.id ELSE made
  /\ at' = "risk"
  /\ UNCHANGED <<processVars, saved, tableVars>>

\* What evaluate_risk makes of a proposed trade: it refuses it, or passes or
\* escalates it under an id of its own.
RiskOutcomes ==
  {[id |-> 0, action |-> "HOLD", checked |-> TRUE],
   [id |-> made + 1, action |-> "BUY", checked |-> TRUE],
   [id |-> made + 1, action |-> "ESCALATE", checked |-> TRUE]}

\* (mutant) an approval from an earlier run of the thread opens the gate.
RouteByApproval(s) ==
  IF s.decision.action = "ESCALATE" /\ ~s.approved THEN "hitl" ELSE "execution"

RouteAfterRisk(s) == IF s.decision.action = "ESCALATE" THEN "hitl" ELSE "execution"

\* risk_node: a trade is checked; anything else goes on as it is.  Before hitl
\* the graph is interrupted and invoke returns.
Risk ==
  /\ at = "risk"
  /\ \E risk \in IF state.decision.action = "BUY" THEN RiskOutcomes ELSE {state.decision} :
       LET s == [state EXCEPT !.decision = risk] IN
       /\ risk.id <= MaxId
       /\ made' = IF risk.id > made THEN risk.id ELSE made
       /\ IF RouteAfterRisk(s) = "hitl"
            THEN Checkpointed("hitl", s) /\ HeartbeatOver
            ELSE at' = "execution" /\ state' = s /\ UNCHANGED <<processVars, saved>>
  /\ UNCHANGED tableVars

\* (mutant) the answer in the working state is kept.
HitlKeepsAnswer ==
  LET d == state.decision.id IN
  /\ at = "hitl"
  /\ decisions' = decisions \cup {state.decision}
  /\ queue' = [queue EXCEPT ![d] = IF @ = "none" THEN "pending" ELSE @]
  /\ state' = [state EXCEPT !.required = TRUE, !.approved = @ \/ queue[d] = "approved"]
  /\ at' = "execution"
  /\ UNCHANGED <<processVars, made, saved, stage>>

\* hitl, when a paused graph is resumed: the row, if there is none, and then
\* its status.
Hitl ==
  LET d == state.decision.id IN
  /\ at = "hitl"
  /\ decisions' = decisions \cup {state.decision}
  /\ queue' = [queue EXCEPT ![d] = IF @ = "none" THEN "pending" ELSE @]
  /\ state' = [state EXCEPT !.required = TRUE, !.approved = (queue[d] = "approved")]
  /\ at' = "execution"
  /\ UNCHANGED <<processVars, made, saved, stage>>

\* An approved escalation, or a trade that no human has to approve.
Executable(s) ==
  \/ s.decision.action = "ESCALATE" /\ s.approved
  \/ s.decision.action = "BUY" /\ (s.required => s.approved)

\* The decision and the outbox row; nothing to do for a confirmed one.
Execute ==
  /\ at = "execution"
  /\ IF Executable(state)
       THEN LET d == state.decision.id IN
            /\ decisions' = decisions \cup {state.decision}
            /\ stage' = [stage EXCEPT ![d] = IF @ = "new" THEN "intended" ELSE @]
            /\ at' = IF stage[d] = "acknowledged" THEN "reporter" ELSE "submit"
       ELSE at' = "reporter" /\ UNCHANGED <<decisions, stage>>
  /\ UNCHANGED <<processVars, state, made, saved, queue>>

\* The broker fills the order or has filled it, and answers or not.
Submit ==
  /\ at = "submit"
  /\ \/ /\ stage' = [stage EXCEPT ![state.decision.id] = "filled"]
        /\ at' \in {"confirm", "reporter"}
     \/ at' = "reporter" /\ UNCHANGED stage
  /\ UNCHANGED <<processVars, state, made, saved, decisions, queue>>

Confirm ==
  /\ at = "confirm"
  /\ stage' = [stage EXCEPT ![state.decision.id] = "acknowledged"]
  /\ at' = "reporter"
  /\ UNCHANGED <<processVars, state, made, saved, decisions, queue>>

\* Persist the decisions; the graph ends and invoke returns.
Reporter ==
  /\ at = "reporter"
  /\ decisions' = decisions \cup {d \in {state.decision} : d.id # 0}
  /\ Checkpointed("end", state)
  /\ HeartbeatOver
  /\ UNCHANGED <<made, queue, stage>>

-----------------------------------------------------------------------------
(* The operator: firm ack, firm reject, on an escalation in the tables.    *)

Escalated(d) == \E r \in decisions : r.id = d /\ r.action = "ESCALATE"

Ack(d) ==
  /\ Escalated(d)
  /\ queue[d] \in {"none", "pending"}
  /\ queue' = [queue EXCEPT ![d] = "approved"]
  /\ UNCHANGED <<processVars, graphVars, saved, decisions, stage>>

Reject(d) ==
  /\ Escalated(d)
  /\ queue[d] = "pending"
  /\ queue' = [queue EXCEPT ![d] = "rejected"]
  /\ UNCHANGED <<processVars, graphVars, saved, decisions, stage>>

-----------------------------------------------------------------------------

Graph ==
  \/ MonitorResearch \/ Pm \/ Risk \/ Hitl \/ Execute \/ Submit \/ Confirm \/ Reporter

Next ==
  \/ Boot
  \/ BeginHeartbeat
  \/ Graph
  \/ Save
  \/ NodeRaises
  \/ Stop
  \/ Crash
  \/ \E d \in Ids : Ack(d) \/ Reject(d)

Spec == Init /\ [][Next]_vars
-----------------------------------------------------------------------------
(* Properties.                                                             *)

\* The sets the process, its checkpoints and the tables range over.
TypeOK ==
  /\ clock \in Clocks
  /\ now \in 0..MaxNow
  /\ up \in BOOLEAN
  /\ seq \in 0..MaxSeq
  /\ at \in Nodes \cup {"between", "submit", "confirm"}
  /\ state \in WorkingStates
  /\ saved \in [Threads -> [next: Nodes \cup {"none", "end"}, state: WorkingStates]]
  /\ made \in 0..MaxId
  /\ decisions \subseteq DecisionRecords
  /\ queue \in [Ids -> {"none", "pending", "approved", "rejected"}]
  /\ stage \in [Ids -> {"new", "intended", "filled", "acknowledged"}]

\* Whatever reaches the outbox is a trade that passed the risk gate, or an
\* escalation a human approved and whose approval stands - also after restarts,
\* resumed and repeated nodes, lagging checkpoints and reused threads.
OrdersCheckedOrApproved ==
  \A r \in decisions : r.id # 0 /\ stage[r.id] # "new" =>
    \/ r.action = "BUY" /\ r.checked
    \/ r.action = "ESCALATE" /\ queue[r.id] = "approved"

\* The checkpoint of a graph that waits before hitl is not overwritten before
\* the escalation it holds is in the queue: nothing waits unseen and is lost.
EscalationReachesQueue ==
  [][\A t \in Threads :
       saved[t].next = "hitl" /\ saved'[t] # saved[t]
         => queue'[saved[t].state.decision.id] # "none"]_vars

\* With the wall clock, a trade the risk gate passed has been handed to the
\* outbox when its heartbeat ends: no leftover of an earlier heartbeat's gate
\* holds it back.
PassedTradeIsPlaced ==
  [][clock = "wall" /\ at = "reporter" /\ Reporter /\ state.decision.action = "BUY"
       => stage[state.decision.id] # "new"]_vars

\* What the architecture document says of a graph interrupted before hitl: the
\* next heartbeat resumes it from its checkpoint rather than start another.
InterruptIsResumed ==
  [][at = "between" /\ at' # "between" /\ (\E t \in Threads : saved[t].next = "hitl")
       => Unfinished(saved[Thread'])]_vars
=============================================================================
