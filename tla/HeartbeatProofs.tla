-------------------------- MODULE HeartbeatProofs --------------------------
(***************************************************************************)
(* Heartbeats for any number of decisions, heartbeats and readings of the  *)
(* clock: whatever reaches the outbox was checked or approved, no waiting  *)
(* escalation is overwritten, and with the wall clock no trade that passed *)
(* the risk gate is held back.  At the end, the loop that begins them, for *)
(* any kinds of failure, threshold and interval: its breaker is exact, and *)
(* a stop is prompt.                                                       *)
(***************************************************************************)
EXTENDS Heartbeat, HeartbeatLoop, TLAPS

-----------------------------------------------------------------------------
(* The inductive invariant.                                                *)

\* The nodes past the gates, and the steps inside execution.
PastGates == {"execution", "submit", "confirm", "reporter", "end"}

\* What a working state says when node n comes next and the queue is q: before
\* hitl there is an escalation; past the gates a trade has been checked, and an
\* approval it remembers stands in the queue.
StateFits(n, s, q) ==
  LET d == s.decision IN
  /\ n = "hitl" => d.action = "ESCALATE" /\ d.id # 0
  /\ n = "risk" /\ d.action = "ESCALATE" => d.id # 0
  /\ n \in PastGates /\ d.action = "BUY" => d.checked /\ d.id # 0
  /\ n \in PastGates /\ d.action = "ESCALATE" =>
       d.id # 0 /\ (s.approved => q[d.id] = "approved")

FitInv ==
  /\ StateFits(at, state, queue)
  /\ \A t \in Threads : StateFits(saved[t].next, saved[t].state, queue)

\* The decisions that are anywhere: under one id there is one of them, and no
\* id is given out twice.
Known == decisions \cup {state.decision} \cup {saved[t].state.decision : t \in Threads}

UniqueIds(K, m) ==
  /\ \A r \in K : r.id <= m
  /\ \A r, s \in K : r.id = s.id /\ r.id # 0 => r = s

IdInv == UniqueIds(Known, made)

\* Where an order is on its way its decision is in the table, and was executable.
Ordered(d) ==
  \E r \in decisions :
    /\ r.id = d
    /\ \/ r.action = "BUY" /\ r.checked
       \/ r.action = "ESCALATE" /\ queue[d] = "approved"

OrderInv ==
  /\ \A d \in Ids : stage[d] # "new" => Ordered(d)
  /\ at \in {"submit", "confirm"} => Executable(state) /\ stage[state.decision.id] # "new"

\* The graph that runs on a thread left waiting before hitl is the one that
\* waited, until its escalation is in the queue.
WaitInv ==
  at # "between" /\ saved[Thread].next = "hitl" =>
    \/ at = "hitl" /\ state = saved[Thread].state
    \/ queue[saved[Thread].state.decision.id] # "none"

\* A thread that is yet to come under the wall clock has no checkpoint.
FreshInv ==
  clock = "wall" =>
    /\ \A t \in Threads : t[1] > now => saved[t] = NoCheckpoint
    /\ at # "between" => at # "hitl" /\ ~state.required
    /\ at = "reporter" /\ state.decision.action = "BUY" => stage[state.decision.id] # "new"

\* A graph runs on a thread, of a heartbeat that has begun.
RunInv == at # "between" => seq # 0

HeartbeatInv == TypeOK /\ RunInv /\ FitInv /\ IdInv /\ OrderInv /\ WaitInv /\ FreshInv

-----------------------------------------------------------------------------
(* What the steps have in common.                                          *)

LEMMA Typed ==
  /\ NoDecision \in DecisionRecords /\ EmptyState \in WorkingStates
  /\ NoCheckpoint \in [next: Nodes \cup {"none", "end"}, state: WorkingStates]
BY BoundsAssumption DEF NoDecision, DecisionRecords, EmptyState, WorkingStates, NoCheckpoint

LEMMA DecisionTyped ==
  ASSUME NEW i \in 0..MaxId, NEW a \in Actions, NEW c \in BOOLEAN
  PROVE  [id |-> i, action |-> a, checked |-> c] \in DecisionRecords
BY DEF DecisionRecords

\* What the committee and the risk gate may decide.
LEMMA NewDecisionTyped ==
  ASSUME made \in 0..MaxId, NEW a \in Actions, NEW c \in BOOLEAN, NEW r,
         r \in {[id |-> 0, action |-> a, checked |-> c], [id |-> made + 1, action |-> a, checked |-> c]},
         r.id <= MaxId
  PROVE  r \in DecisionRecords
<1>1. CASE r = [id |-> 0, action |-> a, checked |-> c]
  <2>1. 0 \in 0..MaxId
    BY BoundsAssumption
  <2>2. QED
    BY <1>1, <2>1, DecisionTyped
<1>2. CASE r = [id |-> made + 1, action |-> a, checked |-> c]
  <2>1. r.id = made + 1
    BY <1>2
  <2>2. made + 1 \in 0..MaxId
    BY <2>1, BoundsAssumption
  <2>3. QED
    BY <1>2, <2>2, DecisionTyped
<1>3. QED
  BY <1>1, <1>2

LEMMA ThreadOK ==
  ASSUME TypeOK, RunInv, at # "between"
  PROVE  Thread \in Threads
BY BoundsAssumption DEF TypeOK, RunInv, Thread, Threads

\* What ends a process, and what ends an invocation, in the types.
LEMMA GoneTyped ==
  ASSUME Gone
  PROVE  up' \in BOOLEAN /\ seq' \in 0..MaxSeq
<1>1. up' \in BOOLEAN
  BY DEF Gone
<1>2. seq' \in 0..MaxSeq
  BY BoundsAssumption DEF Gone
<1>3. QED
  BY <1>1, <1>2

LEMMA OverTyped ==
  ASSUME TypeOK, HeartbeatOver
  PROVE  /\ up' \in BOOLEAN /\ seq' \in 0..MaxSeq
         /\ at' = "between" /\ state' = EmptyState /\ state' \in WorkingStates
         /\ clock' = clock /\ now' = now
<1>1. up' \in BOOLEAN /\ seq' \in 0..MaxSeq
  BY GoneTyped DEF TypeOK, HeartbeatOver
<1>2. QED
  BY <1>1, Typed DEF HeartbeatOver

LEMMA InitInv == Init => HeartbeatInv
<1> SUFFICES ASSUME Init PROVE HeartbeatInv
  OBVIOUS
<1> USE DEF Init
<1>1. TypeOK
  <2>1. up \in BOOLEAN
    OBVIOUS
  <2>2. clock \in Clocks /\ now \in 0..MaxNow /\ seq \in 0..MaxSeq /\ made \in 0..MaxId
    BY BoundsAssumption
  <2>3. QED
    BY <2>1, <2>2, Typed DEF TypeOK
<1>2. RunInv /\ WaitInv
  BY DEF RunInv, WaitInv
<1>3. FitInv
  BY DEF FitInv, StateFits, PastGates, NoCheckpoint, EmptyState, NoDecision
<1>4. IdInv
  BY DEF IdInv, UniqueIds, Known, NoCheckpoint, EmptyState, NoDecision
<1>5. OrderInv /\ FreshInv
  BY DEF OrderInv, FreshInv
<1>6. QED
  BY <1>1, <1>2, <1>3, <1>4, <1>5 DEF HeartbeatInv

LEMMA TypeNext == TypeOK /\ RunInv /\ [Next]_vars => TypeOK' /\ RunInv'
<1> SUFFICES ASSUME TypeOK, RunInv, [Next]_vars PROVE TypeOK' /\ RunInv'
  OBVIOUS
<1> USE Typed, BoundsAssumption DEF TypeOK, RunInv, processVars, graphVars, tableVars
<1> DEFINE Checkpoints == [next: Nodes \cup {"none", "end"}, state: WorkingStates]
<1>1. ASSUME NEW n \in Nodes \cup {"none", "end"}, NEW s \in WorkingStates, Checkpointed(n, s)
      PROVE  saved' \in [Threads -> Checkpoints]
  BY <1>1 DEF Checkpointed
<1>2. at # "between" => NodeOf(at) \in Nodes
  BY DEF NodeOf, Nodes
<1>3. CASE Boot
  BY <1>3 DEF Boot
<1>4. CASE BeginHeartbeat
  <2>1. now' \in 0..MaxNow /\ seq' \in 1..MaxSeq
    BY <1>4 DEF BeginHeartbeat, Tock
  <2>2. saved[Thread'] \in Checkpoints
    BY <2>1 DEF Thread, Threads
  <2>3. at' \in Nodes /\ state' \in WorkingStates
    BY <1>4, <2>2 DEF BeginHeartbeat, Unfinished, Nodes
  <2>4. QED
    BY <1>4, <2>1, <2>3 DEF BeginHeartbeat
<1>5. CASE MonitorResearch
  BY <1>5 DEF MonitorResearch, Nodes
<1>6. CASE Pm
  <2>1. PICK pm \in DecisionRecords :
          state' = [state EXCEPT !.decision = pm] /\ made' = IF pm.id > made THEN pm.id ELSE made
    <3> DEFINE risks == {[id |-> 0, action |-> "HOLD", checked |-> FALSE],
                            [id |-> 0, action |-> "BUY", checked |-> FALSE],
                            [id |-> made + 1, action |-> "ESCALATE", checked |-> FALSE]}
    <3>1. PICK pm \in risks :
            /\ pm.id <= MaxId
            /\ state' = [state EXCEPT !.decision = pm]
            /\ made' = IF pm.id > made THEN pm.id ELSE made
      BY <1>6 DEF Pm
    <3>2. pm \in DecisionRecords
      BY <3>1, NewDecisionTyped DEF Actions
    <3>3. QED
      BY <3>1, <3>2
  <2>2. QED
    BY <1>6, <2>1 DEF Pm, WorkingStates, DecisionRecords, Nodes
<1>7. CASE Risk
  <2>1. PICK risk \in IF state.decision.action = "BUY" THEN RiskOutcomes ELSE {state.decision} :
          LET s == [state EXCEPT !.decision = risk] IN
          /\ risk.id <= MaxId
          /\ made' = IF risk.id > made THEN risk.id ELSE made
          /\ IF RouteAfterRisk(s) = "hitl"
               THEN Checkpointed("hitl", s) /\ HeartbeatOver
               ELSE at' = "execution" /\ state' = s /\ UNCHANGED <<processVars, saved>>
    BY <1>7 DEF Risk
  <2> DEFINE s == [state EXCEPT !.decision = risk]
  <2>2. risk \in DecisionRecords
    <3>1. CASE risk \in RiskOutcomes
      BY <2>1, <3>1, NewDecisionTyped DEF RiskOutcomes, Actions
    <3>2. CASE risk = state.decision
      BY <3>2 DEF WorkingStates
    <3>3. QED
      BY <2>1, <3>1, <3>2
  <2>3. s \in WorkingStates /\ made' \in 0..MaxId
    BY <2>1, <2>2 DEF WorkingStates, DecisionRecords
  <2>4. CASE RouteAfterRisk(s) = "hitl"
    <3>1. Checkpointed("hitl", s) /\ HeartbeatOver
      BY <2>1, <2>4
    <3>2. saved' \in [Threads -> Checkpoints]
      BY <3>1, <2>3, <1>1 DEF Nodes
    <3>3. QED
      BY <3>1, <3>2, <2>3, <1>7, OverTyped DEF Risk
  <2>5. CASE RouteAfterRisk(s) # "hitl"
    BY <2>1, <2>3, <2>5, <1>7 DEF Risk, Nodes
  <2>6. QED
    BY <2>4, <2>5
<1>8. CASE Hitl
  <2>1. state.decision \in DecisionRecords /\ state' \in WorkingStates
    BY <1>8 DEF Hitl, WorkingStates
  <2>2. QED
    BY <1>8, <2>1 DEF Hitl, Nodes
<1>9. CASE Execute
  <2>1. state.decision \in DecisionRecords
    BY DEF WorkingStates
  <2>2. QED
    BY <1>9, <2>1 DEF Execute, Nodes
<1>10. CASE Submit
  BY <1>10 DEF Submit, Nodes
<1>11. CASE Confirm
  BY <1>11 DEF Confirm, Nodes
<1>12. CASE Reporter
  <2>1. state.decision \in DecisionRecords
    BY DEF WorkingStates
  <2>2. saved' \in [Threads -> Checkpoints]
    BY <1>1, <1>12 DEF Reporter
  <2>3. QED
    BY <1>12, <2>1, <2>2, OverTyped DEF Reporter
<1>13. CASE Save
  <2>1. saved' \in [Threads -> Checkpoints]
    BY <1>1, <1>2, <1>13 DEF Save
  <2>2. QED
    BY <1>13, <2>1 DEF Save
<1>14. CASE NodeRaises
  <2>1. saved' \in [Threads -> Checkpoints]
    BY <1>1, <1>2, <1>14 DEF NodeRaises
  <2>2. QED
    BY <1>14, <2>1, OverTyped DEF NodeRaises
<1>15. CASE Stop
  BY <1>15, GoneTyped DEF Stop
<1>16. CASE Crash
  BY <1>16, GoneTyped DEF Crash
<1>17. ASSUME NEW d \in Ids, Ack(d) \/ Reject(d)
       PROVE  TypeOK' /\ RunInv'
  BY <1>17 DEF Ack, Reject
<1>18. CASE UNCHANGED vars
  BY <1>18 DEF vars
<1>19. QED
  BY <1>3, <1>4, <1>5, <1>6, <1>7, <1>8, <1>9, <1>10, <1>11, <1>12, <1>13, <1>14, <1>15,
     <1>16, <1>17, <1>18 DEF Next, Graph

\* An answer stands, and a row stays.
LEMMA QueueKeeps ==
  ASSUME TypeOK, [Next]_vars, NEW d \in Ids
  PROVE  /\ queue[d] = "approved" => queue'[d] = "approved"
         /\ queue[d] # "none" => queue'[d] # "none"
<1>1. CASE Hitl
  BY <1>1 DEF Hitl, TypeOK
<1>2. ASSUME NEW e \in Ids, Ack(e) \/ Reject(e)
      PROVE  /\ queue[d] = "approved" => queue'[d] = "approved"
             /\ queue[d] # "none" => queue'[d] # "none"
  BY <1>2 DEF Ack, Reject, TypeOK
<1>3. CASE queue' = queue
  BY <1>3
<1>4. QED
  BY <1>1, <1>2, <1>3 DEF Next, Graph, vars, tableVars, Boot, BeginHeartbeat, MonitorResearch, Pm, Risk,
     Execute, Submit, Confirm, Reporter, Save, NodeRaises, Stop, Crash

-----------------------------------------------------------------------------
(* Working states and checkpoints.                                         *)

LEMMA FitsStay ==
  ASSUME TypeOK, [Next]_vars, NEW n, NEW s \in WorkingStates, StateFits(n, s, queue)
  PROVE  StateFits(n, s, queue')
<1>1. s.decision.id # 0 => s.decision.id \in Ids
  BY DEF WorkingStates, DecisionRecords, Ids
<1>2. QED
  BY <1>1, QueueKeeps DEF StateFits

\* The checkpoints fit when the one that is written does.
LEMMA SavedFits ==
  ASSUME TypeOK, RunInv, FitInv, [Next]_vars, at # "between",
         NEW n, NEW s, Checkpointed(n, s), StateFits(n, s, queue')
  PROVE  \A t \in Threads : StateFits(saved'[t].next, saved'[t].state, queue')
<1> SUFFICES ASSUME NEW t \in Threads
             PROVE  StateFits(saved'[t].next, saved'[t].state, queue')
  OBVIOUS
<1>1. CASE t = Thread
  BY <1>1, ThreadOK DEF Checkpointed, TypeOK
<1>2. CASE t # Thread
  <2>1. saved'[t] = saved[t] /\ saved[t].state \in WorkingStates
    BY <1>2 DEF Checkpointed, TypeOK
  <2>2. StateFits(saved[t].next, saved[t].state, queue')
    BY <2>1, FitsStay DEF FitInv
  <2>3. QED
    BY <2>1, <2>2
<1>3. QED
  BY <1>1, <1>2

LEMMA SameSavedFit ==
  ASSUME TypeOK, FitInv, [Next]_vars, saved' = saved
  PROVE  \A t \in Threads : StateFits(saved'[t].next, saved'[t].state, queue')
<1> SUFFICES ASSUME NEW t \in Threads
             PROVE  StateFits(saved[t].next, saved[t].state, queue')
  OBVIOUS
<1>1. saved[t].state \in WorkingStates
  BY DEF TypeOK
<1>2. QED
  BY <1>1, FitsStay DEF FitInv

LEMMA FitNext == TypeOK /\ RunInv /\ FitInv /\ [Next]_vars => FitInv'
<1> SUFFICES ASSUME TypeOK, RunInv, FitInv, [Next]_vars PROVE FitInv'
  OBVIOUS
<1> DEFINE SavedFit == \A t \in Threads : StateFits(saved'[t].next, saved'[t].state, queue')
<1>1. ASSUME StateFits(at', state', queue'), SavedFit
      PROVE  FitInv'
  BY <1>1 DEF FitInv
<1>2. ASSUME at' = "between" PROVE StateFits(at', state', queue')
  BY <1>2 DEF StateFits, PastGates
<1>3. StateFits(at, state, queue')
  BY FitsStay DEF TypeOK, FitInv
<1>4. StateFits(NodeOf(at), state, queue')
  BY <1>3 DEF NodeOf, StateFits, PastGates
<1>5. CASE BeginHeartbeat
  <2>1. Thread' \in Threads
    BY <1>5, TypeNext, ThreadOK, BoundsAssumption DEF BeginHeartbeat, Tock, TypeOK, RunInv, Thread, Threads
  <2>2. saved' = saved /\ queue' = queue
    BY <1>5 DEF BeginHeartbeat, tableVars
  <2>3. at' = "monitor" \/ (at' = saved[Thread'].next /\ state' = saved[Thread'].state)
    BY <1>5 DEF BeginHeartbeat
  <2>4. StateFits(at', state', queue')
    BY <2>1, <2>2, <2>3 DEF FitInv, StateFits, PastGates
  <2>5. QED
    BY <2>2, <2>4, <1>1, SameSavedFit
<1>6. CASE MonitorResearch
  BY <1>6, <1>1, SameSavedFit DEF MonitorResearch, StateFits, PastGates
<1>7. CASE Pm
  <2>1. at' = "risk" /\ (state'.decision.action = "ESCALATE" => state'.decision.id # 0)
    BY <1>7 DEF Pm, TypeOK, WorkingStates
  <2>2. QED
    BY <2>1, <1>7, <1>1, SameSavedFit DEF Pm, StateFits, PastGates
<1>8. CASE Risk
  <2>1. PICK risk \in IF state.decision.action = "BUY" THEN RiskOutcomes ELSE {state.decision} :
          LET s == [state EXCEPT !.decision = risk] IN
          /\ risk.id <= MaxId
          /\ made' = IF risk.id > made THEN risk.id ELSE made
          /\ IF RouteAfterRisk(s) = "hitl"
               THEN Checkpointed("hitl", s) /\ HeartbeatOver
               ELSE at' = "execution" /\ state' = s /\ UNCHANGED <<processVars, saved>>
    BY <1>8 DEF Risk
  <2> DEFINE s == [state EXCEPT !.decision = risk]
  <2>2. s.decision = risk
    BY DEF TypeOK, WorkingStates
  <2>3. risk.action = "ESCALATE" => risk.id # 0
    BY <2>1, <1>8 DEF RiskOutcomes, TypeOK, FitInv, StateFits, Risk
  <2>4. risk.action = "BUY" => risk.checked /\ risk.id # 0
    BY <2>1 DEF RiskOutcomes, TypeOK
  <2>5. CASE RouteAfterRisk(s) = "hitl"
    <3>1. Checkpointed("hitl", s) /\ HeartbeatOver
      BY <2>1, <2>5
    <3>2. StateFits("hitl", s, queue')
      BY <2>2, <2>3, <2>5 DEF RouteAfterRisk, StateFits, PastGates
    <3>3. SavedFit
      BY <3>1, <3>2, <1>8, SavedFits DEF Risk
    <3>4. QED
      BY <3>1, <3>3, <1>1, <1>2 DEF HeartbeatOver
  <2>6. CASE RouteAfterRisk(s) # "hitl"
    <3>1. at' = "execution" /\ state' = s /\ saved' = saved
      BY <2>1, <2>6
    <3>2. StateFits(at', state', queue')
      BY <3>1, <2>2, <2>4, <2>6 DEF RouteAfterRisk, StateFits, PastGates
    <3>3. QED
      BY <3>1, <3>2, <1>1, SameSavedFit
  <2>7. QED
    BY <2>5, <2>6
<1>9. CASE Hitl
  <2>1. state.decision.action = "ESCALATE" /\ state.decision.id \in Ids
    BY <1>9 DEF Hitl, FitInv, StateFits, TypeOK, WorkingStates, DecisionRecords, Ids
  <2>2. /\ state'.decision = state.decision
        /\ state'.approved <=> queue[state.decision.id] = "approved"
    BY <1>9 DEF Hitl, TypeOK, WorkingStates
  <2>3. queue[state.decision.id] = "approved" => queue'[state.decision.id] = "approved"
    BY <2>1, QueueKeeps
  <2>4. StateFits(at', state', queue')
    <3>1. at' = "execution" /\ state'.decision.action = "ESCALATE" /\ state'.decision.id # 0
      BY <1>9, <2>1, <2>2 DEF Hitl, Ids
    <3>2. state'.approved => queue'[state'.decision.id] = "approved"
      BY <2>2, <2>3
    <3>3. QED
      BY <3>1, <3>2 DEF StateFits, PastGates
  <2>5. QED
    BY <1>9, <2>4, <1>1, SameSavedFit DEF Hitl
<1>10. CASE Execute \/ Submit \/ Confirm
  <2>1. at \in PastGates /\ at' \in PastGates /\ state' = state /\ saved' = saved
    BY <1>10 DEF Execute, Submit, Confirm, PastGates
  <2>2. StateFits(at', state', queue')
    BY <2>1, <1>3 DEF StateFits, PastGates
  <2>3. QED
    BY <2>1, <2>2, <1>1, SameSavedFit
<1>11. CASE Reporter
  <2>1. StateFits("end", state, queue')
    BY <1>3, <1>11 DEF Reporter, StateFits, PastGates
  <2>2. SavedFit
    BY <2>1, <1>11, SavedFits DEF Reporter
  <2>3. QED
    BY <2>2, <1>11, <1>1, <1>2 DEF Reporter, HeartbeatOver
<1>12. CASE Save
  <2>1. SavedFit
    BY <1>4, <1>12, SavedFits DEF Save
  <2>2. QED
    BY <2>1, <1>3, <1>12, <1>1 DEF Save, graphVars
<1>13. CASE NodeRaises
  <2>1. SavedFit
    BY <1>4, <1>13, SavedFits DEF NodeRaises
  <2>2. QED
    BY <2>1, <1>13, <1>1, <1>2 DEF NodeRaises, HeartbeatOver
<1>14. CASE Crash
  BY <1>14, <1>1, <1>2, SameSavedFit DEF Crash
<1>15. CASE Boot \/ Stop \/ (\E d \in Ids : Ack(d) \/ Reject(d)) \/ UNCHANGED vars
  <2>1. at' = at /\ state' = state /\ saved' = saved
    BY <1>15 DEF Boot, Stop, Ack, Reject, vars, graphVars
  <2>2. QED
    BY <2>1, <1>1, <1>3, SameSavedFit
<1>16. QED
  BY <1>5, <1>6, <1>7, <1>8, <1>9, <1>10, <1>11, <1>12, <1>13, <1>14, <1>15 DEF Next, Graph

-----------------------------------------------------------------------------
(* Ids.                                                                    *)

\* One decision more, under no id or under a new one.
LEMMA UniqueAdd ==
  ASSUME TypeOK, IdInv, NEW K, NEW r \in DecisionRecords, NEW m \in Nat,
         K \subseteq Known \cup {NoDecision, r},
         (r.id = 0 /\ m = made) \/ (r.id = made + 1 /\ m = made + 1)
  PROVE  UniqueIds(K, m)
<1>1. NoDecision.id = 0
  BY DEF NoDecision
<1>2. \A k \in Known : k.id <= made /\ made \in Nat /\ k.id \in Nat
  BY BoundsAssumption DEF TypeOK, IdInv, UniqueIds, Known, WorkingStates, DecisionRecords
<1>3. made \in Nat
  BY DEF TypeOK
<1>4. \A k \in K : k.id <= m
  BY <1>1, <1>2, <1>3
<1>5. ASSUME NEW j \in K, NEW k \in K, j.id = k.id, j.id # 0
      PROVE  j = k
  BY <1>1, <1>2, <1>3, <1>5 DEF IdInv, UniqueIds
<1>6. QED
  BY <1>4, <1>5 DEF UniqueIds

LEMMA KnownStays ==
  ASSUME TypeOK, IdInv, made' = made, Known' \subseteq Known \cup {NoDecision}
  PROVE  IdInv'
<1>1. UniqueIds(Known', made)
  BY UniqueAdd, Typed DEF TypeOK, NoDecision
<1>2. QED
  BY <1>1 DEF IdInv

\* What a checkpoint that is written adds to what is known.
LEMMA SavedKnown ==
  ASSUME TypeOK, NEW n, NEW s, Checkpointed(n, s), NEW t \in Threads
  PROVE  saved'[t].state.decision \in Known \cup {s.decision}
BY DEF TypeOK, Checkpointed, Known

LEMMA IdNext == TypeOK /\ RunInv /\ FitInv /\ IdInv /\ [Next]_vars => IdInv'
<1> SUFFICES ASSUME TypeOK, RunInv, FitInv, IdInv, [Next]_vars PROVE IdInv'
  OBVIOUS
<1>1. state.decision \in Known /\ EmptyState.decision = NoDecision
  BY DEF Known, EmptyState
<1>2. CASE BeginHeartbeat
  <2>1. Thread' \in Threads
    BY <1>2, BoundsAssumption DEF BeginHeartbeat, Tock, TypeOK, Thread, Threads
  <2>2. decisions' = decisions /\ made' = made /\ saved' = saved /\ state' = saved[Thread'].state
    BY <1>2 DEF BeginHeartbeat, tableVars
  <2>3. Known' \subseteq Known
    BY <2>1, <2>2 DEF Known
  <2>4. QED
    BY <2>2, <2>3, KnownStays
<1>3. CASE Pm
  <2>1. PICK pm \in {[id |-> 0, action |-> "HOLD", checked |-> FALSE],
                    [id |-> 0, action |-> "BUY", checked |-> FALSE],
                    [id |-> made + 1, action |-> "ESCALATE", checked |-> FALSE]} :
          /\ pm.id <= MaxId
          /\ state' = [state EXCEPT !.decision = pm]
          /\ made' = IF pm.id > made THEN pm.id ELSE made
    BY <1>3 DEF Pm
  <2>2. pm \in DecisionRecords
    BY <2>1, NewDecisionTyped DEF TypeOK, Actions
  <2>3. (pm.id = 0 /\ made' = made) \/ (pm.id = made + 1 /\ made' = made + 1)
    <3>1. made \in Nat
      BY DEF TypeOK
    <3>2. pm.id = 0 \/ pm.id = made + 1
      BY <2>1
    <3>3. QED
      BY <2>1, <3>1, <3>2
  <2>4. state'.decision = pm /\ saved' = saved /\ decisions' = decisions
    BY <2>1, <1>3 DEF Pm, TypeOK, WorkingStates, tableVars
  <2>5. Known' \subseteq Known \cup {pm}
    BY <2>4 DEF Known
  <2>6. UniqueIds(Known', made')
    BY <2>2, <2>3, <2>5, UniqueAdd DEF TypeOK
  <2>7. QED
    BY <2>6 DEF IdInv
<1>4. CASE Risk
  <2>1. PICK risk \in IF state.decision.action = "BUY" THEN RiskOutcomes ELSE {state.decision} :
          LET s == [state EXCEPT !.decision = risk] IN
          /\ risk.id <= MaxId
          /\ made' = IF risk.id > made THEN risk.id ELSE made
          /\ IF RouteAfterRisk(s) = "hitl"
               THEN Checkpointed("hitl", s) /\ HeartbeatOver
               ELSE at' = "execution" /\ state' = s /\ UNCHANGED <<processVars, saved>>
    BY <1>4 DEF Risk
  <2> DEFINE s == [state EXCEPT !.decision = risk]
  <2>2. s.decision = risk /\ decisions' = decisions
    BY <1>4 DEF TypeOK, WorkingStates, Risk, tableVars
  <2>3. Known' \subseteq Known \cup {NoDecision, risk}
    <3>1. CASE Checkpointed("hitl", s) /\ HeartbeatOver
      <4>1. state' = EmptyState
        BY <3>1 DEF HeartbeatOver
      <4>2. \A t \in Threads : saved'[t].state.decision \in Known \cup {risk}
        BY <3>1, <2>2, SavedKnown
      <4>3. QED
        BY <1>1, <2>2, <4>1, <4>2 DEF Known
    <3>2. CASE state' = s /\ saved' = saved
      BY <2>2, <3>2 DEF Known
    <3>3. QED
      BY <2>1, <3>1, <3>2
  <2>4. CASE risk \in RiskOutcomes
    <3>1. risk \in DecisionRecords
      BY <2>1, <2>4, NewDecisionTyped DEF RiskOutcomes, Actions, TypeOK
    <3>2. (risk.id = 0 /\ made' = made) \/ (risk.id = made + 1 /\ made' = made + 1)
      <4>1. made \in Nat
        BY DEF TypeOK
      <4>2. risk.id = 0 \/ risk.id = made + 1
        BY <2>4 DEF RiskOutcomes
      <4>3. QED
        BY <2>1, <4>1, <4>2
    <3>3. UniqueIds(Known', made')
      BY <2>3, <3>1, <3>2, UniqueAdd DEF TypeOK
    <3>4. QED
      BY <3>3 DEF IdInv
  <2>5. CASE risk = state.decision
    <3>1. risk.id <= made /\ made \in Nat /\ risk.id \in Nat
      BY <1>1, <2>5 DEF IdInv, UniqueIds, TypeOK, WorkingStates, DecisionRecords
    <3>2. made' = made
      BY <2>1, <3>1
    <3>3. QED
      BY <1>1, <2>3, <2>5, <3>2, KnownStays
  <2>6. QED
    BY <2>1, <2>4, <2>5
<1>5. CASE Hitl
  <2>1. state'.decision = state.decision /\ saved' = saved /\ made' = made
    BY <1>5 DEF Hitl, TypeOK, WorkingStates
  <2>2. Known' \subseteq Known
    BY <1>5, <2>1 DEF Hitl, Known
  <2>3. QED
    BY <2>1, <2>2, KnownStays
<1>6. CASE Execute \/ Submit \/ Confirm
  <2>1. state' = state /\ saved' = saved /\ made' = made /\ decisions' \subseteq decisions \cup {state.decision}
    BY <1>6 DEF Execute, Submit, Confirm
  <2>2. Known' \subseteq Known
    BY <2>1 DEF Known
  <2>3. QED
    BY <2>1, <2>2, KnownStays
<1>7. CASE Reporter
  <2>1. /\ state' = EmptyState /\ made' = made /\ decisions' \subseteq decisions \cup {state.decision}
        /\ Checkpointed("end", state)
    BY <1>7 DEF Reporter, HeartbeatOver
  <2>2. \A t \in Threads : saved'[t].state.decision \in Known
    BY <1>1, <2>1, SavedKnown
  <2>3. Known' \subseteq Known \cup {NoDecision}
    BY <1>1, <2>1, <2>2 DEF Known
  <2>4. QED
    BY <2>1, <2>3, KnownStays
<1>8. CASE Save \/ NodeRaises
  <2>1. /\ state' \in {state, EmptyState} /\ made' = made /\ decisions' = decisions
        /\ Checkpointed(NodeOf(at), state)
    BY <1>8 DEF Save, NodeRaises, HeartbeatOver, graphVars, tableVars
  <2>2. \A t \in Threads : saved'[t].state.decision \in Known
    BY <1>1, <2>1, SavedKnown
  <2>3. Known' \subseteq Known \cup {NoDecision}
    BY <1>1, <2>1, <2>2 DEF Known
  <2>4. QED
    BY <2>1, <2>3, KnownStays
<1>9. CASE Boot \/ MonitorResearch \/ Stop \/ Crash \/ (\E d \in Ids : Ack(d) \/ Reject(d)) \/ UNCHANGED vars
  <2>1. state' \in {state, EmptyState} /\ made' = made /\ decisions' = decisions /\ saved' = saved
    BY <1>9 DEF Boot, MonitorResearch, Stop, Crash, Ack, Reject, vars, graphVars, tableVars
  <2>2. Known' \subseteq Known \cup {NoDecision}
    BY <1>1, <2>1 DEF Known
  <2>3. QED
    BY <2>1, <2>2, KnownStays
<1>10. QED
  BY <1>2, <1>3, <1>4, <1>5, <1>6, <1>7, <1>8, <1>9 DEF Next, Graph

-----------------------------------------------------------------------------
(* Orders.                                                                 *)

LEMMA OrderedStays ==
  ASSUME TypeOK, [Next]_vars, NEW d \in Ids, Ordered(d), decisions \subseteq decisions'
  PROVE  Ordered(d)'
BY QueueKeeps DEF Ordered

LEMMA OrderNext == TypeOK /\ FitInv /\ OrderInv /\ [Next]_vars => OrderInv'
<1> SUFFICES ASSUME TypeOK, FitInv, OrderInv, [Next]_vars PROVE OrderInv'
  OBVIOUS
<1>1. ASSUME stage' = stage, decisions \subseteq decisions', at' \notin {"submit", "confirm"}
      PROVE  OrderInv'
  BY <1>1, OrderedStays DEF OrderInv
<1>2. CASE Execute /\ Executable(state)
  <2> DEFINE d == state.decision.id
  <2>1. /\ decisions' = decisions \cup {state.decision} /\ state' = state /\ queue' = queue
        /\ stage' = [stage EXCEPT ![d] = IF @ = "new" THEN "intended" ELSE @]
        /\ at' = IF stage[d] = "acknowledged" THEN "reporter" ELSE "submit"
    BY <1>2 DEF Execute
  <2>2. StateFits("execution", state, queue)
    BY <1>2 DEF Execute, FitInv
  <2>3. d \in Ids
    BY <1>2, <2>2 DEF Executable, StateFits, PastGates, TypeOK, WorkingStates, DecisionRecords, Ids
  <2>4. \/ state.decision.action = "BUY" /\ state.decision.checked
        \/ state.decision.action = "ESCALATE" /\ queue[d] = "approved"
    BY <1>2, <2>2 DEF Executable, StateFits, PastGates
  <2>5. Ordered(d)'
    BY <2>1, <2>4 DEF Ordered
  <2>6. \A e \in Ids : stage'[e] # "new" => Ordered(e)'
    BY <2>1, <2>5, OrderedStays DEF OrderInv, TypeOK
  <2>7. stage'[d] # "new"
    BY <2>1, <2>3 DEF TypeOK
  <2>8. QED
    BY <1>2, <2>1, <2>6, <2>7 DEF OrderInv, Executable
<1>3. CASE Execute /\ ~Executable(state)
  BY <1>1, <1>3 DEF Execute
<1>4. CASE Submit \/ Confirm
  <2> DEFINE d == state.decision.id
  <2>1. Executable(state) /\ stage[d] # "new"
    BY <1>4 DEF Submit, Confirm, OrderInv
  <2>2. /\ decisions' = decisions /\ state' = state
        /\ stage' = stage \/ stage' = [stage EXCEPT ![d] = "filled"] \/ stage' = [stage EXCEPT ![d] = "acknowledged"]
    BY <1>4 DEF Submit, Confirm
  <2>3. \A e \in Ids : stage'[e] # "new" => stage[e] # "new"
    BY <2>1, <2>2 DEF TypeOK
  <2>4. \A e \in Ids : stage'[e] # "new" => Ordered(e)'
    BY <2>2, <2>3, OrderedStays DEF OrderInv
  <2>5. d \in Ids
    BY <1>4, <2>1 DEF Submit, Confirm, FitInv, StateFits, PastGates, Executable, TypeOK, WorkingStates, DecisionRecords, Ids
  <2>6. stage'[d] # "new"
    BY <2>1, <2>2, <2>5 DEF TypeOK
  <2>7. Executable(state')
    BY <2>1, <2>2
  <2>8. QED
    BY <2>2, <2>4, <2>6, <2>7 DEF OrderInv
<1>5. CASE Boot \/ Stop \/ Save \/ (\E d \in Ids : Ack(d) \/ Reject(d)) \/ UNCHANGED vars
  <2>1. stage' = stage /\ decisions' = decisions /\ at' = at /\ state' = state
    BY <1>5 DEF Boot, Stop, Save, Ack, Reject, vars, graphVars, tableVars
  <2>2. \A e \in Ids : stage'[e] # "new" => Ordered(e)'
    BY <2>1, OrderedStays DEF OrderInv
  <2>3. QED
    BY <2>1, <2>2 DEF OrderInv, Executable
<1>6. CASE BeginHeartbeat
  <2>1. Thread' \in Threads
    BY <1>6, BoundsAssumption DEF BeginHeartbeat, Tock, TypeOK, Thread, Threads
  <2>2. at' \notin {"submit", "confirm"}
    BY <1>6, <2>1 DEF BeginHeartbeat, TypeOK, Nodes
  <2>3. QED
    BY <1>1, <1>6, <2>2 DEF BeginHeartbeat, tableVars
<1>7. CASE MonitorResearch \/ Pm
  BY <1>1, <1>7 DEF MonitorResearch, Pm, tableVars
<1>8. CASE Risk
  <2>1. at' \in {"between", "execution"} /\ stage' = stage /\ decisions' = decisions
    BY <1>8 DEF Risk, HeartbeatOver, tableVars
  <2>2. QED
    BY <2>1, <1>1
<1>9. CASE Hitl
  BY <1>1, <1>9 DEF Hitl
<1>10. CASE Reporter
  BY <1>1, <1>10 DEF Reporter, HeartbeatOver
<1>11. CASE NodeRaises \/ Crash
  BY <1>1, <1>11 DEF NodeRaises, Crash, HeartbeatOver, tableVars
<1>12. QED
  BY <1>2, <1>3, <1>4, <1>5, <1>6, <1>7, <1>8, <1>9, <1>10, <1>11 DEF Next, Graph

-----------------------------------------------------------------------------
(* Who waits, and what is fresh.                                           *)

LEMMA WaitNext == TypeOK /\ RunInv /\ FitInv /\ WaitInv /\ [Next]_vars => WaitInv'
<1> SUFFICES ASSUME TypeOK, RunInv, FitInv, WaitInv, [Next]_vars PROVE WaitInv'
  OBVIOUS
<1> DEFINE held == saved[Thread].state.decision.id
<1>1. ASSUME at' = "between" PROVE WaitInv'
  BY <1>1 DEF WaitInv
<1>2. ASSUME at # "between", saved[Thread].next = "hitl"
      PROVE  held \in Ids
  BY <1>2, ThreadOK DEF FitInv, StateFits, TypeOK, WorkingStates, DecisionRecords, Ids
\* A step that goes on to another node, or none, on the same thread.
<1>3. ASSUME at # "between", Thread' = Thread, saved' = saved,
             at # "hitl" \/ (at' = at /\ state' = state) \/ queue'[state.decision.id] # "none"
      PROVE  WaitInv'
  BY <1>2, <1>3, QueueKeeps DEF WaitInv
<1>4. CASE BeginHeartbeat
  <2>1. Thread' \in Threads /\ saved' = saved
    BY <1>4, BoundsAssumption DEF BeginHeartbeat, Tock, TypeOK, Thread, Threads
  <2>2. QED
    BY <1>4, <2>1 DEF BeginHeartbeat, WaitInv, Unfinished
<1>5. CASE MonitorResearch \/ Pm \/ Execute \/ Submit \/ Confirm
  <2>1. at # "between" /\ at # "hitl" /\ Thread' = Thread /\ saved' = saved
    BY <1>5 DEF MonitorResearch, Pm, Execute, Submit, Confirm, Thread, processVars
  <2>2. QED
    BY <2>1, <1>3
<1>6. CASE Risk
  <2>1. at = "risk" /\ (at' = "between" \/ (Thread' = Thread /\ saved' = saved))
    BY <1>6 DEF Risk, HeartbeatOver, Thread, processVars
  <2>2. QED
    BY <2>1, <1>1, <1>3
<1>7. CASE Hitl
  <2>1. state.decision.id \in Ids
    BY <1>7 DEF Hitl, FitInv, StateFits, TypeOK, WorkingStates, DecisionRecords, Ids
  <2>2. queue'[state.decision.id] # "none"
    BY <2>1, <1>7 DEF Hitl, TypeOK
  <2>3. at # "between" /\ Thread' = Thread /\ saved' = saved
    BY <1>7 DEF Hitl, Thread, processVars
  <2>4. QED
    BY <2>2, <2>3, <1>3
<1>8. CASE Reporter \/ NodeRaises \/ Crash
  BY <1>1, <1>8 DEF Reporter, NodeRaises, Crash, HeartbeatOver
<1>9. CASE Save
  <2>1. Thread \in Threads /\ Thread' = Thread /\ at' = at /\ state' = state
    BY <1>9, ThreadOK DEF Save, Thread, processVars, graphVars
  <2>2. saved'[Thread'] = [next |-> NodeOf(at), state |-> state]
    BY <1>9, <2>1 DEF Save, Checkpointed, TypeOK
  <2>3. QED
    BY <2>1, <2>2 DEF WaitInv, NodeOf
<1>10. CASE Boot \/ Stop \/ (\E d \in Ids : Ack(d) \/ Reject(d)) \/ UNCHANGED vars
  <2>1. at' = at /\ state' = state /\ saved' = saved
    BY <1>10 DEF Boot, Stop, Ack, Reject, vars, graphVars
  <2>2. at # "between" => Thread' = Thread
    BY <1>10 DEF Boot, Stop, Ack, Reject, vars, processVars, Thread
  <2>3. QED
    BY <2>1, <2>2, <1>1, <1>3
<1>11. QED
  BY <1>4, <1>5, <1>6, <1>7, <1>8, <1>9, <1>10 DEF Next, Graph

\* Only the checkpoint of the thread at work is written.
LEMMA OnlyThreadSaved ==
  ASSUME TypeOK, RunInv, [Next]_vars, NEW t \in Threads, t[1] > now
  PROVE  saved'[t] = saved[t]
<1>1. t # Thread
  <2>1. Thread[1] = now /\ now \in Nat
    BY DEF Thread, TypeOK
  <2>2. QED
    BY <2>1
<1>2. ASSUME NEW n, NEW s, Checkpointed(n, s) PROVE saved'[t] = saved[t]
  BY <1>1, <1>2 DEF Checkpointed, TypeOK
<1>3. ASSUME saved' = saved PROVE saved'[t] = saved[t]
  BY <1>3
<1>4. CASE Risk
  BY <1>2, <1>3, <1>4 DEF Risk
<1>5. CASE Reporter \/ NodeRaises \/ Save
  BY <1>2, <1>5 DEF Reporter, NodeRaises, Save
<1>6. QED
  BY <1>3, <1>4, <1>5 DEF Next, Graph, vars, Boot, BeginHeartbeat, MonitorResearch, Pm, Hitl, Execute,
     Submit, Confirm, Stop, Crash, Ack, Reject

LEMMA FreshNext == TypeOK /\ RunInv /\ FitInv /\ OrderInv /\ FreshInv /\ [Next]_vars => FreshInv'
<1> SUFFICES ASSUME TypeOK, RunInv, FitInv, OrderInv, FreshInv, [Next]_vars, clock' = "wall"
             PROVE  /\ \A t \in Threads : t[1] > now' => saved'[t] = NoCheckpoint
                    /\ at' # "between" => at' # "hitl" /\ ~state'.required
                    /\ at' = "reporter" /\ state'.decision.action = "BUY"
                         => stage'[state'.decision.id] # "new"
  BY DEF FreshInv
<1>1. clock = "wall"
  BY DEF Next, Graph, vars, processVars, Boot, BeginHeartbeat, MonitorResearch, Pm, Risk, Hitl, Execute,
     Submit, Confirm, Reporter, Save, NodeRaises, HeartbeatOver, Stop, Crash, Ack, Reject
<1>2. now' = now \/ (BeginHeartbeat /\ now' = now + 1)
  BY <1>1 DEF Next, Graph, vars, processVars, Boot, BeginHeartbeat, Tock, MonitorResearch, Pm, Risk, Hitl,
     Execute, Submit, Confirm, Reporter, Save, NodeRaises, HeartbeatOver, Stop, Crash, Ack, Reject
<1>3. ASSUME NEW t \in Threads, t[1] > now'
      PROVE  saved'[t] = NoCheckpoint
  <2>1. t[1] > now
    <3>1. now \in Nat /\ t[1] \in Nat
      BY BoundsAssumption DEF TypeOK, Threads
    <3>2. QED
      BY <1>2, <1>3, <3>1
  <2>2. QED
    BY <2>1, <1>1, OnlyThreadSaved DEF FreshInv
<1> SUFFICES /\ at' # "between" => at' # "hitl" /\ ~state'.required
             /\ at' = "reporter" /\ state'.decision.action = "BUY"
                  => stage'[state'.decision.id] # "new"
  BY <1>3
<1>5. at # "between" => at # "hitl" /\ ~state.required
  BY <1>1 DEF FreshInv
<1>6. CASE BeginHeartbeat
  <2>1. now' = now + 1 /\ now \in Nat
    BY <1>1, <1>6 DEF BeginHeartbeat, Tock, TypeOK
  <2>2. Thread' \in Threads /\ Thread'[1] > now
    BY <1>6, <2>1, BoundsAssumption DEF BeginHeartbeat, Tock, TypeOK, Thread, Threads
  <2>3. saved[Thread'] = NoCheckpoint
    BY <1>1, <2>2 DEF FreshInv
  <2>4. at' = "monitor" /\ state' = EmptyState
    BY <1>6, <2>3 DEF BeginHeartbeat, NoCheckpoint, Unfinished
  <2>5. ~EmptyState.required
    BY DEF EmptyState
  <2>6. QED
    BY <2>4, <2>5
<1>7. CASE MonitorResearch
  BY <1>5, <1>7 DEF MonitorResearch
<1>8. CASE Pm
  <2>1. at' = "risk" /\ state'.required = state.required
    BY <1>8 DEF Pm, TypeOK, WorkingStates
  <2>2. QED
    BY <1>5, <1>8, <2>1 DEF Pm
<1>9. CASE Risk
  <2>1. at' = "between" \/ (at' = "execution" /\ state'.required = state.required)
    BY <1>9 DEF Risk, HeartbeatOver, TypeOK, WorkingStates
  <2>2. QED
    BY <1>5, <1>9, <2>1 DEF Risk
<1>10. CASE Hitl
  BY <1>5, <1>10 DEF Hitl
<1>11. CASE Execute
  <2>1. state' = state /\ at' \in {"submit", "reporter"}
    BY <1>11 DEF Execute
  <2>2. ASSUME state.decision.action = "BUY"
        PROVE  stage'[state.decision.id] # "new"
    <3>1. Executable(state)
      BY <1>5, <1>11, <2>2 DEF Execute, Executable
    <3>2. state.decision.id \in Ids
      BY <1>11, <2>2 DEF Execute, FitInv, StateFits, PastGates, TypeOK, WorkingStates, DecisionRecords, Ids
    <3>3. QED
      BY <1>11, <3>1, <3>2 DEF Execute, TypeOK
  <2>3. QED
    BY <1>5, <1>11, <2>1, <2>2 DEF Execute
<1>12. CASE Submit \/ Confirm
  <2>1. state' = state /\ at' \in {"confirm", "reporter"} /\ at # "between"
    BY <1>12 DEF Submit, Confirm
  <2>2. OrderInv'
    BY OrderNext
  <2>3. Executable(state) /\ stage[state.decision.id] # "new"
    BY <1>12 DEF Submit, Confirm, OrderInv
  <2>4. state.decision.id \in Ids
    BY <1>12, <2>3 DEF Submit, Confirm, FitInv, StateFits, PastGates, Executable, TypeOK, WorkingStates, DecisionRecords, Ids
  <2>5. stage'[state.decision.id] # "new"
    BY <1>12, <2>3, <2>4 DEF Submit, Confirm, TypeOK
  <2>6. QED
    BY <1>5, <2>1, <2>5
<1>13. CASE Reporter \/ NodeRaises \/ Crash
  BY <1>13 DEF Reporter, NodeRaises, Crash, HeartbeatOver
<1>14. CASE Boot \/ Stop \/ Save \/ (\E d \in Ids : Ack(d) \/ Reject(d)) \/ UNCHANGED vars
  <2>1. at' = at /\ state' = state /\ stage' = stage
    BY <1>14 DEF Boot, Stop, Save, Ack, Reject, vars, graphVars, tableVars
  <2>2. QED
    BY <1>1, <1>5, <2>1 DEF FreshInv
<1>15. QED
  BY <1>6, <1>7, <1>8, <1>9, <1>10, <1>11, <1>12, <1>13, <1>14 DEF Next, Graph

-----------------------------------------------------------------------------
(* The theorems.                                                           *)

\* The inductive invariant holds in every state of every run of firm run.
THEOREM HeartbeatInvariant == Spec => []HeartbeatInv
<1>1. HeartbeatInv /\ [Next]_vars => HeartbeatInv'
  BY TypeNext, FitNext, IdNext, OrderNext, WaitNext, FreshNext DEF HeartbeatInv
<1>2. QED
  BY InitInv, <1>1, PTL DEF Spec

\* The variables keep their types, whatever the bounds.
THEOREM TypeCorrect == Spec => []TypeOK
<1>1. HeartbeatInv => TypeOK
  BY DEF HeartbeatInv
<1>2. QED
  BY HeartbeatInvariant, <1>1, PTL

\* Whatever reaches the outbox passed the risk gate or was approved, through
\* any number of restarts, resumed threads and lagging checkpoints.
THEOREM OnlyCheckedOrApproved == Spec => []OrdersCheckedOrApproved
<1>1. HeartbeatInv => OrdersCheckedOrApproved
  <2> SUFFICES ASSUME HeartbeatInv, NEW r \in decisions, r.id # 0, stage[r.id] # "new"
               PROVE  \/ r.action = "BUY" /\ r.checked
                      \/ r.action = "ESCALATE" /\ queue[r.id] = "approved"
    BY DEF OrdersCheckedOrApproved
  <2>1. r.id \in Ids
    BY DEF HeartbeatInv, TypeOK, DecisionRecords, Ids
  <2>2. Ordered(r.id)
    BY <2>1 DEF HeartbeatInv, OrderInv
  <2>3. \A q \in decisions : q.id = r.id => q = r
    BY DEF HeartbeatInv, IdInv, UniqueIds, Known
  <2>4. QED
    BY <2>2, <2>3 DEF Ordered
<1>2. QED
  BY HeartbeatInvariant, <1>1, PTL

\* No checkpoint that waits before hitl is overwritten before its escalation is
\* in the queue.
THEOREM EscalationsReachQueue == Spec => EscalationReachesQueue
<1>1. HeartbeatInv /\ [Next]_vars =>
        [\A t \in Threads :
           saved[t].next = "hitl" /\ saved'[t] # saved[t]
             => queue'[saved[t].state.decision.id] # "none"]_vars
  <2> SUFFICES ASSUME HeartbeatInv, [Next]_vars, NEW t \in Threads,
                      saved[t].next = "hitl", saved'[t] # saved[t]
               PROVE  queue'[saved[t].state.decision.id] # "none"
    OBVIOUS
  <2> USE DEF HeartbeatInv
  <2>1. saved[t].state.decision.id \in Ids
    BY DEF FitInv, StateFits, TypeOK, WorkingStates, DecisionRecords, Ids
  <2>2. ASSUME queue[saved[t].state.decision.id] # "none"
        PROVE  queue'[saved[t].state.decision.id] # "none"
    BY <2>1, <2>2, QueueKeeps
  <2>3. /\ at # "between"
        /\ at = "hitl" => saved' = [saved EXCEPT ![Thread] = [next |-> "hitl", state |-> state]]
        /\ t = Thread
    <3>1. PICK n, s : Checkpointed(n, s) /\ at # "between" /\ (at = "hitl" => n = "hitl" /\ s = state)
      BY DEF Next, Graph, vars, Boot, BeginHeartbeat, MonitorResearch, Pm, Risk, Hitl, Execute, Submit,
         Confirm, Reporter, Save, NodeRaises, NodeOf, Stop, Crash, Ack, Reject
    <3>2. QED
      BY <3>1 DEF Checkpointed, TypeOK
  <2>4. CASE at = "hitl" /\ state = saved[Thread].state
    <3>1. saved[t] = [next |-> "hitl", state |-> state]
      BY <2>3, <2>4 DEF TypeOK
    <3>2. saved'[t] = [next |-> "hitl", state |-> state]
      BY <2>3, <2>4 DEF TypeOK
    <3>3. QED
      BY <3>1, <3>2
  <2>5. QED
    BY <2>2, <2>3, <2>4 DEF WaitInv
<1>2. QED
  BY HeartbeatInvariant, <1>1, PTL DEF Spec, EscalationReachesQueue

\* With the wall clock no trade that passed the gate is held back by what an
\* earlier heartbeat left.
THEOREM PassedTradesArePlaced == Spec => PassedTradeIsPlaced
<1>1. HeartbeatInv =>
        [clock = "wall" /\ at = "reporter" /\ Reporter /\ state.decision.action = "BUY"
           => stage[state.decision.id] # "new"]_vars
  BY DEF HeartbeatInv, FreshInv
<1>2. QED
  BY HeartbeatInvariant, <1>1, PTL DEF Spec, PassedTradeIsPlaced

-----------------------------------------------------------------------------
(* The orders of the heartbeats, as OrderOnce has them.                    *)

\* The orders the broker has filled.
Filled == {d \in Ids : stage[d] \in {"filled", "acknowledged"}}
Orders == {[key |-> d] : d \in Filled}

Order == INSTANCE OrderOnce WITH Decisions <- Ids, orders <- Orders

\* The order of the decision inside execution is on its way; about to be confirmed,
\* it is filled.
StageInv ==
  /\ at = "submit" => stage[state.decision.id] \in {"intended", "filled"}
  /\ at = "confirm" => stage[state.decision.id] = "filled"

\* One order comes one stage further.
Moves(from, to) ==
  \E d \in Ids : stage[d] = from /\ stage' = [stage EXCEPT ![d] = to]

LEMMA StageNext ==
  ASSUME TypeOK, FitInv, OrderInv, StageInv, [Next]_vars
  PROVE  /\ StageInv'
         /\ \/ stage' = stage
            \/ Moves("new", "intended")
            \/ Moves("intended", "filled")
            \/ Moves("filled", "acknowledged")
<1> DEFINE d == state.decision.id
<1>1. stage \in [Ids -> {"new", "intended", "filled", "acknowledged"}]
  BY DEF TypeOK
<1>2. ASSUME at \in {"execution", "submit", "confirm"}, Executable(state)
      PROVE  d \in Ids
  <2>1. StateFits(at, state, queue) /\ d \in 0..MaxId
    BY DEF FitInv, TypeOK, WorkingStates, DecisionRecords
  <2>2. d # 0
    BY <1>2, <2>1 DEF Executable, StateFits, PastGates
  <2>3. QED
    BY <2>1, <2>2, BoundsAssumption DEF Ids
<1>3. CASE Execute /\ Executable(state)
  <2>1. /\ state' = state
        /\ stage' = [stage EXCEPT ![d] = IF @ = "new" THEN "intended" ELSE @]
        /\ at' = IF stage[d] = "acknowledged" THEN "reporter" ELSE "submit"
    BY <1>3 DEF Execute
  <2>2. d \in Ids
    BY <1>2, <1>3 DEF Execute
  <2>3. StageInv'
    BY <1>1, <2>1, <2>2 DEF StageInv
  <2>4. CASE stage[d] = "new"
    BY <2>1, <2>2, <2>3, <2>4 DEF Moves
  <2>5. CASE stage[d] # "new"
    BY <1>1, <2>1, <2>3, <2>5
  <2>6. QED
    BY <2>4, <2>5
<1>4. CASE Submit
  <2>1. d \in Ids /\ stage[d] \in {"intended", "filled"} /\ state' = state
    BY <1>2, <1>4 DEF Submit, OrderInv, StageInv
  <2>2. CASE stage' = stage /\ at' = "reporter"
    BY <2>2 DEF StageInv
  <2>3. CASE stage' = [stage EXCEPT ![d] = "filled"] /\ at' \in {"confirm", "reporter"}
    <3>1. StageInv'
      BY <1>1, <2>1, <2>3 DEF StageInv
    <3>2. CASE stage[d] = "intended"
      BY <2>1, <2>3, <3>1, <3>2 DEF Moves
    <3>3. CASE stage[d] = "filled"
      BY <1>1, <2>3, <3>1, <3>3
    <3>4. QED
      BY <2>1, <3>2, <3>3
  <2>4. QED
    BY <1>4, <2>2, <2>3 DEF Submit
<1>5. CASE Confirm
  <2>1. d \in Ids /\ stage[d] = "filled"
    BY <1>2, <1>5 DEF Confirm, OrderInv, StageInv
  <2>2. stage' = [stage EXCEPT ![d] = "acknowledged"] /\ at' = "reporter"
    BY <1>5 DEF Confirm
  <2>3. QED
    BY <2>1, <2>2 DEF StageInv, Moves
<1>6. CASE BeginHeartbeat
  <2>1. Thread' \in Threads
    BY <1>6, BoundsAssumption DEF BeginHeartbeat, Tock, TypeOK, Thread, Threads
  <2>2. at' \notin {"submit", "confirm"}
    BY <1>6, <2>1 DEF BeginHeartbeat, TypeOK, Nodes
  <2>3. stage' = stage
    BY <1>6 DEF BeginHeartbeat, tableVars
  <2>4. QED
    BY <2>2, <2>3 DEF StageInv
<1>7. CASE \/ MonitorResearch \/ Pm \/ Risk \/ Hitl \/ Reporter \/ NodeRaises \/ Crash
           \/ Execute /\ ~Executable(state)
  <2>1. at' \in {"pm", "risk", "between", "execution", "reporter"} /\ stage' = stage
    BY <1>7 DEF MonitorResearch, Pm, Risk, Hitl, Reporter, NodeRaises, Crash, Execute, HeartbeatOver,
                tableVars
  <2>2. QED
    BY <2>1 DEF StageInv
<1>8. CASE Boot \/ Stop \/ Save \/ (\E e \in Ids : Ack(e) \/ Reject(e)) \/ UNCHANGED vars
  <2>1. stage' = stage /\ at' = at /\ state' = state
    BY <1>8 DEF Boot, Stop, Save, Ack, Reject, vars, graphVars, tableVars
  <2>2. QED
    BY <2>1 DEF StageInv
<1>9. QED
  BY <1>3, <1>4, <1>5, <1>6, <1>7, <1>8 DEF Next, Graph

\* A move is a step of the promise.
LEMMA MoveRefines ==
  ASSUME TypeOK,
         stage' = stage \/ Moves("new", "intended") \/ Moves("intended", "filled")
         \/ Moves("filled", "acknowledged")
  PROVE  [Order!Next]_(Order!vars)
<1>1. stage \in [Ids -> {"new", "intended", "filled", "acknowledged"}]
  BY DEF TypeOK
<1>2. CASE stage' = stage
  BY <1>2 DEF Order!vars, Orders, Filled
<1>3. CASE Moves("new", "intended")
  <2>1. PICK d \in Ids : stage[d] = "new" /\ stage' = [stage EXCEPT ![d] = "intended"]
    BY <1>3 DEF Moves
  <2>2. Filled' = Filled
    BY <1>1, <2>1 DEF Filled
  <2>3. Orders' = Orders
    BY <2>2 DEF Orders
  <2>4. Order!Intend(d)
    BY <2>1, <2>3 DEF Order!Intend
  <2>5. QED
    BY <2>4 DEF Order!Next
<1>4. CASE Moves("intended", "filled")
  <2>1. PICK d \in Ids : stage[d] = "intended" /\ stage' = [stage EXCEPT ![d] = "filled"]
    BY <1>4 DEF Moves
  <2>2. Filled' = Filled \cup {d} /\ d \notin Filled
    BY <1>1, <2>1 DEF Filled
  <2> DEFINE o == [key |-> d]
  <2>3. Orders' = Orders \cup {o} /\ o \notin Orders /\ o.key = d
    BY <2>2 DEF Orders
  <2>4. Order!Fill(d)
    BY <2>1, <2>3 DEF Order!Fill
  <2>5. QED
    BY <2>4 DEF Order!Next
<1>5. CASE Moves("filled", "acknowledged")
  <2>1. PICK d \in Ids : stage[d] = "filled" /\ stage' = [stage EXCEPT ![d] = "acknowledged"]
    BY <1>5 DEF Moves
  <2>2. Filled' = Filled
    BY <1>1, <2>1 DEF Filled
  <2>3. Orders' = Orders
    BY <2>2 DEF Orders
  <2>4. Order!Acknowledge(d)
    BY <2>1, <2>3 DEF Order!Acknowledge
  <2>5. QED
    BY <2>4 DEF Order!Next
<1>6. QED
  BY <1>2, <1>3, <1>4, <1>5

\* Through restarts, resumed threads and repeated nodes heartbeats use orders only
\* as OrderOnce has them, which is what Outbox is proved to implement: one that is
\* filled is not filled again, one that is acknowledged is left alone.
THEOREM OrdersAsPromised == Spec => Order!Spec
<1>1. Init => Order!Init /\ StageInv
  BY DEF Init, Order!Init, StageInv, Orders, Filled
<1>2. HeartbeatInv /\ StageInv /\ [Next]_vars => StageInv'
  BY StageNext DEF HeartbeatInv
<1>3. HeartbeatInv /\ StageInv /\ [Next]_vars => [Order!Next]_(Order!vars)
  BY StageNext, MoveRefines DEF HeartbeatInv
<1>4. QED
  BY <1>1, <1>2, <1>3, HeartbeatInvariant, PTL DEF Spec, Order!Spec

-----------------------------------------------------------------------------
(* The escalations of the heartbeats, as Escalation has them.              *)

\* On record: in the table; released: execution has made an order of it.
OnRecord == {d \in Ids : Escalated(d)}
Handed == {d \in OnRecord : stage[d] # "new"}

Gate == INSTANCE Escalation
          WITH Decisions <- Ids, recorded <- OnRecord, status <- queue, released <- Handed

\* The foreign key of the queue on the decisions.
QueueOnRecord == \A d \in Ids : queue[d] # "none" => Escalated(d)

\* What a node adds to the table: an escalation goes on record, a trade does
\* not; and no order that is on its way becomes an escalation by it.
LEMMA AddsToRecord ==
  ASSUME TypeOK, IdInv, OrderInv, NEW d \in Ids, d = state.decision.id,
         decisions' = decisions \cup {state.decision}
  PROVE  /\ state.decision.action = "ESCALATE" => OnRecord' = OnRecord \cup {d}
         /\ state.decision.action # "ESCALATE" => OnRecord' = OnRecord
         /\ \A e \in OnRecord' \ OnRecord : e = d /\ stage[e] = "new"
<1>1. \A e \in Ids : Escalated(e)' <=> Escalated(e) \/ (e = d /\ state.decision.action = "ESCALATE")
  BY DEF Escalated
<1>2. ASSUME state.decision.action = "ESCALATE", stage[d] # "new"
      PROVE  Escalated(d)
  <2>1. PICK r \in decisions : r.id = d
    BY <1>2 DEF OrderInv, Ordered
  <2>2. r = state.decision
    BY <2>1 DEF IdInv, UniqueIds, Known, Ids
  <2> QED
    BY <1>2, <2>1, <2>2 DEF Escalated
<1> QED
  BY <1>1, <1>2 DEF OnRecord

\* What is on record and handed over when no decision is added, or no order.
LEMMA SameDecisions ==
  ASSUME decisions' = decisions
  PROVE  OnRecord' = OnRecord /\ (stage' = stage => Handed' = Handed)
<1>1. \A e \in Ids : Escalated(e)' <=> Escalated(e)
  BY DEF Escalated
<1>2. OnRecord' = OnRecord
  BY <1>1 DEF OnRecord
<1> QED
  BY <1>2 DEF Handed

LEMMA QueueKeptOnRecord ==
  ASSUME QueueOnRecord, OnRecord \subseteq OnRecord',
         \A d \in Ids : queue'[d] # queue[d] => d \in OnRecord'
  PROVE  QueueOnRecord'
BY DEF QueueOnRecord, OnRecord

LEMMA GateNext ==
  ASSUME HeartbeatInv, QueueOnRecord, [Next]_vars
  PROVE  QueueOnRecord' /\ [Gate!Next]_(Gate!vars)
<1> DEFINE d == state.decision.id
<1>0. TypeOK /\ FitInv /\ IdInv /\ OrderInv
  BY DEF HeartbeatInv
<1>1. /\ queue \in [Ids -> {"none", "pending", "approved", "rejected"}]
      /\ stage \in [Ids -> {"new", "intended", "filled", "acknowledged"}]
      /\ d \in 0..MaxId
  BY <1>0 DEF TypeOK, WorkingStates, DecisionRecords
<1>2. d # 0 => d \in Ids
  BY <1>1, BoundsAssumption DEF Ids
<1>3. StateFits(at, state, queue)
  BY <1>0 DEF FitInv
<1>4. CASE Hitl
  <2>1. state.decision.action = "ESCALATE" /\ d \in Ids
    BY <1>2, <1>3, <1>4 DEF Hitl, StateFits
  <2>2. /\ decisions' = decisions \cup {state.decision} /\ stage' = stage
        /\ queue' = [queue EXCEPT ![d] = IF @ = "none" THEN "pending" ELSE @]
    BY <1>4 DEF Hitl
  <2>3. OnRecord' = OnRecord \cup {d} /\ Handed' = Handed
    BY <1>0, <2>1, <2>2, AddsToRecord DEF Handed
  <2>4. QueueOnRecord'
    BY <1>1, <2>1, <2>2, <2>3, QueueKeptOnRecord
  <2>5. CASE queue[d] = "none"
    <3>1. Gate!Ask(d)
      BY <2>2, <2>3, <2>5 DEF Gate!Ask
    <3> QED
      BY <2>1, <2>4, <3>1 DEF Gate!Next
  <2>6. CASE queue[d] # "none"
    <3>1. queue' = queue
      BY <1>1, <2>2, <2>6
    <3>2. Gate!Record(d)
      BY <2>3, <3>1 DEF Gate!Record
    <3> QED
      BY <2>1, <2>4, <3>2 DEF Gate!Next
  <2> QED
    BY <2>5, <2>6
<1>5. CASE Execute /\ Executable(state)
  <2>1. d \in Ids
    BY <1>2, <1>3, <1>5 DEF Execute, Executable, StateFits, PastGates
  <2>2. /\ decisions' = decisions \cup {state.decision} /\ queue' = queue
        /\ stage' = [stage EXCEPT ![d] = IF @ = "new" THEN "intended" ELSE @]
    BY <1>5 DEF Execute
  <2>3. stage'[d] # "new" /\ \A e \in Ids \ {d} : stage'[e] = stage[e]
    BY <1>1, <2>1, <2>2
  <2>4. CASE state.decision.action = "ESCALATE"
    <3>1. queue[d] = "approved"
      BY <1>3, <1>5, <2>4 DEF Execute, Executable, StateFits, PastGates
    <3>2. d \in OnRecord
      BY <2>1, <3>1 DEF QueueOnRecord, OnRecord
    <3>3. OnRecord' = OnRecord
      BY <1>0, <2>1, <2>2, <2>4, <3>2, AddsToRecord
    <3>4. Handed' = Handed \cup {d}
      BY <2>3, <3>2, <3>3 DEF Handed, OnRecord
    <3>5. Gate!Release(d)
      BY <2>2, <3>1, <3>2, <3>3, <3>4 DEF Gate!Release
    <3>6. QueueOnRecord'
      BY <2>2, <3>3, QueueKeptOnRecord
    <3> QED
      BY <2>1, <3>5, <3>6 DEF Gate!Next
  <2>5. CASE state.decision.action # "ESCALATE"
    <3>1. OnRecord' = OnRecord
      BY <1>0, <2>1, <2>2, <2>5, AddsToRecord
    <3>2. d \notin OnRecord
      <4> SUFFICES ASSUME NEW r \in decisions, r.id = d, r.action = "ESCALATE" PROVE FALSE
        BY DEF OnRecord, Escalated
      <4>1. r = state.decision
        BY <1>0, <2>1 DEF IdInv, UniqueIds, Known, Ids
      <4> QED
        BY <2>5, <4>1
    <3>3. Handed' = Handed
      BY <2>3, <3>1, <3>2 DEF Handed, OnRecord
    <3>4. QueueOnRecord'
      BY <2>2, <3>1, QueueKeptOnRecord
    <3> QED
      BY <2>2, <3>1, <3>3, <3>4 DEF Gate!vars
  <2> QED
    BY <2>4, <2>5
<1>6. CASE Submit \/ Confirm
  <2>1. d \in Ids /\ stage[d] # "new"
    BY <1>0, <1>2, <1>3, <1>6
       DEF OrderInv, Submit, Confirm, Executable, StateFits, PastGates, FitInv, Ordered
  <2>2. /\ decisions' = decisions /\ queue' = queue
        /\ \E to \in {"filled", "acknowledged"} :
             stage' = stage \/ stage' = [stage EXCEPT ![d] = to]
    BY <1>6 DEF Submit, Confirm
  <2>3. \A e \in Ids : stage'[e] # "new" <=> stage[e] # "new"
    BY <1>1, <2>1, <2>2
  <2>4. OnRecord' = OnRecord
    BY <2>2, SameDecisions
  <2>5. Handed' = Handed
    BY <2>3, <2>4 DEF Handed, OnRecord
  <2>6. QueueOnRecord'
    BY <2>2, <2>4, QueueKeptOnRecord
  <2> QED
    BY <2>2, <2>4, <2>5, <2>6 DEF Gate!vars
<1>7. CASE Reporter /\ d # 0
  <2>1. /\ decisions' = decisions \cup {state.decision} /\ queue' = queue /\ stage' = stage
    BY <1>7 DEF Reporter
  <2>2. Handed' = Handed /\ (OnRecord' = OnRecord \cup {d} \/ OnRecord' = OnRecord)
    BY <1>0, <1>2, <1>7, <2>1, AddsToRecord DEF Handed
  <2>3. QueueOnRecord'
    BY <2>1, <2>2, QueueKeptOnRecord
  <2>4. Gate!Record(d) \/ UNCHANGED Gate!vars
    BY <2>1, <2>2 DEF Gate!Record, Gate!vars
  <2> QED
    BY <1>2, <1>7, <2>3, <2>4 DEF Gate!Next
<1>8. ASSUME NEW e \in Ids, Ack(e) \/ Reject(e)
      PROVE  QueueOnRecord' /\ [Gate!Next]_(Gate!vars)
  <2>1. decisions' = decisions /\ stage' = stage /\ e \in OnRecord
    BY <1>8 DEF Ack, Reject, OnRecord
  <2>2. OnRecord' = OnRecord /\ Handed' = Handed
    BY <2>1, SameDecisions
  <2>3. \A f \in Ids \ {e} : queue'[f] = queue[f]
    BY <1>1, <1>8 DEF Ack, Reject
  <2>4. QueueOnRecord'
    BY <2>1, <2>2, <2>3, QueueKeptOnRecord
  <2>5. Gate!Approve(e) \/ Gate!Reject(e)
    BY <1>8, <2>1, <2>2 DEF Ack, Reject, Gate!Approve, Gate!Reject
  <2> QED
    BY <2>4, <2>5 DEF Gate!Next
<1>9. CASE UNCHANGED tableVars
  <2>1. decisions' = decisions /\ queue' = queue /\ stage' = stage
    BY <1>9 DEF tableVars
  <2>2. OnRecord' = OnRecord /\ Handed' = Handed
    BY <2>1, SameDecisions
  <2> QED
    BY <2>1, <2>2, QueueKeptOnRecord DEF Gate!vars
<1>10. CASE \/ Boot \/ BeginHeartbeat \/ MonitorResearch \/ Pm \/ Risk \/ Save \/ NodeRaises \/ Stop
            \/ Crash \/ UNCHANGED vars
            \/ Execute /\ ~Executable(state)
            \/ Reporter /\ d = 0
  <2>1. UNCHANGED tableVars
    BY <1>10 DEF Boot, BeginHeartbeat, MonitorResearch, Pm, Risk, Save, NodeRaises, Stop, Crash, vars,
                 Execute, Reporter, tableVars
  <2> QED
    BY <1>9, <2>1
<1> QED
  BY <1>4, <1>5, <1>6, <1>7, <1>8, <1>10 DEF Next, Graph

\* Through restarts, resumed threads and lagging checkpoints heartbeats treat an
\* escalation only as Escalation has it, which is what HitlQueue is proved to
\* implement: recorded, asked and answered once, and made an order of only while
\* it is approved.
THEOREM GateAsPromised == Spec => Gate!Spec
<1>1. Init => Gate!Init /\ QueueOnRecord
  BY DEF Init, Gate!Init, QueueOnRecord, OnRecord, Handed, Escalated
<1>2. HeartbeatInv /\ QueueOnRecord /\ [Next]_vars => QueueOnRecord'
  BY GateNext
<1>3. HeartbeatInv /\ QueueOnRecord /\ [Next]_vars => [Gate!Next]_(Gate!vars)
  BY GateNext
<1>4. QED
  BY <1>1, <1>2, <1>3, HeartbeatInvariant, PTL DEF Spec, Gate!Spec

-----------------------------------------------------------------------------
(* The loop: its inductive invariant.                                      *)

\* The variables' types, without what bounds the counters.
LoopTypes ==
  /\ step \in Steps \cup Ends
  /\ attempted \in 0..MaxHeartbeats
  /\ last \in Errors \cup {None}
  /\ count \in Nat
  /\ slept \in Nat
  /\ stop \in BOOLEAN
  /\ outcomes \in Seq(Errors \cup {"ok"})
  /\ overrun \in [heartbeats: Nat, ticks: Nat]

\* The breaker's two variables say how the last heartbeats ended: count of them
\* failed as last says, and the one before them did not.
StreakInv ==
  /\ count <= Len(outcomes)
  /\ count = 0 <=> last = None
  /\ \A i \in Len(outcomes) - count + 1 .. Len(outcomes) : outcomes[i] = last
  /\ IF count = 0
       THEN outcomes # <<>> => outcomes[Len(outcomes)] = "ok"
       ELSE count < Len(outcomes) => outcomes[Len(outcomes) - count] # last

\* Where the loop goes on, it is below its threshold.
CountInv ==
  /\ count <= FailureThreshold
  /\ step \in Steps \ {"failed"} => count < FailureThreshold
  /\ step = "failed" => count > 0
  /\ step = "raised" => count = FailureThreshold

\* The loop sleeps no longer than it has to.
SleepInv == slept <= Interval /\ (step = "tick" => slept < Interval)

\* Nothing was begun after the stop; what is under way was begun before it.
OverrunInv ==
  /\ ~stop => overrun = NoOverrun
  /\ step \in {"heartbeat", "tick"} => overrun = NoOverrun
  /\ StopIsPrompt

LoopInv == LoopTypes /\ StreakInv /\ CountInv /\ SleepInv /\ OverrunInv

-----------------------------------------------------------------------------
(* The loop: lemmas.                                                       *)

LEMMA NoOverrunType == NoOverrun \in [heartbeats: Nat, ticks: Nat] /\ NoOverrun.heartbeats = 0 /\ NoOverrun.ticks = 0
BY DEF NoOverrun

\* A success ends the streak.
LEMMA SuccessStreak ==
  ASSUME LoopTypes, outcomes' = Append(outcomes, "ok"), count' = 0, last' = None
  PROVE  StreakInv'
<1>1. Len(outcomes') = Len(outcomes) + 1 /\ outcomes'[Len(outcomes) + 1] = "ok" /\ Len(outcomes) \in Nat
  BY DEF LoopTypes
<1> QED
  BY <1>1 DEF StreakInv

\* A failure like the last one prolongs it, another one begins a new one.
LEMMA FailureStreak ==
  ASSUME LoopTypes, StreakInv, NEW error \in Errors,
         outcomes' = Append(outcomes, error), last' = error,
         count' = IF error = last THEN count + 1 ELSE 1
  PROVE  StreakInv'
<1> DEFINE n == Len(outcomes)
<1>1. /\ n \in Nat /\ Len(outcomes') = n + 1 /\ outcomes'[n + 1] = error
      /\ \A i \in 1..n : outcomes'[i] = outcomes[i]
  BY DEF LoopTypes
<1>2. error # None /\ error # "ok"
  BY NoneAssumption
<1>3. CASE error = last
  <2>1. count' = count + 1 /\ count \in Nat /\ count > 0 /\ count <= n
    BY <1>2, <1>3 DEF LoopTypes, StreakInv
  <2>2. \A i \in n - count + 1 .. n + 1 : outcomes'[i] = error
    <3> SUFFICES ASSUME NEW i \in n - count + 1 .. n + 1 PROVE outcomes'[i] = error
      OBVIOUS
    <3>1. CASE i = n + 1
      BY <1>1, <3>1
    <3>2. CASE i # n + 1
      <4>1. i \in n - count + 1 .. n /\ i \in 1..n
        BY <1>1, <2>1, <3>2
      <4> QED
        BY <1>1, <1>3, <4>1 DEF StreakInv
    <3> QED
      BY <3>1, <3>2
  <2>3. count' < Len(outcomes') => outcomes'[Len(outcomes') - count'] # last'
    <3> SUFFICES ASSUME count' < Len(outcomes')
                 PROVE  outcomes'[Len(outcomes') - count'] # last'
      OBVIOUS
    <3>1. Len(outcomes') - count' = n - count /\ n - count \in 1..n
      BY <1>1, <2>1
    <3>2. outcomes[n - count] # last
      BY <1>1, <2>1, <3>1 DEF StreakInv
    <3> QED
      BY <1>1, <1>3, <3>1, <3>2
  <2>4. \A i \in Len(outcomes') - count' + 1 .. Len(outcomes') : outcomes'[i] = last'
    <3>1. Len(outcomes') - count' + 1 = n - count + 1
      BY <1>1, <2>1
    <3> QED
      BY <1>1, <2>2, <3>1
  <2>5. count' # 0 /\ last' # None /\ count' <= Len(outcomes')
    BY <1>1, <1>2, <2>1
  <2> QED
    BY <2>3, <2>4, <2>5 DEF StreakInv
<1>4. CASE error # last
  <2>1. count' = 1
    BY <1>4
  <2>2. \A i \in n + 1 - 1 + 1 .. n + 1 : outcomes'[i] = error
    BY <1>1
  <2>3. 1 < n + 1 => outcomes'[n] # error
    <3> SUFFICES ASSUME n \in 1..n PROVE outcomes[n] # error
      BY <1>1
    <3>1. CASE count = 0
      BY <1>1, <1>2, <3>1 DEF StreakInv
    <3>2. CASE count # 0
      <4>1. n \in n - count + 1 .. n
        BY <1>1, <3>2 DEF LoopTypes
      <4> QED
        BY <1>4, <4>1 DEF StreakInv
    <3> QED
      BY <3>1, <3>2
  <2> QED
    BY <1>1, <1>2, <2>1, <2>2, <2>3 DEF StreakInv
<1> QED
  BY <1>3, <1>4

\* The streak is what the breaker is to look for.
LEMMA StreakIsSameFailures ==
  ASSUME LoopTypes, StreakInv, count <= FailureThreshold
  PROVE  SameFailures(FailureThreshold) <=> count = FailureThreshold
<1> DEFINE n == Len(outcomes)
           F == FailureThreshold
<1>1. n \in Nat /\ F \in Nat /\ F > 0 /\ count \in Nat
  BY ThresholdAssumption DEF LoopTypes
<1>2. ASSUME count = F PROVE SameFailures(F)
  <2>1. last \in Errors /\ n >= F
    BY <1>1, <1>2 DEF LoopTypes, StreakInv
  <2>2. \A i \in n - F + 1 .. n : outcomes[i] = last
    BY <1>2 DEF StreakInv
  <2> QED
    BY <2>1, <2>2 DEF SameFailures
<1>3. ASSUME SameFailures(F), count # F PROVE FALSE
  <2>1. PICK error \in Errors : \A i \in n - F + 1 .. n : outcomes[i] = error
    BY <1>3 DEF SameFailures
  <2>2. n >= F /\ count < F
    BY <1>1, <1>3 DEF SameFailures
  <2>3. outcomes[n] = error /\ outcomes # <<>>
    <3>1. n \in n - F + 1 .. n
      BY <1>1
    <3>2. outcomes # <<>>
      BY <1>1, <2>2
    <3> QED
      BY <2>1, <3>1, <3>2
  <2>4. count # 0
    BY <2>3, NoneAssumption DEF StreakInv
  <2>5. last = error
    <3>1. n \in n - count + 1 .. n
      BY <1>1, <2>4
    <3> QED
      BY <2>3, <3>1 DEF StreakInv
  <2>6. outcomes[n - count] # last
    BY <1>1, <2>2, <2>4 DEF StreakInv
  <2>7. n - count \in n - F + 1 .. n
    BY <1>1, <2>2
  <2> QED
    BY <2>1, <2>5, <2>6, <2>7
<1> QED
  BY <1>2, <1>3

-----------------------------------------------------------------------------
(* The loop: the invariant holds initially and every action preserves it.  *)

LEMMA LoopInitInv == LoopInit => LoopInv
<1> SUFFICES ASSUME LoopInit PROVE LoopInv
  OBVIOUS
<1>1. LoopTypes
  <2>1. <<>> \in Seq(Errors \cup {"ok"}) /\ 0 \in 0..MaxHeartbeats
    BY HeartbeatsAssumption
  <2> QED
    BY <2>1, NoOverrunType DEF LoopInit, LoopTypes, Steps
<1>2. StreakInv
  <2>1. Len(outcomes) = 0 /\ outcomes = <<>> /\ count = 0 /\ last = None
    BY DEF LoopInit
  <2> QED
    BY <2>1 DEF StreakInv
<1>3. CountInv /\ SleepInv /\ OverrunInv
  BY ThresholdAssumption, IntervalAssumption, NoOverrunType
     DEF LoopInit, CountInv, SleepInv, OverrunInv, StopIsPrompt, Steps
<1> QED
  BY <1>1, <1>2, <1>3 DEF LoopInv

\* What a step that ends no heartbeat leaves of the streak.
LEMMA StreakKeeps ==
  ASSUME StreakInv, UNCHANGED <<last, count, outcomes>>
  PROVE  StreakInv'
BY DEF StreakInv

LEMMA LoopNextInv == LoopInv /\ [LoopNext]_loopVars => LoopInv'
<1> SUFFICES ASSUME LoopInv, [LoopNext]_loopVars PROVE LoopInv'
  OBVIOUS
<1> USE DEF LoopInv
<1>1. CASE While
  <2>1. StreakInv'
    BY <1>1, StreakKeeps DEF While
  <2> QED
    BY <1>1, <2>1, HeartbeatsAssumption
       DEF While, LoopTypes, CountInv, SleepInv, OverrunInv, StopIsPrompt, Steps, Ends
<1>2. CASE Succeeds
  <2>1. StreakInv'
    BY <1>2, SuccessStreak DEF Succeeds, Ran
  <2>2. overrun = NoOverrun /\ overrun' = [overrun EXCEPT !.heartbeats = IF stop THEN @ + 1 ELSE @]
    BY <1>2 DEF Succeeds, Ran, OverrunInv
  <2>3. OverrunInv' /\ overrun' \in [heartbeats: Nat, ticks: Nat]
    BY <1>2, <2>2, NoOverrunType DEF Succeeds, Ran, OverrunInv, StopIsPrompt, NoOverrun, LoopTypes
  <2>4. outcomes' \in Seq(Errors \cup {"ok"})
    BY <1>2 DEF Succeeds, Ran, LoopTypes
  <2>5. LoopTypes'
    BY <1>2, <2>3, <2>4 DEF Succeeds, LoopTypes, Steps
  <2>6. CountInv' /\ SleepInv'
    BY <1>2, ThresholdAssumption DEF Succeeds, CountInv, SleepInv, Steps
  <2> QED
    BY <2>1, <2>3, <2>5, <2>6
<1>3. CASE Fails
  <2>1. PICK error \in Errors : /\ Ran(error)
                                /\ last' = error
                                /\ count' = IF error = last THEN count + 1 ELSE 1
    BY <1>3 DEF Fails
  <2>2. StreakInv'
    BY <2>1, FailureStreak DEF Ran
  <2>3. overrun = NoOverrun /\ overrun' = [overrun EXCEPT !.heartbeats = IF stop THEN @ + 1 ELSE @]
    BY <2>1 DEF Ran, OverrunInv
  <2>4. OverrunInv' /\ overrun' \in [heartbeats: Nat, ticks: Nat]
    BY <1>3, <2>3, NoOverrunType DEF Fails, OverrunInv, StopIsPrompt, NoOverrun, LoopTypes
  <2>5. outcomes' \in Seq(Errors \cup {"ok"})
    BY <2>1 DEF Ran, LoopTypes
  <2>6. count < FailureThreshold /\ count \in Nat
    BY <2>1 DEF Ran, CountInv, Steps, LoopTypes
  <2>7. LoopTypes'
    BY <1>3, <2>1, <2>4, <2>5, <2>6 DEF Fails, LoopTypes, Steps
  <2>8. CountInv' /\ SleepInv'
    BY <1>3, <2>1, <2>6, ThresholdAssumption DEF Fails, CountInv, SleepInv, Steps
  <2> QED
    BY <2>2, <2>4, <2>7, <2>8
<1>4. CASE Break
  <2>1. StreakInv'
    BY <1>4, StreakKeeps DEF Break
  <2> QED
    BY <1>4, <2>1, ThresholdAssumption
       DEF Break, LoopTypes, CountInv, SleepInv, OverrunInv, StopIsPrompt, Steps, Ends
<1>5. CASE After \/ Sleep
  <2>1. StreakInv'
    BY <1>5, StreakKeeps DEF After, Sleep
  <2> QED
    BY <1>5, <2>1, IntervalAssumption
       DEF After, Sleep, LoopTypes, CountInv, SleepInv, OverrunInv, StopIsPrompt, Steps, Ends
<1>6. CASE Tick
  <2>1. StreakInv'
    BY <1>6, StreakKeeps DEF Tick
  <2>2. overrun = NoOverrun /\ overrun' = [overrun EXCEPT !.ticks = IF stop THEN @ + 1 ELSE @]
    BY <1>6 DEF Tick, OverrunInv
  <2>3. OverrunInv' /\ overrun' \in [heartbeats: Nat, ticks: Nat]
    BY <1>6, <2>2, NoOverrunType DEF Tick, OverrunInv, StopIsPrompt, NoOverrun, LoopTypes
  <2>4. LoopTypes' /\ CountInv' /\ SleepInv'
    BY <1>6, <2>3, IntervalAssumption DEF Tick, LoopTypes, CountInv, SleepInv, Steps, Ends
  <2> QED
    BY <2>1, <2>3, <2>4
<1>7. CASE Signal
  <2>1. StreakInv'
    BY <1>7, StreakKeeps DEF Signal
  <2> QED
    BY <1>7, <2>1 DEF Signal, LoopTypes, CountInv, SleepInv, OverrunInv, StopIsPrompt, Steps, Ends
<1>8. CASE UNCHANGED loopVars
  <2>1. StreakInv'
    BY <1>8, StreakKeeps DEF loopVars
  <2> QED
    BY <1>8, <2>1 DEF loopVars, LoopTypes, CountInv, SleepInv, OverrunInv, StopIsPrompt
<1> QED
  BY <1>1, <1>2, <1>3, <1>4, <1>5, <1>6, <1>7, <1>8 DEF LoopNext, Loop

-----------------------------------------------------------------------------
(* The loop: theorems.                                                     *)

\* The invariant that the theorems below follow from.
THEOREM LoopInvariant == LoopSpec => []LoopInv
BY LoopInitInv, LoopNextInv, PTL DEF LoopSpec

\* The variables keep their types: the breaker never counts past its threshold,
\* the loop never sleeps past its interval.
THEOREM LoopTypeCorrect == LoopSpec => []LoopTypeOK
<1>1. LoopInv => LoopTypeOK
  BY ThresholdAssumption, IntervalAssumption
     DEF LoopInv, LoopTypes, CountInv, SleepInv, LoopTypeOK
<1> QED
  BY <1>1, LoopInvariant, PTL

\* The loop gives up on FailureThreshold identical failures in a row and on
\* nothing else (_run_heartbeat_loop).
THEOREM BreakerIsExact == LoopSpec => []BreakerExact
<1>1. LoopInv => BreakerExact
  <2> SUFFICES ASSUME LoopInv PROVE BreakerExact
    OBVIOUS
  <2>1. SameFailures(FailureThreshold) <=> count = FailureThreshold
    BY StreakIsSameFailures DEF LoopInv, CountInv
  <2>2. step \in {"while", "after", "sleep", "tick"} => count # FailureThreshold
    BY ThresholdAssumption DEF LoopInv, CountInv, LoopTypes, Steps
  <2> QED
    BY <2>1, <2>2 DEF LoopInv, CountInv, BreakerExact
<1> QED
  BY <1>1, LoopInvariant, PTL

\* After a stop (the handler of SIGINT and SIGTERM) at most one heartbeat and at
\* most one second of sleep end: the one under way, or the one that begins since
\* the flag had been checked just before.
THEOREM StopPrompt == LoopSpec => []StopIsPrompt
<1>1. LoopInv => StopIsPrompt
  BY DEF LoopInv, OverrunInv
<1> QED
  BY <1>1, LoopInvariant, PTL
=============================================================================
