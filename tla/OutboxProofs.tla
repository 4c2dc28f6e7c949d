---------------------------- MODULE OutboxProofs ----------------------------
(***************************************************************************)
(* The outbox's safety properties for any set of decisions, any number of  *)
(* processes and any bound on attempts, and that it implements OrderOnce.  *)
(***************************************************************************)
EXTENDS Outbox, TLAPS

-----------------------------------------------------------------------------
(* Lemmas about the operators.                                             *)

\* A process at rest is a well-formed process state, and needs nothing.
LEMMA RestingType ==
  ASSUME NEW step \in Steps
  PROVE  Resting(step) \in ProcStates
BY MaxAttemptsAssumption DEF Resting, ProcStates, RefuseModes

\* What a step of one process does to all of them.
LEMMA ProcStep ==
  ASSUME proc \in [Procs -> ProcStates], NEW p \in Procs, NEW me \in ProcStates,
         Becomes(p, me)
  PROVE  /\ proc' \in [Procs -> ProcStates]
         /\ proc'[p] = me
         /\ \A q \in Procs \ {p} : proc'[q] = proc[q]
BY DEF Becomes

\* A step that only adds decisions, rows and orders disturbs no other process.
LEMMA ProcInvStep ==
  ASSUME OutboxInv, NEW p \in Procs,
         \A q \in Procs \ {p} : proc'[q] = proc[q],
         decided \subseteq decided',
         \A d \in Decisions : status[d] # "none" => status'[d] # "none",
         orders \subseteq orders',
         ProcOK(proc[p])'
  PROVE  ProcInv'
<1> SUFFICES ASSUME NEW q \in Procs, q # p
             PROVE  ProcOK(proc[q])'
  BY DEF ProcInv
<1>1. ProcOK(proc[q]) /\ proc[q] \in ProcStates /\ proc'[q] = proc[q]
  BY DEF OutboxInv, ProcInv, TypeOK
<1> QED
  BY <1>1 DEF ProcOK, ProcStates

\* A request that reaches the broker leaves its book well-formed, adds nothing
\* but an order under its key, and keeps one order per key.
LEMMA TakesOnce ==
  ASSUME OutboxInv, NEW k \in Decisions, Takes(k)
  PROVE  /\ orders' \subseteq [key: Decisions, id: Nat]
         /\ issued' \in Nat
         /\ orders \subseteq orders'
         /\ \A o \in orders' : o \in orders \/ o.key = k
         /\ AtMostOneOrder'
<1>1. CASE Known(k) /\ UNCHANGED <<orders, issued>>
  BY <1>1 DEF OutboxInv, TypeOK, AtMostOneOrder
<1>2. CASE /\ ~Known(k)
           /\ orders' = orders \cup {[key |-> k, id |-> issued + 1]}
           /\ issued' = issued + 1
  BY <1>2 DEF OutboxInv, TypeOK, AtMostOneOrder, Known
<1> QED
  BY <1>1, <1>2 DEF Takes

-----------------------------------------------------------------------------
(* The invariant holds initially and every action preserves it.            *)

LEMMA InitInv == Init => OutboxInv
<1> SUFFICES ASSUME Init
             PROVE  OutboxInv
  OBVIOUS
<1>1. Resting("idle") \in ProcStates
  BY RestingType DEF Steps
<1>2. TypeOK
  BY <1>1 DEF Init, TypeOK
<1>3. ProcInv
  BY MaxAttemptsAssumption DEF Init, ProcInv, ProcOK, Resting
<1>4. AtMostOneOrder /\ OrderHasIntent /\ ConfirmedIsFilled /\ RowInv
  BY DEF Init, AtMostOneOrder, OrderHasIntent, ConfirmedIsFilled, RowInv
<1> QED
  BY <1>2, <1>3, <1>4 DEF OutboxInv

LEMMA ExecuteInv ==
  ASSUME OutboxInv, NEW p \in Procs, NEW d \in Decisions, Execute(p, d)
  PROVE  OutboxInv'
<1> DEFINE me == [proc[p] EXCEPT !.at = "insert", !.decision = d]
<1> USE DEF Execute, brokerVars
<1>1. proc[p] \in ProcStates /\ proc[p].at = "idle" /\ ProcOK(proc[p])
  BY DEF OutboxInv, TypeOK, ProcInv
<1>2. me \in ProcStates
  BY <1>1 DEF ProcStates, Steps
<1>3. /\ proc' \in [Procs -> ProcStates]
      /\ proc'[p] = me
      /\ \A q \in Procs \ {p} : proc'[q] = proc[q]
  BY <1>2, ProcStep DEF OutboxInv, TypeOK
<1>4. TypeOK'
  BY <1>1, <1>3 DEF OutboxInv, TypeOK, ProcStates
<1>5. ProcOK(proc[p])'
  BY <1>1, <1>3 DEF ProcOK, ProcStates
<1>6. ProcInv'
  BY <1>1, <1>3, <1>5, ProcInvStep
<1>7. AtMostOneOrder' /\ OrderHasIntent' /\ ConfirmedIsFilled' /\ RowInv'
  BY <1>1 DEF OutboxInv, AtMostOneOrder, OrderHasIntent, ConfirmedIsFilled, RowInv
<1> QED
  BY <1>4, <1>6, <1>7 DEF OutboxInv

LEMMA InsertRowInv ==
  ASSUME OutboxInv, NEW p \in Procs, InsertRow(p)
  PROVE  OutboxInv'
<1> DEFINE d  == proc[p].decision
           me == IF status[d] = "confirmed" THEN Resting("idle")
                 ELSE [proc[p] EXCEPT !.at = "submit"]
<1> USE DEF InsertRow, brokerVars
<1>1. /\ proc[p] \in ProcStates /\ proc[p].at = "insert" /\ ProcOK(proc[p])
      /\ d \in Decisions /\ d \in decided
      /\ status \in [Decisions -> {"none", "pending", "confirmed"}]
  BY DEF OutboxInv, TypeOK, ProcInv, ProcOK
<1>2. me \in ProcStates
  BY <1>1, RestingType DEF ProcStates, Steps
<1>3. /\ proc' \in [Procs -> ProcStates]
      /\ proc'[p] = me
      /\ \A q \in Procs \ {p} : proc'[q] = proc[q]
  BY <1>2, ProcStep DEF OutboxInv, TypeOK
<1>4. /\ status' \in [Decisions -> {"none", "pending", "confirmed"}]
      /\ status'[d] # "none"
      /\ \A e \in Decisions : /\ status[e] # "none" => status'[e] = status[e]
                              /\ status'[e] = "confirmed" => status[e] = "confirmed"
                              /\ status'[e] # "none" => e = d \/ status[e] # "none"
  BY <1>1
<1>5. TypeOK'
  BY <1>3, <1>4 DEF OutboxInv, TypeOK
<1>6. ProcOK(proc[p])'
  <2>1. CASE status[d] = "confirmed"
    BY <1>3, <2>1, MaxAttemptsAssumption DEF ProcOK, Resting
  <2>2. CASE status[d] # "confirmed"
    <3>1. /\ proc'[p].at = "submit" /\ proc'[p].decision = d
          /\ proc'[p].todo = proc[p].todo /\ proc'[p].attempts = proc[p].attempts
      BY <1>1, <1>3, <2>2 DEF ProcStates
    <3>2. \A e \in proc[p].todo : status'[e] # "none"
      BY <1>1, <1>4 DEF ProcOK, ProcStates
    <3> QED
      BY <1>1, <1>4, <3>1, <3>2 DEF ProcOK
  <2> QED
    BY <2>1, <2>2
<1>7. ProcInv'
  BY <1>1, <1>3, <1>4, <1>6, ProcInvStep
<1>8. AtMostOneOrder' /\ ConfirmedIsFilled'
  BY <1>4 DEF OutboxInv, AtMostOneOrder, ConfirmedIsFilled
<1>9. OrderHasIntent' /\ RowInv'
  BY <1>1, <1>4 DEF OutboxInv, TypeOK, OrderHasIntent, RowInv
<1> QED
  BY <1>5, <1>7, <1>8, <1>9 DEF OutboxInv

LEMMA DeniedInv ==
  ASSUME OutboxInv, NEW p \in Procs, Denied(p)
  PROVE  OutboxInv'
<1> DEFINE me == [proc[p] EXCEPT !.at = "refuse", !.mode = "tool_permission_denied"]
<1> USE DEF Denied, dbVars, brokerVars
<1>1. proc[p] \in ProcStates /\ proc[p].at = "submit" /\ ProcOK(proc[p])
  BY DEF OutboxInv, TypeOK, ProcInv
<1>2. me \in ProcStates
  BY <1>1 DEF ProcStates, Steps, RefuseModes
<1>3. /\ proc' \in [Procs -> ProcStates]
      /\ proc'[p] = me
      /\ \A q \in Procs \ {p} : proc'[q] = proc[q]
  BY <1>2, ProcStep DEF OutboxInv, TypeOK
<1>4. TypeOK'
  BY <1>1, <1>3 DEF OutboxInv, TypeOK, ProcStates
<1>5. ProcOK(proc[p])'
  BY <1>1, <1>3 DEF ProcOK, ProcStates
<1>6. ProcInv'
  BY <1>1, <1>3, <1>5, ProcInvStep
<1>7. AtMostOneOrder' /\ OrderHasIntent' /\ ConfirmedIsFilled' /\ RowInv'
  BY <1>1 DEF OutboxInv, AtMostOneOrder, OrderHasIntent, ConfirmedIsFilled, RowInv
<1> QED
  BY <1>4, <1>6, <1>7 DEF OutboxInv

LEMMA PersistRefuseInv ==
  ASSUME OutboxInv, NEW p \in Procs, PersistRefuse(p)
  PROVE  OutboxInv'
<1> DEFINE me == Resting("idle")
<1> USE DEF PersistRefuse, brokerVars
<1>1. proc[p] \in ProcStates /\ proc[p].at = "refuse" /\ ProcOK(proc[p])
  BY DEF OutboxInv, TypeOK, ProcInv
<1>2. me \in ProcStates
  BY <1>1, RestingType DEF Steps
<1>3. /\ proc' \in [Procs -> ProcStates]
      /\ proc'[p] = me
      /\ \A q \in Procs \ {p} : proc'[q] = proc[q]
  BY <1>2, ProcStep DEF OutboxInv, TypeOK
<1>4. TypeOK'
  <2>1. <<proc[p].decision, proc[p].mode>> \in Decisions \X RefuseModes
    BY <1>1 DEF ProcOK, ProcStates
  <2>2. refused' \subseteq Decisions \X RefuseModes
    BY <2>1 DEF OutboxInv, TypeOK
  <2> QED
    BY <1>3, <2>2 DEF OutboxInv, TypeOK
<1>5. ProcOK(proc[p])'
  BY <1>1, <1>3, MaxAttemptsAssumption DEF ProcOK, ProcStates, Resting
<1>6. ProcInv'
  BY <1>1, <1>3, <1>5, ProcInvStep
<1>7. AtMostOneOrder' /\ OrderHasIntent' /\ ConfirmedIsFilled' /\ RowInv'
  BY <1>1 DEF OutboxInv, AtMostOneOrder, OrderHasIntent, ConfirmedIsFilled, RowInv
<1> QED
  BY <1>4, <1>6, <1>7 DEF OutboxInv

LEMMA RecoverStartInv ==
  ASSUME OutboxInv, NEW p \in Procs, RecoverStart(p)
  PROVE  OutboxInv'
<1> DEFINE me == [Resting("recover") EXCEPT !.todo = {d \in Decisions : status[d] = "pending"}]
<1> USE DEF RecoverStart, dbVars, brokerVars
<1>1. proc[p] \in ProcStates /\ proc[p].at = "idle" /\ ProcOK(proc[p])
  BY DEF OutboxInv, TypeOK, ProcInv
<1>2. me \in ProcStates
  BY <1>1, RestingType DEF Steps, ProcStates
<1>3. /\ proc' \in [Procs -> ProcStates]
      /\ proc'[p] = me
      /\ \A q \in Procs \ {p} : proc'[q] = proc[q]
  BY <1>2, ProcStep DEF OutboxInv, TypeOK
<1>4. TypeOK'
  BY <1>1, <1>3 DEF OutboxInv, TypeOK, ProcStates
<1>5. ProcOK(proc[p])'
  BY <1>1, <1>3, MaxAttemptsAssumption DEF ProcOK, ProcStates, Resting
<1>6. ProcInv'
  BY <1>1, <1>3, <1>5, ProcInvStep
<1>7. AtMostOneOrder' /\ OrderHasIntent' /\ ConfirmedIsFilled' /\ RowInv'
  BY <1>1 DEF OutboxInv, AtMostOneOrder, OrderHasIntent, ConfirmedIsFilled, RowInv
<1> QED
  BY <1>4, <1>6, <1>7 DEF OutboxInv

LEMMA RecoverDoneInv ==
  ASSUME OutboxInv, NEW p \in Procs, RecoverDone(p)
  PROVE  OutboxInv'
<1> DEFINE me == Resting("idle")
<1> USE DEF RecoverDone, dbVars, brokerVars
<1>1. proc[p] \in ProcStates /\ proc[p].at = "recover" /\ ProcOK(proc[p])
  BY DEF OutboxInv, TypeOK, ProcInv
<1>2. me \in ProcStates
  BY <1>1, RestingType DEF Steps
<1>3. /\ proc' \in [Procs -> ProcStates]
      /\ proc'[p] = me
      /\ \A q \in Procs \ {p} : proc'[q] = proc[q]
  BY <1>2, ProcStep DEF OutboxInv, TypeOK
<1>4. TypeOK'
  BY <1>1, <1>3 DEF OutboxInv, TypeOK, ProcStates
<1>5. ProcOK(proc[p])'
  BY <1>1, <1>3, MaxAttemptsAssumption DEF ProcOK, ProcStates, Resting
<1>6. ProcInv'
  BY <1>1, <1>3, <1>5, ProcInvStep
<1>7. AtMostOneOrder' /\ OrderHasIntent' /\ ConfirmedIsFilled' /\ RowInv'
  BY <1>1 DEF OutboxInv, AtMostOneOrder, OrderHasIntent, ConfirmedIsFilled, RowInv
<1> QED
  BY <1>4, <1>6, <1>7 DEF OutboxInv

LEMMA BootInv ==
  ASSUME OutboxInv, NEW p \in Procs, Boot(p)
  PROVE  OutboxInv'
<1> DEFINE me == Resting("idle")
<1> USE DEF Boot, dbVars, brokerVars
<1>1. proc[p] \in ProcStates /\ proc[p].at = "down" /\ ProcOK(proc[p])
  BY DEF OutboxInv, TypeOK, ProcInv
<1>2. me \in ProcStates
  BY <1>1, RestingType DEF Steps
<1>3. /\ proc' \in [Procs -> ProcStates]
      /\ proc'[p] = me
      /\ \A q \in Procs \ {p} : proc'[q] = proc[q]
  BY <1>2, ProcStep DEF OutboxInv, TypeOK
<1>4. TypeOK'
  BY <1>1, <1>3 DEF OutboxInv, TypeOK, ProcStates
<1>5. ProcOK(proc[p])'
  BY <1>1, <1>3, MaxAttemptsAssumption DEF ProcOK, ProcStates, Resting
<1>6. ProcInv'
  BY <1>1, <1>3, <1>5, ProcInvStep
<1>7. AtMostOneOrder' /\ OrderHasIntent' /\ ConfirmedIsFilled' /\ RowInv'
  BY <1>1 DEF OutboxInv, AtMostOneOrder, OrderHasIntent, ConfirmedIsFilled, RowInv
<1> QED
  BY <1>4, <1>6, <1>7 DEF OutboxInv

LEMMA AnsweredInv ==
  ASSUME OutboxInv, NEW p \in Procs, Answered(p)
  PROVE  OutboxInv'
<1> DEFINE d == proc[p].decision
<1> USE DEF dbVars
<1>1. /\ proc[p] \in ProcStates /\ proc[p].at \in {"submit", "resubmit"}
      /\ ProcOK(proc[p])
      /\ d \in Decisions /\ status[d] # "none" /\ d \in decided
      /\ Takes(d)
      /\ UNCHANGED <<decided, refused, status, result, delayed>>
  BY DEF OutboxInv, TypeOK, ProcInv, ProcOK, RowInv, Answered, SubmitKey
<1>2. /\ orders' \subseteq [key: Decisions, id: Nat]
      /\ issued' \in Nat
      /\ orders \subseteq orders'
      /\ \A o \in orders' : o \in orders \/ o.key = d
      /\ AtMostOneOrder'
  BY <1>1, TakesOnce
<1>3. PICK o \in orders' :
        /\ o.key = d
        /\ Becomes(p, [proc[p] EXCEPT
                         !.at = IF @ = "submit" THEN "confirm" ELSE "reconfirm",
                         !.answer = o.id])
  BY DEF Answered, SubmitKey
<1> DEFINE me == [proc[p] EXCEPT
                    !.at = IF @ = "submit" THEN "confirm" ELSE "reconfirm",
                    !.answer = o.id]
<1>4. o = [key |-> d, id |-> o.id] /\ o.id \in Nat
  BY <1>2, <1>3
<1>5. me \in ProcStates
  BY <1>1, <1>4 DEF ProcStates, Steps
<1>6. /\ proc' \in [Procs -> ProcStates]
      /\ proc'[p] = me
      /\ \A q \in Procs \ {p} : proc'[q] = proc[q]
  BY <1>3, <1>5, ProcStep DEF OutboxInv, TypeOK
<1>7. TypeOK'
  BY <1>1, <1>2, <1>6 DEF OutboxInv, TypeOK
<1>8. /\ proc'[p].at \in {"confirm", "reconfirm"}
      /\ proc'[p].decision = d /\ proc'[p].answer = o.id
      /\ proc'[p].todo = proc[p].todo
  BY <1>1, <1>6 DEF ProcStates
<1>9. ProcOK(proc[p])'
  BY <1>1, <1>4, <1>8 DEF ProcOK
<1>10. ProcInv'
  BY <1>1, <1>2, <1>6, <1>9, ProcInvStep
<1>11. OrderHasIntent' /\ ConfirmedIsFilled' /\ RowInv'
  BY <1>1, <1>2 DEF OutboxInv, OrderHasIntent, ConfirmedIsFilled, RowInv
<1> QED
  BY <1>2, <1>7, <1>10, <1>11 DEF OutboxInv

\* A call given up leaves at most a request for a row that is there.
LEMMA OnItsWay ==
  ASSUME OutboxInv, NEW p \in Procs, MayBeOnItsWay(p),
         proc[p].at \in {"submit", "resubmit"}
  PROVE  /\ delayed' \subseteq Decisions
         /\ \A k \in delayed' : status[k] # "none"
<1>1. proc[p].decision \in Decisions /\ status[proc[p].decision] # "none"
  BY DEF OutboxInv, ProcInv, ProcOK
<1> QED
  BY <1>1 DEF OutboxInv, TypeOK, RowInv, MayBeOnItsWay, SubmitKey

LEMMA AttemptRaisesInv ==
  ASSUME OutboxInv, NEW p \in Procs, AttemptRaises(p)
  PROVE  OutboxInv'
<1> DEFINE me == [proc[p] EXCEPT !.attempts = @ + 1,
                                 !.at = IF proc[p].attempts + 1 = MaxAttempts
                                          THEN "refuse" ELSE "submit"]
<1> USE DEF AttemptRaises, dbVars
<1>1. proc[p] \in ProcStates /\ proc[p].at = "submit" /\ ProcOK(proc[p])
  BY DEF OutboxInv, TypeOK, ProcInv
<1>2. proc[p].attempts \in Nat /\ proc[p].attempts < MaxAttempts
  BY <1>1, MaxAttemptsAssumption DEF ProcOK, ProcStates
<1>3. me \in ProcStates
  <2>1. proc[p].attempts + 1 \in 0 .. MaxAttempts
    BY <1>2, MaxAttemptsAssumption
  <2>2. (IF proc[p].attempts + 1 = MaxAttempts THEN "refuse" ELSE "submit") \in Steps
    BY DEF Steps
  <2> QED
    BY <1>1, <2>1, <2>2 DEF ProcStates
<1>4. /\ proc' \in [Procs -> ProcStates]
      /\ proc'[p] = me
      /\ \A q \in Procs \ {p} : proc'[q] = proc[q]
  BY <1>3, ProcStep DEF OutboxInv, TypeOK
<1>5. /\ delayed' \subseteq Decisions
      /\ \A k \in delayed' : status[k] # "none"
  BY <1>1, OnItsWay
<1>6. TypeOK'
  BY <1>4, <1>5 DEF OutboxInv, TypeOK
<1>7. ProcOK(proc[p])'
  BY <1>1, <1>2, <1>4, MaxAttemptsAssumption DEF ProcOK, ProcStates
<1>8. ProcInv'
  BY <1>4, <1>7, ProcInvStep
<1>9. AtMostOneOrder' /\ OrderHasIntent' /\ ConfirmedIsFilled' /\ RowInv'
  BY <1>5 DEF OutboxInv, AtMostOneOrder, OrderHasIntent, ConfirmedIsFilled, RowInv
<1> QED
  BY <1>6, <1>8, <1>9 DEF OutboxInv

LEMMA RecoverNextInv ==
  ASSUME OutboxInv, NEW p \in Procs, RecoverNext(p)
  PROVE  OutboxInv'
<1> USE DEF dbVars, brokerVars
<1>1. /\ proc[p] \in ProcStates /\ proc[p].at = "recover" /\ ProcOK(proc[p])
      /\ UNCHANGED <<dbVars, brokerVars>>
  BY DEF OutboxInv, TypeOK, ProcInv, RecoverNext
<1>2. PICK d \in proc[p].todo :
        Becomes(p, [proc[p] EXCEPT !.at = "resubmit", !.decision = d, !.todo = @ \ {d}])
  BY DEF RecoverNext
<1> DEFINE me == [proc[p] EXCEPT !.at = "resubmit", !.decision = d, !.todo = @ \ {d}]
<1>3. d \in Decisions /\ status[d] # "none"
  BY <1>1 DEF ProcOK, ProcStates
<1>4. me \in ProcStates
  BY <1>1, <1>3 DEF ProcStates, Steps
<1>5. /\ proc' \in [Procs -> ProcStates]
      /\ proc'[p] = me
      /\ \A q \in Procs \ {p} : proc'[q] = proc[q]
  BY <1>2, <1>4, ProcStep DEF OutboxInv, TypeOK
<1>6. TypeOK'
  BY <1>1, <1>5 DEF OutboxInv, TypeOK
<1>7. ProcOK(proc[p])'
  BY <1>1, <1>3, <1>5 DEF ProcOK, ProcStates
<1>8. ProcInv'
  BY <1>1, <1>5, <1>7, ProcInvStep
<1>9. AtMostOneOrder' /\ OrderHasIntent' /\ ConfirmedIsFilled' /\ RowInv'
  BY <1>1 DEF OutboxInv, AtMostOneOrder, OrderHasIntent, ConfirmedIsFilled, RowInv
<1> QED
  BY <1>6, <1>8, <1>9 DEF OutboxInv

LEMMA RecoverRaisesInv ==
  ASSUME OutboxInv, NEW p \in Procs, RecoverRaises(p)
  PROVE  OutboxInv'
<1> DEFINE me == Resting("idle")
<1> USE DEF RecoverRaises, dbVars
<1>1. me \in ProcStates
  BY RestingType DEF Steps
<1>2. /\ proc' \in [Procs -> ProcStates]
      /\ proc'[p] = me
      /\ \A q \in Procs \ {p} : proc'[q] = proc[q]
  BY <1>1, ProcStep DEF OutboxInv, TypeOK
<1>3. /\ delayed' \subseteq Decisions
      /\ \A k \in delayed' : status[k] # "none"
  <2>1. CASE MayBeOnItsWay(p)
    BY <2>1, OnItsWay
  <2>2. CASE UNCHANGED delayed
    BY <2>2 DEF OutboxInv, TypeOK, RowInv
  <2> QED
    BY <2>1, <2>2
<1>4. TypeOK'
  BY <1>2, <1>3 DEF OutboxInv, TypeOK
<1>5. ProcOK(proc[p])'
  BY <1>2, MaxAttemptsAssumption DEF ProcOK, Resting
<1>6. ProcInv'
  BY <1>2, <1>5, ProcInvStep
<1>7. AtMostOneOrder' /\ OrderHasIntent' /\ ConfirmedIsFilled' /\ RowInv'
  BY <1>3 DEF OutboxInv, AtMostOneOrder, OrderHasIntent, ConfirmedIsFilled, RowInv
<1> QED
  BY <1>4, <1>6, <1>7 DEF OutboxInv

LEMMA ConfirmInv ==
  ASSUME OutboxInv, NEW p \in Procs, Confirm(p)
  PROVE  OutboxInv'
<1> DEFINE d  == proc[p].decision
           me == IF proc[p].at = "confirm" THEN Resting("idle")
                 ELSE [Resting("recover") EXCEPT !.todo = proc[p].todo]
<1> USE DEF Confirm, brokerVars
<1>1. /\ proc[p] \in ProcStates /\ proc[p].at \in {"confirm", "reconfirm"}
      /\ ProcOK(proc[p])
      /\ d \in Decisions /\ status[d] # "none"
      /\ [key |-> d, id |-> proc[p].answer] \in orders
      /\ status \in [Decisions -> {"none", "pending", "confirmed"}]
      /\ result \in [Decisions -> Nat \cup {None}]
  BY DEF OutboxInv, TypeOK, ProcInv, ProcOK
<1>2. Resting("idle") \in ProcStates /\ Resting("recover") \in ProcStates
  BY RestingType DEF Steps
<1>3. me \in ProcStates
  <2>1. [Resting("recover") EXCEPT !.todo = proc[p].todo] \in ProcStates
    BY <1>1, <1>2 DEF ProcStates
  <2> QED
    BY <1>2, <2>1
<1>4. /\ proc' \in [Procs -> ProcStates]
      /\ proc'[p] = me
      /\ \A q \in Procs \ {p} : proc'[q] = proc[q]
  BY <1>3, ProcStep DEF OutboxInv, TypeOK
<1>5. /\ status' \in [Decisions -> {"none", "pending", "confirmed"}]
      /\ result' \in [Decisions -> Nat \cup {None}]
      /\ status'[d] = "confirmed" /\ result'[d] = proc[p].answer
      /\ \A e \in Decisions : e # d => status'[e] = status[e] /\ result'[e] = result[e]
  BY <1>1 DEF ProcStates
<1>6. TypeOK'
  BY <1>4, <1>5 DEF OutboxInv, TypeOK
<1>7. \A e \in Decisions : status[e] # "none" => status'[e] # "none"
  BY <1>5
<1>8. ProcOK(proc[p])'
  <2>1. CASE proc[p].at = "confirm"
    BY <1>4, <2>1, MaxAttemptsAssumption DEF ProcOK, Resting
  <2>2. CASE proc[p].at = "reconfirm"
    <3>1. proc'[p].at = "recover" /\ proc'[p].todo = proc[p].todo
      BY <1>4, <2>2 DEF Resting
    <3> QED
      BY <1>1, <1>7, <3>1 DEF ProcOK, ProcStates
  <2> QED
    BY <1>1, <2>1, <2>2
<1>9. ProcInv'
  BY <1>4, <1>7, <1>8, ProcInvStep
<1>10. ConfirmedIsFilled'
  BY <1>1, <1>5 DEF OutboxInv, ConfirmedIsFilled
<1>11. AtMostOneOrder' /\ OrderHasIntent' /\ RowInv'
  BY <1>1, <1>5, <1>7 DEF OutboxInv, TypeOK, AtMostOneOrder, OrderHasIntent, RowInv
<1> QED
  BY <1>6, <1>9, <1>10, <1>11 DEF OutboxInv

LEMMA CrashInv ==
  ASSUME OutboxInv, NEW p \in Procs, Crash(p)
  PROVE  OutboxInv'
<1> DEFINE me == Resting("down")
<1> USE DEF Crash, dbVars
<1>1. me \in ProcStates
  BY RestingType DEF Steps
<1>2. /\ proc' \in [Procs -> ProcStates]
      /\ proc'[p] = me
      /\ \A q \in Procs \ {p} : proc'[q] = proc[q]
  BY <1>1, ProcStep DEF OutboxInv, TypeOK
<1>3. /\ delayed' \subseteq Decisions
      /\ \A k \in delayed' : status[k] # "none"
  <2>1. CASE proc[p].at \in {"submit", "resubmit"} /\ MayBeOnItsWay(p)
    BY <2>1, OnItsWay
  <2>2. CASE UNCHANGED delayed
    BY <2>2 DEF OutboxInv, TypeOK, RowInv
  <2> QED
    BY <2>1, <2>2
<1>4. TypeOK'
  BY <1>2, <1>3 DEF OutboxInv, TypeOK
<1>5. ProcOK(proc[p])'
  BY <1>2 DEF ProcOK, Resting
<1>6. ProcInv'
  BY <1>2, <1>5, ProcInvStep
<1>7. AtMostOneOrder' /\ OrderHasIntent' /\ ConfirmedIsFilled' /\ RowInv'
  BY <1>3 DEF OutboxInv, AtMostOneOrder, OrderHasIntent, ConfirmedIsFilled, RowInv
<1> QED
  BY <1>4, <1>6, <1>7 DEF OutboxInv

LEMMA LateArrivalInv ==
  ASSUME OutboxInv, NEW k \in delayed, LateArrival(k)
  PROVE  OutboxInv'
<1> USE DEF LateArrival, dbVars
<1>1. k \in Decisions /\ status[k] # "none" /\ k \in decided
  BY DEF OutboxInv, TypeOK, RowInv
<1>2. /\ orders' \subseteq [key: Decisions, id: Nat]
      /\ issued' \in Nat
      /\ orders \subseteq orders'
      /\ \A o \in orders' : o \in orders \/ o.key = k
      /\ AtMostOneOrder'
  BY <1>1, TakesOnce
<1>3. TypeOK'
  BY <1>2 DEF OutboxInv, TypeOK
<1>4. ProcInv'
  BY <1>2 DEF OutboxInv, ProcInv, ProcOK
<1>5. OrderHasIntent' /\ ConfirmedIsFilled' /\ RowInv'
  BY <1>1, <1>2 DEF OutboxInv, OrderHasIntent, ConfirmedIsFilled, RowInv
<1> QED
  BY <1>2, <1>3, <1>4, <1>5 DEF OutboxInv

\* Every step preserves the invariant.
LEMMA NextInv ==
  ASSUME OutboxInv, [Next]_vars
  PROVE  OutboxInv'
<1>1. ASSUME NEW p \in Procs, NEW d \in Decisions, Execute(p, d)
      PROVE  OutboxInv'
  BY <1>1, ExecuteInv
<1>2. ASSUME NEW p \in Procs, PlaceOrder(p)
      PROVE  OutboxInv'
  BY <1>2, InsertRowInv, AnsweredInv, AttemptRaisesInv, DeniedInv, PersistRefuseInv,
     ConfirmInv DEF PlaceOrder
<1>3. ASSUME NEW p \in Procs, RecoverPending(p)
      PROVE  OutboxInv'
  BY <1>3, RecoverStartInv, RecoverNextInv, RecoverDoneInv, RecoverRaisesInv
  DEF RecoverPending
<1>4. ASSUME NEW p \in Procs, Crash(p) \/ Boot(p)
      PROVE  OutboxInv'
  BY <1>4, CrashInv, BootInv
<1>5. ASSUME NEW k \in delayed, LateArrival(k)
      PROVE  OutboxInv'
  BY <1>5, LateArrivalInv
<1>6. CASE UNCHANGED vars
  BY <1>6 DEF vars, dbVars, brokerVars, OutboxInv, TypeOK, AtMostOneOrder, OrderHasIntent,
     ConfirmedIsFilled, ProcInv, ProcOK, RowInv
<1> QED
  BY <1>1, <1>2, <1>3, <1>4, <1>5, <1>6 DEF Next

-----------------------------------------------------------------------------
(* The theorems.                                                           *)

\* The inductive invariant holds in every reachable state.
THEOREM OutboxInvariant == Spec => []OutboxInv
BY InitInv, NextInv, PTL DEF Spec

\* Every variable keeps its type.
THEOREM TypeCorrect == Spec => []TypeOK
<1>1. OutboxInv => TypeOK
  BY DEF OutboxInv
<1> QED
  BY <1>1, OutboxInvariant, PTL

\* Write-ahead: an order at the broker has a durable row and decision.
THEOREM WriteAhead == Spec => []OrderHasIntent
<1>1. OutboxInv => OrderHasIntent
  BY DEF OutboxInv
<1> QED
  BY <1>1, OutboxInvariant, PTL

\* A confirmed row tells the truth about the broker.
THEOREM ConfirmedTrue == Spec => []ConfirmedIsFilled
<1>1. OutboxInv => ConfirmedIsFilled
  BY DEF OutboxInv
<1> QED
  BY <1>1, OutboxInvariant, PTL

\* A confirmed row is never changed, by any process that still drives it.
THEOREM ConfirmedStable == Spec => ConfirmedForever
<1> DEFINE Keeps == \A d \in Decisions : status[d] = "confirmed" =>
                      status'[d] = "confirmed" /\ result'[d] = result[d]
<1>1. ASSUME OutboxInv, [Next]_vars
      PROVE  [Keeps]_vars
  <2> SUFFICES ASSUME NEW d \in Decisions, status[d] = "confirmed"
               PROVE  status'[d] = "confirmed" /\ result'[d] = result[d]
    OBVIOUS
  <2>1. status \in [Decisions -> {"none", "pending", "confirmed"}]
        /\ result \in [Decisions -> Nat \cup {None}]
    BY <1>1 DEF OutboxInv, TypeOK
  <2>2. ASSUME NEW p \in Procs, InsertRow(p)
        PROVE  status'[d] = "confirmed" /\ result'[d] = result[d]
    BY <2>1, <2>2 DEF InsertRow
  <2>3. ASSUME NEW p \in Procs, Confirm(p)
        PROVE  status'[d] = "confirmed" /\ result'[d] = result[d]
    <3>1. CASE proc[p].decision = d
      <4>1. [key |-> d, id |-> proc[p].answer] \in orders
        BY <1>1, <2>3, <3>1 DEF OutboxInv, ProcInv, ProcOK, Confirm
      <4>2. [key |-> d, id |-> result[d]] \in orders
        BY <1>1 DEF OutboxInv, ConfirmedIsFilled
      <4>3. proc[p].answer = result[d]
        BY <1>1, <4>1, <4>2 DEF OutboxInv, AtMostOneOrder
      <4> QED
        BY <2>1, <2>3, <3>1, <4>3 DEF Confirm
    <3>2. CASE proc[p].decision # d
      BY <2>1, <2>3, <3>2 DEF Confirm
    <3> QED
      BY <3>1, <3>2
  <2>4. CASE UNCHANGED <<status, result>>
    BY <2>4
  <2>5. ASSUME NEW p \in Procs, ~InsertRow(p), ~Confirm(p),
               (\E e \in Decisions : Execute(p, e)) \/ PlaceOrder(p) \/ RecoverPending(p)
                 \/ Crash(p) \/ Boot(p)
        PROVE  UNCHANGED <<status, result>>
    BY <2>5 DEF Execute, PlaceOrder, RecoverPending, Crash, Boot, Answered, AttemptRaises,
       Denied, PersistRefuse, RecoverStart, RecoverNext, RecoverDone, RecoverRaises,
       dbVars, brokerVars
  <2>6. ASSUME NEW k \in delayed, LateArrival(k)
        PROVE  UNCHANGED <<status, result>>
    BY <2>6 DEF LateArrival, dbVars
  <2> QED
    BY <1>1, <2>2, <2>3, <2>4, <2>5, <2>6 DEF Next, vars, dbVars
<1> QED
  BY <1>1, OutboxInvariant, PTL DEF Spec, ConfirmedForever

\* A request that reaches the broker for a row that is there is a step of the
\* abstract specification, or none.
LEMMA TakesRefines ==
  ASSUME OutboxInv, NEW k \in Decisions, status[k] # "none", Takes(k), status' = status
  PROVE  [Promise!Next]_(Promise!vars)
<1>1. CASE Known(k)
  BY <1>1 DEF Takes, Promise!vars, stage, Known
<1>2. CASE ~Known(k)
  <2>1. orders' = orders \cup {[key |-> k, id |-> issued + 1]}
    BY <1>2 DEF Takes
  <2>2. status[k] = "pending"
    BY <1>2 DEF OutboxInv, TypeOK, ConfirmedIsFilled, Known
  <2>3. Known(k)' /\ \A d \in Decisions : d # k => (Known(d)' <=> Known(d))
    <3>1. [key |-> k, id |-> issued + 1] \in orders' /\ [key |-> k, id |-> issued + 1].key = k
      BY <2>1
    <3>2. ASSUME NEW d \in Decisions, d # k
          PROVE  Known(d)' <=> Known(d)
      BY <2>1, <3>2 DEF Known
    <3>3. Known(k)'
      BY <3>1 DEF Known
    <3> QED
      BY <3>2, <3>3
  <2>4. stage[k] = "intended"
    BY <1>2, <2>2 DEF stage
  <2>5. stage' = [stage EXCEPT ![k] = "filled"]
    BY <2>2, <2>3 DEF stage
  <2>6. \E o \in orders' : o.key = k /\ o \notin orders /\ orders' = orders \cup {o}
    BY <1>2, <2>1 DEF Known
  <2>7. Promise!Fill(k)
    BY <2>4, <2>5, <2>6 DEF Promise!Fill
  <2> QED
    BY <2>7 DEF Promise!Next
<1> QED
  BY <1>1, <1>2

\* Every step of the outbox is a step of the abstract specification, or none.
LEMMA StepRefines ==
  ASSUME OutboxInv, [Next]_vars
  PROVE  [Promise!Next]_(Promise!vars)
<1>1. ASSUME NEW p \in Procs, InsertRow(p)
      PROVE  [Promise!Next]_(Promise!vars)
  <2> DEFINE d == proc[p].decision
  <2>1. d \in Decisions /\ orders' = orders
        /\ status' = [status EXCEPT ![d] = IF @ = "none" THEN "pending" ELSE @]
        /\ status \in [Decisions -> {"none", "pending", "confirmed"}]
    BY <1>1 DEF OutboxInv, TypeOK, ProcInv, ProcOK, InsertRow, brokerVars
  <2>2. CASE status[d] = "none"
    <3>1. ~Known(d)
      BY <2>2 DEF OutboxInv, OrderHasIntent, Known
    <3>2. stage[d] = "new" /\ stage' = [stage EXCEPT ![d] = "intended"]
      BY <2>1, <2>2, <3>1 DEF stage, Known
    <3>3. Promise!Intend(d)
      BY <2>1, <3>2 DEF Promise!Intend
    <3> QED
      BY <2>1, <3>3 DEF Promise!Next
  <2>3. CASE status[d] # "none"
    <3>1. status' = status
      BY <2>1, <2>3
    <3> QED
      BY <2>1, <3>1 DEF stage, Known, Promise!vars
  <2> QED
    BY <2>2, <2>3
<1>2. ASSUME NEW p \in Procs, Confirm(p)
      PROVE  [Promise!Next]_(Promise!vars)
  <2> DEFINE d == proc[p].decision
  <2>1. /\ d \in Decisions /\ orders' = orders /\ status[d] # "none" /\ Known(d)
        /\ status' = [status EXCEPT ![d] = "confirmed"]
        /\ status \in [Decisions -> {"none", "pending", "confirmed"}]
    BY <1>2 DEF OutboxInv, TypeOK, ProcInv, ProcOK, Confirm, brokerVars, Known
  <2>2. CASE status[d] = "pending"
    <3>1. stage[d] = "filled" /\ stage' = [stage EXCEPT ![d] = "acknowledged"]
      BY <2>1, <2>2 DEF stage, Known
    <3>2. Promise!Acknowledge(d)
      BY <2>1, <3>1 DEF Promise!Acknowledge
    <3> QED
      BY <2>1, <3>2 DEF Promise!Next
  <2>3. CASE status[d] = "confirmed"
    <3>1. status' = status
      BY <2>1, <2>3
    <3> QED
      BY <2>1, <3>1 DEF stage, Known, Promise!vars
  <2> QED
    BY <2>1, <2>2, <2>3
<1>3. ASSUME NEW p \in Procs, Answered(p)
      PROVE  [Promise!Next]_(Promise!vars)
  <2>1. /\ proc[p].decision \in Decisions /\ status[proc[p].decision] # "none"
        /\ Takes(proc[p].decision) /\ status' = status
    BY <1>3 DEF OutboxInv, ProcInv, ProcOK, Answered, SubmitKey, dbVars
  <2> QED
    BY <2>1, TakesRefines
<1>4. ASSUME NEW k \in delayed, LateArrival(k)
      PROVE  [Promise!Next]_(Promise!vars)
  <2>1. k \in Decisions /\ status[k] # "none" /\ Takes(k) /\ status' = status
    BY <1>4 DEF OutboxInv, TypeOK, RowInv, LateArrival, dbVars
  <2> QED
    BY <2>1, TakesRefines
<1>5. CASE UNCHANGED <<status, orders>>
  BY <1>5 DEF stage, Known, Promise!vars
<1>6. ASSUME NEW p \in Procs, ~InsertRow(p), ~Confirm(p), ~Answered(p),
             (\E e \in Decisions : Execute(p, e)) \/ PlaceOrder(p) \/ RecoverPending(p)
               \/ Crash(p) \/ Boot(p)
      PROVE  UNCHANGED <<status, orders>>
  BY <1>6 DEF Execute, PlaceOrder, RecoverPending, Crash, Boot, AttemptRaises,
     Denied, PersistRefuse, RecoverStart, RecoverNext, RecoverDone, RecoverRaises,
     dbVars, brokerVars
<1> QED
  BY <1>1, <1>2, <1>3, <1>4, <1>5, <1>6 DEF Next, vars, dbVars, brokerVars

\* The outbox implements its promise: an order is intended, then filled once,
\* then acknowledged.
THEOREM Implements == Spec => ImplementsOrderOnce
<1>1. Init => Promise!Init
  BY DEF Init, Promise!Init, stage
<1>2. OutboxInv /\ [Next]_vars => [Promise!Next]_(Promise!vars)
  BY StepRefines
<1> QED
  BY <1>1, <1>2, OutboxInvariant, PTL DEF Spec, ImplementsOrderOnce, Promise!Spec
=============================================================================
