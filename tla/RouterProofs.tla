---------------------------- MODULE RouterProofs ----------------------------
(***************************************************************************)
(* The router for any threads, prompts, documents, profiles and fallback   *)
(* chain: answers fit the attempts they are returned for, recordings can   *)
(* be replayed, and the ladder, the cache and the ledger implement LlmCall.*)
(***************************************************************************)
EXTENDS Router, TLAPS

-----------------------------------------------------------------------------
(* The inductive invariant.                                                *)

Working == {"lookup", "api", "put", "book"}
Results == [kind : {"answer", "unavailable", "error"}, content : Contents \cup {None},
            docs : DocParts \cup {<<>>}]
Tasks == [at : Working \cup {"idle", "returned"}, req : Requests \cup {None}, rung : Nat,
          truncated : BOOLEAN, got : Answers \cup {None}, result : Results \cup {None}]

\* What a thread may rely on: it is on a rung of its own ladder, and what it
\* got is an answer to the attempt it is making.
TaskOK(t) ==
  /\ t \in Tasks
  /\ t.at # "idle" => t.req \in Requests
  /\ t.at \in Working => t.rung \in Rungs(Ladder(t.req.profile))
  /\ t.at \in {"put", "book"} =>
       t.got \in Answers /\ t.got.model = Model(t) /\ t.got.docs = Docs(t)

TasksOK ==
  /\ task \in [Callers -> Tasks]
  /\ \A c \in Callers : TaskOK(task[c])

\* A recording is in the cache before it is booked.
BookBacked ==
  \A c \in Callers :
    mode = "record" /\ task[c].at = "book" => \E e \in cache : e.key = Key(task[c])

\* The cache is a table with a primary key, and its answers are to their keys.
CacheOK ==
  /\ \A e \in cache :
       /\ e.key \in Keys
       /\ e.answer \in Answers
       /\ e.answer.model = e.key.model
       /\ e.answer.docs = e.key.docs
  /\ \A e, f \in cache : e.key = f.key => e = f

RecordedOK == recorded \subseteq Keys /\ \A k \in recorded : \E e \in cache : e.key = k

RouterInv ==
  /\ mode \in Modes
  /\ ledger \in [Decisions -> Nat]
  /\ TasksOK
  /\ BookBacked
  /\ CacheOK
  /\ RecordedOK

-----------------------------------------------------------------------------
(* Lemmas about the ladder and the attempt.                                *)

\* A ladder starts with the profile that was asked for, and every rung is a
\* profile.
LEMMA LadderRungs ==
  ASSUME NEW profile \in Profiles
  PROVE  /\ 1 \in Rungs(Ladder(profile))
         /\ Rungs(Ladder(profile)) \subseteq Nat
         /\ \A i \in Rungs(Ladder(profile)) : Ladder(profile)[i] \in Profiles
<1>1. Ladder(profile) \in Seq(Profiles) /\ Len(Ladder(profile)) >= 1
  BY ChainAssumption DEF Ladder
<1>2. DOMAIN Ladder(profile) = 1..Len(Ladder(profile))
  BY <1>1
<1>3. 1 \in Rungs(Ladder(profile))
  BY <1>1, <1>2 DEF Rungs
<1> QED
  BY <1>1, <1>2, <1>3 DEF Rungs

\* The attempt of a thread at work shows a part of what it was asked.
LEMMA AttemptTypes ==
  ASSUME NEW t, TaskOK(t), t.at \in Working
  PROVE  /\ Model(t) \in Profiles
         /\ Docs(t) \in DocParts
         /\ Docs(t) \in LC!Shown(t.req)
         /\ Key(t) \in Keys
<1>1. t.req \in Requests /\ t.rung \in Rungs(Ladder(t.req.profile))
  BY DEF TaskOK, Working
<1>2. t.req.profile \in Profiles /\ t.req.docs \in DocLists /\ t.req.prompt \in Prompts
  BY <1>1 DEF Requests
<1>3. Model(t) \in Profiles
  BY <1>1, <1>2, LadderRungs DEF Model
<1>4. Docs(t) \in DocParts /\ Docs(t) \in LC!Shown(t.req)
  BY <1>2 DEF Docs, DocParts, LC!Shown
<1> QED
  BY <1>2, <1>3, <1>4 DEF Key, Keys

\* A step of one thread that leaves it in order leaves all of them so.
LEMMA GoesOK ==
  ASSUME TasksOK, NEW c \in Callers, NEW t, TaskOK(t), Goes(c, t)
  PROVE  TasksOK' /\ task'[c] = t /\ \A d \in Callers \ {c} : task'[d] = task[d]
<1>1. task' = [task EXCEPT ![c] = t] /\ t \in Tasks
  BY DEF Goes, TaskOK
<1>2. task' \in [Callers -> Tasks]
  BY <1>1 DEF TasksOK
<1>3. task'[c] = t /\ \A d \in Callers \ {c} : task'[d] = task[d]
  BY <1>1 DEF TasksOK
<1>4. \A d \in Callers : TaskOK(task'[d])
  BY <1>3 DEF TasksOK
<1> QED
  BY <1>2, <1>3, <1>4 DEF TasksOK

\* A call that returns leaves its thread in order.
LEMMA ReturnedOK ==
  ASSUME TasksOK, NEW c \in Callers, task[c].at \in Working, NEW result \in Results
  PROVE  /\ TaskOK([Idle EXCEPT !.at = "returned", !.req = task[c].req, !.result = result])
         /\ [Idle EXCEPT !.at = "returned", !.req = task[c].req, !.result = result].at
              = "returned"
<1>1. task[c].req \in Requests
  BY DEF TasksOK, TaskOK, Working
<1> QED
  BY <1>1 DEF TaskOK, Tasks, Idle, Working

LEMMA IdleOK == TaskOK(Idle) /\ Idle.at = "idle"
BY DEF TaskOK, Tasks, Idle, Working

\* A thread at work that changes its step, or its attempt, before it has an
\* answer is still in order.
LEMMA RetryOK ==
  ASSUME NEW t, TaskOK(t), t.at \in Working, NEW at \in {"lookup", "api"},
         NEW i \in Rungs(Ladder(t.req.profile)), NEW b \in BOOLEAN
  PROVE  TaskOK([t EXCEPT !.at = at, !.rung = i, !.truncated = b])
<1>1. t.req \in Requests /\ t \in Tasks
  BY DEF TaskOK, Working
<1>2. i \in Nat
  BY <1>1, LadderRungs DEF Requests
<1> QED
  BY <1>1, <1>2 DEF TaskOK, Tasks, Working

-----------------------------------------------------------------------------
(* The invariant is inductive: one lemma per action that says something.   *)

LEMMA InitInv ==
  ASSUME Init
  PROVE  RouterInv
<1>1. TasksOK
  BY IdleOK DEF Init, TasksOK, TaskOK
<1>2. BookBacked
  BY IdleOK DEF Init, BookBacked
<1> QED
  BY <1>1, <1>2 DEF Init, RouterInv, CacheOK, RecordedOK

\* A step that leaves mode, cache and recordings alone keeps the invariant if
\* its thread stays in order and books only what is backed.
LEMMA ThreadStep ==
  ASSUME RouterInv, NEW c \in Callers, NEW t, TaskOK(t), Goes(c, t),
         UNCHANGED <<mode, cache, recorded>>, ledger' \in [Decisions -> Nat],
         mode = "record" /\ t.at = "book" => \E e \in cache : e.key = Key(t)
  PROVE  RouterInv'
<1>1. TasksOK' /\ task'[c] = t /\ \A d \in Callers \ {c} : task'[d] = task[d]
  BY GoesOK DEF RouterInv
<1>2. BookBacked'
  BY <1>1 DEF RouterInv, BookBacked
<1> QED
  BY <1>1, <1>2 DEF RouterInv, CacheOK, RecordedOK

LEMMA ReturnStep ==
  ASSUME RouterInv, NEW c \in Callers, task[c].at \in Working,
         NEW result \in Results, Return(c, result),
         UNCHANGED <<mode, cache, recorded>>, ledger' \in [Decisions -> Nat]
  PROVE  RouterInv'
<1> DEFINE t == [Idle EXCEPT !.at = "returned", !.req = task[c].req, !.result = result]
<1>1. TaskOK(t) /\ t.at = "returned"
  BY ReturnedOK DEF RouterInv
<1>2. Goes(c, t)
  BY DEF Return
<1> HIDE DEF t
<1> QED
  BY <1>1, <1>2, ThreadStep

LEMMA FailuresAreResults ==
  /\ Failed("unavailable") \in Results /\ Failed("unavailable").kind = "unavailable"
  /\ Failed("error") \in Results /\ Failed("error").kind = "error"
BY DEF Failed, LC!Failed, Results

\* The call goes on with another attempt, or with what it got from this one.
Continues(t, u) ==
  TaskOK(u) /\ u.at \in Working /\ u.req = t.req /\ u.result = t.result

\* An attempt failed: another one, or the end of the ladder.
LEMMA NextAttemptOutcome ==
  ASSUME TasksOK, NEW c \in Callers, task[c].at \in Working, NextAttempt(c)
  PROVE  \/ \E u : Continues(task[c], u) /\ u.at # "book" /\ Goes(c, u)
         \/ Return(c, Failed("unavailable"))
<1> DEFINE t == task[c]
           rest == {i \in Rungs(Ladder(t.req.profile)) : i > t.rung}
<1>1. TaskOK(t) /\ t.at \in Working
  BY DEF TasksOK
<1>2. t.rung \in Rungs(Ladder(t.req.profile)) /\ t.truncated \in BOOLEAN /\ t \in Tasks
  BY <1>1 DEF TaskOK, Tasks
<1>3. CASE Goes(c, [t EXCEPT !.truncated = TRUE, !.at = "lookup"])
  <2> DEFINE u == [t EXCEPT !.at = "lookup", !.rung = t.rung, !.truncated = TRUE]
  <2>1. u = [t EXCEPT !.truncated = TRUE, !.at = "lookup"] /\ u.at = "lookup"
        /\ u.req = t.req /\ u.result = t.result
    BY <1>2 DEF Tasks
  <2>2. TaskOK(u)
    BY <1>1, <1>2, RetryOK
  <2>3. Goes(c, u)
    BY <1>3, <2>1
  <2> HIDE DEF u
  <2> QED
    BY <2>1, <2>2, <2>3 DEF Continues, Working
<1>4. CASE \E i \in rest :
             Goes(c, [t EXCEPT !.rung = i, !.truncated = FALSE, !.at = "lookup"])
  <2>1. PICK i \in Rungs(Ladder(t.req.profile)) :
               Goes(c, [t EXCEPT !.rung = i, !.truncated = FALSE, !.at = "lookup"])
    BY <1>4
  <2> DEFINE u == [t EXCEPT !.at = "lookup", !.rung = i, !.truncated = FALSE]
  <2>2. u = [t EXCEPT !.rung = i, !.truncated = FALSE, !.at = "lookup"] /\ u.at = "lookup"
        /\ u.req = t.req /\ u.result = t.result
    BY <1>2 DEF Tasks
  <2>3. TaskOK(u)
    BY <1>1, RetryOK
  <2>4. Goes(c, u)
    BY <2>1, <2>2
  <2> HIDE DEF u
  <2> QED
    BY <2>2, <2>3, <2>4 DEF Continues, Working
<1> QED
  BY <1>3, <1>4 DEF NextAttempt

LEMMA AttemptFailsInv ==
  ASSUME RouterInv, NEW c \in Callers, AttemptFails(c)
  PROVE  RouterInv'
<1>1. /\ TasksOK /\ task[c].at \in Working /\ NextAttempt(c)
      /\ UNCHANGED <<mode, cache, recorded>> /\ ledger' \in [Decisions -> Nat]
  BY DEF RouterInv, AttemptFails, Working
<1> QED
  BY <1>1, NextAttemptOutcome, ThreadStep, ReturnStep, FailuresAreResults DEF Continues

LEMMA AskInv ==
  ASSUME RouterInv, NEW c \in Callers, NEW req \in Requests, Ask(c, req)
  PROVE  RouterInv'
<1> DEFINE t == [Idle EXCEPT !.at = "lookup", !.req = req, !.rung = 1]
<1>1. TaskOK(t) /\ t.at = "lookup"
  BY LadderRungs DEF TaskOK, Tasks, Idle, Working, Requests
<1>2. Goes(c, t)
  BY DEF Ask, Goes
<1>3. UNCHANGED <<mode, cache, recorded>> /\ ledger' \in [Decisions -> Nat]
  BY DEF Ask, RouterInv
<1> HIDE DEF t
<1> QED
  BY <1>1, <1>2, <1>3, ThreadStep

\* What a look-up finds is an answer to this attempt.
LEMMA LookupOutcome ==
  ASSUME TasksOK, CacheOK, NEW c \in Callers, Lookup(c)
  PROVE  \/ \E u : /\ Continues(task[c], u)
                   /\ u.at = "book" => \E e \in cache : e.key = Key(u)
                   /\ Goes(c, u)
         \/ Return(c, Failed("error"))
<1> DEFINE t == task[c]
<1>1. /\ TaskOK(t) /\ t.at = "lookup" /\ t.at \in Working /\ t \in Tasks
      /\ t.rung \in Rungs(Ladder(t.req.profile))
  BY DEF TasksOK, TaskOK, Lookup, Working
<1>2. CASE Goes(c, [t EXCEPT !.at = "api"])
  <2> DEFINE u == [t EXCEPT !.at = "api", !.rung = t.rung, !.truncated = t.truncated]
  <2>1. u = [t EXCEPT !.at = "api"] /\ u.at = "api" /\ u.req = t.req /\ u.result = t.result
    BY <1>1 DEF Tasks
  <2>2. TaskOK(u)
    BY <1>1, RetryOK DEF Tasks
  <2>3. Goes(c, u)
    BY <1>2, <2>1
  <2> HIDE DEF u
  <2> QED
    BY <2>1, <2>2, <2>3 DEF Continues, Working
<1>3. CASE \E e \in Hits(t) : Goes(c, [t EXCEPT !.at = "book", !.got = e.answer])
  <2>1. PICK e \in cache : e.key = Key(t) /\ Goes(c, [t EXCEPT !.at = "book", !.got = e.answer])
    BY <1>3 DEF Hits
  <2> DEFINE u == [t EXCEPT !.at = "book", !.got = e.answer]
  <2>2. e.answer \in Answers /\ e.answer.model = Model(t) /\ e.answer.docs = Docs(t)
    BY <2>1 DEF CacheOK, Key
  <2>3. TaskOK(u) /\ u.at = "book" /\ u.req = t.req /\ u.result = t.result
    BY <1>1, <2>2 DEF TaskOK, Tasks, Working, Model, Docs
  <2>4. Key(u) = Key(t)
    BY <1>1 DEF Tasks, Key, Model, Docs
  <2>5. Goes(c, u)
    BY <2>1
  <2> HIDE DEF u
  <2>6. \E f \in cache : f.key = Key(u)
    BY <2>1, <2>4
  <2> QED
    BY <2>3, <2>5, <2>6 DEF Continues, Working
<1> QED
  BY <1>2, <1>3 DEF Lookup

LEMMA LookupInv ==
  ASSUME RouterInv, NEW c \in Callers, Lookup(c)
  PROVE  RouterInv'
<1>1. /\ TasksOK /\ CacheOK /\ task[c].at \in Working
      /\ UNCHANGED <<mode, cache, recorded>> /\ ledger' \in [Decisions -> Nat]
  BY DEF RouterInv, Lookup, Working
<1> QED
  BY <1>1, LookupOutcome, ThreadStep, ReturnStep, FailuresAreResults DEF Continues

LEMMA ApiAnswersInv ==
  ASSUME RouterInv, NEW c \in Callers, NEW content \in Contents, ApiAnswers(c, content)
  PROVE  RouterInv'
<1> DEFINE t == task[c]
           answer == [content |-> content, docs |-> Docs(t), model |-> Model(t)]
           at == IF mode = "record" THEN "put" ELSE "book"
           u == [t EXCEPT !.at = at, !.got = answer]
<1>1. /\ TaskOK(t) /\ t.at \in Working /\ t \in Tasks /\ t.at = "api"
      /\ UNCHANGED <<mode, cache, recorded>> /\ ledger' \in [Decisions -> Nat]
  BY DEF RouterInv, TasksOK, TaskOK, ApiAnswers, Working
<1>2. answer \in Answers
  BY <1>1, AttemptTypes DEF Answers
<1>3. TaskOK(u) /\ (mode = "record" => u.at # "book")
  BY <1>1, <1>2 DEF TaskOK, Tasks, Working, Model, Docs
<1>4. Goes(c, u)
  BY DEF ApiAnswers
<1> HIDE DEF u
<1> QED
  BY <1>1, <1>3, <1>4, ThreadStep

\* The row replaces the one of its key and leaves all others alone.
LEMMA PutInv ==
  ASSUME RouterInv, NEW c \in Callers, Put(c)
  PROVE  RouterInv'
<1> DEFINE t == task[c]
           row == [key |-> Key(t), answer |-> t.got]
           u == [t EXCEPT !.at = "book"]
<1>1. /\ TasksOK /\ TaskOK(t) /\ t.at = "put" /\ t.at \in Working /\ t \in Tasks
      /\ t.got \in Answers /\ t.got.model = Model(t) /\ t.got.docs = Docs(t)
      /\ UNCHANGED <<mode, ledger, recorded>> /\ ledger \in [Decisions -> Nat]
  BY DEF RouterInv, TasksOK, TaskOK, Put, Working
<1>2. cache' = (cache \ Hits(t)) \cup {row}
  BY DEF Put
<1>3. TaskOK(u) /\ Key(u) = Key(t)
  BY <1>1 DEF TaskOK, Tasks, Working, Model, Docs, Key
<1>4. Goes(c, u)
  BY DEF Put
<1>5. Key(t) \in Keys
  BY <1>1, AttemptTypes
<1>6. row.key = Key(t) /\ row.answer = t.got
  OBVIOUS
<1> HIDE DEF u, row
<1>7. TasksOK' /\ task'[c] = u /\ \A d \in Callers \ {c} : task'[d] = task[d]
  BY <1>1, <1>3, <1>4, GoesOK
<1>8. CacheOK'
  <2>1. row.answer.model = row.key.model /\ row.answer.docs = row.key.docs
    BY <1>1, <1>6 DEF Key
  <2> QED
    BY <1>1, <1>2, <1>5, <1>6, <2>1 DEF RouterInv, CacheOK, Hits
<1>9. \A k : (\E e \in cache : e.key = k) => \E e \in cache' : e.key = k
  BY <1>2, <1>6 DEF Hits
<1>10. BookBacked'
  <2> SUFFICES ASSUME NEW d \in Callers, mode' = "record", task'[d].at = "book"
               PROVE  \E e \in cache' : e.key = Key(task'[d])
    BY DEF BookBacked
  <2>1. CASE d = c
    BY <2>1, <1>2, <1>3, <1>6, <1>7
  <2>2. CASE d # c
    BY <2>2, <1>1, <1>7, <1>9 DEF RouterInv, BookBacked
  <2> QED
    BY <2>1, <2>2
<1>11. RecordedOK'
  BY <1>1, <1>9 DEF RouterInv, RecordedOK
<1> QED
  BY <1>1, <1>7, <1>8, <1>10, <1>11 DEF RouterInv

LEMMA BookInv ==
  ASSUME RouterInv, NEW c \in Callers, Book(c)
  PROVE  RouterInv'
<1> DEFINE t == task[c]
           u == [Idle EXCEPT !.at = "returned", !.req = t.req, !.result = Answered(t)]
<1>1. /\ TasksOK /\ TaskOK(t) /\ t.at = "book" /\ t.at \in Working /\ t \in Tasks
      /\ t.got \in Answers /\ UNCHANGED <<mode, cache>>
  BY DEF RouterInv, TasksOK, TaskOK, Book, Working
<1>2. Answered(t) \in Results
  BY <1>1 DEF Answered, LC!Answered, Results, Answers
<1>3. TaskOK(u) /\ u.at = "returned"
  BY <1>1, <1>2, ReturnedOK
<1>4. Goes(c, u)
  BY DEF Book, Return
<1> HIDE DEF u
<1>5. TasksOK' /\ task'[c] = u /\ \A d \in Callers \ {c} : task'[d] = task[d]
  BY <1>1, <1>3, <1>4, GoesOK
<1>6. ledger' \in [Decisions -> Nat]
  <2>1. t.req.decision \in Decisions
    BY <1>1 DEF TaskOK, Requests
  <2>2. ledger' = [ledger EXCEPT ![t.req.decision] = @ + 1] /\ ledger \in [Decisions -> Nat]
    BY DEF Book, RouterInv
  <2> QED
    BY <2>1, <2>2
<1>7. BookBacked'
  BY <1>1, <1>3, <1>5 DEF RouterInv, BookBacked
<1>8. RecordedOK'
  <2>1. Key(t) \in Keys
    BY <1>1, AttemptTypes
  <2>2. mode = "record" => \E e \in cache : e.key = Key(t)
    BY <1>1 DEF RouterInv, BookBacked
  <2> QED
    BY <1>1, <2>1, <2>2 DEF Book, RouterInv, RecordedOK
<1>9. CacheOK' /\ mode' \in Modes
  BY <1>1 DEF RouterInv, CacheOK
<1> QED
  BY <1>5, <1>6, <1>7, <1>8, <1>9 DEF RouterInv

LEMMA RestartInv ==
  ASSUME RouterInv, Restart
  PROVE  RouterInv'
<1>1. TasksOK' /\ BookBacked'
  BY IdleOK DEF Restart, TasksOK, TaskOK, BookBacked
<1> QED
  BY <1>1 DEF Restart, RouterInv, CacheOK, RecordedOK

LEMMA NextInv ==
  ASSUME RouterInv, [Next]_vars
  PROVE  RouterInv'
<1>1. ASSUME NEW c \in Callers, NEW req \in Requests, Ask(c, req)
      PROVE  RouterInv'
  BY <1>1, AskInv
<1>2. ASSUME NEW c \in Callers, Works(c)
      PROVE  RouterInv'
  <2>1. CASE BookFails(c)
    <3>1. task[c].at \in Working /\ ledger' \in [Decisions -> Nat]
      BY <2>1 DEF BookFails, Working, RouterInv
    <3> QED
      BY <2>1, <3>1, ReturnStep, FailuresAreResults DEF BookFails
  <2> QED
    BY <1>2, <2>1, AttemptFailsInv, LookupInv, ApiAnswersInv, PutInv, BookInv DEF Works
<1>3. ASSUME NEW c \in Callers, Take(c)
      PROVE  RouterInv'
  <2>1. ledger' \in [Decisions -> Nat]
    BY <1>3 DEF Take, RouterInv
  <2> QED
    BY <1>3, <2>1, IdleOK, ThreadStep DEF Take
<1>4. CASE UNCHANGED vars
  BY <1>4 DEF vars, RouterInv, TasksOK, TaskOK, BookBacked, CacheOK, RecordedOK
<1> QED
  BY <1>1, <1>2, <1>3, <1>4, RestartInv DEF Next

-----------------------------------------------------------------------------
(* The theorems.                                                           *)

\* The inductive invariant holds in every state the router reaches.
THEOREM RouterInvariant == Spec => []RouterInv
<1>1. Init => RouterInv
  BY InitInv
<1>2. RouterInv /\ [Next]_vars => RouterInv'
  BY NextInv
<1> QED
  BY <1>1, <1>2, PTL DEF Spec

LEMMA InvTypes == RouterInv => TypeOK
BY DEF RouterInv, TasksOK, TaskOK, Tasks, Working, CacheOK, RecordedOK, TypeOK

\* The variables have their types: every thread works on a rung of its own
\* ladder, with an answer where it needs one.
THEOREM TypeCorrect == Spec => []TypeOK
BY RouterInvariant, InvTypes, PTL

LEMMA InvFits == RouterInv => AnswerFitsAttempt
BY DEF RouterInv, TasksOK, TaskOK, AnswerFitsAttempt

\* What a thread returns was said by the model it asks about the documents it
\* shows, whoever recorded it.
THEOREM AnswersFit == Spec => []AnswerFitsAttempt
BY RouterInvariant, InvFits, PTL

LEMMA InvReplays == RouterInv => RecordingReplays
BY DEF RouterInv, CacheOK, RecordedOK, RecordingReplays

\* What was recorded at the first attempt stays in the cache, with one answer.
THEOREM RecordingsReplay == Spec => []RecordingReplays
BY RouterInvariant, InvReplays, PTL

-----------------------------------------------------------------------------
(* The refinement: every step is a step of LlmCall or a stutter.           *)

\* What LlmCall sees of a thread, and of all of them.
Seen(t) == [state |-> StateOf(t.at), req |-> t.req, result |-> t.result]
Bar == [c \in Callers |-> Seen(task[c])]

LEMMA SeenStep ==
  ASSUME TasksOK, NEW c \in Callers, NEW t, Goes(c, t)
  PROVE  Bar' = [Bar EXCEPT ![c] = Seen(t)]
<1>1. task' = [task EXCEPT ![c] = t] /\ DOMAIN task = Callers
  BY DEF Goes, TasksOK
<1> QED
  BY <1>1 DEF Bar

\* A call that continues has not moved for its caller.
LEMMA ContinuesStutters ==
  ASSUME TasksOK, NEW c \in Callers, task[c].at \in Working,
         NEW u, Continues(task[c], u), Goes(c, u)
  PROVE  Bar' = Bar
<1>1. Seen(u) = Seen(task[c])
  BY DEF Continues, Seen, StateOf, Working
<1>2. Bar' = [Bar EXCEPT ![c] = Seen(u)] /\ Bar[c] = Seen(task[c]) /\ Bar = [d \in Callers |-> Bar[d]]
  BY SeenStep DEF Bar
<1> QED
  BY <1>1, <1>2

\* A call that returns is a return of LlmCall.
LEMMA ReturnRefines ==
  ASSUME TasksOK, NEW c \in Callers, task[c].at \in Working, NEW result, Return(c, result)
  PROVE  LC!Return(c, result)
<1> DEFINE t == [Idle EXCEPT !.at = "returned", !.req = task[c].req, !.result = result]
<1>1. Seen(t) = [state |-> "returned", req |-> task[c].req, result |-> result]
  BY DEF Seen, StateOf, Idle
<1>2. Bar' = [Bar EXCEPT ![c] = Seen(t)]
  BY SeenStep DEF Return
<1>3. Bar[c].state = "asked" /\ Bar[c].req = task[c].req
  BY DEF Bar, Seen, StateOf, Working
<1> HIDE DEF t
<1> QED
  BY <1>1, <1>2, <1>3 DEF LC!Return, Bar, Seen

LEMMA FailRefines ==
  ASSUME TasksOK, NEW c \in Callers, task[c].at \in Working,
         NEW kind \in {"unavailable", "error"}, Return(c, Failed(kind)), UNCHANGED ledger
  PROVE  LC!CallNext
<1>1. LC!Return(c, LC!Failed(kind))
  BY ReturnRefines DEF Failed
<1> QED
  BY <1>1 DEF LC!CallNext, LC!Fail, LC!Failures

LEMMA AnswerRefines ==
  ASSUME TasksOK, NEW c \in Callers, task[c].at \in Working,
         NEW content \in Contents, NEW docs \in LC!Shown(task[c].req),
         Return(c, LC!Answered(content, docs)),
         ledger' = [ledger EXCEPT ![task[c].req.decision] = @ + 1]
  PROVE  LC!CallNext
<1>1. LC!Return(c, LC!Answered(content, docs))
  BY ReturnRefines
<1>2. Bar[c].req = task[c].req /\ Bar[c].state = "asked"
  BY DEF Bar, Seen, StateOf, Working
<1>3. LC!Answer(c, content, docs)
  BY <1>1, <1>2 DEF LC!Answer, Bar, Seen
<1> QED
  BY <1>2, <1>3 DEF LC!CallNext, Bar, Seen

LEMMA StepRefines ==
  ASSUME RouterInv, [Next]_vars
  PROVE  LC!CallNext \/ UNCHANGED LC!callVars
<1>0. TasksOK /\ CacheOK
  BY DEF RouterInv
<1>1. ASSUME NEW c \in Callers, NEW req \in Requests, Ask(c, req)
      PROVE  LC!CallNext
  <2> DEFINE t == [Idle EXCEPT !.at = "lookup", !.req = req, !.rung = 1]
  <2>1. Seen(t) = [state |-> "asked", req |-> req, result |-> None]
    BY DEF Seen, StateOf, Idle
  <2>2. Goes(c, t) /\ UNCHANGED ledger
    BY <1>1 DEF Ask, Goes
  <2> HIDE DEF t
  <2>3. Bar' = [Bar EXCEPT ![c] = Seen(t)]
    BY <1>0, <2>2, SeenStep
  <2>4. Bar[c].state = "idle"
    BY <1>1 DEF Ask, Bar, Seen, StateOf
  <2>5. LC!Ask(c, req)
    BY <2>1, <2>2, <2>3, <2>4 DEF LC!Ask, Bar, Seen
  <2> QED
    BY <2>5 DEF LC!CallNext
<1>2. ASSUME NEW c \in Callers, Works(c)
      PROVE  LC!CallNext \/ UNCHANGED LC!callVars
  <2> DEFINE t == task[c]
  <2>0. t.at \in Working /\ TaskOK(t)
    BY <1>0, <1>2 DEF Works, Lookup, ApiAnswers, AttemptFails, Put, Book, BookFails, Working,
                      TasksOK
  <2>1. ASSUME NEW u, Continues(t, u), Goes(c, u), UNCHANGED ledger
        PROVE  UNCHANGED LC!callVars
    <3>1. Bar' = Bar
      BY <1>0, <2>0, <2>1, ContinuesStutters
    <3> QED
      BY <3>1, <2>1 DEF LC!callVars, Bar, Seen
  <2>2. CASE Lookup(c)
    <3>1. UNCHANGED ledger
      BY <2>2 DEF Lookup
    <3> QED
      BY <1>0, <2>0, <2>1, <2>2, <3>1, LookupOutcome, FailRefines
  <2>3. CASE \E content \in Contents : ApiAnswers(c, content)
    <3>1. PICK content \in Contents : ApiAnswers(c, content)
      BY <2>3
    <3> DEFINE answer == [content |-> content, docs |-> Docs(t), model |-> Model(t)]
               u == [t EXCEPT !.at = IF mode = "record" THEN "put" ELSE "book",
                              !.got = answer]
    <3>2. answer \in Answers
      BY <2>0, AttemptTypes DEF Answers
    <3>3. TaskOK(u)
      <4>1. t \in Tasks /\ t.req \in Requests /\ t.rung \in Rungs(Ladder(t.req.profile))
        BY <2>0 DEF TaskOK, Working
      <4>2. Model(u) = Model(t) /\ Docs(u) = Docs(t)
        BY <4>1 DEF Tasks, Model, Docs
      <4> QED
        BY <3>2, <4>1, <4>2 DEF TaskOK, Tasks, Working
    <3>4. u.at \in Working /\ u.req = t.req /\ u.result = t.result
      BY <2>0 DEF TaskOK, Tasks, Working
    <3>5. Goes(c, u) /\ UNCHANGED ledger
      BY <3>1 DEF ApiAnswers
    <3> HIDE DEF u
    <3> QED
      BY <2>1, <3>3, <3>4, <3>5 DEF Continues
  <2>4. CASE AttemptFails(c)
    <3>1. NextAttempt(c) /\ UNCHANGED ledger
      BY <2>4 DEF AttemptFails
    <3> QED
      BY <1>0, <2>0, <2>1, <3>1, NextAttemptOutcome, FailRefines
  <2>5. CASE Put(c)
    <3> DEFINE u == [t EXCEPT !.at = "book"]
    <3>1. Goes(c, u) /\ UNCHANGED ledger /\ t.at = "put"
      BY <2>5 DEF Put
    <3>2. TaskOK(u) /\ u.at \in Working /\ u.req = t.req /\ u.result = t.result
      BY <2>0, <3>1 DEF TaskOK, Tasks, Working, Model, Docs
    <3> HIDE DEF u
    <3> QED
      BY <2>1, <3>1, <3>2 DEF Continues
  <2>6. CASE Book(c)
    <3>1. /\ t.at = "book" /\ t.got \in Answers /\ t.got.docs = Docs(t)
          /\ Return(c, Answered(t))
          /\ ledger' = [ledger EXCEPT ![t.req.decision] = @ + 1]
      BY <2>0, <2>6 DEF Book, TaskOK
    <3>2. Return(c, LC!Answered(t.got.content, t.got.docs))
      BY <3>1 DEF Answered
    <3>3. t.got.docs \in LC!Shown(t.req) /\ t.got.content \in Contents
      BY <2>0, <3>1, AttemptTypes DEF Answers
    <3> QED
      BY <1>0, <2>0, <3>1, <3>2, <3>3, AnswerRefines
  <2>7. CASE BookFails(c)
    BY <1>0, <2>0, <2>7, FailRefines DEF BookFails
  <2> QED
    BY <1>2, <2>2, <2>3, <2>4, <2>5, <2>6, <2>7 DEF Works
<1>3. ASSUME NEW c \in Callers, Take(c)
      PROVE  LC!CallNext
  <2>1. Seen(Idle) = LC!NoCall
    BY DEF Seen, StateOf, Idle, LC!NoCall
  <2>2. Bar' = [Bar EXCEPT ![c] = LC!NoCall]
    BY <1>0, <1>3, <2>1, SeenStep DEF Take
  <2>3. Bar[c].state = "returned"
    BY <1>3 DEF Take, Bar, Seen, StateOf
  <2>4. LC!Take(c)
    BY <1>3, <2>2, <2>3 DEF LC!Take, Take, Bar, Seen
  <2> QED
    BY <2>4 DEF LC!CallNext
<1>4. CASE Restart
  <2>1. Bar' = [c \in Callers |-> LC!NoCall]
    BY <1>4 DEF Restart, Bar, Seen, StateOf, Idle, LC!NoCall
  <2>2. LC!Crash
    BY <1>4, <2>1 DEF LC!Crash, Restart, Bar, Seen
  <2> QED
    BY <2>2 DEF LC!CallNext
<1>5. CASE UNCHANGED vars
  BY <1>5 DEF vars, LC!callVars
<1> QED
  BY <1>1, <1>2, <1>3, <1>4, <1>5 DEF Next

LEMMA InitRefines ==
  ASSUME Init
  PROVE  LC!CallInit
<1>1. Bar = [c \in Callers |-> LC!NoCall]
  BY DEF Init, Bar, Seen, StateOf, Idle, LC!NoCall
<1> QED
  BY <1>1 DEF Init, LC!CallInit, Bar, Seen

\* The ladder, the cache and the ledger implement LlmCall: a call has one
\* result, an answer is about a leading part of its documents and is booked
\* once, under the call's decision.
THEOREM Implements == Spec => ImplementsLlmCall
<1>1. Init => LC!CallInit
  BY InitRefines
<1>2. RouterInv /\ [Next]_vars => [LC!CallNext]_(LC!callVars)
  BY StepRefines
<1> QED
  BY <1>1, <1>2, RouterInvariant, PTL DEF Spec, ImplementsLlmCall, LC!CallSpec
=============================================================================
