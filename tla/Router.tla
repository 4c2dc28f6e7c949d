------------------------------- MODULE Router -------------------------------
(***************************************************************************)
(* One chokepoint for every call of a model: CostRouter.call_with_fallback *)
(* (firm/llm/router.py) over CachedAnthropicClient.messages_create         *)
(* (anthropic_client.py), LlmCache (cache.py) and the cost ledger          *)
(* (db/cost_ledger.py).  Several threads are in it at once; each works     *)
(* down its own ladder of profiles, and they share cache and ledger.  A    *)
(* profile stands for its model.  The process may die at any point and     *)
(* come back in another mode: a recording is replayed that way.            *)
(***************************************************************************)
EXTENDS Naturals, Sequences

CONSTANTS
  Callers,        \* threads: the extractor, the judge, the voters
  Prompts,        \* everything hash_prompt covers but the document blocks
  DocLists,       \* document blocks of a prompt: retrieved chunks in rank order
  Profiles,       \* router_cfg.profiles
  FallbackChain,  \* router_cfg.fallback_chain
  Decisions,      \* decision ids the adapters are bound to
  Contents,       \* what the model may say
  Modes,          \* values of FIRM_LLM_MODE: "live", "cached", "record"
  MaxCalls,       \* bound: calls made
  None

ASSUME ChainAssumption == FallbackChain \in Seq(Profiles) /\ FallbackChain # <<>>
ASSUME ModeAssumption == Modes \subseteq {"live", "cached", "record"}
ASSUME NoneAssumption == None \notin Contents

VARIABLES
  mode,     \* the client's mode
  task,     \* what each thread is doing in the router
  cache,    \* llm_cache
  ledger,   \* cost_ledger: rows of each decision
  calls,    \* bounds Ask
  recorded  \* history: requests a recording answered at the first attempt

vars == <<mode, task, cache, ledger, calls, recorded>>

Requests == [prompt : Prompts, docs : DocLists, profile : Profiles,
             decision : Decisions]

StateOf(at) == IF at \in {"idle", "returned"} THEN at ELSE "asked"

LC == INSTANCE LlmCall WITH
  call <- [c \in Callers |-> [state |-> StateOf(task[c].at), req |-> task[c].req,
                              result |-> task[c].result]]

\* _ladder_rooted_at: the profile, then the chain; a name counts once.
Ladder(profile) == <<profile>> \o FallbackChain
Rungs(ladder) == {i \in DOMAIN ladder : \A j \in 1..(i - 1) : ladder[j] # ladder[i]}

Idle == [at |-> "idle", req |-> None, rung |-> 0, truncated |-> FALSE,
         got |-> None, result |-> None]

Init ==
  /\ mode \in Modes
  /\ task = [c \in Callers |-> Idle]
  /\ cache = {}
  /\ ledger = [d \in Decisions |-> 0]
  /\ calls = 0
  /\ recorded = {}

-----------------------------------------------------------------------------
(* The attempt a thread is making.                                         *)

Model(t) == Ladder(t.req.profile)[t.rung]

\* Only the second attempt of the primary drops documents.
Docs(t) == IF t.truncated THEN LC!Truncate(t.req.docs) ELSE t.req.docs

\* (mutant) the key forgets the model.
KeyOfPrompt(t) ==
  [prompt |-> t.req.prompt, docs |-> Docs(t), model |-> FallbackChain[1]]

\* hash_prompt and the model: the primary key of llm_cache.
Key(t) == [prompt |-> t.req.prompt, docs |-> Docs(t), model |-> Model(t)]

Hits(t) == {e \in cache : e.key = Key(t)}

First(t) == t.rung = 1 /\ ~ t.truncated

Ask(c, req) ==
  /\ task[c].at = "idle"
  /\ calls < MaxCalls
  /\ calls' = calls + 1
  /\ task' = [task EXCEPT ![c] = [Idle EXCEPT !.at = "lookup", !.req = req, !.rung = 1]]
  /\ UNCHANGED <<mode, cache, ledger, recorded>>

Goes(c, t) == task' = [task EXCEPT ![c] = t]

Return(c, result) ==
  Goes(c, [Idle EXCEPT !.at = "returned", !.req = task[c].req, !.result = result])

Answered(t) == LC!Answered(t.got.content, t.got.docs)
Failed(kind) == LC!Failed(kind)

\* (mutant) the position in the ladder is never advanced.
NextAttemptStays(c) ==
  LET t == task[c]
  IN \/ First(t) /\ Goes(c, [t EXCEPT !.truncated = TRUE, !.at = "lookup"])
     \/ ~ First(t) /\ Goes(c, [t EXCEPT !.truncated = FALSE, !.at = "lookup"])

\* An attempt failed: truncate once, then go down rung by rung, then give up.
NextAttempt(c) ==
  LET t == task[c]
      rest == {i \in Rungs(Ladder(t.req.profile)) : i > t.rung}
  IN \/ /\ First(t)
        /\ Goes(c, [t EXCEPT !.truncated = TRUE, !.at = "lookup"])
     \/ /\ ~ First(t)
        /\ \E i \in rest :
             /\ \A j \in rest : i <= j
             /\ Goes(c, [t EXCEPT !.rung = i, !.truncated = FALSE, !.at = "lookup"])
     \/ /\ ~ First(t)
        /\ rest = {}
        /\ Return(c, Failed("unavailable"))

\* The client reads the cache, unless it is live; only the cached mode raises
\* on a miss, and the router re-raises that at once.
Lookup(c) ==
  LET t == task[c] IN
  /\ t.at = "lookup"
  /\ \/ /\ mode = "live"
        /\ Goes(c, [t EXCEPT !.at = "api"])
     \/ /\ mode # "live"
        /\ \E e \in Hits(t) : Goes(c, [t EXCEPT !.at = "book", !.got = e.answer])
     \/ /\ mode = "cached"
        /\ Hits(t) = {}
        /\ Return(c, Failed("error"))
     \/ /\ mode = "record"
        /\ Hits(t) = {}
        /\ Goes(c, [t EXCEPT !.at = "api"])
  /\ UNCHANGED <<mode, cache, ledger, calls, recorded>>

\* The API answers; a recording stores the answer before it is used.
ApiAnswers(c, content) ==
  LET t == task[c]
      answer == [content |-> content, docs |-> Docs(t), model |-> Model(t)]
  IN /\ t.at = "api"
     /\ Goes(c, [t EXCEPT !.at = IF mode = "record" THEN "put" ELSE "book",
                          !.got = answer])
     /\ UNCHANGED <<mode, cache, ledger, calls, recorded>>

\* The transport, or a statement on the cache, raises: the next attempt.
AttemptFails(c) ==
  /\ task[c].at \in {"api", "put"} \/ (task[c].at = "lookup" /\ mode # "live")
  /\ NextAttempt(c)
  /\ UNCHANGED <<mode, cache, ledger, calls, recorded>>

\* (mutant) llm_cache is keyed by the prompt alone.
PutPerPrompt(c) ==
  LET t == task[c] IN
  /\ t.at = "put"
  /\ cache' = {e \in cache : e.key.prompt # t.req.prompt \/ e.key.docs # Docs(t)}
                \cup {[key |-> Key(t), answer |-> t.got]}
  /\ Goes(c, [t EXCEPT !.at = "book"])
  /\ UNCHANGED <<mode, ledger, calls, recorded>>

\* INSERT OR REPLACE under the write lock.
Put(c) ==
  LET t == task[c] IN
  /\ t.at = "put"
  /\ cache' = (cache \ Hits(t)) \cup {[key |-> Key(t), answer |-> t.got]}
  /\ Goes(c, [t EXCEPT !.at = "book"])
  /\ UNCHANGED <<mode, ledger, calls, recorded>>

\* (mutant) the row is written for a live answer only.
BookLive(c) ==
  LET t == task[c] IN
  /\ t.at = "book"
  /\ ledger' = IF mode = "cached" THEN ledger
                                  ELSE [ledger EXCEPT ![t.req.decision] = @ + 1]
  /\ Return(c, Answered(t))
  /\ UNCHANGED <<mode, cache, calls, recorded>>

\* _write_ledger_row, and the answer is returned.
Book(c) ==
  LET t == task[c] IN
  /\ t.at = "book"
  /\ ledger' = [ledger EXCEPT ![t.req.decision] = @ + 1]
  /\ Return(c, Answered(t))
  /\ recorded' = IF mode = "record" /\ First(t) THEN recorded \cup {Key(t)} ELSE recorded
  /\ UNCHANGED <<mode, cache, calls>>

\* The row cannot be written: the exception leaves call_with_fallback and
\* the answer is lost.
BookFails(c) ==
  /\ task[c].at = "book"
  /\ Return(c, Failed("error"))
  /\ UNCHANGED <<mode, cache, ledger, calls, recorded>>

Take(c) ==
  /\ task[c].at = "returned"
  /\ Goes(c, Idle)
  /\ UNCHANGED <<mode, cache, ledger, calls, recorded>>

\* The process dies and is started again, maybe with another FIRM_LLM_MODE.
Restart ==
  /\ calls < MaxCalls
  /\ mode' \in Modes
  /\ task' = [c \in Callers |-> Idle]
  /\ UNCHANGED <<cache, ledger, calls, recorded>>

Works(c) ==
  \/ Lookup(c)
  \/ \E content \in Contents : ApiAnswers(c, content)
  \/ AttemptFails(c)
  \/ Put(c)
  \/ Book(c)
  \/ BookFails(c)

Next ==
  \/ \E c \in Callers : (\E req \in Requests : Ask(c, req)) \/ Works(c) \/ Take(c)
  \/ Restart

Spec == Init /\ [][Next]_vars

\* A thread inside the router goes on: every wait in it has a time-out.
FairSpec == Spec /\ \A c \in Callers : WF_vars(Works(c))

-----------------------------------------------------------------------------
(* Properties                                                              *)

DocParts == DocLists \cup {LC!Truncate(docs) : docs \in DocLists}
Keys == [prompt : Prompts, docs : DocParts, model : Profiles]
Answers == [content : Contents, docs : DocParts, model : Profiles]

(* The variables have their types.                                         *)
TypeOK ==
  /\ mode \in Modes
  /\ \A c \in Callers :
       /\ task[c].at \in {"idle", "lookup", "api", "put", "book", "returned"}
       /\ task[c].at # "idle" => task[c].req \in Requests
       /\ task[c].at \in {"lookup", "api", "put", "book"} =>
            task[c].rung \in Rungs(Ladder(task[c].req.profile))
       /\ task[c].at \in {"put", "book"} => task[c].got \in Answers
  /\ \A e \in cache : e.key \in Keys /\ e.answer \in Answers
  /\ ledger \in [Decisions -> Nat]
  /\ recorded \subseteq Keys

(* Whatever a thread is about to book and return was said by the model it  *)
(* is asking, about the documents it is showing: an answer read from the   *)
(* cache is never one to another attempt, whoever recorded it.             *)
AnswerFitsAttempt ==
  \A c \in Callers :
    LET t == task[c] IN
    t.at = "book" => t.got.model = Model(t) /\ t.got.docs = Docs(t)

(* What a recording answered at its first attempt can be replayed: the     *)
(* cache holds one answer to it for ever after, through crashes, calls of  *)
(* other models for the same prompt and threads that recorded it at once.  *)
RecordingReplays ==
  \A k \in recorded :
    /\ \E e \in cache : e.key = k
    /\ \A e, f \in cache : e.key = k /\ f.key = k => e = f

(* The ladder, the cache and the ledger together keep the promise of       *)
(* LlmCall: one result per call, one row per answer, under its decision.   *)
ImplementsLlmCall == LC!CallSpec

(* Every call that is made returns, unless the process dies: the ladder is *)
(* finite, whatever fails and however the threads interleave.              *)
CallReturns ==
  \A c \in Callers :
    task[c].at \in {"lookup", "api", "put", "book"} ~> task[c].at \in {"returned", "idle"}
=============================================================================
