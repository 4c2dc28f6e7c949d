----------------------------- MODULE Committee -----------------------------
(***************************************************************************)
(* From the filings to a proposal: the grounded research node              *)
(* (_make_grounded_research, firm/agents/research.py) with its extractor   *)
(* (llm/citations.py) and judge (grounding/judge.py), and the portfolio    *)
(* committee (make_pm, firm/agents/pm.py), whose three voters call the     *)
(* model from threads of their own under one asyncio.gather.  Every call   *)
(* of a model keeps the promise of LlmCall, which Router implements; what  *)
(* the models say is chosen freely.                                        *)
(***************************************************************************)
EXTENDS Naturals, Sequences, FiniteSets

CONSTANTS
  Lenses,         \* PmLens: the three voters
  MaxChunks,      \* bound: chunks a retrieval returns
  JudgeSays,      \* sets of labels the judge may give to the claims
  MaxHeartbeats,  \* bound: heartbeats
  None

ASSUME LensAssumption ==
  IsFiniteSet(Lenses) /\ Cardinality(Lenses) = 3 /\ {"extractor", "judge"} \cap Lenses = {}
ASSUME ChunkAssumption == MaxChunks \in Nat
ASSUME JudgeAssumption == JudgeSays \subseteq SUBSET {"SUPPORTED", "PARTIAL", "UNSUPPORTED"}
ASSUME HeartbeatAssumption == MaxHeartbeats \in Nat \ {0}
ASSUME NoneAssumption ==
  /\ None \notin {"schema", "unavailable", "error", "INSUFFICIENT_EVIDENCE", "UNGROUNDED_CLAIM",
                  "LLM_UNAVAILABLE", "SCHEMA_VALIDATION_FAILED", "PROMPT_INJECTION_DETECTED",
                  "UNCITED_CLAIM"}
  /\ None \notin [action : {"REFUSE", "HOLD", "BUY", "SELL", "ESCALATE"},
                  payload : [kind : {"none", "hold", "buy", "sell"},
                             ticker : {"none", "ticker", "<unknown>"}],
                  failure : {None, "INSUFFICIENT_EVIDENCE", "UNGROUNDED_CLAIM", "LLM_UNAVAILABLE",
                             "SCHEMA_VALIDATION_FAILED", "PROMPT_INJECTION_DETECTED",
                             "UNCITED_CLAIM"}]

VARIABLES
  hb,         \* number of the heartbeat
  at,         \* the step it is at
  chunks,     \* retrieved chunks in rank order
  claims,     \* state["claims"]: what is quoted, and whether tools add claims
  labels,     \* labels of the judge's assessments
  research,   \* research_decision
  pm,         \* pm_decision
  votes,      \* what became of each voter's thread
  raised,     \* the exception gather raises: that of the first to fail
  bound,      \* the decision each adapter is bound to, from its last bind on
  call,       \* the calls in flight
  ledger      \* cost_ledger: rows of each decision id

nodeVars == <<hb, at, chunks, claims, labels, research, pm, votes, raised, bound>>
vars == <<nodeVars, call, ledger>>

Callers == {"extractor", "judge"} \cup Lenses
Adapters == {"extractor", "judge", "voter"}
Decisions == (1..MaxHeartbeats) \X {"research", "pm"}
Labels == {"SUPPORTED", "PARTIAL", "UNSUPPORTED"}
Ballots == {"BUY", "HOLD", "SELL"}

ChunkLists == {[i \in 1..n |-> i] : n \in 0..MaxChunks}
Requests == [docs : ChunkLists, decision : Decisions]

(* What the collaborators may answer.  The API makes the citations, so a   *)
(* document index is one of those the model was shown.                     *)
ExtractorReplies(docs) == [tools : BOOLEAN, cites : SUBSET DOMAIN docs]
Said(kind, given) == [kind |-> kind, labels |-> given]
JudgeReplies == {Said("garbled", {}), Said("schema", {})}
                  \cup {Said("labels", given) : given \in JudgeSays}
Ballot(vote, forged) == [vote |-> vote, forged |-> forged]
Garbled == Ballot("garbled", FALSE)
VoterReplies == {Garbled} \cup {Ballot(v, f) : v \in Ballots, f \in BOOLEAN}
Contents == JudgeReplies \cup VoterReplies
              \cup UNION {ExtractorReplies(docs) : docs \in ChunkLists}

LLM == INSTANCE LlmCall

-----------------------------------------------------------------------------
(* Decisions                                                               *)

Payload(kind, ticker) == [kind |-> kind, ticker |-> ticker]
NoPayload == Payload("none", "none")
Ticker == "ticker"          \* the ticker the heartbeat researches
Unknown == "<unknown>"

Decision(action, payload, failure) ==
  [action |-> action, payload |-> payload, failure |-> failure]
Refuse(failure) == Decision("REFUSE", NoPayload, failure)

\* What becomes of a voter's thread when it casts no ballot.
NotStarted == Ballot("none", FALSE)
Raised == Ballot("raised", FALSE)
Cancelled == Ballot("cancelled", FALSE)

NoClaims == [quotes |-> {}, tools |-> FALSE]
Empty(cl) == cl.quotes = {} /\ ~ cl.tools

Init ==
  /\ hb = 1
  /\ at = "retrieve"
  /\ chunks = <<>>
  /\ claims = NoClaims
  /\ labels = {}
  /\ research = None
  /\ pm = None
  /\ votes = [l \in Lenses |-> NotStarted]
  /\ raised = None
  /\ bound = [a \in Adapters |-> None]
  /\ LLM!CallInit

ResearchId == <<hb, "research">>
PmId == <<hb, "pm">>

-----------------------------------------------------------------------------
(* Research                                                                *)

Researched(decision) == research' = decision /\ at' = "pm"

\* What an adapter sends names the decision it is bound to then.
Request(adapter, docs) == [docs |-> docs, decision |-> bound[adapter]]

\* Retrieval, which may raise.  Before anything is asked, and with nothing to
\* ask as well, the two adapters are bound to the id of the decision to come.
Retrieve ==
  /\ at = "retrieve"
  /\ \/ /\ at' = "failed"
        /\ UNCHANGED <<chunks, research, bound, call, ledger>>
     \/ /\ chunks' \in ChunkLists
        /\ bound' = [bound EXCEPT !["extractor"] = ResearchId, !["judge"] = ResearchId]
        /\ IF chunks' = <<>>
             THEN /\ Researched(Refuse("INSUFFICIENT_EVIDENCE"))
                  /\ UNCHANGED <<call, ledger>>
             ELSE /\ at' = "extract"
                  /\ LLM!Ask("extractor", Request("extractor", chunks)')
                  /\ UNCHANGED research
  /\ UNCHANGED <<hb, claims, labels, pm, votes, raised>>

\* One claim per citation: the extractor takes the index of the document for
\* the rank of the chunk; what the model read is at that index of what it
\* was shown.
Quotes(result) ==
  {[chunk |-> chunks[i], read |-> result.docs[i]] : i \in result.content.cites}

Grounded(cl) == \A q \in cl.quotes : \E i \in DOMAIN chunks : q.chunk = chunks[i]

\* With claims the judge is asked; without any its result is empty.
Extracted(cl) ==
  /\ claims' = cl
  /\ \/ /\ ~ Grounded(cl)
        /\ Researched(Refuse("UNGROUNDED_CLAIM"))
     \/ /\ Grounded(cl) /\ Empty(cl)
        /\ Researched(Decision("HOLD", Payload("hold", "none"), None))
     \/ /\ Grounded(cl) /\ ~ Empty(cl)
        /\ at' = "judge"
        /\ UNCHANGED research

\* extract: a response that uses tools is followed by a second call, whose
\* response alone is read for citations; each tool that ran adds a claim.
Extract ==
  LET result == call["extractor"].result IN
  /\ at \in {"extract", "tools"}
  /\ LLM!Take("extractor")
  /\ \/ /\ result.kind = "answer"
        /\ at = "extract" /\ result.content.tools
        /\ at' = "askAgain"
        /\ UNCHANGED <<claims, research>>
     \/ /\ result.kind = "answer"
        /\ at = "tools" \/ ~ result.content.tools
        /\ Extracted([quotes |-> Quotes(result), tools |-> at = "tools"])
     \/ /\ result.kind = "unavailable"
        /\ Researched(Refuse("LLM_UNAVAILABLE"))
        /\ UNCHANGED claims
     \/ /\ result.kind = "error"
        /\ at' = "failed"
        /\ UNCHANGED <<claims, research>>
  /\ UNCHANGED <<hb, chunks, labels, pm, votes, raised, bound>>

\* The second call, with the results of the tools, is made at once.
ExtractAgain ==
  /\ at = "askAgain"
  /\ LLM!Ask("extractor", Request("extractor", chunks))
  /\ at' = "tools"
  /\ UNCHANGED <<hb, chunks, claims, labels, research, pm, votes, raised, bound>>

AskJudge ==
  /\ at = "judge"
  /\ LLM!Ask("judge", Request("judge", <<>>))
  /\ at' = "judging"
  /\ UNCHANGED <<hb, chunks, claims, labels, research, pm, votes, raised, bound>>

\* (mutant) one SUPPORTED claim is enough.
AggregateStatusAny(given) ==
  IF "SUPPORTED" \in given \/ given = {} THEN "ok"
  ELSE IF "UNSUPPORTED" \in given THEN "insufficient" ELSE "partial"

\* SufficiencyResult.aggregate_status, over the assessments there are.
AggregateStatus(given) ==
  IF "UNSUPPORTED" \in given THEN "insufficient"
  ELSE IF "PARTIAL" \in given THEN "partial" ELSE "ok"

\* The research decision, once the judge has labelled the claims.
Sufficiency(given) ==
  CASE AggregateStatus(given) = "insufficient" -> Refuse("INSUFFICIENT_EVIDENCE")
    [] AggregateStatus(given) = "partial" ->
         Decision("ESCALATE", Payload("buy", Ticker), None)
    [] OTHER -> Decision("BUY", Payload("buy", Ticker), None)

Judge ==
  LET result == call["judge"].result IN
  /\ at = "judging"
  /\ LLM!Take("judge")
  /\ \/ /\ result.kind = "answer" /\ result.content.kind = "labels"
        /\ labels' = result.content.labels
        /\ Researched(Sufficiency(result.content.labels))
     \/ /\ result.kind = "answer" /\ result.content.kind = "schema"
        /\ Researched(Refuse("SCHEMA_VALIDATION_FAILED"))
        /\ UNCHANGED labels
     \/ /\ \/ result.kind = "unavailable"
           \/ result.kind = "answer" /\ result.content.kind = "garbled"
        /\ Researched(Refuse("LLM_UNAVAILABLE"))
        /\ UNCHANGED labels
     \/ /\ result.kind = "error"
        /\ at' = "failed"
        /\ UNCHANGED <<labels, research>>
  /\ UNCHANGED <<hb, chunks, claims, pm, votes, raised, bound>>

-----------------------------------------------------------------------------
(* The committee                                                           *)

Decides(decision) == pm' = decision /\ at' = "over"

\* Research that refused or escalated passes through under a new id.
PassThrough ==
  /\ at = "pm"
  /\ research.action \in {"REFUSE", "ESCALATE"}
  /\ Decides(research)
  /\ UNCHANGED <<hb, chunks, claims, labels, research, votes, raised, bound, call, ledger>>

\* A signature of an injection in the claims, which the rationale repeats.
InjectionGate ==
  /\ at = "pm"
  /\ research.action \notin {"REFUSE", "ESCALATE"}
  /\ ~ Empty(claims)
  /\ Decides(Refuse("PROMPT_INJECTION_DETECTED"))
  /\ UNCHANGED <<hb, chunks, claims, labels, research, votes, raised, bound, call, ledger>>

\* (mutant) the adapter is bound only the first time.
OpenVoteBoundOnce ==
  /\ at = "pm"
  /\ research.action \notin {"REFUSE", "ESCALATE"}
  /\ at' = "vote"
  /\ bound' = IF bound["voter"] = None THEN [bound EXCEPT !["voter"] = PmId] ELSE bound
  /\ UNCHANGED <<hb, chunks, claims, labels, research, pm, votes, raised, call, ledger>>

\* The voters' adapter is bound to the id of the decision to come; three
\* threads share it.
OpenVote ==
  /\ at = "pm"
  /\ research.action \notin {"REFUSE", "ESCALATE"}
  /\ at' = "vote"
  /\ bound' = [bound EXCEPT !["voter"] = PmId]
  /\ UNCHANGED <<hb, chunks, claims, labels, research, pm, votes, raised, call, ledger>>

StartVoter(l) ==
  /\ at = "vote"
  /\ votes[l] = NotStarted
  /\ LLM!Ask(l, Request("voter", <<>>))
  /\ UNCHANGED nodeVars

\* PmVoter.vote: the exception it raises, if any.
VoterRaises(result) ==
  IF result.kind # "answer" THEN result.kind
  ELSE IF result.content = Garbled THEN "schema" ELSE None

IsBallot(v) == v.vote \in Ballots

\* (mutant) a voter that fails votes again.
VoterEndsOrRetries(l) ==
  LET failure == VoterRaises(call[l].result)
  IN /\ at = "vote"
     /\ LLM!Take(l)
     /\ votes' = [votes EXCEPT ![l] = IF failure = None
                                        THEN call[l].result.content ELSE NotStarted]
     /\ UNCHANGED <<hb, at, chunks, claims, labels, research, pm, raised, bound>>

\* A thread ends; gather keeps the exception of the first that fails.
VoterEnds(l) ==
  LET failure == VoterRaises(call[l].result)
  IN /\ at = "vote"
     /\ LLM!Take(l)
     /\ votes' = [votes EXCEPT ![l] = IF failure = None
                                        THEN call[l].result.content ELSE Raised]
     /\ raised' = IF raised = None THEN failure ELSE raised
     /\ UNCHANGED <<hb, at, chunks, claims, labels, research, pm, bound>>

\* asyncio.run cancels what gather left behind; a thread that has begun goes on.
CancelVoter(l) ==
  /\ at = "vote"
  /\ raised # None
  /\ votes[l] = NotStarted /\ call[l].state = "idle"
  /\ votes' = [votes EXCEPT ![l] = Cancelled]
  /\ UNCHANGED <<hb, at, chunks, claims, labels, research, pm, raised, bound, call, ledger>>

\* (mutant) the exception leaves the node while other voters still run.
JoinedOnSuccess == raised # None \/ \A l \in Lenses : votes[l] # NotStarted

\* asyncio.run returns, or raises, once every thread of its executor ended.
Joined == \A l \in Lenses : votes[l] # NotStarted

Tally(ballot) == Cardinality({l \in Lenses : votes[l].vote = ballot})

\* aggregate_votes: two of a kind carry the vote, but a SELL against two BUYs
\* and three different votes go to a human.
AggregateVotes ==
  IF \E b \in Ballots : Tally(b) >= 2 /\ ~ (b = "BUY" /\ Tally("SELL") = 1)
    THEN CHOOSE b \in Ballots : Tally(b) >= 2
    ELSE "ESCALATE"

\* (mutant) the ticker is taken from the payload, whatever its kind.
PayloadForRaw(action) ==
  IF action = research.action THEN research.payload
  ELSE IF action = "HOLD" THEN Payload("hold", "none")
  ELSE Payload(IF action = "SELL" THEN "sell" ELSE "buy", research.payload.ticker)

\* _payload_for: research that held has no ticker to give.
PayloadFor(action) ==
  LET ticker == IF research.action = "BUY" THEN research.payload.ticker ELSE Unknown IN
  IF action = research.action THEN research.payload
  ELSE IF action = "HOLD" THEN Payload("hold", "none")
  ELSE Payload(IF action = "SELL" THEN "sell" ELSE "buy", ticker)

Forged == \E l \in Lenses : IsBallot(votes[l]) /\ votes[l].forged

CloseVote ==
  /\ at = "vote"
  /\ Joined
  /\ \/ /\ raised = "unavailable"
        /\ Decides(Refuse("LLM_UNAVAILABLE"))
     \/ /\ raised = "schema"
        /\ Decides(Refuse("SCHEMA_VALIDATION_FAILED"))
     \/ /\ raised = "error"
        /\ at' = "failed"
        /\ UNCHANGED pm
     \/ /\ raised = None /\ Forged
        /\ Decides(Refuse("UNCITED_CLAIM"))
     \/ /\ raised = None /\ ~ Forged
        /\ Decides(Decision(AggregateVotes, PayloadFor(AggregateVotes), None))
  /\ UNCHANGED <<hb, chunks, claims, labels, research, votes, raised, bound, call, ledger>>

-----------------------------------------------------------------------------
(* The model's side of the calls, the next heartbeat, the death of the     *)
(* process.                                                                *)

Replies(c, docs) ==
  CASE c = "extractor" -> ExtractorReplies(docs)
    [] c = "judge" -> JudgeReplies
    [] OTHER -> VoterReplies

CallEnds(c) ==
  /\ call[c].state = "asked"
  /\ \/ \E docs \in LLM!Shown(call[c].req) :
          \E content \in Replies(c, docs) : LLM!Answer(c, content, docs)
     \/ \E kind \in LLM!Failures : LLM!Fail(c, kind)
  /\ UNCHANGED nodeVars

\* What the loop (or the next process) starts from.
Afresh ==
  /\ hb < MaxHeartbeats
  /\ hb' = hb + 1
  /\ at' = "retrieve"
  /\ chunks' = <<>>
  /\ claims' = NoClaims
  /\ labels' = {}
  /\ research' = None
  /\ pm' = None
  /\ votes' = [l \in Lenses |-> NotStarted]
  /\ raised' = None

\* The same process goes on, with its adapters as they are.
NextHeartbeat ==
  /\ at \in {"over", "failed"}
  /\ Afresh
  /\ UNCHANGED <<bound, call, ledger>>

\* The process ends at any point (with --once, when its heartbeat is over).
Crash ==
  /\ Afresh
  /\ bound' = [a \in Adapters |-> None]
  /\ LLM!Crash

Steps ==
  \/ Retrieve \/ Extract \/ ExtractAgain \/ AskJudge \/ Judge
  \/ PassThrough \/ InjectionGate \/ OpenVote \/ CloseVote
  \/ \E l \in Lenses : StartVoter(l) \/ VoterEnds(l) \/ CancelVoter(l)
  \/ \E c \in Callers : CallEnds(c)

Next == Steps \/ NextHeartbeat \/ Crash

Spec == Init /\ [][Next]_vars

\* Every call returns (Router's CallReturns), and threads are scheduled.
FairSpec == Spec /\ WF_vars(Steps)
-----------------------------------------------------------------------------
(* Properties                                                              *)

Stages == {"retrieve", "extract", "askAgain", "tools", "judge", "judging", "pm",
           "vote", "over", "failed"}
TradePayloads == [kind : {"buy", "sell"}, ticker : {Ticker, Unknown}]
IsDecision(d) ==
  \/ d.action = "REFUSE" /\ d.payload = NoPayload /\ d.failure # None
  \/ d.action = "HOLD" /\ d.payload = Payload("hold", "none") /\ d.failure = None
  \/ d.action \in {"BUY", "SELL", "ESCALATE"} /\ d.payload \in TradePayloads
     /\ d.failure = None

(* The variables have their types; a decision carries the payload of its   *)
(* action, and a failure mode exactly when it refuses.                     *)
TypeOK ==
  /\ hb \in 1..MaxHeartbeats
  /\ at \in Stages
  /\ chunks \in ChunkLists
  /\ labels \in JudgeSays \cup {{}}
  /\ research # None => IsDecision(research)
  /\ pm # None => IsDecision(pm)
  /\ at \in {"pm", "vote", "over"} => research # None
  /\ at = "over" => pm # None
  /\ raised \in {None, "schema", "unavailable", "error"}
  /\ bound \in [Adapters -> Decisions \cup {None}]
  /\ ledger \in [Decisions -> Nat]

Trades == at = "over" /\ pm.action \in {"BUY", "SELL"}

(* Nothing the judge found unsupported or partial is traded, and nothing   *)
(* that quotes a chunk which was not retrieved.  The committee may trade   *)
(* when research held for want of claims: then, and only then, the trade   *)
(* is in the ticker "<unknown>".                                           *)
TradeIsBacked ==
  Trades =>
    /\ labels \subseteq {"SUPPORTED"}
    /\ Grounded(claims)
    /\ (pm.payload.ticker = Unknown) = Empty(claims)

(* A claim quotes the chunk the model read: the index the API returns is   *)
(* into the documents of the attempt that succeeded, maybe a truncated     *)
(* one, while the extractor looks it up in the list it asked with.         *)
ClaimsQuoteWhatWasRead == \A q \in claims.quotes : q.chunk = q.read

(* A decision finds its calls in the ledger under its own id: one row per  *)
(* vote; for research one per response of the extractor and of the judge.  *)
RowsNameDecision ==
  /\ at \in {"pm", "over"} /\ research.failure = None =>
       ledger[ResearchId] = Cardinality({c \in {"extractor", "judge"} :
                              c = "extractor" \/ ~ Empty(claims)})
                              + (IF claims.tools THEN 1 ELSE 0)
  /\ Trades => ledger[PmId] = 3
  /\ ledger[PmId] <= 3

(* No voter outlives its heartbeat: once the committee decided, failed or  *)
(* was left behind by the next heartbeat, no call of it is booked any more.*)
NoLateRow ==
  [][\A d \in Decisions :
       ledger'[d] # ledger[d] => d[1] = hb /\ at \notin {"over", "failed"}]_vars

(* Every heartbeat ends, with a decision or an exception, also when calls  *)
(* fail and voters raise while others are at work.                         *)
HeartbeatEnds == []<>(at \in {"over", "failed"})
=============================================================================
