-------------------------- MODULE CommitteeProofs --------------------------
(***************************************************************************)
(* The committee for any bound on chunks and heartbeats and any judge: no  *)
(* trade is made without backing, a claim quotes what the model read, and  *)
(* the ledger has every answer under the decision it was for.              *)
(***************************************************************************)
EXTENDS Committee, FiniteSetTheorems, SequenceTheorems, TLAPS

-----------------------------------------------------------------------------
(* The inductive invariant.                                                *)

\* Who may have a call in flight: in each step of research one caller, and
\* while the committee votes whoever has not voted.
Busy(c) ==
  \/ c = "extractor" /\ at \in {"extract", "tools"}
  \/ c = "judge" /\ at = "judging"
  \/ c \in Lenses /\ at = "vote" /\ votes[c] = NotStarted

\* What the adapters send when each is bound as it should be.
Asks(docs) == [docs |-> docs, decision |-> ResearchId]

Req(c) ==
  CASE c = "extractor" -> Asks(chunks)
    [] c = "judge" -> Asks(<<>>)
    [] OTHER -> [docs |-> <<>>, decision |-> PmId]

\* What a call may have returned.
Results(c, req) ==
  {LLM!Failed(kind) : kind \in LLM!Failures}
    \cup UNION {{LLM!Answered(content, docs) : content \in Replies(c, docs)} : docs \in LLM!Shown(req)}

CallFits(c) ==
  \/ call[c].state = "idle"
  \/ /\ Busy(c) /\ call[c].req = Req(c)
     /\ \/ call[c].state = "asked"
        \/ call[c].state = "returned" /\ call[c].result \in Results(c, Req(c))

CallInv ==
  /\ call = [c \in Callers |-> call[c]]
  /\ \A c \in Callers : CallFits(c)

\* While it is asked, an adapter is bound to the decision that is being made.
BindInv ==
  /\ at \in {"extract", "askAgain", "tools", "judge", "judging"} =>
       bound["extractor"] = ResearchId /\ bound["judge"] = ResearchId
  /\ at = "vote" => bound["voter"] = PmId

\* What each step of research has established about the claims.
ClaimInv ==
  /\ ClaimsQuoteWhatWasRead
  /\ at \in {"retrieve", "extract", "askAgain", "tools", "judge", "judging"} => labels = {}
  /\ at \in {"judge", "judging"} => Grounded(claims) /\ ~ Empty(claims)
  /\ at \in {"pm", "vote", "over"} =>
       /\ research.action \in {"REFUSE", "HOLD", "BUY", "ESCALATE"}
       /\ research.failure = None => (research.action = "HOLD" <=> Empty(claims))
       /\ research.action \in {"HOLD", "BUY"} =>
            labels \subseteq {"SUPPORTED"} /\ Grounded(claims)
       /\ research.action = "BUY" => research.payload = Payload("buy", Ticker)
       /\ at = "vote" => research.action \in {"HOLD", "BUY"}

\* Every voter has voted, or none has yet; without an exception each that
\* ended left a ballot.
VoteInv ==
  /\ votes = [l \in Lenses |-> votes[l]]
  /\ at \notin {"vote", "over", "failed"} =>
       raised = None /\ \A l \in Lenses : votes[l] = NotStarted
  /\ raised = None => \A l \in Lenses : votes[l] = NotStarted \/ IsBallot(votes[l])

\* A trade is the outcome of a vote that everyone took part in.
TradeInv ==
  Trades =>
    /\ research.action \in {"HOLD", "BUY"}
    /\ pm.payload.ticker = IF research.action = "BUY" THEN Ticker ELSE Unknown
    /\ raised = None /\ Joined

Answers(c) == call[c].state = "returned" /\ call[c].result.kind = "answer"
One(b) == IF b THEN 1 ELSE 0

\* The rows research has booked when it is at a step.
ResearchRows ==
  /\ at = "retrieve" => ledger[ResearchId] = 0
  /\ at = "extract" => ledger[ResearchId] = One(Answers("extractor"))
  /\ at = "askAgain" => ledger[ResearchId] = 1
  /\ at = "tools" => ledger[ResearchId] = 1 + One(Answers("extractor"))
  /\ at = "judge" => ledger[ResearchId] = 1 + One(claims.tools)
  /\ at = "judging" => ledger[ResearchId] = 1 + One(claims.tools) + One(Answers("judge"))
  /\ at \in {"pm", "vote", "over"} /\ research.failure = None =>
       ledger[ResearchId] = 1 + One(claims.tools) + One(~ Empty(claims))

\* The rows of the committee are those of a set of voters: whoever left a
\* ballot or has an answer to take is one of them, and no one else who still
\* has nothing.
PmRows ==
  \E B \in SUBSET Lenses :
    /\ ledger[PmId] = Cardinality(B)
    /\ \A l \in Lenses :
         /\ IsBallot(votes[l]) \/ Answers(l) => l \in B
         /\ l \in B => votes[l] # NotStarted \/ Answers(l)

\* Nothing is booked for a heartbeat to come.
LaterRows == \A d \in Decisions : d[1] > hb => ledger[d] = 0

CommitteeInv ==
  TypeOK /\ CallInv /\ BindInv /\ ClaimInv /\ VoteInv /\ TradeInv /\ ResearchRows /\ PmRows /\ LaterRows

-----------------------------------------------------------------------------
(* The types.                                                              *)

Failings == {"INSUFFICIENT_EVIDENCE", "UNGROUNDED_CLAIM", "LLM_UNAVAILABLE",
             "SCHEMA_VALIDATION_FAILED", "PROMPT_INJECTION_DETECTED", "UNCITED_CLAIM"}

LEMMA Names ==
  /\ "extractor" \in Callers /\ "judge" \in Callers /\ Lenses \subseteq Callers
  /\ "extractor" \notin Lenses /\ "judge" \notin Lenses
BY LensAssumption DEF Callers

\* A refusal, and every decision with a payload, is a decision and not None.
LEMMA Refused ==
  ASSUME NEW f \in Failings
  PROVE  IsDecision(Refuse(f)) /\ Refuse(f) # None
BY NoneAssumption DEF Failings, IsDecision, Refuse, Decision, NoPayload, Payload

LEMMA Held ==
  LET d == Decision("HOLD", Payload("hold", "none"), None)
  IN  IsDecision(d) /\ d # None
BY NoneAssumption DEF IsDecision, Decision, Payload

LEMMA Proposed ==
  ASSUME NEW a \in {"BUY", "SELL", "ESCALATE"}, NEW p \in TradePayloads
  PROVE  IsDecision(Decision(a, p, None)) /\ Decision(a, p, None) # None
BY NoneAssumption DEF IsDecision, Decision, TradePayloads, Ticker, Unknown

LEMMA Judged ==
  ASSUME NEW given
  PROVE  IsDecision(Sufficiency(given)) /\ Sufficiency(given) # None
<1>1. Payload("buy", Ticker) \in TradePayloads
  BY DEF Payload, TradePayloads
<1>2. QED
  BY <1>1, Refused, Proposed DEF Sufficiency, Failings

LEMMA Voted == AggregateVotes \in Ballots \cup {"ESCALATE"}
BY DEF AggregateVotes, Ballots

\* What the committee decides when everyone has voted.
LEMMA Decided ==
  ASSUME IsDecision(research), research.action \in {"HOLD", "BUY"}
  PROVE  LET d == Decision(AggregateVotes, PayloadFor(AggregateVotes), None)
         IN  /\ IsDecision(d) /\ d # None
             /\ d.action \in {"BUY", "SELL"} =>
                  d.payload.ticker = IF research.action = "BUY" THEN research.payload.ticker ELSE Unknown
<1> DEFINE a == AggregateVotes
           p == PayloadFor(a)
<1>1. CASE a = "HOLD"
  <2>1. p = Payload("hold", "none")
    BY <1>1 DEF PayloadFor, IsDecision
  <2>2. QED
    BY <1>1, <2>1, Held DEF Decision
<1>2. CASE a # "HOLD"
  <2>1. a \in {"BUY", "SELL", "ESCALATE"}
    BY <1>2, Voted DEF Ballots
  <2>2. research.action = "BUY" => research.payload \in TradePayloads
    BY DEF IsDecision
  <2>3. p \in TradePayloads /\ p.ticker = IF research.action = "BUY" THEN research.payload.ticker ELSE Unknown
    BY <2>1, <2>2 DEF PayloadFor, Payload, TradePayloads
  <2>4. QED
    BY <2>1, <2>3, Proposed DEF Decision
<1>3. QED
  BY <1>1, <1>2

-----------------------------------------------------------------------------
(* The calls.                                                              *)

LEMMA Asking ==
  ASSUME CallInv, NEW c \in Callers, NEW req, LLM!Ask(c, req)
  PROVE  /\ call' = [d \in Callers |-> call'[d]] /\ ledger' = ledger
         /\ call[c].state = "idle"
         /\ call'[c].state = "asked" /\ call'[c].req = req
         /\ \A d \in Callers \ {c} : call'[d] = call[d]
BY DEF CallInv, LLM!Ask

LEMMA Taking ==
  ASSUME CallInv, NEW c \in Callers, LLM!Take(c)
  PROVE  /\ call' = [d \in Callers |-> call'[d]] /\ ledger' = ledger
         /\ Busy(c) /\ call[c].state = "returned" /\ call[c].result \in Results(c, Req(c))
         /\ call'[c].state = "idle"
         /\ \A d \in Callers \ {c} : call'[d] = call[d]
BY DEF CallInv, CallFits, LLM!Take, LLM!NoCall

LEMMA ResultKinds ==
  ASSUME NEW c, NEW req, NEW r \in Results(c, req)
  PROVE  \/ r.kind \in {"unavailable", "error"}
         \/ r.kind = "answer" /\ r.docs \in LLM!Shown(req) /\ r.content \in Replies(c, r.docs)
<1>1. CASE r \in {LLM!Failed(kind) : kind \in LLM!Failures}
  BY <1>1 DEF LLM!Failed, LLM!Failures
<1>2. CASE r \notin {LLM!Failed(kind) : kind \in LLM!Failures}
  <2>1. PICK docs \in LLM!Shown(req) : r \in {LLM!Answered(content, docs) : content \in Replies(c, docs)}
    BY <1>2 DEF Results
  <2>2. PICK content \in Replies(c, docs) : r = LLM!Answered(content, docs)
    BY <2>1
  <2>3. r.kind = "answer" /\ r.docs = docs /\ r.content = content
    BY <2>2 DEF LLM!Answered
  <2>4. QED
    BY <2>3
<1>3. QED
  BY <1>1, <1>2

LEMMA Ending ==
  ASSUME CallInv, NEW c \in Callers, CallEnds(c)
  PROVE  /\ call' = [d \in Callers |-> call'[d]]
         /\ Busy(c) /\ call[c].state = "asked" /\ call[c].req = Req(c)
         /\ call'[c].state = "returned" /\ call'[c].req = Req(c) /\ call'[c].result \in Results(c, Req(c))
         /\ \/ ledger' = ledger /\ call'[c].result.kind # "answer"
            \/ /\ ledger' = [ledger EXCEPT ![Req(c).decision] = @ + 1]
               /\ call'[c].result.kind = "answer"
         /\ \A d \in Callers \ {c} : call'[d] = call[d]
<1>1. Busy(c) /\ call[c].state = "asked" /\ call[c].req = Req(c)
  BY DEF CallEnds, CallInv, CallFits
<1>2. CASE \E docs \in LLM!Shown(call[c].req) : \E content \in Replies(c, docs) : LLM!Answer(c, content, docs)
  <2>1. PICK docs \in LLM!Shown(Req(c)) : \E content \in Replies(c, docs) : LLM!Answer(c, content, docs)
    BY <1>1, <1>2
  <2>2. PICK content \in Replies(c, docs) : LLM!Answer(c, content, docs)
    BY <2>1
  <2>3. LLM!Answered(content, docs) \in Results(c, Req(c)) /\ LLM!Answered(content, docs).kind = "answer"
    BY <2>1, <2>2 DEF Results, LLM!Answered
  <2>4. /\ call' = [call EXCEPT ![c] = [state |-> "returned", req |-> Req(c),
                                        result |-> LLM!Answered(content, docs)]]
        /\ ledger' = [ledger EXCEPT ![Req(c).decision] = @ + 1]
    BY <1>1, <2>2 DEF LLM!Answer, LLM!Return
  <2>5. QED
    BY <1>1, <2>3, <2>4 DEF CallInv
<1>3. CASE \E kind \in LLM!Failures : LLM!Fail(c, kind)
  <2>1. PICK kind \in LLM!Failures : LLM!Fail(c, kind)
    BY <1>3
  <2>2. LLM!Failed(kind) \in Results(c, Req(c)) /\ LLM!Failed(kind).kind # "answer"
    BY <2>1 DEF Results, LLM!Failed, LLM!Failures
  <2>3. /\ call' = [call EXCEPT ![c] = [state |-> "returned", req |-> Req(c), result |-> LLM!Failed(kind)]]
        /\ ledger' = ledger
    BY <1>1, <2>1 DEF LLM!Fail, LLM!Return
  <2>4. QED
    BY <1>1, <2>2, <2>3 DEF CallInv
<1>4. QED
  BY <1>2, <1>3 DEF CallEnds

LEMMA Resting ==
  ASSUME CallInv, NEW c \in Callers, ~ Busy(c)
  PROVE  call[c].state = "idle"
BY DEF CallInv, CallFits

LEMMA IdsTyped ==
  ASSUME TypeOK
  PROVE  ResearchId \in Decisions /\ PmId \in Decisions /\ ResearchId # PmId
BY DEF TypeOK, Decisions, ResearchId, PmId

LEMMA ReqIds ==
  ASSUME NEW c \in Callers
  PROVE  Req(c).decision = IF c \in Lenses THEN PmId ELSE ResearchId
BY LensAssumption DEF Req, Asks, Callers

LEMMA Retrieved ==
  ASSUME TypeOK, Retrieve
  PROVE  /\ at = "retrieve" /\ UNCHANGED <<hb, claims, labels, pm, votes, raised>>
         /\ bound' \in [Adapters -> Decisions \cup {None}]
         /\ \/ at' = "failed" /\ UNCHANGED <<chunks, research, call, ledger>>
            \/ /\ chunks' \in ChunkLists
               /\ at' = "pm" /\ research' = Refuse("INSUFFICIENT_EVIDENCE")
               /\ UNCHANGED <<call, ledger>>
            \/ /\ chunks' \in ChunkLists
               /\ at' = "extract" /\ UNCHANGED research
               /\ bound'["extractor"] = ResearchId /\ bound'["judge"] = ResearchId
               /\ LLM!Ask("extractor", Asks(chunks'))
<1>1. at = "retrieve" /\ UNCHANGED <<hb, claims, labels, pm, votes, raised>>
  BY DEF Retrieve
<1>2. CASE at' = "failed" /\ UNCHANGED <<chunks, research, bound, call, ledger>>
  BY <1>1, <1>2 DEF TypeOK
<1>3. CASE ~ (at' = "failed" /\ UNCHANGED <<chunks, research, bound, call, ledger>>)
  <2>1. /\ chunks' \in ChunkLists
        /\ bound' = [bound EXCEPT !["extractor"] = ResearchId, !["judge"] = ResearchId]
    BY <1>3 DEF Retrieve
  <2>2. /\ bound' \in [Adapters -> Decisions \cup {None}]
        /\ bound'["extractor"] = ResearchId /\ bound'["judge"] = ResearchId
    BY <2>1, IdsTyped DEF TypeOK, Adapters
  <2>3. CASE chunks' = <<>>
    BY <1>1, <1>3, <2>1, <2>2, <2>3 DEF Retrieve, Researched
  <2>4. CASE chunks' # <<>>
    <3>1. at' = "extract" /\ UNCHANGED research /\ LLM!Ask("extractor", Request("extractor", chunks)')
      BY <1>3, <2>4 DEF Retrieve
    <3>2. Request("extractor", chunks)' = Asks(chunks')
      BY <2>2 DEF Request, Asks
    <3>3. QED
      BY <1>1, <2>1, <2>2, <3>1, <3>2
  <2>5. QED
    BY <2>3, <2>4
<1>4. QED
  BY <1>2, <1>3

\* The other requests name the decision that is being made as well.
LEMMA Bound ==
  ASSUME BindInv
  PROVE  /\ ExtractAgain => LLM!Ask("extractor", Asks(chunks))
         /\ AskJudge => LLM!Ask("judge", Asks(<<>>))
         /\ \A l \in Lenses : StartVoter(l) => LLM!Ask(l, [docs |-> <<>>, decision |-> PmId])
<1>1. /\ at = "askAgain" => Request("extractor", chunks) = Asks(chunks)
      /\ at = "judge" => Request("judge", <<>>) = Asks(<<>>)
      /\ at = "vote" => Request("voter", <<>>) = [docs |-> <<>>, decision |-> PmId]
  BY DEF BindInv, Request, Asks
<1>2. QED
  BY <1>1 DEF ExtractAgain, AskJudge, StartVoter

LEMMA NoneApart == \A f \in Failings \cup {"schema", "unavailable", "error"} : f # None
BY NoneAssumption DEF Failings

\* What a voter raises, and what it leaves when it raises nothing.
LEMMA Raising ==
  ASSUME NEW l \in Lenses, NEW req, NEW r \in Results(l, req)
  PROVE  /\ VoterRaises(r) \in {None, "schema", "unavailable", "error"}
         /\ VoterRaises(r) = None => r.kind = "answer" /\ IsBallot(r.content)
<1>1. l # "extractor" /\ l # "judge"
  BY Names
<1>2. CASE r.kind \in {"unavailable", "error"}
  BY <1>2, NoneApart DEF VoterRaises
<1>3. CASE r.kind = "answer" /\ r.content \in VoterReplies
  BY <1>3, NoneApart DEF VoterRaises, VoterReplies, IsBallot, Ballot
<1>4. QED
  BY <1>1, <1>2, <1>3, ResultKinds DEF Replies

-----------------------------------------------------------------------------
(* Types are kept.                                                         *)

LEMMA TypeNext == TypeOK /\ CallInv /\ ClaimInv /\ [Next]_vars => TypeOK'
<1> SUFFICES ASSUME TypeOK, CallInv, ClaimInv, [Next]_vars PROVE TypeOK'
  OBVIOUS
<1>1. CASE Retrieve
  <2>1. /\ UNCHANGED <<hb, labels, pm, raised>> /\ bound' \in [Adapters -> Decisions \cup {None}]
        /\ chunks' \in ChunkLists /\ ledger' = ledger
    BY <1>1, Retrieved DEF TypeOK, LLM!Ask
  <2>2. \/ at' \in {"failed", "extract"} /\ research' = research
        \/ at' = "pm" /\ IsDecision(research') /\ research' # None
    BY <1>1, Retrieved, Refused DEF Failings
  <2>3. QED
    BY <2>1, <2>2 DEF TypeOK, Stages
<1>2. CASE Extract
  <2>1. \/ research' = research /\ at' \in {"askAgain", "judge", "failed"}
        \/ IsDecision(research') /\ research' # None /\ at' = "pm"
    BY <1>2, Refused, Held DEF Extract, Extracted, Researched, Failings
  <2>2. ledger' = ledger
    BY <1>2, Taking, Names DEF Extract
  <2>3. QED
    BY <1>2, <2>1, <2>2 DEF Extract, TypeOK, Stages
<1>3. CASE ExtractAgain \/ AskJudge
  BY <1>3 DEF ExtractAgain, AskJudge, TypeOK, Stages, LLM!Ask
<1>4. CASE Judge
  <2>1. /\ \/ research' = research /\ at' = "failed"
           \/ IsDecision(research') /\ research' # None /\ at' = "pm"
        /\ \/ labels' = labels
           \/ labels' = call["judge"].result.content.labels /\ call["judge"].result.content.kind = "labels"
    BY <1>4, Refused, Judged DEF Judge, Researched, Failings
  <2>2. ledger' = ledger /\ call["judge"].result \in Results("judge", Req("judge"))
    BY <1>4, Taking, Names DEF Judge
  <2>3. labels' \in JudgeSays \cup {{}}
    <3>1. CASE labels' = labels
      BY <3>1 DEF TypeOK
    <3>2. CASE labels' # labels
      <4>1. call["judge"].result.kind = "answer"
        BY <1>4, <3>2 DEF Judge
      <4>2. call["judge"].result.content \in JudgeReplies
        BY <2>2, <4>1, ResultKinds DEF Replies
      <4>3. QED
        BY <2>1, <3>2, <4>2 DEF JudgeReplies, Said
    <3>3. QED
      BY <3>1, <3>2
  <2>4. QED
    BY <1>4, <2>1, <2>2, <2>3 DEF Judge, TypeOK, Stages
<1>5. CASE PassThrough
  BY <1>5 DEF PassThrough, Decides, TypeOK, Stages
<1>6. CASE InjectionGate
  BY <1>6, Refused DEF InjectionGate, Decides, TypeOK, Stages, Failings
<1>7. CASE OpenVote
  <2>1. bound' \in [Adapters -> Decisions \cup {None}]
    BY <1>7, IdsTyped DEF OpenVote, TypeOK, Adapters
  <2>2. QED
    BY <1>7, <2>1 DEF OpenVote, TypeOK, Stages
<1>8. CASE CloseVote
  <2>1. CASE at' = "failed"
    BY <1>8, <2>1 DEF CloseVote, Decides, TypeOK, Stages
  <2>2. CASE at' = "over" /\ IsDecision(pm') /\ pm' # None
    BY <1>8, <2>2 DEF CloseVote, TypeOK, Stages
  <2>3. CASE raised = None /\ ~ Forged
    <3>1. IsDecision(research) /\ research.action \in {"HOLD", "BUY"}
      BY <1>8 DEF CloseVote, TypeOK, ClaimInv
    <3>2. IsDecision(pm') /\ pm' # None /\ at' = "over"
      BY <1>8, <2>3, <3>1, Decided, NoneApart DEF CloseVote, Decides
    <3>3. QED
      BY <2>2, <3>2
  <2>4. QED
    BY <1>8, <2>1, <2>2, <2>3, Refused DEF CloseVote, Decides, Failings
<1>9. CASE \E l \in Lenses : StartVoter(l) \/ CancelVoter(l)
  BY <1>9 DEF StartVoter, CancelVoter, nodeVars, TypeOK, LLM!Ask
<1>10. ASSUME NEW l \in Lenses, VoterEnds(l)
       PROVE  TypeOK'
  <2>1. l \in Callers
    BY Names
  <2>2. ledger' = ledger /\ call[l].result \in Results(l, Req(l))
    BY <1>10, <2>1, Taking DEF VoterEnds
  <2>3. raised' \in {None, "schema", "unavailable", "error"}
    BY <1>10, <2>2, Raising DEF VoterEnds, TypeOK
  <2>4. QED
    BY <1>10, <2>2, <2>3 DEF VoterEnds, TypeOK
<1>11. ASSUME NEW c \in Callers, CallEnds(c)
       PROVE  TypeOK'
  <2>1. Req(c).decision \in Decisions
    BY ReqIds, IdsTyped
  <2>2. ledger' = ledger \/ ledger' = [ledger EXCEPT ![Req(c).decision] = @ + 1]
    BY <1>11, Ending
  <2>3. ledger' \in [Decisions -> Nat]
    BY <2>1, <2>2 DEF TypeOK
  <2>4. QED
    BY <1>11, <2>3 DEF CallEnds, nodeVars, TypeOK
<1>12. CASE NextHeartbeat \/ Crash
  <2>1. Afresh /\ ledger' = ledger
    BY <1>12 DEF NextHeartbeat, Crash, LLM!Crash
  <2>2. hb' \in 1..MaxHeartbeats
    BY <2>1, HeartbeatAssumption DEF Afresh, TypeOK
  <2>3. <<>> \in ChunkLists
    BY ChunkAssumption DEF ChunkLists
  <2>4. bound' \in [Adapters -> Decisions \cup {None}]
    BY <1>12 DEF NextHeartbeat, Crash, TypeOK
  <2>5. QED
    BY <2>1, <2>2, <2>3, <2>4 DEF Afresh, TypeOK, Stages
<1>13. CASE UNCHANGED vars
  BY <1>13 DEF vars, nodeVars, TypeOK
<1>14. QED
  BY <1>1, <1>2, <1>3, <1>4, <1>5, <1>6, <1>7, <1>8, <1>9, <1>10, <1>11, <1>12, <1>13 DEF Next, Steps

-----------------------------------------------------------------------------
(* Who calls.                                                              *)

LEMMA CallsStay ==
  ASSUME CallInv, call' = [c \in Callers |-> call'[c]],
         \A c \in Callers : \/ CallFits(c)'
                            \/ call'[c] = call[c] /\ (Busy(c) => Busy(c)' /\ Req(c)' = Req(c))
  PROVE  CallInv'
<1>1. ASSUME NEW c \in Callers, call'[c] = call[c], Busy(c) => Busy(c)' /\ Req(c)' = Req(c)
      PROVE  CallFits(c)'
  BY <1>1 DEF CallInv, CallFits
<1>2. QED
  BY <1>1 DEF CallInv

\* A call that is made, taken or answered where the caller is.
LEMMA CallsStayBut ==
  ASSUME CallInv, NEW c \in Callers, call' = [d \in Callers |-> call'[d]], CallFits(c)',
         \A d \in Callers \ {c} : call'[d] = call[d] /\ (Busy(d) => Busy(d)' /\ Req(d)' = Req(d))
  PROVE  CallInv'
BY CallsStay

LEMMA Still ==
  ASSUME CallInv, UNCHANGED <<hb, at, chunks, votes, call>>
  PROVE  CallInv'
<1>1. \A c \in Callers : Busy(c) => Busy(c)' /\ Req(c)' = Req(c)
  BY DEF Busy, Req, Asks, ResearchId, PmId
<1>2. call' = [c \in Callers |-> call'[c]]
  BY DEF CallInv
<1>3. QED
  BY <1>1, <1>2, CallsStay

\* While no one may be in a call no one is.
LEMMA NobodyCalls ==
  ASSUME CallInv, call' = call, \A c \in Callers : ~ Busy(c)
  PROVE  CallInv'
<1>1. call' = [c \in Callers |-> call'[c]]
  BY DEF CallInv
<1>2. QED
  BY <1>1, CallsStay

LEMMA CallNext == TypeOK /\ CallInv /\ BindInv /\ [Next]_vars => CallInv'
<1> SUFFICES ASSUME TypeOK, CallInv, BindInv, [Next]_vars PROVE CallInv'
  OBVIOUS
<1> USE Names
<1>1. CASE Retrieve
  <2>1. \A c \in Callers : ~ Busy(c)
    BY <1>1 DEF Retrieve, Busy
  <2>2. CASE call' = call
    BY <2>1, <2>2, NobodyCalls
  <2>3. CASE call' # call
    <3>1. LLM!Ask("extractor", Asks(chunks')) /\ at' = "extract" /\ hb' = hb
      BY <1>1, <2>3, Retrieved
    <3>2. Busy("extractor")' /\ Req("extractor")' = Asks(chunks')
      BY <3>1 DEF Busy, Req, Asks, ResearchId
    <3>3. CallFits("extractor")'
      BY <3>1, <3>2, Asking DEF CallFits
    <3>4. QED
      BY <2>1, <3>1, <3>3, Asking, CallsStayBut
  <2>4. QED
    BY <2>2, <2>3
<1>2. CASE Extract
  <2>1. LLM!Take("extractor") /\ at \in {"extract", "tools"}
    BY <1>2 DEF Extract
  <2>2. \A c \in Callers \ {"extractor"} : ~ Busy(c)
    BY <2>1 DEF Busy
  <2>3. CallFits("extractor")'
    BY <2>1, Taking DEF CallFits
  <2>4. QED
    BY <2>1, <2>2, <2>3, Taking, CallsStayBut
<1>3. CASE ExtractAgain
  <2>1. LLM!Ask("extractor", Asks(chunks)) /\ at = "askAgain" /\ at' = "tools" /\ UNCHANGED <<hb, chunks>>
    BY <1>3, Bound DEF ExtractAgain
  <2>2. \A c \in Callers : ~ Busy(c)
    BY <2>1 DEF Busy
  <2>3. Busy("extractor")' /\ Req("extractor")' = Asks(chunks)
    BY <2>1 DEF Busy, Req, Asks, ResearchId
  <2>4. CallFits("extractor")'
    BY <2>1, <2>3, Asking DEF CallFits
  <2>5. QED
    BY <2>1, <2>2, <2>4, Asking, CallsStayBut
<1>4. CASE AskJudge
  <2>1. LLM!Ask("judge", Asks(<<>>)) /\ at = "judge" /\ at' = "judging" /\ UNCHANGED hb
    BY <1>4, Bound DEF AskJudge
  <2>2. \A c \in Callers : ~ Busy(c)
    BY <2>1 DEF Busy
  <2>3. Busy("judge")' /\ Req("judge")' = Asks(<<>>)
    BY <2>1 DEF Busy, Req, Asks, ResearchId
  <2>4. CallFits("judge")'
    BY <2>1, <2>3, Asking DEF CallFits
  <2>5. QED
    BY <2>1, <2>2, <2>4, Asking, CallsStayBut
<1>5. CASE Judge
  <2>1. LLM!Take("judge") /\ at = "judging"
    BY <1>5 DEF Judge
  <2>2. \A c \in Callers \ {"judge"} : ~ Busy(c)
    BY <2>1 DEF Busy
  <2>3. CallFits("judge")'
    BY <2>1, Taking DEF CallFits
  <2>4. QED
    BY <2>1, <2>2, <2>3, Taking, CallsStayBut
<1>6. CASE PassThrough \/ InjectionGate \/ OpenVote
  <2>1. call' = call /\ at = "pm"
    BY <1>6 DEF PassThrough, InjectionGate, OpenVote
  <2>2. \A c \in Callers : ~ Busy(c)
    BY <2>1 DEF Busy
  <2>3. QED
    BY <2>1, <2>2, NobodyCalls
<1>7. CASE CloseVote
  <2>1. call' = call /\ at = "vote" /\ Joined
    BY <1>7 DEF CloseVote
  <2>2. \A c \in Callers : ~ Busy(c)
    BY <2>1 DEF Busy, Joined
  <2>3. QED
    BY <2>1, <2>2, NobodyCalls
<1>8. ASSUME NEW l \in Lenses, StartVoter(l)
      PROVE  CallInv'
  <2>1. /\ LLM!Ask(l, [docs |-> <<>>, decision |-> PmId]) /\ at = "vote" /\ votes[l] = NotStarted
        /\ UNCHANGED <<hb, at, chunks, votes>>
    BY <1>8, Bound DEF StartVoter, nodeVars
  <2>2. Busy(l)' /\ Req(l)' = [docs |-> <<>>, decision |-> PmId]
    BY <2>1 DEF Busy, Req, PmId
  <2>3. l \in Callers /\ CallFits(l)'
    BY <2>1, <2>2, Asking DEF CallFits
  <2>4. \A c \in Callers : Busy(c) => Busy(c)' /\ Req(c)' = Req(c)
    BY <2>1 DEF Busy, Req, Asks, ResearchId, PmId
  <2>5. QED
    BY <2>1, <2>3, <2>4, Asking, CallsStayBut
<1>9. ASSUME NEW l \in Lenses, VoterEnds(l)
      PROVE  CallInv'
  <2>1. /\ LLM!Take(l) /\ UNCHANGED <<hb, at, chunks>>
        /\ \A c \in Callers \ {l} : votes'[c] = votes[c] \/ c \notin Lenses
    BY <1>9 DEF VoterEnds
  <2>2. l \in Callers /\ CallFits(l)'
    BY <2>1, Taking DEF CallFits
  <2>3. \A c \in Callers \ {l} : Busy(c) => Busy(c)' /\ Req(c)' = Req(c)
    BY <2>1 DEF Busy, Req, Asks, ResearchId, PmId
  <2>4. QED
    BY <2>1, <2>2, <2>3, Taking, CallsStayBut
<1>10. ASSUME NEW l \in Lenses, CancelVoter(l)
       PROVE  CallInv'
  <2>1. /\ l \in Callers /\ call[l].state = "idle" /\ UNCHANGED <<hb, at, chunks, call>>
        /\ \A c \in Callers \ {l} : votes'[c] = votes[c] \/ c \notin Lenses
    BY <1>10 DEF CancelVoter
  <2>2. CallFits(l)'
    BY <2>1 DEF CallFits
  <2>3. \A c \in Callers \ {l} : Busy(c) => Busy(c)' /\ Req(c)' = Req(c)
    BY <2>1 DEF Busy, Req, Asks, ResearchId, PmId
  <2>4. call' = [c \in Callers |-> call'[c]]
    BY <2>1 DEF CallInv
  <2>5. QED
    BY <2>1, <2>2, <2>3, <2>4, CallsStayBut
<1>11. ASSUME NEW c \in Callers, CallEnds(c)
       PROVE  CallInv'
  <2>1. \A d \in Callers : (Busy(d) => Busy(d)') /\ Req(d)' = Req(d)
    BY <1>11 DEF CallEnds, nodeVars, Busy, Req, Asks, ResearchId, PmId
  <2>2. CallFits(c)'
    BY <1>11, <2>1, Ending DEF CallFits
  <2>3. QED
    BY <1>11, <2>1, <2>2, Ending, CallsStayBut
<1>12. CASE NextHeartbeat
  <2>1. call' = call /\ at \in {"over", "failed"}
    BY <1>12 DEF NextHeartbeat
  <2>2. \A c \in Callers : ~ Busy(c)
    BY <2>1 DEF Busy
  <2>3. QED
    BY <2>1, <2>2, NobodyCalls
<1>13. CASE Crash
  BY <1>13 DEF Crash, LLM!Crash, LLM!NoCall, CallInv, CallFits
<1>14. CASE UNCHANGED vars
  BY <1>14, Still DEF vars, nodeVars
<1>15. QED
  BY <1>1, <1>2, <1>3, <1>4, <1>5, <1>6, <1>7, <1>8, <1>9, <1>10, <1>11, <1>12, <1>13, <1>14 DEF Next, Steps

\* The adapters are bound where they are used, and only then.
LEMMA BindNext == TypeOK /\ BindInv /\ [Next]_vars => BindInv'
<1> SUFFICES ASSUME TypeOK, BindInv, [Next]_vars PROVE BindInv'
  OBVIOUS
<1>1. CASE Retrieve
  BY <1>1, Retrieved DEF BindInv, ResearchId
<1>2. CASE Extract
  BY <1>2 DEF Extract, Extracted, Researched, BindInv, ResearchId
<1>3. CASE ExtractAgain \/ AskJudge
  BY <1>3 DEF ExtractAgain, AskJudge, BindInv, ResearchId
<1>4. CASE Judge \/ PassThrough \/ InjectionGate \/ CloseVote
  BY <1>4 DEF Judge, Researched, PassThrough, InjectionGate, CloseVote, Decides, BindInv
<1>5. CASE OpenVote
  BY <1>5 DEF OpenVote, BindInv, PmId, TypeOK, Adapters
<1>6. CASE \E l \in Lenses : StartVoter(l) \/ VoterEnds(l) \/ CancelVoter(l)
  BY <1>6 DEF StartVoter, VoterEnds, CancelVoter, nodeVars, BindInv, ResearchId, PmId
<1>7. CASE UNCHANGED vars \/ \E c \in Callers : CallEnds(c)
  BY <1>7 DEF CallEnds, vars, nodeVars, BindInv, ResearchId, PmId
<1>8. CASE NextHeartbeat \/ Crash
  BY <1>8 DEF NextHeartbeat, Crash, Afresh, BindInv
<1>9. QED
  BY <1>1, <1>2, <1>3, <1>4, <1>5, <1>6, <1>7, <1>8 DEF Next, Steps

-----------------------------------------------------------------------------
(* What has been established.                                              *)

\* What a truncated attempt reads at an index is what is asked with there.
LEMMA TruncatedReads ==
  ASSUME NEW docs \in ChunkLists, NEW i \in DOMAIN LLM!Truncate(docs)
  PROVE  LLM!Truncate(docs)[i] = docs[i]
<1>1. PICK n \in 0..MaxChunks : docs = [k \in 1..n |-> k]
  BY DEF ChunkLists
<1>2. n \in Nat /\ docs \in Seq(Nat) /\ Len(docs) = n
  BY <1>1, ChunkAssumption
<1>3. (n + 1) \div 2 \in Nat /\ (n + 1) \div 2 <= n
  BY <1>2
<1>4. QED
  BY <1>2, <1>3, SubSeqProperties DEF LLM!Truncate

LEMMA QuotesRead ==
  ASSUME chunks \in ChunkLists, NEW r \in Results("extractor", Asks(chunks)), r.kind = "answer",
         NEW q \in Quotes(r)
  PROVE  q.chunk = q.read
<1>1. r.docs \in {chunks, LLM!Truncate(chunks)} /\ r.content \in ExtractorReplies(r.docs)
  BY ResultKinds DEF LLM!Shown, Asks, Replies
<1>2. PICK i \in DOMAIN r.docs : q = [chunk |-> chunks[i], read |-> r.docs[i]]
  BY <1>1 DEF Quotes, ExtractorReplies
<1>3. r.docs[i] = chunks[i]
  BY <1>1, <1>2, TruncatedReads
<1>4. QED
  BY <1>2, <1>3

LEMMA ClaimsStay ==
  ASSUME ClaimInv, UNCHANGED <<at, chunks, claims, labels, research>>
  PROVE  ClaimInv'
BY DEF ClaimInv, ClaimsQuoteWhatWasRead, Grounded, Empty

LEMMA ClaimNext == TypeOK /\ CallInv /\ ClaimInv /\ [Next]_vars => ClaimInv'
<1> SUFFICES ASSUME TypeOK, CallInv, ClaimInv, [Next]_vars PROVE ClaimInv'
  OBVIOUS
<1>1. CASE Retrieve
  <2>1. /\ claims' = claims /\ labels' = {}
        /\ at' \in {"failed", "extract"} \/ (at' = "pm" /\ research' = Refuse("INSUFFICIENT_EVIDENCE"))
    BY <1>1, Retrieved DEF ClaimInv
  <2>2. QED
    BY <2>1, NoneApart DEF ClaimInv, ClaimsQuoteWhatWasRead, Refuse, Decision, Failings
<1>2. CASE Extract
  <2> DEFINE result == call["extractor"].result
  <2>1. result \in Results("extractor", Asks(chunks))
    BY <1>2, Names, Taking DEF Extract, Req
  <2>2. labels' = {} /\ chunks' = chunks
    BY <1>2 DEF Extract, ClaimInv
  <2>3. CASE at' = "askAgain" \/ at' = "failed"
    <3>1. claims' = claims
      BY <1>2, <2>3 DEF Extract, Extracted, Researched
    <3>2. QED
      BY <2>2, <2>3, <3>1 DEF ClaimInv, ClaimsQuoteWhatWasRead
  <2>4. CASE research' = Refuse("LLM_UNAVAILABLE") /\ at' = "pm" /\ claims' = claims
    BY <2>4, NoneApart DEF ClaimInv, ClaimsQuoteWhatWasRead, Refuse, Decision, Failings
  <2>5. ASSUME NEW cl, cl = [quotes |-> Quotes(result), tools |-> at = "tools"],
               result.kind = "answer", Extracted(cl)
        PROVE  ClaimInv'
    <3>1. claims' = cl /\ claims'.quotes = Quotes(result)
      BY <2>5 DEF Extracted
    <3>2. ClaimsQuoteWhatWasRead'
      BY <2>1, <2>5, <3>1, QuotesRead DEF ClaimsQuoteWhatWasRead, TypeOK
    <3>3. CASE ~ Grounded(cl) /\ Researched(Refuse("UNGROUNDED_CLAIM"))
      BY <3>2, <3>3, NoneApart DEF ClaimInv, Researched, Refuse, Decision, Failings
    <3>4. CASE Grounded(cl) /\ Empty(cl) /\ Researched(Decision("HOLD", Payload("hold", "none"), None))
      <4>1. Grounded(claims)' /\ Empty(claims)'
        BY <2>2, <3>1, <3>4 DEF Grounded, Empty
      <4>2. at' = "pm" /\ research'.action = "HOLD"
        BY <3>4 DEF Researched, Decision
      <4>3. QED
        BY <2>2, <3>2, <4>1, <4>2 DEF ClaimInv
    <3>5. CASE Grounded(cl) /\ ~ Empty(cl) /\ at' = "judge"
      <4>1. Grounded(claims)' /\ ~ Empty(claims)'
        BY <2>2, <3>1, <3>5 DEF Grounded, Empty
      <4>2. QED
        BY <2>2, <3>2, <3>5, <4>1 DEF ClaimInv
    <3>6. QED
      BY <2>5, <3>3, <3>4, <3>5 DEF Extracted
  <2>6. QED
    BY <1>2, <2>3, <2>4, <2>5 DEF Extract, Researched
<1>3. CASE ExtractAgain \/ AskJudge
  <2>1. /\ at' \in {"tools", "judging"} /\ (at' = "judging" => at = "judge") /\ labels' = {}
        /\ UNCHANGED <<chunks, claims>>
    BY <1>3 DEF ExtractAgain, AskJudge, ClaimInv
  <2>2. QED
    BY <2>1 DEF ClaimInv, ClaimsQuoteWhatWasRead, Grounded, Empty
<1>4. CASE Judge
  <2> DEFINE result == call["judge"].result
  <2>1. at = "judging" /\ UNCHANGED <<chunks, claims>> /\ at' \in {"pm", "failed"}
    BY <1>4 DEF Judge, Researched
  <2>2. ClaimsQuoteWhatWasRead' /\ Grounded(claims)' /\ ~ Empty(claims)'
    BY <2>1 DEF ClaimInv, ClaimsQuoteWhatWasRead, Grounded, Empty
  <2>3. CASE at' = "failed"
    BY <2>2, <2>3 DEF ClaimInv
  <2>4. CASE at' = "pm" /\ \E f \in Failings : research' = Refuse(f)
    BY <2>2, <2>4, NoneApart DEF ClaimInv, Refuse, Decision
  <2>5. CASE /\ labels' = result.content.labels /\ at' = "pm" /\ research' = Sufficiency(labels')
             /\ labels' \subseteq {"SUPPORTED", "PARTIAL", "UNSUPPORTED"}
    <3>1. CASE research'.action = "BUY"
      <4>1. research' = Decision("BUY", Payload("buy", Ticker), None) /\ labels' \subseteq {"SUPPORTED"}
        BY <2>5, <3>1 DEF Sufficiency, AggregateStatus, Refuse, Decision
      <4>2. QED
        BY <2>2, <2>5, <4>1 DEF ClaimInv, Decision
    <3>2. CASE research'.action \in {"ESCALATE", "REFUSE"}
      BY <2>2, <2>5, <3>2 DEF ClaimInv
    <3>3. QED
      BY <2>5, <3>1, <3>2 DEF Sufficiency, Refuse, Decision
  <2>6. ASSUME result.kind = "answer", result.content.kind = "labels", labels' = result.content.labels
        PROVE  labels' \subseteq {"SUPPORTED", "PARTIAL", "UNSUPPORTED"}
    <3>1. result \in Results("judge", Req("judge"))
      BY <1>4, Names, Taking DEF Judge
    <3>2. result.content \in JudgeReplies
      BY <2>6, <3>1, ResultKinds DEF Replies
    <3>3. labels' \in JudgeSays
      BY <2>6, <3>2 DEF JudgeReplies, Said
    <3>4. QED
      BY <3>3, JudgeAssumption
  <2>7. QED
    BY <1>4, <2>3, <2>4, <2>5, <2>6 DEF Judge, Researched, Failings
<1>5. CASE PassThrough \/ InjectionGate \/ OpenVote \/ CloseVote
  <2>1. /\ at \in {"pm", "vote"} /\ at' \in {"over", "vote", "failed"}
        /\ at' = "vote" => research.action \in {"HOLD", "BUY"}
        /\ UNCHANGED <<chunks, claims, labels, research>>
    BY <1>5 DEF PassThrough, InjectionGate, OpenVote, CloseVote, Decides, ClaimInv
  <2>2. QED
    BY <2>1 DEF ClaimInv, ClaimsQuoteWhatWasRead, Grounded, Empty
<1>6. CASE \/ UNCHANGED vars
           \/ \E l \in Lenses : StartVoter(l) \/ VoterEnds(l) \/ CancelVoter(l)
           \/ \E c \in Callers : CallEnds(c)
  BY <1>6, ClaimsStay DEF StartVoter, VoterEnds, CancelVoter, CallEnds, vars, nodeVars
<1>7. CASE NextHeartbeat \/ Crash
  <2>1. at' = "retrieve" /\ claims'.quotes = {} /\ labels' = {}
    BY <1>7 DEF NextHeartbeat, Crash, Afresh, NoClaims
  <2>2. QED
    BY <2>1 DEF ClaimInv, ClaimsQuoteWhatWasRead
<1>8. QED
  BY <1>1, <1>2, <1>3, <1>4, <1>5, <1>6, <1>7 DEF Next, Steps

LEMMA VoteNext == TypeOK /\ CallInv /\ ClaimInv /\ VoteInv /\ [Next]_vars => VoteInv'
<1> SUFFICES ASSUME TypeOK, CallInv, ClaimInv, VoteInv, [Next]_vars PROVE VoteInv'
  OBVIOUS
<1>1. CASE UNCHANGED <<votes, raised>> /\ (at' \in {"vote", "over", "failed"} \/ at \notin {"vote", "over", "failed"})
  BY <1>1 DEF VoteInv
<1>2. ASSUME NEW l \in Lenses, VoterEnds(l)
      PROVE  VoteInv'
  <2> DEFINE r == call[l].result
  <2>1. r \in Results(l, Req(l)) /\ at = "vote" /\ at' = at
    BY <1>2, Names, Taking DEF VoterEnds
  <2>2. CASE VoterRaises(r) = None
    <3>1. votes' = [votes EXCEPT ![l] = r.content] /\ raised' = raised
      BY <1>2, <2>2, NoneApart DEF VoterEnds
    <3>2. IsBallot(r.content)
      BY <2>1, <2>2, Raising
    <3>3. QED
      BY <2>1, <3>1, <3>2 DEF VoteInv
  <2>3. CASE VoterRaises(r) # None
    <3>1. votes' = [votes EXCEPT ![l] = Raised] /\ raised' # None
      BY <1>2, <2>3 DEF VoterEnds
    <3>2. QED
      BY <2>1, <3>1 DEF VoteInv
  <2>4. QED
    BY <2>2, <2>3
<1>3. ASSUME NEW l \in Lenses, CancelVoter(l)
      PROVE  VoteInv'
  BY <1>3 DEF CancelVoter, VoteInv
<1>4. CASE NextHeartbeat \/ Crash
  BY <1>4 DEF NextHeartbeat, Crash, Afresh, VoteInv
<1>5. CASE \/ Retrieve \/ Extract \/ ExtractAgain \/ AskJudge \/ Judge \/ PassThrough \/ InjectionGate
           \/ OpenVote \/ CloseVote \/ UNCHANGED vars
           \/ \E l \in Lenses : StartVoter(l)
           \/ \E c \in Callers : CallEnds(c)
  BY <1>1, <1>5 DEF Retrieve, Extract, Extracted, Researched, ExtractAgain, AskJudge, Judge, PassThrough,
     InjectionGate, OpenVote, CloseVote, Decides, StartVoter, CallEnds, vars, nodeVars
<1>6. QED
  BY <1>2, <1>3, <1>4, <1>5 DEF Next, Steps

LEMMA TradeNext == TypeOK /\ ClaimInv /\ TradeInv /\ [Next]_vars => TradeInv'
<1> SUFFICES ASSUME TypeOK, ClaimInv, TradeInv, [Next]_vars PROVE TradeInv'
  OBVIOUS
<1>1. ASSUME at' # "over" PROVE TradeInv'
  BY <1>1 DEF TradeInv, Trades
<1>2. ASSUME pm'.action \notin {"BUY", "SELL"} PROVE TradeInv'
  BY <1>2 DEF TradeInv, Trades
<1>3. CASE PassThrough \/ InjectionGate
  <2>1. pm'.action \in {"REFUSE", "ESCALATE"}
    BY <1>3 DEF PassThrough, InjectionGate, Decides, Refuse, Decision
  <2>2. QED
    BY <2>1, <1>2
<1>4. CASE CloseVote
  <2>1. CASE raised = None /\ ~ Forged
    <3>1. IsDecision(research) /\ research.action \in {"HOLD", "BUY"}
      BY <1>4 DEF CloseVote, TypeOK, ClaimInv
    <3>2. research.action = "BUY" => research.payload.ticker = Ticker
      BY <1>4 DEF CloseVote, ClaimInv, Payload
    <3>3. pm' = Decision(AggregateVotes, PayloadFor(AggregateVotes), None)
      BY <1>4, <2>1, NoneApart DEF CloseVote, Decides
    <3>4. /\ raised' = None /\ research' = research /\ Joined'
      BY <1>4, <2>1 DEF CloseVote, Joined
    <3>5. pm'.action \in {"BUY", "SELL"} =>
            pm'.payload.ticker = IF research.action = "BUY" THEN Ticker ELSE Unknown
      BY <3>1, <3>2, <3>3, Decided
    <3>6. QED
      BY <3>1, <3>4, <3>5 DEF TradeInv, Trades
  <2>2. CASE at' = "failed"
    BY <2>2, <1>1
  <2>3. CASE \E f \in Failings : pm' = Refuse(f)
    BY <2>3, <1>2 DEF Refuse, Decision
  <2>4. QED
    BY <1>4, <2>1, <2>2, <2>3 DEF CloseVote, Decides, Failings
<1>5. CASE \/ Retrieve \/ Extract \/ ExtractAgain \/ AskJudge \/ Judge \/ OpenVote
           \/ NextHeartbeat \/ Crash
  <2>1. at' # "over"
    BY <1>5 DEF Retrieve, Extract, Extracted, Researched, ExtractAgain, AskJudge, Judge, OpenVote,
       NextHeartbeat, Crash, Afresh
  <2>2. QED
    BY <2>1, <1>1
<1>6. CASE \E l \in Lenses : StartVoter(l) \/ VoterEnds(l) \/ CancelVoter(l)
  <2>1. at' = "vote"
    BY <1>6 DEF StartVoter, VoterEnds, CancelVoter, nodeVars
  <2>2. QED
    BY <2>1, <1>1
<1>7. CASE UNCHANGED vars \/ \E c \in Callers : CallEnds(c)
  BY <1>7 DEF CallEnds, vars, nodeVars, TradeInv, Trades, Joined
<1>8. QED
  BY <1>3, <1>4, <1>5, <1>6, <1>7 DEF Next, Steps

-----------------------------------------------------------------------------
(* The ledger.                                                             *)

LEMMA LaterNext == TypeOK /\ CallInv /\ LaterRows /\ [Next]_vars => LaterRows'
<1> SUFFICES ASSUME TypeOK, CallInv, LaterRows, [Next]_vars, NEW d \in Decisions, d[1] > hb'
             PROVE  ledger'[d] = 0
  BY DEF LaterRows
<1>1. CASE \E c \in Callers : CallEnds(c)
  <2>1. PICK c \in Callers : CallEnds(c)
    BY <1>1
  <2>2. hb' = hb
    BY <2>1 DEF CallEnds, nodeVars
  <2>3. Req(c).decision \in {ResearchId, PmId}
    BY ReqIds
  <2>4. Req(c).decision[1] = hb
    BY <2>3 DEF ResearchId, PmId
  <2>5. d # Req(c).decision
    BY <2>2, <2>4 DEF TypeOK
  <2>6. ledger'[d] = ledger[d]
    BY <2>1, <2>5, Ending DEF TypeOK
  <2>7. QED
    BY <2>2, <2>6 DEF LaterRows
<1>2. CASE ledger' = ledger /\ (hb' = hb \/ hb' = hb + 1)
  <2>1. hb \in Nat /\ d[1] \in Nat
    BY HeartbeatAssumption DEF TypeOK, Decisions
  <2>2. d[1] > hb
    BY <1>2, <2>1
  <2>3. QED
    BY <1>2, <2>2 DEF LaterRows
<1>3. CASE NextHeartbeat \/ Crash
  BY <1>2, <1>3 DEF NextHeartbeat, Crash, Afresh, LLM!Crash
<1>4. CASE \/ Retrieve \/ Extract \/ ExtractAgain \/ AskJudge \/ Judge \/ PassThrough \/ InjectionGate
           \/ OpenVote \/ CloseVote \/ UNCHANGED vars
           \/ \E l \in Lenses : StartVoter(l) \/ VoterEnds(l) \/ CancelVoter(l)
  BY <1>2, <1>4 DEF Retrieve, Extract, ExtractAgain, AskJudge, Judge, PassThrough, InjectionGate, OpenVote,
     CloseVote, StartVoter, VoterEnds, CancelVoter, vars, nodeVars, LLM!Ask, LLM!Take
<1>5. QED
  BY <1>1, <1>3, <1>4 DEF Next, Steps

\* Rows appear while a call of the heartbeat is answered, under the id that it
\* was made for, and at no other time.
LEMMA RowsOfAnswers ==
  ASSUME TypeOK, CallInv, Steps
  PROVE  \/ ledger' = ledger
         \/ \E c \in Callers :
              /\ CallEnds(c)
              /\ ledger' = [ledger EXCEPT ![IF c \in Lenses THEN PmId ELSE ResearchId] = @ + 1]
              /\ call'[c].result.kind = "answer"
<1>1. CASE \E c \in Callers : CallEnds(c)
  BY <1>1, Ending, ReqIds
<1>2. CASE ~ \E c \in Callers : CallEnds(c)
  BY <1>2 DEF Steps, Retrieve, Extract, ExtractAgain, AskJudge, Judge, PassThrough, InjectionGate, OpenVote,
     CloseVote, StartVoter, VoterEnds, CancelVoter, LLM!Ask, LLM!Take
<1>3. QED
  BY <1>1, <1>2

LEMMA PmRowsNext == TypeOK /\ CallInv /\ BindInv /\ VoteInv /\ PmRows /\ LaterRows /\ [Next]_vars => PmRows'
<1> SUFFICES ASSUME TypeOK, CallInv, BindInv, VoteInv, PmRows, LaterRows, [Next]_vars PROVE PmRows'
  OBVIOUS
<1>1. PICK B \in SUBSET Lenses :
        /\ ledger[PmId] = Cardinality(B)
        /\ \A l \in Lenses :
             /\ IsBallot(votes[l]) \/ Answers(l) => l \in B
             /\ l \in B => votes[l] # NotStarted \/ Answers(l)
  BY DEF PmRows
<1>2. ASSUME hb' = hb, ledger' = ledger,
             \A l \in Lenses : votes'[l] = votes[l] /\ (Answers(l)' <=> Answers(l))
      PROVE  PmRows'
  BY <1>1, <1>2 DEF PmRows, PmId
<1>3. CASE NextHeartbeat \/ Crash
  <2>1. hb' = hb + 1 /\ hb' \in 1..MaxHeartbeats /\ hb \in Nat /\ ledger' = ledger /\ at' = "retrieve"
    BY <1>3, HeartbeatAssumption DEF NextHeartbeat, Crash, Afresh, LLM!Crash, TypeOK
  <2>2. PmId' \in Decisions /\ PmId'[1] > hb
    BY <2>1 DEF PmId, Decisions
  <2>3. ledger'[PmId'] = 0
    BY <2>1, <2>2 DEF LaterRows
  <2>4. CallInv' /\ \A l \in Lenses : votes'[l] = NotStarted
    BY <1>3, CallNext DEF NextHeartbeat, Crash, Afresh
  <2>5. \A l \in Lenses : ~ Answers(l)'
    BY <2>1, <2>4, Names DEF CallInv, CallFits, Busy, Answers
  <2>6. ledger'[PmId'] = Cardinality({})
    BY <2>3, FS_EmptySet
  <2>7. QED
    BY <2>4, <2>5, <2>6 DEF PmRows, IsBallot, NotStarted, Ballot, Ballots
<1>4. ASSUME NEW l \in Lenses, VoterEnds(l)
      PROVE  PmRows'
  <2> DEFINE r == call[l].result
  <2>1. /\ l \in Callers /\ r \in Results(l, Req(l)) /\ call[l].state = "returned" /\ votes[l] = NotStarted
        /\ call'[l].state = "idle" /\ \A c \in Callers \ {l} : call'[c] = call[c]
        /\ ledger' = ledger /\ hb' = hb
    BY <1>4, Names, Taking DEF VoterEnds, Busy
  <2>2. \A k \in Lenses \ {l} : votes'[k] = votes[k] /\ (Answers(k)' <=> Answers(k))
    BY <1>4, <2>1, Names DEF VoterEnds, Answers, VoteInv
  <2>3. ~ Answers(l)' /\ votes'[l] # NotStarted
    <3>1. CASE VoterRaises(r) = None
      BY <1>4, <2>1, <3>1, Raising DEF VoterEnds, VoteInv, Answers, IsBallot, NotStarted, Ballot, Ballots
    <3>2. CASE VoterRaises(r) # None
      BY <1>4, <2>1, <3>2 DEF VoterEnds, VoteInv, Answers, Raised, NotStarted, Ballot
    <3>3. QED
      BY <3>1, <3>2
  <2>4. ASSUME IsBallot(votes'[l])
        PROVE  l \in B
    <3>1. VoterRaises(r) = None
      BY <1>4, <2>4 DEF VoterEnds, VoteInv, IsBallot, Raised, Ballot, Ballots
    <3>2. QED
      BY <1>1, <2>1, <3>1, Raising DEF Answers
  <2>5. ledger'[PmId'] = Cardinality(B)
    BY <1>1, <2>1 DEF PmId
  <2>6. \A k \in Lenses : /\ IsBallot(votes'[k]) \/ Answers(k)' => k \in B
                          /\ k \in B => votes'[k] # NotStarted \/ Answers(k)'
    BY <1>1, <2>2, <2>3, <2>4
  <2>7. QED
    BY <2>5, <2>6 DEF PmRows
<1>5. ASSUME NEW l \in Lenses, CancelVoter(l)
      PROVE  PmRows'
  <2>1. hb' = hb /\ ledger' = ledger /\ call' = call /\ call[l].state = "idle" /\ votes[l] = NotStarted
    BY <1>5 DEF CancelVoter
  <2>2. \A k \in Lenses : votes'[k] = IF k = l THEN Cancelled ELSE votes[k]
    BY <1>5 DEF CancelVoter, VoteInv
  <2>3. \A k \in Lenses : Answers(k)' <=> Answers(k)
    BY <2>1 DEF Answers
  <2>4. l \notin B /\ ~ IsBallot(Cancelled)
    BY <1>1, <2>1 DEF Answers, IsBallot, Cancelled, Ballot, Ballots
  <2>5. ledger'[PmId'] = Cardinality(B)
    BY <1>1, <2>1 DEF PmId
  <2>6. \A k \in Lenses : /\ IsBallot(votes'[k]) \/ Answers(k)' => k \in B
                          /\ k \in B => votes'[k] # NotStarted \/ Answers(k)'
    BY <1>1, <2>2, <2>3, <2>4
  <2>7. QED
    BY <2>5, <2>6 DEF PmRows
<1>6. ASSUME NEW c \in Callers, CallEnds(c)
      PROVE  PmRows'
  <2>1. /\ Busy(c) /\ call[c].state = "asked" /\ call'[c].state = "returned"
        /\ \A d \in Callers \ {c} : call'[d] = call[d]
        /\ hb' = hb /\ votes' = votes
    BY <1>6, Ending DEF CallEnds, nodeVars
  <2>2. \A k \in Lenses \ {c} : Answers(k)' <=> Answers(k)
    BY <2>1, Names DEF Answers
  <2>3. ~ Answers(c)
    BY <2>1 DEF Answers
  <2>4. CASE c \in Lenses /\ call'[c].result.kind = "answer"
    <3>1. votes[c] = NotStarted /\ c \notin B
      BY <1>1, <2>1, <2>3, <2>4, Names DEF Busy
    <3>2. ledger'[PmId'] = ledger[PmId] + 1
      BY <1>6, <2>1, <2>4, Ending, ReqIds, IdsTyped DEF TypeOK, PmId
    <3>3. Cardinality(B \cup {c}) = Cardinality(B) + 1
      BY <3>1, LensAssumption, FS_Subset, FS_AddElement
    <3>4. Answers(c)'
      BY <2>1, <2>4 DEF Answers
    <3>5. \A k \in Lenses : /\ IsBallot(votes'[k]) \/ Answers(k)' => k \in B \cup {c}
                            /\ k \in B \cup {c} => votes'[k] # NotStarted \/ Answers(k)'
      BY <1>1, <2>1, <2>2, <3>4
    <3>6. QED
      BY <1>1, <2>4, <3>2, <3>3, <3>5 DEF PmRows
  <2>5. CASE ~ (c \in Lenses /\ call'[c].result.kind = "answer")
    <3>1. ledger'[PmId] = ledger[PmId]
      BY <1>6, <2>5, Ending, ReqIds, IdsTyped DEF TypeOK
    <3>2. ~ (c \in Lenses /\ Answers(c)')
      BY <2>5 DEF Answers
    <3>3. ledger'[PmId'] = Cardinality(B)
      BY <1>1, <2>1, <3>1 DEF PmId
    <3>4. \A k \in Lenses : /\ IsBallot(votes'[k]) \/ Answers(k)' => k \in B
                            /\ k \in B => votes'[k] # NotStarted \/ Answers(k)'
      BY <1>1, <2>1, <2>2, <2>3, <3>2
    <3>5. QED
      BY <3>3, <3>4 DEF PmRows
  <2>6. QED
    BY <2>4, <2>5
<1>7. CASE Retrieve \/ Extract \/ ExtractAgain \/ AskJudge \/ Judge
  <2>1. hb' = hb /\ votes' = votes /\ ledger' = ledger
        /\ \A l \in Lenses : call'[l] = call[l]
    BY <1>7, Names, Asking, Taking DEF Retrieve, Extract, ExtractAgain, AskJudge, Judge
  <2>2. QED
    BY <1>2, <2>1 DEF Answers
<1>8. CASE PassThrough \/ InjectionGate \/ OpenVote \/ CloseVote \/ UNCHANGED vars
  BY <1>2, <1>8 DEF PassThrough, InjectionGate, OpenVote, CloseVote, vars, nodeVars, Answers
<1>9. ASSUME NEW l \in Lenses, StartVoter(l)
      PROVE  PmRows'
  <2>1. /\ l \in Callers /\ hb' = hb /\ votes' = votes /\ ledger' = ledger /\ call[l].state = "idle"
        /\ call'[l].state = "asked" /\ \A c \in Callers \ {l} : call'[c] = call[c]
    BY <1>9, Names, Asking DEF StartVoter, nodeVars
  <2>2. \A k \in Lenses : Answers(k)' <=> Answers(k)
    BY <2>1, Names DEF Answers
  <2>3. QED
    BY <1>2, <2>1, <2>2
<1>10. QED
  BY <1>3, <1>4, <1>5, <1>6, <1>7, <1>8, <1>9 DEF Next, Steps

LEMMA ResearchRowsNext ==
  TypeOK /\ CallInv /\ ClaimInv /\ ResearchRows /\ LaterRows /\ [Next]_vars => ResearchRows'
<1> SUFFICES ASSUME TypeOK, CallInv, ClaimInv, ResearchRows, LaterRows, [Next]_vars PROVE ResearchRows'
  OBVIOUS
<1> DEFINE rows == ledger[ResearchId]
<1>1. ASSUME UNCHANGED <<hb, at, claims, research, ledger>>,
             \A c \in {"extractor", "judge"} : Answers(c)' <=> Answers(c)
      PROVE  ResearchRows'
  <2>1. One(Answers("extractor")') = One(Answers("extractor")) /\ One(Answers("judge")') = One(Answers("judge"))
    BY <1>1 DEF One
  <2>2. QED
    BY <1>1, <2>1 DEF ResearchRows, ResearchId, One, Empty
<1>2. ASSUME at' = "failed" PROVE ResearchRows'
  BY <1>2 DEF ResearchRows
<1>3. ASSUME at' = "pm", research'.failure # None PROVE ResearchRows'
  BY <1>3 DEF ResearchRows
<1>4. CASE Retrieve
  <2>1. rows = 0 /\ hb' = hb /\ ledger' = ledger
    BY <1>4, Names, Asking, Retrieved DEF ResearchRows
  <2>2. CASE at' = "extract" /\ LLM!Ask("extractor", Asks(chunks'))
    <3>1. ~ Answers("extractor")'
      BY <2>2, Names, Asking DEF Answers
    <3>2. QED
      BY <2>1, <2>2, <3>1 DEF ResearchRows, ResearchId, One
  <2>3. CASE at' = "pm" /\ research'.failure # None
    BY <2>3, <1>3
  <2>4. QED
    BY <1>2, <1>4, <2>2, <2>3, Retrieved, NoneApart DEF Refuse, Decision, Failings
<1>5. CASE Extract
  <2> DEFINE result == call["extractor"].result
  <2>1. hb' = hb /\ ledger' = ledger /\ call["extractor"].state = "returned"
    BY <1>5, Names, Taking DEF Extract
  <2>2. ASSUME result.kind = "answer"
        PROVE  rows = IF at = "extract" THEN 1 ELSE 2
    <3>1. Answers("extractor")
      BY <2>1, <2>2 DEF Answers
    <3>2. QED
      BY <1>5, <3>1 DEF Extract, ResearchRows, One
  <2>3. CASE result.kind = "answer" /\ at = "extract" /\ at' = "askAgain"
    BY <2>1, <2>2, <2>3 DEF ResearchRows, ResearchId
  <2>4. ASSUME NEW cl, cl = [quotes |-> Quotes(result), tools |-> at = "tools"],
               result.kind = "answer", Extracted(cl), at = "extract" \/ at = "tools"
        PROVE  ResearchRows'
    <3>1. claims' = cl
      BY <2>4 DEF Extracted
    <3>2. rows = 1 + One(claims'.tools)
      <4>1. claims'.tools <=> at = "tools"
        BY <2>4, <3>1
      <4>2. QED
        BY <2>2, <2>4, <4>1 DEF One
    <3>3. CASE at' = "judge"
      BY <2>1, <3>2, <3>3 DEF ResearchRows, ResearchId, One
    <3>4. CASE at' = "pm" /\ research'.failure # None
      BY <3>4, <1>3
    <3>5. CASE at' = "pm" /\ Empty(claims')
      BY <2>1, <3>2, <3>5 DEF ResearchRows, ResearchId, One
    <3>6. QED
      BY <2>4, <3>1, <3>3, <3>4, <3>5, NoneApart DEF Extracted, Researched, Refuse, Decision, Failings
  <2>5. CASE at' = "pm" /\ research' = Refuse("LLM_UNAVAILABLE")
    BY <2>5, <1>3, NoneApart DEF Refuse, Decision, Failings
  <2>6. QED
    BY <1>2, <1>5, <2>3, <2>4, <2>5 DEF Extract, Researched
<1>6. CASE ExtractAgain
  <2>1. rows = 1 /\ hb' = hb /\ ledger' = ledger /\ at' = "tools" /\ ~ Answers("extractor")'
    BY <1>6, Names, Asking DEF ExtractAgain, ResearchRows, Answers
  <2>2. QED
    BY <2>1 DEF ResearchRows, ResearchId, One
<1>7. CASE AskJudge
  <2>1. /\ rows = 1 + One(claims.tools) /\ claims' = claims /\ hb' = hb /\ ledger' = ledger
        /\ at' = "judging" /\ ~ Answers("judge")'
    BY <1>7, Names, Asking DEF AskJudge, ResearchRows, Answers
  <2>2. QED
    BY <2>1 DEF ResearchRows, ResearchId, One
<1>8. CASE Judge
  <2>1. hb' = hb /\ ledger' = ledger /\ claims' = claims /\ at = "judging" /\ call["judge"].state = "returned"
    BY <1>8, Names, Taking DEF Judge
  <2>2. CASE call["judge"].result.kind = "answer" /\ at' = "pm"
    <3>1. Answers("judge") /\ ~ Empty(claims')
      BY <2>1, <2>2 DEF Answers, ClaimInv
    <3>2. rows = 1 + One(claims'.tools) + One(~ Empty(claims'))
      BY <2>1, <3>1 DEF ResearchRows, One
    <3>3. QED
      BY <2>1, <2>2, <3>2 DEF ResearchRows, ResearchId
  <2>3. CASE at' = "pm" /\ research'.failure # None
    BY <2>3, <1>3
  <2>4. QED
    BY <1>2, <1>8, <2>2, <2>3, NoneApart DEF Judge, Researched, Refuse, Decision, Failings
<1>9. CASE PassThrough \/ InjectionGate \/ OpenVote \/ CloseVote
  <2>1. /\ at \in {"pm", "vote"} /\ at' \in {"vote", "over", "failed"}
        /\ UNCHANGED <<hb, claims, research, ledger>>
    BY <1>9 DEF PassThrough, InjectionGate, OpenVote, CloseVote, Decides
  <2>2. QED
    BY <2>1 DEF ResearchRows, ResearchId
<1>10. ASSUME NEW l \in Lenses, StartVoter(l) \/ VoterEnds(l) \/ CancelVoter(l)
       PROVE  ResearchRows'
  <2>1. /\ UNCHANGED <<hb, at, claims, research, ledger>>
        /\ \A c \in {"extractor", "judge"} : call'[c] = call[c]
    BY <1>10, Names, Asking, Taking DEF StartVoter, VoterEnds, CancelVoter, nodeVars
  <2>2. QED
    BY <1>1, <2>1 DEF Answers
<1>11. ASSUME NEW c \in Callers, CallEnds(c)
       PROVE  ResearchRows'
  <2>1. /\ Busy(c) /\ call[c].state = "asked" /\ call'[c].state = "returned"
        /\ \A d \in Callers \ {c} : call'[d] = call[d]
        /\ UNCHANGED <<hb, at, claims, research>>
    BY <1>11, Ending DEF CallEnds, nodeVars
  <2>2. CASE c \in Lenses
    <3>1. ledger'[ResearchId] = ledger[ResearchId] /\ at = "vote"
      BY <1>11, <2>1, <2>2, Ending, ReqIds, IdsTyped, Names DEF TypeOK, Busy
    <3>2. QED
      BY <2>1, <3>1 DEF ResearchRows, ResearchId
  <2>3. CASE c \in {"extractor", "judge"}
    <3>1. /\ c = "extractor" => at \in {"extract", "tools"}
          /\ c = "judge" => at = "judging"
      BY <2>1, <2>3, Names DEF Busy
    <3>2. ~ Answers(c) /\ (Answers(c)' <=> call'[c].result.kind = "answer")
      BY <2>1 DEF Answers
    <3>3. ledger'[ResearchId] = rows + One(Answers(c)')
      <4>1. CASE call'[c].result.kind = "answer"
        <5>1. ledger' = [ledger EXCEPT ![ResearchId] = @ + 1]
          BY <1>11, <2>3, <4>1, Ending, ReqIds, Names
        <5>2. ledger'[ResearchId] = rows + 1
          BY <5>1, IdsTyped DEF TypeOK
        <5>3. QED
          BY <3>2, <4>1, <5>2 DEF One
      <4>2. CASE call'[c].result.kind # "answer"
        <5>1. ledger' = ledger /\ rows \in Nat
          BY <1>11, <4>2, Ending, IdsTyped DEF TypeOK
        <5>2. QED
          BY <3>2, <4>2, <5>1 DEF One
      <4>3. QED
        BY <4>1, <4>2
    <3>4. CASE c = "extractor"
      <4>1. rows = IF at = "tools" THEN 1 ELSE 0
        BY <3>1, <3>2, <3>4 DEF ResearchRows, One
      <4>2. QED
        BY <2>1, <3>1, <3>3, <3>4, <4>1 DEF ResearchRows, ResearchId, One
    <3>5. CASE c = "judge"
      <4>1. rows = 1 + One(claims.tools)
        BY <3>1, <3>2, <3>5 DEF ResearchRows, One
      <4>2. QED
        BY <2>1, <3>1, <3>3, <3>5, <4>1 DEF ResearchRows, ResearchId, One
    <3>6. QED
      BY <2>3, <3>4, <3>5
  <2>4. QED
    BY <2>2, <2>3 DEF Callers
<1>12. CASE NextHeartbeat \/ Crash
  <2>1. hb' = hb + 1 /\ hb' \in 1..MaxHeartbeats /\ hb \in Nat /\ ledger' = ledger /\ at' = "retrieve"
    BY <1>12, HeartbeatAssumption DEF NextHeartbeat, Crash, Afresh, LLM!Crash, TypeOK
  <2>2. ResearchId' \in Decisions /\ ResearchId'[1] > hb
    BY <2>1 DEF ResearchId, Decisions
  <2>3. ledger'[ResearchId'] = 0
    BY <2>1, <2>2 DEF LaterRows
  <2>4. QED
    BY <2>1, <2>3 DEF ResearchRows
<1>13. CASE UNCHANGED vars
  BY <1>1, <1>13 DEF vars, nodeVars, Answers
<1>14. QED
  BY <1>4, <1>5, <1>6, <1>7, <1>8, <1>9, <1>10, <1>11, <1>12, <1>13 DEF Next, Steps

-----------------------------------------------------------------------------
(* The theorems.                                                           *)

LEMMA InitInv == Init => CommitteeInv
<1> SUFFICES ASSUME Init PROVE CommitteeInv
  OBVIOUS
<1>1. TypeOK
  <2>1. <<>> \in ChunkLists
    BY ChunkAssumption DEF ChunkLists
  <2>2. QED
    BY <2>1, HeartbeatAssumption DEF Init, TypeOK, Stages, LLM!CallInit
<1>2. CallInv /\ BindInv
  BY DEF BindInv, Init, LLM!CallInit, LLM!NoCall, CallInv, CallFits
<1>3. ClaimInv /\ VoteInv /\ TradeInv /\ ResearchRows /\ LaterRows
  BY IdsTyped, <1>1 DEF Init, LLM!CallInit, ClaimInv, ClaimsQuoteWhatWasRead, NoClaims, VoteInv, TradeInv,
     Trades, ResearchRows, LaterRows
<1>4. PmRows
  <2>1. ledger[PmId] = Cardinality({})
    BY <1>1, IdsTyped, FS_EmptySet DEF Init, LLM!CallInit
  <2>2. \A l \in Lenses : ~ IsBallot(votes[l]) /\ ~ Answers(l)
    BY Names DEF Init, LLM!CallInit, LLM!NoCall, IsBallot, NotStarted, Ballot, Ballots, Answers
  <2>3. QED
    BY <2>1, <2>2 DEF PmRows
<1>5. QED
  BY <1>1, <1>2, <1>3, <1>4 DEF CommitteeInv

\* The inductive invariant holds in every state of every run of the committee.
THEOREM CommitteeInvariant == Spec => []CommitteeInv
<1>1. CommitteeInv /\ [Next]_vars => CommitteeInv'
  BY TypeNext, CallNext, BindNext, ClaimNext, VoteNext, TradeNext, ResearchRowsNext, PmRowsNext, LaterNext
     DEF CommitteeInv
<1>2. QED
  BY InitInv, <1>1, PTL DEF Spec

\* The variables keep their types, and a decision has the payload of its action.
THEOREM TypeCorrect == Spec => []TypeOK
<1>1. CommitteeInv => TypeOK
  BY DEF CommitteeInv
<1>2. QED
  BY CommitteeInvariant, <1>1, PTL

\* A claim quotes the chunk the model read, also from a truncated prompt.
THEOREM QuotesAreRead == Spec => []ClaimsQuoteWhatWasRead
<1>1. CommitteeInv => ClaimsQuoteWhatWasRead
  BY DEF CommitteeInv, ClaimInv
<1>2. QED
  BY CommitteeInvariant, <1>1, PTL

\* Whatever the judge says and however the votes fall, a trade rests on grounded
\* claims that the judge supports in full, or is in "<unknown>" for want of any.
THEOREM TradesAreBacked == Spec => []TradeIsBacked
<1>1. CommitteeInv => TradeIsBacked
  <2> SUFFICES ASSUME CommitteeInv, Trades PROVE
        /\ labels \subseteq {"SUPPORTED"} /\ Grounded(claims)
        /\ (pm.payload.ticker = Unknown) = Empty(claims)
    BY DEF TradeIsBacked
  <2>1. research.action \in {"HOLD", "BUY"} /\ at = "over"
        /\ pm.payload.ticker = IF research.action = "BUY" THEN Ticker ELSE Unknown
    BY DEF CommitteeInv, TradeInv, Trades
  <2>2. research.failure = None
    BY <2>1 DEF CommitteeInv, TypeOK, IsDecision
  <2>3. labels \subseteq {"SUPPORTED"} /\ Grounded(claims) /\ (research.action = "HOLD" <=> Empty(claims))
    BY <2>1, <2>2 DEF CommitteeInv, ClaimInv
  <2>4. pm.payload.ticker = Unknown <=> Empty(claims)
    BY <2>1, <2>3 DEF Ticker, Unknown
  <2>5. (pm.payload.ticker = Unknown) = Empty(claims)
    BY <2>4 DEF Empty
  <2>6. QED
    BY <2>3, <2>5
<1>2. QED
  BY CommitteeInvariant, <1>1, PTL

\* Each decision finds the calls that were made for it under its own id: one row
\* per vote, one per answer of the extractor and the judge.
THEOREM RowsAreOfTheirDecision == Spec => []RowsNameDecision
<1>1. CommitteeInv => RowsNameDecision
  <2> SUFFICES ASSUME CommitteeInv PROVE RowsNameDecision
    OBVIOUS
  <2> DEFINE Asked == {c \in {"extractor", "judge"} : c = "extractor" \/ ~ Empty(claims)}
  <2>1. Cardinality(Asked) = 1 + One(~ Empty(claims))
    <3>1. CASE Empty(claims)
      <4>1. Asked = {"extractor"}
        BY <3>1
      <4>2. Cardinality(Asked) = 1
        BY <4>1, FS_Singleton
      <4>3. QED
        BY <3>1, <4>2 DEF One
    <3>2. CASE ~ Empty(claims)
      <4>1. Asked = {"extractor"} \cup {"judge"}
        BY <3>2
      <4>2. Cardinality({"extractor"} \cup {"judge"}) = Cardinality({"extractor"}) + 1
        BY FS_Singleton, FS_AddElement
      <4>3. Cardinality(Asked) = 2
        BY <4>1, <4>2, FS_Singleton
      <4>4. QED
        BY <3>2, <4>3 DEF One
    <3>3. QED
      BY <3>1, <3>2
  <2>2. at \in {"pm", "over"} /\ research.failure = None =>
          ledger[ResearchId] = 1 + One(claims.tools) + One(~ Empty(claims))
    BY DEF CommitteeInv, ResearchRows
  <2>3. at \in {"pm", "over"} /\ research.failure = None =>
          ledger[ResearchId] = Cardinality(Asked) + (IF claims.tools THEN 1 ELSE 0)
    BY <2>1, <2>2 DEF One
  <2>4. PICK B \in SUBSET Lenses :
          /\ ledger[PmId] = Cardinality(B)
          /\ \A l \in Lenses :
               /\ IsBallot(votes[l]) \/ Answers(l) => l \in B
               /\ l \in B => votes[l] # NotStarted \/ Answers(l)
    BY DEF CommitteeInv, PmRows
  <2>5. ledger[PmId] <= 3
    BY <2>4, LensAssumption, FS_Subset
  <2>6. ASSUME Trades PROVE ledger[PmId] = 3
    <3>1. \A l \in Lenses : IsBallot(votes[l])
      BY <2>6 DEF CommitteeInv, TradeInv, VoteInv, Joined
    <3>2. B = Lenses
      BY <2>4, <3>1
    <3>3. QED
      BY <2>4, <3>2, LensAssumption
  <2>7. QED
    BY <2>3, <2>5, <2>6 DEF RowsNameDecision
<1>2. QED
  BY CommitteeInvariant, <1>1, PTL

\* No call is booked after the heartbeat it belongs to.
THEOREM NoRowIsLate == Spec => NoLateRow
<1>1. CommitteeInv /\ [Next]_vars =>
        [\A d \in Decisions : ledger'[d] # ledger[d] => d[1] = hb /\ at \notin {"over", "failed"}]_vars
  <2> SUFFICES ASSUME CommitteeInv, [Next]_vars, NEW d \in Decisions, ledger'[d] # ledger[d]
               PROVE  d[1] = hb /\ at \notin {"over", "failed"}
    OBVIOUS
  <2>1. CASE Steps
    <3>1. PICK c \in Callers :
            /\ CallEnds(c)
            /\ ledger' = [ledger EXCEPT ![IF c \in Lenses THEN PmId ELSE ResearchId] = @ + 1]
      BY <2>1, RowsOfAnswers DEF CommitteeInv
    <3>2. d \in {PmId, ResearchId}
      BY <3>1 DEF CommitteeInv, TypeOK
    <3>3. Busy(c)
      BY <3>1, Ending DEF CommitteeInv
    <3>4. QED
      BY <3>2, <3>3 DEF PmId, ResearchId, Busy
  <2>2. CASE NextHeartbeat \/ Crash \/ UNCHANGED vars
    BY <2>2 DEF NextHeartbeat, Crash, LLM!Crash, vars
  <2>3. QED
    BY <2>1, <2>2 DEF Next
<1>2. QED
  BY CommitteeInvariant, <1>1, PTL DEF Spec, NoLateRow

LEMMA TruncatedList ==
  ASSUME NEW docs \in ChunkLists
  PROVE  LLM!Truncate(docs) \in ChunkLists
<1>1. PICK n \in 0..MaxChunks : docs = [k \in 1..n |-> k]
  BY DEF ChunkLists
<1>2. n \in Nat /\ docs \in Seq(Nat) /\ Len(docs) = n
  BY <1>1, ChunkAssumption
<1> DEFINE m == (n + 1) \div 2
<1>3. m \in Nat /\ m <= n
  BY <1>2
<1>4. LLM!Truncate(docs) = [k \in 1..m |-> k]
  <2>1. /\ LLM!Truncate(docs) \in Seq(Nat) /\ Len(LLM!Truncate(docs)) = m
        /\ \A k \in 1..m : LLM!Truncate(docs)[k] = docs[k]
    BY <1>2, <1>3, SubSeqProperties DEF LLM!Truncate
  <2>2. LLM!Truncate(docs) = [k \in 1..m |-> LLM!Truncate(docs)[k]]
    BY <2>1
  <2>3. \A k \in 1..m : LLM!Truncate(docs)[k] = k
    BY <2>1, <1>1, <1>3
  <2>4. QED
    BY <2>2, <2>3
<1>5. m \in 0..MaxChunks
  BY <1>1, <1>3, ChunkAssumption
<1>6. QED
  BY <1>4, <1>5 DEF ChunkLists

\* The agents use a model only as LlmCall has it, which is what Router is proved
\* to implement: they ask one thing at a time, and take what they asked for.
THEOREM CallsAsPromised == Spec => LLM!CallSpec
<1>1. Init => LLM!CallInit
  BY DEF Init
<1>2. CommitteeInv /\ [Next]_vars => [LLM!CallNext]_(LLM!callVars)
  <2> SUFFICES ASSUME CommitteeInv, [Next]_vars PROVE LLM!CallNext \/ UNCHANGED <<call, ledger>>
    BY DEF LLM!callVars
  <2> USE Names
  <2>1. /\ \A docs \in ChunkLists : Asks(docs) \in Requests
        /\ [docs |-> <<>>, decision |-> PmId] \in Requests
        /\ <<>> \in ChunkLists
    <3>1. ResearchId \in Decisions /\ PmId \in Decisions
      BY IdsTyped DEF CommitteeInv
    <3>2. <<>> \in ChunkLists
      BY ChunkAssumption DEF ChunkLists
    <3>3. QED
      BY <3>1, <3>2 DEF Requests, Asks
  <2>2. CASE Retrieve \/ ExtractAgain \/ AskJudge \/ \E l \in Lenses : StartVoter(l)
    <3>1. \/ UNCHANGED <<call, ledger>>
          \/ \E c \in Callers : \E req \in Requests : LLM!Ask(c, req)
      BY <2>1, <2>2, Retrieved, Bound DEF CommitteeInv, TypeOK
    <3>2. QED
      BY <3>1 DEF LLM!CallNext
  <2>3. CASE Extract \/ Judge \/ \E l \in Lenses : VoterEnds(l)
    <3>1. \E c \in Callers : LLM!Take(c)
      BY <2>3 DEF Extract, Judge, VoterEnds
    <3>2. QED
      BY <3>1 DEF LLM!CallNext
  <2>4. ASSUME NEW c \in Callers, CallEnds(c)
        PROVE  LLM!CallNext
    <3>1. CASE \E kind \in LLM!Failures : LLM!Fail(c, kind)
      BY <3>1 DEF LLM!CallNext
    <3>2. ASSUME NEW docs \in LLM!Shown(call[c].req), NEW content \in Replies(c, docs),
                 LLM!Answer(c, content, docs)
          PROVE  LLM!CallNext
      <4>1. call[c].req.docs \in ChunkLists
        BY <2>1, <2>4, Ending DEF CommitteeInv, TypeOK, Req, Asks
      <4>2. docs \in ChunkLists
        BY <4>1, TruncatedList DEF LLM!Shown
      <4>3. content \in Contents
        BY <4>2 DEF Replies, Contents
      <4>4. QED
        BY <2>4, <3>2, <4>3 DEF LLM!CallNext, CallEnds
    <3>3. QED
      BY <2>4, <3>1, <3>2 DEF CallEnds
  <2>5. CASE Crash
    BY <2>5 DEF Crash, LLM!CallNext
  <2>6. CASE \/ PassThrough \/ InjectionGate \/ OpenVote \/ CloseVote \/ NextHeartbeat \/ UNCHANGED vars
             \/ \E l \in Lenses : CancelVoter(l)
    BY <2>6 DEF PassThrough, InjectionGate, OpenVote, CloseVote, NextHeartbeat, CancelVoter, vars
  <2>7. QED
    BY <2>2, <2>3, <2>4, <2>5, <2>6 DEF Next, Steps
<1>3. QED
  BY CommitteeInvariant, <1>1, <1>2, PTL DEF Spec, LLM!CallSpec
=============================================================================
