------------------------------ MODULE LlmCall ------------------------------
(***************************************************************************)
(* What one call of a language model promises the agent that makes it,     *)
(* with no profile, no cache and no attempt in sight: it returns once, with*)
(* an answer to a leading part of the documents it was given or with a     *)
(* failure, and exactly the answered calls are booked in the cost ledger,  *)
(* each under the decision it was made for.  Router implements this module *)
(* and Committee is built on it.                                           *)
(***************************************************************************)
EXTENDS Naturals, Sequences

CONSTANTS
  Callers,    \* the threads that may have a call in flight
  Requests,   \* what is asked: a record with the documents and the decision
  Decisions,  \* ids the calls are booked under
  Contents,   \* what an answer says
  None

VARIABLES
  call,       \* the call of each thread
  ledger      \* cost_ledger: how many rows each decision has

callVars == <<call, ledger>>

NoCall == [state |-> "idle", req |-> None, result |-> None]

\* (mutant) the last documents are kept.
TruncateFirst(docs) == SubSeq(docs, 1 + Len(docs) \div 2, Len(docs))

\* _truncate_document_blocks: the leading half, rounded up.
Truncate(docs) == SubSeq(docs, 1, (Len(docs) + 1) \div 2)

Failures == {"unavailable", "error"}
Answered(content, docs) == [kind |-> "answer", content |-> content, docs |-> docs]
Failed(kind) == [kind |-> kind, content |-> None, docs |-> <<>>]

CallInit ==
  /\ call = [c \in Callers |-> NoCall]
  /\ ledger = [d \in Decisions |-> 0]

\* messages_create is called with what the adapter is bound to.
Ask(c, req) ==
  /\ call[c].state = "idle"
  /\ call' = [call EXCEPT ![c] = [state |-> "asked", req |-> req, result |-> None]]
  /\ UNCHANGED ledger

Return(c, result) ==
  /\ call[c].state = "asked"
  /\ call' = [call EXCEPT ![c] = [state |-> "returned", req |-> call[c].req,
                                  result |-> result]]

\* The documents an attempt may have shown.
Shown(req) == {req.docs, Truncate(req.docs)}

\* The call returns a response about some documents, booked under its decision.
Answer(c, content, docs) ==
  /\ docs \in Shown(call[c].req)
  /\ Return(c, Answered(content, docs))
  /\ ledger' = [ledger EXCEPT ![call[c].req.decision] = @ + 1]

\* The call raises: LLMUnavailableError when the ladder is exhausted, any
\* other exception for a miss of the cache or a row that cannot be written.
Fail(c, kind) == Return(c, Failed(kind)) /\ UNCHANGED ledger

\* The caller goes on with the result.
Take(c) ==
  /\ call[c].state = "returned"
  /\ call' = [call EXCEPT ![c] = NoCall]
  /\ UNCHANGED ledger

\* The process dies, and its calls with it.
Crash ==
  /\ call' = [c \in Callers |-> NoCall]
  /\ UNCHANGED ledger

CallNext ==
  \/ \E c \in Callers :
       \/ \E req \in Requests : Ask(c, req)
       \/ /\ call[c].state = "asked"
          /\ \E content \in Contents, docs \in Shown(call[c].req) :
               Answer(c, content, docs)
       \/ \E kind \in Failures : Fail(c, kind)
       \/ Take(c)
  \/ Crash

CallSpec == CallInit /\ [][CallNext]_callVars
=============================================================================
