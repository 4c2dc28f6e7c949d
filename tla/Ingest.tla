------------------------------- MODULE Ingest -------------------------------
(***************************************************************************)
(* `firm ingest` (firm/cli.py), one or several at a time: it creates the   *)
(* collection of the vector store, fits the sparse vocabulary on all the   *)
(* documents it selected, and then runs IngestRunner (firm/rag/ingest.py)  *)
(* over each source: a document the store has is skipped, the others are   *)
(* chunked, embedded and upserted in one call, and the run keeps a row in  *)
(* table ingest_runs.  Any call may fail and the process may die between   *)
(* any two steps; what is stored stays, and the command is started again.  *)
(*                                                                         *)
(* A document stands for its chunks, whose point ids depend on nothing but *)
(* the document, and a vocabulary for the documents it was fitted on: the  *)
(* index of a token is its place among all their tokens.                   *)
(***************************************************************************)
EXTENDS Integers, Sequences, FiniteSetsExt

CONSTANTS
  Procs,       \* ingest commands that may run at the same time
  Docs,        \* doc_ids
  Empty,       \* documents whose text gives no chunk
  Corpus,      \* the documents of each source, in the order of iter_docs
  Configured,  \* sources rag.yaml configures and enables
  Options,     \* command lines: --source, and the limit on FinanceBench
  MaxFaults    \* bound: calls that fail and processes that die

Sources == {"financebench", "transcripts", "news"}

ASSUME DocsAssumption == IsFiniteSet(Docs) /\ Empty \subseteq Docs
ASSUME CorpusAssumption == Corpus \in [Sources -> Seq(Docs)]
ASSUME OptionsAssumption == Options \subseteq [source: Sources \cup {"all"}, maxDocs: Nat]
ASSUME FaultsAssumption == MaxFaults \in Nat

VARIABLES
  collection,  \* the collection is there
  store,       \* vocabularies of a document's points: none if it is not there, or one
  pc, option,  \* of each command: its next step, its command line
  left,        \* sources it has still to run
  todo,        \* documents of the current source it has still to see
  count,       \* docs_completed of the current run
  row,         \* the last row it wrote to ingest_runs, and what documents the row is about
  failed,      \* any_failed
  exit,        \* how the last command ended
  faults       \* failures so far

vars == <<collection, store, pc, option, left, todo, count, row, failed, exit, faults>>
storeVars == <<collection, store>>

Steps == {"idle", "list", "create", "fit", "source", "next", "upsert", "bump", "fail"}
Statuses == {"none", "running", "completed", "failed"}
NoRow == [status |-> "none", of |-> <<>>, docs |-> 0]
NoOption == [source |-> "all", maxDocs |-> 0]

\* The sources a command line selects, in their fixed order.
IfWanted(o, s) == IF o.source \in {s, "all"} /\ s \in Configured THEN <<s>> ELSE <<>>
Selected(o) == IfWanted(o, "financebench") \o IfWanted(o, "transcripts") \o IfWanted(o, "news")

\* iter_docs of a source under that command line.
DocsOf(o, s) ==
  IF s = "financebench" /\ o.maxDocs < Len(Corpus[s])
    THEN SubSeq(Corpus[s], 1, o.maxDocs)
    ELSE Corpus[s]

Elements(s) == {s[i] : i \in 1..Len(s)}

WithText(docs) == docs \ Empty

\* What BM25Sparse.fit gets: the chunks of every selected document.
Vocabulary(o) ==
  WithText(UNION {Elements(DocsOf(o, s)) : s \in Elements(Selected(o))})

\* embed and transform: a document's points, in the command's vocabulary.
Points(p) == {Vocabulary(option[p])}

Indexed == {d \in Docs : store[d] # {}}

Current(p) == left[p][1]
Doc(p) == todo[p][1]

Init ==
  /\ collection = FALSE
  /\ store = [d \in Docs |-> {}]
  /\ pc = [p \in Procs |-> "idle"]
  /\ option = [p \in Procs |-> NoOption]
  /\ left = [p \in Procs |-> <<>>]
  /\ todo = [p \in Procs |-> <<>>]
  /\ count = [p \in Procs |-> 0]
  /\ row = [p \in Procs |-> NoRow]
  /\ failed = [p \in Procs |-> FALSE]
  /\ exit = [p \in Procs |-> "none"]
  /\ faults = 0

Go(p, from, to) ==
  /\ pc[p] = from
  /\ pc' = [pc EXCEPT ![p] = to]

Fault ==
  /\ faults < MaxFaults
  /\ faults' = faults + 1

-----------------------------------------------------------------------------
(* The command.                                                            *)

\* firm ingest --source ... --max-docs ...: without a source it exits at once.
Begin(p, o) ==
  /\ Go(p, "idle", IF Selected(o) = <<>> THEN "idle" ELSE "list")
  /\ exit' = [exit EXCEPT ![p] = IF Selected(o) = <<>> THEN "error" ELSE "none"]
  /\ option' = [option EXCEPT ![p] = o]
  /\ left' = [left EXCEPT ![p] = Selected(o)]
  /\ failed' = [failed EXCEPT ![p] = FALSE]
  /\ row' = [row EXCEPT ![p] = NoRow]
  /\ UNCHANGED <<storeVars, todo, count, faults>>

\* create_collection: is it among get_collections()?
List(p) ==
  /\ Go(p, "list", IF collection THEN "fit" ELSE "create")
  /\ UNCHANGED <<storeVars, option, left, todo, count, row, failed, exit, faults>>

\* Whatever a process knew is gone when it ends.
Ends(p, how) ==
  /\ pc' = [pc EXCEPT ![p] = "idle"]
  /\ exit' = [exit EXCEPT ![p] = how]
  /\ left' = [left EXCEPT ![p] = <<>>]
  /\ todo' = [todo EXCEPT ![p] = <<>>]
  /\ count' = [count EXCEPT ![p] = 0]
  /\ UNCHANGED <<option, row, failed>>

\* create_collection: the store refuses to create it twice, so that the second
\* of two commands that both missed it ends there.
Create(p) ==
  /\ pc[p] = "create"
  /\ IF collection
       THEN Ends(p, "error") /\ UNCHANGED storeVars
       ELSE /\ Go(p, "create", "fit")
            /\ collection' = TRUE
            /\ UNCHANGED <<store, option, left, todo, count, row, failed, exit>>
  /\ UNCHANGED faults

\* The pre-pass: every selected document is read and chunked, sparse.fit(all).
Fit(p) ==
  /\ Go(p, "fit", "source")
  /\ UNCHANGED <<storeVars, option, left, todo, count, row, failed, exit, faults>>

\* The next source: INSERT INTO ingest_runs (..., 'running').
InsertRow(p) ==
  /\ left[p] # <<>>
  /\ Go(p, "source", "next")
  /\ row' = [row EXCEPT ![p] = [status |-> "running", of |-> DocsOf(option[p], Current(p)), docs |-> 0]]
  /\ count' = [count EXCEPT ![p] = 0]
  /\ todo' = [todo EXCEPT ![p] = DocsOf(option[p], Current(p))]
  /\ UNCHANGED <<storeVars, option, left, failed, exit, faults>>

\* No source is left: the tool tables are written; exit 1 if any run failed.
Exit(p) ==
  /\ pc[p] = "source" /\ left[p] = <<>>
  /\ Ends(p, IF failed[p] THEN "error" ELSE "zero")
  /\ UNCHANGED <<storeVars, faults>>

\* Kill, or an exception no handler of the run is there for: while it lists,
\* creates or fits, on an unreadable document, or on its own row's statements.
Dies(p) ==
  /\ pc[p] # "idle"
  /\ Ends(p, "error")
  /\ Fault
  /\ UNCHANGED storeVars

-----------------------------------------------------------------------------
(* IngestRunner.run.                                                       *)

\* (mutant) a document is skipped when the store has anything of its source.
SkipBySource(p) ==
  /\ Go(p, "next", IF Indexed # {} THEN "next" ELSE "upsert")
  /\ todo[p] # <<>>
  /\ todo' = [todo EXCEPT ![p] = IF Indexed # {} THEN Tail(@) ELSE @]
  /\ UNCHANGED <<storeVars, option, left, count, row, failed, exit, faults>>

\* doc_exists and chunk_document: an indexed document is skipped, and one
\* without chunks is done.
NextDoc(p) ==
  /\ todo[p] # <<>>
  /\ LET skip == Doc(p) \in Indexed
         none == ~skip /\ Doc(p) \in Empty
     IN  /\ Go(p, "next", IF skip \/ none THEN "next" ELSE "upsert")
         /\ todo' = [todo EXCEPT ![p] = IF skip \/ none THEN Tail(@) ELSE @]
         /\ count' = [count EXCEPT ![p] = IF none THEN @ + 1 ELSE @]
  /\ UNCHANGED <<storeVars, option, left, row, failed, exit, faults>>

\* (mutant) the progress is written first, and the document upserted after it.
BumpFirst(p) ==
  /\ Go(p, "upsert", "bump")
  /\ count' = [count EXCEPT ![p] = @ + 1]
  /\ row' = [row EXCEPT ![p].docs = count[p] + 1]
  /\ UNCHANGED <<storeVars, option, left, todo, failed, exit, faults>>

\* augment, embed, transform, and the upsert of all its chunks.
Upsert(p) ==
  /\ Go(p, "upsert", "bump")
  /\ store' = [store EXCEPT ![Doc(p)] = Points(p)]
  /\ count' = [count EXCEPT ![p] = @ + 1]
  /\ UNCHANGED <<collection, option, left, todo, row, failed, exit, faults>>

\* _bump_run_progress: the row follows what the store has.
Bump(p) ==
  /\ Go(p, "bump", "next")
  /\ row' = [row EXCEPT ![p].docs = count[p]]
  /\ todo' = [todo EXCEPT ![p] = Tail(@)]
  /\ UNCHANGED <<storeVars, option, left, count, failed, exit, faults>>

\* iter_docs meets a row it cannot read, or doc_exists raises.
ReadRaises(p) == Go(p, "next", "fail") /\ UNCHANGED store

\* The summary's model, the embedder or the upsert raises; an upsert may have
\* been applied all the same.
UpsertRaises(p) ==
  /\ Go(p, "upsert", "fail")
  /\ store' \in {store, [store EXCEPT ![Doc(p)] = Points(p)]}

\* The row's update raises.
BumpRaises(p) == Go(p, "bump", "fail") /\ UNCHANGED store

\* A call of the loop raises.
Raises(p) ==
  /\ ReadRaises(p) \/ UpsertRaises(p) \/ BumpRaises(p)
  /\ Fault
  /\ UNCHANGED <<collection, option, left, todo, count, row, failed, exit>>

\* _update_run_row, and the command goes on to its next source.
Ended(p, from, status) ==
  /\ Go(p, from, "source")
  /\ row' = [row EXCEPT ![p].status = status, ![p].docs = count[p]]
  /\ left' = [left EXCEPT ![p] = Tail(@)]
  /\ todo' = [todo EXCEPT ![p] = <<>>]
  /\ UNCHANGED <<storeVars, option, count, exit, faults>>

Finish(p) ==
  /\ todo[p] = <<>>
  /\ Ended(p, "next", "completed")
  /\ UNCHANGED failed

\* (mutant) the exception is logged and the run called completed.
SwallowFailure(p) ==
  /\ Ended(p, "fail", "completed")
  /\ UNCHANGED failed

\* except Exception: status 'failed', and nothing is raised.
Fail(p) ==
  /\ Ended(p, "fail", "failed")
  /\ failed' = [failed EXCEPT ![p] = TRUE]

Step(p) ==
  \/ List(p) \/ Create(p) \/ Fit(p) \/ InsertRow(p) \/ Exit(p)
  \/ NextDoc(p) \/ Upsert(p) \/ Bump(p) \/ Finish(p) \/ Fail(p)

Trouble(p) == Dies(p) \/ Raises(p)

IngestNext ==
  \E p \in Procs : Step(p) \/ Trouble(p) \/ \E o \in Options : Begin(p, o)

\* A command line that selects everything there is.
Whole(o) == o.source = "all" /\ o.maxDocs >= Len(Corpus["financebench"])

\* A command takes its next step unless it dies, and the operator does not only
\* ingest parts: everything is selected again and again.
IngestFair ==
  \A p \in Procs :
    /\ WF_vars(Step(p))
    /\ SF_vars(\E o \in Options : Whole(o) /\ Begin(p, o))

-----------------------------------------------------------------------------
(* Properties.                                                             *)

\* The values the variables take.
TypeOK ==
  /\ collection \in BOOLEAN
  /\ store \in [Docs -> SUBSET SUBSET Docs]
  /\ pc \in [Procs -> Steps]
  /\ option \in [Procs -> Options \cup {NoOption}]
  /\ left \in [Procs -> Seq(Sources)]
  /\ todo \in [Procs -> Seq(Docs)]
  /\ count \in [Procs -> Nat]
  /\ row \in [Procs -> [status: Statuses, of: Seq(Docs), docs: Nat]]
  /\ failed \in [Procs -> BOOLEAN]
  /\ exit \in [Procs -> {"none", "zero", "error"}]
  /\ faults \in 0..MaxFaults

\* What a selection promises when it is done: all its text is in the store.
Done(docs) == WithText(Elements(docs)) \subseteq Indexed

\* What says it succeeded tells the truth, read before or after another command's
\* failure, crash or restart: of a row of ingest_runs that says completed, every
\* document it was to take is in the store with its chunks (IngestRunner.run); of
\* a command that exited 0, those of every selected source, also of the sources
\* that ran before a failed one (cli.ingest).
SuccessMeansIndexed ==
  \A p \in Procs :
    /\ row[p].status = "completed" => Done(row[p].of)
    /\ exit[p] = "zero" =>
         \A s \in Elements(Selected(option[p])) : Done(DocsOf(option[p], s))

\* The progress a row shows, during the run, after it, or after a crash in the
\* middle of it, never exceeds what the store has, and what had no text to store
\* each time it came (_bump_run_progress).
RowNeverOverclaims ==
  \A p \in Procs :
    row[p].docs <= Cardinality(Elements(row[p].of) \cap Indexed)
                     + Cardinality({i \in DOMAIN row[p].of : row[p].of[i] \in Empty})

\* When calls stop failing and the operator goes on running it, firm ingest
\* gets every configured document into the store, although each run starts
\* from the beginning and knows only what doc_exists tells it.
AllIndexed ==
  <>(\A s \in Configured : Done(Corpus[s]))
=============================================================================
