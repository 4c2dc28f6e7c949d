-------------------------- MODULE RetrievalProofs --------------------------
(***************************************************************************)
(* What an ingest command claims, proved for any corpus, any number of     *)
(* commands and of faults, while a heartbeat reads the store (Retrieval).  *)
(* The store only grows, so that what was in it stays a reason for the row *)
(* and the exit code that were written because of it.                      *)
(***************************************************************************)
EXTENDS Retrieval, FiniteSetTheorems, SequenceTheorems, TLAPS

Running == {"next", "upsert", "bump", "fail"}

\* While a run is under way its row is about its source's documents, and those
\* that are no longer on its list are in the store, with the one at its head
\* from the upsert on.
RunInv ==
  \A p \in Procs : pc[p] \in Running =>
    /\ left[p] # <<>>
    /\ row[p].of = DocsOf(option[p], Current(p))
    /\ pc[p] \in {"upsert", "bump"} => todo[p] # <<>>
    /\ pc[p] = "bump" => Doc(p) \in Indexed
    /\ WithText(Elements(row[p].of)) \ Elements(todo[p]) \subseteq Indexed

\* The sources a command is done with are in the store, unless a run failed.
CommandInv ==
  \A p \in Procs : pc[p] # "idle" /\ ~failed[p] =>
    \A s \in Elements(Selected(option[p])) \ Elements(left[p]) : Done(DocsOf(option[p], s))

IngestInv == TypeOK /\ RunInv /\ CommandInv /\ SuccessMeansIndexed

-----------------------------------------------------------------------------
(* Lemmas about sequences and the command line.                            *)

\* What Tail takes off is the head.
LEMMA TailElements ==
  ASSUME NEW S, NEW s \in Seq(S), s # <<>>
  PROVE  /\ s[1] \in S /\ s[1] \in Elements(s)
         /\ Tail(s) \in Seq(S)
         /\ Elements(s) \subseteq Elements(Tail(s)) \cup {s[1]}
BY DEF Elements

\* The empty sequence has no element.
LEMMA EmptyElements ==
  /\ Elements(<<>>) = {}
  /\ \A S : <<>> \in Seq(S)
BY DEF Elements

\* The sources of a command line are sources.
LEMMA SelectedType ==
  ASSUME NEW o PROVE Selected(o) \in Seq(Sources)
<1>1. \A s \in Sources : IfWanted(o, s) \in Seq(Sources)
  BY DEF IfWanted
<1>2. IfWanted(o, "financebench") \in Seq(Sources) /\ IfWanted(o, "transcripts") \in Seq(Sources)
      /\ IfWanted(o, "news") \in Seq(Sources)
  BY <1>1 DEF Sources
<1>3. QED BY <1>2 DEF Selected

\* The documents of a source are documents.
LEMMA DocsOfType ==
  ASSUME NEW o \in Options \cup {NoOption}, NEW s \in Sources
  PROVE  DocsOf(o, s) \in Seq(Docs)
<1>1. Corpus[s] \in Seq(Docs) /\ o.maxDocs \in Nat
  BY CorpusAssumption, OptionsAssumption DEF NoOption
<1>2. CASE s = "financebench" /\ o.maxDocs < Len(Corpus[s])
  <2>1. SubSeq(Corpus[s], 1, o.maxDocs) \in Seq(Docs)
    BY <1>1, <1>2
  <2>2. QED BY <2>1, <1>2 DEF DocsOf
<1>3. CASE ~(s = "financebench" /\ o.maxDocs < Len(Corpus[s]))
  BY <1>1, <1>3 DEF DocsOf
<1>4. QED BY <1>2, <1>3

\* A vocabulary is made of documents.
LEMMA VocabularyType ==
  ASSUME NEW o \in Options \cup {NoOption}
  PROVE  Vocabulary(o) \subseteq Docs
<1>1. ASSUME NEW s \in Elements(Selected(o)) PROVE Elements(DocsOf(o, s)) \subseteq Docs
  <2>1. s \in Sources
    BY SelectedType DEF Elements
  <2>2. DocsOf(o, s) \in Seq(Docs)
    BY <2>1, DocsOfType
  <2>3. QED BY <2>2 DEF Elements
<1>2. QED BY <1>1 DEF Vocabulary, WithText

\* Sets that only grow keep what was said of their elements.
LEMMA DoneStays ==
  ASSUME NEW docs, Indexed \subseteq Indexed', Done(docs)
  PROVE  Done(docs)'
BY DEF Done, WithText

-----------------------------------------------------------------------------
(* The invariant is inductive.                                             *)

LEMMA InitInv == Init => IngestInv
<1> SUFFICES ASSUME Init PROVE IngestInv OBVIOUS
<1>1. TypeOK
  <2>1. NoRow \in [status: Statuses, of: Seq(Docs), docs: Nat]
    BY EmptyElements DEF NoRow, Statuses
  <2>2. row \in [Procs -> [status: Statuses, of: Seq(Docs), docs: Nat]]
    BY <2>1 DEF Init
  <2>3. left \in [Procs -> Seq(Sources)] /\ todo \in [Procs -> Seq(Docs)]
    BY EmptyElements DEF Init
  <2>4. faults \in 0..MaxFaults
    BY FaultsAssumption DEF Init
  <2>5. option \in [Procs -> Options \cup {NoOption}] /\ pc \in [Procs -> Steps]
    BY DEF Init, Steps
  <2>6. collection \in BOOLEAN /\ store \in [Docs -> SUBSET SUBSET Docs]
    BY DEF Init
  <2>7. count \in [Procs -> Nat] /\ failed \in [Procs -> BOOLEAN] /\ exit \in [Procs -> {"none", "zero", "error"}]
    BY DEF Init
  <2>8. QED BY <2>2, <2>3, <2>4, <2>5, <2>6, <2>7 DEF TypeOK
<1>2. RunInv BY DEF Init, RunInv, Running
<1>3. CommandInv BY DEF Init, CommandInv
<1>4. SuccessMeansIndexed BY DEF Init, SuccessMeansIndexed, NoRow
<1>5. QED BY <1>1, <1>2, <1>3, <1>4 DEF IngestInv

\* A step of one command leaves the others' variables alone, and the store can
\* only grow: what has to be shown is the mover's own part of the invariant.
\* (Others(p): q # p.)
LEMMA OthersKeep ==
  ASSUME IngestInv, TypeOK', NEW p \in Procs, Indexed \subseteq Indexed',
         \A q \in Procs \ {p} :
           /\ pc'[q] = pc[q] /\ option'[q] = option[q] /\ left'[q] = left[q]
           /\ todo'[q] = todo[q] /\ row'[q] = row[q]
           /\ failed'[q] = failed[q] /\ exit'[q] = exit[q],
         pc'[p] \in Running =>
           /\ left'[p] # <<>>
           /\ row'[p].of = DocsOf(option'[p], left'[p][1])
           /\ pc'[p] \in {"upsert", "bump"} => todo'[p] # <<>>
           /\ pc'[p] = "bump" => todo'[p][1] \in Indexed'
           /\ WithText(Elements(row'[p].of)) \ Elements(todo'[p]) \subseteq Indexed',
         pc'[p] # "idle" /\ ~failed'[p] =>
           \A s \in Elements(Selected(option'[p])) \ Elements(left'[p]) :
             WithText(Elements(DocsOf(option'[p], s))) \subseteq Indexed',
         row'[p].status = "completed" => WithText(Elements(row'[p].of)) \subseteq Indexed',
         exit'[p] = "zero" =>
           \A s \in Elements(Selected(option'[p])) :
             WithText(Elements(DocsOf(option'[p], s))) \subseteq Indexed'
  PROVE  IngestInv'
<1>1. RunInv'
  <2> SUFFICES ASSUME NEW q \in Procs, pc'[q] \in Running
               PROVE  /\ left'[q] # <<>>
                      /\ row'[q].of = DocsOf(option'[q], left'[q][1])
                      /\ pc'[q] \in {"upsert", "bump"} => todo'[q] # <<>>
                      /\ pc'[q] = "bump" => todo'[q][1] \in Indexed'
                      /\ WithText(Elements(row'[q].of)) \ Elements(todo'[q]) \subseteq Indexed'
    BY DEF RunInv, Current, Doc
  <2>1. CASE q = p BY <2>1
  <2>2. CASE q # p BY <2>2 DEF IngestInv, RunInv, Current, Doc
  <2>3. QED BY <2>1, <2>2
<1>2. CommandInv'
  <2> SUFFICES ASSUME NEW q \in Procs, pc'[q] # "idle", ~failed'[q],
                      NEW s \in Elements(Selected(option'[q])) \ Elements(left'[q])
               PROVE  WithText(Elements(DocsOf(option'[q], s))) \subseteq Indexed'
    BY DEF CommandInv, Done
  <2>1. CASE q = p BY <2>1
  <2>2. CASE q # p BY <2>2 DEF IngestInv, CommandInv, Done
  <2>3. QED BY <2>1, <2>2
<1>3. SuccessMeansIndexed'
  <2> SUFFICES ASSUME NEW q \in Procs
               PROVE  /\ row'[q].status = "completed" => WithText(Elements(row'[q].of)) \subseteq Indexed'
                      /\ exit'[q] = "zero" =>
                           \A s \in Elements(Selected(option'[q])) :
                             WithText(Elements(DocsOf(option'[q], s))) \subseteq Indexed'
    BY DEF SuccessMeansIndexed, Done
  <2>1. CASE q = p BY <2>1
  <2>2. CASE q # p BY <2>2 DEF IngestInv, SuccessMeansIndexed, Done
  <2>3. QED BY <2>1, <2>2
<1>4. QED BY <1>1, <1>2, <1>3 DEF IngestInv

-----------------------------------------------------------------------------
(* Types: one lemma per group of actions.                                  *)

LEMMA CommandTypes ==
  ASSUME TypeOK, NEW p \in Procs,
         (\E o \in Options : Begin(p, o)) \/ List(p) \/ Create(p) \/ Fit(p) \/ InsertRow(p) \/ Exit(p) \/ Dies(p)
  PROVE  TypeOK'
<1>1. ASSUME NEW o \in Options, Begin(p, o) PROVE TypeOK'
  <2>1. NoRow \in [status: Statuses, of: Seq(Docs), docs: Nat]
    BY EmptyElements DEF NoRow, Statuses
  <2>2. row' \in [Procs -> [status: Statuses, of: Seq(Docs), docs: Nat]]
    BY <1>1, <2>1 DEF Begin, TypeOK
  <2>3. left' \in [Procs -> Seq(Sources)]
    BY <1>1, SelectedType DEF Begin, TypeOK
  <2>4. QED BY <1>1, <2>2, <2>3 DEF Begin, Go, TypeOK, storeVars, Steps
<1>2. CASE List(p) \/ Fit(p)
  BY <1>2 DEF List, Fit, Go, TypeOK, storeVars, Steps
<1>3. CASE Create(p) \/ Exit(p) \/ Dies(p)
  <2>1. ASSUME NEW how \in {"zero", "error"}, Ends(p, how), UNCHANGED storeVars, faults' \in 0..MaxFaults
        PROVE  TypeOK'
    <3>1. left' \in [Procs -> Seq(Sources)]
      BY <2>1, EmptyElements DEF Ends, TypeOK
    <3>2. todo' \in [Procs -> Seq(Docs)]
      BY <2>1, EmptyElements DEF Ends, TypeOK
    <3>3. QED BY <2>1, <3>1, <3>2 DEF Ends, TypeOK, storeVars, Steps
  <2>2. CASE Create(p)
    <3>1. CASE collection
      BY <2>1, <2>2, <3>1 DEF Create, TypeOK
    <3>2. CASE ~collection
      BY <2>2, <3>2 DEF Create, Go, TypeOK, Steps
    <3>3. QED BY <3>1, <3>2
  <2>3. CASE Exit(p)
    BY <2>1, <2>3 DEF Exit, TypeOK
  <2>4. CASE Dies(p)
    <3>1. faults' \in 0..MaxFaults
      BY <2>4, FaultsAssumption DEF Dies, Fault, TypeOK
    <3>2. QED BY <2>1, <2>4, <3>1 DEF Dies
  <2>5. QED BY <1>3, <2>2, <2>3, <2>4
<1>4. CASE InsertRow(p)
  <2>1. Current(p) \in Sources
    BY <1>4, TailElements DEF InsertRow, Current, TypeOK
  <2>2. DocsOf(option[p], Current(p)) \in Seq(Docs)
    BY <2>1, DocsOfType DEF TypeOK
  <2>3. row' \in [Procs -> [status: Statuses, of: Seq(Docs), docs: Nat]]
    BY <1>4, <2>2 DEF InsertRow, TypeOK, Statuses
  <2>4. todo' \in [Procs -> Seq(Docs)]
    BY <1>4, <2>2 DEF InsertRow, TypeOK
  <2>5. QED BY <1>4, <2>3, <2>4 DEF InsertRow, Go, TypeOK, storeVars, Steps
<1>5. QED BY <1>1, <1>2, <1>3, <1>4

LEMMA RunTypes ==
  ASSUME TypeOK, RunInv, NEW p \in Procs,
         NextDoc(p) \/ Upsert(p) \/ Bump(p) \/ Finish(p) \/ Fail(p) \/ Raises(p)
  PROVE  TypeOK'
<1>1. CASE NextDoc(p)
  <2>1. todo' \in [Procs -> Seq(Docs)]
    BY <1>1, TailElements DEF NextDoc, TypeOK
  <2>2. QED BY <1>1, <2>1 DEF NextDoc, Go, TypeOK, storeVars, Steps
<1>2. CASE Upsert(p) \/ Raises(p)
  <2>1. Vocabulary(option[p]) \subseteq Docs
    BY VocabularyType DEF TypeOK
  <2>2. [store EXCEPT ![Doc(p)] = Points(p)] \in [Docs -> SUBSET SUBSET Docs]
    BY <2>1 DEF TypeOK, Points
  <2>3. CASE Upsert(p)
    BY <2>2, <2>3 DEF Upsert, Go, TypeOK, Steps
  <2>4. CASE Raises(p)
    <3>1. faults' \in 0..MaxFaults
      BY <2>4, FaultsAssumption DEF Raises, Fault, TypeOK
    <3>2. store' \in [Docs -> SUBSET SUBSET Docs]
      BY <2>2, <2>4 DEF Raises, ReadRaises, UpsertRaises, BumpRaises, TypeOK
    <3>3. pc' \in [Procs -> Steps]
      BY <2>4 DEF Raises, ReadRaises, UpsertRaises, BumpRaises, Go, TypeOK, Steps
    <3>4. QED BY <2>4, <3>1, <3>2, <3>3 DEF Raises, TypeOK
  <2>5. QED BY <1>2, <2>3, <2>4
<1>3. CASE Bump(p)
  <2>1. todo' \in [Procs -> Seq(Docs)]
    BY <1>3, TailElements DEF Bump, Go, RunInv, Running, TypeOK
  <2>2. row' \in [Procs -> [status: Statuses, of: Seq(Docs), docs: Nat]]
    BY <1>3 DEF Bump, TypeOK
  <2>3. QED BY <1>3, <2>1, <2>2 DEF Bump, Go, TypeOK, storeVars, Steps
<1>4. CASE Finish(p) \/ Fail(p)
  <2>1. left[p] # <<>>
    BY <1>4 DEF Finish, Fail, Ended, Go, RunInv, Running
  <2>2. PICK status \in {"completed", "failed"} :
          /\ row' = [row EXCEPT ![p].status = status, ![p].docs = count[p]]
          /\ left' = [left EXCEPT ![p] = Tail(@)]
          /\ todo' = [todo EXCEPT ![p] = <<>>]
          /\ pc' = [pc EXCEPT ![p] = "source"]
          /\ failed' \in [Procs -> BOOLEAN]
          /\ UNCHANGED <<storeVars, option, count, exit, faults>>
    BY <1>4 DEF Finish, Fail, Ended, Go, TypeOK
  <2>3. left' \in [Procs -> Seq(Sources)]
    BY <2>1, <2>2, TailElements DEF TypeOK
  <2>4. todo' \in [Procs -> Seq(Docs)]
    BY <2>2, EmptyElements DEF TypeOK
  <2>5. row' \in [Procs -> [status: Statuses, of: Seq(Docs), docs: Nat]]
    BY ZenonT(40), <2>2 DEF TypeOK, Statuses
  <2>6. QED BY <2>2, <2>3, <2>4, <2>5 DEF TypeOK, storeVars, Steps
<1>5. QED BY <1>1, <1>2, <1>3, <1>4

-----------------------------------------------------------------------------
(* The steps.                                                              *)

\* Nothing is ever taken out of the store.
LEMMA StoreGrows ==
  ASSUME TypeOK, NEW p \in Procs, Step(p) \/ Trouble(p)
  PROVE  Indexed \subseteq Indexed'
<1>1. ASSUME store' \in {store, [store EXCEPT ![Doc(p)] = Points(p)]}
      PROVE  Indexed \subseteq Indexed'
  <2> SUFFICES ASSUME NEW d \in Docs, store[d] # {} PROVE store'[d] # {}
    BY DEF Indexed
  <2>1. CASE store' = store BY <2>1
  <2>2. CASE store' = [store EXCEPT ![Doc(p)] = Points(p)]
    <3>1. store'[d] = store[d] \/ store'[d] = Points(p) BY <2>2 DEF TypeOK
    <3>2. QED BY <3>1 DEF Points
  <2>3. QED BY <1>1, <2>1, <2>2
<1>2. CASE Upsert(p)
  <2>1. store' = [store EXCEPT ![Doc(p)] = Points(p)] BY <1>2 DEF Upsert
  <2>2. QED BY <1>1, <2>1
<1>3. CASE Raises(p)
  <2>1. store' \in {store, [store EXCEPT ![Doc(p)] = Points(p)]} BY <1>3 DEF Raises, ReadRaises, UpsertRaises, BumpRaises
  <2>2. QED BY <1>1, <2>1
<1>4. CASE (Step(p) /\ ~Upsert(p)) \/ Dies(p)
  <2>1. UNCHANGED store
    BY <1>4 DEF Step, List, Create, Fit, InsertRow, Exit, Dies, NextDoc, Bump, Finish, Fail, Ended, storeVars
  <2>2. QED BY <2>1 DEF Indexed
<1>5. QED BY <1>2, <1>3, <1>4 DEF Trouble

\* The command's own steps.
LEMMA CommandSteps ==
  ASSUME IngestInv, TypeOK', NEW p \in Procs,
         (\E o \in Options : Begin(p, o)) \/ List(p) \/ Create(p) \/ Fit(p) \/ InsertRow(p) \/ Exit(p) \/ Dies(p)
  PROVE  IngestInv'
<1> USE DEF IngestInv, TypeOK
<1>1. Indexed \subseteq Indexed'
  <2>1. CASE \E o \in Options : Begin(p, o) BY <2>1 DEF Begin, storeVars, Indexed
  <2>2. CASE ~\E o \in Options : Begin(p, o) BY <2>2, StoreGrows DEF Step, Trouble
  <2>3. QED BY <2>1, <2>2
<1>10. /\ pc[p] # "idle" /\ ~failed[p] => \A s \in Elements(Selected(option[p])) \ Elements(left[p]) :
                          WithText(Elements(DocsOf(option[p], s))) \subseteq Indexed
       /\ row[p].status = "completed" => WithText(Elements(row[p].of)) \subseteq Indexed
       /\ exit[p] = "zero" => \A s \in Elements(Selected(option[p])) :
                                WithText(Elements(DocsOf(option[p], s))) \subseteq Indexed
  BY DEF CommandInv, SuccessMeansIndexed, Done
<1>2. ASSUME NEW o \in Options, Begin(p, o) PROVE IngestInv'
  <2>1. pc'[p] \notin Running BY <1>2 DEF Begin, Go, Running
  <2>2. pc'[p] # "idle" => left'[p] = Selected(option'[p]) BY <1>2 DEF Begin, Go
  <2>3. row'[p].status # "completed" /\ exit'[p] # "zero" BY <1>2 DEF Begin, NoRow
  <2>4. QED BY <1>1, <1>2, <2>1, <2>2, <2>3, OthersKeep DEF Begin, Go
<1>3. CASE List(p) \/ Fit(p)
  <2>1. /\ left'[p] = left[p] /\ option'[p] = option[p] /\ row'[p] = row[p]
        /\ failed'[p] = failed[p] /\ exit'[p] = exit[p]
        /\ pc[p] # "idle" /\ pc'[p] \notin Running
    BY <1>3 DEF List, Fit, Go, Running
  <2>2. \A q \in Procs \ {p} : pc'[q] = pc[q]
    BY <1>3 DEF List, Fit, Go
  <2>3. \A q \in Procs \ {p} :
          /\ option'[q] = option[q] /\ left'[q] = left[q] /\ todo'[q] = todo[q]
          /\ row'[q] = row[q] /\ failed'[q] = failed[q] /\ exit'[q] = exit[q]
    BY <1>3 DEF List, Fit
  <2>4. pc'[p] # "idle" /\ ~failed'[p] =>
          \A s \in Elements(Selected(option'[p])) \ Elements(left'[p]) :
            WithText(Elements(DocsOf(option'[p], s))) \subseteq Indexed'
    BY <1>1, <1>10, <2>1
  <2>5. /\ row'[p].status = "completed" => WithText(Elements(row'[p].of)) \subseteq Indexed'
        /\ exit'[p] = "zero" =>
             \A s \in Elements(Selected(option'[p])) :
               WithText(Elements(DocsOf(option'[p], s))) \subseteq Indexed'
    BY <1>1, <1>10, <2>1
  <2>6. QED BY ZenonT(40), <1>1, <2>1, <2>2, <2>3, <2>4, <2>5, OthersKeep
<1>4. ASSUME NEW how \in {"zero", "error"}, Ends(p, how),
             how = "zero" => \A s \in Elements(Selected(option[p])) : WithText(Elements(DocsOf(option[p], s))) \subseteq Indexed
      PROVE  IngestInv'
  <2>1. pc'[p] = "idle" /\ exit'[p] = how /\ option'[p] = option[p] /\ row'[p] = row[p]
    BY <1>4 DEF Ends
  <2>2. row'[p].status = "completed" => WithText(Elements(row'[p].of)) \subseteq Indexed'
    BY <1>1, <2>1 DEF SuccessMeansIndexed, Done
  <2>3. QED BY <1>1, <1>4, <2>1, <2>2, OthersKeep DEF Ends, Running
<1>5. CASE Create(p)
  <2>1. CASE collection BY <1>4, <1>5, <2>1 DEF Create
  <2>2. CASE ~collection
    BY ZenonT(40), <1>1, <1>5, <2>2, OthersKeep DEF Create, Go, Running, CommandInv, SuccessMeansIndexed, Done
  <2>3. QED BY <2>1, <2>2
<1>6. CASE Exit(p)
  <2>1. ~failed[p] => \A s \in Elements(Selected(option[p])) : WithText(Elements(DocsOf(option[p], s))) \subseteq Indexed
    BY <1>6, EmptyElements DEF Exit, CommandInv, Done
  <2>2. QED BY <1>4, <1>6, <2>1 DEF Exit
<1>7. CASE Dies(p)
  BY <1>4, <1>7 DEF Dies
<1>8. CASE InsertRow(p)
  <2>1. /\ left'[p] = left[p] /\ left[p] # <<>> /\ option'[p] = option[p]
        /\ row'[p].of = DocsOf(option[p], left[p][1]) /\ row'[p].status = "running"
        /\ todo'[p] = DocsOf(option[p], left[p][1])
        /\ pc[p] = "source" /\ pc'[p] = "next"
    BY <1>8 DEF InsertRow, Go, Current
  <2>2. failed'[p] = failed[p] /\ exit'[p] = exit[p] /\ \A q \in Procs \ {p} : pc'[q] = pc[q]
    BY <1>8 DEF InsertRow, Go
  <2>3. \A q \in Procs \ {p} :
          /\ option'[q] = option[q] /\ left'[q] = left[q] /\ todo'[q] = todo[q] /\ row'[q] = row[q]
    BY <1>8 DEF InsertRow
  <2>4. ~failed'[p] =>
          \A s \in Elements(Selected(option'[p])) \ Elements(left'[p]) :
            WithText(Elements(DocsOf(option'[p], s))) \subseteq Indexed'
    BY <1>1, <1>10, <2>1, <2>2
  <2>5. exit'[p] = "zero" =>
          \A s \in Elements(Selected(option'[p])) :
            WithText(Elements(DocsOf(option'[p], s))) \subseteq Indexed'
    BY <1>1, <1>10, <2>1, <2>2
  <2>6. failed' = failed /\ exit' = exit
    BY <1>8 DEF InsertRow
  <2>7. WithText(Elements(row'[p].of)) \ Elements(todo'[p]) \subseteq Indexed'
    BY <2>1 DEF WithText
  <2>8. QED BY <1>1, <2>1, <2>2, <2>3, <2>4, <2>5, <2>6, <2>7, OthersKeep
<1>9. QED BY <1>2, <1>3, <1>5, <1>6, <1>7, <1>8

\* The steps of a run.
LEMMA RunSteps ==
  ASSUME IngestInv, TypeOK', NEW p \in Procs,
         NextDoc(p) \/ Upsert(p) \/ Bump(p) \/ Finish(p) \/ Fail(p) \/ Raises(p)
  PROVE  IngestInv'
<1> USE DEF IngestInv, TypeOK
<1>1. Indexed \subseteq Indexed'
  BY StoreGrows DEF Step, Trouble
<1>2. /\ left[p] # <<>>
      /\ row[p].of = DocsOf(option[p], left[p][1])
      /\ WithText(Elements(row[p].of)) \ Elements(todo[p]) \subseteq Indexed
      /\ ~failed[p] => \A s \in Elements(Selected(option[p])) \ Elements(left[p]) :
                         WithText(Elements(DocsOf(option[p], s))) \subseteq Indexed
      /\ row[p].status = "completed" => WithText(Elements(row[p].of)) \subseteq Indexed
      /\ exit[p] = "zero" => \A s \in Elements(Selected(option[p])) :
                               WithText(Elements(DocsOf(option[p], s))) \subseteq Indexed
  BY DEF NextDoc, Upsert, Bump, Finish, Fail, Ended, Raises, ReadRaises, UpsertRaises, BumpRaises, Go, Running, RunInv, Current,
         CommandInv, SuccessMeansIndexed, Done
<1>3. CASE NextDoc(p)
  <2>1. /\ left'[p] = left[p] /\ option'[p] = option[p] /\ row'[p] = row[p]
        /\ failed'[p] = failed[p] /\ exit'[p] = exit[p]
        /\ todo[p] # <<>>
        /\ pc'[p] \in {"next", "upsert"}
    BY <1>3 DEF NextDoc, Go
  <2>2. CASE Doc(p) \in Indexed \cup Empty
    <3>1. todo'[p] = Tail(todo[p]) /\ pc'[p] = "next" BY <1>3, <2>2 DEF NextDoc, Go
    <3>2. Elements(todo[p]) \subseteq Elements(todo'[p]) \cup {Doc(p)}
      BY <2>1, <3>1, TailElements DEF Doc
    <3>3. WithText(Elements(row[p].of)) \ Elements(todo'[p]) \subseteq Indexed
      BY <1>2, <2>2, <3>2 DEF WithText
    <3>4. QED BY <1>1, <1>2, <1>3, <2>1, <3>1, <3>3, OthersKeep DEF NextDoc, Go
  <2>3. CASE Doc(p) \notin Indexed \cup Empty
    <3>1. todo'[p] = todo[p] /\ pc'[p] = "upsert" BY <1>3, <2>3 DEF NextDoc, Go
    <3>2. QED BY <1>1, <1>2, <1>3, <2>1, <3>1, OthersKeep DEF NextDoc, Go
  <2>4. QED BY <2>2, <2>3
<1>4. CASE Upsert(p)
  <2>1. /\ left'[p] = left[p] /\ option'[p] = option[p] /\ row'[p] = row[p] /\ todo'[p] = todo[p]
        /\ failed'[p] = failed[p] /\ exit'[p] = exit[p]
        /\ pc'[p] = "bump" /\ todo[p] # <<>>
    BY <1>4 DEF Upsert, Go, RunInv, Running
  <2>2. Doc(p) \in Docs
    BY <2>1, TailElements DEF Doc
  <2>3. todo'[p][1] \in Indexed'
    BY ZenonT(40), <1>4, <2>1, <2>2 DEF Upsert, Indexed, Doc, Points
  <2>4. QED BY <1>1, <1>2, <1>4, <2>1, <2>3, OthersKeep DEF Upsert, Go
<1>5. CASE Bump(p)
  <2>1. /\ left'[p] = left[p] /\ option'[p] = option[p]
        /\ row'[p].of = row[p].of /\ row'[p].status = row[p].status
        /\ failed'[p] = failed[p] /\ exit'[p] = exit[p]
        /\ pc'[p] = "next" /\ todo[p] # <<>> /\ todo'[p] = Tail(todo[p]) /\ Doc(p) \in Indexed
    BY <1>5 DEF Bump, Go, RunInv, Running
  <2>2. Elements(todo[p]) \subseteq Elements(todo'[p]) \cup {Doc(p)}
    BY <2>1, TailElements DEF Doc
  <2>3. WithText(Elements(row[p].of)) \ Elements(todo'[p]) \subseteq Indexed
    BY <1>2, <2>1, <2>2 DEF WithText
  <2>4. QED BY <1>1, <1>2, <1>5, <2>1, <2>3, OthersKeep DEF Bump, Go
<1>6. CASE Raises(p)
  <2>1. /\ left'[p] = left[p] /\ option'[p] = option[p] /\ row'[p] = row[p] /\ todo'[p] = todo[p]
        /\ failed'[p] = failed[p] /\ exit'[p] = exit[p] /\ pc'[p] = "fail"
    BY <1>6 DEF Raises, ReadRaises, UpsertRaises, BumpRaises, Go
  <2>2. \A q \in Procs \ {p} : pc'[q] = pc[q]
    BY <1>6 DEF Raises, ReadRaises, UpsertRaises, BumpRaises, Go
  <2>3. QED BY <1>1, <1>2, <1>6, <2>1, <2>2, OthersKeep DEF Raises
<1>7. CASE Finish(p)
  <2>1. /\ left'[p] = Tail(left[p]) /\ option'[p] = option[p] /\ row'[p].of = row[p].of
        /\ failed'[p] = failed[p] /\ exit'[p] = exit[p] /\ pc'[p] = "source"
        /\ todo[p] = <<>>
    BY <1>7 DEF Finish, Ended, Go
  <2>2. WithText(Elements(row[p].of)) \subseteq Indexed
    BY <1>2, <2>1, EmptyElements
  <2>3. Elements(left[p]) \subseteq Elements(left'[p]) \cup {left[p][1]}
    BY <1>2, <2>1, TailElements
  <2>4. ~failed'[p] => \A s \in Elements(Selected(option'[p])) \ Elements(left'[p]) :
                         WithText(Elements(DocsOf(option'[p], s))) \subseteq Indexed'
    BY <1>1, <1>2, <2>1, <2>2, <2>3
  <2>5. QED BY <1>1, <1>2, <1>7, <2>1, <2>2, <2>4, OthersKeep DEF Finish, Ended, Go, Running
<1>8. CASE Fail(p)
  <2>1. /\ option'[p] = option[p] /\ row'[p].status = "failed"
        /\ failed'[p] /\ exit'[p] = exit[p] /\ pc'[p] = "source"
    BY <1>8 DEF Fail, Ended, Go
  <2>2. QED BY <1>1, <1>2, <1>8, <2>1, OthersKeep DEF Fail, Ended, Go, Running
<1>9. QED BY <1>3, <1>4, <1>5, <1>6, <1>7, <1>8

\* What a heartbeat reads changes nothing.
LEMMA StutterStep ==
  ASSUME IngestInv, UNCHANGED vars PROVE IngestInv'
BY DEF vars, IngestInv, TypeOK, RunInv, CommandInv, SuccessMeansIndexed, Done, Current, Doc, Indexed

LEMMA NextStep ==
  ASSUME IngestInv, [Next]_allVars PROVE IngestInv'
<1>1. CASE UNCHANGED vars
  BY <1>1, StutterStep
<1>2. CASE IngestNext
  <2>1. PICK p \in Procs : Step(p) \/ Trouble(p) \/ \E o \in Options : Begin(p, o)
    BY <1>2 DEF IngestNext
  <2>2. CASE (\E o \in Options : Begin(p, o)) \/ List(p) \/ Create(p) \/ Fit(p) \/ InsertRow(p) \/ Exit(p) \/ Dies(p)
    BY <2>2, CommandTypes, CommandSteps DEF IngestInv
  <2>3. CASE NextDoc(p) \/ Upsert(p) \/ Bump(p) \/ Finish(p) \/ Fail(p) \/ Raises(p)
    BY <2>3, RunTypes, RunSteps DEF IngestInv
  <2>4. QED BY <2>1, <2>2, <2>3 DEF Step, Trouble
<1>3. QED BY <1>1, <1>2 DEF Next, allVars

-----------------------------------------------------------------------------
(* The theorems.                                                           *)

\* For any commands, sources, documents, command lines and number of faults: what
\* a run or a command claims of the store is so (firm/rag/ingest.py, cli.ingest).
THEOREM IngestInvariant == Spec => []IngestInv
<1>1. RetrievalInit => IngestInv
  BY InitInv DEF RetrievalInit
<1>2. IngestInv /\ [Next]_allVars => IngestInv'
  BY NextStep
<1>3. QED BY <1>1, <1>2, PTL DEF Spec

\* The store, the tables and the commands keep their types.
THEOREM TypeCorrect == Spec => []TypeOK
<1>1. IngestInv => TypeOK
  BY DEF IngestInv
<1>2. QED BY <1>1, IngestInvariant, PTL

\* A completed row and a zero exit tell the truth, whatever failed or died before,
\* and whatever the other commands do meanwhile.
THEOREM SuccessIsTrue == Spec => []SuccessMeansIndexed
<1>1. IngestInv => SuccessMeansIndexed
  BY DEF IngestInv
<1>2. QED BY <1>1, IngestInvariant, PTL

-----------------------------------------------------------------------------
(* Progress.                                                               *)

\* How much of its list a run has seen, the documents of it that the store has
\* but for the one the run is about to put there, and the places seen of those
\* without text.
Seen(p) == Len(row[p].of) - Len(todo[p])
Stored(p) ==
  (Elements(row[p].of) \cap Indexed) \ (IF pc[p] = "upsert" THEN {Doc(p)} ELSE {})
Blank(p) == {i \in 1..Seen(p) : row[p].of[i] \in Empty}

\* What is left is the end of the list, and what was counted is stored or blank.
CountInv ==
  \A p \in Procs : pc[p] \in Running =>
    /\ Len(todo[p]) <= Len(row[p].of)
    /\ \A i \in 1..Len(todo[p]) : todo[p][i] = row[p].of[Seen(p) + i]
    /\ row[p].docs <= count[p]
    /\ count[p] <= Cardinality(Stored(p)) + Cardinality(Blank(p))

\* What is in a finite set is finite, and no more.
LEMMA Smaller ==
  ASSUME NEW S, IsFiniteSet(S), NEW T, T \subseteq S
  PROVE  IsFiniteSet(T) /\ Cardinality(T) \in Nat /\ Cardinality(S) \in Nat /\ Cardinality(T) <= Cardinality(S)
BY FS_Subset, FS_CardinalityType

\* The documents of a list are finitely many, and so are its first places.
LEMMA FiniteParts ==
  ASSUME NEW of \in Seq(Docs), NEW n \in Nat
  PROVE  /\ IsFiniteSet(Elements(of))
         /\ IsFiniteSet(1..n)
<1>1. Elements(of) \subseteq Docs
  BY DEF Elements
<1>2. IsFiniteSet(Elements(of))
  BY <1>1, Smaller, DocsAssumption
<1>3. QED BY <1>2, FS_Interval

\* A new element of a finite set counts one.
LEMMA OneMore ==
  ASSUME NEW S, IsFiniteSet(S), NEW x \in S, NEW T, T \subseteq S \ {x}
  PROVE  Cardinality(T) \in Nat /\ Cardinality(S) \in Nat /\ Cardinality(T) + 1 <= Cardinality(S)
<1>1. IsFiniteSet(T) /\ Cardinality(T) \in Nat
  BY Smaller
<1>2. Cardinality(T \cup {x}) = Cardinality(T) + 1
  BY <1>1, FS_AddElement
<1>3. QED BY <1>1, <1>2, Smaller

\* The end of a list, and what comes after its head.
LEMMA EndOf ==
  ASSUME NEW of \in Seq(Docs), NEW s \in Seq(Docs), s # <<>>,
         NEW n \in Nat, n + Len(s) = Len(of), \A i \in 1..Len(s) : s[i] = of[n + i]
  PROVE  /\ n + 1 \in 1..Len(of) /\ s[1] = of[n + 1]
         /\ Tail(s) \in Seq(Docs) /\ Len(Tail(s)) <= Len(of) /\ Len(of) - Len(Tail(s)) = n + 1
         /\ \A i \in 1..Len(Tail(s)) : Tail(s)[i] = of[(Len(of) - Len(Tail(s))) + i]
<1>1. /\ Len(s) \in Nat \ {0} /\ Len(of) \in Nat /\ Tail(s) \in Seq(Docs)
      /\ Len(Tail(s)) = Len(s) - 1
      /\ \A i \in 1..Len(Tail(s)) : Tail(s)[i] = s[i + 1]
  OBVIOUS
<1>2. ASSUME NEW i \in 1..Len(Tail(s)) PROVE Tail(s)[i] = of[(n + 1) + i]
  <2>1. i + 1 \in 1..Len(s) /\ i \in Nat BY <1>1
  <2>2. s[i + 1] = of[n + (i + 1)] BY <2>1
  <2>3. n + (i + 1) = (n + 1) + i BY <2>1
  <2>4. QED BY <1>1, <2>2, <2>3
<1>3. Len(of) - Len(Tail(s)) = n + 1 /\ Len(Tail(s)) <= Len(of) /\ n + 1 \in 1..Len(of)
  BY <1>1
<1>4. 1 \in 1..Len(s) BY <1>1
<1>5. QED BY <1>1, <1>2, <1>3, <1>4

\* What the invariants say of a command that runs.
LEMMA CountOf ==
  ASSUME IngestInv, CountInv, NEW p \in Procs, pc[p] \in Running
  PROVE  /\ row[p].of \in Seq(Docs) /\ todo[p] \in Seq(Docs) /\ count[p] \in Nat /\ row[p].docs \in Nat
         /\ Len(row[p].of) \in Nat /\ Len(todo[p]) \in Nat /\ Len(todo[p]) <= Len(row[p].of)
         /\ Seen(p) \in Nat /\ Seen(p) + Len(todo[p]) = Len(row[p].of)
         /\ \A i \in 1..Len(todo[p]) : todo[p][i] = row[p].of[Seen(p) + i]
         /\ row[p].docs <= count[p]
         /\ count[p] <= Cardinality(Stored(p)) + Cardinality(Blank(p))
         /\ IsFiniteSet(Stored(p)) /\ Cardinality(Stored(p)) \in Nat
         /\ IsFiniteSet(Blank(p)) /\ Cardinality(Blank(p)) \in Nat
         /\ todo[p] # <<>> =>
              /\ Seen(p) + 1 \in 1..Len(row[p].of) /\ todo[p][1] = row[p].of[Seen(p) + 1]
              /\ Len(Tail(todo[p])) <= Len(row[p].of)
              /\ Len(row[p].of) - Len(Tail(todo[p])) = Seen(p) + 1
              /\ \A i \in 1..Len(Tail(todo[p])) :
                   Tail(todo[p])[i] = row[p].of[(Len(row[p].of) - Len(Tail(todo[p]))) + i]
         /\ \A i \in 1..Len(todo[p]) : todo[p][i] = row[p].of[(Len(row[p].of) - Len(todo[p])) + i]
<1>1. row[p].of \in Seq(Docs) /\ todo[p] \in Seq(Docs) /\ count[p] \in Nat /\ row[p].docs \in Nat
  BY DEF IngestInv, TypeOK
<1>2. Len(row[p].of) \in Nat /\ Len(todo[p]) \in Nat
  BY <1>1
<1>3. /\ Len(todo[p]) <= Len(row[p].of)
      /\ \A i \in 1..Len(todo[p]) : todo[p][i] = row[p].of[Seen(p) + i]
      /\ row[p].docs <= count[p]
      /\ count[p] <= Cardinality(Stored(p)) + Cardinality(Blank(p))
  BY DEF CountInv
<1>4. Seen(p) \in Nat /\ Seen(p) + Len(todo[p]) = Len(row[p].of)
  BY <1>2, <1>3 DEF Seen
<1>5. IsFiniteSet(Stored(p))
  BY <1>1, FiniteParts, Smaller DEF Stored
<1>6. IsFiniteSet(1..Seen(p))
  BY <1>4, FS_Interval
<1>7. IsFiniteSet(Blank(p))
  BY <1>6, Smaller DEF Blank
<1>8. ASSUME todo[p] # <<>>
      PROVE  /\ Seen(p) + 1 \in 1..Len(row[p].of) /\ todo[p][1] = row[p].of[Seen(p) + 1]
             /\ Len(Tail(todo[p])) <= Len(row[p].of)
             /\ Len(row[p].of) - Len(Tail(todo[p])) = Seen(p) + 1
             /\ \A i \in 1..Len(Tail(todo[p])) :
                  Tail(todo[p])[i] = row[p].of[(Len(row[p].of) - Len(Tail(todo[p]))) + i]
  <2> DEFINE of == row[p].of  s == todo[p]  n == Seen(p)
  <2>1. /\ of \in Seq(Docs) /\ s \in Seq(Docs) /\ n \in Nat /\ n + Len(s) = Len(of) /\ s # <<>>
        /\ \A i \in 1..Len(s) : s[i] = of[n + i]
    BY <1>1, <1>3, <1>4, <1>8
  <2> HIDE DEF of, s, n
  <2>2. /\ n + 1 \in 1..Len(of) /\ s[1] = of[n + 1]
        /\ Len(Tail(s)) <= Len(of) /\ Len(of) - Len(Tail(s)) = n + 1
        /\ \A i \in 1..Len(Tail(s)) : Tail(s)[i] = of[(Len(of) - Len(Tail(s))) + i]
    BY <2>1, EndOf
  <2>3. QED BY <2>2 DEF of, s, n
<1>9. \A i \in 1..Len(todo[p]) : todo[p][i] = row[p].of[(Len(row[p].of) - Len(todo[p])) + i]
  BY <1>3 DEF Seen
<1>10. QED BY <1>1, <1>2, <1>3, <1>4, <1>5, <1>7, <1>8, <1>9, FS_CardinalityType

\* What is left to see, and what was counted, of a command's next state; the
\* definitions above with the primes written out.
LEMMA CountOthers ==
  ASSUME IngestInv, IngestInv', CountInv, NEW p \in Procs, Indexed \subseteq Indexed',
         \A q \in Procs \ {p} :
           pc'[q] = pc[q] /\ todo'[q] = todo[q] /\ row'[q] = row[q] /\ count'[q] = count[q],
         pc'[p] \in Running =>
           /\ Len(todo'[p]) <= Len(row'[p].of)
           /\ \A i \in 1..Len(todo'[p]) : todo'[p][i] = row'[p].of[(Len(row'[p].of) - Len(todo'[p])) + i]
           /\ row'[p].docs <= count'[p]
           /\ count'[p] <= Cardinality(Stored(p)') + Cardinality(Blank(p)')
  PROVE  CountInv'
<1> SUFFICES ASSUME NEW q \in Procs, pc'[q] \in Running
             PROVE  /\ Len(todo'[q]) <= Len(row'[q].of)
                    /\ \A i \in 1..Len(todo'[q]) : todo'[q][i] = row'[q].of[(Len(row'[q].of) - Len(todo'[q])) + i]
                    /\ row'[q].docs <= count'[q]
                    /\ count'[q] <= Cardinality(Stored(q)') + Cardinality(Blank(q)')
  BY DEF CountInv, Seen
<1>1. CASE q = p BY <1>1
<1>2. CASE q # p
  <2>1. Blank(q)' = Blank(q) /\ Stored(q) \subseteq Stored(q)'
    BY <1>2 DEF Blank, Stored, Seen, Doc
  <2>2. IsFiniteSet(Stored(q)')
    <3>1. row'[q].of \in Seq(Docs) BY DEF IngestInv, TypeOK
    <3>2. QED BY <3>1, FiniteParts, Smaller DEF Stored
  <2>3. Cardinality(Stored(q)) <= Cardinality(Stored(q)') /\ Cardinality(Stored(q)') \in Nat
    BY <2>1, <2>2, Smaller
  <2>4. pc[q] \in Running BY <1>2
  <2>5. /\ count[q] <= Cardinality(Stored(q)) + Cardinality(Blank(q))
        /\ count[q] \in Nat /\ Cardinality(Stored(q)) \in Nat /\ Cardinality(Blank(q)) \in Nat
        /\ Len(todo[q]) <= Len(row[q].of) /\ row[q].docs <= count[q]
    BY <2>4, CountOf
  <2>6. count[q] <= Cardinality(Stored(q)') + Cardinality(Blank(q)')
    BY <2>1, <2>3, <2>5
  <2>7. \A i \in 1..Len(todo[q]) : todo[q][i] = row[q].of[(Len(row[q].of) - Len(todo[q])) + i]
    BY <2>4, CountOf
  <2>8. todo'[q] = todo[q] /\ row'[q] = row[q] /\ count'[q] = count[q]
    BY <1>2
  <2>9. QED BY <2>5, <2>6, <2>7, <2>8
<1>3. QED BY <1>1, <1>2

\* The steps of a run, for the mover.
LEMMA RunCounts ==
  ASSUME IngestInv, IngestInv', CountInv, NEW p \in Procs, Indexed \subseteq Indexed',
         NextDoc(p) \/ Upsert(p) \/ Bump(p) \/ Raises(p)
  PROVE  CountInv'
<1>1. pc[p] \in Running
  BY DEF NextDoc, Upsert, Bump, Raises, ReadRaises, UpsertRaises, BumpRaises, Go, Running
<1>2. /\ row[p].of \in Seq(Docs) /\ todo[p] \in Seq(Docs)
      /\ count[p] \in Nat /\ row[p].docs \in Nat
      /\ Len(row[p].of) \in Nat /\ Len(todo[p]) \in Nat
  BY <1>1, CountOf
<1>3. /\ Len(todo[p]) <= Len(row[p].of)
      /\ \A i \in 1..Len(todo[p]) : todo[p][i] = row[p].of[Seen(p) + i]
      /\ row[p].docs <= count[p]
      /\ count[p] <= Cardinality(Stored(p)) + Cardinality(Blank(p))
      /\ Seen(p) \in Nat /\ Seen(p) + Len(todo[p]) = Len(row[p].of)
  BY <1>1, CountOf
<1>4. /\ IsFiniteSet(Stored(p)') /\ IsFiniteSet(Stored(p)) /\ IsFiniteSet(Blank(p))
      /\ Cardinality(Blank(p)) \in Nat /\ Cardinality(Stored(p)) \in Nat
      /\ Cardinality(Stored(p)') \in Nat
  <2>1. row'[p].of \in Seq(Docs) BY DEF IngestInv, TypeOK
  <2>2. IsFiniteSet(Stored(p)') BY <2>1, FiniteParts, Smaller DEF Stored
  <2>3. QED BY <1>1, <2>2, CountOf, FS_CardinalityType
<1>5. CASE NextDoc(p)
  <2>1. /\ todo[p] # <<>> /\ row'[p] = row[p] /\ pc[p] = "next"
        /\ \A q \in Procs \ {p} :
             pc'[q] = pc[q] /\ todo'[q] = todo[q] /\ row'[q] = row[q] /\ count'[q] = count[q]
    BY <1>5 DEF NextDoc, Go, IngestInv, TypeOK
  <2>2. CASE Doc(p) \in Indexed \cup Empty
    <3>1. todo'[p] = Tail(todo[p]) /\ pc'[p] = "next" BY <1>5, <2>2 DEF NextDoc, Go, IngestInv, TypeOK
    <3>2. Seen(p)' = Seen(p) + 1 /\ todo[p][1] = row[p].of[Seen(p) + 1] /\ Len(todo'[p]) <= Len(row'[p].of)
      BY <1>1, <2>1, <3>1, CountOf DEF Seen
    <3>3. \A i \in 1..Len(todo'[p]) : todo'[p][i] = row'[p].of[(Len(row'[p].of) - Len(todo'[p])) + i]
      BY <1>1, <2>1, <3>1, CountOf
    <3>4. Stored(p) \subseteq Stored(p)' /\ Cardinality(Stored(p)) <= Cardinality(Stored(p)')
      <4>1. Stored(p) \subseteq Stored(p)' BY <2>1, <3>1 DEF Stored
      <4>2. QED BY <4>1, <1>4, Smaller
    <3>5. Blank(p) \subseteq Blank(p)' /\ IsFiniteSet(Blank(p)')
      <4>1. Blank(p) \subseteq Blank(p)' BY <1>3, <2>1, <3>2 DEF Blank
      <4>2. Seen(p)' \in Int BY <1>3, <3>2
      <4>3. IsFiniteSet(1..Seen(p)') BY <4>2, FS_Interval
      <4>4. QED BY <4>1, <4>3, Smaller DEF Blank
    <3>6. count'[p] <= Cardinality(Stored(p)') + Cardinality(Blank(p)') /\ count'[p] >= count[p]
      <4>1. CASE Doc(p) \in Indexed
        <5>1. count'[p] = count[p] BY <1>5, <4>1 DEF NextDoc, IngestInv, TypeOK
        <5>2. Cardinality(Blank(p)) <= Cardinality(Blank(p)') /\ Cardinality(Blank(p)') \in Nat
          BY <3>5, Smaller
        <5>3. QED BY <1>2, <1>3, <1>4, <3>4, <5>1, <5>2
      <4>2. CASE Doc(p) \notin Indexed
        <5>1. count'[p] = count[p] + 1 BY <1>5, <2>2, <4>2 DEF NextDoc, IngestInv, TypeOK
        <5>2. Seen(p) + 1 \in Blank(p)' BY <1>3, <2>1, <2>2, <3>2, <4>2 DEF Blank, Doc
        <5>3. Seen(p) + 1 \notin Blank(p) BY <1>3 DEF Blank
        <5>4. Cardinality(Blank(p)) + 1 <= Cardinality(Blank(p)') /\ Cardinality(Blank(p)') \in Nat
          BY <3>5, <5>2, <5>3, OneMore
        <5>5. QED BY <1>2, <1>3, <1>4, <3>4, <5>1, <5>4
      <4>3. QED BY <4>1, <4>2
    <3>7. row'[p].docs <= count'[p]
      <4>1. count'[p] \in Nat BY DEF IngestInv, TypeOK
      <4>2. QED BY <1>2, <1>3, <2>1, <3>6, <4>1
    <3>8. QED BY <2>1, <3>2, <3>3, <3>6, <3>7, CountOthers
  <2>3. CASE Doc(p) \notin Indexed \cup Empty
    <3>1. todo'[p] = todo[p] /\ pc'[p] = "upsert" /\ count'[p] = count[p] /\ store' = store
      BY <1>5, <2>3 DEF NextDoc, Go, IngestInv, TypeOK, storeVars
    <3>2. Stored(p)' = Stored(p) /\ Blank(p)' = Blank(p)
      BY <2>1, <2>3, <3>1 DEF Stored, Blank, Seen, Doc, Indexed
    <3>3. \A i \in 1..Len(todo'[p]) : todo'[p][i] = row'[p].of[(Len(row'[p].of) - Len(todo'[p])) + i]
      BY <1>1, <2>1, <3>1, CountOf
    <3>4. Len(todo'[p]) <= Len(row'[p].of) /\ row'[p].docs <= count'[p]
          /\ count'[p] <= Cardinality(Stored(p)') + Cardinality(Blank(p)')
      BY <1>3, <2>1, <3>1, <3>2
    <3>5. QED BY <2>1, <3>3, <3>4, CountOthers
  <2>4. QED BY <2>2, <2>3
<1>6. CASE Upsert(p)
  <2>1. /\ todo' = todo /\ row' = row /\ pc[p] = "upsert" /\ pc'[p] = "bump"
        /\ count'[p] = count[p] + 1
        /\ \A q \in Procs \ {p} : pc'[q] = pc[q] /\ count'[q] = count[q]
    BY <1>6 DEF Upsert, Go, IngestInv, TypeOK
  <2>2. todo[p] # <<>> /\ Doc(p) \in Indexed'
    BY <2>1 DEF IngestInv, RunInv, Running, Doc
  <2>3. Doc(p) \in Elements(row[p].of)
    <3>1. Seen(p) + 1 \in 1..Len(row[p].of) /\ todo[p][1] = row[p].of[Seen(p) + 1]
      BY <1>1, <2>2, CountOf
    <3>2. QED BY <3>1 DEF Elements, Doc
  <2>4. Doc(p) \in Stored(p)' /\ Stored(p) \subseteq Stored(p)' \ {Doc(p)}
    BY <2>1, <2>2, <2>3 DEF Stored, Doc
  <2>5. Cardinality(Stored(p)) + 1 <= Cardinality(Stored(p)')
    BY <1>4, <2>4, OneMore
  <2>6. Blank(p)' = Blank(p)
    BY <2>1 DEF Blank, Seen
  <2>7. count'[p] <= Cardinality(Stored(p)') + Cardinality(Blank(p)')
    BY <1>2, <1>3, <1>4, <2>1, <2>5, <2>6
  <2>8. row'[p].docs <= count'[p]
    BY <1>2, <1>3, <2>1
  <2>9. \A i \in 1..Len(todo[p]) : todo[p][i] = row[p].of[(Len(row[p].of) - Len(todo[p])) + i]
    BY <1>1, CountOf
  <2>10. QED BY <1>3, <2>1, <2>7, <2>8, <2>9, CountOthers
<1>7. CASE Bump(p)
  <2>1. /\ todo[p] # <<>> /\ todo'[p] = Tail(todo[p]) /\ count' = count /\ store' = store
        /\ row'[p].of = row[p].of /\ row'[p].docs = count[p]
        /\ pc[p] = "bump" /\ pc'[p] = "next"
        /\ \A q \in Procs \ {p} : pc'[q] = pc[q] /\ todo'[q] = todo[q] /\ row'[q] = row[q]
    BY <1>7, <1>1 DEF Bump, Go, IngestInv, TypeOK, RunInv, storeVars
  <2>2. Seen(p)' = Seen(p) + 1 /\ Len(todo'[p]) <= Len(row'[p].of)
    BY <1>1, <2>1, CountOf DEF Seen
  <2>3. \A i \in 1..Len(todo'[p]) : todo'[p][i] = row'[p].of[(Len(row'[p].of) - Len(todo'[p])) + i]
    BY <1>1, <2>1, CountOf
  <2>4. Stored(p)' = Stored(p)
    BY <2>1 DEF Stored, Indexed
  <2>5. Blank(p) \subseteq Blank(p)'
    BY <1>3, <2>1, <2>2 DEF Blank
  <2>6. IsFiniteSet(1..Seen(p)')
    <3>1. Seen(p)' \in Int BY <1>3, <2>2
    <3>2. QED BY <3>1, FS_Interval
  <2>7. Cardinality(Blank(p)) <= Cardinality(Blank(p)') /\ Cardinality(Blank(p)') \in Nat
    BY <2>5, <2>6, Smaller DEF Blank
  <2>8. count'[p] <= Cardinality(Stored(p)') + Cardinality(Blank(p)')
    BY <1>2, <1>3, <1>4, <2>1, <2>4, <2>7
  <2>9. row'[p].docs <= count'[p]
    BY <1>2, <2>1
  <2>10. QED BY <2>1, <2>2, <2>3, <2>8, <2>9, CountOthers
<1>8. CASE Raises(p)
  <2>1. /\ todo' = todo /\ row' = row /\ count' = count /\ pc'[p] = "fail"
        /\ \A q \in Procs \ {p} : pc'[q] = pc[q]
    BY <1>8 DEF Raises, ReadRaises, UpsertRaises, BumpRaises, Go, IngestInv, TypeOK
  <2>2. Stored(p) \subseteq Stored(p)' /\ Blank(p)' = Blank(p)
    BY <2>1 DEF Stored, Blank, Seen
  <2>3. Cardinality(Stored(p)) <= Cardinality(Stored(p)')
    BY <1>4, <2>2, Smaller
  <2>4. count'[p] <= Cardinality(Stored(p)') + Cardinality(Blank(p)')
    BY <1>2, <1>3, <1>4, <2>1, <2>2, <2>3
  <2>5. \A i \in 1..Len(todo[p]) : todo[p][i] = row[p].of[(Len(row[p].of) - Len(todo[p])) + i]
    BY <1>1, CountOf
  <2>6. QED BY <1>3, <2>1, <2>4, <2>5, CountOthers
<1>9. QED BY <1>5, <1>6, <1>7, <1>8

\* The command's steps: no run is under way before them, or after them, or the
\* list of a new one is all there is.
LEMMA CommandCounts ==
  ASSUME IngestInv, IngestInv', CountInv, NEW p \in Procs, Indexed \subseteq Indexed',
         (\E o \in Options : Begin(p, o)) \/ List(p) \/ Create(p) \/ Fit(p) \/ InsertRow(p) \/ Exit(p)
         \/ Dies(p) \/ Finish(p) \/ Fail(p)
  PROVE  CountInv'
<1>1. CASE ~InsertRow(p)
  <2>1. pc'[p] \notin Running
    BY <1>1 DEF Begin, List, Create, Fit, Exit, Dies, Ends, Finish, Fail, Ended, Go, Running, IngestInv, TypeOK
  <2>2. \A q \in Procs \ {p} :
          pc'[q] = pc[q] /\ todo'[q] = todo[q] /\ row'[q] = row[q] /\ count'[q] = count[q]
    BY ZenonT(40), <1>1 DEF Begin, List, Create, Fit, Exit, Dies, Ends, Finish, Fail, Ended, Go, IngestInv, TypeOK
  <2>3. QED BY <2>1, <2>2, CountOthers
<1>2. CASE InsertRow(p)
  <2>1. /\ row'[p].docs = 0 /\ count'[p] = 0 /\ todo'[p] = row'[p].of
        /\ \A q \in Procs \ {p} :
             pc'[q] = pc[q] /\ todo'[q] = todo[q] /\ row'[q] = row[q] /\ count'[q] = count[q]
    BY <1>2 DEF InsertRow, Go, IngestInv, TypeOK
  <2>2. todo'[p] \in Seq(Docs) /\ row'[p].of \in Seq(Docs)
    BY DEF IngestInv, TypeOK
  <2>3. Len(todo'[p]) \in Nat /\ Len(row'[p].of) = Len(todo'[p])
    BY <2>1, <2>2
  <2>4. \A i \in 1..Len(todo'[p]) : todo'[p][i] = row'[p].of[(Len(row'[p].of) - Len(todo'[p])) + i]
    BY <2>1, <2>3
  <2>5. /\ Cardinality(Stored(p)') \in Nat /\ Cardinality(Blank(p)') \in Nat
    <3>1. IsFiniteSet(Stored(p)') BY <2>2, FiniteParts, Smaller DEF Stored
    <3>2. IsFiniteSet(1..Seen(p)')
      <4>1. Seen(p)' \in Int BY <2>3 DEF Seen
      <4>2. QED BY <4>1, FS_Interval
    <3>3. IsFiniteSet(Blank(p)') BY <3>2, Smaller DEF Blank
    <3>4. QED BY <3>1, <3>3, FS_CardinalityType
  <2>6. count'[p] <= Cardinality(Stored(p)') + Cardinality(Blank(p)') /\ row'[p].docs <= count'[p]
        /\ Len(todo'[p]) <= Len(row'[p].of)
    BY <2>1, <2>3, <2>5
  <2>7. QED BY <2>1, <2>4, <2>6, CountOthers
<1>3. QED BY <1>1, <1>2

LEMMA CountStep ==
  ASSUME IngestInv, IngestInv', CountInv, [Next]_allVars
  PROVE  CountInv' /\ Indexed \subseteq Indexed'
<1>1. CASE UNCHANGED vars
  BY <1>1 DEF vars, CountInv, Seen, Stored, Blank, Doc, Indexed
<1>2. CASE IngestNext
  <2>1. PICK p \in Procs : Step(p) \/ Trouble(p) \/ \E o \in Options : Begin(p, o)
    BY <1>2 DEF IngestNext
  <2>2. Indexed \subseteq Indexed'
    <3>1. CASE \E o \in Options : Begin(p, o) BY <3>1 DEF Begin, storeVars, Indexed
    <3>2. CASE Step(p) \/ Trouble(p) BY <3>2, StoreGrows DEF IngestInv
    <3>3. QED BY <2>1, <3>1, <3>2
  <2>3. CASE (\E o \in Options : Begin(p, o)) \/ List(p) \/ Create(p) \/ Fit(p) \/ InsertRow(p) \/ Exit(p)
             \/ Dies(p) \/ Finish(p) \/ Fail(p)
    BY <2>2, <2>3, CommandCounts
  <2>4. CASE NextDoc(p) \/ Upsert(p) \/ Bump(p) \/ Raises(p)
    BY <2>2, <2>4, RunCounts
  <2>5. QED BY <2>1, <2>2, <2>3, <2>4 DEF Step, Trouble
<1>3. QED BY <1>1, <1>2 DEF Next, allVars

\* A row written is one the invariant bounds, and its bound only grows.
LEMMA RowStep ==
  ASSUME IngestInv, IngestInv', CountInv, CountInv', RowNeverOverclaims, [Next]_allVars
  PROVE  RowNeverOverclaims'
<1> DEFINE blank(of) == {i \in DOMAIN of : of[i] \in Empty}
<1>1. Indexed \subseteq Indexed'
  BY CountStep
<1>2. ASSUME NEW of \in Seq(Docs)
      PROVE  /\ IsFiniteSet(Elements(of)) /\ IsFiniteSet(blank(of))
             /\ Cardinality(blank(of)) \in Nat
  <2>1. blank(of) \subseteq 1..Len(of) /\ Len(of) \in Nat OBVIOUS
  <2>2. QED BY <2>1, FiniteParts, Smaller
<1> SUFFICES ASSUME NEW p \in Procs
             PROVE  row'[p].docs <= Cardinality(Elements(row'[p].of) \cap Indexed') + Cardinality(blank(row'[p].of))
  BY DEF RowNeverOverclaims
<1>3. row'[p].of \in Seq(Docs) /\ row'[p].docs \in Nat /\ row[p].of \in Seq(Docs) /\ row[p].docs \in Nat
      /\ count[p] \in Nat /\ count'[p] \in Nat
  BY DEF IngestInv, TypeOK
<1>4. IsFiniteSet(Elements(row'[p].of) \cap Indexed') /\ Cardinality(Elements(row'[p].of) \cap Indexed') \in Nat
  <2>1. IsFiniteSet(Elements(row'[p].of)) BY <1>2, <1>3
  <2>2. QED BY <2>1, Smaller
<1> HIDE DEF blank
<1>5. CASE row'[p] = row[p]
  <2>1. row[p].docs <= Cardinality(Elements(row[p].of) \cap Indexed) + Cardinality(blank(row[p].of))
    BY DEF RowNeverOverclaims, blank
  <2>2. Elements(row[p].of) \cap Indexed \subseteq Elements(row'[p].of) \cap Indexed'
    BY <1>1, <1>5
  <2>3. Cardinality(Elements(row[p].of) \cap Indexed) <= Cardinality(Elements(row'[p].of) \cap Indexed')
        /\ Cardinality(Elements(row[p].of) \cap Indexed) \in Nat
    BY <1>4, <2>2, Smaller
  <2>4. Cardinality(blank(row[p].of)) \in Nat BY <1>2, <1>3
  <2>5. QED BY <1>3, <1>4, <1>5, <2>1, <2>3, <2>4
<1>6. CASE pc[p] \in Running /\ row'[p].of = row[p].of /\ row'[p].docs = count[p]
  <2>1. /\ count[p] <= Cardinality(Stored(p)) + Cardinality(Blank(p))
        /\ Cardinality(Stored(p)) \in Nat /\ Cardinality(Blank(p)) \in Nat
        /\ Seen(p) \in Nat /\ Seen(p) + Len(todo[p]) = Len(row[p].of)
        /\ Len(todo[p]) \in Nat /\ Len(row[p].of) \in Nat
    BY <1>6, CountOf
  <2>2. Stored(p) \subseteq Elements(row'[p].of) \cap Indexed'
    BY <1>1, <1>6 DEF Stored
  <2>3. Blank(p) \subseteq blank(row'[p].of)
    <3>1. 1..Seen(p) \subseteq DOMAIN row[p].of BY <1>3, <2>1
    <3>2. QED BY <1>6, <3>1 DEF Blank, blank
  <2>4. Cardinality(Stored(p)) <= Cardinality(Elements(row'[p].of) \cap Indexed')
    BY <1>4, <2>2, Smaller
  <2>5. Cardinality(Blank(p)) <= Cardinality(blank(row'[p].of)) /\ Cardinality(blank(row'[p].of)) \in Nat
    <3>1. IsFiniteSet(blank(row'[p].of)) BY <1>2, <1>3
    <3>2. QED BY <2>3, <3>1, Smaller
  <2>6. QED BY <1>3, <1>4, <1>6, <2>1, <2>4, <2>5
<1>7. CASE row'[p].docs = 0
  <2>1. Cardinality(blank(row'[p].of)) \in Nat BY <1>2, <1>3
  <2>2. QED BY <1>4, <1>7, <2>1
<1>8. row'[p] = row[p] \/ row'[p].docs = 0
      \/ (pc[p] \in Running /\ row'[p].of = row[p].of /\ row'[p].docs = count[p])
  <2>1. CASE UNCHANGED vars BY <2>1 DEF vars
  <2>2. CASE IngestNext
    <3>1. PICK q \in Procs : Step(q) \/ Trouble(q) \/ \E o \in Options : Begin(q, o)
      BY <2>2 DEF IngestNext
    <3>2. CASE (\E o \in Options : Begin(q, o)) \/ InsertRow(q)
      <4>1. PICK r : r.docs = 0 /\ row' = [row EXCEPT ![q] = r]
        BY <3>2 DEF Begin, InsertRow, NoRow
      <4>2. row \in [Procs -> [status: Statuses, of: Seq(Docs), docs: Nat]] BY DEF IngestInv, TypeOK
      <4>3. QED BY <4>1, <4>2
    <3>3. CASE Bump(q) \/ Finish(q) \/ Fail(q)
      <4>1. pc[q] \in Running
        BY <3>3 DEF Bump, Finish, Fail, Ended, Go, Running
      <4>2. row' = [row EXCEPT ![q].docs = count[q]]
            \/ \E status : row' = [row EXCEPT ![q].status = status, ![q].docs = count[q]]
        BY <3>3 DEF Bump, Finish, Fail, Ended
      <4>3. row \in [Procs -> [status: Statuses, of: Seq(Docs), docs: Nat]] BY DEF IngestInv, TypeOK
      <4>4. CASE q # p BY <4>2, <4>3, <4>4
      <4>5. CASE q = p
        <5>1. row'[p].of = row[p].of /\ row'[p].docs = count[p] BY ZenonT(40), <4>2, <4>3, <4>5
        <5>2. QED BY <4>1, <4>5, <5>1
      <4>6. QED BY <4>4, <4>5
    <3>4. CASE List(q) \/ Create(q) \/ Fit(q) \/ Exit(q) \/ NextDoc(q) \/ Upsert(q) \/ Trouble(q)
      BY <3>4 DEF List, Create, Fit, Exit, NextDoc, Upsert, Trouble, Dies, Raises, Ends
    <3>5. QED BY <3>1, <3>2, <3>3, <3>4 DEF Step
  <2>3. QED BY <2>1, <2>2 DEF Next, allVars
<1>9. QED BY <1>5, <1>6, <1>7, <1>8

\* A row of ingest_runs never shows more progress than the store and the empty
\* documents account for, at any time, through failures, deaths and other commands.
THEOREM RowsDoNotOverclaim == Spec => []RowNeverOverclaims
<1>1. RetrievalInit => CountInv /\ RowNeverOverclaims
  <2> SUFFICES ASSUME RetrievalInit PROVE CountInv /\ RowNeverOverclaims OBVIOUS
  <2>1. CountInv
    BY DEF RetrievalInit, Init, CountInv, Running
  <2>2. IngestInv BY InitInv DEF RetrievalInit
  <2>3. ASSUME NEW p \in Procs
        PROVE  row[p].docs <= Cardinality(Elements(row[p].of) \cap Indexed)
                                + Cardinality({i \in DOMAIN row[p].of : row[p].of[i] \in Empty})
    <3>1. row[p].docs = 0 /\ row[p].of = <<>>
      BY DEF RetrievalInit, Init, NoRow
    <3>2. Elements(row[p].of) \cap Indexed = {}
      BY <3>1, EmptyElements
    <3>3. {i \in DOMAIN row[p].of : row[p].of[i] \in Empty} = {}
      BY <3>1
    <3>4. Cardinality(Elements(row[p].of) \cap Indexed) = 0
          /\ Cardinality({i \in DOMAIN row[p].of : row[p].of[i] \in Empty}) = 0
      BY <3>2, <3>3, FS_EmptySet
    <3>5. QED BY <3>1, <3>4
  <2>4. QED BY <2>1, <2>3 DEF RowNeverOverclaims
<1>2. IngestInv /\ IngestInv' /\ CountInv /\ RowNeverOverclaims /\ [Next]_allVars
        => CountInv' /\ RowNeverOverclaims'
  BY CountStep, RowStep
<1>3. QED BY <1>1, <1>2, IngestInvariant, PTL DEF Spec

-----------------------------------------------------------------------------
(* Reciprocal rank fusion: arithmetic.                                     *)

\* A smaller number times the same positive one is smaller.
LEMMA TimesLess ==
  ASSUME NEW x \in Nat, NEW y \in Nat, NEW d \in Nat \ {0}
  PROVE  /\ x > y => x * d > y * d
         /\ x >= y => x * d >= y * d
         /\ x * d > y * d => x > y
         /\ x * d = y * d => x = y
OBVIOUS

\* Fractions compared by cross-multiplication are ordered.
LEMMA FractionsOrder ==
  ASSUME NEW a \in Nat, NEW b \in Nat \ {0}, NEW c \in Nat, NEW d \in Nat \ {0},
         NEW e \in Nat, NEW f \in Nat \ {0}
  PROVE  /\ a * d > c * b /\ c * f >= e * d => a * f > e * b
         /\ a * d = c * b /\ c * f > e * d => a * f > e * b
         /\ a * d = c * b /\ c * f = e * d => a * f = e * b
<1>1. /\ (a * d) * f = (a * f) * d /\ (c * b) * f = (c * f) * b /\ (e * d) * b = (e * b) * d
      /\ a * d \in Nat /\ c * b \in Nat /\ c * f \in Nat /\ e * d \in Nat /\ a * f \in Nat /\ e * b \in Nat
  OBVIOUS
<1>2. ASSUME a * d > c * b, c * f >= e * d PROVE a * f > e * b
  <2>1. (a * d) * f > (c * b) * f BY <1>1, <1>2, TimesLess
  <2>2. (c * f) * b >= (e * d) * b BY <1>1, <1>2, TimesLess
  <2>3. (a * f) * d > (e * b) * d BY <1>1, <2>1, <2>2
  <2>4. QED BY <1>1, <2>3, TimesLess
<1>3. ASSUME a * d = c * b, c * f > e * d PROVE a * f > e * b
  <2>1. (c * f) * b > (e * d) * b BY <1>1, <1>3, TimesLess
  <2>2. (a * f) * d > (e * b) * d BY <1>1, <1>3, <2>1
  <2>3. QED BY <1>1, <2>2, TimesLess
<1>4. ASSUME a * d = c * b, c * f = e * d PROVE a * f = e * b
  <2>1. (a * f) * d = (e * b) * d BY <1>1, <1>4
  <2>2. QED BY <1>1, <2>1, TimesLess
<1>5. QED BY <1>2, <1>3, <1>4

\* 1/a + 1/b is more than 1/c when neither a nor b reaches twice c.
LEMMA TwoBeatOne ==
  ASSUME NEW a \in Nat \ {0}, NEW b \in Nat \ {0}, NEW c \in Nat \ {0}, a < 2 * c, b < 2 * c
  PROVE  (a + b) * c > 1 * (a * b)
<1>1. (2 * c) * a > b * a BY TimesLess
<1>2. (2 * c) * b > a * b BY TimesLess
<1>3. (2 * c) * a + (2 * c) * b > 2 * (a * b) BY <1>1, <1>2
<1>4. (2 * c) * a + (2 * c) * b = 2 * ((a + b) * c) OBVIOUS
<1>5. QED BY <1>3, <1>4

\* The smaller of two numbers.
LEMMA MinOf ==
  ASSUME NEW a \in Nat, NEW b \in Nat
  PROVE  Min({a, b}) = IF a <= b THEN a ELSE b
<1>1. \E x \in {a, b} : \A y \in {a, b} : x <= y OBVIOUS
<1>2. Min({a, b}) \in {a, b} /\ \A y \in {a, b} : Min({a, b}) <= y
  BY <1>1 DEF Min
<1>3. QED BY <1>2

-----------------------------------------------------------------------------
(* Reciprocal rank fusion: lists of hits and their order.                  *)

\* A list of hits is a sequence of different documents, k_retrieve at most.
LEMMA HitsAre ==
  ASSUME NEW docs, NEW s \in Hits(docs)
  PROVE  /\ s \in Seq(docs) /\ Len(s) \in 0..KRetrieve /\ s \in [1..Len(s) -> docs]
         /\ \A i, j \in 1..Len(s) : s[i] = s[j] => i = j
         /\ Elements(s) \subseteq docs
<1>1. PICK m \in 0..KRetrieve : s \in [1..m -> docs]
  BY DEF Hits, SeqOf
<1>2. m \in Nat BY KAssumption
<1>3. s \in Seq(docs) /\ Len(s) = m
  BY <1>1, <1>2
<1>4. \A i, j \in 1..m : s[i] = s[j] => i = j
  BY <1>1 DEF Hits, IsInjective
<1>5. QED BY <1>1, <1>3, <1>4 DEF Elements

\* Hits among fewer documents are hits among more.
LEMMA HitsOfMore ==
  ASSUME NEW few, NEW more, few \subseteq more, NEW s \in Hits(few)
  PROVE  s \in Hits(more)
<1>1. PICK m \in 0..KRetrieve : s \in [1..m -> few]
  BY DEF Hits, SeqOf
<1>2. s \in [1..m -> more] BY <1>1
<1>3. s \in SeqOf(more, KRetrieve) BY <1>2 DEF SeqOf
<1>4. QED BY <1>3 DEF Hits

\* The empty list is one.
LEMMA NoHits == \A docs : <<>> \in Hits(docs)
<1> SUFFICES ASSUME NEW docs PROVE <<>> \in Hits(docs) OBVIOUS
<1>1. 0 \in 0..KRetrieve BY KAssumption
<1>2. <<>> \in [1..0 -> docs] OBVIOUS
<1>3. <<>> \in SeqOf(docs, KRetrieve) BY <1>1, <1>2 DEF SeqOf
<1>4. QED BY <1>3 DEF Hits, IsInjective

\* A hit's rank is its place.
LEMMA RankIs ==
  ASSUME NEW s \in Hits(Docs), NEW d \in Elements(s)
  PROVE  /\ RankIn(s, d) \in 1..Len(s) /\ s[RankIn(s, d)] = d
         /\ RankIn(s, d) \in Nat \ {0} /\ RankIn(s, d) <= KRetrieve
<1>1. \E i \in 1..Len(s) : s[i] = d BY DEF Elements
<1>2. RankIn(s, d) \in 1..Len(s) /\ s[RankIn(s, d)] = d
  BY <1>1 DEF RankIn
<1>3. Len(s) \in 0..KRetrieve /\ KRetrieve \in Nat BY HitsAre, KAssumption
<1>4. QED BY <1>2, <1>3

\* The documents of two lists, and a document's place in the dict they fill.
Either(ds, ss) == Elements(ds) \cup Elements(ss)
Place(d, ds, ss) == IF d \in Elements(ds) THEN RankIn(ds, d) ELSE Len(ds) + RankIn(ss, d)
Ahead(d, ds, ss) == {e \in Either(ds, ss) : Before(e, d, ds, ss)}

\* No two documents have the same place.
LEMMA PlaceIs ==
  ASSUME NEW ds \in Hits(Docs), NEW ss \in Hits(Docs),
         NEW d \in Either(ds, ss), NEW e \in Either(ds, ss)
  PROVE  /\ Place(d, ds, ss) \in Nat
         /\ Place(d, ds, ss) = Place(e, ds, ss) => d = e
<1>1. Len(ds) \in Nat BY HitsAre
<1>2. ASSUME NEW x \in Either(ds, ss)
      PROVE  /\ x \in Elements(ds) =>
                  Place(x, ds, ss) \in 1..Len(ds) /\ ds[Place(x, ds, ss)] = x
             /\ x \notin Elements(ds) =>
                  /\ Place(x, ds, ss) \in Nat /\ Place(x, ds, ss) > Len(ds)
                  /\ ss[Place(x, ds, ss) - Len(ds)] = x
  <2>1. CASE x \in Elements(ds) BY <2>1, RankIs DEF Place
  <2>2. CASE x \notin Elements(ds)
    <3>1. x \in Elements(ss) BY <2>2 DEF Either
    <3>2. RankIn(ss, x) \in Nat \ {0} /\ ss[RankIn(ss, x)] = x BY <3>1, RankIs
    <3>3. Place(x, ds, ss) = Len(ds) + RankIn(ss, x) BY <2>2 DEF Place
    <3>4. Place(x, ds, ss) - Len(ds) = RankIn(ss, x) BY <1>1, <3>2, <3>3
    <3>5. QED BY <1>1, <2>2, <3>2, <3>3, <3>4
  <2>3. QED BY <2>1, <2>2
<1>3. Place(d, ds, ss) \in Nat BY <1>1, <1>2
<1>4. ASSUME Place(d, ds, ss) = Place(e, ds, ss) PROVE d = e
  <2>1. d \in Elements(ds) <=> e \in Elements(ds) BY <1>1, <1>2, <1>4
  <2>2. QED BY <1>2, <1>4, <2>1
<1>5. QED BY <1>3, <1>4

\* A score is a positive fraction: of two terms for a document both lists have, of
\* one otherwise, and no term's denominator is as much as twice another's.
LEMMA RrfIs ==
  ASSUME NEW ds \in Hits(Docs), NEW ss \in Hits(Docs), NEW d \in Either(ds, ss)
  PROVE  /\ Rrf(d, ds, ss)[1] \in Nat \ {0} /\ Rrf(d, ds, ss)[2] \in Nat \ {0}
         /\ d \in Elements(ds) \cap Elements(ss) =>
              \E a, b \in (RrfK + 1)..(RrfK + KRetrieve) : Rrf(d, ds, ss) = <<a + b, a * b>>
         /\ d \notin Elements(ds) \cap Elements(ss) =>
              \E c \in (RrfK + 1)..(RrfK + KRetrieve) : Rrf(d, ds, ss) = <<1, c>>
<1> DEFINE a == RrfK + RankIn(ds, d)
           b == RrfK + RankIn(ss, d)
<1>1. RrfK \in Nat /\ KRetrieve \in Nat BY KAssumption
<1>2. d \in Elements(ds) => a \in Nat \ {0} /\ a \in (RrfK + 1)..(RrfK + KRetrieve)
  BY <1>1, RankIs
<1>3. d \in Elements(ss) => b \in Nat \ {0} /\ b \in (RrfK + 1)..(RrfK + KRetrieve)
  BY <1>1, RankIs
<1>4. Rrf(d, ds, ss) = IF d \notin Elements(ss) THEN <<1, a>>
                       ELSE IF d \notin Elements(ds) THEN <<1, b>> ELSE <<a + b, a * b>>
  BY DEF Rrf
<1> HIDE DEF a, b
<1>5. CASE d \in Elements(ds) \cap Elements(ss)
  <2>1. Rrf(d, ds, ss) = <<a + b, a * b>> BY <1>4, <1>5
  <2>2. a + b \in Nat \ {0} BY <1>2, <1>3, <1>5
  <2>3. a * b \in Nat \ {0}
    <3>1. a \in Nat \ {0} /\ b \in Nat \ {0} BY <1>2, <1>3, <1>5
    <3>2. a * b > 0 * b BY <3>1, TimesLess
    <3>3. a * b \in Nat /\ 0 * b = 0 BY <3>1
    <3>4. QED BY <3>2, <3>3
  <2>4. QED BY <1>2, <1>3, <1>5, <2>1, <2>2, <2>3
<1>6. CASE d \notin Elements(ss)
  <2>1. d \in Elements(ds) /\ Rrf(d, ds, ss) = <<1, a>> BY <1>4, <1>6 DEF Either
  <2>2. QED BY <1>2, <1>6, <2>1
<1>7. CASE d \in Elements(ss) /\ d \notin Elements(ds)
  <2>1. Rrf(d, ds, ss) = <<1, b>> BY <1>4, <1>7
  <2>2. QED BY <1>3, <1>7, <2>1
<1>8. QED BY <1>5, <1>6, <1>7

\* The order of the fused hits is strict and total.
LEMMA BeforeOrder ==
  ASSUME NEW ds \in Hits(Docs), NEW ss \in Hits(Docs),
         NEW d \in Either(ds, ss), NEW e \in Either(ds, ss)
  PROVE  /\ ~Before(d, d, ds, ss)
         /\ d # e => Before(d, e, ds, ss) \/ Before(e, d, ds, ss)
         /\ \A f \in Either(ds, ss) :
              Before(d, e, ds, ss) /\ Before(e, f, ds, ss) => Before(d, f, ds, ss)
<1> DEFINE num(x) == Rrf(x, ds, ss)[1]
           den(x) == Rrf(x, ds, ss)[2]
           pos(x) == Place(x, ds, ss)
<1>1. \A x, y : Before(x, y, ds, ss) <=>
        \/ num(x) * den(y) > num(y) * den(x)
        \/ num(x) * den(y) = num(y) * den(x) /\ pos(x) < pos(y)
  BY DEF Before, Place
<1>2. \A x \in Either(ds, ss) : num(x) \in Nat /\ den(x) \in Nat \ {0} /\ pos(x) \in Nat
  BY RrfIs, PlaceIs
<1>3. \A x, y \in Either(ds, ss) : num(x) * den(y) \in Nat
  BY <1>2
<1>4. pos(d) = pos(e) => d = e
  BY PlaceIs
<1> HIDE DEF num, den, pos
<1>5. ~Before(d, d, ds, ss)
  BY <1>1, <1>2, <1>3
<1>6. d # e => Before(d, e, ds, ss) \/ Before(e, d, ds, ss)
  BY <1>1, <1>2, <1>3, <1>4
<1>7. ASSUME NEW f \in Either(ds, ss), Before(d, e, ds, ss), Before(e, f, ds, ss)
      PROVE  Before(d, f, ds, ss)
  <2> DEFINE a == num(d)  b == den(d)  c == num(e)  g == den(e)  h == num(f)  i == den(f)
  <2>1. /\ a \in Nat /\ b \in Nat \ {0} /\ c \in Nat /\ g \in Nat \ {0} /\ h \in Nat /\ i \in Nat \ {0}
        /\ a * g \in Nat /\ c * b \in Nat /\ c * i \in Nat /\ h * g \in Nat /\ a * i \in Nat /\ h * b \in Nat
    BY <1>2, <1>3
  <2>2. (a * g > c * b \/ (a * g = c * b /\ pos(d) < pos(e)))
    BY <1>1, <1>7
  <2>3. (c * i > h * g \/ (c * i = h * g /\ pos(e) < pos(f)))
    BY <1>1, <1>7
  <2>4. pos(d) \in Nat /\ pos(e) \in Nat /\ pos(f) \in Nat BY <1>2
  <2>5. (a * i > h * b) \/ (a * i = h * b /\ pos(d) < pos(f)) => Before(d, f, ds, ss)
    BY <1>1
  <2> HIDE DEF a, b, c, g, h, i
  <2>6. /\ a * g > c * b /\ c * i >= h * g => a * i > h * b
        /\ a * g = c * b /\ c * i > h * g => a * i > h * b
        /\ a * g = c * b /\ c * i = h * g => a * i = h * b
    BY <2>1, FractionsOrder
  <2>7. CASE a * g > c * b
    <3>1. c * i >= h * g BY <2>1, <2>3
    <3>2. QED BY <2>5, <2>6, <2>7, <3>1
  <2>8. CASE a * g = c * b /\ c * i > h * g
    BY <2>5, <2>6, <2>8
  <2>9. CASE a * g = c * b /\ c * i = h * g
    <3>1. pos(d) < pos(e) BY <2>1, <2>2, <2>9
    <3>2. pos(e) < pos(f) BY <2>1, <2>3, <2>9
    <3>3. pos(d) < pos(f) BY <2>4, <3>1, <3>2
    <3>4. QED BY <2>5, <2>6, <2>9, <3>3
  <2>10. QED BY <2>2, <2>3, <2>7, <2>8, <2>9
<1>8. QED BY <1>5, <1>6, <1>7

\* Two lists of hits hold finitely many documents, and no document is ahead of
\* itself, or has those ahead that a later one has.
LEMMA AheadIs ==
  ASSUME NEW ds \in Hits(Docs), NEW ss \in Hits(Docs)
  PROVE  /\ IsFiniteSet(Either(ds, ss)) /\ Cardinality(Either(ds, ss)) \in Nat
         /\ \A d \in Either(ds, ss) :
              /\ Cardinality(Ahead(d, ds, ss)) \in Nat
              /\ Cardinality(Ahead(d, ds, ss)) + 1 <= Cardinality(Either(ds, ss))
         /\ \A d, e \in Either(ds, ss) : Before(d, e, ds, ss) =>
              Cardinality(Ahead(d, ds, ss)) + 1 <= Cardinality(Ahead(e, ds, ss))
         /\ \A d, e \in Either(ds, ss) :
              Cardinality(Ahead(d, ds, ss)) = Cardinality(Ahead(e, ds, ss)) => d = e
<1>1. IsFiniteSet(Either(ds, ss)) /\ Cardinality(Either(ds, ss)) \in Nat
  <2>1. Either(ds, ss) \subseteq Docs BY HitsAre DEF Either
  <2>2. QED BY <2>1, DocsAssumption, Smaller
<1>2. ASSUME NEW d \in Either(ds, ss)
      PROVE  /\ IsFiniteSet(Ahead(d, ds, ss)) /\ Cardinality(Ahead(d, ds, ss)) \in Nat
             /\ Cardinality(Ahead(d, ds, ss)) + 1 <= Cardinality(Either(ds, ss))
  <2>1. ~Before(d, d, ds, ss) BY BeforeOrder
  <2>2. Ahead(d, ds, ss) \subseteq Either(ds, ss) \ {d} BY <2>1 DEF Ahead
  <2>3. IsFiniteSet(Ahead(d, ds, ss)) BY <1>1, <2>2, Smaller
  <2>4. QED BY <1>1, <2>2, <2>3, OneMore
<1>3. ASSUME NEW d \in Either(ds, ss), NEW e \in Either(ds, ss), Before(d, e, ds, ss)
      PROVE  Cardinality(Ahead(d, ds, ss)) + 1 <= Cardinality(Ahead(e, ds, ss))
  <2>1. Ahead(d, ds, ss) \subseteq Ahead(e, ds, ss) \ {d}
    <3> SUFFICES ASSUME NEW c \in Either(ds, ss), Before(c, d, ds, ss)
                 PROVE  Before(c, e, ds, ss) /\ c # d
      BY DEF Ahead
    <3>1. Before(c, e, ds, ss) BY <1>3, BeforeOrder
    <3>2. ~Before(d, d, ds, ss) BY BeforeOrder
    <3>3. QED BY <3>1, <3>2
  <2>2. d \in Ahead(e, ds, ss) BY <1>3 DEF Ahead
  <2>3. QED BY <1>2, <2>1, <2>2, OneMore
<1>4. ASSUME NEW d \in Either(ds, ss), NEW e \in Either(ds, ss),
             Cardinality(Ahead(d, ds, ss)) = Cardinality(Ahead(e, ds, ss))
      PROVE  d = e
  <2>1. ~Before(d, e, ds, ss) /\ ~Before(e, d, ds, ss)
    BY <1>2, <1>3, <1>4
  <2>2. QED BY <2>1, BeforeOrder
<1>5. QED BY <1>1, <1>2, <1>3, <1>4

\* So that there is, for every number less than theirs, one of them with so many
\* ahead.
LEMMA EveryRank ==
  ASSUME NEW ds \in Hits(Docs), NEW ss \in Hits(Docs),
         NEW i \in 1..Cardinality(Either(ds, ss))
  PROVE  \E d \in Either(ds, ss) : Cardinality(Ahead(d, ds, ss)) = i - 1
<1> DEFINE U == Either(ds, ss)
           n == Cardinality(U)
           rank == [d \in U |-> Cardinality(Ahead(d, ds, ss))]
<1>1. n \in Nat /\ n > 0 /\ i - 1 \in 0..(n - 1) BY AheadIs
<1>2. rank \in [U -> 0..(n - 1)]
  <2>1. \A d \in U : Cardinality(Ahead(d, ds, ss)) \in 0..(n - 1) BY <1>1, AheadIs
  <2>2. QED BY <2>1
<1>3. IsInjective(rank)
  BY AheadIs DEF IsInjective
<1>4. rank \in Injection(U, 0..(n - 1))
  BY <1>2, <1>3 DEF Injection
<1>5. IsFiniteSet(0..(n - 1)) /\ Cardinality(0..(n - 1)) = n
  BY <1>1, FS_Interval
<1>6. rank \in Surjection(U, 0..(n - 1))
  BY <1>4, <1>5, FS_Injection
<1>7. PICK d \in U : rank[d] = i - 1
  BY <1>1, <1>6 DEF Surjection
<1>8. QED BY <1>7

\* What fusion returns: different hits of the two lists, best first, k_retrieve at
\* most, and all of them when they are no more than that.
LEMMA FuseIs ==
  ASSUME NEW ds \in Hits(Docs), NEW ss \in Hits(Docs)
  PROVE  LET list == Fuse(ds, ss)
         IN  /\ Elements(list) \subseteq Either(ds, ss)
             /\ Cardinality(Either(ds, ss)) <= KRetrieve => Either(ds, ss) \subseteq Elements(list)
             /\ \A i, j \in 1..Len(list) : Before(list[i], list[j], ds, ss) => i < j
<1> DEFINE U == Either(ds, ss)
           n == Cardinality(U)
           m == Min({KRetrieve, n})
           list == Fuse(ds, ss)
<1>1. n \in Nat /\ KRetrieve \in Nat BY AheadIs, KAssumption
<1>2. m \in Nat /\ m <= n /\ (n <= KRetrieve => m = n)
  BY <1>1, MinOf
<1>3. list = [i \in 1..m |-> CHOOSE d \in U : Cardinality(Ahead(d, ds, ss)) = i - 1]
  BY DEF Fuse, Either, Ahead
<1>4. ASSUME NEW i \in 1..m PROVE list[i] \in U /\ Cardinality(Ahead(list[i], ds, ss)) = i - 1
  <2>1. \E d \in U : Cardinality(Ahead(d, ds, ss)) = i - 1
    <3>1. i \in 1..n BY <1>1, <1>2
    <3>2. QED BY <3>1, EveryRank
  <2>2. list[i] = CHOOSE d \in U : Cardinality(Ahead(d, ds, ss)) = i - 1 BY <1>3
  <2>3. QED BY <2>1, <2>2
<1> HIDE DEF list, m
<1>5. list \in [1..m -> U]
  <2>1. list = [i \in 1..m |-> list[i]] BY <1>3
  <2>2. QED BY <1>4, <2>1
<1>6. Len(list) = m BY <1>2, <1>5
<1>7. Elements(list) \subseteq U BY <1>4, <1>6 DEF Elements
<1>8. ASSUME n <= KRetrieve, NEW d \in U PROVE d \in Elements(list)
  <2> DEFINE i == Cardinality(Ahead(d, ds, ss)) + 1
  <2>1. i \in 1..m /\ i - 1 = Cardinality(Ahead(d, ds, ss))
    BY <1>1, <1>2, <1>8, AheadIs
  <2>2. list[i] \in U /\ Cardinality(Ahead(list[i], ds, ss)) = Cardinality(Ahead(d, ds, ss))
    BY <1>4, <2>1
  <2>3. list[i] = d BY <2>2, AheadIs
  <2>4. QED BY <1>6, <2>1, <2>3 DEF Elements
<1>9. ASSUME NEW i \in 1..Len(list), NEW j \in 1..Len(list), Before(list[i], list[j], ds, ss)
      PROVE  i < j
  <2>1. Cardinality(Ahead(list[i], ds, ss)) + 1 <= Cardinality(Ahead(list[j], ds, ss))
    BY <1>4, <1>6, <1>9, AheadIs
  <2>2. (i - 1) + 1 <= j - 1 BY <1>4, <1>6, <2>1
  <2>3. i \in Int /\ j \in Int BY <1>2, <1>6
  <2>4. QED BY <2>2, <2>3
<1>10. QED BY <1>7, <1>8, <1>9 DEF list

\* A document both lists have is before every one only one of them has.
LEMMA BothFirst ==
  ASSUME NEW ds \in Hits(Docs), NEW ss \in Hits(Docs),
         NEW d \in Elements(ds) \cap Elements(ss),
         NEW e \in Either(ds, ss), e \notin Elements(ds) \cap Elements(ss)
  PROVE  Before(d, e, ds, ss)
<1>1. d \in Either(ds, ss) BY DEF Either
<1>2. PICK a \in (RrfK + 1)..(RrfK + KRetrieve), b \in (RrfK + 1)..(RrfK + KRetrieve) :
        Rrf(d, ds, ss) = <<a + b, a * b>>
  BY <1>1, RrfIs
<1>3. PICK c \in (RrfK + 1)..(RrfK + KRetrieve) : Rrf(e, ds, ss) = <<1, c>>
  BY RrfIs
<1>4. RrfK \in Nat /\ KRetrieve \in Nat /\ KRetrieve <= RrfK + 1 BY KAssumption
<1>5. /\ a \in Nat \ {0} /\ b \in Nat \ {0} /\ c \in Nat \ {0}
      /\ a < 2 * c /\ b < 2 * c
  BY <1>4
<1>6. (a + b) * c > 1 * (a * b) BY <1>5, TwoBeatOne
<1>7. QED BY <1>2, <1>3, <1>6 DEF Before

-----------------------------------------------------------------------------
(* The reader.                                                             *)

\* What the reader holds is of its day, and it misses nothing that was there when
\* it asked, as long as the store has no more than k_retrieve for that day.
ReaderInv ==
  /\ dense \in Hits(Docs)
  /\ at # "rerank" => fused = <<>>
  /\ known \cup Elements(dense) \cup Elements(fused) \cup Elements(answer) \subseteq Visible(asOf)
  /\ at = "sparse" /\ Cardinality(Visible(asOf)) <= KRetrieve => known \subseteq Elements(dense)
  /\ at = "rerank" /\ Cardinality(Visible(asOf)) <= KRetrieve => known \subseteq Elements(fused)

\* What may be seen is finite.
LEMMA VisibleIs ==
  ASSUME NEW day
  PROVE  /\ Visible(day) \subseteq Docs /\ Visible(day) \subseteq Indexed
         /\ IsFiniteSet(Visible(day)) /\ Cardinality(Visible(day)) \in Nat
<1>1. Visible(day) \subseteq Docs /\ Visible(day) \subseteq Indexed
  BY DEF Visible, Indexed
<1>2. QED BY <1>1, DocsAssumption, Smaller

\* The nearest documents are all there are, if they are no more than k_retrieve.
LEMMA NearestAreAll ==
  ASSUME NEW docs, docs \subseteq Docs, NEW s \in Nearest(docs), Cardinality(docs) <= KRetrieve
  PROVE  docs \subseteq Elements(s)
<1>1. IsFiniteSet(docs) /\ Cardinality(docs) \in Nat BY DocsAssumption, Smaller
<1>2. s \in Hits(docs) /\ Len(s) = Min({KRetrieve, Cardinality(docs)}) BY DEF Nearest
<1>3. Len(s) = Cardinality(docs)
  <2>1. KRetrieve \in Nat BY KAssumption
  <2>2. Min({KRetrieve, Cardinality(docs)}) = IF KRetrieve <= Cardinality(docs) THEN KRetrieve ELSE Cardinality(docs)
    BY <1>1, <2>1, MinOf
  <2>3. QED BY <1>1, <1>2, <2>1, <2>2
<1>4. s \in [1..Len(s) -> docs] /\ \A i, j \in 1..Len(s) : s[i] = s[j] => i = j
  BY <1>2, HitsAre
<1>5. s \in Injection(1..Len(s), docs)
  BY <1>4 DEF Injection, IsInjective
<1>6. Cardinality(1..Len(s)) = Cardinality(docs)
  <2>1. Len(s) \in Nat BY <1>1, <1>3
  <2>2. Cardinality(1..Len(s)) = Len(s) BY SMTT(30), <2>1, FS_Interval
  <2>3. QED BY <1>3, <2>2
<1>7. s \in Surjection(1..Len(s), docs)
  BY <1>1, <1>5, <1>6, FS_Injection
<1>8. QED BY <1>7 DEF Surjection, Elements

LEMMA ReaderInitially == RetrievalInit => ReaderInv
<1> SUFFICES ASSUME RetrievalInit PROVE ReaderInv OBVIOUS
<1>1. dense = <<>> /\ fused = <<>> /\ answer = <<>> /\ known = {} /\ at = "idle"
  BY DEF RetrievalInit, ReaderInit
<1>2. QED BY <1>1, NoHits, EmptyElements DEF ReaderInv

\* Ingest commands add to what may be seen.
LEMMA ReaderWaits ==
  ASSUME ReaderInv, UNCHANGED readerVars, Indexed \subseteq Indexed'
  PROVE  ReaderInv'
<1>1. asOf' = asOf /\ known' = known /\ dense' = dense /\ fused' = fused /\ answer' = answer /\ at' = at
  BY DEF readerVars
<1>2. Visible(asOf) \subseteq Visible(asOf)'
  BY <1>1 DEF Visible
<1>3. IsFiniteSet(Visible(asOf)') /\ Visible(asOf)' \subseteq Docs
  <2>1. Visible(asOf)' \subseteq Docs BY DEF Visible, Indexed
  <2>2. QED BY <2>1, DocsAssumption, Smaller
<1>4. Cardinality(Visible(asOf)') <= KRetrieve => Cardinality(Visible(asOf)) <= KRetrieve
  <2>1. Cardinality(Visible(asOf)) <= Cardinality(Visible(asOf)')
        /\ Cardinality(Visible(asOf)) \in Nat /\ Cardinality(Visible(asOf)') \in Nat
    BY <1>2, <1>3, Smaller
  <2>2. KRetrieve \in Nat BY KAssumption
  <2>3. QED BY <2>1, <2>2
<1>5. (known \cup Elements(dense) \cup Elements(fused) \cup Elements(answer) \subseteq Visible(asOf))'
  BY <1>1, <1>2 DEF ReaderInv
<1>6. dense' \in Hits(Docs) BY <1>1 DEF ReaderInv
<1>7. QED BY <1>1, <1>4, <1>5, <1>6 DEF ReaderInv

\* The reader's steps, over a store that does not change meanwhile.
LEMMA ReaderSteps ==
  ASSUME ReaderInv, ReaderNext, UNCHANGED vars
  PROVE  ReaderInv'
<1>1. Visible(asOf)' = Visible(asOf')
  BY DEF vars, Visible, Indexed
<1>2. CASE SearchDense
  <2>1. /\ at' = "sparse" /\ known' = Visible(asOf') /\ dense' \in Nearest(Visible(asOf'))
        /\ answer' = <<>> /\ fused' = fused
    BY <1>2 DEF SearchDense
  <2>2. at = "idle" BY <1>2 DEF SearchDense
  <2>3. dense' \in Hits(Visible(asOf')) BY <2>1 DEF Nearest
  <2>4. Visible(asOf') \subseteq Docs BY VisibleIs
  <2>5. dense' \in Hits(Docs) BY <2>3, <2>4, HitsOfMore
  <2>6. Elements(dense') \subseteq Visible(asOf') BY <2>3, HitsAre
  <2>7. Cardinality(Visible(asOf')) <= KRetrieve => known' \subseteq Elements(dense')
    BY <2>1, <2>4, NearestAreAll
  <2>8. fused' = <<>> BY <2>1, <2>2 DEF ReaderInv
  <2>9. Elements(fused') = {} /\ Elements(answer') = {} BY <2>1, <2>8, EmptyElements
  <2>10. QED BY <1>1, <2>1, <2>5, <2>6, <2>7, <2>8, <2>9 DEF ReaderInv
<1>3. CASE SearchSparse
  <2>1. PICK s \in Hits(Visible(asOf)) : fused' = Fuse(dense, s)
    BY <1>3 DEF SearchSparse
  <2>2. /\ at = "sparse" /\ at' = "rerank" /\ dense' = <<>>
        /\ asOf' = asOf /\ known' = known /\ answer' = answer
    BY <1>3 DEF SearchSparse
  <2>3. s \in Hits(Docs) /\ dense \in Hits(Docs)
    BY VisibleIs, HitsOfMore DEF ReaderInv
  <2>4. Either(dense, s) \subseteq Visible(asOf)
    BY HitsAre DEF Either, ReaderInv
  <2>5. Elements(fused') \subseteq Visible(asOf)
    BY <2>1, <2>3, <2>4, FuseIs
  <2>6. Cardinality(Visible(asOf)) <= KRetrieve => known \subseteq Elements(fused')
    <3> SUFFICES ASSUME Cardinality(Visible(asOf)) <= KRetrieve PROVE known \subseteq Elements(fused')
      OBVIOUS
    <3>1. known \subseteq Either(dense, s) BY <2>2 DEF ReaderInv, Either
    <3>2. Cardinality(Either(dense, s)) <= KRetrieve
      <4>1. Cardinality(Either(dense, s)) <= Cardinality(Visible(asOf))
            /\ Cardinality(Either(dense, s)) \in Nat /\ Cardinality(Visible(asOf)) \in Nat
        BY <2>4, VisibleIs, Smaller
      <4>2. KRetrieve \in Nat BY KAssumption
      <4>3. QED BY <4>1, <4>2
    <3>3. Either(dense, s) \subseteq Elements(fused') BY <2>1, <2>3, <3>2, FuseIs
    <3>4. QED BY <3>1, <3>3
  <2>7. dense' \in Hits(Docs) /\ Elements(dense') = {} BY <2>2, NoHits, EmptyElements
  <2>8. known' \cup Elements(answer') \subseteq Visible(asOf) BY <2>2 DEF ReaderInv
  <2>9. Visible(asOf)' = Visible(asOf) BY <1>1, <2>2
  <2>10. QED BY <2>2, <2>5, <2>6, <2>7, <2>8, <2>9 DEF ReaderInv
<1>4. CASE Rerank
  <2>1. PICK s \in Hits(Elements(fused)) : answer' = SubSeq(s, 1, Min({KFinal, Len(s)}))
    BY <1>4 DEF Rerank
  <2>2. fused' = <<>> /\ known' = {} /\ at' = "idle" /\ asOf' = asOf /\ dense' = dense
    BY <1>4 DEF Rerank
  <2>3. Elements(answer') \subseteq Elements(s)
    <3>1. s \in Seq(Elements(fused)) /\ Len(s) \in Nat BY HitsAre
    <3>2. KFinal \in Nat BY KAssumption
    <3>3. Min({KFinal, Len(s)}) \in 0..Len(s) BY <3>1, <3>2, MinOf
    <3>4. QED BY <2>1, <3>1, <3>3 DEF Elements
  <2>4. Elements(s) \subseteq Elements(fused) BY HitsAre
  <2>5. Elements(fused) \subseteq Visible(asOf) /\ Elements(dense) \subseteq Visible(asOf) /\ dense \in Hits(Docs)
    BY DEF ReaderInv
  <2>6. Visible(asOf)' = Visible(asOf) /\ Elements(fused') = {} BY <1>1, <2>2, EmptyElements
  <2>7. QED BY <2>2, <2>3, <2>4, <2>5, <2>6 DEF ReaderInv
<1>5. CASE RetrieveRaises
  <2>1. at' = "idle" /\ known' = {} /\ dense' = <<>> /\ fused' = <<>> /\ answer' = <<>>
    BY <1>5 DEF RetrieveRaises
  <2>2. QED BY <2>1, NoHits, EmptyElements DEF ReaderInv
<1>6. QED BY <1>2, <1>3, <1>4, <1>5 DEF ReaderNext

LEMMA ReaderStep ==
  ASSUME IngestInv, IngestInv', CountInv, ReaderInv, [Next]_allVars
  PROVE  ReaderInv'
<1>1. CASE UNCHANGED readerVars
  <2>1. Indexed \subseteq Indexed' BY CountStep
  <2>2. QED BY <1>1, <2>1, ReaderWaits
<1>2. CASE ReaderNext /\ UNCHANGED vars
  BY <1>2, ReaderSteps
<1>3. QED BY <1>1, <1>2 DEF Next, allVars

\* The reader's invariant, with the store's: for any corpus and any days, any
\* number of ingest commands, and any k_retrieve up to rank fusion's constant.
THEOREM ReaderInvariant == Spec => []ReaderInv
<1>1. RetrievalInit => CountInv /\ ReaderInv
  BY ReaderInitially DEF RetrievalInit, Init, CountInv, Running
<1>2. IngestInv /\ IngestInv' /\ CountInv /\ ReaderInv /\ [Next]_allVars => CountInv' /\ ReaderInv'
  BY CountStep, ReaderStep
<1>3. QED BY <1>1, <1>2, IngestInvariant, PTL DEF Spec

\* A heartbeat of a past day gets nothing published after it, and misses nothing
\* that was there, whatever is indexed between its two searches
\* (HybridRetriever.retrieve, qdrant_store's published_before filter).
THEOREM NothingFromTheFuture == Spec => []PointInTime
<1>1. ReaderInv => PointInTime
  BY DEF ReaderInv, PointInTime
<1>2. QED BY <1>1, ReaderInvariant, PTL

\* Whatever lists the two searches return, fusion puts what both found first: with
\* k_retrieve no more than _RRF_K + 1 two terms beat any single one.
THEOREM BothFoundFirst == Spec => []FoundByBothFirst
<1>1. ReaderInv => FoundByBothFirst
  <2> SUFFICES ASSUME dense \in Hits(Docs), NEW hits \in Hits(Docs),
                      NEW i \in 1..Len(Fuse(dense, hits)), NEW j \in 1..Len(Fuse(dense, hits)),
                      Fuse(dense, hits)[i] \in Elements(dense) \cap Elements(hits),
                      Fuse(dense, hits)[j] \notin Elements(dense) \cap Elements(hits)
               PROVE  i < j
    BY DEF ReaderInv, FoundByBothFirst, AnyHits
  <2>1. Fuse(dense, hits)[j] \in Either(dense, hits)
    <3>1. Fuse(dense, hits)[j] \in Elements(Fuse(dense, hits)) BY DEF Elements
    <3>2. QED BY <3>1, FuseIs
  <2>2. Before(Fuse(dense, hits)[i], Fuse(dense, hits)[j], dense, hits)
    BY <2>1, BothFirst
  <2>3. QED BY <2>2, FuseIs
<1>2. QED BY <1>1, ReaderInvariant, PTL
=============================================================================
