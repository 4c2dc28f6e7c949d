----------------------------- MODULE Retrieval -----------------------------
(***************************************************************************)
(* A heartbeat's question to the corpus while ingest commands run (Ingest):*)
(* HybridRetriever asks the store for the nearest dense and then for the   *)
(* nearest sparse vectors, both filtered by the publication time, and      *)
(* fuses the two lists (firm/rag/retrieve.py, firm/rag/qdrant_store.py);   *)
(* the reranker drops and reorders candidates by the scores of its model   *)
(* (firm/rag/rerank.py).  Similarity is the store's and the models': any   *)
(* order may come, and for the sparse search any choice.                   *)
(***************************************************************************)
EXTENDS Ingest, SequencesExt

CONSTANTS
  Published,   \* publication day of each document
  Days,        \* values of as_of
  KRetrieve,   \* k_retrieve (50)
  KFinal,      \* k_final (8)
  RrfK         \* _RRF_K (60)

ASSUME PublishedAssumption == Published \in [Docs -> Nat] /\ Days \subseteq Nat
\* 50 and 60: nothing passes HybridRetriever a k_retrieve.
ASSUME KAssumption == {KRetrieve, KFinal, RrfK} \subseteq Nat /\ KRetrieve <= RrfK + 1

VARIABLES
  at,      \* what the reader does
  asOf,    \* as_of of its question
  known,   \* history: what the store had for that day when it was asked
  dense,   \* dense_hits, best first
  fused,   \* what HybridRetriever returns
  answer   \* what GroundedRetriever returned

readerVars == <<at, asOf, known, dense, fused, answer>>
allVars == <<vars, readerVars>>

\* _pit_filter: published_at <= published_before.
Visible(day) == {d \in Indexed : Published[d] <= day}

\* Lists of up to k_retrieve different documents; the dense search fills its
\* list, the sparse search may find fewer.
Hits(docs) == {s \in SeqOf(docs, KRetrieve) : IsInjective(s)}

AnyHits == Hits(Docs)

Nearest(docs) ==
  {s \in Hits(docs) : Len(s) = Min({KRetrieve, Cardinality(docs)})}

-----------------------------------------------------------------------------
(* Reciprocal rank fusion.                                                 *)

\* enumerate's rank, plus one.
RankIn(s, d) == CHOOSE i \in 1..Len(s) : s[i] = d

\* (mutant) the second list's term replaces the first one's.
RrfLast(d, ds, ss) ==
  IF d \in Elements(ss) THEN <<1, RrfK + RankIn(ss, d)>>
                        ELSE <<1, RrfK + RankIn(ds, d)>>

\* rrf_score, a fraction: the sum of 1 / (_RRF_K + rank + 1) over its lists.
Rrf(d, ds, ss) ==
  LET a == RrfK + RankIn(ds, d)
      b == RrfK + RankIn(ss, d)
  IN  IF d \notin Elements(ss) THEN <<1, a>>
      ELSE IF d \notin Elements(ds) THEN <<1, b>>
      ELSE <<a + b, a * b>>

\* sorted(..., reverse=True) over a dict in insertion order, dense hits first.
Before(d, e, ds, ss) ==
  LET f == Rrf(d, ds, ss)
      g == Rrf(e, ds, ss)
      place(x) == IF x \in Elements(ds) THEN RankIn(ds, x) ELSE Len(ds) + RankIn(ss, x)
  IN  \/ f[1] * g[2] > g[1] * f[2]
      \/ f[1] * g[2] = g[1] * f[2] /\ place(d) < place(e)

\* The fused candidates, cut to k_retrieve: each has those ahead that are before it.
Fuse(ds, ss) ==
  LET hits == Elements(ds) \cup Elements(ss)
      ahead(d) == {e \in hits : Before(e, d, ds, ss)}
  IN  [i \in 1..Min({KRetrieve, Cardinality(hits)}) |->
         CHOOSE d \in hits : Cardinality(ahead(d)) = i - 1]

-----------------------------------------------------------------------------
(* The reader.                                                             *)

ReaderInit ==
  /\ at = "idle"
  /\ asOf \in Days
  /\ known = {}
  /\ dense = <<>> /\ fused = <<>> /\ answer = <<>>

\* (mutant) the nearest documents of all are cut to k first, and filtered then.
SearchDenseUnfiltered ==
  /\ at = "idle"
  /\ collection
  /\ asOf' \in Days
  /\ known' = Visible(asOf')
  /\ \E s \in Nearest(Indexed) : dense' = SelectSeq(s, LAMBDA d : Published[d] <= asOf')
  /\ at' = "sparse"
  /\ answer' = <<>> /\ UNCHANGED fused

\* retrieve(query, as_of=...): search_dense; a missing collection raises.
SearchDense ==
  /\ at = "idle"
  /\ collection
  /\ asOf' \in Days
  /\ known' = Visible(asOf')
  /\ dense' \in Nearest(Visible(asOf'))
  /\ at' = "sparse"
  /\ answer' = <<>> /\ UNCHANGED fused

\* search_sparse, over what the store has by now, and the fusion.
SearchSparse ==
  /\ at = "sparse"
  /\ \E s \in Hits(Visible(asOf)) : fused' = Fuse(dense, s)
  /\ dense' = <<>>
  /\ at' = "rerank"
  /\ UNCHANGED <<asOf, known, answer>>

\* rerank: candidates below the floor are dropped, the others ordered by a
\* score the model chooses, and cut to k_final.
Rerank ==
  /\ at = "rerank"
  /\ \E s \in Hits(Elements(fused)) : answer' = SubSeq(s, 1, Min({KFinal, Len(s)}))
  /\ fused' = <<>> /\ known' = {}
  /\ at' = "idle"
  /\ UNCHANGED <<asOf, dense>>

\* The store or a model raises, in any of the three calls: the question of that
\* day has no answer, and nothing of it is kept.
RetrieveRaises ==
  /\ asOf' \in IF at = "idle" THEN Days ELSE {asOf}
  /\ at' = "idle"
  /\ known' = {}
  /\ dense' = <<>> /\ fused' = <<>> /\ answer' = <<>>

ReaderNext == SearchDense \/ SearchSparse \/ Rerank \/ RetrieveRaises

RetrievalInit == Init /\ ReaderInit

Next ==
  \/ IngestNext /\ UNCHANGED readerVars
  \/ ReaderNext /\ UNCHANGED vars

Spec == RetrievalInit /\ [][Next]_allVars

FairSpec == Spec /\ IngestFair

-----------------------------------------------------------------------------
(* Properties.                                                             *)

\* The point-in-time promise, while a command indexes newer documents between
\* the two searches: a heartbeat of a past day sees nothing published after it,
\* and newer documents do not push out what it may see, so that all that was
\* there for that day when the question was asked is a candidate, if it is no
\* more than k_retrieve now.
PointInTime ==
  /\ Elements(fused) \cup Elements(answer) \subseteq Visible(asOf)
  /\ at = "rerank" /\ Cardinality(Visible(asOf)) <= KRetrieve
       => known \subseteq Elements(fused)

\* A document both searches found ranks above every one only one of them found,
\* wherever in their lists the hits stand.
FoundByBothFirst ==
  at = "sparse" => \A hits \in AnyHits :
    LET both == Elements(dense) \cap Elements(hits)
        list == Fuse(dense, hits)
    IN   \A i, j \in 1..Len(list) : list[i] \in both /\ list[j] \notin both => i < j
=============================================================================
