---------------------------- MODULE MCRetrieval ----------------------------
(* Bounds for model-checking: two ingest commands over three sources, with *)
(* a document without text and a transcript that is there twice.           *)
EXTENDS Retrieval

MCDocs == {"f1", "f2", "empty", "t1"}
MCEmpty == {"empty"}
MCCorpus ==
  [s \in Sources |-> CASE s = "financebench" -> <<"f1", "empty", "f2">>
                       [] s = "transcripts"  -> <<"t1", "t1">>
                       [] s = "news"         -> <<>>]
MCOptions ==
  {[source |-> "all", maxDocs |-> 9], [source |-> "financebench", maxDocs |-> 1]}
MCPublished == [d \in MCDocs |-> IF d = "f2" THEN 2 ELSE 1]
MCConfigured == {"financebench", "transcripts"}
MCDays == {1}
=============================================================================
