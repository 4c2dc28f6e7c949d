---------------------------- MODULE MCCommittee ----------------------------
(* Bounds for model-checking the committee: two chunks, so that truncation *)
(* drops one, and one set of labels for each status; a judge that leaves   *)
(* all claims out has the status of one that supports them all.            *)
EXTENDS Committee

MCLenses == {"quality", "valuation", "catalyst"}
MCJudgeSays == {{}, {"SUPPORTED", "PARTIAL"},
                {"SUPPORTED", "PARTIAL", "UNSUPPORTED"}}
=============================================================================
