----------------------------- MODULE MCReview -----------------------------
(* ReviewPipeline on small sets.                                           *)
EXTENDS ReviewPipeline, TLC

\* The requests of a run.
AllRequests == RequestKind
LedgerRequests == {"add", "verify"}

\* Interchangeable values.
Symmetry == Permutations(Workers) \cup Permutations(Jobs) \cup
            Permutations(Entries) \cup Permutations(Revisions) \cup
            Permutations(Reviewers)
=============================================================================
