--------------------------- MODULE MCTranscribe ---------------------------
(* TranscribePipeline on small sets.                                       *)
EXTENDS TranscribePipeline, TLC

\* Workers, jobs and operation ids are interchangeable.
Symmetry == Permutations(Workers) \cup Permutations(Jobs) \cup
            Permutations(Ops)
=============================================================================
