----------------------------- MODULE MCGateway -----------------------------
(* ExtractionGateway with a few answers of the model.                      *)
EXTENDS ExtractionGateway

Cite(topic, from, to, segments, quote) ==
  [topic |-> topic,
   evidence |-> <<[revision |-> "current", start |-> from, end |-> to,
                   segments |-> segments]>>,
   fields |-> [f \in GroundedField |-> quote]]

\* A moment two windows see: quoted by one, paraphrased by the other.
Quoted == Cite("tempo", 2, 3, {2, 3}, 3)
Paraphrased == Cite("tempo", 1, 4, {2, 3}, 0)
\* The same topic on other evidence, and an invented segment.
Elsewhere == Cite("tempo", 3, 4, {3}, None)
Invented == Cite("vowels", 0, 1, {0, MaxSegments}, 0)
\* Two ranges of which one is of another revision, or does not fit.
SecondRange(entry, ev) == [entry EXCEPT !.evidence = Append(@, ev)]
OldRevision ==
  SecondRange(Quoted, [revision |-> "other", start |-> 0, end |-> 1,
                       segments |-> {0}])
OutOfRange ==
  SecondRange(Quoted, [revision |-> "current", start |-> 1, end |-> 2,
                       segments |-> {0}])

MCPayloads ==
  {Invalid, <<>>, <<Quoted>>, <<Paraphrased, Elsewhere>>,
   <<Invented, Elsewhere, OldRevision, OutOfRange>>}
=============================================================================
