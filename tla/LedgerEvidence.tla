--------------------------- MODULE LedgerEvidence ---------------------------
(***************************************************************************)
(* Ledger entries as the model returns them, and the two programs that     *)
(* judge them: the extraction gateway, which repairs or rejects an entry   *)
(* (_normalize_entry), and the evidence API, which refuses a whole         *)
(* extraction because of one bad entry (validate_evidence).                *)
(*                                                                         *)
(* A transcript of n segments is 0 .. n-1; segment s lasts from s to s+1.  *)
(* A segment id that is not below n is one the model invented.  A field    *)
(* that must rest on the evidence (a quotation, a claim) is represented by *)
(* the segment whose words it is made of, or None for null: it is verbatim *)
(* or lexically supported exactly when that segment is cited.              *)
(***************************************************************************)
EXTENDS Naturals, Sequences, FiniteSets, FiniteSetsExt

CONSTANTS
  MaxSegments,  \* segments of a transcript, at most (a bound)
  Topics,       \* normalised topics
  None

ASSUME SegmentsAssumption == MaxSegments \in Nat

Segment == 0 .. MaxSegments

\* The fields the gateway compares with the cited text.
GroundedField == {"exact_coach_feedback", "applies_to", "observed_result"}

\* EvidenceReference: "current" is the revision that is being extracted.
Evidence ==
  {ev \in [revision : {"current", "other"},
           start    : Segment,
           end      : Segment,
           segments : (SUBSET Segment) \ {{}}] :
     ev.start < ev.end}

Entry ==
  [topic : Topics, evidence : Seq(Evidence) \ {<<>>},
   fields : [GroundedField -> Segment \cup {None}]]

Cited(entry) ==
  UNION {entry.evidence[k].segments : k \in DOMAIN entry.evidence}

-----------------------------------------------------------------------------
(* The gateway.                                                            *)

RevisionMismatch(ev) == ev.revision # "current"
UnknownSegment(ev, n) == \E s \in ev.segments : s >= n
RangeMismatch(ev) == \E s \in ev.segments : ev.start >= s + 1 \/ ev.end <= s

\* _normalize_entry returns a rejection.
Rejected(entry, n) ==
  \E k \in DOMAIN entry.evidence :
    LET ev == entry.evidence[k]
    IN  RevisionMismatch(ev) \/ UnknownSegment(ev, n) \/ RangeMismatch(ev)

\* The range is the one that the cited segments span.
ModelRange(ev) == ev
SwappedRange(ev) ==
  [ev EXCEPT !.start = Max(ev.segments), !.end = Min(ev.segments) + 1]
NormalizedEvidence(ev) ==
  [ev EXCEPT !.start = Min(ev.segments), !.end = Max(ev.segments) + 1]

\* _is_verbatim_quote and _supported_by_evidence: what the cited text does
\* not contain becomes null.
GroundedValue(value, cited) == IF value \in cited THEN value ELSE None

NormalizeEntry(entry) ==
  [topic    |-> entry.topic,
   evidence |-> [k \in DOMAIN entry.evidence |->
                   NormalizedEvidence(entry.evidence[k])],
   fields   |-> [f \in GroundedField |->
                   GroundedValue(entry.fields[f], Cited(entry))]]

\* _entry_identity: what the same observation in two windows has in common.
EntryIdentity(entry) == <<entry.topic, Cited(entry)>>

-----------------------------------------------------------------------------
(* The evidence API's rule for a new entry of a session.                   *)

\* session_record.duration_ms: None, or a time nobody compares with the segments.
Duration == Segment \cup {None}

ValidateEvidence(entry, n, duration) ==
  /\ \A k \in DOMAIN entry.evidence :
       LET ev == entry.evidence[k]
       IN  /\ ev.revision = "current"
           /\ duration = None \/ ev.end <= duration
           /\ \A s \in ev.segments : s < n
           /\ \A s \in ev.segments : s < ev.end /\ s + 1 > ev.start
           /\ ev.start = Min(ev.segments)
           /\ ev.end = Max(ev.segments) + 1
  /\ entry.fields["exact_coach_feedback"] \in Cited(entry) \cup {None}
=============================================================================
