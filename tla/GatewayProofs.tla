---------------------------- MODULE GatewayProofs ----------------------------
(***************************************************************************)
(* Proofs about ExtractionGateway, for every transcript length, window     *)
(* size, overlap, number of threads and answer of the model.               *)
(***************************************************************************)
EXTENDS ExtractionGateway, TLAPS, WellFoundedInduction,
        SequenceTheorems

(* A non-empty set of segments has a first and a last one, as _normalize_  *)
(* entry's min and max assume.                                             *)
LEMMA FirstAndLast ==
  ASSUME NEW S \in SUBSET Segment, S # {}
  PROVE  /\ Min(S) \in S /\ Max(S) \in S
         /\ \A s \in S : Min(S) <= s /\ s <= Max(S)
<1> USE SegmentsAssumption DEF Segment
<1>1. \A T \in SUBSET Nat : T # {} => \E x \in T : \A y \in T : x <= y
  <2> SUFFICES ASSUME NEW T \in SUBSET Nat, T # {}
               PROVE  \E x \in T : \A y \in T : x <= y
    OBVIOUS
  <2>1. PICK x \in T : \A y \in T : ~(<<y, x>> \in OpToRel(<, Nat))
    BY NatLessThanWellFounded, WFMin
  <2>2. \A y \in T : ~(y < x)
    BY <2>1 DEF OpToRel
  <2>3. QED
    BY <2>2
<1>2. \E x \in S : \A y \in S : x <= y
  BY <1>1
<1>3. \E x \in S : \A y \in S : x >= y
  <2> DEFINE T == {MaxSegments - s : s \in S}
  <2>0. \A s \in S : s \in Nat /\ MaxSegments - s \in Nat
    OBVIOUS
  <2>1. T \in SUBSET Nat /\ T # {}
    BY <2>0
  <2>2. PICK x \in T : \A y \in T : x <= y
    BY <1>1, <2>1
  <2>3. PICK s \in S : x = MaxSegments - s
    OBVIOUS
  <2>4. \A y \in S : MaxSegments - s <= MaxSegments - y
    BY <2>2, <2>3
  <2>5. QED
    BY <2>4
<1>4. QED
  BY <1>2, <1>3 DEF Min, Max

(* What the gateway does not reject it turns into an entry that passes the *)
(* evidence API's check, unless it cites what lies beyond the duration.    *)
LEMMA NormalizedIsValid ==
  ASSUME NEW e \in Entry, NEW m \in 0 .. MaxSegments, ~Rejected(e, m)
  PROVE  /\ NormalizeEntry(e) \in Entry
         /\ \A d \in Duration :
              ValidateEvidence(NormalizeEntry(e), m, d) <=>
                d = None \/ \A s \in Cited(NormalizeEntry(e)) : s < d
<1> DEFINE N == NormalizeEntry(e)
<1> USE SegmentsAssumption
<1>1. /\ e.evidence \in Seq(Evidence) /\ e.evidence # <<>>
      /\ e.fields \in [GroundedField -> Segment \cup {None}]
      /\ e.topic \in Topics
  BY DEF Entry
<1>2. /\ N.topic = e.topic
      /\ N.evidence = [k \in DOMAIN e.evidence |->
                         NormalizedEvidence(e.evidence[k])]
      /\ N.fields = [f \in GroundedField |->
                       GroundedValue(e.fields[f], Cited(e))]
      /\ N = [topic |-> e.topic, evidence |-> N.evidence, fields |-> N.fields]
  BY DEF NormalizeEntry, Entry
<1>3. ASSUME NEW k \in DOMAIN e.evidence
      PROVE  LET ev == e.evidence[k]
                 nv == N.evidence[k]
             IN  /\ nv \in Evidence
                 /\ nv.segments = ev.segments
                 /\ nv.revision = "current"
                 /\ \A s \in nv.segments : s < m
                 /\ nv.start = Min(nv.segments)
                 /\ nv.end = Max(nv.segments) + 1
                 /\ \A s \in nv.segments : s < nv.end /\ s + 1 > nv.start
                 /\ \A d \in Segment :
                      nv.end <= d <=> \A s \in nv.segments : s < d
  <2> DEFINE ev == e.evidence[k]
             nv == N.evidence[k]
  <2>1. ev \in Evidence
    BY <1>1
  <2>2. /\ ev.revision = "current"
        /\ \A s \in ev.segments : s < m
    BY <2>1 DEF Rejected, RevisionMismatch, UnknownSegment, Evidence, Segment
  <2>3. /\ ev.segments \in SUBSET Segment /\ ev.segments # {}
    BY <2>1 DEF Evidence
  <2>4. nv = NormalizedEvidence(ev)
    BY <1>2
  <2>5. /\ nv.segments = ev.segments /\ nv.revision = ev.revision
        /\ nv.start = Min(ev.segments) /\ nv.end = Max(ev.segments) + 1
        /\ nv = [revision |-> nv.revision, start |-> nv.start,
                 end |-> nv.end, segments |-> nv.segments]
    BY <2>1, <2>4 DEF NormalizedEvidence, Evidence
  <2>6. /\ Min(ev.segments) \in Segment /\ Max(ev.segments) \in Segment
        /\ Max(ev.segments) < m
        /\ Min(ev.segments) <= Max(ev.segments)
        /\ Max(ev.segments) \in ev.segments
        /\ \A s \in ev.segments : Min(ev.segments) <= s /\ s <= Max(ev.segments)
    BY <2>2, <2>3, FirstAndLast
  <2>7. /\ \A s \in ev.segments : s \in Nat
        /\ Min(ev.segments) \in Nat /\ Max(ev.segments) \in Nat
        /\ Max(ev.segments) + 1 \in Segment
    BY <2>3, <2>6 DEF Segment
  <2>8. nv \in Evidence
    BY <2>2, <2>3, <2>5, <2>6, <2>7 DEF Evidence
  <2>9. \A s \in nv.segments : s < nv.end /\ s + 1 > nv.start
    BY <2>5, <2>6, <2>7
  <2>10. \A d \in Segment : nv.end <= d <=> \A s \in nv.segments : s < d
    BY <2>5, <2>6, <2>7 DEF Segment
  <2>11. QED
    BY <2>2, <2>5, <2>8, <2>9, <2>10
<1>4. /\ DOMAIN N.evidence = DOMAIN e.evidence
      /\ N.evidence \in Seq(Evidence) /\ N.evidence # <<>>
  <2>1. DOMAIN N.evidence = 1 .. Len(e.evidence) /\ Len(e.evidence) \in Nat
    BY <1>1, <1>2
  <2>2. \A k \in 1 .. Len(e.evidence) : N.evidence[k] \in Evidence
    BY <1>1, <1>3
  <2>3. N.evidence \in [1 .. Len(e.evidence) -> Evidence]
    BY <1>1, <1>2, <2>1, <2>2
  <2>4. QED
    BY <1>1, <2>1, <2>3
<1>5. Cited(N) = Cited(e)
  BY <1>3, <1>4 DEF Cited
<1>6. N.fields \in [GroundedField -> Segment \cup {None}]
  BY <1>1, <1>2 DEF GroundedValue
<1>7. N \in Entry
  BY <1>1, <1>2, <1>4, <1>6 DEF Entry
<1>8. N.fields["exact_coach_feedback"] \in Cited(N) \cup {None}
  BY <1>2, <1>5 DEF GroundedValue, GroundedField
<1>9. ASSUME NEW d \in Duration
      PROVE  ValidateEvidence(N, m, d) <=>
               d = None \/ \A s \in Cited(N) : s < d
  <2>1. ValidateEvidence(N, m, d) <=>
          \A k \in DOMAIN N.evidence : d = None \/ N.evidence[k].end <= d
    BY <1>3, <1>4, <1>8 DEF ValidateEvidence
  <2>2. CASE d = None
    BY <2>1, <2>2
  <2>3. CASE d # None
    <3>1. d \in Segment
      BY <2>3 DEF Duration
    <3>2. \A k \in DOMAIN N.evidence :
            N.evidence[k].end <= d <=>
              \A s \in N.evidence[k].segments : s < d
      BY <1>3, <1>4, <3>1
    <3>3. (\A s \in Cited(N) : s < d) <=>
            \A k \in DOMAIN N.evidence : \A s \in N.evidence[k].segments : s < d
      BY DEF Cited
    <3>4. QED
      BY <2>1, <2>3, <3>2, <3>3
  <2>4. QED
    BY <2>2, <2>3
<1>10. QED
  BY <1>7, <1>9

-----------------------------------------------------------------------------
(* Sequences that grow at their end.                                       *)
LEMMA AppendFacts ==
  ASSUME NEW T, NEW s \in Seq(T), NEW e \in T
  PROVE  /\ Append(s, e) \in Seq(T)
         /\ Len(s) \in Nat /\ DOMAIN s = 1 .. Len(s)
         /\ Len(Append(s, e)) = Len(s) + 1
         /\ DOMAIN Append(s, e) = 1 .. Len(s) + 1
         /\ Append(s, e)[Len(s) + 1] = e
         /\ \A i \in DOMAIN s : /\ i \in DOMAIN Append(s, e)
                               /\ Append(s, e)[i] = s[i]
  OBVIOUS

-----------------------------------------------------------------------------
(* The windows.                                                            *)

(* A short transcript is one window.                                       *)
LEMMA OneWindow ==
  ASSUME NEW m \in Nat
  PROVE  Promise!SeenWhole(<<<<0, m>>>>, m)
<1>1. \A a, b \in 0 .. m - 1 : Promise!InWindow(<<<<0, m>>>>[1], a, b)
  BY DEF Promise!InWindow
<1>2. 1 \in DOMAIN <<<<0, m>>>>
  OBVIOUS
<1>3. QED
  BY <1>1, <1>2 DEF Promise!SeenWhole

(* What Submit leaves behind, for the two places that call it.             *)
LEMMA SubmitTypes ==
  ASSUME NEW ws \in Seq(Nat \X Nat), Submit(ws)
  PROVE  /\ windows' \in Seq(Nat \X Nat)
         /\ call' \in Seq(CallStatus)
         /\ payload' \in Seq(Payloads \cup Failures \cup {None})
         /\ Len(call') = Len(payload') /\ Len(call') = Len(windows')
         /\ \A i \in DOMAIN call' : call'[i] = "queued" /\ payload'[i] = None
         /\ DOMAIN call' = DOMAIN ws
<1>1. DOMAIN ws = 1 .. Len(ws) /\ Len(ws) \in Nat
  OBVIOUS
<1>2. QED
  BY <1>1 DEF Submit, CallStatus

(* The window cut at start sees whole every moment that begins in the next *)
(* Step segments, and every remaining one if it is the last.               *)
LEMMA WindowCovers ==
  ASSUME n \in Nat, start \in Nat, start < n,
         NEW a \in 0 .. n - 1, NEW b \in 0 .. n - 1,
         start <= a, a <= b, b - a <= Overlap,
         a < start + Step \/ LastWindow
  PROVE  Promise!InWindow(Window(start), a, b)
  BY SettingsAssumption DEF Promise!InWindow, Window, Step, LastWindow

(* Every step of the gateway keeps SplitInv.                               *)
LEMMA SplitInvStep ==
  ASSUME IInv, [Next]_vars
  PROVE  SplitInv'
<1> USE SettingsAssumption, SegmentsAssumption DEF IInv, TypeOK
<1>1. CASE Post
  <2>1. windows = <<>> /\ start' = 0 /\ n' \in Nat
    BY <1>1 DEF Post, SplitInv, merge
  <2>2. CASE n' <= Size
    <3>1. pc' = "call" /\ windows' = <<<<0, n'>>>>
      BY <1>1, <2>2 DEF Post, Submit
    <3>2. windows' # <<>> /\ DOMAIN windows' = {1} /\ windows'[1] = <<0, n'>>
      BY <3>1
    <3>3. Promise!SeenWhole(windows', n')
      BY <2>1, <3>1, OneWindow
    <3>4. QED
      BY <2>1, <2>2, <3>1, <3>2, <3>3 DEF SplitInv
  <2>3. CASE ~(n' <= Size)
    <3>1. pc' = "split" /\ windows' = <<>>
      BY <1>1, <2>1, <2>3 DEF Post
    <3>2. DOMAIN windows' = {}
      BY <3>1
    <3>3. \A a \in 0 .. n' - 1 : ~(a < start')
      BY <2>1
    <3>4. Size < n' /\ start' < n'
      BY <2>1, <2>3
    <3>5. QED
      BY <3>1, <3>2, <3>3, <3>4 DEF SplitInv
  <2>4. QED
    BY <2>2, <2>3
<1>2. CASE Split
  <2> DEFINE ws == Append(windows, Window(start))
             k  == Len(windows) + 1
  <2>1. pc = "split" /\ n' = n /\ n \in Nat /\ start \in Nat /\ start < n
        /\ Size < n
    BY <1>2 DEF Split, SplitInv
  <2>2. /\ ws \in Seq(Nat \X Nat) /\ windows' = ws
        /\ DOMAIN windows = 1 .. Len(windows) /\ Len(windows) \in Nat
        /\ DOMAIN ws = 1 .. k /\ ws[k] = Window(start)
        /\ \A i \in DOMAIN windows : i \in DOMAIN ws /\ ws[i] = windows[i]
    <3>1. Window(start) \in Nat \X Nat
      BY <2>1 DEF Window
    <3>2. windows \in Seq(Nat \X Nat)
      OBVIOUS
    <3>3. windows' = ws
      BY <1>2 DEF Split, Submit
    <3> HIDE DEF IInv, TypeOK
    <3>4. ws \in Seq(Nat \X Nat) /\ Len(windows) \in Nat
      BY <3>1, <3>2
    <3>5. DOMAIN windows = 1 .. Len(windows) /\ DOMAIN ws = 1 .. k
      BY <3>1, <3>2
    <3>6. ws[k] = Window(start)
      BY <3>1, <3>2
    <3>7. \A i \in DOMAIN windows : i \in DOMAIN ws /\ ws[i] = windows[i]
      BY <3>1, <3>2, <3>4, <3>5
    <3>8. QED
      BY <3>3, <3>4, <3>5, <3>6, <3>7
  <2>3. \A i \in DOMAIN ws : ws[i][2] - ws[i][1] <= Size
    <3>1. Window(start)[2] - Window(start)[1] <= Size
      BY <2>1 DEF Window
    <3>2. \A i \in DOMAIN windows : windows[i][2] - windows[i][1] <= Size
      BY DEF SplitInv
    <3> HIDE DEF IInv, TypeOK, ws
    <3>3. \A i \in DOMAIN ws : i \in DOMAIN windows \/ i = k
      BY <2>2
    <3>4. QED
      BY <2>2, <3>1, <3>2, <3>3
  <2>4. ASSUME NEW a \in 0 .. n - 1, NEW b \in 0 .. n - 1,
               a <= b, b - a <= Overlap, a < start + Step \/ LastWindow
        PROVE  \E i \in DOMAIN ws : Promise!InWindow(ws[i], a, b)
    <3>1. CASE a < start
      <4>1. PICK i \in DOMAIN windows : Promise!InWindow(windows[i], a, b)
        BY <2>1, <2>4, <3>1 DEF SplitInv
      <4>2. QED
        BY <2>2, <4>1
    <3>2. CASE ~(a < start)
      <4>1. Promise!InWindow(Window(start), a, b)
        BY <2>1, <2>4, <3>2, WindowCovers
      <4>2. k \in DOMAIN ws
        BY <2>2
      <4>3. QED
        BY <2>2, <4>1, <4>2
    <3>3. QED
      BY <3>1, <3>2
  <2>5. CASE LastWindow
    <3>1. pc' = "call" /\ ws # <<>>
      BY <1>2, <2>2, <2>5 DEF Split, Submit
    <3>2. Promise!SeenWhole(ws, n)
      BY <2>4, <2>5 DEF Promise!SeenWhole
    <3>3. QED
      BY <2>1, <2>2, <2>3, <3>1, <3>2 DEF SplitInv
  <2>6. CASE ~LastWindow
    <3>1. pc' = "split" /\ start' = start + Step
      BY <1>2, <2>1, <2>6 DEF Split
    <3>2. start' < n
      BY <2>1, <2>6, <3>1 DEF LastWindow, Step
    <3>3. QED
      BY <2>1, <2>2, <2>3, <2>4, <3>1, <3>2 DEF SplitInv
  <2>7. QED
    BY <2>5, <2>6
<1>3. CASE ~Post /\ ~Split
  <2>1. /\ UNCHANGED split
        /\ pc \in {"idle", "split"} => pc' = pc
        /\ pc \notin {"idle", "split"} => pc' \notin {"idle", "split"}
    BY <1>3 DEF Next, StartCall, EndCall, Collect, CollectRaises, Raise,
        RefuseAnswer, CoerceEntry, Answer, vars, PoolInv
  <2>2. UNCHANGED <<n, start, windows>>
    BY <2>1 DEF split
  <2>3. QED
    BY <2>1, <2>2 DEF SplitInv
<1>4. QED
  BY <1>1, <1>2, <1>3

-----------------------------------------------------------------------------
(* Types.                                                                  *)

(* An entry that the merge loop looks at is an Entry; what it keeps is one *)
(* that the evidence API refuses for the duration only.                    *)
LEMMA EntryAtCursor ==
  ASSUME TypeOK, NEW i \in DOMAIN results, results[i] # Invalid,
         NEW j \in DOMAIN results[i]
  PROVE  /\ results[i] \in Seq(Entry) /\ results[i][j] \in Entry
         /\ ~Rejected(results[i][j], n) =>
              /\ NormalizeEntry(results[i][j]) \in Entry
              /\ \A d \in Duration :
                   ValidateEvidence(NormalizeEntry(results[i][j]), n, d) <=>
                     \/ d = None
                     \/ \A s \in Cited(NormalizeEntry(results[i][j])) : s < d
<1>1. results[i] \in Payloads
  BY DEF TypeOK
<1>2. results[i] \in Seq(Entry)
  BY <1>1, AnswersAssumption
<1>3. results[i][j] \in Entry
  BY <1>2
<1>4. n \in 0 .. MaxSegments
  BY DEF TypeOK
<1>5. QED
  BY <1>2, <1>3, <1>4, NormalizedIsValid

(* Every step keeps the types.                                             *)
LEMMA TypeOKStep ==
  ASSUME IInv, [Next]_vars
  PROVE  TypeOK'
<1> USE SettingsAssumption, SegmentsAssumption
<1>a. TypeOK
  BY DEF IInv
<1>1. CASE Post
  <2>1. CASE n' <= Size
    <3>1. Submit(<<<<0, n'>>>>) /\ n' \in 0 .. MaxSegments
      BY <1>1, <2>1 DEF Post
    <3>2. <<<<0, n'>>>> \in Seq(Nat \X Nat)
      BY <3>1
    <3>3. pc' = "call"
      BY <3>1 DEF Submit
    <3>4. UNCHANGED <<start, results, cursor, entries>>
      BY <1>1 DEF Post, merge
    <3>5. QED
      BY <1>a, <3>1, <3>2, <3>3, <3>4, SubmitTypes DEF TypeOK
  <2>2. CASE ~(n' <= Size)
    BY <1>a, <1>1, <2>2 DEF Post, TypeOK, merge
  <2>3. QED
    BY <2>1, <2>2
<1>2. CASE Split
  <2>1. /\ UNCHANGED <<n, results, cursor, entries>>
        /\ start \in Nat /\ n \in Nat /\ windows \in Seq(Nat \X Nat)
    BY <1>a, <1>2 DEF Split, merge, TypeOK
  <2>2. Window(start) \in Nat \X Nat
    BY <2>1 DEF Window
  <2>3. Append(windows, Window(start)) \in Seq(Nat \X Nat)
    BY <2>1, <2>2
  <2>4. CASE LastWindow
    <3>1. Submit(Append(windows, Window(start))) /\ start' = start
      BY <1>2, <2>4 DEF Split
    <3>2. pc' = "call"
      BY <3>1 DEF Submit
    <3>3. QED
      BY <1>a, <2>1, <2>3, <3>1, <3>2, SubmitTypes DEF TypeOK
  <2>5. CASE ~LastWindow
    <3>1. start' = start + Step /\ start + Step \in Nat
      BY <1>2, <2>1, <2>5 DEF Split, Step
    <3>2. /\ windows' = Append(windows, Window(start))
          /\ UNCHANGED <<pc, call, payload>> /\ pc = "split"
      BY <1>2, <2>5 DEF Split
    <3>3. QED
      BY <1>a, <2>1, <2>3, <3>1, <3>2 DEF TypeOK
  <2>6. QED
    BY <2>4, <2>5
<1>3. ASSUME NEW i \in DOMAIN call, StartCall(i) \/ EndCall(i)
      PROVE  TypeOK'
  <2>1. UNCHANGED <<pc, n, start, windows, results, cursor, entries>>
    BY <1>3 DEF StartCall, EndCall, split, merge
  <2>2. /\ call' \in Seq(CallStatus)
        /\ payload' \in Seq(Payloads \cup Failures \cup {None})
        /\ Len(call') = Len(call) /\ Len(payload') = Len(payload)
    <3>1. call \in Seq(CallStatus)
          /\ payload \in Seq(Payloads \cup Failures \cup {None})
          /\ i \in DOMAIN payload
      BY <1>a DEF TypeOK
    <3>2. CASE StartCall(i)
      BY <3>1, <3>2, ExceptSeq DEF StartCall, CallStatus
    <3>3. CASE EndCall(i)
      <4>1. PICK a \in Payloads \cup Failures :
              /\ payload' = [payload EXCEPT ![i] = a]
              /\ call' = [call EXCEPT
                            ![i] = IF a \in Failures THEN "raised"
                                   ELSE "returned"]
        BY <3>3 DEF EndCall
      <4>2. QED
        BY <3>1, <4>1, ExceptSeq DEF CallStatus
    <3>4. QED
      BY <1>3, <3>2, <3>3
  <2>3. QED
    BY <1>a, <2>1, <2>2 DEF TypeOK
<1>4. CASE Collect
  <2>1. payload[Due] \in Payloads
    BY <1>4 DEF Collect, IInv, PoolInv
  <2>2. results' \in Seq(Payloads)
    BY <1>a, <1>4, <2>1 DEF Collect, TypeOK
  <2>3. QED
    BY <1>a, <1>4, <2>2 DEF Collect, TypeOK, split, merge
<1>5. CASE CollectRaises
  <2>1. /\ call' \in Seq(CallStatus)
        /\ Len(call') = Len(call)
    <3>1. call \in Seq(CallStatus) /\ DOMAIN call = 1 .. Len(call)
          /\ Len(call) \in Nat
      BY <1>a DEF TypeOK
    <3>2. call' = [i \in 1 .. Len(call) |->
                     IF call[i] = "queued" THEN "cancelled" ELSE call[i]]
      BY <1>5, <3>1 DEF CollectRaises
    <3>3. \A i \in 1 .. Len(call) : call[i] \in CallStatus
      BY <3>1
    <3>4. call' \in [1 .. Len(call) -> CallStatus]
      BY <3>2, <3>3 DEF CallStatus
    <3>5. QED
      BY <3>1, <3>4
  <2>2. QED
    BY <1>a, <1>5, <2>1 DEF CollectRaises, TypeOK, split, merge
<1>6. CASE Raise \/ RefuseAnswer \/ Answer
  BY <1>a, <1>6 DEF Raise, RefuseAnswer, Answer, TypeOK, split, pool, merge
<1>7. CASE CoerceEntry
  <2> DEFINE c == cursor[1]
  <2>1. /\ c \in Nat \ {0} /\ cursor[2] \in Nat /\ c \in DOMAIN results
        /\ results[c] # Invalid
    BY <1>a, <1>7 DEF CoerceEntry, TypeOK
  <2>2. results[c] \in Seq(Entry)
    BY <1>a, <2>1, AnswersAssumption DEF TypeOK
  <2>3. entries' \in Seq(Entry)
    <3>1. CASE cursor[2] < Len(results[c])
      <4>1. cursor[2] + 1 \in DOMAIN results[c]
        BY <2>1, <2>2, <3>1
      <4>2. entries' = Coerced(results[c][cursor[2] + 1])
        BY <1>7, <3>1 DEF CoerceEntry
      <4>3. Coerced(results[c][cursor[2] + 1]) \in Seq(Entry)
        BY <1>a, <2>1, <4>1, EntryAtCursor DEF Coerced, TypeOK
      <4>4. QED
        BY <4>2, <4>3
    <3>2. CASE ~(cursor[2] < Len(results[c]))
      BY <1>a, <1>7, <3>2 DEF CoerceEntry, TypeOK
    <3>3. QED
      BY <3>1, <3>2
  <2>4. cursor' \in (Nat \ {0}) \X Nat
    BY <1>7, <2>1 DEF CoerceEntry, NextAnswer
  <2>5. QED
    BY <1>a, <1>7, <2>3, <2>4 DEF CoerceEntry, TypeOK, split, pool
<1>8. CASE UNCHANGED vars
  BY <1>a, <1>8 DEF vars, split, pool, merge, TypeOK
<1>9. QED
  BY <1>1, <1>2, <1>3, <1>4, <1>5, <1>6, <1>7, <1>8 DEF Next

-----------------------------------------------------------------------------
(* The pool.                                                               *)

(* Every step keeps the pool's futures, their answers and the collected    *)
(* results together.                                                       *)
LEMMA PoolInvStep ==
  ASSUME IInv, [Next]_vars
  PROVE  PoolInv'
<1> USE DEF NoCallOutlivesRequest
<1>a. TypeOK /\ PoolInv
  BY DEF IInv
<1>b. /\ DOMAIN call = 1 .. Len(call) /\ Len(call) \in Nat
      /\ DOMAIN payload = 1 .. Len(call)
      /\ DOMAIN results = 1 .. Len(results) /\ Len(results) \in Nat
  BY <1>a DEF TypeOK
<1>c. Len(results) <= Len(call)
  BY <1>a DEF PoolInv
<1>d. \A i \in DOMAIN results : i \in DOMAIN call
  <2>1. \A i \in 1 .. Len(results) : i \in 1 .. Len(call)
    BY <1>b, <1>c
  <2>2. QED
    BY <1>b, <2>1
<1>1. ASSUME results = <<>>, UNCHANGED results,
             NEW ws \in Seq(Nat \X Nat), ws # <<>>, Submit(ws)
      PROVE  PoolInv'
  <2>1. pc' = "call" /\ Len(results') = 0 /\ DOMAIN results' = {}
    BY <1>1 DEF Submit
  <2>2. /\ \A i \in DOMAIN call' : call'[i] = "queued" /\ payload'[i] = None
        /\ Len(call') \in Nat \ {0}
    BY <1>1, SubmitTypes
  <2>3. None \notin Payloads /\ None \notin Failures
    BY AnswersAssumption
  <2>4. QED
    BY <2>1, <2>2, <2>3 DEF PoolInv
<1>2. CASE Post
  <2>1. results = <<>> /\ call = <<>> /\ UNCHANGED results
    BY <1>a, <1>2 DEF Post, PoolInv
  <2>2. CASE n' <= Size
    <3>1. Submit(<<<<0, n'>>>>) /\ n' \in Nat
      BY <1>2, <2>2, SegmentsAssumption DEF Post
    <3>2. <<<<0, n'>>>> \in Seq(Nat \X Nat) /\ <<<<0, n'>>>> # <<>>
      BY <3>1
    <3>3. QED
      BY <1>1, <2>1, <3>1, <3>2
  <2>3. CASE ~(n' <= Size)
    BY <1>a, <1>2, <2>1, <2>3 DEF Post, PoolInv
  <2>4. QED
    BY <2>2, <2>3
<1>3. CASE Split
  <2>1. results = <<>> /\ call = <<>> /\ UNCHANGED results
    BY <1>a, <1>3 DEF Split, PoolInv
  <2>2. CASE LastWindow
    <3>1. Submit(Append(windows, Window(start)))
      BY <1>3, <2>2 DEF Split
    <3>2. /\ windows \in Seq(Nat \X Nat) /\ Window(start) \in Nat \X Nat
      BY <1>a, SettingsAssumption, SegmentsAssumption DEF TypeOK, Window
    <3>3. /\ Append(windows, Window(start)) \in Seq(Nat \X Nat)
          /\ Append(windows, Window(start)) # <<>>
      BY SMTT(30), <3>2
    <3>4. QED
      BY <1>1, <2>1, <3>1, <3>3
  <2>3. CASE ~LastWindow
    BY <1>a, <1>3, <2>1, <2>3 DEF Split, PoolInv
  <2>4. QED
    BY <2>2, <2>3
<1>4. ASSUME NEW i \in DOMAIN call, StartCall(i)
      PROVE  PoolInv'
  <2>1. /\ UNCHANGED <<pc, payload, results>> /\ call[i] = "queued"
        /\ call' = [call EXCEPT ![i] = "running"] /\ Due' = Due
    BY <1>4 DEF StartCall, Due
  <2>2. /\ DOMAIN call' = DOMAIN call /\ Len(call') = Len(call)
        /\ call'[i] = "running"
        /\ \A j \in DOMAIN call : j # i => call'[j] = call[j]
    BY <1>b, <2>1
  <2>3. \A j \in DOMAIN results : j # i
    BY <1>a, <2>1 DEF PoolInv
  <2>4. DOMAIN results \subseteq DOMAIN call
    BY <1>d
  <2>5. /\ payload[i] \notin Payloads /\ payload[i] \notin Failures
        /\ pc # "shutdown" /\ pc \notin {"idle", "split"}
    BY <1>a, <2>1 DEF PoolInv
  <2>6. QED
    BY <1>a, <2>1, <2>2, <2>3, <2>4, <2>5 DEF PoolInv
<1>5. ASSUME NEW i \in DOMAIN call, EndCall(i)
      PROVE  PoolInv'
  <2>1. PICK a \in Payloads \cup Failures :
          /\ payload' = [payload EXCEPT ![i] = a]
          /\ call' = [call EXCEPT
                        ![i] = IF a \in Failures THEN "raised" ELSE "returned"]
    BY <1>5 DEF EndCall
  <2>2. UNCHANGED <<pc, results>> /\ call[i] = "running" /\ Due' = Due
    BY <1>5 DEF EndCall, Due
  <2>3. a \in Payloads <=> a \notin Failures
    BY AnswersAssumption
  <2>4. \A j \in DOMAIN results : j # i
    BY <1>a, <2>2 DEF PoolInv
  <2>5. DOMAIN results \subseteq DOMAIN call /\ pc \notin {"idle", "split"}
    BY <1>a, <1>d DEF PoolInv
  <2>6. /\ DOMAIN call' = DOMAIN call /\ Len(call') = Len(call)
        /\ payload'[i] = a
        /\ call'[i] = IF a \in Failures THEN "raised" ELSE "returned"
        /\ \A j \in DOMAIN call :
             j # i => call'[j] = call[j] /\ payload'[j] = payload[j]
    BY <1>b, <2>1
  <2>7. \A j \in DOMAIN call' :
          /\ call'[j] = "returned" <=> payload'[j] \in Payloads
          /\ call'[j] = "raised" <=> payload'[j] \in Failures
    BY <1>a, <2>3, <2>6 DEF PoolInv
  <2>8. \A j \in DOMAIN results :
          call'[j] = "returned" /\ results[j] = payload'[j]
    BY <1>a, <2>4, <2>5, <2>6 DEF PoolInv
  <2>9. pc = "shutdown" => /\ Due \in DOMAIN call /\ call'[Due] = "raised"
                           /\ \A j \in DOMAIN call : call'[j] # "queued"
    BY <1>a, <2>2, <2>6 DEF PoolInv
  <2>10. QED
    BY <1>a, <2>2, <2>5, <2>6, <2>7, <2>8, <2>9 DEF PoolInv
<1>6. CASE Collect
  <2>1. /\ pc = "call" /\ Due \in DOMAIN call /\ call[Due] = "returned"
        /\ UNCHANGED <<call, payload>>
        /\ results' = Append(results, payload[Due])
        /\ pc' = IF Due = Len(windows) THEN "coerce" ELSE pc
        /\ Len(call) = Len(windows)
    BY <1>a, <1>6 DEF Collect, TypeOK
  <2>2. results \in Seq(Payloads) /\ payload[Due] \in Payloads
    BY <1>a, <2>1 DEF TypeOK, PoolInv
  <2>3. /\ Len(results') = Len(results) + 1
        /\ DOMAIN results' = 1 .. Len(results) + 1
        /\ results'[Len(results) + 1] = payload[Due]
        /\ \A i \in DOMAIN results : results'[i] = results[i]
    BY <2>1, <2>2, AppendFacts
  <2>4. \A i \in DOMAIN results' :
          call[i] = "returned" /\ results'[i] = payload[i]
    <3> SUFFICES ASSUME NEW i \in DOMAIN results'
                 PROVE  call[i] = "returned" /\ results'[i] = payload[i]
      OBVIOUS
    <3>1. CASE i \in DOMAIN results
      BY <1>a, <2>3, <3>1 DEF PoolInv
    <3>2. CASE i = Len(results) + 1
      BY <2>1, <2>3, <3>2 DEF Due
    <3>3. QED
      BY <1>b, <2>3, <3>1, <3>2
  <2>5. Len(results) + 1 <= Len(call)
    <3>1. Len(results) + 1 \in 1 .. Len(call)
      BY <1>b, <2>1 DEF Due
    <3>2. QED
      BY <1>b, <3>1
  <2>6. CASE Due = Len(windows)
    BY <1>a, <2>1, <2>3, <2>4, <2>5, <2>6 DEF PoolInv, Due
  <2>7. CASE Due # Len(windows)
    <3>0. Len(results) + 1 # Len(call) /\ pc' = "call"
      BY <2>1, <2>7 DEF Due
    <3>1. Len(results') < Len(call)
      <4>1. Len(call) \in Nat /\ Len(results) \in Nat
        BY <1>b
      <4>2. \A x, y \in Nat : x + 1 <= y /\ x + 1 # y => x + 1 < y
        OBVIOUS
      <4>3. Len(results) + 1 < Len(call)
        BY <2>5, <3>0, <4>1, <4>2
      <4>4. QED
        BY <2>3, <4>3
    <3>2. QED
      BY <1>a, <2>1, <2>3, <2>4, <2>5, <3>0, <3>1 DEF PoolInv
  <2>8. QED
    BY <2>6, <2>7
<1>7. CASE CollectRaises
  <2>1. /\ pc = "call" /\ pc' = "shutdown" /\ Due' = Due
        /\ UNCHANGED <<payload, results>>
        /\ Due \in DOMAIN call /\ call[Due] = "raised"
        /\ call' = [i \in DOMAIN call |->
                      IF call[i] = "queued" THEN "cancelled" ELSE call[i]]
    BY <1>7 DEF CollectRaises, Due
  <2>2. DOMAIN call' = DOMAIN call /\ Len(call') = Len(call)
    BY <1>b, <2>1
  <2>3. QED
    BY <1>a, <1>b, <2>1, <2>2 DEF PoolInv
<1>8. CASE Raise \/ RefuseAnswer \/ CoerceEntry \/ Answer
  <2>1. /\ UNCHANGED <<call, payload, results>> /\ Due' = Due
        /\ pc \in {"shutdown", "coerce"} /\ pc' \in {pc, "done"}
    BY <1>8 DEF Raise, RefuseAnswer, CoerceEntry, Answer, pool, Due
  <2>2. \A i \in DOMAIN call : call[i] # "queued"
    <3>1. CASE pc = "shutdown"
      BY <1>a, <3>1 DEF PoolInv
    <3>2. CASE pc = "coerce"
      BY <1>a, <1>b, <3>2 DEF PoolInv
    <3>3. QED
      BY <2>1, <3>1, <3>2
  <2>3. \A i \in DOMAIN call : pc' = "done" => call[i] # "running"
    <3>1. CASE Raise
      BY <3>1 DEF Raise, PoolIdle, Running
    <3>2. CASE ~Raise
      <4>1. pc = "coerce"
        BY <1>8, <3>2 DEF RefuseAnswer, CoerceEntry, Answer
      <4>2. QED
        BY <1>a, <1>b, <4>1 DEF PoolInv
    <3>3. QED
      BY <3>1, <3>2
  <2>4. QED
    BY <1>a, <2>1, <2>2, <2>3 DEF PoolInv
<1>9. CASE UNCHANGED vars
  BY <1>a, <1>9 DEF vars, pool, PoolInv, Due
<1>10. QED
  BY <1>2, <1>3, <1>4, <1>5, <1>6, <1>7, <1>8, <1>9 DEF Next

-----------------------------------------------------------------------------
(* The merge.                                                              *)

(* Before the merge begins MergeInv says little; a step that does not      *)
(* touch cursor, entries and response keeps it.                            *)
LEMMA MergeNotBegun ==
  ASSUME IInv, TypeOK', pc \notin {"coerce", "done"}, pc' # "done",
         cursor' = cursor, entries' = entries, response' = response
  PROVE  MergeInv'
<1>1. cursor' = <<1, 0>> /\ entries' = <<>> /\ response' = None /\ pc' # "done"
  BY DEF IInv, MergeInv
<1>2. DOMAIN entries' = {} /\ cursor'[1] = 1 /\ cursor'[2] = 0
  BY <1>1
<1>3. results' \in Seq(Payloads)
  BY DEF TypeOK
<1>4. \A i \in DOMAIN results' : i \in Nat \ {0}
  BY <1>3
<1>5. \A i \in DOMAIN results' : results'[i] # Invalid =>
        \A j \in DOMAIN results'[i] : ~Merged(i, j)'
  <2> SUFFICES ASSUME NEW i \in DOMAIN results', results'[i] # Invalid,
                      NEW j \in DOMAIN results'[i]
               PROVE  ~Merged(i, j)'
    OBVIOUS
  <2>1. results'[i] \in Seq(Entry)
    BY <1>3, AnswersAssumption
  <2>2. j \in Nat \ {0}
    BY <2>1
  <2>3. QED
    BY <1>2, <1>4, <2>2 DEF Merged
<1>6. \A i \in DOMAIN results' : ~(i < cursor'[1])
  BY <1>2, <1>4
<1>7. QED
  BY <1>1, <1>2, <1>5, <1>6 DEF MergeInv

(* One iteration of _coerce_entries keeps MergeInv: no observation is lost *)
(* and none is kept twice.                                                 *)
LEMMA MergeStep ==
  ASSUME IInv, CoerceEntry
  PROVE  MergeInv'
<1> DEFINE c == cursor[1]
           d == cursor[2]
<1>a. TypeOK /\ MergeInv
  BY DEF IInv
<1>b. /\ pc = "coerce" /\ c \in DOMAIN results /\ results[c] # Invalid
      /\ c \in Nat \ {0} /\ d \in Nat /\ cursor = <<c, d>>
      /\ UNCHANGED <<pc, n, results, response>>
      /\ results[c] \in Seq(Entry) /\ results \in Seq(Payloads)
      /\ entries \in Seq(Entry)
  BY <1>a, AnswersAssumption DEF CoerceEntry, TypeOK, split, pool
<1>c. DOMAIN results = 1 .. Len(results) /\ Len(results) \in Nat
  BY <1>b
<1>1. CASE ~(d < Len(results[c]))
  <2>1. cursor' = <<c + 1, 0>> /\ entries' = entries
    BY <1>b, <1>1 DEF CoerceEntry, NextAnswer
  <2>2. cursor'[1] = c + 1 /\ cursor'[2] = 0
    BY <2>1
  <2>3. ASSUME NEW i \in DOMAIN results, results[i] # Invalid,
               NEW j \in DOMAIN results[i], Merged(i, j)'
        PROVE  Merged(i, j)
    <3>0. i \in Nat /\ results[i] \in Seq(Entry)
      BY <1>b, <1>c, <2>3, AnswersAssumption
    <3>1. j \in 1 .. Len(results[i]) /\ Len(results[i]) \in Nat
      BY <3>0
    <3>2. i < c + 1
      BY <1>b, <2>2, <2>3, <3>0, <3>1 DEF Merged
    <3>3. QED
      BY <1>1, <1>b, <3>0, <3>1, <3>2 DEF Merged
  <2>4. \A i \in DOMAIN results : i < c + 1 => results[i] # Invalid
    <3>1. \A i \in DOMAIN results : i < c => results[i] # Invalid
      BY <1>a DEF MergeInv
    <3>2. QED
      BY <1>b, <1>c, <3>1
  <2>5. Identities' = Identities
    BY <2>1 DEF Identities
  <2>6. \A i \in DOMAIN results' : results'[i] # Invalid =>
          \A j \in DOMAIN results'[i] :
            Merged(i, j)' /\ ~Rejected(results'[i][j], n') =>
              EntryIdentity(NormalizeEntry(results'[i][j])) \in Identities'
    BY <1>a, <1>b, <2>3, <2>5 DEF MergeInv
  <2>7. QED
    BY <1>a, <1>b, <2>1, <2>2, <2>4, <2>6 DEF MergeInv
<1>2. CASE d < Len(results[c])
  <2> DEFINE e == results[c][d + 1]
             N == NormalizeEntry(e)
  <2>1. /\ cursor' = <<c, d + 1>> /\ entries' = Coerced(e)
        /\ cursor'[1] = c /\ cursor'[2] = d + 1
        /\ d + 1 \in DOMAIN results[c]
    BY <1>b, <1>2 DEF CoerceEntry
  <2>2. \A i, j : Merged(i, j)' /\ i \in Nat /\ j \in Nat =>
          Merged(i, j) \/ (i = c /\ j = d + 1)
    BY <1>b, <2>1 DEF Merged
  <2>3. ~Rejected(e, n) => N \in Entry
    BY <1>a, <1>b, <2>1, EntryAtCursor
  <2>4. CASE Rejected(e, n) \/ Seen(N)
    <3>1. entries' = entries /\ Identities' = Identities
      BY <2>1, <2>4 DEF Coerced, Identities
    <3>2. ~Rejected(e, n) => EntryIdentity(N) \in Identities
      BY <2>4 DEF Seen
    <3>3. \A i \in DOMAIN results : results[i] # Invalid =>
            \A j \in DOMAIN results[i] :
              Merged(i, j)' /\ ~Rejected(results[i][j], n) =>
                EntryIdentity(NormalizeEntry(results[i][j])) \in Identities
      <4> SUFFICES ASSUME NEW i \in DOMAIN results, results[i] # Invalid,
                          NEW j \in DOMAIN results[i], Merged(i, j)',
                          ~Rejected(results[i][j], n)
                   PROVE  EntryIdentity(NormalizeEntry(results[i][j]))
                            \in Identities
        OBVIOUS
      <4>1. i \in Nat /\ results[i] \in Seq(Entry)
        BY <1>b, <1>c, AnswersAssumption
      <4>2. j \in Nat
        BY <4>1
      <4>3. QED
        BY <1>a, <2>2, <3>2, <4>1, <4>2 DEF MergeInv
    <3>4. QED
      BY <1>a, <1>b, <2>1, <3>1, <3>3 DEF MergeInv
  <2>5. CASE ~Rejected(e, n) /\ ~Seen(N)
    <3>1. entries' = Append(entries, N)
      BY <2>1, <2>5 DEF Coerced
    <3> DEFINE k == Len(entries) + 1
    <3>2. /\ Len(entries) \in Nat /\ DOMAIN entries = 1 .. Len(entries)
          /\ DOMAIN entries' = 1 .. k /\ entries'[k] = N
          /\ \A i \in DOMAIN entries : entries'[i] = entries[i]
      BY <1>b, <2>3, <2>5, <3>1, AppendFacts
    <3>3. k \in DOMAIN entries' /\ \A i \in DOMAIN entries' :
            i \in DOMAIN entries \/ i = k
      BY <3>2
    <3>4. /\ EntryIdentity(N) \in Identities'
          /\ \A x \in Identities : x \in Identities'
      BY <3>2, <3>3 DEF Identities
    <3>5. \A i \in DOMAIN entries : EntryIdentity(entries[i]) # EntryIdentity(N)
      BY <2>5 DEF Seen, Identities
    <3>6. \A i, j \in DOMAIN entries' :
            EntryIdentity(entries'[i]) = EntryIdentity(entries'[j]) => i = j
      BY <1>a, <3>2, <3>3, <3>5 DEF MergeInv
    <3>7. \A i \in DOMAIN entries' : \E h \in DOMAIN results :
            /\ results[h] # Invalid
            /\ \E j \in DOMAIN results[h] :
                 /\ ~Rejected(results[h][j], n)
                 /\ entries'[i] = NormalizeEntry(results[h][j])
      BY <1>a, <1>b, <2>1, <2>5, <3>2, <3>3 DEF MergeInv
    <3>8. \A i \in DOMAIN results : results[i] # Invalid =>
            \A j \in DOMAIN results[i] :
              Merged(i, j)' /\ ~Rejected(results[i][j], n) =>
                EntryIdentity(NormalizeEntry(results[i][j])) \in Identities'
      <4> SUFFICES ASSUME NEW i \in DOMAIN results, results[i] # Invalid,
                          NEW j \in DOMAIN results[i], Merged(i, j)',
                          ~Rejected(results[i][j], n)
                   PROVE  EntryIdentity(NormalizeEntry(results[i][j]))
                            \in Identities'
        OBVIOUS
      <4>1. i \in Nat /\ results[i] \in Seq(Entry)
        BY <1>b, <1>c, AnswersAssumption
      <4>2. j \in Nat
        BY <4>1
      <4>3. QED
        BY <1>a, <2>2, <3>4, <4>1, <4>2 DEF MergeInv
    <3>9. QED
      BY <1>a, <1>b, <2>1, <3>6, <3>7, <3>8 DEF MergeInv
  <2>6. QED
    BY <2>4, <2>5
<1>3. QED
  BY <1>1, <1>2

(* Every step keeps MergeInv.                                              *)
LEMMA MergeInvStep ==
  ASSUME IInv, [Next]_vars, TypeOK'
  PROVE  MergeInv'
<1>1. CASE CoerceEntry
  BY <1>1, MergeStep
<1>2. CASE Raise
  <2>1. pc = "shutdown" /\ pc' = "done" /\ UNCHANGED <<n, results, cursor, entries>>
    BY <1>2 DEF Raise, split, pool, merge
  <2>2. Identities' = Identities /\ \A i, j : Merged(i, j)' = Merged(i, j)
    BY <2>1 DEF Identities, Merged
  <2>3. QED
    BY <2>1, <2>2 DEF IInv, MergeInv
<1>3. CASE RefuseAnswer \/ Answer
  <2>1. pc = "coerce" /\ pc' = "done" /\ UNCHANGED <<n, results, cursor, entries>>
    BY <1>3 DEF RefuseAnswer, Answer, split, pool, merge
  <2>2. Identities' = Identities /\ \A i, j : Merged(i, j)' = Merged(i, j)
    BY <2>1 DEF Identities, Merged
  <2>3. QED
    BY <2>1, <2>2 DEF IInv, MergeInv
<1>4. CASE Post \/ Split \/ Collect \/ CollectRaises
  <2>1. /\ cursor' = cursor /\ entries' = entries /\ response' = response
        /\ pc \notin {"coerce", "done"} /\ pc' # "done"
    BY <1>4 DEF Post, Split, Submit, Collect, CollectRaises, merge
  <2>2. QED
    BY <2>1, MergeNotBegun
<1>5. ASSUME NEW i \in DOMAIN call, StartCall(i) \/ EndCall(i)
      PROVE  MergeInv'
  <2>1. UNCHANGED <<pc, n, results, cursor, entries, response>>
    BY <1>5 DEF StartCall, EndCall, split, merge
  <2>2. Identities' = Identities /\ \A h, j : Merged(h, j)' = Merged(h, j)
    BY <2>1 DEF Identities, Merged
  <2>3. QED
    BY <2>1, <2>2 DEF IInv, MergeInv
<1>6. CASE UNCHANGED vars
  <2>1. UNCHANGED <<pc, n, results, cursor, entries, response>>
    BY <1>6 DEF vars, split, pool, merge
  <2>2. Identities' = Identities /\ \A h, j : Merged(h, j)' = Merged(h, j)
    BY <2>1 DEF Identities, Merged
  <2>3. QED
    BY <2>1, <2>2 DEF IInv, MergeInv
<1>7. QED
  BY <1>1, <1>2, <1>3, <1>4, <1>5, <1>6 DEF Next

-----------------------------------------------------------------------------
(* IInv holds in every reachable state, whatever the model answers and in  *)
(* whatever order the threads run: the two loops and the pool do their     *)
(* parts of the work and nothing else.                                     *)
THEOREM Invariance == Spec => []IInv
<1>1. Init => IInv
  <2> SUFFICES ASSUME Init PROVE IInv
    OBVIOUS
  <2>1. /\ windows \in Seq(Nat \X Nat) /\ call \in Seq(CallStatus)
        /\ payload \in Seq(Payloads \cup Failures \cup {None})
        /\ results \in Seq(Payloads) /\ entries \in Seq(Entry)
        /\ cursor \in (Nat \ {0}) \X Nat
    BY DEF Init
  <2>2. /\ DOMAIN windows = {} /\ DOMAIN call = {} /\ DOMAIN results = {}
        /\ DOMAIN entries = {} /\ Len(call) = 0 /\ Len(payload) = 0
        /\ Len(results) = 0
    BY DEF Init
  <2>3. TypeOK
    BY <2>1, <2>2, SegmentsAssumption DEF Init, TypeOK
  <2>4. SplitInv /\ PoolInv
    BY <2>2 DEF Init, SplitInv, PoolInv, NoCallOutlivesRequest
  <2>5. MergeInv
    BY <2>2 DEF Init, MergeInv
  <2>6. QED
    BY <2>3, <2>4, <2>5 DEF IInv
<1>2. IInv /\ [Next]_vars => IInv'
  BY TypeOKStep, SplitInvStep, PoolInvStep, MergeInvStep DEF IInv
<1>3. QED
  BY <1>1, <1>2, PTL DEF Spec

(* Every variable keeps its type.                                          *)
THEOREM TypeCorrect == Spec => []TypeOK
<1>1. IInv => TypeOK
  BY DEF IInv
<1>2. QED
  BY <1>1, Invariance, PTL

(* _split_windows, for every transcript length, window size and overlap:   *)
(* a moment of up to Overlap + 1 segments is whole in one window.          *)
THEOREM MomentsAlwaysSeenWhole == Spec => []MomentsSeenWhole
<1>1. IInv => MomentsSeenWhole
  BY DEF IInv, SplitInv, MomentsSeenWhole
<1>2. QED
  BY <1>1, Invariance, PTL

(* For every duration the session may have, validate_evidence refuses of   *)
(* what _normalize_entry lets through exactly what exceeds that duration.  *)
THEOREM AlwaysRefusedOnlyForDuration == Spec => []RefusedOnlyForDuration
<1>1. IInv => RefusedOnlyForDuration
  <2> SUFFICES ASSUME IInv, NEW k \in DOMAIN entries, NEW d \in Duration
               PROVE  ValidateEvidence(entries[k], n, d) <=>
                        d = None \/ \A s \in Cited(entries[k]) : s < d
    BY DEF RefusedOnlyForDuration
  <2>1. PICK i \in DOMAIN results :
          /\ results[i] # Invalid
          /\ \E j \in DOMAIN results[i] :
               /\ ~Rejected(results[i][j], n)
               /\ entries[k] = NormalizeEntry(results[i][j])
    BY DEF IInv, MergeInv
  <2>2. PICK j \in DOMAIN results[i] :
                 /\ ~Rejected(results[i][j], n)
                 /\ entries[k] = NormalizeEntry(results[i][j])
    BY <2>1
  <2>3. QED
    BY <2>1, <2>2, EntryAtCursor DEF IInv
<1>2. QED
  BY <1>1, Invariance, PTL

(* When the response is out, no call of the request is left in the pool.   *)
THEOREM NoCallEverOutlives == Spec => []NoCallOutlivesRequest
<1>1. IInv => NoCallOutlivesRequest
  BY DEF IInv, PoolInv
<1>2. QED
  BY <1>1, Invariance, PTL

-----------------------------------------------------------------------------
(* The gateway implements Extraction: cutting the last window is Request,  *)
(* the end of a call is ModelAnswers, and the three ways out are Respond.  *)

(* The step that submits the windows is the arrival of the request.        *)
LEMMA SubmitIsRequest ==
  ASSUME IInv, IInv', pc \in {"idle", "split"}, NEW ws, Submit(ws),
         response' = response
  PROVE  Promise!Request
<1>1. pc' = "call" /\ windows' = ws
  BY DEF Submit
<1>2. /\ windows' # <<>> /\ Promise!SeenWhole(windows', n')
      /\ \A i \in DOMAIN windows' : windows'[i][2] - windows'[i][1] <= Size
  BY <1>1 DEF IInv, SplitInv
<1>3. payload' = [i \in DOMAIN windows' |-> None]
  BY <1>1 DEF Submit
<1>4. QED
  BY <1>1, <1>2, <1>3 DEF Promise!Request

(* Extraction judges an entry by the operators the gateway uses.           *)
LEMMA SameJudgement ==
  /\ \A e : Promise!EntryIdentity(e) = EntryIdentity(e)
  /\ \A e : Promise!NormalizeEntry(e) = NormalizeEntry(e)
  /\ \A e, m : Promise!Rejected(e, m) = Rejected(e, m)
<1>1. \A e : Promise!Cited(e) = Cited(e)
  BY DEF Promise!Cited, Cited
<1>2. \A e : Promise!EntryIdentity(e) = EntryIdentity(e)
  BY <1>1 DEF Promise!EntryIdentity, EntryIdentity
<1>3. \A S : Promise!Min(S) = Min(S) /\ Promise!Max(S) = Max(S)
  BY DEF Promise!Min, Min, Promise!Max, Max
<1>4. \A ev : Promise!NormalizedEvidence(ev) = NormalizedEvidence(ev)
  BY <1>3 DEF Promise!NormalizedEvidence, NormalizedEvidence
<1>5. \A v, c : Promise!GroundedValue(v, c) = GroundedValue(v, c)
  BY DEF Promise!GroundedValue, GroundedValue
<1>6. \A e : Promise!NormalizeEntry(e) = NormalizeEntry(e)
  BY <1>1, <1>4, <1>5
     DEF Promise!NormalizeEntry, NormalizeEntry, Promise!GroundedField, GroundedField
<1>7. \A e, m : Promise!Rejected(e, m) = Rejected(e, m)
  BY DEF Promise!Rejected, Rejected, Promise!RevisionMismatch, RevisionMismatch,
         Promise!UnknownSegment, UnknownSegment, Promise!RangeMismatch, RangeMismatch
<1>8. QED
  BY <1>2, <1>6, <1>7

(* The ok response is faithful to what the model said.                     *)
LEMMA AnswerIsRespond ==
  ASSUME IInv, Answer
  PROVE  Promise!Respond
<1>1. /\ pc = "coerce" /\ pc' = "done" /\ cursor[1] > Len(results)
      /\ response' = [status |-> "ok", entries |-> entries]
      /\ UNCHANGED <<n, windows, payload>>
      /\ response = None /\ windows # <<>>
  BY DEF Answer, split, pool, IInv, MergeInv, SplitInv
<1>2. /\ DOMAIN results = 1 .. Len(results) /\ Len(results) \in Nat
      /\ DOMAIN payload = DOMAIN results /\ cursor[1] \in Nat
      /\ results \in Seq(Payloads)
  BY <1>1 DEF IInv, TypeOK, PoolInv
<1>3. \A i \in DOMAIN results : i < cursor[1] /\ i \in Nat
  BY <1>1, <1>2
<1>4. \A i \in DOMAIN payload : /\ payload[i] = results[i]
                                /\ payload[i] \in Payloads \ {Invalid}
  BY <1>2, <1>3 DEF IInv, PoolInv, MergeInv
<1>5. Promise!Faithful(entries)
  <2>1. ASSUME NEW k \in DOMAIN entries
        PROVE  entries[k] \in Promise!AllUsable
    <3>1. PICK i \in DOMAIN payload : \E j \in DOMAIN payload[i] :
            /\ ~Rejected(payload[i][j], n)
            /\ entries[k] = NormalizeEntry(payload[i][j])
      BY <1>2, <1>4 DEF IInv, MergeInv
    <3>2. entries[k] \in Promise!Usable(i)
      BY <1>1, <3>1, SameJudgement DEF Promise!Usable
    <3>3. QED
      BY <3>2 DEF Promise!AllUsable
  <2>2. ASSUME NEW e \in Promise!AllUsable
        PROVE  \E k \in DOMAIN entries :
                 EntryIdentity(entries[k]) = EntryIdentity(e)
    <3>1. PICK i \in DOMAIN payload : e \in Promise!Usable(i)
      BY DEF Promise!AllUsable
    <3>2. PICK j \in DOMAIN payload[i] :
            ~Rejected(payload[i][j], n) /\ e = NormalizeEntry(payload[i][j])
      BY <1>1, <3>1, SameJudgement DEF Promise!Usable
    <3>3. Merged(i, j) /\ payload[i] = results[i] /\ results[i] # Invalid
      BY <1>2, <1>3, <1>4 DEF Merged
    <3>4. EntryIdentity(e) \in Identities
      BY <1>2, <3>2, <3>3 DEF IInv, MergeInv
    <3>5. QED
      BY <3>4 DEF Identities
  <2>3. QED
    BY <2>1, <2>2, SameJudgement DEF Promise!Faithful, IInv, MergeInv
<1>6. response' \in Response
  BY <1>1 DEF IInv, TypeOK, Response
<1>7. response'.status = "ok" /\ response'.entries = entries /\ response' # None
  BY <1>1, <1>6, ResponseAssumption
<1>8. QED
  BY <1>1, <1>4, <1>5, <1>7 DEF Promise!Respond

(* An answer that does not match the schema is reported only when every    *)
(* window was answered.                                                    *)
LEMMA RefusalIsRespond ==
  ASSUME IInv, RefuseAnswer
  PROVE  Promise!Respond
<1>1. /\ pc = "coerce" /\ pc' = "done" /\ cursor[1] <= Len(results)
      /\ results[cursor[1]] = Invalid
      /\ response' = [status |-> "invalid_model_response", entries |-> <<>>]
      /\ UNCHANGED <<n, windows, payload>>
      /\ response = None /\ windows # <<>>
  BY DEF RefuseAnswer, split, pool, IInv, MergeInv, SplitInv
<1>2. /\ DOMAIN results = 1 .. Len(results) /\ Len(results) \in Nat
      /\ DOMAIN payload = DOMAIN results /\ cursor[1] \in Nat \ {0}
      /\ results \in Seq(Payloads)
  BY <1>1 DEF IInv, TypeOK, PoolInv
<1>3. \A i \in DOMAIN payload : payload[i] = results[i] /\ payload[i] \in Payloads
  BY <1>2 DEF IInv, PoolInv
<1>4. cursor[1] \in DOMAIN payload /\ payload[cursor[1]] = Invalid
  BY <1>1, <1>2, <1>3
<1>5. response' \in Response
  BY <1>1 DEF Response
<1>6. response' # None
  BY <1>5, ResponseAssumption
<1>7. QED
  BY <1>1, <1>3, <1>4, <1>6 DEF Promise!Respond

(* The error that goes out is that of the first window that failed.        *)
LEMMA RaiseIsRespond ==
  ASSUME IInv, Raise
  PROVE  Promise!Respond
<1>1. /\ pc = "shutdown" /\ pc' = "done"
      /\ response' = [status |-> payload[Due], entries |-> <<>>]
      /\ UNCHANGED <<n, windows, payload>>
      /\ response = None /\ windows # <<>>
      /\ Due \in DOMAIN call /\ call[Due] = "raised"
  BY DEF Raise, FirstError, split, pool, IInv, MergeInv, SplitInv, PoolInv
<1>2. /\ DOMAIN results = 1 .. Len(results) /\ Len(results) \in Nat
      /\ DOMAIN payload = DOMAIN call /\ results \in Seq(Payloads)
  BY <1>1 DEF IInv, TypeOK, PoolInv
<1>3. Due \in DOMAIN payload /\ payload[Due] \in Failures
  BY <1>1, <1>2 DEF IInv, PoolInv
<1>4. \A j \in 1 .. Due - 1 : j \in DOMAIN results
  BY <1>2 DEF Due
<1>5. \A j \in 1 .. Due - 1 : payload[j] \in Payloads
  BY <1>2, <1>4 DEF IInv, PoolInv
<1>6. response' \in Response
  BY <1>1, <1>3 DEF Response
<1>7. response' # None
  BY <1>6, ResponseAssumption
<1>8. QED
  BY <1>1, <1>3, <1>5, <1>7 DEF Promise!Respond

(* The end of a call is an answer of the model.                            *)
LEMMA EndCallIsAnswer ==
  ASSUME IInv, NEW i \in DOMAIN call, EndCall(i)
  PROVE  Promise!ModelAnswers
<1>1. /\ call[i] = "running" /\ UNCHANGED <<pc, n, windows, response>>
      /\ \E a \in Payloads \cup Failures : payload' = [payload EXCEPT ![i] = a]
  BY DEF EndCall, split
<1>2. i \in DOMAIN payload /\ DOMAIN call = DOMAIN payload
  BY DEF IInv, TypeOK
<1>3. payload[i] = None
  <2>1. payload[i] \in Payloads \cup Failures \cup {None}
    BY <1>2 DEF IInv, TypeOK
  <2>2. payload[i] \notin Payloads /\ payload[i] \notin Failures
    BY <1>1 DEF IInv, PoolInv
  <2>3. QED
    BY <2>1, <2>2
<1>4. response = None
  BY <1>1 DEF IInv, PoolInv, MergeInv, NoCallOutlivesRequest
<1>5. QED
  BY <1>1, <1>2, <1>3, <1>4 DEF Promise!ModelAnswers

(* Every step of the gateway is a step of its promise or changes nothing   *)
(* the promise speaks of.                                                  *)
LEMMA StepImplements ==
  ASSUME IInv, IInv', [Next]_vars
  PROVE  [Promise!Next]_(Promise!spec_vars)
<1>1. CASE Post
  <2>1. CASE n' <= Size
    <3>1. Submit(<<<<0, n'>>>>) /\ pc = "idle" /\ response' = response
      BY <1>1, <2>1 DEF Post
    <3>2. QED
      BY <3>1, SubmitIsRequest DEF Promise!Next
  <2>2. CASE ~(n' <= Size)
    BY <1>1, <2>2 DEF Post, Promise!spec_vars
  <2>3. QED
    BY <2>1, <2>2
<1>2. CASE Split
  <2>1. CASE LastWindow
    <3>1. /\ Submit(Append(windows, Window(start))) /\ pc = "split"
          /\ response' = response
      BY <1>2, <2>1 DEF Split
    <3>2. QED
      BY <3>1, SubmitIsRequest DEF Promise!Next
  <2>2. CASE ~LastWindow
    BY <1>2, <2>2 DEF Split, Promise!spec_vars
  <2>3. QED
    BY <2>1, <2>2
<1>3. ASSUME NEW i \in DOMAIN call, EndCall(i)
      PROVE  Promise!Next
  BY <1>3, EndCallIsAnswer DEF Promise!Next
<1>4. CASE Answer \/ RefuseAnswer \/ Raise
  BY <1>4, AnswerIsRespond, RefusalIsRespond, RaiseIsRespond DEF Promise!Next
<1>5. ASSUME NEW i \in DOMAIN call, StartCall(i)
      PROVE  UNCHANGED Promise!spec_vars
  BY <1>5 DEF StartCall, split, Promise!spec_vars
<1>6. CASE Collect \/ CollectRaises \/ CoerceEntry
  BY <1>6 DEF Collect, CollectRaises, CoerceEntry, split, pool, Promise!spec_vars
<1>7. CASE UNCHANGED vars
  BY <1>7 DEF vars, split, pool, Promise!spec_vars
<1>8. QED
  BY <1>1, <1>2, <1>3, <1>4, <1>5, <1>6, <1>7 DEF Next

(* The gateway implements Extraction for every window size, overlap and    *)
(* number of threads and every set of answers: no observation is lost or   *)
(* kept twice, and an error is that of the first window that failed.       *)
THEOREM GatewayImplementsPromise == Spec => ImplementsPromise
<1>1. Init => Promise!Init
  BY DEF Init, Promise!Init
<1>2. IInv /\ IInv' /\ [Next]_vars => [Promise!Next]_(Promise!spec_vars)
  BY StepImplements
<1>3. QED
  BY <1>1, <1>2, Invariance, PTL DEF Spec, ImplementsPromise, Promise!Spec
=============================================================================
