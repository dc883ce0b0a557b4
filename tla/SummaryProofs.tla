---------------------------- MODULE SummaryProofs ----------------------------
(***************************************************************************)
(* Proofs about SessionSummary, for every set of entries, reviewers and    *)
(* answers of the model, every cap and every bound.                        *)
(***************************************************************************)
EXTENDS SessionSummary, TLAPS, WellFoundedInduction, FiniteSetTheorems

\* The sets of s have been handed out from ids, and c is what they cover.
Covers(s, ids, c) ==
  /\ Disjoint(s)
  /\ \A k \in DOMAIN s : s[k] # {} /\ s[k] \subseteq ids
  /\ \A e : e \in c <=> \E k \in DOMAIN s : e \in s[k]

\* What the loops of the gateway have done so far.
LoopInv ==
  /\ pc \in {"idle", "read", "consolidate"} =>
       groups = <<>> /\ preGroups = None
  /\ pc \in {"idle", "read", "consolidate", "group", "singletons", "summarize"} =>
       themes = <<>>
  /\ pc = "group" => Covers(groups, read.ids, claimed)
  /\ pc = "singletons" =>
       /\ rest \subseteq read.ids
       /\ Covers(groups, read.ids, read.ids \ rest)
  /\ pc \in {"theme", "fallback"} => Covers(Ids(themes), read.ids, claimed)
  /\ pc = "fallback" =>
       /\ rest \subseteq read.ids \ claimed
       /\ preGroups # None => read.ids \subseteq claimed \cup rest
  /\ pc = "store" =>
       /\ \E c : Covers(Ids(themes), read.ids, c)
       /\ \/ preGroups = None
          \/ Partition(Ids(themes), read.ids)
          \/ Len(themes) = MaxThemes

\* Open transactions hold different rows, and rows of the revision that they
\* have loaded or new ones; their time stamps are of the past.
EditsApart ==
  /\ \A q, r \in Reviewers :
       edit[q] # None /\ edit[r] # None /\ q # r =>
         edit[q].entry # edit[r].entry
  /\ \A r \in Reviewers : edit[r] # None =>
       /\ entryRev[edit[r].entry] \in {0, edit[r].revision}
       /\ edit[r].revision \in 1 .. current
       /\ edit[r].stamp < clock
  /\ current > 0
  /\ \A e \in Entries : updated[e] < clock

\* A ledger that was read at some time.  All of it is still there; an entry
\* that nobody had open then is unchanged or has, as has a change that is
\* open now, a later time stamp; and if its revision was current then and
\* is replaced now, that is so of all its entries.
Snapshot(s) ==
  /\ s \in Reading
  /\ s.revision \in 1 .. s.now /\ s.now <= current
  /\ s.ids # {} /\ s.ids \subseteq Ledger(s.revision)
  /\ s.source < clock
  /\ \A e \in s.ids \ s.open :
       /\ updated[e] = s.seen[e] \/ updated[e] > s.source
       /\ \A r \in Reviewers :
            edit[r] # None /\ edit[r].entry = e => edit[r].stamp > s.source
  /\ s.revision = s.now /\ s.now < current =>
       \A e \in s.ids :
         /\ updated[e] > s.source
         /\ \A r \in Reviewers :
              edit[r] # None /\ edit[r].entry = e => edit[r].stamp > s.source

\* The row says of its ledger what was read.
Summarizes(row) ==
  /\ Snapshot(row.from)
  /\ row.revision = row.from.revision
  /\ row.source_updated_at = row.from.source
  /\ row.entry_count = Cardinality(row.from.ids)

SnapshotsKept ==
  /\ pc = "read" => read.revision \in 1 .. current
  /\ pc \notin {"idle", "read"} => Snapshot(read)
  /\ summary # None => Summarizes(summary)

IInv ==
  /\ TypeOK
  /\ LoopInv
  /\ EditsApart
  /\ SnapshotsKept
  /\ GroupsPartition
  /\ ThemesTraceable
  /\ LeftOutOnlyByCap
-----------------------------------------------------------------------------
(* What min and max return.                                                *)
LEMMA Least ==
  ASSUME NEW S \in SUBSET Nat, S # {}
  PROVE  Min(S) \in S /\ \A y \in S : Min(S) <= y
<1>1. PICK x \in S : \A y \in S : ~(<<y, x>> \in OpToRel(<, Nat))
  BY NatLessThanWellFounded, WFMin
<1>2. \A y \in S : ~(y < x)
  BY <1>1 DEF OpToRel
<1>3. \A y \in S : x <= y
  BY <1>2
<1>4. QED
  BY <1>3 DEF Min

LEMMA Greatest ==
  ASSUME NEW S \in SUBSET Nat, S # {}, NEW b \in Nat, \A y \in S : y < b
  PROVE  Max(S) \in S /\ \A y \in S : y <= Max(S)
<1> DEFINE T == {b - y : y \in S}
<1>1. T \in SUBSET Nat /\ T # {}
  OBVIOUS
<1>2. Min(T) \in T /\ \A y \in T : Min(T) <= y
  BY <1>1, Least
<1>3. PICK x \in S : Min(T) = b - x
  BY <1>2
<1>4. \A y \in S : b - x <= b - y
  BY <1>2, <1>3
<1>5. \A y \in S : x >= y
  BY <1>4
<1>6. QED
  BY <1>5 DEF Max

(* A set of what is not covered yet may be handed out next.                *)
LEMMA HandOut ==
  ASSUME NEW s, NEW t, NEW ids, NEW c, NEW x, NEW n,
         Covers(s, ids, c), n \notin DOMAIN s, DOMAIN t = DOMAIN s \cup {n},
         \A k \in DOMAIN s : t[k] = s[k], t[n] = x,
         x # {}, x \subseteq ids, x \cap c = {}
  PROVE  Covers(t, ids, c \cup x)
<1>1. ASSUME NEW j \in DOMAIN t, NEW k \in DOMAIN t, j # k
      PROVE  t[j] \cap t[k] = {}
  <2>1. CASE j = n
    BY <1>1, <2>1 DEF Covers
  <2>2. CASE k = n
    BY <1>1, <2>2 DEF Covers
  <2>3. CASE j # n /\ k # n
    BY <1>1, <2>3 DEF Covers, Disjoint
  <2>4. QED
    BY <2>1, <2>2, <2>3
<1>2. \A k \in DOMAIN t : t[k] # {} /\ t[k] \subseteq ids
  BY DEF Covers
<1>3. ASSUME NEW e
      PROVE  e \in c \cup x <=> \E k \in DOMAIN t : e \in t[k]
  BY DEF Covers
<1>4. QED
  BY <1>1, <1>2, <1>3 DEF Covers, Disjoint

LEMMA AppendGroup ==
  ASSUME NEW s \in Seq(SUBSET Entries), NEW x \in SUBSET Entries,
         NEW ids, NEW c, Covers(s, ids, c),
         x # {}, x \subseteq ids, x \cap c = {}
  PROVE  Covers(Append(s, x), ids, c \cup x)
<1> DEFINE t == Append(s, x)
<1>1. /\ Len(s) + 1 \notin DOMAIN s /\ DOMAIN t = DOMAIN s \cup {Len(s) + 1}
      /\ t[Len(s) + 1] = x
      /\ \A k \in DOMAIN s : t[k] = s[k]
  OBVIOUS
<1> HIDE DEF t
<1>2. QED
  BY <1>1, HandOut DEF t

ThemeRow == [ids : SUBSET Entries, by : {"model", "fallback"}]

LEMMA AppendTheme ==
  ASSUME NEW ts \in Seq(ThemeRow), NEW x \in SUBSET Entries,
         NEW by \in {"model", "fallback"},
         NEW ids, NEW c, Covers(Ids(ts), ids, c),
         x # {}, x \subseteq ids, x \cap c = {}
  PROVE  /\ Append(ts, Theme(x, by)) \in Seq(ThemeRow)
         /\ Covers(Ids(Append(ts, Theme(x, by))), ids, c \cup x)
<1> DEFINE th == Theme(x, by)
           t == Append(ts, th)
<1>1. th \in ThemeRow /\ th.ids = x
  BY DEF Theme, ThemeRow
<1> HIDE DEF th
<1>2. /\ t \in Seq(ThemeRow)
      /\ Len(ts) + 1 \notin DOMAIN ts /\ DOMAIN t = DOMAIN ts \cup {Len(ts) + 1}
      /\ t[Len(ts) + 1] = th
      /\ \A k \in DOMAIN ts : t[k] = ts[k]
  BY <1>1
<1> HIDE DEF t
<1>3. /\ DOMAIN Ids(ts) = DOMAIN ts /\ DOMAIN Ids(t) = DOMAIN t
      /\ Ids(t)[Len(ts) + 1] = x
      /\ \A k \in DOMAIN ts : Ids(t)[k] = Ids(ts)[k]
  BY <1>1, <1>2 DEF Ids
<1>4. Covers(Ids(t), ids, c \cup x)
  BY <1>2, <1>3, HandOut
<1>5. QED
  BY <1>2, <1>4 DEF t, th

(* What covers all of ids is a partition of them.                          *)
LEMMA CoveredIsPartition ==
  ASSUME NEW s, NEW ids, NEW c, Covers(s, ids, c), ids \subseteq c
  PROVE  Partition(s, ids)
BY DEF Covers, Partition

(* themes[:max_themes] keeps the first themes as they are.                 *)
LEMMA CutThemes ==
  ASSUME NEW ts \in Seq(ThemeRow), NEW ids, NEW c, Covers(Ids(ts), ids, c),
         Len(ts) > MaxThemes
  PROVE  /\ Cut(ts) \in Seq(ThemeRow) /\ Len(Cut(ts)) = MaxThemes
         /\ \E d : Covers(Ids(Cut(ts)), ids, d)
<1> DEFINE t == Cut(ts)
           d == UNION {Ids(t)[k] : k \in DOMAIN Ids(t)}
<1>1. /\ t \in Seq(ThemeRow) /\ Len(t) = MaxThemes
      /\ DOMAIN t = 1 .. MaxThemes /\ DOMAIN t \subseteq DOMAIN ts
      /\ \A k \in DOMAIN t : t[k] = ts[k]
  BY BoundsAssumption DEF Cut
<1> HIDE DEF t
<1>2. /\ DOMAIN Ids(t) = DOMAIN t /\ DOMAIN Ids(ts) = DOMAIN ts
      /\ \A k \in DOMAIN t : Ids(t)[k] = Ids(ts)[k]
  BY <1>1 DEF Ids
<1>3. Covers(Ids(t), ids, d)
  BY <1>1, <1>2 DEF Covers, Disjoint
<1>4. QED
  BY <1>1, <1>3 DEF t

-----------------------------------------------------------------------------
(* The ledger's steps.  A snapshot outlives every one of them.             *)
LEMMA LedgerKeepsEdits ==
  ASSUME TypeOK, EditsApart, LedgerStep
  PROVE  /\ EditsApart'
         /\ current' \in Nat /\ clock' \in Nat /\ current <= current'
         /\ entryRev' \in [Entries -> Nat] /\ updated' \in [Entries -> Nat]
         /\ edit' \in [Reviewers -> Edit \cup {None}]
         /\ UNCHANGED <<summary, job>>
<1> DEFINE Kept == /\ EditsApart'
                   /\ current' \in Nat /\ clock' \in Nat /\ current <= current'
                   /\ entryRev' \in [Entries -> Nat]
                   /\ updated' \in [Entries -> Nat]
                   /\ edit' \in [Reviewers -> Edit \cup {None}]
                   /\ UNCHANGED <<summary, job>>
<1> USE DEF TypeOK, EditsApart, ledger
<1>h. \A r \in Reviewers : edit[r] # None => edit[r].entry \in Held
  BY DEF Held
<1>1. ASSUME NEW r \in Reviewers, NEW e \in Entries, NEW rev \in 1 .. current,
             Flush(r, e, rev)
      PROVE  Kept
  <2>1. /\ edit[r] = None /\ e \notin Held /\ entryRev[e] \in {0, rev}
        /\ clock' = clock + 1
        /\ UNCHANGED <<current, entryRev, updated, summary, job>>
    BY <1>1 DEF Flush, Tick
  <2> DEFINE new == [entry |-> e, revision |-> rev, stamp |-> clock]
  <2>2. new \in Edit /\ new.entry = e /\ new.revision = rev /\ new.stamp = clock
    BY DEF Edit
  <2>3. edit' = [edit EXCEPT ![r] = new]
    BY <1>1 DEF Flush
  <2> HIDE DEF new
  <2>4. /\ edit' \in [Reviewers -> Edit \cup {None}] /\ edit'[r] = new
        /\ \A q \in Reviewers \ {r} : edit'[q] = edit[q]
    BY <2>2, <2>3
  <2>5. \A q \in Reviewers : edit[q] # None => edit[q] \in Edit
    OBVIOUS
  <2>6. EditsApart'
    <3>1. ASSUME NEW p \in Reviewers, NEW q \in Reviewers,
                 edit'[p] # None, edit'[q] # None, p # q
          PROVE  edit'[p].entry # edit'[q].entry
      BY <1>h, <2>1, <2>2, <2>4, <3>1
    <3>2. ASSUME NEW q \in Reviewers, edit'[q] # None
          PROVE  /\ entryRev[edit'[q].entry] \in {0, edit'[q].revision}
                 /\ edit'[q].revision \in 1 .. current
                 /\ edit'[q].stamp < clock + 1
      <4>1. CASE q = r
        BY <2>1, <2>2, <2>4, <4>1
      <4>2. CASE q # r
        BY <2>4, <2>5, <3>2, <4>2 DEF Edit
      <4>3. QED
        BY <4>1, <4>2
    <3>3. \A a \in Entries : updated[a] < clock + 1
      OBVIOUS
    <3>4. QED
      BY <2>1, <3>1, <3>2, <3>3
  <2>7. QED
    BY <2>1, <2>4, <2>6
<1>2. ASSUME NEW r \in Reviewers, CommitEdit(r)
      PROVE  Kept
  BY <1>2, SMTT(40) DEF CommitEdit, Edit
<1>3. ASSUME NEW r \in Reviewers, RollBack(r)
      PROVE  Kept
  BY <1>3 DEF RollBack, Edit
<1>4. ASSUME NEW new \in SUBSET Entries, ExtractStores(new)
      PROVE  Kept
  BY <1>h, <1>4, SMTT(40) DEF ExtractStores, Tick, Edit
<1>5. ASSUME NewRevision
      PROVE  Kept
  <2>1. EditsApart'
    BY <1>5, SMTT(40) DEF NewRevision, Tick, Edit
  <2>2. QED
    BY <1>5, <2>1 DEF NewRevision, Tick
<1> HIDE DEF Kept
<1>6. Kept
  BY <1>1, <1>2, <1>3, <1>4, <1>5 DEF LedgerStep
<1>7. QED
  BY <1>6 DEF Kept

LEMMA SnapshotOutlives ==
  ASSUME TypeOK, EditsApart, LedgerStep
  PROVE  \A s : Snapshot(s) => Snapshot(s)'
<1> SUFFICES ASSUME NEW s, Snapshot(s)
             PROVE  Snapshot(s)'
  OBVIOUS
<1>t. /\ s.ids \in SUBSET Entries /\ s.source \in Nat
      /\ s.revision \in Nat /\ s.now \in Nat /\ s.open \in SUBSET Entries
      /\ s \in Reading /\ s.seen \in [Entries -> Nat]
      /\ clock \in Nat /\ current \in Nat
  BY DEF Snapshot, Reading, TypeOK
<1> USE DEF TypeOK, EditsApart, Snapshot, ledger, Ledger
<1>1. ASSUME NEW r \in Reviewers, NEW e \in Entries, NEW v \in 1 .. current,
             Flush(r, e, v)
      PROVE  Snapshot(s)'
  <2>1. /\ edit' = [edit EXCEPT ![r] =
                     [entry |-> e, revision |-> v, stamp |-> clock]]
        /\ clock' = clock + 1 /\ UNCHANGED <<current, entryRev, updated>>
    BY <1>1 DEF Flush, Tick
  <2>2. \A q \in Reviewers :
          edit'[q] # None => edit'[q].stamp = clock \/ edit'[q] = edit[q]
    BY <2>1
  <2>3. s.ids \subseteq Ledger(s.revision)'
    BY <2>1
  <2> HIDE DEF TypeOK, EditsApart, Ledger
  <2>4. QED
    BY <1>t, <2>1, <2>2, <2>3
<1>2. ASSUME NEW r \in Reviewers, CommitEdit(r)
      PROVE  Snapshot(s)'
  <2> DEFINE d == edit[r]
  <2>1. d \in Edit /\ d # None
    BY <1>2 DEF CommitEdit
  <2>2. /\ d.entry \in Entries /\ d.revision \in Nat /\ d.stamp \in Nat
        /\ entryRev[d.entry] \in {0, d.revision}
    BY <2>1 DEF Edit
  <2>3. /\ \A e \in Entries :
             /\ entryRev'[e] = IF e = d.entry THEN d.revision ELSE entryRev[e]
             /\ updated'[e] = IF e = d.entry THEN d.stamp ELSE updated[e]
        /\ edit' = [edit EXCEPT ![r] = None] /\ UNCHANGED <<current, clock>>
    BY <1>2 DEF CommitEdit
  <2>4. \A q \in Reviewers : edit'[q] # None => edit'[q] = edit[q] /\ edit[q] # None
    BY <2>3
  <2> HIDE DEF d
  <2>5. s.ids \subseteq Ledger(s.revision)'
    BY <1>t, <2>2, <2>3
  <2> HIDE DEF TypeOK, EditsApart, Ledger
  <2>6. \A e \in s.ids \ s.open :
          /\ updated'[e] = s.seen[e] \/ updated'[e] > s.source
          /\ \A q \in Reviewers :
               edit'[q] # None /\ edit'[q].entry = e => edit'[q].stamp > s.source
    BY <1>t, <2>1, <2>3, <2>4 DEF d
  <2>7. s.revision = s.now /\ s.now < current =>
          \A e \in s.ids :
            /\ updated'[e] > s.source
            /\ \A q \in Reviewers :
                 edit'[q] # None /\ edit'[q].entry = e => edit'[q].stamp > s.source
    BY <1>t, <2>1, <2>3, <2>4 DEF d
  <2>8. QED
    BY <1>t, <2>3, <2>5, <2>6, <2>7
<1>3. ASSUME NEW r \in Reviewers, RollBack(r)
      PROVE  Snapshot(s)'
  BY <1>t, <1>3 DEF RollBack, Edit
<1>4. ASSUME NEW new \in SUBSET Entries, ExtractStores(new)
      PROVE  Snapshot(s)'
  <2>1. /\ \A e \in new : entryRev[e] = 0
        /\ entryRev' = [e \in Entries |-> IF e \in new THEN current ELSE entryRev[e]]
        /\ updated' = [e \in Entries |-> IF e \in new THEN clock ELSE updated[e]]
        /\ clock' = clock + 1 /\ UNCHANGED <<current, edit>>
    BY <1>4 DEF ExtractStores, Tick
  <2>2. \A e \in s.ids : e \notin new
    BY <1>t, <2>1
  <2>3. \A e \in s.ids : entryRev'[e] = entryRev[e] /\ updated'[e] = updated[e]
    BY <1>t, <2>1, <2>2
  <2>4. s.ids \subseteq Ledger(s.revision)'
    BY <1>t, <2>3
  <2> HIDE DEF TypeOK, EditsApart, Ledger
  <2>5. QED
    BY <1>t, <2>1, <2>3, <2>4
<1>5. ASSUME NewRevision
      PROVE  Snapshot(s)'
  <2>1. CASE s.revision < current
    <3>1. \A e \in s.ids : e \notin Ledger(current)
      BY <1>t, <2>1
    <3>2. /\ \A e \in s.ids : updated'[e] = updated[e]
          /\ current' = current + 1 /\ clock' = clock + 1
          /\ UNCHANGED <<entryRev, edit>>
      BY <1>t, <1>5, <3>1 DEF NewRevision, Tick
    <3>3. s.revision = s.now => s.now < current
      BY <2>1
    <3>4. s.ids \subseteq Ledger(s.revision)'
      BY <3>2
    <3> HIDE DEF TypeOK, EditsApart, Ledger
    <3>5. QED
      BY <1>t, <3>2, <3>3, <3>4
  <2>2. CASE s.revision = current
    <3>1. \A r \in Reviewers : edit[r] # None => edit[r].entry \notin s.ids
      BY <1>5, <2>2 DEF NewRevision, Held
    <3>2. \A e \in s.ids : updated'[e] = clock
      BY <1>5, <2>2 DEF NewRevision
    <3>3. QED
      BY <1>t, <1>5, <2>2, <3>1, <3>2, SMTT(40) DEF NewRevision, Tick, Edit
  <2>3. QED
    BY <1>t, <2>1, <2>2
<1>6. QED
  BY <1>1, <1>2, <1>3, <1>4, <1>5 DEF LedgerStep

LEMMA LedgerKeepsIInv ==
  ASSUME IInv, LedgerStep
  PROVE  IInv'
<1>1. TypeOK /\ EditsApart
  BY DEF IInv
<1>2. /\ EditsApart' /\ UNCHANGED <<summary, job>>
      /\ current' \in Nat /\ clock' \in Nat /\ current <= current'
      /\ entryRev' \in [Entries -> Nat] /\ updated' \in [Entries -> Nat]
      /\ edit' \in [Reviewers -> Edit \cup {None}]
  BY <1>1, LedgerKeepsEdits
<1>3. \A s : Snapshot(s) => Snapshot(s)'
  BY <1>1, SnapshotOutlives
<1>4. UNCHANGED <<summary, pc, read, answer, cursor, claimed, rest, groups,
                  preGroups, themes>>
  BY <1>2 DEF job, loop
<1>5. TypeOK'
  BY <1>1, <1>2, <1>4 DEF TypeOK
<1>6. LoopInv' /\ GroupsPartition' /\ LeftOutOnlyByCap'
  BY <1>4 DEF IInv, LoopInv, GroupsPartition, LeftOutOnlyByCap
<1>7. SnapshotsKept'
  <2>1. pc = "read" => read.revision \in 1 .. current'
    BY <1>1, <1>2 DEF IInv, SnapshotsKept, TypeOK, Reading
  <2>2. /\ pc \notin {"idle", "read"} => Snapshot(read)'
        /\ summary # None => Summarizes(summary)'
    BY <1>3, <1>4 DEF IInv, SnapshotsKept, Summarizes
  <2>3. QED
    BY <1>4, <2>1, <2>2 DEF SnapshotsKept
<1>8. ThemesTraceable'
  BY <1>4, <1>7 DEF IInv, ThemesTraceable, SnapshotsKept, Summarizes, Snapshot
<1>9. QED
  BY <1>2, <1>5, <1>6, <1>7, <1>8 DEF IInv

-----------------------------------------------------------------------------
(* The job's steps leave the ledger alone, and with it every snapshot.     *)
LEMMA LedgerAlone ==
  ASSUME TypeOK, EditsApart, UNCHANGED <<ledger, clock, edit>>
  PROVE  EditsApart' /\ \A s : Snapshot(s) => Snapshot(s)'
<1>1. UNCHANGED <<current, entryRev, updated, clock, edit>>
  BY DEF ledger
<1>2. QED
  BY <1>1 DEF EditsApart, Snapshot, Ledger

LEMMA SummaryAlone ==
  ASSUME IInv, UNCHANGED <<ledger, clock, edit, summary>>
  PROVE  /\ EditsApart' /\ ThemesTraceable' /\ LeftOutOnlyByCap'
         /\ summary' # None => Summarizes(summary)'
<1>1. TypeOK /\ EditsApart
  BY DEF IInv
<1>2. EditsApart' /\ \A s : Snapshot(s) => Snapshot(s)'
  BY <1>1, LedgerAlone
<1>3. UNCHANGED <<summary, entryRev>>
  BY DEF ledger
<1>4. ThemesTraceable' /\ LeftOutOnlyByCap'
  BY <1>3 DEF IInv, ThemesTraceable, LeftOutOnlyByCap, Ledger
<1>5. summary' # None => Summarizes(summary)'
  BY <1>2, <1>3 DEF IInv, SnapshotsKept, Summarizes
<1>6. QED
  BY <1>2, <1>4, <1>5

(* A step in the middle of a job has its loop to show, and nothing else.   *)
LEMMA MiddleOfJob ==
  ASSUME IInv, UNCHANGED <<ledger, clock, edit, summary, read>>,
         pc \notin {"idle", "read"}, pc' # "read",
         TypeOK', LoopInv', GroupsPartition'
  PROVE  IInv'
<1>1. /\ EditsApart' /\ ThemesTraceable' /\ LeftOutOnlyByCap'
      /\ summary' # None => Summarizes(summary)'
  BY SummaryAlone
<1>2. Snapshot(read)'
  BY LedgerAlone DEF IInv, SnapshotsKept
<1>3. QED
  BY <1>1, <1>2 DEF IInv, SnapshotsKept

(* _process returns and leaves nothing behind.                             *)
LEMMA JobEnds ==
  ASSUME IInv, EndJob, UNCHANGED <<ledger, clock, edit>>
  PROVE  TypeOK' /\ LoopInv' /\ GroupsPartition' /\ EditsApart' /\ pc' = "idle"
<1>1. UNCHANGED <<current, entryRev, updated, clock, edit>>
  BY DEF ledger
<1>2. /\ pc' = "idle" /\ read' = Nothing /\ answer' = <<>> /\ cursor' = 1
      /\ claimed' = {} /\ rest' = {} /\ groups' = <<>> /\ preGroups' = None
      /\ themes' = <<>>
  BY DEF EndJob
<1>3. TypeOK'
  BY <1>1, <1>2 DEF IInv, TypeOK, Nothing, Reading
<1>4. LoopInv' /\ GroupsPartition'
  BY <1>2 DEF LoopInv, GroupsPartition
<1>5. EditsApart'
  BY LedgerAlone DEF IInv
<1>6. QED
  BY <1>2, <1>3, <1>4, <1>5

(* The job loads the session row.                                          *)
LEMMA LoadKeepsIInv ==
  ASSUME IInv, LoadSession
  PROVE  IInv'
<1>1. /\ UNCHANGED <<ledger, clock, edit, summary>>
      /\ pc = "idle" /\ pc' = "read"
      /\ read' = [Nothing EXCEPT !.revision = current]
      /\ UNCHANGED <<answer, cursor, claimed, rest, groups, preGroups, themes,
                     current, entryRev, updated>>
  BY DEF LoadSession, loop, ledger
<1>2. TypeOK /\ EditsApart
  BY DEF IInv
<1>3. Nothing \in Reading
  BY DEF Nothing, Reading
<1>4. read' \in Reading /\ read'.revision = current
  BY <1>1, <1>2, <1>3 DEF TypeOK, Reading
<1>5. TypeOK'
  BY <1>1, <1>2, <1>4 DEF TypeOK
<1>6. LoopInv' /\ GroupsPartition'
  BY <1>1 DEF IInv, LoopInv, GroupsPartition
<1>7. read'.revision \in 1 .. current'
  BY <1>1, <1>2, <1>4 DEF TypeOK, EditsApart
<1>8. QED
  BY <1>1, <1>5, <1>6, <1>7, SummaryAlone DEF IInv, SnapshotsKept

(* The job reads a ledger: source_updated_at is the latest of its rows.    *)
LEMMA ReadKeepsIInv ==
  ASSUME IInv, ReadLedger
  PROVE  IInv'
<1>1. TypeOK /\ EditsApart /\ UNCHANGED <<ledger, clock, edit, summary>>
  BY DEF IInv, ReadLedger
<1> DEFINE rev == read.revision
           L == Ledger(rev)
           U == {updated[e] : e \in L}
<1>2. /\ pc = "read" /\ pc' = "consolidate" /\ L # {}
      /\ UNCHANGED <<answer, cursor, claimed, rest, groups, preGroups, themes,
                     current, entryRev, updated>>
  BY DEF ReadLedger, loop, ledger
<1>3. U \in SUBSET Nat /\ U # {} /\ \A u \in U : u < clock
  <2>1. \A e \in L : updated[e] \in Nat /\ updated[e] < clock
    BY <1>1 DEF TypeOK, EditsApart, Ledger
  <2>2. QED
    BY <1>2, <2>1
<1>4. Max(U) \in Nat /\ Max(U) < clock
  BY <1>1, <1>3, Greatest DEF TypeOK
<1>5. read' = [revision |-> rev, ids |-> L, source |-> Max(U),
               now |-> current, open |-> Held, seen |-> updated]
  BY DEF ReadLedger
<1> HIDE DEF U
<1>6. /\ rev \in 1 .. current /\ rev \in Nat /\ current \in Nat
      /\ L \in SUBSET Entries /\ updated \in [Entries -> Nat]
  BY <1>1, <1>2 DEF IInv, SnapshotsKept, TypeOK, Reading, Ledger
<1>7. /\ Held \in SUBSET Entries
      /\ \A r \in Reviewers : edit[r] # None => edit[r].entry \in Held
  BY <1>1 DEF Held, TypeOK, Edit
<1> HIDE DEF rev, L
<1>8. /\ read' \in Reading
      /\ read'.revision = rev /\ read'.ids = L /\ read'.source = Max(U)
      /\ read'.now = current /\ read'.open = Held /\ read'.seen = updated
  BY <1>4, <1>5, <1>6, <1>7 DEF Reading
<1>9. TypeOK'
  BY <1>1, <1>2, <1>8 DEF TypeOK
<1>10. LoopInv' /\ GroupsPartition'
  BY <1>2 DEF IInv, LoopInv, GroupsPartition
<1>11. Snapshot(read)'
  BY <1>1, <1>2, <1>4, <1>6, <1>7, <1>8 DEF Snapshot, Ledger, L
<1>12. QED
  BY <1>1, <1>2, <1>9, <1>10, <1>11, SummaryAlone DEF IInv, SnapshotsKept

(* Consolidation: what the groups hold is what has been claimed.           *)
LEMMA ConsolidationKeepsIInv ==
  ASSUME IInv,
         \/ Consolidate \/ GroupItem \/ GroupsEnd \/ Consolidated
         \/ \E e \in Entries : Singleton(e)
  PROVE  IInv'
<1>1. TypeOK /\ LoopInv /\ GroupsPartition
  BY DEF IInv
<1>2. /\ UNCHANGED <<ledger, clock, edit, summary, read>>
      /\ pc \notin {"idle", "read"} /\ pc' # "read"
      /\ UNCHANGED <<current, entryRev, updated>>
  BY DEF Consolidate, GroupItem, GroupsEnd, Consolidated, Singleton, ledger
<1>3. read.ids \subseteq Entries
  BY <1>1 DEF TypeOK, Reading
<1>4. SUFFICES TypeOK' /\ LoopInv' /\ GroupsPartition'
  BY <1>2, MiddleOfJob
<1>5. CASE Consolidate
  <2>1. /\ pc = "consolidate" /\ pc' \in {"summarize", "group"}
        /\ groups = <<>> /\ preGroups = None /\ themes = <<>>
        /\ UNCHANGED <<groups, preGroups, themes>>
    BY <1>1, <1>5 DEF Consolidate, LoopInv
  <2>2. /\ answer' \in Seq(SUBSET Nat) /\ cursor' \in Nat \ {0}
        /\ claimed' \subseteq Entries /\ rest' \subseteq Entries
        /\ pc' = "group" => claimed' = {}
    BY <1>1, <1>5, AnswersAssumption DEF Consolidate, Begin, loop, TypeOK
  <2>3. TypeOK'
    BY <1>1, <1>2, <2>1, <2>2 DEF TypeOK
  <2>4. Covers(<<>>, read.ids, {})
    BY DEF Covers, Disjoint
  <2>5. LoopInv' /\ GroupsPartition'
    BY <1>2, <2>1, <2>2, <2>4 DEF LoopInv, GroupsPartition
  <2>6. QED
    BY <2>3, <2>5
<1>6. CASE GroupItem
  <2>1. /\ pc = "group" /\ cursor \in DOMAIN answer
        /\ groups' = IF Usable = {} THEN groups ELSE Append(groups, Usable)
        /\ claimed' = claimed \cup Usable /\ cursor' = cursor + 1
        /\ UNCHANGED <<pc, answer, rest, preGroups, themes>>
    BY <1>1, <1>6 DEF GroupItem, NextItem, TypeOK
  <2>2. /\ Usable \in SUBSET Entries /\ Usable \subseteq read.ids
        /\ Usable \cap claimed = {}
    BY <1>3 DEF Usable
  <2>3. Covers(groups, read.ids, claimed)
    BY <1>1, <2>1 DEF LoopInv
  <2>4. Covers(groups', read.ids, claimed')
    BY <1>1, <2>1, <2>2, <2>3, AppendGroup DEF TypeOK
  <2>5. TypeOK'
    BY <1>1, <1>2, <2>1, <2>2, SMTT(40) DEF TypeOK
  <2>6. LoopInv' /\ GroupsPartition'
    BY <1>1, <1>2, <2>1, <2>4 DEF LoopInv, GroupsPartition
  <2>7. QED
    BY <2>5, <2>6
<1>7. CASE GroupsEnd
  <2>1. /\ pc = "group" /\ pc' = "singletons" /\ rest' = read.ids \ claimed
        /\ UNCHANGED <<answer, cursor, claimed, groups, preGroups, themes>>
    BY <1>7 DEF GroupsEnd, Forgotten
  <2>2. Covers(groups, read.ids, claimed)
    BY <1>1, <2>1 DEF LoopInv
  <2>3. read.ids \ rest' = claimed
    BY <2>1, <2>2 DEF Covers
  <2>4. TypeOK'
    BY <1>1, <1>2, <1>3, <2>1 DEF TypeOK
  <2>5. LoopInv' /\ GroupsPartition'
    BY <1>1, <1>2, <2>1, <2>2, <2>3 DEF LoopInv, GroupsPartition
  <2>6. QED
    BY <2>4, <2>5
<1>8. ASSUME NEW e \in Entries, Singleton(e)
      PROVE  TypeOK' /\ LoopInv' /\ GroupsPartition'
  <2>1. /\ pc = "singletons" /\ e \in rest
        /\ groups' = Append(groups, {e}) /\ rest' = rest \ {e}
        /\ UNCHANGED <<pc, answer, cursor, claimed, preGroups, themes>>
    BY <1>8 DEF Singleton
  <2>2. Covers(groups, read.ids, read.ids \ rest) /\ rest \subseteq read.ids
    BY <1>1, <2>1 DEF LoopInv
  <2>3. Covers(groups', read.ids, (read.ids \ rest) \cup {e})
    <3>1. /\ groups \in Seq(SUBSET Entries) /\ {e} \in SUBSET Entries
          /\ {e} # {} /\ {e} \subseteq read.ids
          /\ {e} \cap (read.ids \ rest) = {}
      BY <1>1, <2>1, <2>2 DEF TypeOK
    <3>2. Covers(Append(groups, {e}), read.ids, (read.ids \ rest) \cup {e})
      BY <2>2, <3>1, AppendGroup
    <3>3. QED
      BY <2>1, <3>2
  <2>4. (read.ids \ rest) \cup {e} = read.ids \ rest'
    BY <2>1, <2>2
  <2>5. TypeOK'
    BY <1>1, <1>2, <2>1, SMTT(40) DEF TypeOK
  <2>6. LoopInv' /\ GroupsPartition'
    BY <1>1, <1>2, <2>1, <2>2, <2>3, <2>4 DEF LoopInv, GroupsPartition
  <2>7. QED
    BY <2>5, <2>6
<1>9. CASE Consolidated
  <2>1. /\ pc = "singletons" /\ pc' = "summarize" /\ rest = {}
        /\ preGroups' = groups /\ answer' = <<>> /\ cursor' = 1
        /\ claimed' = {} /\ rest' = {} /\ UNCHANGED <<groups, themes>>
    BY <1>9 DEF Consolidated, Begin
  <2>2. Partition(groups, read.ids)
    BY <1>1, <2>1, CoveredIsPartition DEF LoopInv
  <2>3. TypeOK'
    BY <1>1, <1>2, <2>1 DEF TypeOK
  <2>4. LoopInv' /\ GroupsPartition'
    BY <1>1, <1>2, <2>1, <2>2 DEF LoopInv, GroupsPartition
  <2>5. QED
    BY <2>3, <2>4
<1>10. QED
  BY <1>5, <1>6, <1>7, <1>8, <1>9

(* The themes: what they cite is what has been claimed, and what is cut is *)
(* cut by the cap.                                                         *)
LEMMA SummaryKeepsIInv ==
  ASSUME IInv, Summarize \/ ThemeItem \/ ThemesEnd \/ Fallback \/ Truncate
  PROVE  IInv'
<1>1. TypeOK /\ LoopInv /\ GroupsPartition
  BY DEF IInv
<1>2. /\ UNCHANGED <<ledger, clock, edit, summary, read>>
      /\ pc \notin {"idle", "read"} /\ pc' # "read"
      /\ UNCHANGED <<current, entryRev, updated, groups, preGroups>>
  BY DEF Summarize, ThemeItem, ThemesEnd, Fallback, Truncate, ledger
<1>3. read.ids \subseteq Entries /\ themes \in Seq(ThemeRow)
  BY <1>1 DEF TypeOK, ThemeRow, Reading
<1>4. GroupsPartition'
  BY <1>1, <1>2 DEF GroupsPartition
<1>5. SUFFICES TypeOK' /\ LoopInv'
  BY <1>2, <1>4, MiddleOfJob
<1>6. CASE Summarize
  <2>1. /\ pc = "summarize" /\ pc' = "theme" /\ themes = <<>>
        /\ UNCHANGED themes
    BY <1>1, <1>6 DEF Summarize, LoopInv
  <2>2. /\ answer' \in Seq(SUBSET Nat) /\ cursor' \in Nat \ {0}
        /\ claimed' = {} /\ rest' = {}
    BY <1>6, AnswersAssumption DEF Summarize, Begin
  <2>3. TypeOK'
    BY <1>1, <1>2, <2>1, <2>2 DEF TypeOK
  <2>4. Covers(Ids(<<>>), read.ids, {})
    BY DEF Covers, Disjoint, Ids
  <2>5. LoopInv'
    BY <1>2, <2>1, <2>2, <2>4 DEF LoopInv
  <2>6. QED
    BY <2>3, <2>5
<1>7. CASE ThemeItem
  <2>1. /\ pc = "theme" /\ cursor \in DOMAIN answer
        /\ themes' = IF Usable = {} THEN themes
                     ELSE Append(themes, Theme(Usable, "model"))
        /\ claimed' = claimed \cup Usable /\ cursor' = cursor + 1
        /\ UNCHANGED <<pc, answer, rest>>
    BY <1>1, <1>7 DEF ThemeItem, DiscardTheme, NextItem, TypeOK
  <2>2. /\ Usable \in SUBSET Entries /\ Usable \subseteq read.ids
        /\ Usable \cap claimed = {}
    BY <1>3 DEF Usable
  <2>3. Covers(Ids(themes), read.ids, claimed)
    BY <1>1, <2>1 DEF LoopInv
  <2>4. themes' \in Seq(ThemeRow) /\ Covers(Ids(themes'), read.ids, claimed')
    BY <1>3, <2>1, <2>2, <2>3, AppendTheme
  <2>5. TypeOK'
    BY <1>1, <1>2, <2>1, <2>2, <2>4, SMTT(40) DEF TypeOK, ThemeRow
  <2>6. LoopInv'
    BY <1>2, <2>1, <2>4 DEF LoopInv
  <2>7. QED
    BY <2>5, <2>6
<1>8. CASE ThemesEnd
  <2>1. /\ pc = "theme" /\ pc' = "fallback" /\ rest' = Omitted
        /\ UNCHANGED <<answer, cursor, claimed, themes>>
    BY <1>8 DEF ThemesEnd
  <2>2. Covers(Ids(themes), read.ids, claimed)
    BY <1>1, <2>1 DEF LoopInv
  <2> DEFINE G == UNION {preGroups[k] : k \in DOMAIN preGroups}
  <2>g. Omitted = IF preGroups = None THEN {} ELSE (G \cap read.ids) \ claimed
    BY DEF Omitted
  <2> HIDE DEF G
  <2>3. Omitted \subseteq read.ids \ claimed
    BY <2>g
  <2>4. ASSUME preGroups # None
        PROVE  read.ids \subseteq claimed \cup Omitted
    <3>1. \A e \in read.ids : \E k \in DOMAIN preGroups : e \in preGroups[k]
      BY <1>1, <2>4 DEF GroupsPartition, Partition
    <3>2. read.ids \subseteq G
      BY <3>1 DEF G
    <3>3. QED
      BY <2>4, <2>g, <3>2
  <2>5. TypeOK'
    BY <1>1, <1>2, <1>3, <2>1, <2>3 DEF TypeOK
  <2>6. LoopInv'
    BY <1>2, <2>1, <2>2, <2>3, <2>4 DEF LoopInv
  <2>7. QED
    BY <2>5, <2>6
<1>9. CASE Fallback
  <2> DEFINE m == Min(rest)
  <2>1. /\ pc = "fallback" /\ rest # {}
        /\ themes' = Append(themes, Theme({m}, "fallback"))
        /\ claimed' = claimed \cup {m} /\ rest' = rest \ {m}
        /\ UNCHANGED <<pc, answer, cursor>>
    BY <1>9 DEF Fallback
  <2>2. rest \in SUBSET Nat
    BY <1>1, EntriesAssumption DEF TypeOK
  <2>3. m \in rest
    BY <2>1, <2>2, Least
  <2> HIDE DEF m
  <2>4. /\ Covers(Ids(themes), read.ids, claimed)
        /\ rest \subseteq read.ids \ claimed
        /\ preGroups # None => read.ids \subseteq claimed \cup rest
    BY <1>1, <2>1 DEF LoopInv
  <2>5. /\ {m} \in SUBSET Entries /\ {m} # {} /\ {m} \subseteq read.ids
        /\ {m} \cap claimed = {}
    BY <1>3, <2>3, <2>4
  <2>6. themes' \in Seq(ThemeRow) /\ Covers(Ids(themes'), read.ids, claimed')
    BY <1>3, <2>1, <2>4, <2>5, AppendTheme
  <2>7. TypeOK'
    BY <1>1, <1>2, <2>1, <2>5, <2>6 DEF TypeOK, ThemeRow
  <2>8. /\ rest' \subseteq read.ids \ claimed'
        /\ preGroups # None => read.ids \subseteq claimed' \cup rest'
    BY <2>1, <2>4
  <2>9. LoopInv'
    BY <1>2, <2>1, <2>6, <2>8 DEF LoopInv
  <2>10. QED
    BY <2>7, <2>9
<1>10. CASE Truncate
  <2>1. /\ pc = "fallback" /\ pc' = "store" /\ rest = {}
        /\ themes' = IF Len(themes) > MaxThemes THEN Cut(themes) ELSE themes
        /\ UNCHANGED <<answer, cursor, claimed, rest>>
    BY <1>10 DEF Truncate, loop
  <2>2. /\ Covers(Ids(themes), read.ids, claimed)
        /\ preGroups # None => read.ids \subseteq claimed
    BY <1>1, <2>1 DEF LoopInv
  <2>3. /\ themes' \in Seq(ThemeRow)
        /\ \E c : Covers(Ids(themes'), read.ids, c)
        /\ \/ preGroups = None
           \/ Partition(Ids(themes'), read.ids)
           \/ Len(themes') = MaxThemes
    <3>1. CASE Len(themes) > MaxThemes
      BY <1>3, <2>1, <2>2, <3>1, CutThemes
    <3>2. CASE ~(Len(themes) > MaxThemes)
      BY <1>3, <2>1, <2>2, <3>2, CoveredIsPartition
    <3>3. QED
      BY <3>1, <3>2
  <2>4. TypeOK'
    BY <1>1, <1>2, <2>1, <2>3 DEF TypeOK, ThemeRow
  <2>5. LoopInv'
    BY <1>2, <2>1, <2>3 DEF LoopInv
  <2>6. QED
    BY <2>4, <2>5
<1>11. QED
  BY <1>6, <1>7, <1>8, <1>9, <1>10

(* The end of a job: what is stored is what the loops have shown.          *)
LEMMA EndKeepsIInv ==
  ASSUME IInv, Store \/ Abandon \/ NothingToSummarize
  PROVE  IInv'
<1>1. EndJob /\ UNCHANGED <<ledger, clock, edit>>
  BY DEF Store, Abandon, NothingToSummarize
<1>2. TypeOK' /\ LoopInv' /\ GroupsPartition' /\ EditsApart' /\ pc' = "idle"
  BY <1>1, JobEnds
<1>3. CASE Abandon \/ NothingToSummarize
  <2>1. UNCHANGED summary
    BY <1>3 DEF Abandon, NothingToSummarize
  <2>2. QED
    BY <1>1, <1>2, <2>1, SummaryAlone DEF IInv, SnapshotsKept
<1>4. CASE Store
  <2>1. /\ pc = "store"
        /\ summary'.revision = read.revision /\ summary'.from = read
        /\ summary'.themes = themes
        /\ summary'.entry_count = Cardinality(read.ids)
        /\ summary'.source_updated_at = read.source
        /\ summary'.grouped = (preGroups # None)
    BY <1>4 DEF Store, SourceAtRead
  <2>2. Snapshot(read)
    BY <2>1 DEF IInv, SnapshotsKept
  <2>3. /\ Snapshot(summary.from)' /\ UNCHANGED entryRev
    BY <1>1, <2>1, <2>2 DEF Snapshot, ledger, Ledger
  <2>4. SnapshotsKept'
    BY <1>2, <2>1, <2>3 DEF SnapshotsKept, Summarizes
  <2>5. PICK c : Covers(Ids(themes), read.ids, c)
    BY <2>1 DEF IInv, LoopInv
  <2>6. /\ Disjoint(Ids(themes))
        /\ \A k \in DOMAIN themes :
             themes[k].ids # {} /\ themes[k].ids \subseteq read.ids
    BY <2>5 DEF Covers, Ids
  <2>7. ThemesTraceable'
    BY <2>1, <2>2, <2>3, <2>6 DEF ThemesTraceable, Snapshot, Ledger
  <2>8. LeftOutOnlyByCap'
    BY <2>1 DEF IInv, LoopInv, LeftOutOnlyByCap
  <2>9. QED
    BY <1>2, <2>4, <2>7, <2>8 DEF IInv
<1>5. QED
  BY <1>3, <1>4

LEMMA InitIInv == Init => IInv
<1> SUFFICES ASSUME Init PROVE IInv
  OBVIOUS
<1>1. TypeOK
  BY DEF Init, TypeOK, Nothing, Reading
<1>2. LoopInv /\ EditsApart /\ SnapshotsKept
  BY DEF Init, LoopInv, EditsApart, SnapshotsKept
<1>3. GroupsPartition /\ ThemesTraceable /\ LeftOutOnlyByCap
  BY DEF Init, GroupsPartition, ThemesTraceable, LeftOutOnlyByCap
<1>4. QED
  BY <1>1, <1>2, <1>3 DEF IInv

LEMMA NextKeepsIInv == IInv /\ [Next]_vars => IInv'
<1> SUFFICES ASSUME IInv, [Next]_vars PROVE IInv'
  OBVIOUS
<1>1. CASE LedgerStep
  BY <1>1, LedgerKeepsIInv
<1>2. CASE LoadSession
  BY <1>2, LoadKeepsIInv
<1>3. CASE JobStep
  BY <1>3, ReadKeepsIInv, ConsolidationKeepsIInv, SummaryKeepsIInv, EndKeepsIInv DEF JobStep
<1>4. CASE UNCHANGED vars
  <2>1. UNCHANGED <<current, entryRev, updated, clock, edit, summary, pc, read,
                    answer, cursor, claimed, rest, groups, preGroups, themes>>
    BY <1>4 DEF vars, ledger, job, loop
  <2>2. TypeOK' /\ EditsApart' /\ LoopInv'
    BY <2>1 DEF IInv, TypeOK, EditsApart, LoopInv
  <2>3. SnapshotsKept'
    BY <2>1 DEF IInv, SnapshotsKept, Summarizes, Snapshot, Ledger
  <2>4. GroupsPartition' /\ ThemesTraceable' /\ LeftOutOnlyByCap'
    BY <2>1 DEF IInv, GroupsPartition, ThemesTraceable, LeftOutOnlyByCap, Ledger
  <2>5. QED
    BY <2>2, <2>3, <2>4 DEF IInv
<1>5. QED
  BY <1>1, <1>2, <1>3, <1>4 DEF Next

-----------------------------------------------------------------------------
(* The inductive invariant of the summary, whatever the model answers and  *)
(* whenever the ledger changes.                                            *)
THEOREM Invariance == Spec => []IInv
  BY InitIInv, NextKeepsIInv, PTL DEF Spec

(* Every variable of the SUMMARIZE job and of the ledger keeps its type.   *)
THEOREM TypeCorrect == Spec => []TypeOK
<1>1. IInv => TypeOK
  BY DEF IInv
<1>2. QED
  BY <1>1, Invariance, PTL

(* _coerce_consolidation puts every entry that was read into one group.    *)
THEOREM AlwaysPartition == Spec => []GroupsPartition
<1>1. IInv => GroupsPartition
  BY DEF IInv
<1>2. QED
  BY <1>1, Invariance, PTL

(* A stored theme of _coerce_summary cites entries that were read, at      *)
(* least one, and none that another theme cites.                           *)
THEOREM AlwaysTraceable == Spec => []ThemesTraceable
<1>1. IInv => ThemesTraceable
  BY DEF IInv
<1>2. QED
  BY <1>1, Invariance, PTL

(* After a consolidation, _coerce_summary leaves an entry out only when    *)
(* there are max_themes themes.                                            *)
THEOREM AlwaysLeftOutByCap == Spec => []LeftOutOnlyByCap
<1>1. IInv => LeftOutOnlyByCap
  BY DEF IInv
<1>2. QED
  BY <1>1, Invariance, PTL

(* What get_summary shows as fresh was made from all entries of its        *)
(* revision, and what nobody was changing when the job read it has not     *)
(* changed since, the current revision included: the count and the latest  *)
(* time stamp suffice for that.                                            *)
THEOREM AlwaysFreshSinceRead == Spec => []FreshSinceRead
<1>1. IInv => FreshSinceRead
  <2> DEFINE s == summary.from
             L == Ledger(summary.revision)
  <2> SUFFICES ASSUME IInv, summary # None, ~Stale
               PROVE  /\ L = s.ids
                      /\ \A e \in s.ids \ s.open : updated[e] = s.seen[e]
                      /\ summary.revision = s.now => summary.revision = current
    BY DEF FreshSinceRead
  <2>1. TypeOK
    BY DEF IInv
  <2>2. /\ Snapshot(s) /\ summary.revision = s.revision
        /\ summary.source_updated_at = s.source
        /\ summary.entry_count = Cardinality(s.ids)
    BY DEF IInv, SnapshotsKept, Summarizes
  <2>3. /\ Cardinality(L) = summary.entry_count
        /\ \A e \in L : ~(updated[e] > summary.source_updated_at)
    BY DEF Stale
  <2>4. s.ids \in SUBSET L /\ s.ids # {} /\ L \subseteq Entries
    BY <2>2 DEF Snapshot, Ledger
  <2>5. IsFiniteSet(L)
    BY <2>4, EntriesAssumption, FS_Subset
  <2>6. L = s.ids
    BY <2>2, <2>3, <2>4, <2>5, FS_Subset
  <2> HIDE DEF L, s
  <2>7. \A e \in s.ids : ~(updated[e] > s.source)
    BY <2>2, <2>3, <2>4
  <2>8. \A e \in s.ids \ s.open : updated[e] = s.seen[e]
    BY <2>2, <2>7 DEF Snapshot
  <2>9. summary.revision = s.now => summary.revision = current
    <3>1. s.now \in Nat /\ current \in Nat /\ s.now <= current
      BY <2>1, <2>2 DEF Snapshot, Reading, TypeOK
    <3>2. ~(s.revision = s.now /\ s.now < current)
      BY <2>2, <2>4, <2>7 DEF Snapshot
    <3>3. QED
      BY <2>2, <3>1, <3>2
  <2>10. QED
    BY <2>6, <2>8, <2>9
<1>2. QED
  BY <1>1, Invariance, PTL
=============================================================================
