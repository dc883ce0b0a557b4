--------------------------- MODULE RetentionProofs ---------------------------
(***************************************************************************)
(* What the retention helper keeps and records, proved for any number of   *)
(* processes and files.                                                    *)
(***************************************************************************)
EXTENDS RetentionHelper, TLAPS

\* The bucket of a quarantine that is here does not exist yet.
NoBucketYet == {"idle", "opened"}

\* A purge that is here has written DELETE_PURGE_STARTED.
Erasing == {"remove", "unlink", "record"}

\* A bucket is named, by a purge or by the log, only once it has existed.
NamedOnceMade ==
  \A q \in Quarantines : qpc[q] \in NoBucketYet =>
    /\ q \notin exists
    /\ \A p \in Purges : q \notin listed[p]
    /\ \A r \in audit : q \notin r.items

\* How far a quarantine has come says what it has moved and recorded.
QuarantineInv ==
  \A q \in Quarantines :
    /\ qpc[q] \in NoBucketYet \cup {"bucket"} => moved[q] = None
    /\ qpc[q] = "same" => moved[q] = before[q]
    /\ Recorded("DELETE_REQUESTED", q) => qpc[q] = "ended"
    /\ inside[q] # None => moved[q] = inside[q]

\* A purge removes what it has announced, and has removed what it is done with.
PurgeInv ==
  \A p \in Purges :
    /\ todo[p] \subseteq listed[p]
    /\ ppc[p] = "idle" => listed[p] = {}
    /\ ppc[p] \in Erasing =>
         \A b \in listed[p] : Recorded("DELETE_PURGE_STARTED", b)
    /\ ppc[p] = "unlink" => visit[p].bucket \in todo[p]
    /\ ppc[p] \in {"remove", "unlink"} =>
         (listed[p] \ todo[p]) \cap exists = {}
    /\ ppc[p] = "record" => listed[p] \cap exists = {}

IInv ==
  /\ TypeOK
  /\ NamedOnceMade
  /\ QuarantineInv
  /\ PurgeInv
  /\ MovedIsKept
  /\ RequestedIsChecked
  /\ PurgedIsGone

-----------------------------------------------------------------------------
(* A step that leaves the log alone leaves what is recorded.               *)
LEMMA LogUnchanged ==
  ASSUME audit' = audit
  PROVE  \A e, b : Recorded(e, b)' <=> Recorded(e, b)
BY DEF Recorded

(* The steps of the application keep the invariant.                        *)
LEMMA PutKeepsIInv ==
  ASSUME IInv, NEW f \in Files \cup {None}, Put(f)
  PROVE  IInv'
<1>1. /\ place' \in Files \cup {None} /\ gone' \subseteq Files
      /\ UNCHANGED <<exists, inside, qpc, before, ppc, listed, todo, visit,
                     audit, erased, moved>>
  BY DEF Put, quarantiner, purger, IInv, TypeOK
<1>2. TypeOK'
  BY <1>1 DEF IInv, TypeOK
<1>3. NamedOnceMade' /\ QuarantineInv' /\ PurgeInv'
  BY <1>1, LogUnchanged DEF IInv, NamedOnceMade, QuarantineInv, PurgeInv
<1>4. MovedIsKept' /\ RequestedIsChecked' /\ PurgedIsGone'
  BY <1>1, LogUnchanged DEF IInv, MovedIsKept, RequestedIsChecked, PurgedIsGone
<1>5. QED
  BY <1>2, <1>3, <1>4 DEF IInv

(* The steps of quarantine keep the invariant.                             *)
LEMMA QuarantineKeepsIInv ==
  ASSUME IInv, NEW q \in Quarantines, Quarantine(q)
  PROVE  IInv'
<1> USE FilesAssumption DEF IInv, TypeOK, NoBucketYet, Erasing
<1>1. CASE Open(q)
  <2>1. /\ qpc[q] = "idle" /\ qpc' = [qpc EXCEPT ![q] = qpc'[q]]
        /\ qpc'[q] \in {"opened", "failed"}
        /\ before' \in [Quarantines -> (Files \ Links) \cup {None}]
        /\ \A r \in Quarantines \ {q} : before'[r] = before[r]
        /\ qpc'[q] = "opened" => before'[q] # None
        /\ UNCHANGED <<place, exists, inside, ppc, listed, todo, visit, audit,
                       gone, erased, moved>>
    BY <1>1 DEF Open, CanOpen, QGoto, files, purger, history
  <2>2. TypeOK'
    BY <2>1
  <2>3. NamedOnceMade'
    BY <2>1 DEF NamedOnceMade
  <2>4. ~Recorded("DELETE_REQUESTED", q)
    BY <2>1 DEF NamedOnceMade, Recorded
  <2>5. QuarantineInv' /\ PurgeInv'
    BY <2>1, <2>4, LogUnchanged DEF QuarantineInv, PurgeInv
  <2>6. MovedIsKept' /\ RequestedIsChecked' /\ PurgedIsGone'
    BY <2>1, <2>4, LogUnchanged DEF MovedIsKept, RequestedIsChecked, PurgedIsGone
  <2>7. QED
    BY <2>2, <2>3, <2>5, <2>6
<1>2. CASE NewBucket(q)
  <2>1. /\ qpc[q] = "opened" /\ qpc' = [qpc EXCEPT ![q] = "bucket"]
        /\ exists' = exists \cup {q}
        /\ UNCHANGED <<place, inside, before, ppc, listed, todo, visit, audit,
                       gone, erased, moved>>
    BY <1>2 DEF NewBucket, QGoto, purger, history
  <2>2. TypeOK' /\ NamedOnceMade'
    BY <2>1 DEF NamedOnceMade
  <2>3. \A e : ~Recorded(e, q)
    BY <2>1 DEF NamedOnceMade, Recorded
  <2>4. \A p \in Purges : q \notin listed[p]
    BY <2>1 DEF NamedOnceMade
  <2>5. QuarantineInv' /\ PurgeInv'
    BY <2>1, <2>3, <2>4, LogUnchanged DEF QuarantineInv, PurgeInv
  <2>6. MovedIsKept' /\ RequestedIsChecked' /\ PurgedIsGone'
    BY <2>1, <2>3, LogUnchanged DEF MovedIsKept, RequestedIsChecked, PurgedIsGone
  <2>7. QED
    BY <2>2, <2>5, <2>6
<1>3. CASE Rename(q)
  <2>1. /\ qpc[q] = "bucket" /\ qpc' = [qpc EXCEPT ![q] = "moved"]
        /\ place # None /\ q \in exists /\ place' = None
        /\ inside' = [inside EXCEPT ![q] = place]
        /\ moved' = [moved EXCEPT ![q] = place]
        /\ UNCHANGED <<exists, before, ppc, listed, todo, visit, audit,
                       gone, erased>>
    BY <1>3 DEF Rename, QGoto, purger
  <2>2. TypeOK' /\ NamedOnceMade'
    BY <2>1 DEF NamedOnceMade
  <2>3. ~Recorded("DELETE_REQUESTED", q)
    BY <2>1 DEF QuarantineInv
  <2>4. QuarantineInv' /\ PurgeInv'
    BY <2>1, <2>3, LogUnchanged DEF QuarantineInv, PurgeInv
  <2>5. ~Recorded("DELETE_PURGED", q)
    BY <2>1 DEF PurgedIsGone
  <2>6. MovedIsKept' /\ RequestedIsChecked' /\ PurgedIsGone'
    BY <2>1, <2>3, <2>5, LogUnchanged
       DEF MovedIsKept, RequestedIsChecked, PurgedIsGone
  <2>7. QED
    BY <2>2, <2>4, <2>6
<1>4. CASE Stat(q)
  <2>1. /\ qpc[q] = "moved" /\ qpc' = [qpc EXCEPT ![q] = qpc'[q]]
        /\ qpc'[q] \in {"failed", "same", "other"}
        /\ qpc'[q] = "same" => inside[q] # None /\ inside[q] = before[q]
        /\ UNCHANGED <<place, exists, inside, before, ppc, listed, todo, visit,
                       audit, gone, erased, moved>>
    BY <1>4 DEF Stat, SameFile, QGoto, files, purger, history
  <2>2. TypeOK' /\ NamedOnceMade'
    BY SMTT(30), <2>1 DEF NamedOnceMade
  <2>3. QuarantineInv' /\ PurgeInv'
    BY <2>1, LogUnchanged DEF QuarantineInv, PurgeInv
  <2>4. MovedIsKept' /\ RequestedIsChecked' /\ PurgedIsGone'
    BY <2>1, LogUnchanged DEF MovedIsKept, RequestedIsChecked, PurgedIsGone
  <2>5. QED
    BY <2>2, <2>3, <2>4
<1>5. CASE Record(q)
  <2> DEFINE line == [event |-> IF qpc[q] = "same" THEN "DELETE_REQUESTED"
                                ELSE "DELETE_RACE_QUARANTINED",
                      items |-> {q}]
  <2>1. /\ qpc[q] \in {"same", "other"} /\ qpc' = [qpc EXCEPT ![q] = "ended"]
        /\ audit' = audit \cup {line}
        /\ UNCHANGED <<place, exists, inside, before, ppc, listed, todo, visit,
                       gone, erased, moved>>
    BY <1>5 DEF Record, QGoto, files, purger, history
  <2>2. line \in [event : Events, items : SUBSET Quarantines]
    BY DEF Events
  <2>3. TypeOK' /\ NamedOnceMade'
    BY <2>1, <2>2 DEF NamedOnceMade
  <2>4. /\ \A e, b : Recorded(e, b) => Recorded(e, b)'
        /\ \A b : Recorded("DELETE_REQUESTED", b)' =>
             Recorded("DELETE_REQUESTED", b) \/ (b = q /\ qpc[q] = "same")
        /\ \A b : Recorded("DELETE_PURGED", b)' => Recorded("DELETE_PURGED", b)
    BY <2>1 DEF Recorded
  <2> HIDE DEF line
  <2>5. QuarantineInv' /\ PurgeInv'
    BY <2>1, <2>4 DEF QuarantineInv, PurgeInv
  <2>6. MovedIsKept' /\ RequestedIsChecked' /\ PurgedIsGone'
    BY <2>1, <2>4
       DEF MovedIsKept, RequestedIsChecked, PurgedIsGone, QuarantineInv
  <2>7. QED
    BY <2>3, <2>5, <2>6
<1>6. CASE QuarantineEnds(q)
  <2>1. /\ qpc[q] \notin {"idle", "ended", "failed"}
        /\ qpc' = [qpc EXCEPT ![q] = "failed"]
        /\ UNCHANGED <<place, exists, inside, before, ppc, listed, todo, visit,
                       audit, gone, erased, moved>>
    BY <1>6 DEF QuarantineEnds, QGoto, files, purger, history
  <2>2. TypeOK' /\ NamedOnceMade'
    BY <2>1 DEF NamedOnceMade
  <2>3. QuarantineInv' /\ PurgeInv'
    BY <2>1, LogUnchanged DEF QuarantineInv, PurgeInv
  <2>4. MovedIsKept' /\ RequestedIsChecked' /\ PurgedIsGone'
    BY <2>1, LogUnchanged DEF MovedIsKept, RequestedIsChecked, PurgedIsGone
  <2>5. QED
    BY <2>2, <2>3, <2>4
<1>7. QED
  BY <1>1, <1>2, <1>3, <1>4, <1>5, <1>6 DEF Quarantine

(* The steps of purge keep the invariant.                                  *)
LEMMA PurgeKeepsIInv ==
  ASSUME IInv, NEW p \in Purges, Purge(p)
  PROVE  IInv'
<1> USE FilesAssumption DEF IInv, TypeOK, NoBucketYet, Erasing
<1>1. CASE List(p)
  <2>1. /\ ppc[p] = "idle" /\ ppc' = [ppc EXCEPT ![p] = ppc'[p]]
        /\ ppc'[p] \in {"ended", "start"}
        /\ listed' = [listed EXCEPT ![p] = exists]
        /\ UNCHANGED <<place, exists, inside, qpc, before, todo, visit, audit,
                       gone, erased, moved>>
    BY <1>1 DEF List, PGoto, files, quarantiner, history
  <2>2. TypeOK' /\ NamedOnceMade'
    BY <2>1 DEF NamedOnceMade
  <2>3. todo[p] = {}
    BY <2>1 DEF PurgeInv
  <2>4. QuarantineInv' /\ PurgeInv'
    BY <2>1, <2>3, LogUnchanged DEF QuarantineInv, PurgeInv
  <2>5. MovedIsKept' /\ RequestedIsChecked' /\ PurgedIsGone'
    BY <2>1, LogUnchanged DEF MovedIsKept, RequestedIsChecked, PurgedIsGone
  <2>6. QED
    BY <2>2, <2>4, <2>5
<1>2. CASE Start(p)
  <2> DEFINE line == [event |-> "DELETE_PURGE_STARTED", items |-> listed[p]]
  <2>1. /\ ppc[p] = "start" /\ ppc' = [ppc EXCEPT ![p] = "remove"]
        /\ todo' = [todo EXCEPT ![p] = listed[p]]
        /\ audit' = audit \cup {line}
        /\ UNCHANGED <<place, exists, inside, qpc, before, listed, visit,
                       gone, erased, moved>>
    BY <1>2 DEF Start, Announced, PGoto, files, quarantiner, history
  <2>2. line \in [event : Events, items : SUBSET Quarantines]
    BY DEF Events
  <2>3. TypeOK' /\ NamedOnceMade'
    BY <2>1, <2>2 DEF NamedOnceMade
  <2>4. /\ \A e, b : Recorded(e, b) => Recorded(e, b)'
        /\ \A e, b : e # "DELETE_PURGE_STARTED" /\ Recorded(e, b)'
                       => Recorded(e, b)
        /\ \A b \in listed[p] : Recorded("DELETE_PURGE_STARTED", b)'
    <3>1. line.event = "DELETE_PURGE_STARTED" /\ line.items = listed[p]
      OBVIOUS
    <3> HIDE DEF line
    <3>2. QED
      BY <2>1, <3>1 DEF Recorded
  <2> HIDE DEF line
  <2>5. QuarantineInv' /\ PurgeInv'
    BY <2>1, <2>4 DEF QuarantineInv, PurgeInv
  <2>6. MovedIsKept' /\ RequestedIsChecked' /\ PurgedIsGone'
    BY <2>1, <2>4 DEF MovedIsKept, RequestedIsChecked, PurgedIsGone
  <2>7. QED
    BY <2>3, <2>5, <2>6
<1>3. ASSUME NEW b \in Quarantines, Visit(p, b)
      PROVE  IInv'
  <2>1. /\ ppc[p] = "remove" /\ ppc' = [ppc EXCEPT ![p] = "unlink"]
        /\ b \in todo[p]
        /\ visit' = [visit EXCEPT ![p] = [bucket |-> b, child |-> inside[b]]]
        /\ UNCHANGED <<place, exists, inside, qpc, before, listed, todo, audit,
                       gone, erased, moved>>
    BY <1>3 DEF Visit, PGoto, files, quarantiner, history
  <2>2. TypeOK' /\ NamedOnceMade'
    BY <2>1 DEF NamedOnceMade
  <2>3. QuarantineInv' /\ PurgeInv'
    BY <2>1, LogUnchanged DEF QuarantineInv, PurgeInv
  <2>4. MovedIsKept' /\ RequestedIsChecked' /\ PurgedIsGone'
    BY <2>1, LogUnchanged DEF MovedIsKept, RequestedIsChecked, PurgedIsGone
  <2>5. QED
    BY <2>2, <2>3, <2>4
<1>4. CASE Unlink(p)
  <2> DEFINE b == visit[p].bucket
  <2>1. /\ ppc[p] = "unlink" /\ inside[b] # None /\ inside[b] \in Files
        /\ inside' = [inside EXCEPT ![b] = None]
        /\ erased' = erased \cup {<<inside[b], b>>}
        /\ visit' = [visit EXCEPT ![p] = [bucket |-> b, child |-> None]]
        /\ b \in Quarantines /\ b \in todo[p]
        /\ UNCHANGED <<place, exists, qpc, before, ppc, listed, todo, audit,
                       gone, moved>>
    BY <1>4 DEF Unlink, quarantiner, PurgeInv
  <2> HIDE DEF b
  <2>2. TypeOK' /\ NamedOnceMade'
    BY <2>1 DEF NamedOnceMade
  <2>3. moved[b] = inside[b] /\ Recorded("DELETE_PURGE_STARTED", b)
    BY <2>1 DEF QuarantineInv, PurgeInv
  <2>4. visit'[p].bucket = b
    BY <2>1
  <2>5. QuarantineInv' /\ PurgeInv'
    BY <2>1, <2>4, LogUnchanged DEF QuarantineInv, PurgeInv
  <2>6. MovedIsKept' /\ RequestedIsChecked' /\ PurgedIsGone'
    BY <2>1, <2>3, LogUnchanged
       DEF MovedIsKept, RequestedIsChecked, PurgedIsGone
  <2>7. QED
    BY <2>2, <2>5, <2>6
<1>5. CASE RmDir(p)
  <2> DEFINE b == visit[p].bucket
  <2>1. /\ ppc[p] = "unlink" /\ ppc' = [ppc EXCEPT ![p] = "remove"]
        /\ b \in exists /\ inside[b] = None
        /\ exists' = exists \ {b}
        /\ todo' = [todo EXCEPT ![p] = todo[p] \ {b}]
        /\ visit' = [visit EXCEPT ![p] = NoVisit]
        /\ UNCHANGED <<place, inside, qpc, before, listed, audit,
                       gone, erased, moved>>
    BY <1>5 DEF RmDir, PGoto, quarantiner, history
  <2> HIDE DEF b
  <2>2. NoVisit \in [bucket : Quarantines \cup {None}, child : Files \cup {None}]
    BY DEF NoVisit
  <2>3. TypeOK' /\ NamedOnceMade'
    BY <2>1, <2>2 DEF NamedOnceMade
  <2>4. QuarantineInv' /\ PurgeInv'
    BY <2>1, LogUnchanged DEF QuarantineInv, PurgeInv
  <2>5. MovedIsKept' /\ RequestedIsChecked' /\ PurgedIsGone'
    BY <2>1, LogUnchanged DEF MovedIsKept, RequestedIsChecked, PurgedIsGone
  <2>6. QED
    BY <2>3, <2>4, <2>5
<1>6. CASE Removed(p)
  <2>1. /\ ppc[p] = "remove" /\ ppc' = [ppc EXCEPT ![p] = "record"]
        /\ todo[p] = {} /\ todo' = [todo EXCEPT ![p] = listed[p]]
        /\ UNCHANGED <<place, exists, inside, qpc, before, listed, visit, audit,
                       gone, erased, moved>>
    BY <1>6 DEF Removed, AllRemoved, PGoto, files, quarantiner, history
  <2>2. TypeOK' /\ NamedOnceMade'
    BY <2>1 DEF NamedOnceMade
  <2>3. QuarantineInv' /\ PurgeInv'
    BY <2>1, LogUnchanged DEF QuarantineInv, PurgeInv
  <2>4. MovedIsKept' /\ RequestedIsChecked' /\ PurgedIsGone'
    BY <2>1, LogUnchanged DEF MovedIsKept, RequestedIsChecked, PurgedIsGone
  <2>5. QED
    BY <2>2, <2>3, <2>4
<1>7. ASSUME NEW b \in Quarantines, RecordPurged(p, b)
      PROVE  IInv'
  <2> DEFINE line == [event |-> "DELETE_PURGED", items |-> {b}]
  <2>1. /\ ppc[p] = "record" /\ ppc' = [ppc EXCEPT ![p] = ppc'[p]]
        /\ ppc'[p] \in {"ended", "record"}
        /\ b \in todo[p] /\ todo' = [todo EXCEPT ![p] = todo[p] \ {b}]
        /\ audit' = audit \cup {line}
        /\ UNCHANGED <<place, exists, inside, qpc, before, listed, visit,
                       gone, erased, moved>>
    BY <1>7 DEF RecordPurged, PGoto, files, quarantiner, history
  <2>2. line \in [event : Events, items : SUBSET Quarantines]
    BY DEF Events
  <2>3. b \in listed[p] /\ b \notin exists
    BY <2>1 DEF PurgeInv
  <2>4. TypeOK'
    BY <2>1, <2>2
  <2>5. NamedOnceMade'
    BY <2>1, <2>3 DEF NamedOnceMade
  <2>6. /\ \A e, c : Recorded(e, c) => Recorded(e, c)'
        /\ \A e, c : Recorded(e, c)' =>
             Recorded(e, c) \/ (e = "DELETE_PURGED" /\ c = b)
    BY <2>1 DEF Recorded
  <2> HIDE DEF line
  <2>7. QuarantineInv' /\ PurgeInv'
    BY <2>1, <2>6 DEF QuarantineInv, PurgeInv
  <2>8. MovedIsKept' /\ RequestedIsChecked' /\ PurgedIsGone'
    BY <2>1, <2>3, <2>6 DEF MovedIsKept, RequestedIsChecked, PurgedIsGone
  <2>9. QED
    BY <2>4, <2>5, <2>7, <2>8
<1>8. CASE PurgeEnds(p)
  <2>1. /\ ppc' = [ppc EXCEPT ![p] = "failed"]
        /\ UNCHANGED <<place, exists, inside, qpc, before, listed, todo, visit,
                       audit, gone, erased, moved>>
    BY <1>8 DEF PurgeEnds, PGoto, files, quarantiner, history
  <2>2. TypeOK' /\ NamedOnceMade'
    BY <2>1 DEF NamedOnceMade
  <2>3. QuarantineInv' /\ PurgeInv'
    BY <2>1, LogUnchanged DEF QuarantineInv, PurgeInv
  <2>4. MovedIsKept' /\ RequestedIsChecked' /\ PurgedIsGone'
    BY <2>1, LogUnchanged DEF MovedIsKept, RequestedIsChecked, PurgedIsGone
  <2>5. QED
    BY <2>2, <2>3, <2>4
<1>9. QED
  BY <1>1, <1>2, <1>3, <1>4, <1>5, <1>6, <1>7, <1>8 DEF Purge

-----------------------------------------------------------------------------
(* IInv holds in every reachable state.                                    *)
THEOREM Invariance == Spec => []IInv
<1>1. Init => IInv
  <2> SUFFICES ASSUME Init PROVE IInv
    OBVIOUS
  <2>1. /\ audit = {} /\ exists = {}
        /\ \A q \in Quarantines : qpc[q] = "idle" /\ moved[q] = None
                                  /\ inside[q] = None
        /\ \A p \in Purges : ppc[p] = "idle" /\ todo[p] = {} /\ listed[p] = {}
    BY DEF Init
  <2>2. TypeOK
    BY DEF Init, TypeOK, NoVisit
  <2>3. \A e, b : ~Recorded(e, b)
    BY <2>1 DEF Recorded
  <2>4. QED
    BY <2>1, <2>2, <2>3
       DEF IInv, NamedOnceMade, QuarantineInv, PurgeInv, Erasing, MovedIsKept,
           RequestedIsChecked, PurgedIsGone
<1>2. IInv /\ UNCHANGED vars => IInv'
  <2> SUFFICES ASSUME IInv, UNCHANGED vars PROVE IInv'
    OBVIOUS
  <2>1. UNCHANGED <<place, exists, inside, qpc, before, ppc, listed, todo, visit,
                    audit, gone, erased, moved>>
    BY DEF vars, files, quarantiner, purger, history
  <2>2. TypeOK' /\ NamedOnceMade' /\ QuarantineInv' /\ PurgeInv'
    BY <2>1, LogUnchanged
       DEF IInv, TypeOK, NamedOnceMade, QuarantineInv, PurgeInv
  <2>3. MovedIsKept' /\ RequestedIsChecked' /\ PurgedIsGone'
    BY <2>1, LogUnchanged
       DEF IInv, MovedIsKept, RequestedIsChecked, PurgedIsGone
  <2>4. QED
    BY <2>2, <2>3 DEF IInv
<1>3. IInv /\ [Next]_vars => IInv'
  BY <1>2, PutKeepsIInv, QuarantineKeepsIInv, PurgeKeepsIInv DEF Next
<1>4. QED
  BY <1>1, <1>3, PTL DEF Spec

(* Every variable keeps its type, and a quarantine that goes on holds the   *)
(* inode of its target.                                                    *)
THEOREM TypeCorrect == Spec => []TypeOK
<1>1. IInv => TypeOK
  BY DEF IInv
<1>2. QED
  BY <1>1, Invariance, PTL

(* A file in quarantine leaves it only by a purge that announced it,       *)
(* whichever process ends where.                                           *)
THEOREM MovedAlwaysKept == Spec => []MovedIsKept
<1>1. IInv => MovedIsKept
  BY DEF IInv
<1>2. QED
  BY <1>1, Invariance, PTL

(* The log never says DELETE_REQUESTED of a file that took the target's    *)
(* place after it was checked.                                             *)
THEOREM RequestedAlwaysChecked == Spec => []RequestedIsChecked
<1>1. IInv => RequestedIsChecked
  BY DEF IInv
<1>2. QED
  BY <1>1, Invariance, PTL

(* The log never says DELETE_PURGED of a file that is still there.         *)
THEOREM PurgedAlwaysGone == Spec => []PurgedIsGone
<1>1. IInv => PurgedIsGone
  BY DEF IInv
<1>2. QED
  BY <1>1, Invariance, PTL
=============================================================================
