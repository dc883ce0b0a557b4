--------------------------- MODULE RetentionHelper ---------------------------
(***************************************************************************)
(* nix/retention-helper.py: quarantine moves a target of the media         *)
(* directory into a bucket of its own under .quarantine, purge erases what *)
(* is there, and both write deletion-audit.log.  They are processes that   *)
(* an administrator starts, at any time and several at once, while the     *)
(* application writes to the media directory; each may end at any point.   *)
(*                                                                         *)
(* One system call is one step.  A file stands for an inode, with what is  *)
(* below it if it is a directory, and there is one target path.  Targets   *)
(* that are not below one another share the quarantine only; of a target   *)
(* below another, whose parent is moved while its descriptor is held, the  *)
(* model says nothing.  A bucket has a random name that is never used      *)
(* again, so it is named after its process.                                *)
(***************************************************************************)
EXTENDS Naturals, FiniteSets

CONSTANTS
  Files,        \* inodes that may be at the target path
  Links,        \* those that are symbolic links
  Quarantines,  \* processes that run quarantine
  Purges,       \* processes that run purge
  None

ASSUME FilesAssumption == None \notin Files /\ Links \subseteq Files

VARIABLES
  place,   \* the file at the target path, or None
  exists,  \* the buckets in .quarantine
  inside,  \* per bucket, the file in it, or None
  qpc,     \* per quarantine, where it is
  before,  \* per quarantine, the file it opened
  ppc,     \* per purge, where it is
  listed,  \* per purge, the entries it has listed
  todo,    \* per purge, the entries its present loop has not done
  visit,   \* per purge, the entry of _remove_tree and the child it listed
  audit,   \* the records in deletion-audit.log
  gone,    \* history: files that the application has replaced or removed
  erased,  \* history: files that purge has removed, with their buckets
  moved    \* history: per quarantine, the file that it moved

files == <<place, exists, inside>>
quarantiner == <<qpc, before>>
purger == <<ppc, listed, todo, visit>>
history == <<gone, erased, moved>>
vars == <<files, quarantiner, purger, audit, history>>

NoVisit == [bucket |-> None, child |-> None]

Init ==
  /\ place = None
  /\ exists = {}
  /\ inside = [q \in Quarantines |-> None]
  /\ qpc = [q \in Quarantines |-> "idle"]
  /\ before = [q \in Quarantines |-> None]
  /\ ppc = [p \in Purges |-> "idle"]
  /\ listed = [p \in Purges |-> {}]
  /\ todo = [p \in Purges |-> {}]
  /\ visit = [p \in Purges |-> NoVisit]
  /\ audit = {}
  /\ gone = {}
  /\ erased = {}
  /\ moved = [q \in Quarantines |-> None]

-----------------------------------------------------------------------------
(* The application.                                                        *)

Unused ==
  Files \ ({place} \cup gone \cup {moved[q] : q \in Quarantines})

\* An upload puts a file at the path; confirm_deletion removes it.
Put(f) ==
  /\ f \in Unused \cup {None}
  /\ place' = f
  /\ gone' = gone \cup ({place} \ {None})
  /\ UNCHANGED <<exists, inside, quarantiner, purger, audit, erased, moved>>

-----------------------------------------------------------------------------
(* quarantine.                                                             *)

QGoto(q, l) == qpc' = [qpc EXCEPT ![q] = l]

\* The target is opened, a symbolic link itself and not what it points to,
\* and its inode noted; a link is refused.
OpensAnything == TRUE
CanOpen == place # None /\ place \notin Links

Open(q) ==
  /\ qpc[q] = "idle"
  /\ IF CanOpen
     THEN QGoto(q, "opened") /\ before' = [before EXCEPT ![q] = place]
     ELSE QGoto(q, "failed") /\ UNCHANGED before
  /\ UNCHANGED <<files, purger, audit, history>>

\* _new_bucket.
NewBucket(q) ==
  /\ qpc[q] = "opened"
  /\ exists' = exists \cup {q}
  /\ QGoto(q, "bucket")
  /\ UNCHANGED <<place, inside, before, purger, audit, history>>

\* The rename needs its source and a bucket that has not been removed.
Rename(q) ==
  /\ qpc[q] = "bucket"
  /\ place # None /\ q \in exists
  /\ place' = None
  /\ inside' = [inside EXCEPT ![q] = place]
  /\ moved' = [moved EXCEPT ![q] = place]
  /\ QGoto(q, "moved")
  /\ UNCHANGED <<exists, before, purger, audit, gone, erased>>

\* The file that was moved is compared with the one that was opened; it may
\* be purged already, and the stat then raises.
AnyFile(q) == inside[q] # None
SameFile(q) == inside[q] = before[q]

Stat(q) ==
  /\ qpc[q] = "moved"
  /\ QGoto(q, IF inside[q] = None THEN "failed"
              ELSE IF SameFile(q) THEN "same" ELSE "other")
  /\ UNCHANGED <<files, before, purger, audit, history>>

Record(q) ==
  /\ qpc[q] \in {"same", "other"}
  /\ audit' = audit \cup
       {[event |-> IF qpc[q] = "same" THEN "DELETE_REQUESTED"
                                      ELSE "DELETE_RACE_QUARANTINED",
         items |-> {q}]}
  /\ QGoto(q, "ended")
  /\ UNCHANGED <<files, before, purger, history>>

\* The rename raises, the audit log cannot be opened, or the process ends.
QuarantineEnds(q) ==
  /\ qpc[q] \notin {"idle", "ended", "failed"}
  /\ QGoto(q, "failed")
  /\ UNCHANGED <<files, before, purger, audit, history>>

-----------------------------------------------------------------------------
(* purge.                                                                  *)

PGoto(p, l) == ppc' = [ppc EXCEPT ![p] = l]

List(p) ==
  /\ ppc[p] = "idle"
  /\ listed' = [listed EXCEPT ![p] = exists]
  /\ PGoto(p, IF exists = {} THEN "ended" ELSE "start")
  /\ UNCHANGED <<files, quarantiner, todo, visit, audit, history>>

\* DELETE_PURGE_STARTED is on disk before anything is removed.
NotAnnounced(p) == audit
Announced(p) ==
  audit \cup {[event |-> "DELETE_PURGE_STARTED", items |-> listed[p]]}

Start(p) ==
  /\ ppc[p] = "start"
  /\ audit' = Announced(p)
  /\ todo' = [todo EXCEPT ![p] = listed[p]]
  /\ PGoto(p, "remove")
  /\ UNCHANGED <<files, quarantiner, listed, visit, history>>

\* _remove_tree of an entry: stat and listdir.
Visit(p, b) ==
  /\ ppc[p] = "remove"
  /\ b \in todo[p]
  /\ b \in exists
  /\ visit' = [visit EXCEPT ![p] = [bucket |-> b, child |-> inside[b]]]
  /\ PGoto(p, "unlink")
  /\ UNCHANGED <<files, quarantiner, listed, todo, audit, history>>

\* The child is removed; if another purge was faster this one ends.
Unlink(p) ==
  LET b == visit[p].bucket IN
  /\ ppc[p] = "unlink"
  /\ visit[p].child # None
  /\ inside[b] = visit[p].child
  /\ inside' = [inside EXCEPT ![b] = None]
  /\ erased' = erased \cup {<<visit[p].child, b>>}
  /\ visit' = [visit EXCEPT ![p] = [bucket |-> b, child |-> None]]
  /\ UNCHANGED <<place, exists, quarantiner, ppc, listed, todo, audit, gone,
                 moved>>

\* The directory is removed if it is empty: a quarantine may have moved its
\* target into it since it was listed.
RmDir(p) ==
  LET b == visit[p].bucket IN
  /\ ppc[p] = "unlink"
  /\ visit[p].child = None
  /\ b \in exists /\ inside[b] = None
  /\ exists' = exists \ {b}
  /\ todo' = [todo EXCEPT ![p] = @ \ {b}]
  /\ visit' = [visit EXCEPT ![p] = NoVisit]
  /\ PGoto(p, "remove")
  /\ UNCHANGED <<place, inside, quarantiner, listed, audit, history>>

\* All are removed, and then recorded one by one.
NotAll(p) == TRUE
AllRemoved(p) == todo[p] = {}

Removed(p) ==
  /\ ppc[p] = "remove"
  /\ AllRemoved(p)
  /\ todo' = [todo EXCEPT ![p] = listed[p]]
  /\ PGoto(p, "record")
  /\ UNCHANGED <<files, quarantiner, listed, visit, audit, history>>

RecordPurged(p, b) ==
  /\ ppc[p] = "record"
  /\ b \in todo[p]
  /\ audit' = audit \cup {[event |-> "DELETE_PURGED", items |-> {b}]}
  /\ todo' = [todo EXCEPT ![p] = @ \ {b}]
  /\ PGoto(p, IF todo[p] = {b} THEN "ended" ELSE "record")
  /\ UNCHANGED <<files, quarantiner, listed, visit, history>>

\* A system call raises, or the process ends.
PurgeEnds(p) ==
  /\ ppc[p] \notin {"idle", "ended", "failed"}
  /\ PGoto(p, "failed")
  /\ UNCHANGED <<files, quarantiner, listed, todo, visit, audit, history>>

-----------------------------------------------------------------------------
Quarantine(q) ==
  \/ Open(q) \/ NewBucket(q) \/ Rename(q) \/ Stat(q) \/ Record(q)
  \/ QuarantineEnds(q)

Purge(p) ==
  \/ List(p) \/ Start(p) \/ Unlink(p) \/ RmDir(p) \/ Removed(p) \/ PurgeEnds(p)
  \/ \E b \in Quarantines : Visit(p, b) \/ RecordPurged(p, b)

Next ==
  \/ \E f \in Files \cup {None} : Put(f)
  \/ \E q \in Quarantines : Quarantine(q)
  \/ \E p \in Purges : Purge(p)

Spec == Init /\ [][Next]_vars

-----------------------------------------------------------------------------
(* Properties.                                                             *)

Events == {"DELETE_REQUESTED", "DELETE_RACE_QUARANTINED", "DELETE_PURGE_STARTED",
           "DELETE_PURGED"}

Recorded(event, b) == \E r \in audit : r.event = event /\ b \in r.items

\* Types; a quarantine that goes on has a target to compare with, no link.
TypeOK ==
  /\ place \in Files \cup {None}
  /\ exists \subseteq Quarantines
  /\ inside \in [Quarantines -> Files \cup {None}]
  /\ qpc \in [Quarantines -> {"idle", "opened", "bucket", "moved", "same",
                              "other", "ended", "failed"}]
  /\ before \in [Quarantines -> (Files \ Links) \cup {None}]
  /\ \A q \in Quarantines : qpc[q] \notin {"idle", "failed"} => before[q] # None
  /\ ppc \in [Purges -> {"idle", "start", "remove", "unlink", "record", "ended",
                         "failed"}]
  /\ listed \in [Purges -> SUBSET Quarantines]
  /\ todo \in [Purges -> SUBSET Quarantines]
  /\ visit \in [Purges -> [bucket : Quarantines \cup {None},
                           child : Files \cup {None}]]
  /\ audit \subseteq [event : Events, items : SUBSET Quarantines]
  /\ gone \subseteq Files
  /\ erased \subseteq Files \X Quarantines
  /\ moved \in [Quarantines -> Files \cup {None}]

(* A file that was moved into quarantine is there, in the bucket of the    *)
(* process that moved it, until a purge has announced that bucket in the   *)
(* audit log; no crash and no race of the two commands loses it otherwise. *)
MovedIsKept ==
  \A q \in Quarantines : moved[q] # None =>
    \/ q \in exists /\ inside[q] = moved[q]
    \/ <<moved[q], q>> \in erased /\ Recorded("DELETE_PURGE_STARTED", q)

(* DELETE_REQUESTED is recorded only for the very file that was checked,   *)
(* although the path is opened again, by name, in between.                 *)
RequestedIsChecked ==
  \A q \in Quarantines :
    Recorded("DELETE_REQUESTED", q) => moved[q] = before[q]

(* DELETE_PURGED is recorded only for a bucket that is gone with all that  *)
(* was ever moved into it.                                                 *)
PurgedIsGone ==
  \A q \in Quarantines : Recorded("DELETE_PURGED", q) =>
    /\ q \notin exists
    /\ moved[q] # None => <<moved[q], q>> \in erased
=============================================================================
