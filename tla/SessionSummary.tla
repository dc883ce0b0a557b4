--------------------------- MODULE SessionSummary ---------------------------
(***************************************************************************)
(* The summary of a session's ledger: the SUMMARIZE job loads the session, *)
(* reads the ledger of the revision it found, has the gateway consolidate  *)
(* it (/consolidate) and write themes (/summarize), and stores them, while *)
(* reviewers change the ledger and a new transcript revision replaces it;  *)
(* get_summary then says whether the summary is stale.                     *)
(*                                                                         *)
(* Jobs, leases and cancellation are in ReviewPipeline.  Here one worker   *)
(* runs any number of SUMMARIZE jobs, and the gateway's loops are actions, *)
(* one per iteration.  An entry id is a number, for the gateway sorts ids; *)
(* a theme or group is the set of ids it cites.  The validator of          *)
(* SummaryThemeCreate refuses a theme that repeats an id (the call fails); *)
(* a consolidation group may repeat one, which makes no difference.        *)
(***************************************************************************)
EXTENDS Naturals, Sequences, FiniteSets, FiniteSetsExt

CONSTANTS
  Entries,       \* ids of the ledger entries that may be created
  Reviewers,     \* requests that change the ledger
  Answers,       \* what the model may answer: sequences of sets of ids
  None,
  MaxThemes,     \* the cap on themes (25)
  MaxRevisions,  \* transcript revisions, at most (a bound)
  MaxClock       \* changes of the ledger, at most (a bound)

ASSUME EntriesAssumption == Entries \subseteq Nat /\ IsFiniteSet(Entries)

ASSUME AnswersAssumption == Answers \subseteq Seq((SUBSET Nat) \ {{}})

ASSUME BoundsAssumption ==
  MaxThemes \in Nat \ {0} /\ MaxRevisions \in Nat /\ MaxClock \in Nat

VARIABLES
  current,     \* session.current_transcript_revision_id
  entryRev,    \* per entry, its transcript_revision_id; 0 before it exists
  updated,     \* per entry, its updated_at
  clock,       \* utcnow()
  edit,        \* per reviewer, None or what its open transaction has flushed
  summary,     \* None, or the session_summary row and what it was made from
  pc,          \* where the SUMMARIZE job is
  read,        \* what the job has read
  answer,      \* the model's answer that a loop is going through
  cursor,      \* the item of the answer that comes next
  claimed,     \* ids that the loop has assigned
  rest,        \* ids that no item has claimed
  groups,      \* the consolidation's groups
  preGroups,   \* None, or the groups that consolidation returned
  themes       \* the themes so far: the ids of each, and who made it

ledger == <<current, entryRev, updated>>
loop == <<answer, cursor, claimed, rest>>
job == <<pc, read, loop, groups, preGroups, themes>>
vars == <<ledger, clock, edit, summary, job>>

Ledger(r) == {e \in Entries : entryRev[e] = r}

\* transcript_revision_id, the ids of records and source_updated_at; and of
\* the moment the records were read: the current revision (now), the entries
\* that others had open (open), and the time stamps of all (seen).
Nothing ==
  [revision |-> 0, ids |-> {}, source |-> 0,
   now |-> 0, open |-> {}, seen |-> [e \in Entries |-> 0]]

Init ==
  /\ current = 1
  /\ entryRev = [e \in Entries |-> 0]
  /\ updated = [e \in Entries |-> 0]
  /\ clock = 1
  /\ edit = [r \in Reviewers |-> None]
  /\ summary = None
  /\ pc = "idle"
  /\ read = Nothing
  /\ answer = <<>>
  /\ cursor = 1
  /\ claimed = {}
  /\ rest = {}
  /\ groups = <<>>
  /\ preGroups = None
  /\ themes = <<>>

-----------------------------------------------------------------------------
(* The ledger.  updated_at is set when a change is flushed, and seen by    *)
(* others when it is committed.                                            *)

Tick == clock < MaxClock /\ clock' = clock + 1

\* Entries that an open transaction holds: their rows, or their new ids.
Held == {edit[r].entry : r \in {q \in Reviewers : edit[q] # None}}

\* add_ledger_entry (of a new id) and verify_ledger_entry flush their change.
\* They have loaded the session row at some time: rev was current then.
Flush(r, e, rev) ==
  /\ edit[r] = None
  /\ e \notin Held
  /\ rev \in 1 .. current
  /\ entryRev[e] \in {0, rev}
  /\ edit' = [edit EXCEPT ![r] = [entry |-> e, revision |-> rev, stamp |-> clock]]
  /\ Tick
  /\ UNCHANGED <<ledger, summary, job>>

CommitEdit(r) ==
  /\ edit[r] # None
  /\ entryRev' = [entryRev EXCEPT ![edit[r].entry] = edit[r].revision]
  /\ updated' = [updated EXCEPT ![edit[r].entry] = edit[r].stamp]
  /\ edit' = [edit EXCEPT ![r] = None]
  /\ UNCHANGED <<current, clock, summary, job>>

\* The session row had changed, or the request failed otherwise.
RollBack(r) ==
  /\ edit[r] # None
  /\ edit' = [edit EXCEPT ![r] = None]
  /\ UNCHANGED <<ledger, clock, summary, job>>

\* The EXTRACT job stores its entries.  It had found none before it called
\* the gateway; some may have been added since.
ExtractStores(new) ==
  /\ new # {}
  /\ \A e \in new : entryRev[e] = 0 /\ e \notin Held
  /\ entryRev' = [e \in Entries |-> IF e \in new THEN current ELSE entryRev[e]]
  /\ updated' = [e \in Entries |-> IF e \in new THEN clock ELSE updated[e]]
  /\ Tick
  /\ UNCHANGED <<current, edit, summary, job>>

\* reconcile_transcript_data: the entries of the replaced revision become
\* NEEDS_REVIEW.  None of them was, so each row is updated, and waited for.
NewRevision ==
  /\ current < MaxRevisions
  /\ Ledger(current) \cap Held = {}
  /\ current' = current + 1
  /\ updated' =
       [e \in Entries |-> IF e \in Ledger(current) THEN clock ELSE updated[e]]
  /\ Tick
  /\ UNCHANGED <<entryRev, edit, summary, job>>

-----------------------------------------------------------------------------
(* The SUMMARIZE job.                                                      *)

\* _checkpoint loads the session row.
LoadSession ==
  /\ pc = "idle"
  /\ read' = [Nothing EXCEPT !.revision = current]
  /\ pc' = "read"
  /\ UNCHANGED <<ledger, clock, edit, summary, loop, groups, preGroups, themes>>

\* _process returns: its variables are gone.
EndJob ==
  /\ pc' = "idle"
  /\ read' = Nothing
  /\ answer' = <<>>
  /\ cursor' = 1
  /\ claimed' = {}
  /\ rest' = {}
  /\ groups' = <<>>
  /\ preGroups' = None
  /\ themes' = <<>>

\* A later statement reads the entries that are committed by then, of the
\* revision that was current when the session was loaded.
ReadLedger ==
  /\ pc = "read"
  /\ Ledger(read.revision) # {}
  /\ read' = [revision |-> read.revision, ids |-> Ledger(read.revision),
              source |-> Max({updated[e] : e \in Ledger(read.revision)}),
              now |-> current, open |-> Held, seen |-> updated]
  /\ pc' = "consolidate"
  /\ UNCHANGED <<ledger, clock, edit, summary, loop, groups, preGroups, themes>>

\* No ledger, no summary: the job is complete.
NothingToSummarize ==
  /\ pc = "read"
  /\ Ledger(read.revision) = {}
  /\ EndJob
  /\ UNCHANGED <<ledger, clock, edit, summary>>

\* A loop over the items of an answer begins.
Begin(a) ==
  /\ answer' = a
  /\ cursor' = 1
  /\ claimed' = {}
  /\ rest' = {}

\* consolidation_provider.consolidate; whatever it raises, the job goes on.
Consolidate ==
  /\ pc = "consolidate"
  /\ \/ /\ pc' = "summarize"
        /\ UNCHANGED loop
     \/ \E a \in Answers : Begin(a) /\ pc' = "group"
  /\ UNCHANGED <<ledger, clock, edit, summary, read, groups, preGroups, themes>>

\* The ids of an item that the loop keeps.
WithInvented == answer[cursor] \ claimed
Usable == (answer[cursor] \cap read.ids) \ claimed

SameItem == cursor
NextItem == cursor + 1

\* _coerce_consolidation: a group of the model, without what is unknown or
\* claimed by an earlier one.
GroupItem ==
  /\ pc = "group"
  /\ cursor <= Len(answer)
  /\ groups' = IF Usable = {} THEN groups ELSE Append(groups, Usable)
  /\ claimed' = claimed \cup Usable
  /\ cursor' = NextItem
  /\ UNCHANGED <<ledger, clock, edit, summary, pc, read, answer, rest,
                 preGroups, themes>>

NoneForgotten == {}
Forgotten == read.ids \ claimed

GroupsEnd ==
  /\ pc = "group"
  /\ cursor > Len(answer)
  /\ rest' = Forgotten
  /\ pc' = "singletons"
  /\ UNCHANGED <<ledger, clock, edit, summary, read, answer, cursor, claimed,
                 groups, preGroups, themes>>

\* Every entry the model forgot becomes a group, in the order of a set.
Singleton(e) ==
  /\ pc = "singletons"
  /\ e \in rest
  /\ groups' = Append(groups, {e})
  /\ rest' = rest \ {e}
  /\ UNCHANGED <<ledger, clock, edit, summary, pc, read, answer, cursor,
                 claimed, preGroups, themes>>

Consolidated ==
  /\ pc = "singletons"
  /\ rest = {}
  /\ preGroups' = groups
  /\ Begin(<<>>)
  /\ pc' = "summarize"
  /\ UNCHANGED <<ledger, clock, edit, summary, read, groups, themes>>

\* The job ends without a summary: it fails, or is found to be cancelled.
Abandon ==
  /\ pc \in {"summarize", "store"}
  /\ EndJob
  /\ UNCHANGED <<ledger, clock, edit, summary>>

\* summary_provider.summarize reaches the model.
Summarize ==
  /\ pc = "summarize"
  /\ \E a \in Answers : Begin(a)
  /\ pc' = "theme"
  /\ UNCHANGED <<ledger, clock, edit, summary, read, groups, preGroups, themes>>

Theme(ids, by) == [ids |-> ids, by |-> by]

KeepEmpty == FALSE
DiscardTheme == Usable = {}

\* _coerce_summary: a theme of the model.
ThemeItem ==
  /\ pc = "theme"
  /\ cursor <= Len(answer)
  /\ themes' = IF DiscardTheme THEN themes ELSE Append(themes, Theme(Usable, "model"))
  /\ claimed' = claimed \cup Usable
  /\ cursor' = NextItem
  /\ UNCHANGED <<ledger, clock, edit, summary, pc, read, answer, rest, groups,
                 preGroups>>

\* The ids of pre_groups that no theme has.
NoneOmitted == {}
Omitted ==
  IF preGroups = None THEN {}
  ELSE ((UNION {preGroups[k] : k \in DOMAIN preGroups}) \cap read.ids) \ claimed

ThemesEnd ==
  /\ pc = "theme"
  /\ cursor > Len(answer)
  /\ rest' = Omitted
  /\ pc' = "fallback"
  /\ UNCHANGED <<ledger, clock, edit, summary, read, answer, cursor, claimed,
                 groups, preGroups, themes>>

Fallback ==
  /\ pc = "fallback"
  /\ rest # {}
  /\ themes' = Append(themes, Theme({Min(rest)}, "fallback"))
  /\ claimed' = claimed \cup {Min(rest)}
  /\ rest' = rest \ {Min(rest)}
  /\ UNCHANGED <<ledger, clock, edit, summary, pc, read, answer, cursor,
                 groups, preGroups>>

\* themes[:max_themes]
Cut(s) == SubSeq(s, 1, MaxThemes)

Truncate ==
  /\ pc = "fallback"
  /\ rest = {}
  /\ themes' = IF Len(themes) > MaxThemes THEN Cut(themes) ELSE themes
  /\ pc' = "store"
  /\ UNCHANGED <<ledger, clock, edit, summary, read, loop, groups, preGroups>>

SourceAtStore == clock
SourceAtRead == read.source

\* _store_summary.
Store ==
  /\ pc = "store"
  /\ summary' = [revision |-> read.revision, themes |-> themes,
                 entry_count |-> Cardinality(read.ids),
                 source_updated_at |-> SourceAtRead,
                 from |-> read, grouped |-> preGroups # None]
  /\ EndJob
  /\ UNCHANGED <<ledger, clock, edit>>

-----------------------------------------------------------------------------
LedgerStep ==
  \/ \E r \in Reviewers : \/ \E e \in Entries, rev \in 1 .. current : Flush(r, e, rev)
                          \/ CommitEdit(r)
                          \/ RollBack(r)
  \/ \E new \in SUBSET Entries : ExtractStores(new)
  \/ NewRevision

JobStep ==
  \/ ReadLedger
  \/ NothingToSummarize
  \/ Consolidate
  \/ GroupItem
  \/ GroupsEnd
  \/ \E e \in Entries : Singleton(e)
  \/ Consolidated
  \/ Abandon
  \/ Summarize
  \/ ThemeItem
  \/ ThemesEnd
  \/ Fallback
  \/ Truncate
  \/ Store

Next == LedgerStep \/ LoadSession \/ JobStep

Spec == Init /\ [][Next]_vars

\* The worker and the gateway run, and calls end by their timeouts.
FairSpec == Spec /\ WF_vars(JobStep)

-----------------------------------------------------------------------------
(* get_summary.                                                            *)
Stale ==
  LET current_ledger == Ledger(summary.revision) IN
  \/ Cardinality(current_ledger) # summary.entry_count
  \/ \E e \in current_ledger : updated[e] > summary.source_updated_at

-----------------------------------------------------------------------------
(* Properties.                                                             *)

Edit == [entry : Entries, revision : Nat, stamp : Nat]
Reading == [revision : Nat, ids : SUBSET Entries, source : Nat,
            now : Nat, open : SUBSET Entries, seen : [Entries -> Nat]]

\* Every variable has its type.
TypeOK ==
  /\ current \in Nat /\ clock \in Nat
  /\ entryRev \in [Entries -> Nat]
  /\ updated \in [Entries -> Nat]
  /\ edit \in [Reviewers -> Edit \cup {None}]
  /\ pc \in {"idle", "read", "consolidate", "group", "singletons", "summarize",
             "theme", "fallback", "store"}
  /\ read \in Reading
  /\ answer \in Seq(SUBSET Nat)
  /\ cursor \in Nat \ {0}
  /\ claimed \subseteq Entries /\ rest \subseteq Entries
  /\ groups \in Seq(SUBSET Entries)
  /\ preGroups \in Seq(SUBSET Entries) \cup {None}
  /\ themes \in Seq([ids : SUBSET Entries, by : {"model", "fallback"}])

Disjoint(s) == \A j, k \in DOMAIN s : j # k => s[j] \cap s[k] = {}
Partition(s, ids) ==
  /\ Disjoint(s)
  /\ \A k \in DOMAIN s : s[k] # {} /\ s[k] \subseteq ids
  /\ \A e \in ids : \E k \in DOMAIN s : e \in s[k]

Ids(ts) == [k \in DOMAIN ts |-> ts[k].ids]

(* Whatever the model answers, consolidation puts every entry of the       *)
(* ledger that was read into exactly one group.                            *)
GroupsPartition == preGroups # None => Partition(preGroups, read.ids)

(* Each stored theme cites entries of the ledger it was made from, at      *)
(* least one (its moments[0] exists, and spans has them all), and no entry *)
(* is cited by two.                                                        *)
ThemesTraceable ==
  summary # None =>
    /\ Disjoint(Ids(summary.themes))
    /\ \A k \in DOMAIN summary.themes :
         /\ summary.themes[k].ids # {}
         /\ summary.themes[k].ids \subseteq summary.from.ids
    /\ summary.from.ids \subseteq Ledger(summary.revision)

(* If the ledger was consolidated, an entry is left out of the summary     *)
(* only when the cap on themes is reached, and is otherwise in exactly one *)
(* theme, however many the model forgot, invented or cited twice.          *)
LeftOutOnlyByCap ==
  summary # None /\ summary.grouped =>
    \/ Partition(Ids(summary.themes), summary.from.ids)
    \/ Len(summary.themes) = MaxThemes

(* A summary that get_summary shows as fresh was made from all entries of  *)
(* its revision.  However long the two calls to the model took, an entry   *)
(* that no transaction had open when the job read it is as it was read,    *)
(* and if the revision was current then it is current still.  The code     *)
(* excludes no more: a change flushed before and committed after the read, *)
(* and a revision replaced between load and read, may go unnoticed.        *)
FreshSinceRead ==
  summary # None /\ ~Stale =>
    /\ Ledger(summary.revision) = summary.from.ids
    /\ \A e \in summary.from.ids \ summary.from.open :
         updated[e] = summary.from.seen[e]
    /\ summary.revision = summary.from.now => summary.revision = current

(* A SUMMARIZE job ends, also when the consolidation fails.                *)
SummaryEnds == pc # "idle" ~> pc = "idle"
=============================================================================
