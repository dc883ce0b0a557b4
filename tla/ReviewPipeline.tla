--------------------------- MODULE ReviewPipeline ---------------------------
(***************************************************************************)
(* One coaching session from the moment its recording was handed to        *)
(* transcript reconciliation: the RECONCILE, EXTRACT and SUMMARIZE jobs    *)
(* and the workers that run them (worker.py, services.py), the transcript  *)
(* revisions and the evidence ledger they write, and the reviewers, who    *)
(* add and verify ledger entries while the jobs run (app.py).              *)
(*                                                                         *)
(* The session row has a version, ledger entries have none.  As in         *)
(* TranscribePipeline, `current' is the set of actors whose loaded copy of *)
(* the row is still the stored one; `row' is the copy itself, because a    *)
(* transaction that does not change the session row commits even if its    *)
(* copy is out of date, and decides by that copy.                          *)
(*                                                                         *)
(* A transcript revision is named by its contents: a session has one       *)
(* revision per hash.  VERIFIED and REJECTED are both "decided", UNVERIFIED*)
(* and NEEDS_REVIEW both are not.                                          *)
(***************************************************************************)
EXTENDS SessionStates, Naturals, FiniteSets

CONSTANTS
  Workers,         \* worker processes
  Reviewers,       \* requests on the ledger that may be in progress at once
  Jobs,            \* job rows that are active, held or remembered (a bound)
  Entries,         \* ledger entries that may be created (a bound)
  Revisions,       \* contents the transcript may have (a bound)
  MaxAttempts,     \* settings.worker_max_attempts
  MaxCrashes,      \* process crashes (a bound)
  MaxEdits,        \* edits of the transcript in Speakr (a bound)
  LeasesHonoured,  \* TRUE: a lease expires only when its worker is gone
  Requests,        \* the API requests that are made
  None

RequestKind == {"create", "retry", "refresh", "cancel_job", "cancel_session",
                "delete", "webhook_completed", "webhook_failed", "add",
                "verify"}

ASSUME ReviewSets ==
  /\ None \notin Jobs /\ None \notin Entries /\ None \notin Revisions
  /\ Workers \cap Reviewers = {}
  /\ Requests \subseteq RequestKind

ASSUME ReviewBounds ==
  /\ MaxAttempts \in Nat \ {0} /\ MaxCrashes \in Nat /\ MaxEdits \in Nat
  /\ LeasesHonoured \in BOOLEAN

VARIABLES
  state,        \* coaching_session.state
  revision,     \* coaching_session.current_transcript_revision_id
  current,      \* the actors whose loaded session row is up to date
  row,          \* the session row each actor has loaded
  stored,       \* the transcript_revision rows
  entryRev,     \* ledger_entry.transcript_revision_id, None: no such row
  decided,      \* the entries whose verification_status is a decision
  origin,       \* history: the revision an extracted entry was found in
  summary,      \* session_summary.transcript_revision_id
  jobType, jobStatus, jobAttempts,   \* evidence_job
  transcript,   \* what Speakr has: "pending", "failed", or a transcript
  wpc,          \* where each worker is
  wstage,       \* what the checkpoint it is in leads to
  wjob,         \* the job it runs
  wread,        \* the transcript or revision it works on
  rpc,          \* where each ledger request is
  rentry,       \* the entry it verifies
  crashes, edits

session  == <<state, revision, current>>
ledger   == <<stored, entryRev, decided, origin>>
jobRows  == <<jobType, jobStatus, jobAttempts>>
worker   == <<wpc, wstage, wjob, wread>>
reviewer == <<rpc, rentry>>
budgets  == <<crashes, edits>>
vars     == <<session, row, ledger, summary, jobRows, transcript, worker,
              reviewer, budgets>>

Actors == Workers \cup Reviewers
ReviewJob == {"RECONCILE", "EXTRACT", "SUMMARIZE"}

(* What a session can be once it has a recording and is not yet purged.    *)
State == SessionState \ {"CREATED", "UPLOADING", "UPLOADED", "DELETED"}

Row == [state : State \cup {"none"}, revision : Revisions \cup {None}]
NoRow == [state |-> "none", revision |-> None]

Stage == {"begin", "poll", "fetch", "inspect", "extract", "summarize"}
Pc == Stage \cup {"idle", "check", "recheck", "polled", "fetched",
                  "extracted", "summarized", "reconcile", "store", "keep", "complete",
                  "requeue", "fail", "fail_final", "stale", "cancel"}
Flushed == {"complete", "reopen", "keep"}

Init ==
  /\ state = "TRANSCRIBING" /\ revision = None /\ current = {}
  /\ row = [a \in Actors |-> NoRow]
  /\ stored = {} /\ decided = {} /\ summary = None
  /\ entryRev = [e \in Entries |-> None]
  /\ origin = [e \in Entries |-> None]
  /\ \E j \in Jobs :
       /\ jobType = [k \in Jobs |-> IF k = j THEN "RECONCILE" ELSE "none"]
       /\ jobStatus = [k \in Jobs |-> IF k = j THEN "QUEUED" ELSE "FREE"]
  /\ jobAttempts = [j \in Jobs |-> 0]
  /\ transcript = "pending"
  /\ wpc = [w \in Workers |-> "idle"]
  /\ wstage = [w \in Workers |-> "none"]
  /\ wjob = [w \in Workers |-> None]
  /\ wread = [w \in Workers |-> None]
  /\ rpc = [r \in Reviewers |-> "idle"]
  /\ rentry = [r \in Reviewers |-> None]
  /\ crashes = 0 /\ edits = 0

----------------------------------------------------------------------------
(* Rows.                                                                   *)

IsActive(j) == jobStatus[j] \in {"QUEUED", "RUNNING"}
Active(t) == \E j \in Jobs : jobType[j] = t /\ IsActive(j)
Ledger(r) == {e \in Entries : entryRev[e] = r}
Unused == {e \in Entries : entryRev[e] = None}

(* Load the session row.                                                   *)
Load(a) ==
  /\ current' = current \cup {a}
  /\ row' = [row EXCEPT ![a] = [state |-> state, revision |-> revision]]

(* The transaction of a ends, without an UPDATE of the session row.        *)
Unload(a) == row' = [row EXCEPT ![a] = NoRow]
Leave(a) == Unload(a) /\ current' = current \ {a}

(* The version check of an UPDATE of the session row.                      *)
(* Variant with a bug: it always succeeds.                                 *)
NoCheck(a) == TRUE
VersionMatches(a) == a \in current

(* An UPDATE of the session row is committed.  Variant with a bug: the     *)
(* version is not incremented.                                             *)
UnversionedSave(s) == state' = s /\ UNCHANGED current
SaveState(s) == state' = s /\ current' = {}

(* transition() on a row loaded in the same transaction, then the commit:  *)
(* no UPDATE is sent if nothing changed.                                   *)
Enter(s) ==
  IF s = state THEN UNCHANGED <<state, current>>
               ELSE CanTransition(state, s) /\ SaveState(s)

(* As Enter, by an actor that loaded the row earlier.                      *)
EnterFrom(a, s) ==
  /\ IF s = row[a].state THEN UNCHANGED state /\ current' = current \ {a}
                         ELSE VersionMatches(a) /\ SaveState(s)
  /\ Unload(a)
MayEnter(a, s) == CanTransition(row[a].state, s)
IsStale(a, s) == s # row[a].state /\ ~VersionMatches(a)

(* A job row.  A finished row that no worker holds may be forgotten.       *)
Insertable(j) ==
  /\ ~IsActive(j)
  /\ \A w \in Workers : wjob[w] # j

InsertJob(t) ==
  \E j \in Jobs :
    /\ Insertable(j)
    /\ jobType' = [jobType EXCEPT ![j] = t]
    /\ jobStatus' = [jobStatus EXCEPT ![j] = "QUEUED"]
    /\ jobAttempts' = [jobAttempts EXCEPT ![j] = 0]

EnsureJob(t) == IF Active(t) THEN UNCHANGED jobRows ELSE InsertJob(t)

SetStatus(j, s) ==
  /\ jobStatus' = [jobStatus EXCEPT ![j] = s]
  /\ UNCHANGED <<jobType, jobAttempts>>

----------------------------------------------------------------------------
(* Workers: run_once, checkpoints, and the end of a job.                   *)

Go(w, pc) ==
  /\ wpc' = [wpc EXCEPT ![w] = pc]
  /\ UNCHANGED <<wstage, wjob, wread>>

(* On to the commit that ends the attempt.                                 *)
GoEnd(w, pc) ==
  /\ wpc' = [wpc EXCEPT ![w] = pc]
  /\ wstage' = [wstage EXCEPT ![w] = "none"]
  /\ wread' = [wread EXCEPT ![w] = None]
  /\ UNCHANGED wjob

GoCheck(w, stage) ==
  /\ wpc' = [wpc EXCEPT ![w] = "check"]
  /\ wstage' = [wstage EXCEPT ![w] = stage]
  /\ UNCHANGED wjob

(* The attempt is over.                                                    *)
Finish(w) ==
  /\ wpc' = [wpc EXCEPT ![w] = "idle"]
  /\ wstage' = [wstage EXCEPT ![w] = "none"]
  /\ wjob' = [wjob EXCEPT ![w] = None]
  /\ wread' = [wread EXCEPT ![w] = None]

(* What the first half of _checkpoint and _reload_after_remote test.       *)
Cancelled(w) ==
  \/ state \in {"CANCELLED", "DELETE_PENDING"}
  \/ jobStatus[wjob[w]] # "RUNNING"

(* run_once: take a queued job.                                            *)
Claim(w, j) ==
  /\ wpc[w] = "idle"
  /\ jobStatus[j] = "QUEUED"
  /\ jobStatus' = [jobStatus EXCEPT ![j] = "RUNNING"]
  /\ jobAttempts' = [jobAttempts EXCEPT
                       ![j] = IF @ < MaxAttempts THEN @ + 1 ELSE @]
  /\ wjob' = [wjob EXCEPT ![w] = j]
  /\ wpc' = [wpc EXCEPT ![w] = "check"]
  /\ wstage' = [wstage EXCEPT ![w] = "begin"]
  /\ UNCHANGED <<session, row, ledger, summary, jobType, transcript, wread,
                 reviewer, budgets>>

(* _checkpoint, first half, and the test of run_once before _process.      *)
Check(w) ==
  /\ wpc[w] = "check"
  /\ IF Cancelled(w) THEN GoEnd(w, "cancel") ELSE Go(w, "recheck")
  /\ UNCHANGED <<session, row, ledger, summary, jobRows, transcript,
                 reviewer, budgets>>

(* _checkpoint, second half: reload both rows, test the tombstone only.    *)
(* request_deletion writes the tombstone with DELETE_PENDING.              *)
Recheck(w) ==
  /\ wpc[w] = "recheck"
  /\ IF state = "DELETE_PENDING"
     THEN GoEnd(w, "cancel") /\ UNCHANGED <<current, row>>
     ELSE /\ wpc' = [wpc EXCEPT ![w] = wstage[w]]
          /\ IF wstage[w] \in {"begin", "inspect"}
             THEN Load(w) ELSE UNCHANGED <<current, row>>
          /\ wstage' = [wstage EXCEPT ![w] = "none"]
          /\ UNCHANGED <<wjob, wread>>
  /\ UNCHANGED <<state, revision, ledger, summary, jobRows, transcript,
                 reviewer, budgets>>

(* _reload_after_remote, when the call returned.                           *)
Reload(w) ==
  LET next == IF wpc[w] = "fetched" THEN "reconcile"
              ELSE IF wpc[w] = "extracted" THEN "store" ELSE "keep"
  IN
  /\ wpc[w] \in {"fetched", "extracted", "summarized"}
  /\ IF Cancelled(w) THEN GoEnd(w, "cancel") /\ UNCHANGED <<current, row>>
                     ELSE Go(w, next) /\ Load(w)
  /\ UNCHANGED <<state, revision, ledger, summary, jobRows, transcript,
                 reviewer, budgets>>

(* _cancel_job.                                                            *)
CancelJob(w) ==
  /\ wpc[w] = "cancel"
  /\ SetStatus(wjob[w], "CANCELLED")
  /\ Finish(w)
  /\ UNCHANGED <<session, row, ledger, summary, transcript, reviewer,
                 budgets>>

(* _complete_job.  Clearing last_error may change the session row.         *)
CompleteJob(w) ==
  /\ wpc[w] = "complete"
  /\ IF Cancelled(w)
     THEN SetStatus(wjob[w], "CANCELLED") /\ UNCHANGED current
     ELSE SetStatus(wjob[w], "SUCCEEDED") /\ current' \in {current, {}}
  /\ Finish(w)
  /\ UNCHANGED <<state, revision, row, ledger, summary, transcript, reviewer,
                 budgets>>

(* _requeue_pending.  A saturated count may stand for a larger one.        *)
RequeuePending(w) ==
  LET j == wjob[w] IN
  /\ wpc[w] = "requeue"
  /\ \/ /\ Cancelled(w)
        /\ SetStatus(j, "CANCELLED")
     \/ /\ ~Cancelled(w)
        /\ jobStatus' = [jobStatus EXCEPT ![j] = "QUEUED"]
        /\ \E n \in 0..MaxAttempts :
             /\ n = jobAttempts[j] - 1 \/ n = jobAttempts[j]
             /\ n = jobAttempts[j] => n \in {0, MaxAttempts}
             /\ jobAttempts' = [jobAttempts EXCEPT ![j] = n]
        /\ UNCHANGED jobType
  /\ Finish(w)
  /\ UNCHANGED <<session, row, ledger, summary, transcript, reviewer,
                 budgets>>

Processing == {"TRANSCRIBING", "RECONCILING", "EXTRACTING"}

(* The end of an attempt that may be repeated.  The final failure records  *)
(* last_error, which changes the row even if the state stays.              *)
RetryOrFail(j, retry) ==
  \/ /\ retry
     /\ SetStatus(j, "QUEUED")
     /\ Enter(IF state \in Processing THEN "RETRY_PENDING" ELSE state)
  \/ /\ ~retry
     /\ SetStatus(j, "FAILED")
     /\ state' = IF state \in Processing \cup {"RETRY_PENDING"}
                 THEN "FAILED" ELSE state
     /\ current' \in IF state' = state THEN {current, {}} ELSE {{}}

(* Variant with a bug: a failed job leaves the session as it is.           *)
FailSilently(w) ==
  /\ wpc[w] \in {"fail", "fail_final"}
  /\ SetStatus(wjob[w], IF wpc[w] = "fail" THEN "QUEUED" ELSE "FAILED")
  /\ Finish(w)
  /\ UNCHANGED <<session, row, ledger, summary, transcript, reviewer,
                 budgets>>

(* _fail_job.                                                              *)
FailJob(w) ==
  LET j == wjob[w] IN
  /\ wpc[w] \in {"fail", "fail_final"}
  /\ IF Cancelled(w)
     THEN SetStatus(j, "CANCELLED") /\ UNCHANGED <<state, current>>
     ELSE RetryOrFail(j, wpc[w] = "fail" /\ jobAttempts[j] < MaxAttempts)
  /\ Finish(w)
  /\ UNCHANGED <<revision, row, ledger, summary, transcript, reviewer,
                 budgets>>

(* _resolve_stale_processing, after StaleDataError.                        *)
ResolveStale(w) ==
  LET j == wjob[w] IN
  /\ wpc[w] = "stale"
  /\ \/ /\ jobStatus[j] # "RUNNING"
        /\ UNCHANGED <<state, current, jobRows>>
     \/ /\ jobStatus[j] = "RUNNING" /\ Cancelled(w)
        /\ SetStatus(j, "CANCELLED")
        /\ UNCHANGED <<state, current>>
     \/ /\ ~Cancelled(w)
        /\ RetryOrFail(j, jobAttempts[j] < MaxAttempts)
  /\ Finish(w)
  /\ UNCHANGED <<revision, row, ledger, summary, transcript, reviewer,
                 budgets>>

(* The process ends; it is restarted and has forgotten everything.         *)
Crash(w) ==
  /\ wpc[w] # "idle"
  /\ crashes < MaxCrashes
  /\ crashes' = crashes + 1
  /\ Finish(w)
  /\ Leave(w)
  /\ UNCHANGED <<state, revision, ledger, summary, jobRows, transcript,
                 reviewer, edits>>

LeaseExpired(j) ==
  /\ jobStatus[j] = "RUNNING"
  /\ LeasesHonoured => \A w \in Workers : wjob[w] # j

(* _recover_one_abandoned_job, for a job that is not TRANSCRIBE.           *)
RecoverAbandonedJob(j) ==
  /\ LeaseExpired(j)
  /\ SetStatus(j, "QUEUED")
  /\ UNCHANGED <<session, row, ledger, summary, transcript, worker, reviewer,
                 budgets>>

(* enqueue_scheduled_reconciliation; time is not modelled.                 *)
ScheduleReconciliation ==
  /\ state \in {"TRANSCRIPT_READY", "AWAITING_REVIEW", "COMPLETE"}
  /\ ~Active("RECONCILE")
  /\ InsertJob("RECONCILE")
  /\ UNCHANGED <<session, row, ledger, summary, transcript, worker, reviewer,
                 budgets>>

----------------------------------------------------------------------------
(* The RECONCILE job.                                                      *)

(* _process enters RECONCILING, then checks again before it polls Speakr.  *)
BeginReconcile(w) ==
  LET enters == row[w].state \in {"TRANSCRIBING", "TRANSCRIPT_READY",
                  "AWAITING_REVIEW", "COMPLETE", "RETRY_PENDING"}
      target == IF enters THEN "RECONCILING" ELSE row[w].state
  IN
  /\ wpc[w] = "begin" /\ jobType[wjob[w]] = "RECONCILE"
  /\ \/ /\ IsStale(w, target)
        /\ GoEnd(w, "stale")
        /\ Leave(w) /\ UNCHANGED state
     \/ /\ EnterFrom(w, target)
        /\ GoCheck(w, "poll") /\ UNCHANGED wread
  /\ UNCHANGED <<revision, ledger, summary, jobRows, transcript, reviewer,
                 budgets>>

(* A remote call raises; what is not configured is not tried again.        *)
CallRaises(w) == GoEnd(w, "fail") \/ GoEnd(w, "fail_final")

(* get_recording, then the reload.                                         *)
Poll(w) ==
  /\ wpc[w] = "poll"
  /\ \/ CallRaises(w) /\ UNCHANGED <<current, row>>
     \/ Cancelled(w) /\ GoEnd(w, "cancel") /\ UNCHANGED <<current, row>>
     \/ ~Cancelled(w) /\ Go(w, "polled") /\ Load(w)
  /\ UNCHANGED <<state, revision, ledger, summary, jobRows, transcript,
                 reviewer, budgets>>

(* A duration that Speakr reports is committed, then the status decides.   *)
(* That of an earlier moment is not told apart: Speakr only leaves PENDING.*)
Polled(w) ==
  /\ wpc[w] = "polled"
  /\ \/ /\ ~VersionMatches(w)
        /\ GoEnd(w, "stale")
        /\ Leave(w)
     \/ /\ Leave(w) \/ (VersionMatches(w) /\ current' = {} /\ Unload(w))
        /\ \/ transcript = "failed" /\ GoEnd(w, "fail_final")
           \/ transcript = "pending" /\ GoEnd(w, "requeue")
           \/ /\ transcript \in Revisions
              /\ GoCheck(w, "fetch") /\ UNCHANGED wread
  /\ UNCHANGED <<state, revision, ledger, summary, jobRows, transcript,
                 reviewer, budgets>>

(* get_transcript returns what Speakr has now, or raises.                  *)
Fetch(w) ==
  /\ wpc[w] = "fetch"
  /\ \/ CallRaises(w)
     \/ /\ transcript \in Revisions
        /\ wread' = [wread EXCEPT ![w] = transcript]
        /\ wpc' = [wpc EXCEPT ![w] = "fetched"]
        /\ UNCHANGED <<wstage, wjob>>
  /\ UNCHANGED <<session, row, ledger, summary, jobRows, transcript, reviewer,
                 budgets>>

(* The state after a transcript that is stored already was read again:     *)
(* by the statuses of the entries of that revision.                        *)
ReviewStateOf(r) ==
  IF Ledger(r) = {} THEN "TRANSCRIPT_READY"
  ELSE IF Ledger(r) \subseteq decided THEN "COMPLETE" ELSE "AWAITING_REVIEW"

(* A verification that was flushed and not committed locks its entry.      *)
Locked == {rentry[r] : r \in {q \in Reviewers : rpc[q] \in Flushed}}

(* reconcile_transcript_data: the revision is known ...                    *)
KnownRevision(r) ==
  /\ r \in stored
  /\ SaveState(IF state = "RECONCILING" THEN ReviewStateOf(r) ELSE state)
  /\ UNCHANGED <<revision, stored, decided>>

(* ... or new: it becomes the current one, and the entries of the previous *)
(* one need review again.                                                  *)
(* Variant with a bug: COMPLETE is kept.                                   *)
KeepComplete(r) ==
  /\ r \notin stored
  /\ SaveState(IF state \in {"TRANSCRIBING", "RECONCILING"}
               THEN "TRANSCRIPT_READY" ELSE state)
  /\ revision' = r
  /\ stored' = stored \cup {r}
  /\ decided' = decided \ Ledger(revision)

NewRevision(r) ==
  /\ r \notin stored
  /\ Locked \cap Ledger(revision) = {}
  /\ SaveState(IF state \in {"TRANSCRIBING", "RECONCILING"}
               THEN "TRANSCRIPT_READY"
               ELSE IF state = "COMPLETE" /\ revision # None
               THEN "AWAITING_REVIEW" ELSE state)
  /\ revision' = r
  /\ stored' = stored \cup {r}
  /\ decided' = IF revision = None THEN decided
                                   ELSE decided \ Ledger(revision)

(* last_reconciled_at changes in every case, so the row is versioned here. *)
(* When another worker has stored the same transcript since, the INSERT    *)
(* may raise an IntegrityError before the UPDATE is found to be stale.     *)
(* run_once does not catch it and the process ends: that is a Crash.       *)
Reconcile(w) ==
  LET r == wread[w] IN
  /\ wpc[w] = "reconcile"
  /\ \/ /\ ~VersionMatches(w)
        /\ GoEnd(w, "stale")
        /\ Leave(w) /\ UNCHANGED <<state, revision, stored, decided, jobRows>>
     \/ /\ GoEnd(w, "fail")      \* normalize_speakr_segments raised
        /\ Leave(w) /\ UNCHANGED <<state, revision, stored, decided, jobRows>>
     \/ /\ VersionMatches(w)
        /\ KnownRevision(r) \/ NewRevision(r)
        /\ IF Ledger(r) = {} THEN EnsureJob("EXTRACT") ELSE UNCHANGED jobRows
        /\ GoEnd(w, "complete")
        /\ Unload(w)
  /\ UNCHANGED <<entryRev, origin, summary, transcript, reviewer, budgets>>

----------------------------------------------------------------------------
(* The EXTRACT job.                                                        *)

BeginExtract(w) ==
  LET enters == row[w].state \in {"RETRY_PENDING", "TRANSCRIPT_READY",
                                  "AWAITING_REVIEW"}
      target == IF enters THEN "EXTRACTING" ELSE row[w].state
  IN
  /\ wpc[w] = "begin" /\ jobType[wjob[w]] = "EXTRACT"
  /\ \/ /\ IsStale(w, target)
        /\ GoEnd(w, "stale")
        /\ Leave(w) /\ UNCHANGED state
     \/ /\ EnterFrom(w, target)
        /\ GoCheck(w, "inspect") /\ UNCHANGED wread
  /\ UNCHANGED <<revision, ledger, summary, jobRows, transcript, reviewer,
                 budgets>>

(* Nothing is extracted if there is no revision or if it has entries.      *)
Inspect(w) ==
  LET r == row[w].revision IN
  /\ wpc[w] = "inspect"
  /\ \/ /\ r = None \/ (Ledger(r) # {} /\ ~MayEnter(w, "AWAITING_REVIEW"))
        /\ GoEnd(w, "fail")
        /\ Leave(w) /\ UNCHANGED state
     \/ /\ r # None /\ Ledger(r) # {} /\ MayEnter(w, "AWAITING_REVIEW")
        /\ \/ /\ IsStale(w, "AWAITING_REVIEW")
              /\ GoEnd(w, "stale")
              /\ Leave(w) /\ UNCHANGED state
           \/ EnterFrom(w, "AWAITING_REVIEW") /\ GoEnd(w, "complete")
     \/ /\ r # None /\ Ledger(r) = {}
        /\ GoCheck(w, "extract")
        /\ wread' = [wread EXCEPT ![w] = r]
        /\ Leave(w) /\ UNCHANGED state
  /\ UNCHANGED <<revision, ledger, summary, jobRows, transcript, reviewer,
                 budgets>>

(* extraction_provider.extract returns, or raises.                         *)
Extract(w) ==
  /\ wpc[w] = "extract"
  /\ Go(w, "extracted") \/ CallRaises(w)
  /\ UNCHANGED <<session, row, ledger, summary, jobRows, transcript,
                 reviewer, budgets>>

(* create_ledger_entry for each entry, with validate_evidence: an entry    *)
(* cites the revision it was extracted from, which must be the current one *)
(* of the loaded row.  Variant with a bug: that is not validated.          *)
AnyRevision(r, now) == TRUE
ValidEvidence(r, now) == r = now

Insert(new, r, from) ==
  /\ entryRev' = [e \in Entries |-> IF e \in new THEN r ELSE entryRev[e]]
  /\ origin' = [e \in Entries |-> IF e \in new THEN from ELSE origin[e]]
  /\ UNCHANGED <<stored, decided>>

(* The session awaits review, the entries are stored, a summary is queued. *)
(* An entry may also be refused for its segments or its quotation.         *)
Store(w) ==
  /\ wpc[w] = "store"
  /\ \E new \in SUBSET Unused :
       LET valid == new = {} \/ ValidEvidence(wread[w], row[w].revision) IN
       \/ /\ ~MayEnter(w, "AWAITING_REVIEW") \/ new # {}
          /\ GoEnd(w, "fail")
          /\ Leave(w) /\ UNCHANGED <<state, ledger, jobRows>>
       \/ /\ MayEnter(w, "AWAITING_REVIEW") /\ IsStale(w, "AWAITING_REVIEW")
          /\ GoEnd(w, "stale")
          /\ Leave(w) /\ UNCHANGED <<state, ledger, jobRows>>
       \/ /\ MayEnter(w, "AWAITING_REVIEW") /\ valid
          /\ EnterFrom(w, "AWAITING_REVIEW")
          /\ Insert(new, row[w].revision, wread[w])
          /\ IF new # {} THEN EnsureJob("SUMMARIZE") ELSE UNCHANGED jobRows
          /\ GoEnd(w, "complete")
  /\ UNCHANGED <<revision, summary, transcript, reviewer, budgets>>

----------------------------------------------------------------------------
(* The SUMMARIZE job.                                                      *)

BeginSummarize(w) ==
  LET r == row[w].revision IN
  /\ wpc[w] = "begin" /\ jobType[wjob[w]] = "SUMMARIZE"
  /\ \/ /\ r = None
        /\ GoEnd(w, "fail")
     \/ /\ r # None /\ Ledger(r) = {}
        /\ GoEnd(w, "complete")
     \/ /\ r # None /\ Ledger(r) # {}
        /\ GoCheck(w, "summarize")
        /\ wread' = [wread EXCEPT ![w] = r]
  /\ Leave(w)
  /\ UNCHANGED <<state, revision, ledger, summary, jobRows, transcript, reviewer,
                 budgets>>

Summarize(w) ==
  /\ wpc[w] = "summarize"
  /\ Go(w, "summarized") \/ GoEnd(w, "fail")
  /\ UNCHANGED <<session, row, ledger, summary, jobRows, transcript, reviewer,
                 budgets>>

(* _store_summary.  The session row is not changed.                        *)
StoreSummary(w) ==
  /\ wpc[w] = "keep"
  /\ summary' = wread[w]
  /\ GoEnd(w, "complete")
  /\ Leave(w)
  /\ UNCHANGED <<state, revision, ledger, jobRows, transcript, reviewer,
                 budgets>>

----------------------------------------------------------------------------
(* API requests that load and commit at once.                              *)

(* _prepare_state_for_job: the states in which a job of type t may be      *)
(* created, and the state it is created in.                                *)
Preparable(t, s) ==
  \/ /\ t = "RECONCILE"
     /\ s \in {"TRANSCRIBING", "RECONCILING", "TRANSCRIPT_READY",
               "AWAITING_REVIEW", "COMPLETE", "RETRY_PENDING"}
  \/ /\ t = "EXTRACT" /\ revision # None
     /\ s \in {"TRANSCRIPT_READY", "AWAITING_REVIEW", "RETRY_PENDING"}
  \/ /\ t = "SUMMARIZE" /\ revision # None
     /\ s # "DELETE_PENDING"

Prepared(t, s) ==
  IF t = "RECONCILE" THEN "RECONCILING"
  ELSE IF t = "EXTRACT" THEN "EXTRACTING" ELSE s

Api == UNCHANGED <<row, revision, ledger, summary, transcript, worker,
                   reviewer, budgets>>

(* An UPDATE if the state becomes another one.                             *)
ChangeState(s) ==
  IF s = state THEN UNCHANGED <<state, current>> ELSE SaveState(s)

CreateJob(t) ==
  /\ "create" \in Requests
  /\ ~Active(t)
  /\ Preparable(t, state)
  /\ ChangeState(Prepared(t, state))
  /\ InsertJob(t)
  /\ Api

(* retry_job: a FAILED or CANCELLED session is first put to RETRY_PENDING. *)
(* It does not look for an active job.                                     *)
Revived(s) == IF s \in {"FAILED", "CANCELLED"} THEN "RETRY_PENDING" ELSE s

RetryJob(j) ==
  /\ "retry" \in Requests
  /\ jobStatus[j] \in {"FAILED", "CANCELLED"}
  /\ Preparable(jobType[j], Revived(state))
  /\ ChangeState(Prepared(jobType[j], Revived(state)))
  /\ InsertJob(jobType[j])
  /\ Api

(* refresh_from_speakr of a session with a recording.                      *)
Refresh ==
  /\ "refresh" \in Requests
  /\ state # "DELETE_PENDING"
  /\ CanTransition(Revived(state), "RECONCILING")
  /\ ChangeState("RECONCILING")
  /\ EnsureJob("RECONCILE")
  /\ Api

(* cancel_job.                                                             *)
ApiCancelJob(j) ==
  /\ "cancel_job" \in Requests
  /\ IsActive(j)
  /\ SetStatus(j, "CANCELLED")
  /\ ChangeState(IF state \in {"TRANSCRIBING", "EXTRACTING", "RETRY_PENDING"}
                 THEN "CANCELLED" ELSE state)
  /\ Api

CancelAll(statuses) ==
  /\ jobStatus' = [j \in Jobs |-> IF jobStatus[j] \in statuses
                                  THEN "CANCELLED" ELSE jobStatus[j]]
  /\ UNCHANGED <<jobType, jobAttempts>>

CancelSession ==
  /\ "cancel_session" \in Requests
  /\ state \in {"TRANSCRIBING", "RECONCILING", "TRANSCRIPT_READY",
                "EXTRACTING", "RETRY_PENDING"}
  /\ CancelAll({"QUEUED", "RUNNING"})
  /\ SaveState("CANCELLED")
  /\ Api

(* request_deletion; the deletion itself is in TranscribePipeline.         *)
RequestDeletion ==
  /\ "delete" \in Requests
  /\ CancelAll({"QUEUED"})
  /\ ChangeState("DELETE_PENDING")
  /\ Api

(* _apply_webhook_event: the duration may change the row ...               *)
WebhookCompleted ==
  /\ "webhook_completed" \in Requests
  /\ EnsureJob("RECONCILE")
  /\ current' \in {current, {}}
  /\ UNCHANGED state
  /\ Api

(* ... and so does last_error.                                             *)
WebhookFailed ==
  /\ "webhook_failed" \in Requests
  /\ SaveState(IF state = "TRANSCRIBING" THEN "FAILED" ELSE state)
  /\ CancelAll({"QUEUED", "RUNNING"})
  /\ Api

----------------------------------------------------------------------------
(* Requests on the ledger, cut where another commit can come between.      *)

(* add_ledger_entry: load the session ...                                  *)
AddLoads(r) ==
  /\ "add" \in Requests
  /\ rpc[r] = "idle"
  /\ state \in {"TRANSCRIPT_READY", "AWAITING_REVIEW", "COMPLETE"}
  /\ revision # None
  /\ Load(r)
  /\ rpc' = [rpc EXCEPT ![r] = "adding"]
  /\ UNCHANGED <<state, revision, ledger, summary, jobRows, transcript,
                 worker, rentry, budgets>>

Answer(r) ==
  /\ rpc' = [rpc EXCEPT ![r] = "idle"]
  /\ rentry' = [rentry EXCEPT ![r] = None]

(* ... and commit the entry, for the revision of the loaded row.           *)
AddCommits(r) ==
  /\ rpc[r] = "adding"
  /\ EnterFrom(r, "AWAITING_REVIEW")
  /\ \E e \in Unused : Insert({e}, row[r].revision, None)
  /\ Answer(r)
  /\ UNCHANGED <<revision, summary, jobRows, transcript, worker, budgets>>

(* verify_ledger_entry: load the entry and the session ...                 *)
VerifyLoads(r, e) ==
  /\ "verify" \in Requests
  /\ rpc[r] = "idle"
  /\ revision # None /\ entryRev[e] = revision
  /\ Load(r)
  /\ rpc' = [rpc EXCEPT ![r] = "loaded"]
  /\ rentry' = [rentry EXCEPT ![r] = e]
  /\ UNCHANGED <<state, revision, ledger, summary, jobRows, transcript,
                 worker, budgets>>

(* ... write the decision and read the statuses: own writes and what is    *)
(* committed.                                                              *)
Verdict(r) ==
  LET open == Ledger(row[r].revision) \ (decided \cup {rentry[r]}) IN
  IF open = {} /\ row[r].state = "AWAITING_REVIEW" THEN "complete"
  ELSE IF open # {} /\ row[r].state = "COMPLETE" THEN "reopen" ELSE "keep"

VerifyFlushes(r) ==
  /\ rpc[r] = "loaded"
  /\ rentry[r] \notin Locked
  /\ rpc' = [rpc EXCEPT ![r] = Verdict(r)]
  /\ UNCHANGED <<session, row, ledger, summary, jobRows, transcript, worker,
                 rentry, budgets>>

(* ... and commit.  Only a new state of the session is version-checked.    *)
VerifyCommits(r) ==
  /\ rpc[r] \in Flushed
  /\ EnterFrom(r, IF rpc[r] = "complete" THEN "COMPLETE"
                  ELSE IF rpc[r] = "reopen" THEN "AWAITING_REVIEW"
                  ELSE row[r].state)
  /\ decided' = decided \cup {rentry[r]}
  /\ Answer(r)
  /\ UNCHANGED <<revision, stored, entryRev, origin, summary, jobRows,
                 transcript, worker, budgets>>

(* StaleDataError: the request is answered 409 and nothing is stored.      *)
RequestIsStale(r) ==
  /\ \/ rpc[r] = "adding" /\ IsStale(r, "AWAITING_REVIEW")
     \/ rpc[r] \in {"complete", "reopen"} /\ ~VersionMatches(r)
  /\ Answer(r)
  /\ Leave(r)
  /\ UNCHANGED <<state, revision, ledger, summary, jobRows, transcript,
                 worker, budgets>>

----------------------------------------------------------------------------
(* Speakr.                                                                 *)

SpeakrTranscribes ==
  /\ transcript = "pending"
  /\ transcript' \in Revisions \cup {"failed"}
  /\ UNCHANGED <<session, row, ledger, summary, jobRows, worker, reviewer,
                 budgets>>

(* Somebody edits the transcript in Speakr.                                *)
SpeakrEdits ==
  /\ edits < MaxEdits
  /\ transcript \in Revisions
  /\ transcript' \in Revisions \ {transcript}
  /\ edits' = edits + 1
  /\ UNCHANGED <<session, row, ledger, summary, jobRows, worker, reviewer,
                 crashes>>

----------------------------------------------------------------------------

WorkerStep(w) ==
  \/ \E j \in Jobs : Claim(w, j)
  \/ Check(w) \/ Recheck(w) \/ Reload(w)
  \/ CancelJob(w) \/ CompleteJob(w) \/ RequeuePending(w) \/ FailJob(w)
  \/ ResolveStale(w)
  \/ BeginReconcile(w) \/ Poll(w) \/ Polled(w) \/ Fetch(w) \/ Reconcile(w)
  \/ BeginExtract(w) \/ Inspect(w) \/ Extract(w) \/ Store(w)
  \/ BeginSummarize(w) \/ Summarize(w) \/ StoreSummary(w)

SweepStep ==
  \/ \E j \in Jobs : RecoverAbandonedJob(j)
  \/ ScheduleReconciliation

UserStep ==
  \/ \E t \in ReviewJob : CreateJob(t)
  \/ \E j \in Jobs : RetryJob(j) \/ ApiCancelJob(j)
  \/ Refresh \/ CancelSession \/ RequestDeletion

WebhookStep == WebhookCompleted \/ WebhookFailed

ReviewerStep(r) ==
  \/ AddLoads(r) \/ AddCommits(r)
  \/ \E e \in Entries : VerifyLoads(r, e)
  \/ VerifyFlushes(r) \/ VerifyCommits(r) \/ RequestIsStale(r)

Next ==
  \/ \E w \in Workers : WorkerStep(w) \/ Crash(w)
  \/ SweepStep \/ UserStep \/ WebhookStep
  \/ \E r \in Reviewers : ReviewerStep(r)
  \/ SpeakrTranscribes \/ SpeakrEdits

Spec == Init /\ [][Next]_vars

(* Workers loop for ever and take the oldest queued job first, the sweeps  *)
(* run in every loop, and Speakr finishes a transcription.                 *)
FairSpec ==
  /\ Spec
  /\ \A w \in Workers : WF_vars(WorkerStep(w))
  /\ \A j \in Jobs : SF_vars(\E w \in Workers : Claim(w, j))
  /\ \A j \in Jobs : WF_vars(RecoverAbandonedJob(j))
  /\ WF_vars(ScheduleReconciliation)
  /\ WF_vars(SpeakrTranscribes)

----------------------------------------------------------------------------
(* Properties.                                                             *)

SessionTypes ==
  /\ state \in State /\ revision \in Revisions \cup {None}
  /\ current \subseteq Actors /\ row \in [Actors -> Row]
  /\ stored \subseteq Revisions
  /\ entryRev \in [Entries -> Revisions \cup {None}]

LedgerTypes ==
  /\ decided \subseteq Entries
  /\ origin \in [Entries -> Revisions \cup {None}]
  /\ summary \in Revisions \cup {None}
  /\ transcript \in Revisions \cup {"pending", "failed"}
  /\ crashes \in 0..MaxCrashes /\ edits \in 0..MaxEdits

JobTypes ==
  /\ jobType \in [Jobs -> ReviewJob \cup {"none"}]
  /\ jobStatus \in [Jobs -> JobStatus \cup {"FREE"}]
  /\ jobAttempts \in [Jobs -> 0..MaxAttempts]

WorkerTypes ==
  /\ wpc \in [Workers -> Pc]
  /\ wstage \in [Workers -> Stage \cup {"none"}]
  /\ wjob \in [Workers -> Jobs \cup {None}]
  /\ wread \in [Workers -> Revisions \cup {None}]
  /\ \A w \in Workers :
       /\ wpc[w] = "idle" <=> wjob[w] = None
       /\ wpc[w] \in {"check", "recheck"} <=> wstage[w] # "none"
       /\ wpc[w] \in {"fetched", "reconcile"} => wread[w] \in Revisions

ReviewerTypes ==
  /\ rpc \in [Reviewers -> Flushed \cup {"idle", "loaded", "adding"}]
  /\ rentry \in [Reviewers -> Entries \cup {None}]
  /\ \A r \in Reviewers : rpc[r] \in {"idle", "adding"} <=> rentry[r] = None

(* Every variable has its type, and a worker and a ledger request hold     *)
(* what their place in the code needs: a job, a transcript, an entry.      *)
TypeOK ==
  SessionTypes /\ LedgerTypes /\ JobTypes /\ WorkerTypes /\ ReviewerTypes

(* The version check works: a row that would pass it is the stored one.    *)
LoadedRows ==
  \A a \in current : row[a] = [state |-> state, revision |-> revision]

(* What a ledger request does was decided on the row it loaded.            *)
DecidedOnRow ==
  \A r \in Reviewers :
    /\ rpc[r] # "idle" => row[r].revision # None
    /\ rpc[r] = "adding" => row[r].state \in {"TRANSCRIPT_READY",
                              "AWAITING_REVIEW", "COMPLETE"}
    /\ rpc[r] = "complete" => row[r].state = "AWAITING_REVIEW"
    /\ rpc[r] = "reopen" => row[r].state = "COMPLETE"

(* Every revision that anything refers to is stored, and a review is       *)
(* complete only for a revision.                                           *)
RevisionsStored ==
  /\ stored # {} <=> revision # None
  /\ revision # None => revision \in stored
  /\ \A a \in Actors : row[a].revision \in stored \cup {None}
  /\ \A e \in Entries : entryRev[e] \in stored \cup {None}
  /\ state = "COMPLETE" => revision # None

(* An extracted entry is filed under the revision it was extracted from,   *)
(* although the current revision may change while the gateway works.       *)
ExtractedFromOwnRevision ==
  \A e \in Entries : origin[e] # None => entryRev[e] = origin[e]

(* The inductive invariant: committed rows, loaded rows and the decisions  *)
(* taken on them fit together.                                             *)
IInv ==
  /\ TypeOK
  /\ LoadedRows
  /\ DecidedOnRow
  /\ RevisionsStored
  /\ ExtractedFromOwnRevision

(* No job, crash, webhook or reviewer undoes a cancellation or a deletion  *)
(* request: only a user's request leaves CANCELLED, nothing DELETE_PENDING.*)
StopHolds ==
  /\ state = "DELETE_PENDING" => state' = "DELETE_PENDING"
  /\ state = "CANCELLED" /\ state' # "CANCELLED" => UserStep

(* Cancellation and deletion are final for everyone but a user, in every   *)
(* step of every worker, sweep, webhook and reviewer.                      *)
StopsHold == [][StopHolds]_vars

(* A new revision starts an unfinished review of an empty ledger, and no   *)
(* decision on the ledger it replaces survives.                            *)
ReviewReopens ==
  revision' # revision =>
    /\ state' # "COMPLETE"
    /\ \A e \in Entries : entryRev[e] # revision'
    /\ revision # None => decided' \cap Ledger(revision) = {}

(* Whenever reconcile_transcript_data changes the current revision, the    *)
(* review starts again.                                                    *)
NewRevisionReopensReview == [][ReviewReopens]_vars

(* The state table holds for what is committed, although reviewers and     *)
(* workers call transition() on rows that others have changed since.       *)
Lifecycle == INSTANCE SessionLifecycle WITH
  First <- "TRANSCRIBING", state <- state

(* From the hand-over to a deletion request the session row implements the *)
(* abstract life cycle.                                                    *)
ImplementsLifecycle == Lifecycle!Spec

(* A session that is being processed has the job that will move it on.  So *)
(* one worker leaves it, whatever fails or crashes, and so do reviewers,   *)
(* new jobs and stops.  (Section 9 of the README shows how two workers, a  *)
(* refresh, a retry, a cancelled job or a failed webhook break it.)        *)
ProcessingHasJob ==
  /\ state \in {"TRANSCRIBING", "RECONCILING"} => Active("RECONCILE")
  /\ state = "EXTRACTING" => Active("EXTRACT")
  /\ state = "RETRY_PENDING" => Active("RECONCILE") \/ Active("EXTRACT")

(* Without requests a session comes to review or fails, also after calls   *)
(* that failed and were repeated, and after the worker died at any point.  *)
ProcessingEnds ==
  state \in Processing \cup {"RETRY_PENDING", "TRANSCRIPT_READY"} ~>
    state \in {"AWAITING_REVIEW", "COMPLETE", "FAILED"}

(* "requires human review before the ledger is treated as complete"        *)
CompleteMeansReviewed ==
  state = "COMPLETE" => Ledger(revision) # {} /\ Ledger(revision) \subseteq decided
=============================================================================
