------------------------- MODULE TranscribePipeline -------------------------
(***************************************************************************)
(* One coaching session from its creation to the moment its recording is   *)
(* handed to transcript reconciliation, or is deleted: the session row,    *)
(* its TRANSCRIBE jobs, the workers that run them (worker.py), the API     *)
(* handlers that touch the same rows (app.py), and Speakr, which stores    *)
(* the uploaded recordings.                                                *)
(*                                                                         *)
(* Rows are protected by optimistic concurrency: an UPDATE or DELETE of    *)
(* the session row fails if the row changed since it was loaded.  Instead  *)
(* of version numbers the model keeps `current', the set of actors whose   *)
(* loaded copy of the session row is still the stored one.  A handler that *)
(* loads and commits in one transaction without a remote call in between   *)
(* is one action.                                                          *)
(*                                                                         *)
(* An operation id names one upload call (begin_pending_operation draws a  *)
(* fresh one for each); it also names the recording that call creates.     *)
(***************************************************************************)
EXTENDS SessionStates, Naturals, FiniteSets

CONSTANTS
  Workers,         \* worker processes
  Jobs,            \* TRANSCRIBE job rows that may be created (a bound)
  Ops,             \* operation ids that may be drawn (a bound)
  MaxAttempts,     \* settings.worker_max_attempts
  MaxCrashes,      \* process crashes (a bound)
  MaxWebhooks,     \* webhook deliveries (a bound)
  LeasesHonoured,  \* TRUE: a lease expires only when its worker is gone
  None

ASSUME SetsAssumption ==
  /\ None \notin Jobs
  /\ None \notin Ops
  /\ Workers \cap {"upload_media", "confirm_deletion"} = {}

ASSUME BoundsAssumption ==
  /\ MaxAttempts \in Nat \ {0}
  /\ MaxCrashes \in Nat
  /\ MaxWebhooks \in Nat

ASSUME LeaseAssumption == LeasesHonoured \in BOOLEAN

VARIABLES
  state,         \* coaching_session.state; "GONE" once the row is deleted
  mediaPath,     \* "none", "kept", or "unlinked": path set, file removed
  recordingId,   \* coaching_session.speakr_recording_id
  submitted,     \* coaching_session.transcription_submitted_at is set
  pendingOp,     \* coaching_session.pending_operation_id (kind "upload")
  current,       \* the actors whose loaded session row is up to date
  jobStatus,     \* evidence_job.status of each TRANSCRIBE job, or "FREE"
  jobAttempts,   \* evidence_job.attempts, saturating at MaxAttempts
  jobAmbiguous,  \* evidence_job.ambiguous_operation_id
  recon,         \* the RECONCILE job: "none", "QUEUED" or "CANCELLED"
  tombstone,     \* a deletion_tombstone row exists
  comp,          \* deletion_compensation.status per recording, or "none"
  call,          \* the upload call of each operation, as Speakr sees it
  fate,          \* history: what became of the id an upload call returned
  wpc,           \* where each worker is
  wstage,        \* what the checkpoint it is in leads to
  wjob,          \* the job it runs
  wop,           \* the operation or recording it deals with
  uploader,      \* upload_media: "idle" or "receiving"
  confirmer,     \* confirm_deletion: "idle", "remote" or "purge"
  confirmRec,    \* the recording id confirm_deletion loaded
  inserter,      \* "idle"; or "inserting": a handler found no active
                 \* TRANSCRIBE job and is about to insert one
  crashes, webhooks

session  == <<state, mediaPath, recordingId, submitted, pendingOp, current>>
jobRows  == <<jobStatus, jobAttempts, jobAmbiguous>>
worker   == <<wpc, wstage, wjob, wop>>
deletion == <<tombstone, comp>>
api      == <<uploader, confirmer, confirmRec, inserter>>
budgets  == <<crashes, webhooks>>
vars     == <<session, jobRows, recon, deletion, call, fate, worker, api,
              budgets>>

State == { "CREATED", "UPLOADING", "TRANSCRIBING", "RECONCILING",
           "RETRY_PENDING", "FAILED", "CANCELLED", "DELETE_PENDING", "GONE" }

(* An upload call: its id not drawn, the marker committed, the request     *)
(* sent, rejected, accepted (the recording exists), the recording deleted. *)
Call == {"unused", "begun", "sent", "refused", "live", "deleted"}
Sent == {"sent", "refused", "live", "deleted"}

Stage == {"begin", "call", "submit", "handover"}
LoadedPc == {"resume", "ambiguous", "mark", "record", "submit"}
Pc == LoadedPc \cup {"idle", "claimed", "check", "recheck", "uploading",
                     "handover", "complete", "fail", "fail_final", "stale",
                     "compensate", "delete", "deleted", "cancel"}

Init ==
  /\ state = "CREATED" /\ mediaPath = "none" /\ recordingId = None
  /\ submitted = FALSE /\ pendingOp = None /\ current = {}
  /\ jobStatus = [j \in Jobs |-> "FREE"]
  /\ jobAttempts = [j \in Jobs |-> 0]
  /\ jobAmbiguous = [j \in Jobs |-> None]
  /\ recon = "none" /\ tombstone = FALSE
  /\ comp = [o \in Ops |-> "none"]
  /\ call = [o \in Ops |-> "unused"]
  /\ fate = [o \in Ops |-> "open"]
  /\ wpc = [w \in Workers |-> "idle"]
  /\ wstage = [w \in Workers |-> "none"]
  /\ wjob = [w \in Workers |-> None]
  /\ wop = [w \in Workers |-> None]
  /\ uploader = "idle" /\ confirmer = "idle" /\ confirmRec = None
  /\ inserter = "idle" /\ crashes = 0 /\ webhooks = 0

----------------------------------------------------------------------------
(* Reading and writing the rows.                                           *)

IsActive(j) == jobStatus[j] \in {"QUEUED", "RUNNING"}
ActiveJob == \E j \in Jobs : IsActive(j)

(* A session UPDATE that commits: nobody else's loaded copy is current.    *)
SaveSession(s) ==
  /\ state' = s
  /\ current' = {}

Transition(s) == CanTransition(state, s) /\ SaveSession(s)

(* transition() when the state is in `from', otherwise leave the row alone.*)
TransitionIf(from, s) ==
  IF state \in from THEN Transition(s) ELSE UNCHANGED <<state, current>>

(* The version check of a's UPDATE or DELETE of the session row succeeds.  *)
(* Variants with a bug: the DELETE, upload_media's UPDATE, or the worker's *)
(* begin_pending_operation has no check.                                   *)
UncheckedMark(a) == a \in current \/ (a \in Workers /\ wpc[a] = "mark")
UncheckedDelete(a) == a = "confirm_deletion" \/ a \in current
UncheckedUpload(a) == a = "upload_media" \/ a \in current
VersionMatches(a) == a \in current

(* deletion_requested *)
DeletionRequested == tombstone

(* What _reload_after_remote and the first half of _checkpoint test.       *)
Cancelled(w) ==
  \/ DeletionRequested
  \/ state \in {"CANCELLED", "DELETE_PENDING", "GONE"}
  \/ jobStatus[wjob[w]] # "RUNNING"

SetStatus(j, s) == jobStatus' = [jobStatus EXCEPT ![j] = s]

NewJob(j) ==
  /\ jobStatus[j] = "FREE"
  /\ SetStatus(j, "QUEUED")
  /\ UNCHANGED <<jobAttempts, jobAmbiguous>>

(* ensure_job(TRANSCRIBE) *)
EnsureTranscribe ==
  IF ActiveJob THEN UNCHANGED jobRows ELSE \E j \in Jobs : NewJob(j)

(* The worker w moves on.                                                  *)
Goto(w, pc) ==
  /\ wpc' = [wpc EXCEPT ![w] = pc]
  /\ wstage' = [wstage EXCEPT ![w] = "none"]

Checkpoint(w, stage) ==
  /\ wpc' = [wpc EXCEPT ![w] = "check"]
  /\ wstage' = [wstage EXCEPT ![w] = stage]

Finish(w) ==
  /\ Goto(w, "idle")
  /\ wjob' = [wjob EXCEPT ![w] = None]
  /\ wop' = [wop EXCEPT ![w] = None]

----------------------------------------------------------------------------
(* The worker: one run_once, cut at every commit, reload and remote call.  *)

(* retry_deletion_compensation comes first in run_once, so a compensation  *)
(* that is due keeps the worker from everything else.  A FAILED one may be *)
(* waiting for its back-off; a PENDING one is due, but it is skipped while *)
(* the same query of another worker has it locked.                         *)
NoCompensationDue(w) ==
  \A o \in Ops : comp[o] = "PENDING" =>
                 \E v \in Workers \ {w} : wpc[v] = "idle"

Claim(w) ==
  /\ wpc[w] = "idle"
  /\ NoCompensationDue(w)
  /\ \E j \in Jobs :
       /\ jobStatus[j] = "QUEUED"
       /\ SetStatus(j, "RUNNING")
       /\ jobAttempts' = [jobAttempts EXCEPT ![j] =
                            IF @ < MaxAttempts THEN @ + 1 ELSE @]
       /\ wjob' = [wjob EXCEPT ![w] = j]
  /\ Goto(w, "claimed")
  /\ UNCHANGED <<session, jobAmbiguous, recon, deletion, call, fate, wop,
                 api, budgets>>

(* _cancel_job: reload the row and overwrite its status, if it exists.     *)
CancelRow(j) ==
  jobStatus' = IF jobStatus[j] = "FREE" THEN jobStatus
               ELSE [jobStatus EXCEPT ![j] = "CANCELLED"]

(* The test run_once makes after claiming, before _process.                *)
Start(w) ==
  /\ wpc[w] = "claimed"
  /\ IF \/ DeletionRequested
        \/ state \in {"CANCELLED", "DELETE_PENDING", "GONE"}
        \/ jobStatus[wjob[w]] = "CANCELLED"
     THEN CancelRow(wjob[w]) /\ Finish(w)
     ELSE Checkpoint(w, "begin") /\ UNCHANGED <<jobStatus, wjob, wop>>
  /\ UNCHANGED <<session, jobAttempts, jobAmbiguous, recon, deletion, call,
                 fate, api, budgets>>

(* First half of _checkpoint: reload, test, renew the lease and commit.    *)
Check(w) ==
  /\ wpc[w] = "check"
  /\ IF Cancelled(w)
     THEN Goto(w, "cancel")
     ELSE wpc' = [wpc EXCEPT ![w] = "recheck"] /\ UNCHANGED wstage
  /\ UNCHANGED <<session, jobRows, recon, deletion, call, fate, wjob, wop,
                 api, budgets>>

(* Second half of _checkpoint: reload again, but look at the tombstone     *)
(* only.  The rows loaded here are the ones the next commit is checked on. *)
Rechecked(w, stage) ==
  /\ wpc[w] = "recheck"
  /\ wstage[w] = stage
  /\ ~DeletionRequested
  /\ state # "GONE"

RecheckAborts(w) ==
  /\ wpc[w] = "recheck"
  /\ DeletionRequested \/ state = "GONE"
  /\ Goto(w, "cancel")
  /\ UNCHANGED <<session, jobRows, recon, deletion, call, fate, wjob, wop,
                 api, budgets>>

(* What a TRANSCRIBE job does next, given the loaded row; `others' are the *)
(* actors whose copies stay current.  There is always a media path: a      *)
(* TRANSCRIBE job is created by the commit that sets it, or after it.      *)
(* Variant with a bug: a marker left by an earlier attempt is overwritten. *)
OverwriteMarker(w, others) ==
  \/ /\ recordingId # None
     /\ Checkpoint(w, "submit")
     /\ current' = others
  \/ /\ recordingId = None
     /\ Goto(w, "mark")
     /\ current' = others \cup {w}
ChooseUpload(w, others) ==
  \/ /\ recordingId # None
     /\ Checkpoint(w, "submit")
     /\ current' = others
  \/ /\ recordingId = None
     /\ Goto(w, IF pendingOp # None THEN "ambiguous" ELSE "mark")
     /\ current' = others \cup {w}

RecheckBegin(w) ==
  /\ Rechecked(w, "begin")
  /\ IF state = "RETRY_PENDING"
     THEN Goto(w, "resume") /\ current' = current \cup {w}
     ELSE ChooseUpload(w, current)
  /\ UNCHANGED <<state, mediaPath, recordingId, submitted, pendingOp,
                 jobRows, recon, deletion, call, fate, wjob, wop, api,
                 budgets>>

(* RETRY_PENDING -> TRANSCRIBING, committed on its own; the row in hand is *)
(* the one just written.                                                   *)
Resume(w) ==
  /\ wpc[w] = "resume"
  /\ VersionMatches(w)
  /\ CanTransition(state, "TRANSCRIBING")
  /\ state' = "TRANSCRIBING"
  /\ ChooseUpload(w, {})
  /\ UNCHANGED <<mediaPath, recordingId, submitted, pendingOp, jobRows,
                 recon, deletion, call, fate, wjob, wop, api, budgets>>

(* begin_pending_operation("upload") and its commit.                       *)
BeginPendingOperation(w) ==
  /\ wpc[w] = "mark"
  /\ VersionMatches(w)
  /\ \E o \in Ops :
       /\ call[o] = "unused"
       /\ call' = [call EXCEPT ![o] = "begun"]
       /\ pendingOp' = o
       /\ wop' = [wop EXCEPT ![w] = o]
  /\ SaveSession(state)
  /\ Checkpoint(w, "call")
  /\ UNCHANGED <<mediaPath, recordingId, submitted, jobRows, recon,
                 deletion, fate, wjob, api, budgets>>

(* _fail_ambiguous_operation.                                              *)
(* Variant with a bug: the session is left in its state.                   *)
FailJobOnly(j) ==
  /\ SetStatus(j, "FAILED")
  /\ jobAmbiguous' = [jobAmbiguous EXCEPT ![j] = pendingOp]
  /\ SaveSession(state)
FailAmbiguous(j) ==
  /\ SetStatus(j, "FAILED")
  /\ jobAmbiguous' = [jobAmbiguous EXCEPT ![j] = pendingOp]
  /\ SaveSession(IF state \in {"TRANSCRIBING", "RETRY_PENDING"}
                 THEN "FAILED" ELSE state)

FailAmbiguousOperation(w) ==
  /\ wpc[w] = "ambiguous"
  /\ VersionMatches(w)
  /\ FailAmbiguous(wjob[w])
  /\ Finish(w)
  /\ UNCHANGED <<mediaPath, recordingId, submitted, pendingOp, jobAttempts,
                 recon, deletion, call, fate, api, budgets>>

(* The checkpoint of _leased_provider_call passed: adapter.upload_recording*)
(* is entered, and posts the file if it is still there.                    *)
RecheckCall(w) ==
  /\ Rechecked(w, "call")
  /\ Goto(w, "uploading")
  /\ UNCHANGED <<session, jobRows, recon, deletion, call, fate, wjob, wop,
                 api, budgets>>

PostUpload(w) ==
  /\ wpc[w] = "uploading"
  /\ call[wop[w]] = "begun"
  /\ mediaPath = "kept"
  /\ call' = [call EXCEPT ![wop[w]] = "sent"]
  /\ UNCHANGED <<session, jobRows, recon, deletion, fate, worker, api,
                 budgets>>

(* upload_recording returned; _reload_after_remote decides what to do with *)
(* the recording it created.                                               *)
UploadReturns(w) ==
  /\ wpc[w] = "uploading"
  /\ call[wop[w]] = "live"
  /\ IF Cancelled(w)
     THEN Goto(w, "compensate") /\ UNCHANGED current
     ELSE Goto(w, "record") /\ current' = current \cup {w}
  /\ fate' = [fate EXCEPT ![wop[w]] = IF @ = "open" THEN "returned" ELSE @]
  /\ UNCHANGED <<state, mediaPath, recordingId, submitted, pendingOp,
                 jobRows, recon, deletion, call, wjob, wop, api, budgets>>

(* upload_recording raised.  Before the request is sent: the file cannot   *)
(* be read, or the adapter is not configured ("fail_final", a code that    *)
(* _fail_job does not retry).  After it: an HTTP error status, or, with    *)
(* the recording created all the same, a status or body it cannot use.     *)
(* A transport error is not an AdapterError: it ends the process (Crash).  *)
UploadRaises(w) ==
  /\ wpc[w] = "uploading"
  /\ \/ call[wop[w]] \in {"begun", "refused", "live"} /\ Goto(w, "fail")
     \/ call[wop[w]] = "begun" /\ Goto(w, "fail_final")
  /\ UNCHANGED <<session, jobRows, recon, deletion, call, fate, wjob, wop,
                 api, budgets>>

(* speakr_recording_id and clear_pending_operation, in one commit.         *)
RecordUpload(w) ==
  /\ wpc[w] = "record"
  /\ VersionMatches(w)
  /\ recordingId' = wop[w]
  /\ pendingOp' = None
  /\ fate' = [fate EXCEPT ![wop[w]] = "linked"]
  /\ SaveSession(state)
  /\ Checkpoint(w, "submit")
  /\ wop' = [wop EXCEPT ![w] = None]
  /\ UNCHANGED <<mediaPath, submitted, jobRows, recon, deletion, call,
                 wjob, api, budgets>>

RecheckSubmit(w) ==
  /\ Rechecked(w, "submit")
  /\ IF submitted
     THEN Checkpoint(w, "handover") /\ UNCHANGED current
     ELSE Goto(w, "submit") /\ current' = current \cup {w}
  /\ UNCHANGED <<state, mediaPath, recordingId, submitted, pendingOp,
                 jobRows, recon, deletion, call, fate, wjob, wop, api,
                 budgets>>

(* TranscriptionSubmissionMode.ON_UPLOAD: Speakr queued the transcription  *)
(* with the upload, so only the time of submission is recorded.            *)
Submit(w) ==
  /\ wpc[w] = "submit"
  /\ VersionMatches(w)
  /\ submitted' = TRUE
  /\ SaveSession(state)
  /\ Checkpoint(w, "handover")
  /\ UNCHANGED <<mediaPath, recordingId, pendingOp, jobRows, recon,
                 deletion, call, fate, wjob, wop, api, budgets>>

(* ensure_job(RECONCILE): look for an active one...                        *)
RecheckHandover(w) ==
  /\ Rechecked(w, "handover")
  /\ Goto(w, IF recon = "QUEUED" THEN "complete" ELSE "handover")
  /\ UNCHANGED <<session, jobRows, recon, deletion, call, fate, wjob, wop,
                 api, budgets>>

(* ... and insert.  The INSERT checks no version; its foreign key makes it *)
(* fail, and the process end, once the session row is gone.                *)
HandOver(w) ==
  /\ wpc[w] = "handover"
  /\ IF state # "GONE"
     THEN /\ recon' = "QUEUED"
          /\ Goto(w, "complete")
          /\ UNCHANGED <<wjob, wop>>
     ELSE Finish(w) /\ UNCHANGED recon
  /\ UNCHANGED <<session, jobRows, deletion, call, fate, api, budgets>>

(* _complete_job.  Clearing last_error changes the session row only if an  *)
(* error was recorded; last_error is not modelled, so either may happen.   *)
CompleteJob(w) ==
  /\ wpc[w] = "complete"
  /\ \/ /\ Cancelled(w)
        /\ CancelRow(wjob[w])
        /\ UNCHANGED current
     \/ /\ ~Cancelled(w)
        /\ SetStatus(wjob[w], "SUCCEEDED")
        /\ current' \in {current, {}}
  /\ Finish(w)
  /\ UNCHANGED <<state, mediaPath, recordingId, submitted, pendingOp,
                 jobAttempts, jobAmbiguous, recon, deletion, call, fate, api,
                 budgets>>

(* The end of an attempt that may be repeated: back to the queue while     *)
(* attempts remain, otherwise FAILED (_fail_job, _resolve_stale_processing)*)
(* Variant with a bug: attempts are not counted.                           *)
RetryForever(j) == TRUE
MayRetry(j) == jobAttempts[j] < MaxAttempts

RetryOrFail(j, retry) ==
  \/ /\ retry
     /\ SetStatus(j, "QUEUED")
     /\ TransitionIf({"TRANSCRIBING", "RECONCILING"}, "RETRY_PENDING")
  \/ /\ ~retry
     /\ SetStatus(j, "FAILED")
     /\ SaveSession(IF state \in {"TRANSCRIBING", "RECONCILING",
                                  "RETRY_PENDING"}
                    THEN "FAILED" ELSE state)

(* _fail_job.  It does not look at the pending-operation marker.           *)
FailJob(w) ==
  /\ wpc[w] \in {"fail", "fail_final"}
  /\ IF Cancelled(w)
     THEN CancelRow(wjob[w]) /\ UNCHANGED <<state, current>>
     ELSE RetryOrFail(wjob[w], MayRetry(wjob[w]) /\ wpc[w] = "fail")
  /\ Finish(w)
  /\ UNCHANGED <<mediaPath, recordingId, submitted, pendingOp, jobAttempts,
                 jobAmbiguous, recon, deletion, call, fate, api, budgets>>

(* A commit of the session row raised StaleDataError and was rolled back.  *)
LoseRace(w) ==
  /\ wpc[w] \in LoadedPc
  /\ ~VersionMatches(w)
  /\ Goto(w, "stale")
  /\ UNCHANGED <<session, jobRows, recon, deletion, call, fate, wjob, wop,
                 api, budgets>>

(* _resolve_stale_processing.                                              *)
ResolveStale(w) ==
  LET j == wjob[w] IN
  /\ wpc[w] = "stale"
  /\ \/ /\ jobStatus[j] # "RUNNING"
        /\ UNCHANGED <<state, current, jobStatus, jobAmbiguous>>
     \/ /\ jobStatus[j] = "RUNNING"
        /\ Cancelled(w)
        /\ SetStatus(j, "CANCELLED")
        /\ UNCHANGED <<state, current, jobAmbiguous>>
     \/ /\ ~Cancelled(w)
        /\ pendingOp # None
        /\ FailAmbiguous(j)
     \/ /\ ~Cancelled(w)
        /\ pendingOp = None
        /\ RetryOrFail(j, MayRetry(j))
        /\ UNCHANGED jobAmbiguous
  /\ Finish(w)
  /\ UNCHANGED <<mediaPath, recordingId, submitted, pendingOp, jobAttempts,
                 recon, deletion, call, fate, api, budgets>>

(* _cancel_job after a checkpoint returned None, or after a compensation.  *)
CancelJob(w) ==
  /\ wpc[w] = "cancel"
  /\ CancelRow(wjob[w])
  /\ Finish(w)
  /\ UNCHANGED <<session, jobAttempts, jobAmbiguous, recon, deletion, call,
                 fate, api, budgets>>

----------------------------------------------------------------------------
(* Compensation: deleting a recording that nobody will use.                *)

(* _compensate_orphan_recording up to the remote call: the compensation    *)
(* row, and with it the tombstone, are committed first.                    *)
EnsureDeletionCompensation(w) ==
  /\ wpc[w] = "compensate"
  /\ tombstone' = TRUE
  /\ comp' = [comp EXCEPT ![wop[w]] = "PENDING"]
  /\ Goto(w, "delete")
  /\ UNCHANGED <<session, jobRows, recon, call, fate, wjob, wop, api,
                 budgets>>

(* retry_deletion_compensation picks up a row left by a failed attempt or  *)
(* a crash.                                                                *)
(* Variant with a bug: a failed attempt is never repeated.                 *)
RetryPendingOnly(w) ==
  /\ wpc[w] = "idle"
  /\ \E o \in Ops : comp[o] = "PENDING" /\ wop' = [wop EXCEPT ![w] = o]
  /\ Goto(w, "delete")
  /\ UNCHANGED <<session, jobRows, recon, deletion, call, fate, wjob, api,
                 budgets>>
RetryDeletionCompensation(w) ==
  /\ wpc[w] = "idle"
  /\ \E o \in Ops :
       /\ comp[o] \in {"PENDING", "FAILED"}
       /\ comp' = [comp EXCEPT ![o] = "PENDING"]
       /\ wop' = [wop EXCEPT ![w] = o]
  /\ Goto(w, "delete")
  /\ UNCHANGED <<session, jobRows, recon, tombstone, call, fate, wjob, api,
                 budgets>>

(* adapter.delete_recording: done, or already gone (404).                  *)
DeleteRecording(w) ==
  /\ wpc[w] = "delete"
  /\ call' = [call EXCEPT ![wop[w]] = "deleted"]
  /\ Goto(w, "deleted")
  /\ UNCHANGED <<session, jobRows, recon, deletion, fate, wjob, wop, api,
                 budgets>>

(* After an attempt the worker that was running a job cancels it.          *)
EndCompensation(w) ==
  IF wjob[w] = None THEN Finish(w)
  ELSE Goto(w, "cancel") /\ UNCHANGED <<wjob, wop>>

(* An error status, or an answer lost after the recording was deleted.     *)
DeleteRecordingFails(w) ==
  /\ wpc[w] = "delete"
  /\ call' \in {call, [call EXCEPT ![wop[w]] = "deleted"]}
  /\ comp' = [comp EXCEPT ![wop[w]] = "FAILED"]
  /\ EndCompensation(w)
  /\ UNCHANGED <<session, jobRows, recon, tombstone, fate, api, budgets>>

RecordDeletionCompensation(w) ==
  /\ wpc[w] = "deleted"
  /\ comp' = [comp EXCEPT ![wop[w]] = "SUCCEEDED"]
  /\ tombstone' = TRUE
  /\ EndCompensation(w)
  /\ UNCHANGED <<session, jobRows, recon, call, fate, api, budgets>>

----------------------------------------------------------------------------
(* Crashes and recovery.                                                   *)

(* A worker process ends at any point and is started again.                *)
Crash(w) ==
  /\ wpc[w] # "idle"
  /\ crashes < MaxCrashes
  /\ crashes' = crashes + 1
  /\ Finish(w)
  /\ current' = current \ {w}
  /\ UNCHANGED <<state, mediaPath, recordingId, submitted, pendingOp,
                 jobRows, recon, deletion, call, fate, api, webhooks>>

(* updated_at is older than worker_job_lease_seconds.  The heartbeat and   *)
(* the checkpoints renew it, so an expired lease normally means that the   *)
(* worker is gone; with LeasesHonoured = FALSE a stalled worker may lose   *)
(* its lease and wake up again.                                            *)
(* Variants with a bug: the lease is not looked at, or never runs out.     *)
IgnoreLease(j) == jobStatus[j] = "RUNNING"
NeverExpires(j) == FALSE
LeaseExpired(j) ==
  /\ jobStatus[j] = "RUNNING"
  /\ LeasesHonoured => \A w \in Workers : wjob[w] # j

(* _recover_one_abandoned_job, in the sweep of an idle worker.             *)
RecoverRow(j) ==
  \/ pendingOp # None /\ FailAmbiguous(j)
  \/ /\ pendingOp = None
     /\ SetStatus(j, "QUEUED")
     /\ UNCHANGED <<state, current, jobAmbiguous>>

RecoverAbandonedJob(w) ==
  /\ wpc[w] = "idle"
  /\ NoCompensationDue(w)
  /\ \E j \in Jobs : LeaseExpired(j) /\ RecoverRow(j)
  /\ UNCHANGED <<mediaPath, recordingId, submitted, pendingOp, jobAttempts,
                 recon, deletion, call, fate, worker, api, budgets>>

----------------------------------------------------------------------------
(* Speakr: a request that was sent is accepted or rejected, perhaps long   *)
(* after the worker that sent it is gone.                                  *)

ProviderAccepts(o) ==
  /\ call[o] = "sent"
  /\ call' = [call EXCEPT ![o] = "live"]
  /\ UNCHANGED <<session, jobRows, recon, deletion, fate, worker, api,
                 budgets>>

ProviderRefuses(o) ==
  /\ call[o] = "sent"
  /\ call' = [call EXCEPT ![o] = "refused"]
  /\ UNCHANGED <<session, jobRows, recon, deletion, fate, worker, api,
                 budgets>>

----------------------------------------------------------------------------
(* The API.  Each handler is one transaction, except upload_media and      *)
(* confirm_deletion, which do slow work between loading and committing,    *)
(* and the inserts below, which no version check protects.                 *)

(* upload_media: commit UPLOADING, then receive the file.  With media      *)
(* already retained it only makes sure that a job exists (RepostMedia).    *)
UploadMediaBegins ==
  /\ uploader = "idle"
  /\ state \in {"CREATED", "UPLOADING"}
  /\ CanTransition(state, "UPLOADING")
  /\ state' = "UPLOADING"
  /\ current' = (IF state = "UPLOADING" THEN current ELSE {})
                \cup {"upload_media"}
  /\ uploader' = "receiving"
  /\ UNCHANGED <<mediaPath, recordingId, submitted, pendingOp, jobRows,
                 recon, deletion, call, fate, worker, confirmer, confirmRec,
                 inserter, budgets>>

(* The file is in place: UPLOADED, ensure_job(TRANSCRIBE), TRANSCRIBING.   *)
UploadMediaCommits ==
  /\ uploader = "receiving"
  /\ VersionMatches("upload_media")
  /\ CanTransition(state, "UPLOADED")
  /\ CanTransition("UPLOADED", "TRANSCRIBING")
  /\ mediaPath' = "kept"
  /\ SaveSession("TRANSCRIBING")
  /\ EnsureTranscribe
  /\ uploader' = "idle"
  /\ UNCHANGED <<recordingId, submitted, pendingOp, recon, deletion, call,
                 fate, worker, confirmer, confirmRec, inserter, budgets>>

(* The upload is empty, too large, or cannot be written.                   *)
UploadMediaFails ==
  /\ uploader = "receiving"
  /\ VersionMatches("upload_media")
  /\ SaveSession("FAILED")
  /\ uploader' = "idle"
  /\ UNCHANGED <<mediaPath, recordingId, submitted, pendingOp, jobRows,
                 recon, deletion, call, fate, worker, confirmer, confirmRec,
                 inserter, budgets>>

(* Its commit is stale, and so is the one that would record the failure;   *)
(* or the API process ends while it receives the file.                     *)
UploadMediaLost ==
  /\ uploader = "receiving"
  /\ \/ ~VersionMatches("upload_media") /\ UNCHANGED crashes
     \/ crashes < MaxCrashes /\ crashes' = crashes + 1
  /\ uploader' = "idle"
  /\ current' = current \ {"upload_media"}
  /\ UNCHANGED <<state, mediaPath, recordingId, submitted, pendingOp,
                 jobRows, recon, deletion, call, fate, worker, confirmer,
                 confirmRec, inserter, webhooks>>

(* A second upload_media, or a refresh, of a session without a recording   *)
(* in a state that neither handler changes: ensure_job finds no active job *)
(* and will insert one.  Only refresh looks at the marker.                 *)
EnsureTranscribeBegins ==
  /\ inserter = "idle"
  /\ mediaPath # "none" /\ recordingId = None
  /\ \/ state = "TRANSCRIBING"
     \/ state \in {"RECONCILING", "RETRY_PENDING"} /\ pendingOp = None
  /\ ~ActiveJob
  /\ inserter' = "inserting"
  /\ UNCHANGED <<session, jobRows, recon, deletion, call, fate, worker,
                 uploader, confirmer, confirmRec, budgets>>

EnsureTranscribeCommits ==
  /\ inserter = "inserting"
  /\ IF state = "GONE" THEN UNCHANGED jobRows ELSE \E j \in Jobs : NewJob(j)
  /\ inserter' = "idle"
  /\ UNCHANGED <<session, recon, deletion, call, fate, worker, uploader,
                 confirmer, confirmRec, budgets>>

(* retry_job with _prepare_state_for_job, for a TRANSCRIBE job.  It does   *)
(* not look for an active job, nor at the tombstone.                       *)
RetryJob(j) ==
  /\ jobStatus[j] \in {"FAILED", "CANCELLED"}
  /\ state \in {"FAILED", "CANCELLED", "RETRY_PENDING"}
  /\ pendingOp = None
  /\ CanTransition(state, "RETRY_PENDING")
  /\ CanTransition("RETRY_PENDING", "TRANSCRIBING")
  /\ SaveSession("TRANSCRIBING")
  /\ \E k \in Jobs : NewJob(k)
  /\ UNCHANGED <<mediaPath, recordingId, submitted, pendingOp, recon,
                 deletion, call, fate, worker, api, budgets>>

(* create_job(TRANSCRIBE); UPLOADED is never committed, so RETRY_PENDING   *)
(* is the one state that _prepare_state_for_job lets through.              *)
CreateJob ==
  /\ ~ActiveJob
  /\ pendingOp = None
  /\ state = "RETRY_PENDING"
  /\ Transition("TRANSCRIBING")
  /\ \E j \in Jobs : NewJob(j)
  /\ UNCHANGED <<mediaPath, recordingId, submitted, pendingOp, recon,
                 deletion, call, fate, worker, api, budgets>>

(* refresh_from_speakr, without a recording, of a stopped session.         *)
RefreshTranscribe ==
  /\ state \in {"FAILED", "CANCELLED"}
  /\ pendingOp = None
  /\ recordingId = None /\ mediaPath # "none"
  /\ Transition("RETRY_PENDING")
  /\ EnsureTranscribe
  /\ UNCHANGED <<mediaPath, recordingId, submitted, pendingOp, recon,
                 deletion, call, fate, worker, api, budgets>>

(* refresh_from_speakr with a recording, create_job(RECONCILE), or         *)
(* retry_job of a RECONCILE job: a stopped session goes by RETRY_PENDING   *)
(* to RECONCILING.  A marker is never set while there is a recording, so   *)
(* the test of refresh for one is left out.                                *)
RequestReconcile ==
  LET from == IF state \in {"FAILED", "CANCELLED"}
              THEN "RETRY_PENDING" ELSE state
  IN
  /\ recordingId # None
  /\ state \in {"TRANSCRIBING", "RECONCILING", "RETRY_PENDING", "FAILED",
                "CANCELLED"}
  /\ CanTransition(from, "RECONCILING")
  /\ IF state = "RECONCILING" THEN UNCHANGED <<state, current>>
     ELSE SaveSession("RECONCILING")
  /\ recon' = "QUEUED"
  /\ UNCHANGED <<mediaPath, recordingId, submitted, pendingOp, jobRows,
                 deletion, call, fate, worker, api, budgets>>

(* A second upload_media of a session past its upload: ensure_job(RECONCILE)*)
EnsureReconcile ==
  /\ \/ state = "TRANSCRIBING" /\ recordingId # None
     \/ state = "RECONCILING"
  /\ recon' = "QUEUED"
  /\ UNCHANGED <<session, jobRows, deletion, call, fate, worker, api,
                 budgets>>

(* cancel_job, for a TRANSCRIBE or a RECONCILE job.                        *)
CancelSessionIfRunning ==
  TransitionIf({"TRANSCRIBING", "RETRY_PENDING"}, "CANCELLED")

ApiCancelJob ==
  /\ \/ /\ \E j \in Jobs : IsActive(j) /\ SetStatus(j, "CANCELLED")
        /\ UNCHANGED recon
     \/ /\ recon = "QUEUED"
        /\ recon' = "CANCELLED"
        /\ UNCHANGED jobStatus
  /\ CancelSessionIfRunning
  /\ UNCHANGED <<mediaPath, recordingId, submitted, pendingOp, jobAttempts,
                 jobAmbiguous, deletion, call, fate, worker, api, budgets>>

CancelAll(statuses) ==
  /\ jobStatus' = [j \in Jobs |-> IF jobStatus[j] \in statuses
                                  THEN "CANCELLED" ELSE jobStatus[j]]
  /\ recon' = IF recon = "QUEUED" THEN "CANCELLED" ELSE recon

CancelSession ==
  /\ state \in {"CREATED", "UPLOADING", "TRANSCRIBING", "RECONCILING",
                "RETRY_PENDING"}
  /\ Transition("CANCELLED")
  /\ CancelAll({"QUEUED", "RUNNING"})
  /\ UNCHANGED <<mediaPath, recordingId, submitted, pendingOp, jobAttempts,
                 jobAmbiguous, deletion, call, fate, worker, api, budgets>>

(* resolve_upload_operation: an administrator settles the operation that   *)
(* a FAILED job names, while no TRANSCRIBE job is active.  The recording   *)
(* adopted is the one that operation created.                              *)
(* Variant with a bug: active jobs are not looked for.                     *)
ResolvableMidJob == pendingOp # None
Resolvable ==
  /\ pendingOp # None
  /\ ~ActiveJob
  /\ \E j \in Jobs : jobStatus[j] = "FAILED" /\ jobAmbiguous[j] = pendingOp

ResolveUploadOperation(outcome) ==
  /\ Resolvable
  /\ \/ /\ outcome = "adopt_existing"
        /\ call[pendingOp] = "live"
        /\ recordingId' = pendingOp
        /\ fate' = [fate EXCEPT ![pendingOp] = "linked"]
     \/ /\ outcome = "not_created"
        /\ fate' = [fate EXCEPT ![pendingOp] = "waived"]
        /\ UNCHANGED recordingId
  /\ pendingOp' = None
  /\ SaveSession(state)
  /\ UNCHANGED <<mediaPath, submitted, jobRows, recon, deletion, call,
                 worker, api, budgets>>

(* request_deletion: the tombstone, the QUEUED jobs, DELETE_PENDING.       *)
RequestDeletion ==
  /\ state # "GONE"
  /\ tombstone' = TRUE
  /\ CancelAll({"QUEUED"})
  /\ TransitionIf(State \ {"DELETE_PENDING", "GONE"}, "DELETE_PENDING")
  /\ UNCHANGED <<mediaPath, recordingId, submitted, pendingOp, jobAttempts,
                 jobAmbiguous, comp, call, fate, worker, api, budgets>>

(* has_active_job or has_running_pending_provider_operation.               *)
DeletionMustWait ==
  \E j \in Jobs : /\ jobStatus[j] = "RUNNING"
                  /\ ~LeaseExpired(j) \/ pendingOp # None

(* confirm_deletion up to the remote call.  A 202 answer changes nothing.  *)
ConfirmDeletionBegins ==
  /\ confirmer = "idle"
  /\ state = "DELETE_PENDING"
  /\ ~DeletionMustWait
  /\ \A o \in Ops : comp[o] \in {"none", "SUCCEEDED"}
  /\ confirmRec' = recordingId
  /\ confirmer' = IF recordingId = None THEN "purge" ELSE "remote"
  /\ current' = current \cup {"confirm_deletion"}
  /\ UNCHANGED <<state, mediaPath, recordingId, submitted, pendingOp,
                 jobRows, recon, deletion, call, fate, worker, uploader,
                 inserter, budgets>>

ConfirmRemoteDeletes ==
  /\ confirmer = "remote"
  /\ call' = [call EXCEPT ![confirmRec] = "deleted"]
  /\ confirmer' = "purge"
  /\ UNCHANGED <<session, jobRows, recon, deletion, fate, worker, uploader,
                 confirmRec, inserter, budgets>>

(* The provider refuses, and last_error is committed unless it is stale    *)
(* (502); or the answer is lost, and nothing is committed (500).           *)
ConfirmRemoteFails ==
  /\ confirmer = "remote"
  /\ confirmer' = "idle" /\ confirmRec' = None
  /\ \/ /\ VersionMatches("confirm_deletion")
        /\ current' = {}
        /\ UNCHANGED call
     \/ /\ current' = current \ {"confirm_deletion"}
        /\ call' \in {call, [call EXCEPT ![confirmRec] = "deleted"]}
  /\ UNCHANGED <<state, mediaPath, recordingId, submitted, pendingOp,
                 jobRows, recon, deletion, fate, worker, uploader, inserter,
                 budgets>>

(* The retained file is unlinked and the row deleted; its jobs go with it  *)
(* by ON DELETE CASCADE, the tombstone and the compensations stay.         *)
ConfirmDeletionCommits ==
  /\ confirmer = "purge"
  /\ VersionMatches("confirm_deletion")
  /\ SaveSession("GONE")
  /\ mediaPath' = "none" /\ recordingId' = None
  /\ submitted' = FALSE /\ pendingOp' = None
  /\ jobStatus' = [j \in Jobs |-> "FREE"]
  /\ jobAttempts' = [j \in Jobs |-> 0]
  /\ jobAmbiguous' = [j \in Jobs |-> None]
  /\ recon' = "none"
  /\ confirmer' = "idle" /\ confirmRec' = None
  /\ UNCHANGED <<deletion, call, fate, worker, uploader, inserter, budgets>>

(* The DELETE is stale, or the API process ends before it: the file is     *)
(* gone, the row still names it.                                           *)
ConfirmDeletionLost ==
  /\ confirmer = "purge"
  /\ \/ ~VersionMatches("confirm_deletion") /\ UNCHANGED crashes
     \/ crashes < MaxCrashes /\ crashes' = crashes + 1
  /\ mediaPath' = IF mediaPath = "none" THEN "none" ELSE "unlinked"
  /\ confirmer' = "idle" /\ confirmRec' = None
  /\ current' = current \ {"confirm_deletion"}
  /\ UNCHANGED <<state, recordingId, submitted, pendingOp, jobRows, recon,
                 deletion, call, fate, worker, uploader, inserter, webhooks>>

(* _apply_webhook_event finds the session by its recording id; each        *)
(* delivery id is applied once.                                            *)
Webhook ==
  /\ webhooks < MaxWebhooks
  /\ webhooks' = webhooks + 1
  /\ recordingId # None
  /\ UNCHANGED <<mediaPath, submitted, pendingOp, jobAttempts, jobAmbiguous,
                 deletion, fate, worker, api, crashes>>

(* The payload may carry a duration, which is a change of the session row. *)
WebhookCompleted ==
  /\ Webhook
  /\ recon' = "QUEUED"
  /\ current' \in {current, {}}
  /\ UNCHANGED <<state, recordingId, jobStatus, call>>

WebhookFailed ==
  /\ Webhook
  /\ SaveSession(IF state = "TRANSCRIBING" THEN "FAILED" ELSE state)
  /\ CancelAll({"QUEUED", "RUNNING"})
  /\ UNCHANGED <<recordingId, call>>

(* Someone deleted the recording in Speakr, or confirm_deletion just did.  *)
WebhookDeleted ==
  /\ Webhook
  /\ call' = [call EXCEPT ![recordingId] = "deleted"]
  /\ recordingId' = None
  /\ SaveSession(state)
  /\ UNCHANGED <<jobStatus, recon>>

----------------------------------------------------------------------------
(* Every step of worker w that its process takes by itself.                *)
WorkerStep(w) ==
  \/ Claim(w) \/ Start(w) \/ Check(w) \/ RecheckAborts(w)
  \/ RecheckBegin(w) \/ Resume(w) \/ BeginPendingOperation(w)
  \/ FailAmbiguousOperation(w) \/ RecheckCall(w) \/ PostUpload(w)
  \/ UploadReturns(w) \/ UploadRaises(w) \/ RecordUpload(w)
  \/ RecheckSubmit(w) \/ Submit(w) \/ RecheckHandover(w) \/ HandOver(w)
  \/ CompleteJob(w) \/ FailJob(w) \/ LoseRace(w) \/ ResolveStale(w)
  \/ CancelJob(w) \/ EnsureDeletionCompensation(w)
  \/ RetryDeletionCompensation(w) \/ DeleteRecording(w)
  \/ DeleteRecordingFails(w) \/ RecordDeletionCompensation(w)
  \/ RecoverAbandonedJob(w)

UserStep ==
  \/ UploadMediaBegins \/ EnsureTranscribeBegins
  \/ (\E j \in Jobs : RetryJob(j))
  \/ CreateJob \/ RefreshTranscribe \/ RequestReconcile \/ EnsureReconcile
  \/ ApiCancelJob \/ CancelSession \/ RequestDeletion
  \/ (\E r \in {"adopt_existing", "not_created"} : ResolveUploadOperation(r))

ApiStep ==
  \/ UploadMediaCommits \/ UploadMediaFails \/ UploadMediaLost
  \/ EnsureTranscribeCommits \/ ConfirmDeletionBegins
  \/ ConfirmRemoteDeletes \/ ConfirmRemoteFails
  \/ ConfirmDeletionCommits \/ ConfirmDeletionLost

ProviderStep ==
  \/ (\E o \in Ops : ProviderAccepts(o) \/ ProviderRefuses(o))
  \/ WebhookCompleted \/ WebhookFailed \/ WebhookDeleted

Next ==
  \/ (\E w \in Workers : WorkerStep(w) \/ Crash(w))
  \/ UserStep \/ ApiStep \/ ProviderStep

Spec == Init /\ [][Next]_vars

----------------------------------------------------------------------------
(* Properties.                                                             *)

(* Every variable has its type, a worker holds a job and an operation      *)
(* exactly where it needs them, and its copy of the session row is tracked *)
(* only while it is about to commit it.                                    *)
UploadPc == {"uploading", "record", "compensate", "delete", "deleted"}
WorkerShape ==
  \A w \in Workers :
    /\ wpc[w] = "idle" => wjob[w] = None /\ wop[w] = None
    /\ wpc[w] \notin {"idle", "delete", "deleted"} => wjob[w] # None
    /\ wpc[w] \in UploadPc \/ wstage[w] = "call" => wop[w] # None
    /\ wpc[w] \in {"check", "recheck"} <=> wstage[w] # "none"
    /\ w \in current => wpc[w] \in LoadedPc

TypeOK ==
  /\ WorkerShape
  /\ state \in State
  /\ mediaPath \in {"none", "kept", "unlinked"}
  /\ recordingId \in Ops \cup {None}
  /\ submitted \in BOOLEAN
  /\ pendingOp \in Ops \cup {None}
  /\ current \subseteq Workers \cup {"upload_media", "confirm_deletion"}
  /\ jobStatus \in [Jobs -> JobStatus \cup {"FREE"}]
  /\ jobAttempts \in [Jobs -> 0 .. MaxAttempts]
  /\ jobAmbiguous \in [Jobs -> Ops \cup {None}]
  /\ recon \in {"none", "QUEUED", "CANCELLED"}
  /\ tombstone \in BOOLEAN
  /\ comp \in [Ops -> {"none", "PENDING", "FAILED", "SUCCEEDED"}]
  /\ call \in [Ops -> Call]
  /\ fate \in [Ops -> {"open", "returned", "linked", "waived"}]
  /\ wpc \in [Workers -> Pc]
  /\ wstage \in [Workers -> Stage \cup {"none"}]
  /\ wjob \in [Workers -> Jobs \cup {None}]
  /\ wop \in [Workers -> Ops \cup {None}]
  /\ uploader \in {"idle", "receiving"}
  /\ confirmer \in {"idle", "remote", "purge"}
  /\ confirmRec \in Ops \cup {None}
  /\ inserter \in {"idle", "inserting"}
  /\ crashes \in 0 .. MaxCrashes
  /\ webhooks \in 0 .. MaxWebhooks

(* The outcome of operation o is on record: its recording is linked to the *)
(* session or was, an administrator settled it, or a compensation row      *)
(* names the recording.                                                    *)
Accounted(o) == fate[o] \in {"linked", "waived"} \/ comp[o] # "none"

(* Whatever crashes, errors, lost races and cancellations happen, an       *)
(* upload request that left a worker is accounted for, or the session row  *)
(* still carries its marker, as begin_pending_operation promises.          *)
OutcomeAccounted ==
  \A o \in Ops : call[o] \in Sent =>
                 Accounted(o) \/ pendingOp = o \/ state = "GONE"

(* A new upload operation begins only when every earlier one is accounted  *)
(* for: the blind retry that could create a second, undiscoverable         *)
(* recording does not happen, whichever worker or job comes back to it.    *)
NoBlindRetry ==
  [][\A o \in Ops :
       call[o] = "unused" /\ call'[o] # "unused" =>
         \A p \in Ops : call[p] # "unused" => Accounted(p)]_vars

(* What the rows say was deleted from Speakr is deleted there: when        *)
(* confirm_deletion has deleted the session row, every recording that was  *)
(* ever linked to it; when a compensation row says SUCCEEDED, its          *)
(* recording, whoever retried, failed or crashed in between.               *)
DeletionsReachSpeakr ==
  /\ state = "GONE" =>
       \A o \in Ops : fate[o] = "linked" => call[o] = "deleted"
  /\ \A o \in Ops : comp[o] = "SUCCEEDED" => call[o] = "deleted"

(* Once deletion is pending no late commit of a worker or of an upload     *)
(* brings the session back, and a deleted row is not recreated.            *)
DeletionIsFinal ==
  [][/\ state = "DELETE_PENDING" => state' \in {"DELETE_PENDING", "GONE"}
     /\ state = "GONE" => state' = "GONE"]_vars

(* A worker, an upload or a webhook never takes a session out of CANCELLED:*)
(* only the users' retry, refresh and deletion requests do.                *)
CancelledStaysCancelled ==
  [][state = "CANCELLED" /\ ~UserStep => state' = "CANCELLED"]_vars

(* The verdict "ambiguous" on a job, without which resolve_upload_operation*)
(* refuses to act, is not overwritten while the row exists.                *)
AmbiguousVerdictKept ==
  [][\A j \in Jobs :
       jobStatus[j] = "FAILED" /\ jobAmbiguous[j] # None =>
         \/ jobStatus'[j] = "FAILED" /\ jobAmbiguous'[j] = jobAmbiguous[j]
         \/ state' = "GONE"]_vars

(* A session that shows TRANSCRIBING or RETRY_PENDING, and of which nothing*)
(* was cancelled, deleted or reported failed, has something that will move *)
(* it: an active job, one about to be inserted, or a queued reconciliation.*)
NothingCancelled ==
  /\ webhooks = 0 /\ ~DeletionRequested
  /\ \A j \in Jobs : jobStatus[j] # "CANCELLED"

NotStranded ==
  state \in {"TRANSCRIBING", "RETRY_PENDING"} /\ NothingCancelled =>
    ActiveJob \/ recon = "QUEUED" \/ inserter = "inserting"

(* The row moves as the state table says, although workers, uploads and    *)
(* requests decide on copies of it and one of them assigns the state.      *)
Lifecycle == INSTANCE SessionLifecycle WITH
  First <- "CREATED",
  state <- IF state = "GONE" THEN "DELETED" ELSE state

(* From its creation to its deletion the session row implements the        *)
(* abstract life cycle.                                                    *)
ImplementsLifecycle == Lifecycle!Spec

(* The inductive invariant behind the safety properties.                   *)

(* Worker w began an operation and has not yet recorded or dropped it.     *)
UploadSection(w) == wstage[w] = "call" \/ wpc[w] \in {"uploading", "record"}

(* OutcomeAccounted already holds from the moment the marker is committed. *)
MarkerSurvives ==
  \A o \in Ops : call[o] # "unused" =>
                 Accounted(o) \/ pendingOp = o \/ state = "GONE"

(* What a copy of the session row that is still current tells its holder.  *)
LoadedCopies ==
  /\ \A w \in Workers : w \in current =>
       /\ state # "GONE"
       /\ wpc[w] = "resume" => state = "RETRY_PENDING"
       /\ wpc[w] = "mark" => pendingOp = None /\ recordingId = None
       /\ wpc[w] = "record" => pendingOp = wop[w]
  /\ "upload_media" \in current => state = "UPLOADING"
  /\ "confirm_deletion" \in current =>
       state = "DELETE_PENDING" /\ confirmRec = recordingId

(* While the job of a worker in the upload section is active, the marker   *)
(* is that worker's own; no two workers share an operation.                *)
SectionOwned ==
  /\ \A w \in Workers : UploadSection(w) =>
       /\ call[wop[w]] # "unused"
       /\ pendingOp = wop[w] \/ ~IsActive(wjob[w])
  /\ \A v, w \in Workers :
       UploadSection(v) /\ UploadSection(w) /\ wop[v] = wop[w] => v = w

(* A worker's job row disappears only with the session row; a marker       *)
(* excludes a recording; a deleted row holds neither; every id in a row or *)
(* in confirm_deletion's hands was drawn; a compensation in progress has   *)
(* its row.                                                                *)
RowsConsistent ==
  /\ \A w \in Workers :
       wjob[w] # None /\ jobStatus[wjob[w]] = "FREE" => state = "GONE"
  /\ pendingOp # None => recordingId = None /\ call[pendingOp] # "unused"
  /\ state = "GONE" => pendingOp = None /\ recordingId = None
  /\ recordingId # None => call[recordingId] # "unused"
  /\ confirmRec # None => call[confirmRec] # "unused"
  /\ \A o \in Ops : comp[o] # "none" => call[o] # "unused"
  /\ \A w \in Workers :
       /\ wpc[w] = "compensate" => call[wop[w]] # "unused"
       /\ wpc[w] \in {"delete", "deleted"} => comp[wop[w]] # "none"

(* A recording that was linked is linked still, or deleted from Speakr;    *)
(* confirm_deletion purges, and a worker records a compensation, only      *)
(* after the remote deletion.                                              *)
LinkedOrDeleted ==
  /\ \A o \in Ops : fate[o] = "linked" =>
                    recordingId = o \/ call[o] = "deleted"
  /\ confirmer = "remote" => confirmRec # None
  /\ confirmer = "purge" /\ confirmRec # None => call[confirmRec] = "deleted"
  /\ \A w \in Workers : wpc[w] = "deleted" => call[wop[w]] = "deleted"
  /\ \A o \in Ops : comp[o] = "SUCCEEDED" => call[o] = "deleted"

(* What holds at every interleaving, leases honoured or not.               *)
RowInv ==
  /\ TypeOK
  /\ MarkerSurvives
  /\ LoadedCopies
  /\ SectionOwned
  /\ RowsConsistent
  /\ LinkedOrDeleted

(* With leases honoured a job is in the hands of one worker, and stays     *)
(* RUNNING there unless it is cancelled or deleted with its session.       *)
JobsHeldOnce ==
  /\ \A w \in Workers : wjob[w] # None =>
       jobStatus[wjob[w]] \in {"RUNNING", "CANCELLED", "FREE"}
  /\ \A v, w \in Workers : wjob[v] = wjob[w] /\ wjob[v] # None => v = w

(* A worker past its upload left a recording id on the row.                *)
PastUpload(w) == \/ wpc[w] \in {"submit", "handover", "complete"}
                 \/ wstage[w] \in {"submit", "handover"}
RecordingKept ==
  \A w \in Workers : PastUpload(w) /\ webhooks = 0 =>
                      recordingId # None \/ state = "GONE"

(* A session whose media was never committed has no job, and none is about *)
(* to be inserted.                                                         *)
NotStarted ==
  state \in {"CREATED", "UPLOADING"} =>
    inserter = "idle" /\ \A j \in Jobs : jobStatus[j] = "FREE"

(* NotStranded, with an active job that still has its hand-over to do: the *)
(* RECONCILE job of a worker about to complete may have been cancelled.    *)
Carries(j) ==
  IsActive(j) /\ \A w \in Workers : wjob[w] = j => wpc[w] # "complete"
SessionCarried ==
  state \in {"TRANSCRIBING", "RETRY_PENDING"} /\ NothingCancelled =>
    \/ \E j \in Jobs : Carries(j)
    \/ recon = "QUEUED" \/ inserter = "inserting"

LeaseInv == JobsHeldOnce /\ RecordingKept /\ NotStarted /\ SessionCarried

IInv == RowInv /\ (LeasesHonoured => LeaseInv)

(* What the documents say and the code does not do.                        *)

(* models.py, on the tombstone: a worker that finds the session deleted    *)
(* "must compensate for anything it already created".  So when the row is  *)
(* gone, a recording whose id a worker has been given is still in that     *)
(* worker's hands, or has a compensation row.                              *)
NoOrphanRecording ==
  \A o \in Ops :
    state = "GONE" /\ fate[o] = "returned" =>
      comp[o] # "none" \/ \E w \in Workers : wop[w] = o

(* README, Known Speakr limitation: an administrator resolves an operation *)
(* with an unknown outcome through upload-operation/resolve.  So a marker  *)
(* that no worker and no job is going to act on can be resolved.           *)
MarkerResolvable ==
  /\ pendingOp # None
  /\ ~ActiveJob /\ inserter = "idle"
  /\ \A w \in Workers : wpc[w] = "idle"
  => Resolvable

----------------------------------------------------------------------------
(* Liveness.  Worker processes run and are restarted; Speakr answers every *)
(* request, and does not fail for ever the deletions it is asked for; the  *)
(* administrator repeats the confirmation that answered 202, as its        *)
(* message asks.                                                           *)
Fairness ==
  /\ \A w \in Workers : /\ WF_vars(WorkerStep(w))
                        /\ SF_vars(DeleteRecording(w))
  /\ \A o \in Ops : WF_vars(ProviderAccepts(o) \/ ProviderRefuses(o))
  /\ WF_vars(ConfirmDeletionBegins)
  /\ SF_vars(ConfirmRemoteDeletes)
  /\ WF_vars(ConfirmDeletionCommits \/ ConfirmDeletionLost)

FairSpec == Spec /\ Fairness

(* A recording that nobody will use is deleted in the end, through failing *)
(* deletions, crashes, and the deletion of its session.                    *)
CompensationCompletes ==
  \A o \in Ops : comp[o] \in {"PENDING", "FAILED"} ~> comp[o] = "SUCCEEDED"

(* A requested deletion completes although workers are running, crash, or  *)
(* leave an unresolved marker, and webhooks change the row under it.       *)
DeletionCompletes == state = "DELETE_PENDING" ~> state = "GONE"

(* No job stays queued or running for ever: attempts run out, leases of    *)
(* dead workers expire, cancelled jobs are dropped.                        *)
JobsSettle ==
  \A j \in Jobs : jobStatus[j] \in {"QUEUED", "RUNNING"} ~>
                  jobStatus[j] \in TerminalStatus \cup {"FREE"}
=============================================================================
