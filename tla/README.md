# TLA+ development for the coaching evidence dashboard

The dashboard turns the recording of a coaching session into a reviewed ledger
of evidence: upload -> transcription by Speakr -> transcript reconciliation ->
extraction -> human review. This directory holds TLA+ models of it, the TLC
configurations that check them, and TLAPS proofs.

## 1. Inventory

| Component | State | Operations | Talks to |
|---|---|---|---|
| session state machine (`state.py`) | `coaching_session.state` | `transition` | used by every writer of a session |
| session API (`app.py`, `services.py`) | rows of session, job, tombstone, ledger | upload, create/cancel/retry job, refresh, resolve operation, cancel, delete, confirm, webhooks, ledger, verification | database, media directory, Speakr |
| worker (`worker.py`) | job rows, leases; nothing in memory between jobs | `run_once`: compensation, recovery sweep, scheduled reconciliation, one job | database, Speakr, extraction gateway |
| persistence (`models.py`, `db.py`) | version columns of session and job rows | conditional UPDATE / DELETE | all |
| Speakr adapter (`media_adapter`) | none | upload, read, delete a recording | Speakr |
| review pipeline (`worker.py`, `services.py`, `transcripts.py`) | transcript revisions, ledger entries, summary | RECONCILE, EXTRACT, SUMMARIZE | Speakr, gateway |
| review (`app.py`) | verification status per entry | add entry, verify | database |
| media staging (`app.py`) | `.uploading`, `original.*` | `upload_media` | file system |
| extraction gateway (`extraction_gateway/app.py`, `openai_client.py`) | none between requests; a thread pool per request | `/extract` in windows, `/consolidate`, `/summarize` | model provider |
| session summary (`worker.py`, `app.py`) | `session_summary` row | SUMMARIZE job, `get_summary` | gateway, ledger |
| schema migrations | schema version | `init_schema` at start-up | database |
| retention helper (`nix/retention-helper.py`) | quarantine, audit log | quarantine, list, purge | file system |
| web application and client | what is shown, timers | polling, actions | API |

API handlers and any number of workers run concurrently and meet only in the
database. Rows carry a version; an ORM UPDATE or DELETE of a row that changed
since it was loaded raises `StaleDataError`. Inserts carry no such check.

What is hard here, and what correctness means:

* **The upload to Speakr is not idempotent and cannot be looked up.** A crash,
  an error or a lost race after the request was sent must neither repeat it
  blindly nor forget it.
* **Deletion crosses three stores** (database, media directory, Speakr) while
  workers may be in the middle of a call. It must reach all three, must not be
  undone by a late commit, and must complete.
* **A checked state is stale when used**: before every remote call and commit
  the worker re-reads, and relies on the version check for the rest.
* **Leases**: a job of a dead worker must be recovered, and a stalled worker
  that wakes up must do no harm.
* **Review**: the session is COMPLETE exactly when every entry of the current
  revision is decided, with reviewers, additions and new revisions interleaved.
* **Extraction**: every coaching moment is seen whole by one window; the answers
  of a pool of threads are merged without loss or repetition, one failed window
  fails the request, and what the gateway keeps should pass the evidence API's
  check, which refuses a whole extraction for one entry.
* **Summary**: whatever ids the model forgets, invents or repeats, no entry is
  lost in silence, and a summary whose ledger moved on since it was read is shown
  as stale.
* **Uploads of one session share one staging file**; the file is moved before the
  commit that records it, and deletion removes it before the commit that removes
  the row.
* **Quarantine and purge** are processes that race with each other and with the
  application; the audit log must be true wherever one of them ends.

`PROJECT.json` lists the hazards line by line with the properties that cover
them.

## 2. Plan

1. `SessionStates`, `SessionLifecycle`, `TranscribePipeline`,
   `TranscribeProofs`: the session up to its transcript, with deletion.
   **Done** (section 3).
2. `ReviewPipeline`, `ReviewProofs`: RECONCILE, EXTRACT and SUMMARIZE with
   revisions, ledger and verification. **Done** (section 4).
3. `LedgerEvidence`, `Extraction`, `ExtractionGateway`, `GatewayProofs`: the
   gateway's `/extract`, and the proof that it implements an abstract promise.
   **Done** (section 5).
4. `SessionSummary`, `SummaryProofs`: consolidation, summary and its staleness.
   **Done** (section 6).
5. `MediaStaging`, `StagingProofs`: concurrent uploads. **Done** (section 7).
6. `RetentionHelper`, `RetentionProofs`: quarantine and purge. **Done**
   (section 7).
7. `WebPolling`: polls whose answers arrive out of order.
8. EXPLICIT submission in `TranscribePipeline`; in both pipelines the job-only
   UPDATE after three lost races.

`SessionStates` is extended by both pipelines and by `MediaStaging`. The
pipelines meet where the worker hands
a recording over: `HandOver` of `TranscribePipeline` establishes `Init` of
`ReviewPipeline`. Deletion after `DELETE_PENDING` is in the first one only.
`MediaStaging` opens up the one step `UploadMediaCommits` of
`TranscribePipeline`, `ExtractionGateway` the step `Extract` of
`ReviewPipeline`, and `SessionSummary` its steps `Summarize` and `StoreSummary`.
`SessionLifecycle` is the abstract specification of a session row: its committed
states follow ALLOWED_TRANSITIONS, but for the two commits that pass through a
state on the way (`upload_media` through UPLOADED, a retry or refresh through
RETRY_PENDING). Both pipelines instantiate it (`Lifecycle`): the first from
CREATED on, with a deleted row as DELETED, the second from the hand-over on. It
is not evident that they implement it: `transition` tests a copy that may be
old when it is committed.
`LedgerEvidence` is extended by `ExtractionGateway` and by `Extraction`, which
`ExtractionGateway` instantiates with its own state (`Promise`).

## 3. The transcription model

`SessionStates` holds the enumerations and the transition table.
`TranscribePipeline` is one session: its row, its TRANSCRIBE jobs, the workers,
the API handlers that write those rows, and Speakr.

**State.** `state`, `mediaPath`, `recordingId`, `submitted`, `pendingOp` are
columns of the session row (`"GONE"` once it is deleted); `jobStatus`,
`jobAttempts`, `jobAmbiguous` are the job rows; `tombstone` and `comp` the
deletion tables; `recon` says whether a RECONCILE job is active (`"QUEUED"`
stands for QUEUED and RUNNING). `call` is what Speakr knows of each upload
request; `fate` is a history variable: what became of the id an upload
returned. `wpc`, `wstage`, `wjob`, `wop` are the workers' places in `run_once`.

**Versions.** `current` is the set of actors whose loaded session row is still
the stored one. Loading adds the actor, every committed change of the row
empties the set, and a commit needs `VersionMatches`. This is the version
column without numbers.

**Atomicity.** A worker's `run_once` is cut at every commit, reload and remote
call. `_checkpoint` is two actions (`Check`, `Recheck...`): its second half
looks again at the tombstone only. A load and a commit with no remote call in
between is one action where losing that race only leads to
`_resolve_stale_processing` with the outcome the model reaches anyway.
`upload_media` and `confirm_deletion` are two or three actions, as is an insert
by `ensure_job` that no version protects (`EnsureTranscribeBegins/Commits`).

| Action | Code |
|---|---|
| `Claim`, `Start` | `run_once` up to `_process` |
| `Check`, `RecheckAborts`, `RecheckBegin/Call/Submit/Handover` | `_checkpoint`, by what it leads to |
| `Resume`, `BeginPendingOperation`, `PostUpload`, `UploadReturns`, `UploadRaises`, `RecordUpload`, `Submit`, `HandOver` | the TRANSCRIBE branch of `_process` and `upload_recording` |
| `CompleteJob`, `FailJob`, `FailAmbiguousOperation`, `CancelJob` | the functions of those names |
| `LoseRace`, `ResolveStale` | `StaleDataError`, `_resolve_stale_processing` |
| `EnsureDeletionCompensation`, `RetryDeletionCompensation`, `DeleteRecording(Fails)`, `RecordDeletionCompensation` | orphan compensation |
| `RecoverAbandonedJob` | `recover_abandoned_jobs` |
| `Crash` | the process ends anywhere; a transport error of httpx does this too, as it is no `AdapterError` |
| `UploadMedia...`, `RetryJob`, `CreateJob`, `RefreshTranscribe`, `RequestReconcile`, `EnsureReconcile`, `ApiCancelJob`, `CancelSession`, `ResolveUploadOperation`, `RequestDeletion`, `Confirm...` | API handlers |
| `ProviderAccepts/Refuses`, `Webhook...` | Speakr (external), `_apply_webhook_event` |

**Abstractions.** `last_error`, names and durations are left out; where they
make a row change, the model lets it change. `UPLOADED` and `DELETED` are never
committed by the code and are not values of `state`. An operation id also names
the recording its call creates, and an administrator adopts that recording. The
attempt count saturates at `MaxAttempts`. Two operators in front of a
definition, introduced as "variant with a bug", are the mutations used to show
that a property can fail.

**Bounds.** `Jobs`, `Ops`, `MaxCrashes` and `MaxWebhooks` bound how many rows
are created and how often a process ends or a webhook is delivered; one media
upload is in progress at a time. Two workers, two jobs and two operations are
the least at which a second worker meets the first one's marker and a second
operation follows one that was settled; one crash suffices to leave a marker or
an expired lease behind, and one webhook to change the row under every holder.

## 4. The review model

`ReviewPipeline` is one session from the hand-over on: its row, its RECONCILE,
EXTRACT and SUMMARIZE jobs, the workers, the transcript revisions and ledger
entries, and the requests of users and reviewers.

**State.** `state` and `revision` are columns of the session row, `stored` the
transcript revisions, `entryRev` and `decided` the ledger entries, `summary` the
summary, `jobType`, `jobStatus`, `jobAttempts` the job rows, `transcript` what
Speakr has. `wpc`, `wstage`, `wjob`, `wread` are the workers' places and the
transcript or revision they work on, `rpc` and `rentry` the ledger requests in
progress. `origin` is a history variable: the revision an extracted entry was
found in.

**Versions and copies.** `current` is as in section 3. Here the copy itself
matters too (`row`): ledger entries carry no version, and a transaction that
does not change the session row commits whatever happened to that row, having
decided by its copy. `EnterFrom` is the commit of such a transaction: version
checked only when the state becomes another one.

**Atomicity.** Workers are cut at commits, reloads and remote calls.
`verify_ledger_entry` is three actions: load, flush with the read of the
statuses, commit; `add_ledger_entry` is two. A flushed verification holds the
lock on its entry, so a new revision, which updates the entries of the previous
one, waits for it (`Locked`). Other handlers load and commit at once: losing the
race is a 409 that changes nothing.

| Action | Code |
|---|---|
| `Claim`, `Check`, `Recheck`, `Reload` | `run_once`, `_checkpoint`, `_leased_provider_call` with `_reload_after_remote` |
| `BeginReconcile`, `Poll`, `Polled`, `Fetch`, `Reconcile` | the RECONCILE branch of `_process`, `reconcile_transcript_data` |
| `BeginExtract`, `Inspect`, `Extract`, `Store` | the EXTRACT branch, `create_ledger_entry` with `validate_evidence` |
| `BeginSummarize`, `Summarize`, `StoreSummary` | the SUMMARIZE branch, `_store_summary` |
| `CompleteJob`, `RequeuePending`, `FailJob`, `CancelJob`, `ResolveStale` | the ends of an attempt |
| `Crash`, `RecoverAbandonedJob`, `ScheduleReconciliation` | process end, and the sweeps of `run_once` |
| `CreateJob`, `RetryJob`, `Refresh`, `ApiCancelJob`, `CancelSession`, `RequestDeletion`, `Webhook...` | API handlers |
| `AddLoads/Commits`, `VerifyLoads/Flushes/Commits`, `RequestIsStale` | ledger requests |
| `SpeakrTranscribes`, `SpeakrEdits` | Speakr (external) |

**Abstractions.** A revision is named by its contents, since a session has one
per hash. VERIFIED and REJECTED are one value, as are UNVERIFIED and
NEEDS_REVIEW: no code tells them apart, and a reviewer cannot write the latter
two. Whether an entry's segments and quotation fit its revision is a choice.
There is no time: a scheduled reconciliation may come at any moment. A finished
job row that no worker holds may be reused. The checkpoint after entering
RECONCILING and the one at the start of the next call are one. The
`recording.deleted` webhook is left out, so the session keeps its recording.

**Bounds.** Two workers and two job rows let two jobs of one session run at
once; two revisions and one edit change the transcript under a running
extraction and let it change back in a longer run; two entries make "all
decided" differ from "this one decided". `MaxAttempts = 1` makes the first
failure final where attempts do not matter; `review_live` has 2 and three job
rows, one for each type.

## 5. The gateway model

`LedgerEvidence` defines entries and the two programs that judge them:
`Rejected` and `NormalizeEntry` are `_normalize_entry` of the gateway,
`ValidateEvidence` is `validate_evidence` of the API. A transcript of `n`
segments is `0 .. n-1` and segment `s` lasts from `s` to `s+1`; ids from `n` on
are invented by the model. A text that must rest on evidence is represented by
the segment whose words it uses: it is verbatim, or supported, exactly when that
segment is cited.

`Extraction` is what `/extract` promises: the transcript is shown in windows of
at most `Size` segments such that every run of up to `Overlap + 1` consecutive
segments lies in one; the model answers for the windows in any order; and the
response holds every usable observation of every window exactly once, or is the
error of the first window that has one, or says that an answer was malformed.

`ExtractionGateway` is one request. `split` is the state of `_split_windows`,
`pool` the futures of the thread pool and what `list(pool.map(...))` has
collected, `merge` the state of `_coerce_entries`. Requests share nothing.

| Action | Code |
|---|---|
| `Post`, `Split` | `extract` up to the pool; one iteration of `_split_windows` |
| `StartCall`, `EndCall` | a thread takes a future; `extract_json` returns or raises |
| `Collect`, `CollectRaises`, `Raise` | the results in the order of the windows; the first error cancels what is queued, waits for what runs, and goes out |
| `RefuseAnswer`, `CoerceEntry`, `Answer` | `_coerce_entries`, one entry at a time |

The loops are actions rather than recursive definitions so that what they
compute is an invariant, which can be proved. `ValidateEvidence` is the second
check of an entry, by the evidence API, with the recording's duration, which is
unknown to the gateway: `RefusedOnlyForDuration` says of every duration, or none,
what that check refuses of the gateway's entries. Counts, metadata and logging
are left out.

**Bounds.** With windows of 3 overlapping by 1, up to 8 segments give none to
four windows, with exact and short last ones. The answers hold a moment that two
windows see, quoted by one and paraphrased by the other, the same topic on other
evidence, an invented segment, a range of another revision and one that does not
fit. Two threads and up to four windows leave calls queued when one fails.

## 6. The summary model

`SessionSummary` is a SUMMARIZE job with the loops of `_coerce_consolidation`
and `_coerce_summary`, one action per iteration, beside reviewers and a
transcript that changes. A theme or group is the set of entry ids it cites.

| Action | Code |
|---|---|
| `Flush`, `CommitEdit`, `RollBack` | `add_ledger_entry`, `verify_ledger_entry`: `updated_at` is set at the flush and seen at the commit |
| `ExtractStores`, `NewRevision` | an extraction is stored; `reconcile_transcript_data` replaces the revision and updates its entries |
| `LoadSession` | `_checkpoint` loads the session row with its current revision |
| `ReadLedger`, `NothingToSummarize` | a later statement reads what is committed by then of that revision's entries, and `source_updated_at`; without entries the job is complete |
| `Consolidate`, `GroupItem`, `GroupsEnd`, `Singleton`, `Consolidated` | `/consolidate`; any failure is passed over |
| `Summarize`, `ThemeItem`, `ThemesEnd`, `Fallback`, `Truncate` | `/summarize` |
| `Store`, `Abandon` | `_store_summary`, or the job fails or is cancelled |

`Stale` is what `get_summary` computes. A new revision turns every entry of the
previous one from UNVERIFIED, VERIFIED or REJECTED into NEEDS_REVIEW, which is
an UPDATE of each row and moves `updated_at`; that is why a summary read before it
cannot look fresh after it. `read.now`, `read.open` and `read.seen` are history:
which revision was current when the ledger was read, which entries an open
transaction held, and the time stamps. Every change has a time stamp of its own (`clock`), as microseconds
give in practice. Leases and retries of the job are in `ReviewPipeline`.

**Bounds.** Three entries, two revisions, a cap of two themes (25 in the code)
so that it is reached, three changes of the ledger (one to fill it, one while
the job runs, one new revision), answers that leave out, repeat and invent ids.

## 7. Media staging and retention

`MediaStaging` is `upload_media` for any number of uploads of one session. The
handler is a coroutine of one process, so it is cut at `await media.read` only.
A file is named after the upload that created it, and keeps being written by
that upload wherever its name has gone. `fresh` is the version check, as
`current` in section 3. `MkdirFails` is the request that ends before its `try`,
with UPLOADING committed. `Stop` and `Process` stand for what others do to the
session meanwhile. `confirm_deletion` is two steps, as in the code: `ConfirmUnlinks`
removes the recorded file, and `ConfirmCommits` the row, unless the DELETE is
stale, fails or the process ends (`ConfirmLost`). `overlap` (which uploads were
received at the same time) and `crashed` are history variables. Three uploads are the least at which one that lost the race meets two
others; two suffixes make two destinations.

`RetentionHelper` has one action per system call of `quarantine` and `purge`.
There is one target path, and a file stands for an inode with all below it; some
are symbolic links, which `Open` refuses (but which may take the place of the
target afterwards). Targets that are not below one another share the quarantine
only. A target below another one, whose parent directory is itself moved while
`parent_fd` is held, is not modelled.
`QuarantineEnds` and `PurgeEnds` are a system call that raises or a process that
ends, at any point. `gone`, `erased` and `moved` are history variables. Three
files and a link let the target be replaced several times; two processes of each
kind race with each other.

## 8. Runs

| Run | Instance | Shows |
|---|---|---|
| `transcribe` | 2 workers, 2 jobs, 2 operations, 1 crash, 1 webhook; symmetric; ~600 000 states | the safety properties of transcription, the inductive invariant and the life cycle |
| `transcribe_live` | 1 worker, 1 job, 2 operations, 1 crash, 1 webhook, `FairSpec` | jobs settle, compensations and deletions complete |
| `orphan_recording`, `unresolvable_marker` | 1 worker, 1 job, 1 operation, no crash | documented statements the code does not satisfy |
| `review` | 2 workers, 1 reviewer, 2 jobs, 2 entries, 2 revisions, 1 edit; symmetric; ~1 000 000 states | the inductive invariant and the safety properties of review |
| `review_requests` | 2 workers, 1 entry, all requests but the ledger's; ~900 000 states | the stops hold and the life cycle is kept through any sequence of requests |
| `review_live` | 1 worker, 3 jobs, 2 attempts, 1 crash, `FairSpec`; ~130 000 states | a session in processing has its job, and comes to review or fails |
| `unreviewed_complete` | 2 reviewers | a documented statement the code does not satisfy |
| `gateway` | section 5; ~26 000 states | the gateway implements `Extraction`; every request is answered |
| `summary` | section 6; ~850 000 states | no entry is lost but by the cap; fresh means unchanged since it was read; the job ends |
| `staging` | section 7; ~36 000 states | which file a recorded session has, and that it keeps it until deletion |
| `retention` | section 7; ~1 700 000 states | quarantine keeps, the log is true |

Transcription: `OutcomeAccounted` (no upload is forgotten), `NoBlindRetry` (no
upload begins while an earlier one is unsettled), `DeletionsReachSpeakr` (a
deleted session leaves no linked recording in Speakr, and a compensation is
recorded as done only when it is), `DeletionIsFinal`, `CancelledStaysCancelled`,
`ImplementsLifecycle` (committed states follow the state table),
`AmbiguousVerdictKept` (the verdict that resolution needs is not overwritten),
`NotStranded` (a session in TRANSCRIBING or RETRY_PENDING has an active job, a
queued reconciliation, or a request that is about to insert a job; stated as
long as nothing was cancelled: no webhook yet, no CANCELLED job, no tombstone,
because each of these takes a job away and may leave the state, section 9). The
run honours leases, which `AmbiguousVerdictKept` and `NotStranded` need; that the
others hold for a stalled worker that loses its lease and goes on is proved
(section 10). `TypeOK` is a conjunct of `IInv`, here and in the review runs.

Review: `ExtractedFromOwnRevision` (entries are filed under the revision they
were extracted from, although that may change while the gateway works),
`StopsHold` (no job, sweep, webhook or reviewer undoes a cancellation or a
deletion request), `NewRevisionReopensReview` (a new revision never finds or
leaves the session COMPLETE, has an empty ledger, and no decision on the
previous ledger survives that step, with verifications in flight),
`ImplementsLifecycle`, and `ProcessingHasJob` (a session in TRANSCRIBING,
RECONCILING, EXTRACTING or RETRY_PENDING has the active job that moves it on).
All but the last are proved for ignored leases and with reviewers and requests
together, of which there is no run. `ProcessingHasJob` is not true with two
workers, nor with a refresh, a retried or cancelled job or a failed webhook
(section 9); `review_live` checks it with one worker and no requests, and it is
proved with all other requests.

Gateway: `MomentsSeenWhole`, `RefusedOnlyForDuration` (of the entries that the
gateway keeps, the evidence API refuses exactly those that cite a segment beyond
the recorded duration; the two programs agree on everything else, and the
duration can make them disagree, section 9), `NoCallOutlivesRequest` (also on the
error path), `ImplementsPromise` (the refinement), `RequestAnswered`.

Summary: `GroupsPartition` (consolidation puts every entry into one group),
`ThemesTraceable` (each stored theme cites at least one entry, only entries that
were read, and none twice), `LeftOutOnlyByCap`, `FreshSinceRead` (a summary shown
as fresh is of all entries of its revision; an entry that no transaction had open
when the job read it is as it was read; and a revision that was current then is
current still), `SummaryEnds`. `FreshSinceRead` stops where the code does: both
exemptions in it are reached in the run, and section 9 says what happens there.

Staging: `RecordedHasFile` (the file that a row names is the complete one of its
digest, or that of an upload received at the same time, or was removed by a
`confirm_deletion` that has not removed the row), `RecordedFileKept` (nothing but
`confirm_deletion` takes a recorded file away or puts another in its place, also
not the overlapping upload that ends later), `StagingCleared`, `StoredIsFinal`.

Retention: `MovedIsKept` (a quarantined file goes only after a purge announced
its bucket), `RequestedIsChecked` (DELETE_REQUESTED is of the file that was
checked), `PurgedIsGone`.

Deadlock is not checked where a system really stops: a deleted session, one
whose bounds are used up, a request that was answered, processes that ended.

**Fairness.** `transcribe_live`: worker processes are restarted and loop for
ever (weak fairness of a worker's step); Speakr answers requests; a deletion
asked of Speakr again and again succeeds in the end (strong fairness, the code
repeats it with a capped back-off); the administrator repeats a confirmation
that answered 202, as the message asks. Users owe nothing else.
`review_live`: the worker loops for ever; it takes the oldest available job, so a
queued job is not passed over for ever (strong fairness of claiming it); the
sweeps run in every loop; Speakr ends a transcription. Calls owe nothing: they
may fail every time, and attempts then run out. The run has one worker, as the
deployment has; with two, a summary that fails beside another job can leave the
session in RETRY_PENDING (section 9).
`gateway`, `summary`: the handler, its threads and the worker run, and a call
ends because the client has a timeout. What it ends with is free.

## 9. Findings and observations

Findings, each with a run:

* `orphan_recording`: a deletion request between the reload after an upload and
  the commit that records it makes the commit stale; the id is dropped without
  a compensation row, and the recording stays in Speakr.
* `unresolvable_marker`: a cancellation after the marker was committed leaves
  one that no FAILED job names; resolve, retry, create and refresh all refuse.
* `unreviewed_complete`: adding an entry to a session that awaits review does
  not touch the session row; a verification that read the statuses before that
  still completes the session, with an entry nobody reviewed.

Observations, met while modelling. The models do what the code does here, and no
property says otherwise:

* compensating a merely cancelled upload writes a deletion tombstone, and every
  later attempt of that session is cancelled; models.py:237 says a tombstone
  "Marks that deletion of a session has been requested.";
* a transcript edited back to an earlier text is found as an old revision and
  does not become the current one (services.py:170-189);
* a summary that fails while a refresh is processed moves the session to
  RETRY_PENDING or FAILED, although worker.py:590-591 says it "deliberately
  leaves session state alone";
* two overlapping uploads can leave the digest of one with the file of the
  other, and a file that was moved for a stale commit survives the deletion of
  its session;
* `confirm_deletion` removes the file first: when its DELETE is stale or the
  process ends, a DELETE_PENDING row names a file that is gone, until deletion is
  confirmed again;
* a media directory that cannot be made (app.py:290, before the `try`) leaves the
  session UPLOADING with no upload under way;
* nothing keeps the ends of transcript segments within `duration_ms`: an
  extraction with one entry that cites a segment beyond it is refused as a whole
  (services.py:252-256), and so is every later attempt that finds that moment;
* the cap of 25 themes cuts the fallback themes first, so entries that the model
  omitted can be dropped by it;
* contracts/models.py:209-213 says of `stale` "True when ledger entries changed
  after this summary was generated". A verification flushed before the summary job
  reads and committed after it is not noticed if another entry has a later time
  stamp (a verification does not enter a summary). And a new revision committed
  between the load of the session row (worker.py:638) and the read of its ledger
  (worker.py:484-493) is not noticed either: `source_updated_at` is then that of
  the revision's own NEEDS_REVIEW, and the summary of the replaced revision is
  shown as fresh;
* two workers that store the same new transcript violate
  `uq_transcript_revision_hash`; the IntegrityError is caught nowhere, so it ends
  the worker process, which the model has as `Crash`;
* a stalled worker may send an upload after its operation was declared "not
  created"; a CANCELLED job may become FAILED between the halves of a
  checkpoint; a session may be deleted under an upload whose job was cancelled
  (the worker compensates);
* a session with requests does not always leave RECONCILING or RETRY_PENDING: a
  refresh that finds a RECONCILE job about to succeed, a cancelled RECONCILE job
  and a retried SUMMARIZE job of a FAILED session each strand it until the next
  refresh;
* in both pipelines `recording.transcription.failed` cancels the jobs of a session
  that is not TRANSCRIBING at that moment (RETRY_PENDING, RECONCILING,
  EXTRACTING) and leaves its state; in the transcription pipeline, cancelling one of two active jobs and the tombstone of a
  compensation can do the same to TRANSCRIBING or RETRY_PENDING;
* an administrator may adopt a recording for which a compensation is pending
  (`resolve_upload_operation`, app.py:508, looks neither at the tombstone nor at
  the compensations); the compensation then deletes the linked recording;
* an entry can be decided just after a new revision made it historical, and two
  reviewers who decide the last two entries at once leave the session
  AWAITING_REVIEW;
* a quarantine that ends between its rename and its record leaves a file whose
  DELETE_REQUESTED was never written; a purge erases every bucket it lists, those
  made after an administrator looked at the list included.

## 10. Proofs

`TranscribeProofs` proves, for all finite or infinite sets of workers, jobs and
operations and all bounds, `Spec => []IInv`. `IInv` is `RowInv`, which holds
with or without honoured leases, and `LeasesHonoured => LeaseInv`. From `RowInv`
follow `TypeOK`, `OutcomeAccounted`, `DeletionsReachSpeakr`, `NoBlindRetry`,
`DeletionIsFinal`, `CancelledStaysCancelled` and `ImplementsLifecycle`; under the
hypothesis `LeasesHonoured` also `NotStranded` and `AmbiguousVerdictKept`.
Assumed of the constants: `None` is neither a job nor an operation, the two API
handlers' names are not workers, `MaxAttempts` is positive.

`OutcomeAccounted` is not inductive: clearing a marker is harmless only because
the one who clears it owns it. `RowInv` adds

* `MarkerSurvives`: the property already holds when the marker is committed,
  before the request is sent;
* `LoadedCopies`: what a copy of the row that is still current tells its holder
  (no marker before one is set, the own marker before it is cleared, the state
  that justified a transition); this is where the version check enters;
* `SectionOwned`: while a worker's job is active the marker of its upload is
  its own, and no two workers share an operation; `resolve_upload_operation`
  preserves it because it refuses while a job is active;
* `RowsConsistent` and `LinkedOrDeleted`: rows, ids and compensations refer to
  drawn operations; a linked recording stays linked until it is deleted.

`LeaseInv` is about jobs in hand:

* `JobsHeldOnce`: a job is held by one worker at most, and is RUNNING there unless
  it was cancelled or deleted; so nothing that a worker does at the end of its
  attempt hits a job that somebody else was given;
* `RecordingKept`: a worker past its upload left a recording id on the row, until
  a webhook takes it off;
* `NotStarted`: before the media is committed there is no job;
* `SessionCarried`: `NotStranded` with a job that is not yet about to complete.
  Without this difference it is not inductive: a job about to become SUCCEEDED
  still counts as active.

`SessionImplementsLifecycle` maps every action to a step of `SessionLifecycle` or
to a stutter. Where a worker commits a state, the table admits it from the state
of its copy, and `LoadedCopies` says that a copy which passes the version check
has the stored state.

The preservation lemmas go actor by actor, one step per action.

`ReviewProofs` proves, for all sets of workers, reviewers, jobs, entries and
revisions, all bounds, all sets of requests, and with or without honoured
leases: `Spec => []IInv`, and from it `TypeOK`, `ExtractedFromOwnRevision`,
`StopsHold` and `NewRevisionReopensReview`. Assumed (`ReviewSets`,
`ReviewBounds`): `None` is no job, entry or revision, workers are not reviewers,
`MaxAttempts` is positive. `StopsHold` needs to know that a commit that passes
the version check was decided on the stored row, and `NewRevisionReopensReview`
that a revision which is not stored has no entries; `IInv` adds

* `LoadedRows`: the copy of an actor in `current` is the stored row;
* `DecidedOnRow`: what a ledger request is about to commit was allowed in the
  state of its copy;
* `RevisionsStored`: the current revision, the ones in copies and those of
  entries are stored, and COMPLETE implies that there is one.

One lemma per family of actions shows that each conjunct is preserved; the
action properties have a lemma per action that can change `state` or `revision`.
`SessionImplementsLifecycle` is proved as for transcription, from `LoadedRows` and
`DecidedOnRow`.

`ProcessingAttended` proves `ProcessingHasJob` from three hypotheses: there is one
worker (as in the deployment), leases are honoured, and nobody retries or cancels
a single job, refreshes the session or reports a failed transcription. Jobs may
be created, the session cancelled or deleted, entries added and verified,
transcriptions reported complete; reviewers, jobs, entries, revisions, attempts,
crashes and edits are arbitrary. Each hypothesis is needed: section 9 names what
goes wrong with a second worker and with each of the four requests, and a worker
that loses its lease cancels its own job. `ProcessingHasJob` is not inductive; in
`SoleInv`, a session that was not stopped satisfies

* `Attended`: `ProcessingHasJob`, counting only jobs that are not about to become
  SUCCEEDED;
* `AtWork`: the worker's job is RUNNING and of the type it works on; past its
  start a RECONCILE job has taken the session out of TRANSCRIBING and
  RETRY_PENDING, where nobody else puts it; and if the copy it decides on is old,
  the session has not meanwhile entered a state that only this job can leave.

`GatewayProofs` proves, for every transcript length, every size, overlap and
concurrency that `validate_settings` admits, and any sets of answers and errors:
`Spec => []IInv`, from it `TypeOK`, `MomentsSeenWhole`, `RefusedOnlyForDuration`
and `NoCallOutlivesRequest`, and `Spec => Promise!Spec`: the initial state maps to
an initial state, and every action to one of `Extraction` or to a stutter.
Assumed: answers are sequences of well-formed entries or `Invalid`, errors are
not answers, and `None` is neither of them nor a response. `IInv` says of each
loop what it has done so far: `SplitInv` (every moment that begins before
`start` is in a window; the step is at most the size minus the overlap), `PoolInv`
(what a future holds, and that the results are those of the first windows),
`MergeInv` (the entries so far are the usable ones merged so far, once each).
That a non-empty finite set of segments has a least and a greatest element
comes from the well-foundedness of `<` on the naturals.

`StagingProofs` proves, for any uploads, suffixes and number of chunks, `Spec =>
[]IInv`, `TypeOK`, `RecordedHasFile`, `StagingCleared`, `RecordedFileKept` and
`StoredIsFinal`. `IInv` adds that only receiving uploads are `fresh`, that uploads
received at the same time know of each other and the staging file is of one of
them, that only a session whose deletion is pending or done was being confirmed,
and that a recorded session has no staging file and is never UPLOADING again. The
last one rests on the transition table, and is why an upload that ends after the
recorded one finds nothing to move.

`RetentionProofs` proves, for any files and processes, `TypeOK`, `MovedIsKept`,
`RequestedIsChecked` and `PurgedIsGone`. Its `IInv` adds `NamedOnceMade` (a
bucket is listed or logged only once it has existed, so a purged one is not made
anew), `QuarantineInv` (how far a quarantine has come says what it has moved and
recorded) and `PurgeInv` (a purge removes what it has announced and has removed
what it is done with).

`SummaryProofs` proves, for any finite set of entries, any reviewers, answers,
cap and bounds, `TypeOK`, `GroupsPartition`, `ThemesTraceable`,
`LeftOutOnlyByCap` and `FreshSinceRead`. Assumed: entry ids are numbers,
of which there are finitely many, and the cap is positive. Its `IInv` adds

* `LoopInv`: the groups, or themes, so far are disjoint and not empty, and
  `claimed` is exactly what they cite; in the fallback loop `claimed` and `rest`
  together are everything that consolidation returned;
* `EditsApart`: open transactions hold different rows, of the revision they
  loaded, with time stamps of the past;
* `SnapshotsKept`: of the ledger the job has read, and of the one a stored summary
  was made from, no row is ever lost; a row that nobody had open then is as it was
  or has a time stamp later than `source_updated_at`, and so will every open
  change of it have; and once a revision that was current at the read is replaced,
  every row has, and keeps, such a time stamp. This rests on `NewRevision`
  updating every row and waiting for the open transactions on them.

That a fresh summary is of all entries then follows from the counts: a subset of
a finite set that has its cardinality is the set.

The invariants of the last four modules were model-checked on the instances of
their runs before they were proved; the runs list the properties that follow from
them.

Only model-checked: the six liveness properties `CompensationCompletes`,
`DeletionCompletes`, `JobsSettle`, `ProcessingEnds`, `RequestAnswered` and
`SummaryEnds`, since fairness is outside the prover's reach here. Every invariant
and action property that a passing run checks is also a theorem.

## 11. Not modelled

* Web application and client: planned (section 2).
* Schema migrations: introspection and DDL at start-up, whose concurrency is
  decided by the locks of the database.
* Authentication and webhook signatures: functions of one request.
* Evaluation scripts (offline statistics) and deployment (declarative).
* Within the modelled parts: EXPLICIT submission, the raw UPDATE after three lost
  races, prompts and JSON schemas, normalisation of transcript segments, retention
  targets below one another.
