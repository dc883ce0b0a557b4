------------------------- MODULE TranscribeProofs -------------------------
(***************************************************************************)
(* The safety properties of TranscribePipeline for any sets of workers,    *)
(* jobs and operations and any attempt limit.  RowInv, about the session   *)
(* row and the loaded copies of it, is an invariant whether or not leases  *)
(* are honoured; LeaseInv, about who holds which job, only where they are. *)
(* Each lemma treats the actions of one kind of actor, one step per action.*)
(* The last part shows that the pipeline implements SessionLifecycle.      *)
(***************************************************************************)
EXTENDS TranscribePipeline, TLAPS

(* The steps of a worker.  The version check makes the decisions taken on  *)
(* a loaded row (LoadedCopies) still true when the row is committed.       *)
LEMMA WorkerStepKeepsRowInv ==
  ASSUME NEW w \in Workers, RowInv, WorkerStep(w)
  PROVE  RowInv'
<1> USE SetsAssumption, BoundsAssumption
      DEF RowInv, TypeOK, WorkerShape, MarkerSurvives, LoadedCopies,
          SectionOwned, RowsConsistent, LinkedOrDeleted, Accounted,
          UploadSection, UploadPc, State, Call, Sent, Stage, LoadedPc, Pc,
          JobStatus, TerminalStatus, IsActive
<1>1. CASE Claim(w)
  BY <1>1 DEF Claim, NoCompensationDue, SetStatus, Goto, session, deletion,
      api, budgets
<1>2. CASE Start(w)
  <2> USE <1>2 DEF Start, DeletionRequested, CancelRow, Finish, Checkpoint,
        session, deletion, api, budgets, Goto
  <2>1. CASE Checkpoint(w, "begin") /\ UNCHANGED <<jobStatus, wjob, wop>>
    BY <2>1
  <2>2. CASE CancelRow(wjob[w]) /\ Finish(w)
    BY <2>2
  <2>3. QED
    BY <2>1, <2>2
<1>3. CASE Check(w)
  BY <1>3 DEF Check, Cancelled, Goto, session, jobRows, deletion, api,
      budgets, DeletionRequested
<1>4. CASE RecheckAborts(w)
  BY <1>4 DEF RecheckAborts, DeletionRequested, Goto, session, jobRows,
      deletion, api, budgets
<1>5. CASE RecheckBegin(w)
  BY <1>5 DEF RecheckBegin, Rechecked, Goto, ChooseUpload, jobRows, deletion,
      api, budgets, DeletionRequested, Checkpoint
<1>6. CASE Resume(w)
  BY <1>6 DEF Resume, VersionMatches, CanTransition, ChooseUpload, jobRows,
      deletion, api, budgets, Checkpoint, Goto
<1>7. CASE BeginPendingOperation(w)
  <2> USE DEF BeginPendingOperation, VersionMatches, SaveSession,
        Checkpoint, jobRows, deletion, api, budgets
  <2>1. PICK o \in Ops : /\ call[o] = "unused"
                        /\ call' = [call EXCEPT ![o] = "begun"]
                        /\ pendingOp' = o
                        /\ wop' = [wop EXCEPT ![w] = o]
    BY <1>7
  <2>2. pendingOp = None /\ recordingId = None /\ state # "GONE"
    BY <1>7
  <2>3. TypeOK' /\ LoadedCopies' /\ LinkedOrDeleted'
    BY <1>7, <2>1
  <2>4. MarkerSurvives'   \* no operation is left behind: none was pending
    BY <1>7, <2>1, <2>2
  <2>5. SectionOwned'     \* the id is new, so no other worker holds it
    BY <1>7, <2>1, <2>2
  <2>6. RowsConsistent'
    BY <1>7, <2>1, <2>2
  <2>7. QED
    BY <2>3, <2>4, <2>5, <2>6
<1>8. CASE FailAmbiguousOperation(w)
  BY <1>8 DEF FailAmbiguousOperation, VersionMatches, FailAmbiguous, Finish,
      deletion, api, budgets, SetStatus, SaveSession, Goto
<1>9. CASE RecheckCall(w)
  BY <1>9 DEF RecheckCall, Rechecked, Goto, session, jobRows, deletion, api,
      budgets, DeletionRequested
<1>10. CASE PostUpload(w)
  BY <1>10 DEF PostUpload, session, jobRows, deletion, worker, api, budgets
<1>11. CASE UploadReturns(w)
  BY <1>11 DEF UploadReturns, Cancelled, Goto, jobRows, deletion, api,
      budgets, DeletionRequested
<1>12. CASE UploadRaises(w)
  BY <1>12 DEF UploadRaises, Goto, session, jobRows, deletion, api, budgets
<1>13. CASE RecordUpload(w)
  <2> USE DEF RecordUpload, VersionMatches, SaveSession, Checkpoint, jobRows,
        deletion, api, budgets
  <2>1. pendingOp = wop[w] /\ recordingId = None /\ wop[w] \in Ops
    BY <1>13
  <2>2. TypeOK' /\ LoadedCopies'
    BY <1>13, <2>1
  <2>3. MarkerSurvives'   \* the marker that is cleared is w's own
    BY <1>13, <2>1
  <2>4. SectionOwned'     \* and so no other worker relies on it
    BY <1>13, <2>1
  <2>5. RowsConsistent' /\ LinkedOrDeleted'
    BY <1>13, <2>1
  <2>6. QED
    BY <2>2, <2>3, <2>4, <2>5
<1>14. CASE RecheckSubmit(w)
  BY SMTT(40), <1>14
    DEF RecheckSubmit, Rechecked, Checkpoint, Goto, jobRows, deletion,
      api, budgets, DeletionRequested
<1>15. CASE Submit(w)
  BY <1>15 DEF Submit, VersionMatches, SaveSession, Checkpoint, jobRows,
      deletion, api, budgets
<1>16. CASE RecheckHandover(w)
  BY <1>16 DEF RecheckHandover, Rechecked, Goto, session, jobRows, deletion,
      api, budgets, DeletionRequested
<1>17. CASE HandOver(w)
  BY <1>17, SMTT(60) DEF HandOver, Goto, Finish, session, jobRows, deletion,
      api, budgets
<1>18. CASE CompleteJob(w)
  BY <1>18 DEF CompleteJob, Cancelled, CancelRow, SetStatus, Finish, deletion,
      api, budgets, DeletionRequested, Goto
<1>19. CASE FailJob(w)
  BY <1>19 DEF FailJob, Cancelled, CancelRow, RetryOrFail, MayRetry, Finish,
      deletion, api, budgets, DeletionRequested, SetStatus, TransitionIf,
      SaveSession, Goto, Transition, CanTransition
<1>20. CASE LoseRace(w)
  BY <1>20 DEF LoseRace, VersionMatches, Goto, session, jobRows, deletion,
      api, budgets
<1>21. CASE ResolveStale(w)
  BY <1>21, SMTT(60) DEF ResolveStale, Cancelled, SetStatus, FailAmbiguous,
      RetryOrFail, MayRetry, Finish, deletion, api, budgets, DeletionRequested,
      SaveSession, TransitionIf, Goto, Transition, CanTransition
<1>22. CASE CancelJob(w)
  BY <1>22 DEF CancelJob, CancelRow, Finish, session, deletion, api, budgets,
      Goto
<1>23. CASE EnsureDeletionCompensation(w)
  BY <1>23 DEF EnsureDeletionCompensation, Goto, session, jobRows, api,
      budgets
<1>24. CASE RetryDeletionCompensation(w)
  BY <1>24 DEF RetryDeletionCompensation, Goto, session, jobRows, api, budgets
<1>25. CASE DeleteRecording(w)
  BY <1>25 DEF DeleteRecording, Goto, session, jobRows, deletion, api, budgets
<1>26. CASE DeleteRecordingFails(w)
  BY <1>26, SMTT(60) DEF DeleteRecordingFails, EndCompensation, session,
      jobRows, api, budgets, Finish, Goto
<1>27. CASE RecordDeletionCompensation(w)
  BY <1>27, SMTT(60) DEF RecordDeletionCompensation, EndCompensation, session,
      jobRows, api, budgets, Finish, Goto
<1>28. CASE RecoverAbandonedJob(w)
  BY <1>28 DEF RecoverAbandonedJob, NoCompensationDue, LeaseExpired,
      RecoverRow, deletion, worker, api, budgets, FailAmbiguous, SetStatus,
      SaveSession
<1> HIDE DEF RowInv
<1>29. QED
  BY <1>1, <1>2, <1>3, <1>4, <1>5, <1>6, <1>7, <1>8, <1>9, <1>10,
      <1>11, <1>12, <1>13, <1>14, <1>15, <1>16, <1>17, <1>18, <1>19, <1>20,
      <1>21, <1>22, <1>23, <1>24, <1>25, <1>26, <1>27, <1>28 DEF WorkerStep

(* A crash loses what the worker holds, and nothing that is committed.     *)
LEMMA CrashKeepsRowInv ==
  ASSUME NEW w \in Workers, RowInv, Crash(w)
  PROVE  RowInv'
<1> USE SetsAssumption, BoundsAssumption
      DEF RowInv, TypeOK, WorkerShape, MarkerSurvives, LoadedCopies,
          SectionOwned, RowsConsistent, LinkedOrDeleted, Accounted,
          UploadSection, UploadPc, State, Call, Sent, Stage, LoadedPc, Pc,
          JobStatus, TerminalStatus, IsActive
<1> QED
  BY DEF Crash, Finish, jobRows, deletion, api, Goto

(* Requests.  Only resolve_upload_operation clears a marker, and only      *)
(* while no TRANSCRIBE job is active.                                      *)
LEMMA UserStepKeepsRowInv ==
  ASSUME RowInv, UserStep
  PROVE  RowInv'
<1> USE SetsAssumption, BoundsAssumption
      DEF RowInv, TypeOK, WorkerShape, MarkerSurvives, LoadedCopies,
          SectionOwned, RowsConsistent, LinkedOrDeleted, Accounted,
          UploadSection, UploadPc, State, Call, Sent, Stage, LoadedPc, Pc,
          JobStatus, TerminalStatus, IsActive
<1>1. CASE UploadMediaBegins
  BY <1>1 DEF UploadMediaBegins, CanTransition, jobRows, deletion, worker,
      budgets
<1>2. CASE EnsureTranscribeBegins
  BY <1>2 DEF EnsureTranscribeBegins, ActiveJob, session, jobRows, deletion,
      worker, budgets
<1>3. ASSUME NEW j \in Jobs, RetryJob(j) PROVE RowInv'
  BY <1>3 DEF RetryJob, CanTransition, SaveSession, NewJob, deletion, worker,
      api, budgets, SetStatus
<1>4. CASE CreateJob
  BY <1>4 DEF CreateJob, ActiveJob, Transition, NewJob, deletion, worker, api,
      budgets, CanTransition, SaveSession, SetStatus
<1>5. CASE RefreshTranscribe
  BY <1>5 DEF RefreshTranscribe, Transition, EnsureTranscribe, deletion,
      worker, api, budgets, CanTransition, SaveSession, ActiveJob, jobRows,
      NewJob, SetStatus
<1>6. CASE RequestReconcile
  BY <1>6 DEF RequestReconcile, CanTransition, SaveSession, jobRows, deletion,
      worker, api, budgets
<1>7. CASE EnsureReconcile
  BY <1>7 DEF EnsureReconcile, session, jobRows, deletion, worker, api,
      budgets
<1>8. CASE ApiCancelJob
  BY <1>8 DEF ApiCancelJob, SetStatus, CancelSessionIfRunning, deletion,
      worker, api, budgets, TransitionIf, Transition, CanTransition,
      SaveSession
<1>9. CASE CancelSession
  BY <1>9 DEF CancelSession, Transition, CancelAll, deletion, worker, api,
      budgets, CanTransition, SaveSession
<1>10. CASE RequestDeletion
  BY <1>10 DEF RequestDeletion, CancelAll, TransitionIf, worker, api, budgets,
      Transition, CanTransition, SaveSession
<1>11. ASSUME NEW r \in {"adopt_existing", "not_created"}, ResolveUploadOperation(r) PROVE RowInv'
  BY <1>11 DEF ResolveUploadOperation, Resolvable, SaveSession, jobRows,
      deletion, worker, api, budgets, ActiveJob
<1> HIDE DEF RowInv
<1>12. QED
  BY <1>1, <1>2, <1>3, <1>4, <1>5, <1>6, <1>7, <1>8, <1>9, <1>10,
      <1>11 DEF UserStep

(* The second halves of upload_media, of the inserts, and of               *)
(* confirm_deletion.                                                       *)
LEMMA ApiStepKeepsRowInv ==
  ASSUME RowInv, ApiStep
  PROVE  RowInv'
<1> USE SetsAssumption, BoundsAssumption
      DEF RowInv, TypeOK, WorkerShape, MarkerSurvives, LoadedCopies,
          SectionOwned, RowsConsistent, LinkedOrDeleted, Accounted,
          UploadSection, UploadPc, State, Call, Sent, Stage, LoadedPc, Pc,
          JobStatus, TerminalStatus, IsActive
<1>1. CASE UploadMediaCommits
  BY <1>1 DEF UploadMediaCommits, VersionMatches, CanTransition, SaveSession,
      EnsureTranscribe, deletion, worker, budgets, ActiveJob, jobRows, NewJob,
      SetStatus
<1>2. CASE UploadMediaFails
  BY <1>2 DEF UploadMediaFails, VersionMatches, SaveSession, jobRows,
      deletion, worker, budgets
<1>3. CASE UploadMediaLost
  BY <1>3 DEF UploadMediaLost, VersionMatches, jobRows, deletion, worker
<1>4. CASE EnsureTranscribeCommits
  BY <1>4 DEF EnsureTranscribeCommits, jobRows, NewJob, session, deletion,
      worker, budgets, SetStatus
<1>5. CASE ConfirmDeletionBegins
  BY <1>5 DEF ConfirmDeletionBegins, DeletionMustWait, jobRows, deletion,
      worker, budgets, LeaseExpired
<1>6. CASE ConfirmRemoteDeletes
  BY <1>6 DEF ConfirmRemoteDeletes, session, jobRows, deletion, worker,
      budgets
<1>7. CASE ConfirmRemoteFails
  BY <1>7 DEF ConfirmRemoteFails, VersionMatches, jobRows, deletion, worker,
      budgets
<1>8. CASE ConfirmDeletionCommits
  <2> USE <1>8 DEF ConfirmDeletionCommits, VersionMatches, SaveSession,
        deletion, worker, budgets
  <2>1. TypeOK'
    <3>1. jobAttempts' \in [Jobs -> 0 .. MaxAttempts]
      OBVIOUS
    <3>2. /\ jobStatus' \in [Jobs -> JobStatus \cup {"FREE"}]
          /\ jobAmbiguous' \in [Jobs -> Ops \cup {None}]
          /\ submitted' \in BOOLEAN
      OBVIOUS
    <3>3. WorkerShape'
      OBVIOUS
    <3>4. QED
      BY <3>1, <3>2, <3>3
  <2>2. MarkerSurvives' /\ LoadedCopies'
    OBVIOUS
  <2>3. SectionOwned'     \* no job is active any more
    OBVIOUS
  <2>4. RowsConsistent'
    OBVIOUS
  <2>5. LinkedOrDeleted'  \* the linked recording is the one just deleted
    OBVIOUS
  <2>6. QED
    BY <2>5, <2>1, <2>2, <2>3, <2>4
<1>9. CASE ConfirmDeletionLost
  BY <1>9 DEF ConfirmDeletionLost, VersionMatches, jobRows, deletion, worker
<1>10. QED
  BY <1>1, <1>2, <1>3, <1>4, <1>5, <1>6, <1>7, <1>8, <1>9 DEF ApiStep

(* Speakr's answers and webhooks.                                          *)
LEMMA ProviderStepKeepsRowInv ==
  ASSUME RowInv, ProviderStep
  PROVE  RowInv'
<1> USE SetsAssumption, BoundsAssumption
      DEF RowInv, TypeOK, WorkerShape, MarkerSurvives, LoadedCopies,
          SectionOwned, RowsConsistent, LinkedOrDeleted, Accounted,
          UploadSection, UploadPc, State, Call, Sent, Stage, LoadedPc, Pc,
          JobStatus, TerminalStatus, IsActive
<1>1. ASSUME NEW o \in Ops, ProviderAccepts(o) PROVE RowInv'
  BY <1>1 DEF ProviderAccepts, session, jobRows, deletion, worker, api,
      budgets
<1>2. ASSUME NEW o \in Ops, ProviderRefuses(o) PROVE RowInv'
  BY <1>2 DEF ProviderRefuses, session, jobRows, deletion, worker, api,
      budgets
<1>3. CASE WebhookCompleted
  BY <1>3 DEF WebhookCompleted, Webhook, deletion, worker, api
<1>4. CASE WebhookFailed
  BY <1>4 DEF WebhookFailed, Webhook, SaveSession, CancelAll, deletion,
      worker, api
<1>5. CASE WebhookDeleted
  BY <1>5 DEF WebhookDeleted, Webhook, SaveSession, deletion, worker, api
<1>6. QED
  BY <1>1, <1>2, <1>3, <1>4, <1>5 DEF ProviderStep

(* The session row as create_session leaves it satisfies the invariant.    *)
LEMMA InitRowInv == Init => RowInv
<1> SUFFICES ASSUME Init
             PROVE  RowInv
  OBVIOUS
<1> USE SetsAssumption, BoundsAssumption DEF Init
<1>1. submitted \in BOOLEAN /\ tombstone \in BOOLEAN
  OBVIOUS
<1>2. WorkerShape
  BY DEF WorkerShape, UploadPc, LoadedPc
<1>3. TypeOK
  BY <1>1, <1>2
    DEF TypeOK, State, Call, Stage, Pc, LoadedPc, JobStatus
<1>4. MarkerSurvives /\ LoadedCopies /\ RowsConsistent /\ LinkedOrDeleted
  BY DEF MarkerSurvives, LoadedCopies, RowsConsistent, LinkedOrDeleted
<1>5. SectionOwned
  BY DEF SectionOwned, UploadSection
<1>6. QED
  BY <1>3, <1>4, <1>5 DEF RowInv

(* Every step of the system preserves the invariant.                       *)
LEMMA NextKeepsRowInv == RowInv /\ [Next]_vars => RowInv'
<1> SUFFICES ASSUME RowInv, [Next]_vars
             PROVE  RowInv'
  OBVIOUS
<1>1. ASSUME NEW w \in Workers, WorkerStep(w) PROVE RowInv'
  BY <1>1, WorkerStepKeepsRowInv
<1>2. ASSUME NEW w \in Workers, Crash(w) PROVE RowInv'
  BY <1>2, CrashKeepsRowInv
<1>3. CASE UserStep
  BY <1>3, UserStepKeepsRowInv
<1>4. CASE ApiStep
  BY <1>4, ApiStepKeepsRowInv
<1>5. CASE ProviderStep
  BY <1>5, ProviderStepKeepsRowInv
<1>stutter. CASE UNCHANGED vars
  BY <1>stutter
    DEF RowInv, TypeOK, WorkerShape, MarkerSurvives, LoadedCopies, SectionOwned,
        RowsConsistent, LinkedOrDeleted, Accounted, UploadSection, UploadPc,
        State, Call, Sent, Stage, LoadedPc, Pc, JobStatus, TerminalStatus,
        IsActive, vars, session, jobRows, worker, deletion, api, budgets
<1>7. QED
  BY <1>1, <1>2, <1>3, <1>4, <1>5, <1>stutter DEF Next

(* The inductive invariant holds in every reachable state.                 *)
THEOREM RowInvariance == Spec => []RowInv
BY InitRowInv, NextKeepsRowInv, PTL DEF Spec

(* With leases honoured: the steps of a worker keep every job in one       *)
(* worker's hands, and end a job only when the session has another mover.  *)
LEMMA WorkerStepKeepsLeaseInv ==
  ASSUME LeasesHonoured, NEW w \in Workers, RowInv, LeaseInv, WorkerStep(w)
  PROVE  LeaseInv'
<1> USE SetsAssumption, BoundsAssumption
      DEF LeaseInv, JobsHeldOnce, RecordingKept, PastUpload, NotStarted,
          SessionCarried, Carries, NothingCancelled, DeletionRequested, IsActive
<1>0. /\ TypeOK /\ WorkerShape
      /\ \A v \in Workers :
           wjob[v] # None /\ jobStatus[wjob[v]] = "FREE" => state = "GONE"
  BY DEF RowInv, TypeOK, RowsConsistent
<1> USE <1>0
      DEF TypeOK, WorkerShape, UploadPc, State, Stage, LoadedPc, Pc,
          JobStatus
<1>1. CASE Claim(w)
  BY <1>1 DEF Claim, SetStatus, Goto, session, deletion, api, budgets
<1>2. CASE Start(w)
  <2> USE <1>2 DEF Start, CancelRow, Finish, Checkpoint, session, deletion,
        api, budgets, Goto
  <2>1. CASE Checkpoint(w, "begin") /\ UNCHANGED <<jobStatus, wjob, wop>>
    BY <2>1
  <2>2. CASE CancelRow(wjob[w]) /\ Finish(w)
    BY <2>2
  <2>3. QED
    BY <2>1, <2>2
<1>3. CASE Check(w)
  BY <1>3 DEF Check, Cancelled, Goto, session, jobRows, deletion, api,
      budgets
<1>4. CASE RecheckAborts(w)
  BY <1>4 DEF RecheckAborts, Goto, session, jobRows, deletion, api, budgets
<1>5. CASE RecheckBegin(w)
  BY <1>5 DEF RecheckBegin, Rechecked, Goto, ChooseUpload, jobRows, deletion,
      api, budgets, Checkpoint
<1>6. CASE Resume(w)
  BY <1>6 DEF Resume, VersionMatches, ChooseUpload, jobRows, deletion, api,
      budgets, Checkpoint, Goto, RowInv, LoadedCopies
<1>7. CASE BeginPendingOperation(w)
  BY <1>7 DEF BeginPendingOperation, SaveSession, Checkpoint, jobRows,
      deletion, api, budgets
<1>8. CASE FailAmbiguousOperation(w)
  BY <1>8 DEF FailAmbiguousOperation, FailAmbiguous, Finish, deletion, api,
      budgets, SetStatus, SaveSession, Goto
<1>9. CASE RecheckCall(w)
  BY <1>9 DEF RecheckCall, Rechecked, Goto, session, jobRows, deletion, api,
      budgets
<1>10. CASE PostUpload(w)
  BY <1>10 DEF PostUpload, session, jobRows, deletion, worker, api, budgets
<1>11. CASE UploadReturns(w)
  BY <1>11 DEF UploadReturns, Goto, jobRows, deletion, api, budgets
<1>12. CASE UploadRaises(w)
  BY <1>12 DEF UploadRaises, Goto, session, jobRows, deletion, api, budgets
<1>13. CASE RecordUpload(w)
  BY <1>13 DEF RecordUpload, SaveSession, Checkpoint, jobRows, deletion, api,
      budgets
<1>14. CASE RecheckSubmit(w)
  BY <1>14 DEF RecheckSubmit, Rechecked, Checkpoint, Goto, jobRows, deletion,
      api, budgets
<1>15. CASE Submit(w)
  BY <1>15 DEF Submit, SaveSession, Checkpoint, jobRows, deletion, api,
      budgets
<1>16. CASE RecheckHandover(w)
  BY <1>16 DEF RecheckHandover, Rechecked, Goto, session, jobRows, deletion,
      api, budgets
<1>17. CASE HandOver(w)
  BY <1>17 DEF HandOver, Goto, Finish, session, jobRows, deletion, api,
      budgets
<1>18. CASE CompleteJob(w)
  BY <1>18 DEF CompleteJob, Cancelled, CancelRow, SetStatus, Finish, deletion,
      api, budgets, Goto
<1>19. CASE FailJob(w)
  BY <1>19 DEF FailJob, Cancelled, CancelRow, RetryOrFail, Finish, deletion,
      api, budgets, SetStatus, TransitionIf, SaveSession, Goto, Transition
<1>20. CASE LoseRace(w)
  BY <1>20 DEF LoseRace, Goto, session, jobRows, deletion, api, budgets
<1>21. CASE ResolveStale(w)
  BY <1>21 DEF ResolveStale, Cancelled, SetStatus, FailAmbiguous,
      RetryOrFail, Finish, deletion, api, budgets, SaveSession, TransitionIf,
      Goto, Transition
<1>22. CASE CancelJob(w)
  BY <1>22 DEF CancelJob, CancelRow, Finish, session, deletion, api, budgets,
      Goto
<1>23. CASE EnsureDeletionCompensation(w)
  BY <1>23 DEF EnsureDeletionCompensation, Goto, session, jobRows, api,
      budgets
<1>24. CASE RetryDeletionCompensation(w)
  BY <1>24 DEF RetryDeletionCompensation, Goto, session, jobRows, api, budgets
<1>25. CASE DeleteRecording(w)
  BY <1>25 DEF DeleteRecording, Goto, session, jobRows, deletion, api, budgets
<1>26. CASE DeleteRecordingFails(w) \/ RecordDeletionCompensation(w)
  BY <1>26 DEF DeleteRecordingFails, RecordDeletionCompensation,
      EndCompensation, session, jobRows, api, budgets, Finish, Goto
<1>27. CASE RecoverAbandonedJob(w)
  BY <1>27 DEF RecoverAbandonedJob, LeaseExpired, RecoverRow, deletion,
      worker, api, budgets, FailAmbiguous, SetStatus, SaveSession
<1> HIDE <1>0 DEF LeaseInv
<1>28. QED
  BY <1>1, <1>2, <1>3, <1>4, <1>5, <1>6, <1>7, <1>8, <1>9, <1>10,
      <1>11, <1>12, <1>13, <1>14, <1>15, <1>16, <1>17, <1>18, <1>19, <1>20,
      <1>21, <1>22, <1>23, <1>24, <1>25, <1>26, <1>27 DEF WorkerStep

(* A crash leaves the job RUNNING in nobody's hands; requests, answers and *)
(* webhooks put a session into TRANSCRIBING or RETRY_PENDING only with a   *)
(* job that no worker has touched, or one that has no recording yet.       *)
LEMMA OtherStepsKeepLeaseInv ==
  ASSUME LeasesHonoured, RowInv, LeaseInv,
         \/ \E w \in Workers : Crash(w)
         \/ UserStep \/ ApiStep \/ ProviderStep \/ UNCHANGED vars
  PROVE  LeaseInv'
<1> USE SetsAssumption, BoundsAssumption
      DEF LeaseInv, JobsHeldOnce, RecordingKept, PastUpload, NotStarted,
          SessionCarried, Carries, NothingCancelled, DeletionRequested, IsActive
<1>0. /\ TypeOK /\ WorkerShape
      /\ \A v \in Workers :
           wjob[v] # None /\ jobStatus[wjob[v]] = "FREE" => state = "GONE"
  BY DEF RowInv, TypeOK, RowsConsistent
<1> USE <1>0
      DEF TypeOK, WorkerShape, UploadPc, State, Stage, LoadedPc, Pc,
          JobStatus
<1>1. ASSUME NEW w \in Workers, Crash(w) PROVE LeaseInv'
  BY <1>1 DEF Crash, Finish, jobRows, deletion, api, Goto
<1>2. CASE UserStep
  <2>1. CASE UploadMediaBegins \/ EnsureTranscribeBegins
    BY <2>1 DEF UploadMediaBegins, EnsureTranscribeBegins, session, jobRows,
        deletion, worker, budgets
  <2>2. ASSUME NEW j \in Jobs, RetryJob(j) PROVE LeaseInv'
    BY <2>2 DEF RetryJob, SaveSession, NewJob, deletion, worker, api,
        budgets, SetStatus
  <2>3. CASE CreateJob
    BY <2>3 DEF CreateJob, Transition, NewJob, deletion, worker, api,
        budgets, SaveSession, SetStatus
  <2>4. CASE RefreshTranscribe
    BY <2>4 DEF RefreshTranscribe, Transition, EnsureTranscribe, deletion,
        worker, api, budgets, SaveSession, ActiveJob, jobRows, NewJob,
        SetStatus
  <2>5. CASE RequestReconcile \/ EnsureReconcile
    BY <2>5 DEF RequestReconcile, EnsureReconcile, SaveSession, session,
        jobRows, deletion, worker, api, budgets
  <2>6. CASE ApiCancelJob
    BY <2>6 DEF ApiCancelJob, SetStatus, CancelSessionIfRunning, deletion,
        worker, api, budgets, TransitionIf, Transition, SaveSession
  <2>7. CASE CancelSession
    BY <2>7 DEF CancelSession, Transition, CancelAll, deletion, worker, api,
        budgets, SaveSession
  <2>8. CASE RequestDeletion
    BY <2>8 DEF RequestDeletion, CancelAll, TransitionIf, worker, api,
        budgets, Transition, SaveSession
  <2>9. ASSUME NEW r \in {"adopt_existing", "not_created"},
               ResolveUploadOperation(r)
        PROVE  LeaseInv'
    BY <2>9 DEF ResolveUploadOperation, Resolvable, SaveSession, jobRows,
        deletion, worker, api, budgets, ActiveJob
  <2> HIDE <1>0 DEF LeaseInv
  <2>10. QED
    BY <1>2, <2>1, <2>2, <2>3, <2>4, <2>5, <2>6, <2>7, <2>8, <2>9
      DEF UserStep
<1>3. CASE ApiStep
  <2>1. CASE UploadMediaCommits
    <3>1. state = "UPLOADING"
      BY <2>1 DEF UploadMediaCommits, VersionMatches, RowInv, LoadedCopies
    <3>2. QED
      BY <2>1, <3>1 DEF UploadMediaCommits, SaveSession, EnsureTranscribe,
          deletion, worker, budgets, ActiveJob, jobRows, NewJob, SetStatus
  <2>2. CASE UploadMediaFails
    <3>1. state = "UPLOADING"
      BY <2>2 DEF UploadMediaFails, VersionMatches, RowInv, LoadedCopies
    <3>2. QED
      BY <2>2, <3>1 DEF UploadMediaFails, SaveSession, jobRows, deletion,
          worker, budgets
  <2>3. CASE UploadMediaLost
    BY <2>3 DEF UploadMediaLost, jobRows, deletion, worker
  <2>4. CASE EnsureTranscribeCommits
    BY <2>4 DEF EnsureTranscribeCommits, jobRows, NewJob, session, deletion,
        worker, budgets, SetStatus
  <2>5. CASE ConfirmDeletionBegins \/ ConfirmRemoteDeletes
             \/ ConfirmRemoteFails \/ ConfirmDeletionLost
    BY <2>5 DEF ConfirmDeletionBegins, ConfirmRemoteDeletes,
        ConfirmRemoteFails, ConfirmDeletionLost, session, jobRows, deletion,
        worker, budgets
  <2>6. CASE ConfirmDeletionCommits
    BY <2>6 DEF ConfirmDeletionCommits, SaveSession, deletion, worker, budgets
  <2>7. QED
    BY <1>3, <2>1, <2>2, <2>3, <2>4, <2>5, <2>6 DEF ApiStep
<1>4. CASE ProviderStep
  <2>1. ASSUME NEW o \in Ops, ProviderAccepts(o) \/ ProviderRefuses(o)
        PROVE  LeaseInv'
    BY <2>1 DEF ProviderAccepts, ProviderRefuses, session, jobRows, deletion,
        worker, api, budgets
  <2>2. CASE WebhookCompleted \/ WebhookFailed \/ WebhookDeleted
    BY <2>2 DEF WebhookCompleted, WebhookFailed, WebhookDeleted, Webhook,
        CancelAll, SaveSession, deletion, worker, api
  <2>3. QED
    BY <1>4, <2>1, <2>2 DEF ProviderStep
<1>5. CASE UNCHANGED vars
  BY <1>5 DEF vars, session, jobRows, worker, deletion, api, budgets
<1>6. QED
  BY <1>1, <1>2, <1>3, <1>4, <1>5

(* Nothing is held, queued or waited for when a session is created.        *)
LEMMA InitLeaseInv == Init => LeaseInv
BY SetsAssumption
  DEF Init, LeaseInv, JobsHeldOnce, RecordingKept, PastUpload, NotStarted,
      SessionCarried

(* The inductive invariant holds in every reachable state.                 *)
THEOREM Invariance == Spec => []IInv
<1>1. Init => IInv
  BY InitRowInv, InitLeaseInv DEF IInv
<1>2. IInv /\ [Next]_vars => IInv'
  <2> SUFFICES ASSUME IInv, [Next]_vars
               PROVE  IInv'
    OBVIOUS
  <2>1. RowInv'
    BY NextKeepsRowInv DEF IInv
  <2>2. ASSUME LeasesHonoured PROVE LeaseInv'
    BY <2>2, WorkerStepKeepsLeaseInv, OtherStepsKeepLeaseInv DEF IInv, Next
  <2>3. QED
    BY <2>1, <2>2 DEF IInv
<1>3. QED
  BY <1>1, <1>2, PTL DEF Spec

(* With leases honoured, a session of which nothing was cancelled, deleted *)
(* or reported failed never waits in TRANSCRIBING or RETRY_PENDING for a   *)
(* job that does not exist.                                                *)
THEOREM NeverStranded ==
  ASSUME LeasesHonoured
  PROVE  Spec => []NotStranded
<1>1. IInv => NotStranded
  BY DEF IInv, LeaseInv, SessionCarried, Carries, NotStranded, ActiveJob
<1>2. QED
  BY <1>1, Invariance, PTL

(* Every variable keeps its type, and a worker's hold on a job, an         *)
(* operation and a session row is what its place in run_once requires.     *)
THEOREM TypeCorrect == Spec => []TypeOK
<1>1. RowInv => TypeOK
  BY DEF RowInv
<1>2. QED
  BY <1>1, RowInvariance, PTL

(* An upload request that left a worker is on record, or its marker is     *)
(* still on the session row, or the session is deleted.                    *)
THEOREM OutcomeAlwaysAccounted == Spec => []OutcomeAccounted
<1>1. RowInv => OutcomeAccounted
  BY DEF RowInv, MarkerSurvives, OutcomeAccounted, Sent
<1>2. QED
  BY <1>1, RowInvariance, PTL

(* When a session is gone, so is every recording that was linked to it,    *)
(* and a compensation that succeeded has deleted its recording.            *)
THEOREM DeletionReachesProvider == Spec => []DeletionsReachSpeakr
<1>1. RowInv => DeletionsReachSpeakr
  <2>1. ASSUME RowInv, state = "GONE", NEW o \in Ops, fate[o] = "linked"
        PROVE  call[o] = "deleted"
    <3>1. recordingId = None
      BY <2>1 DEF RowInv, RowsConsistent
    <3>2. QED
      BY <2>1, <3>1, SetsAssumption DEF RowInv, LinkedOrDeleted
  <2>2. ASSUME RowInv, NEW o \in Ops, comp[o] = "SUCCEEDED"
        PROVE  call[o] = "deleted"
    BY <2>2 DEF RowInv, LinkedOrDeleted
  <2>3. QED
    BY <2>1, <2>2 DEF DeletionsReachSpeakr
<1>2. QED
  BY <1>1, RowInvariance, PTL

(* A worker draws an operation id only from a copy of the row that shows no *)
(* marker, and the copy is current when the id is committed.               *)
THEOREM NoBlindRetryHolds == Spec => NoBlindRetry
<1> DEFINE Draws(o) == call[o] = "unused" /\ call'[o] # "unused"
           Settled == \A p \in Ops : call[p] # "unused" => Accounted(p)
<1>1. RowInv /\ [Next]_vars => \A o \in Ops : Draws(o) => Settled
  <2> SUFFICES ASSUME RowInv, [Next]_vars, NEW o \in Ops, Draws(o)
               PROVE  Settled
    OBVIOUS
  <2>1. ASSUME NEW w \in Workers, BeginPendingOperation(w)
        PROVE  Settled
    <3>1. pendingOp = None /\ state # "GONE"
      BY <2>1 DEF BeginPendingOperation, VersionMatches, RowInv, LoadedCopies
    <3>2. QED
      BY <3>1, SetsAssumption DEF RowInv, MarkerSurvives
  <2>2. ASSUME NEW w \in Workers, WorkerStep(w)
        PROVE  BeginPendingOperation(w)
    <3>1. CASE PostUpload(w)
      BY <3>1 DEF PostUpload, RowInv, TypeOK
    <3>2. CASE DeleteRecording(w) \/ DeleteRecordingFails(w)
      BY <3>2 DEF DeleteRecording, DeleteRecordingFails, RowInv, TypeOK,
          WorkerShape, RowsConsistent
    <3>3. QED
      BY <2>2, <3>1, <3>2
        DEF WorkerStep, Claim, Start, Check, RecheckAborts, RecheckBegin,
            Resume, FailAmbiguousOperation, RecheckCall, UploadReturns,
            UploadRaises, RecordUpload, RecheckSubmit, Submit,
            RecheckHandover, HandOver, CompleteJob, FailJob, LoseRace,
            ResolveStale, CancelJob, EnsureDeletionCompensation,
            RetryDeletionCompensation, RecordDeletionCompensation,
            RecoverAbandonedJob
  <2>3. ASSUME NEW w \in Workers, Crash(w) PROVE FALSE
    BY <2>3 DEF Crash
  <2>4. CASE UserStep
    BY <2>4 DEF UserStep, UploadMediaBegins, EnsureTranscribeBegins, RetryJob,
        CreateJob, RefreshTranscribe, RequestReconcile, EnsureReconcile,
        ApiCancelJob, CancelSession, RequestDeletion, ResolveUploadOperation
  <2>5. CASE ApiStep
    <3>1. CASE ConfirmRemoteDeletes \/ ConfirmRemoteFails
      BY <3>1 DEF ConfirmRemoteDeletes, ConfirmRemoteFails, RowInv, TypeOK,
          RowsConsistent, LinkedOrDeleted
    <3>2. QED
      BY <2>5, <3>1 DEF ApiStep, UploadMediaCommits, UploadMediaFails,
          UploadMediaLost, EnsureTranscribeCommits, ConfirmDeletionBegins,
          ConfirmDeletionCommits, ConfirmDeletionLost
  <2>6. CASE ProviderStep
    BY <2>6 DEF ProviderStep, ProviderAccepts, ProviderRefuses,
        WebhookCompleted, WebhookFailed, WebhookDeleted, Webhook, RowInv,
        TypeOK, RowsConsistent
  <2>stutter. CASE UNCHANGED vars
    BY <2>stutter DEF vars
  <2>8. QED
    BY <2>stutter, <2>6, <2>5, <2>4, <2>3, <2>2, <2>1 DEF Next
<1>2. QED
  BY <1>1, RowInvariance, PTL DEF Spec, NoBlindRetry

(* No transition leaves DELETE_PENDING, and a commit that does not look at *)
(* the state again is checked against a row that was not DELETE_PENDING.   *)
THEOREM DeletionIsFinalHolds == Spec => DeletionIsFinal
<1> DEFINE Final == /\ state = "DELETE_PENDING" =>
                         state' \in {"DELETE_PENDING", "GONE"}
                    /\ state = "GONE" => state' = "GONE"
<1>1. RowInv /\ [Next]_vars => Final
  <2> SUFFICES ASSUME RowInv, [Next]_vars
               PROVE  Final
    OBVIOUS
  <2> USE DEF session, SaveSession, Transition, TransitionIf, VersionMatches,
        CanTransition
  <2>1. ASSUME NEW w \in Workers, WorkerStep(w) PROVE Final
    <3>1. CASE Resume(w)
      BY <3>1 DEF Resume, RowInv, LoadedCopies
    <3>2. CASE FailAmbiguousOperation(w) \/ FailJob(w) \/ ResolveStale(w)
               \/ RecoverAbandonedJob(w)
      BY <3>2 DEF FailAmbiguousOperation, FailJob, ResolveStale,
          RecoverAbandonedJob, RecoverRow, FailAmbiguous, RetryOrFail
    <3>3. QED
      BY <2>1, <3>1, <3>2
        DEF WorkerStep, Claim, Start, Check, RecheckAborts, RecheckBegin,
            BeginPendingOperation, RecheckCall, PostUpload, UploadReturns,
            UploadRaises, RecordUpload, RecheckSubmit, Submit,
            RecheckHandover, HandOver, CompleteJob, LoseRace, CancelJob,
            EnsureDeletionCompensation, RetryDeletionCompensation,
            DeleteRecording, DeleteRecordingFails,
            RecordDeletionCompensation
  <2>2. ASSUME NEW w \in Workers, Crash(w) PROVE Final
    BY <2>2 DEF Crash
  <2>3. CASE UserStep
    BY <2>3 DEF UserStep, UploadMediaBegins, EnsureTranscribeBegins, RetryJob,
        CreateJob, RefreshTranscribe, RequestReconcile, EnsureReconcile,
        ApiCancelJob, CancelSessionIfRunning, CancelSession, RequestDeletion,
        ResolveUploadOperation, State
  <2>4. CASE ApiStep
    BY <2>4 DEF ApiStep, UploadMediaCommits, UploadMediaFails,
        UploadMediaLost, EnsureTranscribeCommits, ConfirmDeletionBegins,
        ConfirmRemoteDeletes, ConfirmRemoteFails, ConfirmDeletionCommits,
        ConfirmDeletionLost, RowInv, LoadedCopies
  <2>5. CASE ProviderStep
    BY <2>5 DEF ProviderStep, ProviderAccepts, ProviderRefuses,
        WebhookCompleted, WebhookFailed, WebhookDeleted
  <2>stutter. CASE UNCHANGED vars
    BY <2>stutter DEF vars
  <2>7. QED
    BY <2>stutter, <2>5, <2>4, <2>3, <2>2, <2>1 DEF Next
<1>2. QED
  BY <1>1, RowInvariance, PTL DEF Spec, DeletionIsFinal

(* A commit that would take a session out of CANCELLED comes from a copy   *)
(* loaded before the cancellation, and fails; everything else a worker, an *)
(* upload or a webhook writes is decided on the state it finds.            *)
THEOREM CancelledStaysCancelledHolds == Spec => CancelledStaysCancelled
<1> DEFINE Kept == state = "CANCELLED" /\ ~UserStep => state' = "CANCELLED"
<1>1. RowInv /\ [Next]_vars => Kept
  <2> SUFFICES ASSUME RowInv, [Next]_vars, state = "CANCELLED", ~UserStep
               PROVE  state' = "CANCELLED"
    OBVIOUS
  <2> USE DEF session, SaveSession, Transition, TransitionIf, VersionMatches,
        CanTransition
  <2>1. ASSUME NEW w \in Workers, WorkerStep(w)
        PROVE  state' = "CANCELLED"
    <3>1. CASE Resume(w)
      BY <3>1 DEF Resume, RowInv, LoadedCopies
    <3>2. CASE FailAmbiguousOperation(w) \/ FailJob(w) \/ ResolveStale(w)
               \/ RecoverAbandonedJob(w)
      BY <3>2 DEF FailAmbiguousOperation, FailJob, ResolveStale,
          RecoverAbandonedJob, RecoverRow, FailAmbiguous, RetryOrFail
    <3>3. QED
      BY <2>1, <3>1, <3>2
        DEF WorkerStep, Claim, Start, Check, RecheckAborts, RecheckBegin,
            BeginPendingOperation, RecheckCall, PostUpload, UploadReturns,
            UploadRaises, RecordUpload, RecheckSubmit, Submit,
            RecheckHandover, HandOver, CompleteJob, LoseRace, CancelJob,
            EnsureDeletionCompensation, RetryDeletionCompensation,
            DeleteRecording, DeleteRecordingFails,
            RecordDeletionCompensation
  <2>2. ASSUME NEW w \in Workers, Crash(w) PROVE state' = "CANCELLED"
    BY <2>2 DEF Crash
  <2>3. CASE ApiStep
    BY <2>3 DEF ApiStep, UploadMediaCommits, UploadMediaFails,
        UploadMediaLost, EnsureTranscribeCommits, ConfirmDeletionBegins,
        ConfirmRemoteDeletes, ConfirmRemoteFails, ConfirmDeletionCommits,
        ConfirmDeletionLost, RowInv, LoadedCopies
  <2>4. CASE ProviderStep
    BY <2>4 DEF ProviderStep, ProviderAccepts, ProviderRefuses,
        WebhookCompleted, WebhookFailed, WebhookDeleted
  <2>stutter. CASE UNCHANGED vars
    BY <2>stutter DEF vars
  <2>6. QED
    BY <2>stutter, <2>4, <2>3, <2>2, <2>1 DEF Next
<1>2. QED
  BY <1>1, RowInvariance, PTL DEF Spec, CancelledStaysCancelled

(* With leases honoured nobody holds a job that has failed, and a job      *)
(* nobody holds is only claimed or recovered: the verdict that lets an     *)
(* administrator resolve an unknown upload stays until the row is deleted. *)
THEOREM AmbiguousVerdictKeptHolds ==
  ASSUME LeasesHonoured
  PROVE  Spec => AmbiguousVerdictKept
<1> DEFINE Kept(j) ==
      jobStatus[j] = "FAILED" /\ jobAmbiguous[j] # None =>
        \/ jobStatus'[j] = "FAILED" /\ jobAmbiguous'[j] = jobAmbiguous[j]
        \/ state' = "GONE"
<1>1. IInv /\ [Next]_vars => \A j \in Jobs : Kept(j)
  <2> SUFFICES ASSUME IInv, [Next]_vars, NEW j \in Jobs,
                      jobStatus[j] = "FAILED", jobAmbiguous[j] # None
               PROVE  \/ jobStatus'[j] = "FAILED"
                         /\ jobAmbiguous'[j] = jobAmbiguous[j]
                      \/ state' = "GONE"
    OBVIOUS
  <2> DEFINE Stays == jobStatus'[j] = "FAILED"
                      /\ jobAmbiguous'[j] = jobAmbiguous[j]
  <2>1. /\ jobStatus \in [Jobs -> JobStatus \cup {"FREE"}]
        /\ jobAmbiguous \in [Jobs -> Ops \cup {None}]
        /\ \A w \in Workers :
             /\ wjob[w] # j
             /\ wpc[w] \notin {"idle", "delete", "deleted"} =>
                  wjob[w] \in Jobs
    BY SetsAssumption
      DEF IInv, RowInv, TypeOK, WorkerShape, LeaseInv, JobsHeldOnce
  <2> USE <2>1 DEF jobRows, SetStatus, NewJob, CancelRow
  <2>2. ASSUME NEW w \in Workers, WorkerStep(w) PROVE Stays
    <3>1. CASE Claim(w)
      BY <3>1 DEF Claim
    <3>2. CASE Start(w) \/ CompleteJob(w) \/ CancelJob(w)
      BY <3>2 DEF Start, CompleteJob, CancelJob
    <3>3. CASE FailAmbiguousOperation(w)
      BY <3>3 DEF FailAmbiguousOperation, FailAmbiguous
    <3>4. CASE FailJob(w)
      BY <3>4 DEF FailJob, RetryOrFail
    <3>5. CASE ResolveStale(w)
      BY <3>5 DEF ResolveStale, FailAmbiguous, RetryOrFail
    <3>6. CASE RecoverAbandonedJob(w)
      BY <3>6 DEF RecoverAbandonedJob, LeaseExpired, RecoverRow,
          FailAmbiguous
    <3>7. QED
      BY <2>2, <3>1, <3>2, <3>3, <3>4, <3>5, <3>6
        DEF WorkerStep, Check, RecheckAborts, RecheckBegin, Resume,
            BeginPendingOperation, RecheckCall, PostUpload, UploadReturns,
            UploadRaises, RecordUpload, RecheckSubmit, Submit,
            RecheckHandover, HandOver, LoseRace, EnsureDeletionCompensation,
            RetryDeletionCompensation, DeleteRecording, DeleteRecordingFails,
            RecordDeletionCompensation
  <2>3. ASSUME NEW w \in Workers, Crash(w) PROVE Stays
    BY <2>3 DEF Crash
  <2>4. CASE UserStep
    <3>1. CASE RefreshTranscribe
      BY <3>1 DEF RefreshTranscribe, EnsureTranscribe
    <3>2. CASE ApiCancelJob
      BY <3>2 DEF ApiCancelJob, IsActive
    <3>3. CASE CancelSession \/ RequestDeletion
      BY <3>3 DEF CancelSession, RequestDeletion, CancelAll
    <3>4. QED
      BY <2>4, <3>1, <3>2, <3>3
        DEF UserStep, UploadMediaBegins, EnsureTranscribeBegins, RetryJob,
            CreateJob, RequestReconcile, EnsureReconcile,
            ResolveUploadOperation
  <2>5. CASE ApiStep
    <3>1. CASE UploadMediaCommits
      BY <3>1 DEF UploadMediaCommits, EnsureTranscribe
    <3>2. CASE ConfirmDeletionCommits
      BY <3>2 DEF ConfirmDeletionCommits, SaveSession
    <3>3. QED
      BY <2>5, <3>1, <3>2
        DEF ApiStep, UploadMediaFails, UploadMediaLost,
            EnsureTranscribeCommits, ConfirmDeletionBegins,
            ConfirmRemoteDeletes, ConfirmRemoteFails, ConfirmDeletionLost
  <2>6. CASE ProviderStep
    BY <2>6 DEF ProviderStep, ProviderAccepts, ProviderRefuses, Webhook,
        WebhookCompleted, WebhookFailed, WebhookDeleted, CancelAll
  <2>stutter. CASE UNCHANGED vars
    BY <2>stutter DEF vars
  <2>8. QED
    BY <2>2, <2>3, <2>4, <2>5, <2>6, <2>stutter DEF Next
<1>2. QED
  BY <1>1, Invariance, PTL DEF Spec, AmbiguousVerdictKept

(* The abstract life cycle, seen from here: its table is the one of        *)
(* SessionStates, and a step between two existing rows is one of the       *)
(* three moves.                                                            *)
LEMMA LifecycleSteps ==
  /\ state # "GONE" /\ state' # "GONE" /\ state' \in AllowedTransitions[state]
       => Lifecycle!Next
  /\ state = "UPLOADING" /\ state' = "TRANSCRIBING" => Lifecycle!Next
  /\ (state \in {"FAILED", "CANCELLED"}
        /\ state' \in {"TRANSCRIBING", "RECONCILING"}) => Lifecycle!Next
  /\ state = "DELETE_PENDING" /\ state' = "GONE" => Lifecycle!Next
<1>1. Lifecycle!AllowedTransitions = AllowedTransitions
  BY DEF Lifecycle!AllowedTransitions, AllowedTransitions
<1>2. "DELETED" \in AllowedTransitions["DELETE_PENDING"]
  BY DEF AllowedTransitions
<1> USE <1>1, <1>2 DEF Lifecycle!Next
<1>3. ASSUME state # "GONE", state' # "GONE",
             state' \in AllowedTransitions[state]
      PROVE  Lifecycle!Next
  BY <1>3 DEF Lifecycle!Move
<1>4. ASSUME state = "DELETE_PENDING", state' = "GONE"
      PROVE  Lifecycle!Next
  BY <1>4 DEF Lifecycle!Move
<1>5. ASSUME state = "UPLOADING", state' = "TRANSCRIBING"
      PROVE  Lifecycle!Next
  BY <1>5 DEF Lifecycle!StoreMedia
<1>6. ASSUME state \in {"FAILED", "CANCELLED"},
             state' \in {"TRANSCRIBING", "RECONCILING"}
      PROVE  Lifecycle!Next
  BY <1>6 DEF Lifecycle!Revive
<1> HIDE DEF Lifecycle!Next
<1>7. QED
  BY <1>3, <1>4, <1>5, <1>6

(* The session row implements the abstract life cycle: a commit either is  *)
(* decided on the state it finds, or passes the version check and so was   *)
(* decided on that state earlier.                                          *)
THEOREM SessionImplementsLifecycle == Spec => ImplementsLifecycle
<1> DEFINE Ok == state' = state \/ Lifecycle!Next
<1>1. Init => Lifecycle!Init
  BY DEF Init, Lifecycle!Init
<1>2. RowInv /\ [Next]_vars => Ok
  <2> SUFFICES ASSUME RowInv, [Next]_vars
               PROVE  Ok
    OBVIOUS
  <2>1. \A s \in {"TRANSCRIBING", "RECONCILING", "RETRY_PENDING"} :
          "FAILED" \in AllowedTransitions[s]
    BY DEF AllowedTransitions
  <2>2. \A s \in State \ {"DELETE_PENDING", "GONE"} :
          "DELETE_PENDING" \in AllowedTransitions[s]
    BY DEF AllowedTransitions, State
  <2> HIDE DEF Ok
  <2>3. ASSUME state' # "GONE", state # "GONE", CanTransition(state, state')
        PROVE  Ok
    BY <2>3, LifecycleSteps DEF Ok, CanTransition
  <2>4. ASSUME state' = state PROVE Ok
    BY <2>4 DEF Ok
  <2> USE DEF session, SaveSession, Transition, TransitionIf
  <2>5. ASSUME NEW w \in Workers, WorkerStep(w) PROVE Ok
    <3>1. CASE Resume(w)
      BY <3>1, <2>3 DEF Resume, VersionMatches, RowInv, LoadedCopies
    <3>2. CASE FailAmbiguousOperation(w) \/ RecoverAbandonedJob(w)
      BY <3>2, <2>1, <2>3, <2>4
        DEF FailAmbiguousOperation, RecoverAbandonedJob, RecoverRow,
            FailAmbiguous, CanTransition
    <3>3. CASE FailJob(w) \/ ResolveStale(w)
      BY <3>3, <2>1, <2>3, <2>4
        DEF FailJob, ResolveStale, FailAmbiguous, RetryOrFail, CanTransition
    <3>4. QED
      BY <2>5, <3>1, <3>2, <3>3, <2>4
        DEF WorkerStep, Claim, Start, Check, RecheckAborts, RecheckBegin,
            BeginPendingOperation, RecheckCall, PostUpload, UploadReturns,
            UploadRaises, RecordUpload, RecheckSubmit, Submit,
            RecheckHandover, HandOver, CompleteJob, LoseRace, CancelJob,
            EnsureDeletionCompensation, RetryDeletionCompensation,
            DeleteRecording, DeleteRecordingFails,
            RecordDeletionCompensation
  <2>6. ASSUME NEW w \in Workers, Crash(w) PROVE Ok
    BY <2>6, <2>4 DEF Crash
  <2>7. CASE UserStep
    <3>1. CASE UploadMediaBegins
      BY <3>1, <2>3 DEF UploadMediaBegins
    <3>2. ASSUME NEW j \in Jobs, RetryJob(j) PROVE Ok
      <4>1. CASE state = "RETRY_PENDING"
        BY <3>2, <4>1, <2>3 DEF RetryJob
      <4>2. CASE state \in {"FAILED", "CANCELLED"}
        BY <3>2, <4>2, LifecycleSteps DEF RetryJob, Ok
      <4>3. QED
        BY <3>2, <4>1, <4>2 DEF RetryJob
    <3>3. CASE CreateJob \/ RefreshTranscribe
      BY <3>3, <2>3 DEF CreateJob, RefreshTranscribe
    <3>4. CASE RequestReconcile
      <4>1. CASE state \in {"FAILED", "CANCELLED"}
        BY <3>4, <4>1, LifecycleSteps DEF RequestReconcile, Ok
      <4>2. CASE state \notin {"FAILED", "CANCELLED"}
        BY <3>4, <4>2, <2>3, <2>4 DEF RequestReconcile
      <4>3. QED
        BY <4>1, <4>2
    <3>5. CASE ApiCancelJob \/ CancelSession
      BY <3>5, <2>3, <2>4
        DEF ApiCancelJob, CancelSession, CancelSessionIfRunning
    <3>6. CASE RequestDeletion
      BY <3>6, <2>2, <2>3, <2>4 DEF RequestDeletion, CanTransition
    <3>7. QED
      BY <2>7, <3>1, <3>2, <3>3, <3>4, <3>5, <3>6, <2>4
        DEF UserStep, EnsureTranscribeBegins, EnsureReconcile,
            ResolveUploadOperation
  <2>8. CASE ApiStep
    <3>1. CASE UploadMediaCommits
      BY <3>1, LifecycleSteps DEF UploadMediaCommits, VersionMatches, RowInv,
          LoadedCopies, Ok
    <3>2. CASE UploadMediaFails
      <4>1. "FAILED" \in AllowedTransitions["UPLOADING"]
        BY DEF AllowedTransitions
      <4>2. QED
        BY <3>2, <4>1, <2>3 DEF UploadMediaFails, VersionMatches, RowInv,
            LoadedCopies, CanTransition
    <3>3. CASE ConfirmDeletionCommits
      BY <3>3, LifecycleSteps DEF ConfirmDeletionCommits, VersionMatches,
          RowInv, LoadedCopies, Ok
    <3>4. QED
      BY <2>8, <3>1, <3>2, <3>3, <2>4
        DEF ApiStep, UploadMediaLost, EnsureTranscribeCommits,
            ConfirmDeletionBegins, ConfirmRemoteDeletes, ConfirmRemoteFails,
            ConfirmDeletionLost
  <2>9. CASE ProviderStep
    BY <2>9, <2>1, <2>3, <2>4
      DEF ProviderStep, ProviderAccepts, ProviderRefuses, WebhookCompleted,
          WebhookFailed, WebhookDeleted, CanTransition
  <2>stutter. CASE UNCHANGED vars
    BY <2>stutter, <2>4 DEF vars
  <2>11. QED
    BY <2>5, <2>6, <2>7, <2>8, <2>9, <2>stutter DEF Next
<1>3. Ok => [Lifecycle!Next]_(IF state = "GONE" THEN "DELETED" ELSE state)
  OBVIOUS
<1>4. QED
  BY <1>1, <1>2, <1>3, RowInvariance, PTL
    DEF Spec, ImplementsLifecycle, Lifecycle!Spec
=============================================================================
