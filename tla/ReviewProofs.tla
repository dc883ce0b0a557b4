--------------------------- MODULE ReviewProofs ---------------------------
(***************************************************************************)
(* IInv is an invariant of ReviewPipeline for any sets of workers, ledger  *)
(* requests, jobs, entries and revisions and any attempt limit, whether or *)
(* not leases are honoured; the safety properties follow from it, and that *)
(* the pipeline implements SessionLifecycle.  SoleInv, at the end, says    *)
(* under which conditions a session in processing always has its job.      *)
(*                                                                         *)
(* RowInv is the part of IInv that the version check is about.  The first  *)
(* lemmas say what each way of touching the session row does to it; then   *)
(* there is one lemma per kind of actor, with one step per action.         *)
(***************************************************************************)
EXTENDS ReviewPipeline, TLAPS

(* The session row, the copies of it, and what they refer to.              *)
RowInv == SessionTypes /\ LoadedRows /\ DecidedOnRow /\ RevisionsStored

(* A worker loads the row or ends its transaction without an UPDATE.       *)
LEMMA LoadOrLeave ==
  ASSUME NEW w \in Workers, RowInv, Load(w) \/ Leave(w),
         UNCHANGED <<state, revision, stored, entryRev, rpc>>
  PROVE  RowInv'
<1> USE ReviewSets DEF RowInv, SessionTypes, Actors, Row, NoRow
<1>1. CASE Load(w)
  <2>1. SessionTypes'
    BY <1>1 DEF Load
  <2>2. LoadedRows'
    BY <1>1 DEF Load, LoadedRows
  <2>3. DecidedOnRow' /\ RevisionsStored'
    BY <1>1 DEF Load, DecidedOnRow, RevisionsStored
  <2>4. QED
    BY <2>1, <2>2, <2>3
<1>2. CASE Leave(w)
  <2>1. SessionTypes'
    BY <1>2 DEF Leave, Unload
  <2>2. LoadedRows'
    BY <1>2 DEF Leave, Unload, LoadedRows
  <2>3. DecidedOnRow' /\ RevisionsStored'
    BY <1>2 DEF Leave, Unload, DecidedOnRow, RevisionsStored
  <2>4. QED
    BY <2>1, <2>2, <2>3
<1>3. QED
  BY <1>1, <1>2

(* A worker commits a state it derived from the row it has loaded.         *)
LEMMA WorkerEnters ==
  ASSUME NEW w \in Workers, NEW s, RowInv, EnterFrom(w, s),
         s \in (State \ {"COMPLETE"}) \cup {row[w].state},
         UNCHANGED <<revision, stored, entryRev, rpc>>
  PROVE  RowInv'
<1> USE ReviewSets DEF RowInv, SessionTypes, Actors, Row, NoRow, EnterFrom,
      SaveState, Unload, VersionMatches
<1>1. SessionTypes'
  OBVIOUS
<1>2. LoadedRows'
  BY DEF LoadedRows
<1>3. DecidedOnRow'
  BY DEF DecidedOnRow
<1>4. RevisionsStored'
  BY DEF RevisionsStored
<1>5. QED
  BY <1>1, <1>2, <1>3, <1>4

(* A transaction that loads the row itself and writes it, or does not.     *)
LEMMA RowWritten ==
  ASSUME RowInv, state' \in State,
         state' = "COMPLETE" => state = "COMPLETE",
         current' = {} \/ (state' = state /\ current' = current),
         UNCHANGED <<revision, row, stored, entryRev, rpc>>
  PROVE  RowInv'
<1> USE DEF RowInv, SessionTypes
<1>1. SessionTypes' /\ LoadedRows'
  BY DEF LoadedRows
<1>2. DecidedOnRow' /\ RevisionsStored'
  BY DEF DecidedOnRow, RevisionsStored
<1>3. QED
  BY <1>1, <1>2

(* The row is left alone.                                                  *)
LEMMA RowAlone ==
  ASSUME RowInv,
         UNCHANGED <<state, revision, current, row, stored, entryRev, rpc>>
  PROVE  RowInv'
BY DEF RowInv, SessionTypes, LoadedRows, DecidedOnRow, RevisionsStored, Row,
       Actors

(* A job row stays a job row when its status changes.                      *)
LEMMA StatusTypes ==
  ASSUME JobTypes, NEW j \in Jobs, NEW s \in JobStatus, SetStatus(j, s)
  PROVE  JobTypes'
BY DEF JobTypes, SetStatus, JobStatus

(* A new job of ensure_job, create_job or retry_job.                       *)
LEMMA InsertTypes ==
  ASSUME JobTypes, NEW t \in ReviewJob, InsertJob(t)
  PROVE  JobTypes'
<1>1. 0 \in 0..MaxAttempts
  BY ReviewBounds
<1>2. QED
  BY <1>1 DEF JobTypes, InsertJob, JobStatus

(* ensure_job, whether or not it finds an active job.                      *)
LEMMA EnsureTypes ==
  ASSUME JobTypes, NEW t \in ReviewJob, EnsureJob(t)
  PROVE  JobTypes'
<1>1. CASE UNCHANGED jobRows
  BY <1>1 DEF JobTypes, jobRows
<1>2. QED
  BY <1>1, InsertTypes DEF EnsureJob

(* The cancellation of all jobs with given statuses.                       *)
LEMMA CancelTypes ==
  ASSUME JobTypes, NEW S, CancelAll(S)
  PROVE  JobTypes'
BY DEF JobTypes, CancelAll, JobStatus

(* A worker goes to the commit that ends its attempt.                      *)
LEMMA GoEndTypes ==
  ASSUME WorkerTypes, NEW w \in Workers, wpc[w] # "idle",
         NEW pc \in {"complete", "requeue", "fail", "fail_final", "stale",
                     "cancel"},
         GoEnd(w, pc)
  PROVE  WorkerTypes'
BY ReviewSets DEF WorkerTypes, GoEnd, Pc, Stage

(* The end of run_once.                                                    *)
LEMMA FinishTypes ==
  ASSUME WorkerTypes, NEW w \in Workers, Finish(w)
  PROVE  WorkerTypes'
BY ReviewSets DEF WorkerTypes, Finish, Pc, Stage

(* The way into a checkpoint, with what the worker has read.               *)
LEMMA GoCheckTypes ==
  ASSUME WorkerTypes, NEW w \in Workers, wpc[w] # "idle",
         NEW stage \in Stage, GoCheck(w, stage),
         wread' \in [Workers -> Revisions \cup {None}],
         \A x \in Workers : x # w => wread'[x] = wread[x]
  PROVE  WorkerTypes'
BY ReviewSets DEF WorkerTypes, GoCheck, Pc, Stage

(* The steps of a worker, and its end.                                     *)
LEMMA WorkerStepKeepsIInv ==
  ASSUME NEW w \in Workers, IInv, WorkerStep(w) \/ Crash(w)
  PROVE  IInv'
<1> SUFFICES ASSUME RowInv, LedgerTypes, JobTypes, WorkerTypes, ReviewerTypes,
                    ExtractedFromOwnRevision
             PROVE  IInv'
  BY DEF IInv, TypeOK, RowInv
<1> USE DEF session, ledger, jobRows, worker, reviewer, budgets
<1>1. ASSUME NEW j \in Jobs, Claim(w, j) PROVE IInv'
  <2> USE <1>1 DEF Claim
  <2>1. RowInv'
    BY RowAlone
  <2>2. JobTypes'
    BY ReviewBounds DEF JobTypes, JobStatus
  <2>3. WorkerTypes'
    BY ReviewSets DEF WorkerTypes, Pc, Stage
  <2>4. LedgerTypes' /\ ReviewerTypes' /\ ExtractedFromOwnRevision'
    BY DEF LedgerTypes, ReviewerTypes, ExtractedFromOwnRevision
  <2>5. QED
    BY <2>1, <2>2, <2>3, <2>4 DEF IInv, TypeOK, RowInv
<1>2. CASE Check(w)
  <2> USE <1>2 DEF Check, Go
  <2>1. RowInv'
    BY RowAlone
  <2>2. WorkerTypes'
    BY GoEndTypes DEF WorkerTypes, Pc, Stage
  <2>3. /\ JobTypes' /\ LedgerTypes' /\ ReviewerTypes'
        /\ ExtractedFromOwnRevision'
    BY DEF LedgerTypes, ReviewerTypes, ExtractedFromOwnRevision, JobTypes
  <2>4. QED
    BY <2>1, <2>2, <2>3 DEF IInv, TypeOK, RowInv
<1>3. CASE Recheck(w)
  <2> USE <1>3 DEF Recheck
  <2>1. RowInv'
    BY RowAlone, LoadOrLeave
  <2>2. WorkerTypes'
    BY GoEndTypes, ReviewSets DEF WorkerTypes, Pc, Stage
  <2>3. /\ JobTypes' /\ LedgerTypes' /\ ReviewerTypes'
        /\ ExtractedFromOwnRevision'
    BY DEF LedgerTypes, ReviewerTypes, ExtractedFromOwnRevision, JobTypes
  <2>4. QED
    BY <2>1, <2>2, <2>3 DEF IInv, TypeOK, RowInv
<1>4. CASE Reload(w)
  <2> USE <1>4 DEF Reload
  <2>1. RowInv'
    BY RowAlone, LoadOrLeave
  <2>2. WorkerTypes'
    BY GoEndTypes, ReviewSets DEF WorkerTypes, Go, Pc, Stage
  <2>3. /\ JobTypes' /\ LedgerTypes' /\ ReviewerTypes'
        /\ ExtractedFromOwnRevision'
    BY DEF LedgerTypes, ReviewerTypes, ExtractedFromOwnRevision, JobTypes
  <2>4. QED
    BY <2>1, <2>2, <2>3 DEF IInv, TypeOK, RowInv
<1>5. CASE CancelJob(w)
  <2> USE <1>5 DEF CancelJob
  <2>1. RowInv'
    BY RowAlone
  <2>2. JobTypes'
    BY ReviewSets, StatusTypes DEF WorkerTypes, JobStatus
  <2>3. WorkerTypes'
    BY FinishTypes
  <2>4. LedgerTypes' /\ ReviewerTypes' /\ ExtractedFromOwnRevision'
    BY DEF LedgerTypes, ReviewerTypes, ExtractedFromOwnRevision
  <2>5. QED
    BY <2>1, <2>2, <2>3, <2>4 DEF IInv, TypeOK, RowInv
<1>6. CASE CompleteJob(w)
  <2> USE <1>6 DEF CompleteJob
  <2>1. RowInv'
    BY RowWritten DEF RowInv, SessionTypes
  <2>2. JobTypes'
    BY ReviewSets, StatusTypes DEF WorkerTypes, JobStatus
  <2>3. WorkerTypes'
    BY FinishTypes
  <2>4. LedgerTypes' /\ ReviewerTypes' /\ ExtractedFromOwnRevision'
    BY DEF LedgerTypes, ReviewerTypes, ExtractedFromOwnRevision
  <2>5. QED
    BY <2>1, <2>2, <2>3, <2>4 DEF IInv, TypeOK, RowInv
<1>7. CASE RequeuePending(w)
  <2> USE <1>7 DEF RequeuePending
  <2>1. RowInv'
    BY RowAlone
  <2>2. JobTypes'
    BY ReviewSets, StatusTypes DEF WorkerTypes, JobTypes, JobStatus
  <2>3. WorkerTypes'
    BY FinishTypes
  <2>4. LedgerTypes' /\ ReviewerTypes' /\ ExtractedFromOwnRevision'
    BY DEF LedgerTypes, ReviewerTypes, ExtractedFromOwnRevision
  <2>5. QED
    BY <2>1, <2>2, <2>3, <2>4 DEF IInv, TypeOK, RowInv
<1>8. CASE FailJob(w)
  <2> USE <1>8 DEF FailJob
  <2>1. RowInv'
    BY RowWritten DEF RetryOrFail, Processing, Enter, SaveState, RowInv,
        SessionTypes, State, SessionState
  <2>2. JobTypes'
    BY ReviewSets, StatusTypes DEF WorkerTypes, RetryOrFail, JobStatus
  <2>3. WorkerTypes'
    BY FinishTypes
  <2>4. LedgerTypes' /\ ReviewerTypes' /\ ExtractedFromOwnRevision'
    BY DEF LedgerTypes, ReviewerTypes, ExtractedFromOwnRevision
  <2>5. QED
    BY <2>1, <2>2, <2>3, <2>4 DEF IInv, TypeOK, RowInv
<1>9. CASE ResolveStale(w)
  <2> USE <1>9 DEF ResolveStale
  <2>1. RowInv'
    BY RowWritten DEF RetryOrFail, Processing, Enter, SaveState, RowInv,
        SessionTypes, State, SessionState
  <2>2. JobTypes'
    BY ReviewSets, StatusTypes DEF WorkerTypes, RetryOrFail, JobTypes,
        JobStatus
  <2>3. WorkerTypes'
    BY FinishTypes
  <2>4. LedgerTypes' /\ ReviewerTypes' /\ ExtractedFromOwnRevision'
    BY DEF LedgerTypes, ReviewerTypes, ExtractedFromOwnRevision
  <2>5. QED
    BY <2>1, <2>2, <2>3, <2>4 DEF IInv, TypeOK, RowInv
<1>10. CASE BeginReconcile(w)
  <2> USE <1>10 DEF BeginReconcile
  <2>1. RowInv'
    BY LoadOrLeave, WorkerEnters DEF State, SessionState
  <2>2. WorkerTypes'
    BY GoEndTypes, GoCheckTypes DEF WorkerTypes, Stage
  <2>3. /\ JobTypes' /\ LedgerTypes' /\ ReviewerTypes'
        /\ ExtractedFromOwnRevision'
    BY DEF LedgerTypes, ReviewerTypes, ExtractedFromOwnRevision, JobTypes
  <2>4. QED
    BY <2>1, <2>2, <2>3 DEF IInv, TypeOK, RowInv
<1>11. CASE Poll(w)
  <2> USE <1>11 DEF Poll, CallRaises
  <2>1. RowInv'
    BY RowAlone, LoadOrLeave
  <2>2. WorkerTypes'
    BY GoEndTypes DEF WorkerTypes, Go, Pc, Stage
  <2>3. /\ JobTypes' /\ LedgerTypes' /\ ReviewerTypes'
        /\ ExtractedFromOwnRevision'
    BY DEF LedgerTypes, ReviewerTypes, ExtractedFromOwnRevision, JobTypes
  <2>4. QED
    BY <2>1, <2>2, <2>3 DEF IInv, TypeOK, RowInv
<1>12. CASE Polled(w)
  <2> USE <1>12 DEF Polled
  <2>1. RowInv'
    <3>1. CASE Leave(w)
      BY <3>1, LoadOrLeave
    <3>2. CASE current' = {} /\ Unload(w)
      BY <3>2, ReviewSets DEF RowInv, SessionTypes, LoadedRows, DecidedOnRow,
          RevisionsStored, Unload, Row, NoRow, Actors
    <3>3. QED
      BY <3>1, <3>2
  <2>2. WorkerTypes'
    BY GoEndTypes, GoCheckTypes DEF WorkerTypes, Stage
  <2>3. /\ JobTypes' /\ LedgerTypes' /\ ReviewerTypes'
        /\ ExtractedFromOwnRevision'
    BY DEF LedgerTypes, ReviewerTypes, ExtractedFromOwnRevision, JobTypes
  <2>4. QED
    BY <2>1, <2>2, <2>3 DEF IInv, TypeOK, RowInv
<1>13. CASE Fetch(w)
  <2> USE <1>13 DEF Fetch, CallRaises
  <2>1. RowInv'
    BY RowAlone
  <2>2. WorkerTypes'
    BY GoEndTypes, ReviewSets DEF WorkerTypes, Pc, Stage
  <2>3. /\ JobTypes' /\ LedgerTypes' /\ ReviewerTypes'
        /\ ExtractedFromOwnRevision'
    BY DEF LedgerTypes, ReviewerTypes, ExtractedFromOwnRevision, JobTypes
  <2>4. QED
    BY <2>1, <2>2, <2>3 DEF IInv, TypeOK, RowInv
<1>14. CASE Reconcile(w)
  <2> USE <1>14 DEF Reconcile
  <2>1. RowInv'
    <3>1. CASE Leave(w) /\ UNCHANGED <<state, revision, stored>>
      BY <3>1, LoadOrLeave
    <3>2. CASE Unload(w) /\ KnownRevision(wread[w])
      BY <3>2, ReviewSets DEF RowInv, SessionTypes, LoadedRows, DecidedOnRow,
          RevisionsStored, Unload, Row, NoRow, Actors, KnownRevision,
          ReviewStateOf, SaveState, State, SessionState
    <3>3. CASE Unload(w) /\ NewRevision(wread[w])
      BY <3>3, ReviewSets DEF RowInv, SessionTypes, LoadedRows, DecidedOnRow,
          RevisionsStored, Unload, Row, NoRow, Actors, NewRevision,
          SaveState, State, SessionState, WorkerTypes
    <3>4. QED
      BY <3>1, <3>2, <3>3
  <2>2. JobTypes'
    BY EnsureTypes DEF JobTypes, ReviewJob
  <2>3. WorkerTypes'
    BY GoEndTypes
  <2>4. LedgerTypes' /\ ReviewerTypes' /\ ExtractedFromOwnRevision'
    BY DEF LedgerTypes, ReviewerTypes, KnownRevision, NewRevision,
        ExtractedFromOwnRevision
  <2>5. QED
    BY <2>1, <2>2, <2>3, <2>4 DEF IInv, TypeOK, RowInv
<1>15. CASE BeginExtract(w)
  <2> USE <1>15 DEF BeginExtract
  <2>1. RowInv'
    BY LoadOrLeave, WorkerEnters DEF State, SessionState
  <2>2. WorkerTypes'
    BY GoEndTypes, GoCheckTypes DEF WorkerTypes, Stage
  <2>3. /\ JobTypes' /\ LedgerTypes' /\ ReviewerTypes'
        /\ ExtractedFromOwnRevision'
    BY DEF LedgerTypes, ReviewerTypes, ExtractedFromOwnRevision, JobTypes
  <2>4. QED
    BY <2>1, <2>2, <2>3 DEF IInv, TypeOK, RowInv
<1>16. CASE Inspect(w)
  <2> USE <1>16 DEF Inspect
  <2>1. RowInv'
    BY LoadOrLeave, WorkerEnters DEF State, SessionState
  <2>2. WorkerTypes'
    <3>1. row[w].revision \in Revisions \cup {None}
      BY DEF RowInv, SessionTypes, Row, Actors
    <3>2. QED
      BY <3>1, GoEndTypes, GoCheckTypes DEF WorkerTypes, Stage
  <2>3. /\ JobTypes' /\ LedgerTypes' /\ ReviewerTypes'
        /\ ExtractedFromOwnRevision'
    BY DEF LedgerTypes, ReviewerTypes, ExtractedFromOwnRevision, JobTypes
  <2>4. QED
    BY <2>1, <2>2, <2>3 DEF IInv, TypeOK, RowInv
<1>17. CASE Extract(w)
  <2> USE <1>17 DEF Extract, CallRaises
  <2>1. RowInv'
    BY RowAlone
  <2>2. WorkerTypes'
    BY GoEndTypes DEF WorkerTypes, Go, Pc, Stage
  <2>3. /\ JobTypes' /\ LedgerTypes' /\ ReviewerTypes'
        /\ ExtractedFromOwnRevision'
    BY DEF LedgerTypes, ReviewerTypes, ExtractedFromOwnRevision, JobTypes
  <2>4. QED
    BY <2>1, <2>2, <2>3 DEF IInv, TypeOK, RowInv
<1>18. CASE Store(w)
  <2> USE <1>18 DEF Store
  <2>1. RowInv'
    <3>1. CASE Leave(w) /\ UNCHANGED <<state, entryRev, stored>>
      BY <3>1, LoadOrLeave
    <3>2. ASSUME NEW new \in SUBSET Unused,
                 EnterFrom(w, "AWAITING_REVIEW"),
                 Insert(new, row[w].revision, wread[w])
          PROVE  RowInv'
      <4>1. SessionTypes' /\ LoadedRows'
        BY <3>2, ReviewSets DEF RowInv, SessionTypes, LoadedRows, EnterFrom,
            SaveState, Unload, Row, NoRow, Actors, Insert, State, SessionState
      <4>2. DecidedOnRow'
        BY <3>2, ReviewSets DEF RowInv, SessionTypes, DecidedOnRow, EnterFrom,
            Unload, Row, NoRow, Actors
      <4>3. RevisionsStored'
        BY <3>2, ReviewSets DEF RowInv, SessionTypes, RevisionsStored,
            EnterFrom, SaveState, Unload, Row, NoRow, Actors, Insert
      <4>4. QED
        BY <4>1, <4>2, <4>3 DEF RowInv
    <3>3. QED
      BY <3>1, <3>2
  <2>2. JobTypes'
    BY EnsureTypes DEF JobTypes, ReviewJob
  <2>3. WorkerTypes'
    BY GoEndTypes
  <2>4. LedgerTypes' /\ ReviewerTypes' /\ ExtractedFromOwnRevision'
    BY DEF LedgerTypes, ReviewerTypes, Insert, Unused, ValidEvidence,
        WorkerTypes, ExtractedFromOwnRevision
  <2>5. QED
    BY <2>1, <2>2, <2>3, <2>4 DEF IInv, TypeOK, RowInv
<1>19. CASE BeginSummarize(w)
  <2> USE <1>19 DEF BeginSummarize
  <2>1. RowInv'
    BY LoadOrLeave
  <2>2. WorkerTypes'
    <3>1. row[w].revision \in Revisions \cup {None}
      BY DEF RowInv, SessionTypes, Row, Actors
    <3>2. QED
      BY <3>1, GoEndTypes, GoCheckTypes DEF WorkerTypes, Stage
  <2>3. /\ JobTypes' /\ LedgerTypes' /\ ReviewerTypes'
        /\ ExtractedFromOwnRevision'
    BY DEF LedgerTypes, ReviewerTypes, ExtractedFromOwnRevision, JobTypes
  <2>4. QED
    BY <2>1, <2>2, <2>3 DEF IInv, TypeOK, RowInv
<1>20. CASE Summarize(w)
  <2> USE <1>20 DEF Summarize
  <2>1. RowInv'
    BY RowAlone
  <2>2. WorkerTypes'
    BY GoEndTypes DEF WorkerTypes, Go, Pc, Stage
  <2>3. /\ JobTypes' /\ LedgerTypes' /\ ReviewerTypes'
        /\ ExtractedFromOwnRevision'
    BY DEF LedgerTypes, ReviewerTypes, ExtractedFromOwnRevision, JobTypes
  <2>4. QED
    BY <2>1, <2>2, <2>3 DEF IInv, TypeOK, RowInv
<1>21. CASE StoreSummary(w)
  <2> USE <1>21 DEF StoreSummary
  <2>1. RowInv'
    BY LoadOrLeave
  <2>2. WorkerTypes'
    BY GoEndTypes
  <2>3. /\ JobTypes' /\ LedgerTypes' /\ ReviewerTypes'
        /\ ExtractedFromOwnRevision'
    BY DEF LedgerTypes, ReviewerTypes, WorkerTypes, ExtractedFromOwnRevision,
        JobTypes
  <2>4. QED
    BY <2>1, <2>2, <2>3 DEF IInv, TypeOK, RowInv
<1>22. CASE Crash(w)
  <2> USE <1>22 DEF Crash
  <2>1. RowInv'
    BY LoadOrLeave
  <2>2. WorkerTypes'
    BY FinishTypes
  <2>3. /\ JobTypes' /\ LedgerTypes' /\ ReviewerTypes'
        /\ ExtractedFromOwnRevision'
    BY ReviewBounds DEF LedgerTypes, ReviewerTypes, ExtractedFromOwnRevision,
        JobTypes
  <2>4. QED
    BY <2>1, <2>2, <2>3 DEF IInv, TypeOK, RowInv
<1>23. QED
  BY <1>1, <1>2, <1>3, <1>4, <1>5, <1>6, <1>7, <1>8, <1>9, <1>10, <1>11,
      <1>12, <1>13, <1>14, <1>15, <1>16, <1>17, <1>18, <1>19, <1>20, <1>21,
      <1>22 DEF WorkerStep

(* Requests that load and commit at once.                                  *)
LEMMA UserStepKeepsIInv ==
  ASSUME IInv, UserStep
  PROVE  IInv'
<1> SUFFICES ASSUME RowInv, LedgerTypes, JobTypes, WorkerTypes, ReviewerTypes,
                    ExtractedFromOwnRevision
             PROVE  IInv'
  BY DEF IInv, TypeOK, RowInv
<1> USE DEF session, ledger, jobRows, worker, reviewer, budgets
<1>1. ASSUME NEW t \in ReviewJob, CreateJob(t) PROVE IInv'
  <2> USE <1>1 DEF CreateJob, Api, ChangeState, SaveState, Prepared
  <2>1. RowInv'
    BY RowWritten DEF RowInv, SessionTypes, State, SessionState
  <2>2. JobTypes'
    BY InsertTypes
  <2>3. /\ WorkerTypes' /\ LedgerTypes' /\ ReviewerTypes'
        /\ ExtractedFromOwnRevision'
    BY DEF LedgerTypes, ReviewerTypes, ExtractedFromOwnRevision, WorkerTypes
  <2>4. QED
    BY <2>1, <2>2, <2>3 DEF IInv, TypeOK, RowInv
<1>2. ASSUME NEW j \in Jobs, RetryJob(j) PROVE IInv'
  <2> USE <1>2 DEF RetryJob, Api, ChangeState, SaveState, Prepared,
      Preparable, Revived
  <2>1. RowInv'
    BY RowWritten DEF RowInv, SessionTypes, State, SessionState
  <2>2. JobTypes'
    BY InsertTypes DEF JobTypes, ReviewJob
  <2>3. /\ WorkerTypes' /\ LedgerTypes' /\ ReviewerTypes'
        /\ ExtractedFromOwnRevision'
    BY DEF LedgerTypes, ReviewerTypes, ExtractedFromOwnRevision, WorkerTypes
  <2>4. QED
    BY <2>1, <2>2, <2>3 DEF IInv, TypeOK, RowInv
<1>3. ASSUME NEW j \in Jobs, ApiCancelJob(j) PROVE IInv'
  <2> USE <1>3 DEF ApiCancelJob, Api, ChangeState, SaveState
  <2>1. RowInv'
    BY RowWritten DEF RowInv, SessionTypes, State, SessionState
  <2>2. JobTypes'
    BY StatusTypes DEF JobStatus
  <2>3. /\ WorkerTypes' /\ LedgerTypes' /\ ReviewerTypes'
        /\ ExtractedFromOwnRevision'
    BY DEF LedgerTypes, ReviewerTypes, ExtractedFromOwnRevision, WorkerTypes
  <2>4. QED
    BY <2>1, <2>2, <2>3 DEF IInv, TypeOK, RowInv
<1>4. CASE Refresh
  <2> USE <1>4 DEF Refresh, Api, ChangeState, SaveState
  <2>1. RowInv'
    BY RowWritten DEF RowInv, SessionTypes, State, SessionState
  <2>2. JobTypes'
    BY EnsureTypes DEF ReviewJob
  <2>3. /\ WorkerTypes' /\ LedgerTypes' /\ ReviewerTypes'
        /\ ExtractedFromOwnRevision'
    BY DEF LedgerTypes, ReviewerTypes, ExtractedFromOwnRevision, WorkerTypes
  <2>4. QED
    BY <2>1, <2>2, <2>3 DEF IInv, TypeOK, RowInv
<1>5. CASE CancelSession
  <2> USE <1>5 DEF CancelSession, Api, SaveState
  <2>1. RowInv'
    BY RowWritten DEF RowInv, SessionTypes, State, SessionState
  <2>2. JobTypes'
    BY CancelTypes
  <2>3. /\ WorkerTypes' /\ LedgerTypes' /\ ReviewerTypes'
        /\ ExtractedFromOwnRevision'
    BY DEF LedgerTypes, ReviewerTypes, ExtractedFromOwnRevision, WorkerTypes
  <2>4. QED
    BY <2>1, <2>2, <2>3 DEF IInv, TypeOK, RowInv
<1>6. CASE RequestDeletion
  <2> USE <1>6 DEF RequestDeletion, Api, ChangeState, SaveState
  <2>1. RowInv'
    BY RowWritten DEF RowInv, SessionTypes, State, SessionState
  <2>2. JobTypes'
    BY CancelTypes
  <2>3. /\ WorkerTypes' /\ LedgerTypes' /\ ReviewerTypes'
        /\ ExtractedFromOwnRevision'
    BY DEF LedgerTypes, ReviewerTypes, ExtractedFromOwnRevision, WorkerTypes
  <2>4. QED
    BY <2>1, <2>2, <2>3 DEF IInv, TypeOK, RowInv
<1>7. QED
  BY <1>1, <1>2, <1>3, <1>4, <1>5, <1>6 DEF UserStep

(* The sweeps, webhooks, and Speakr.                                       *)
LEMMA OtherStepKeepsIInv ==
  ASSUME IInv, SweepStep \/ WebhookStep \/ SpeakrTranscribes \/ SpeakrEdits
  PROVE  IInv'
<1> SUFFICES ASSUME RowInv, LedgerTypes, JobTypes, WorkerTypes, ReviewerTypes,
                    ExtractedFromOwnRevision
             PROVE  IInv'
  BY DEF IInv, TypeOK, RowInv
<1> USE DEF session, ledger, jobRows, worker, reviewer, budgets
<1>1. ASSUME NEW j \in Jobs, RecoverAbandonedJob(j) PROVE IInv'
  <2> USE <1>1 DEF RecoverAbandonedJob
  <2>1. RowInv'
    BY RowAlone
  <2>2. JobTypes'
    BY StatusTypes DEF JobStatus
  <2>3. /\ WorkerTypes' /\ LedgerTypes' /\ ReviewerTypes'
        /\ ExtractedFromOwnRevision'
    BY DEF LedgerTypes, ReviewerTypes, ExtractedFromOwnRevision, WorkerTypes
  <2>4. QED
    BY <2>1, <2>2, <2>3 DEF IInv, TypeOK, RowInv
<1>2. CASE ScheduleReconciliation
  <2> USE <1>2 DEF ScheduleReconciliation
  <2>1. RowInv'
    BY RowAlone
  <2>2. JobTypes'
    BY InsertTypes DEF ReviewJob
  <2>3. /\ WorkerTypes' /\ LedgerTypes' /\ ReviewerTypes'
        /\ ExtractedFromOwnRevision'
    BY DEF LedgerTypes, ReviewerTypes, ExtractedFromOwnRevision, WorkerTypes
  <2>4. QED
    BY <2>1, <2>2, <2>3 DEF IInv, TypeOK, RowInv
<1>3. CASE WebhookCompleted
  <2> USE <1>3 DEF WebhookCompleted, Api
  <2>1. RowInv'
    BY RowWritten DEF RowInv, SessionTypes, State, SessionState
  <2>2. JobTypes'
    BY EnsureTypes DEF ReviewJob
  <2>3. /\ WorkerTypes' /\ LedgerTypes' /\ ReviewerTypes'
        /\ ExtractedFromOwnRevision'
    BY DEF LedgerTypes, ReviewerTypes, ExtractedFromOwnRevision, WorkerTypes
  <2>4. QED
    BY <2>1, <2>2, <2>3 DEF IInv, TypeOK, RowInv
<1>4. CASE WebhookFailed
  <2> USE <1>4 DEF WebhookFailed, Api, SaveState
  <2>1. RowInv'
    BY RowWritten DEF RowInv, SessionTypes, State, SessionState
  <2>2. JobTypes'
    BY CancelTypes
  <2>3. /\ WorkerTypes' /\ LedgerTypes' /\ ReviewerTypes'
        /\ ExtractedFromOwnRevision'
    BY DEF LedgerTypes, ReviewerTypes, ExtractedFromOwnRevision, WorkerTypes
  <2>4. QED
    BY <2>1, <2>2, <2>3 DEF IInv, TypeOK, RowInv
<1>5. CASE SpeakrTranscribes
  <2> USE <1>5 DEF SpeakrTranscribes
  <2>1. RowInv'
    BY RowAlone
  <2>2. /\ JobTypes' /\ WorkerTypes' /\ LedgerTypes' /\ ReviewerTypes'
        /\ ExtractedFromOwnRevision'
    BY DEF LedgerTypes, ReviewerTypes, ExtractedFromOwnRevision, JobTypes,
        WorkerTypes
  <2>3. QED
    BY <2>1, <2>2 DEF IInv, TypeOK, RowInv
<1>6. CASE SpeakrEdits
  <2> USE <1>6 DEF SpeakrEdits
  <2>1. RowInv'
    BY RowAlone
  <2>2. /\ JobTypes' /\ WorkerTypes' /\ LedgerTypes' /\ ReviewerTypes'
        /\ ExtractedFromOwnRevision'
    BY ReviewBounds DEF LedgerTypes, ReviewerTypes, ExtractedFromOwnRevision,
        JobTypes, WorkerTypes
  <2>3. QED
    BY <2>1, <2>2 DEF IInv, TypeOK, RowInv
<1>7. QED
  BY <1>1, <1>2, <1>3, <1>4, <1>5, <1>6 DEF SweepStep, WebhookStep

(* Requests on the ledger.                                                 *)
LEMMA ReviewerStepKeepsIInv ==
  ASSUME NEW r \in Reviewers, IInv, ReviewerStep(r)
  PROVE  IInv'
<1> SUFFICES ASSUME RowInv, LedgerTypes, JobTypes, WorkerTypes, ReviewerTypes,
                    ExtractedFromOwnRevision
             PROVE  IInv'
  BY DEF IInv, TypeOK, RowInv
<1> USE DEF session, ledger, jobRows, worker, reviewer, budgets
<1>1. CASE AddLoads(r)
  <2> USE <1>1 DEF AddLoads
  <2>1. RowInv'
    BY ReviewSets DEF Load, RowInv, SessionTypes, LoadedRows, DecidedOnRow,
        RevisionsStored, ReviewerTypes, Row, NoRow, Actors, Flushed, Unload
  <2>2. /\ JobTypes' /\ WorkerTypes' /\ LedgerTypes' /\ ReviewerTypes'
        /\ ExtractedFromOwnRevision'
    BY ReviewSets DEF LedgerTypes, ReviewerTypes, Flushed,
        ExtractedFromOwnRevision, JobTypes, WorkerTypes
  <2>3. QED
    BY <2>1, <2>2 DEF IInv, TypeOK, RowInv
<1>2. CASE AddCommits(r)
  <2> USE <1>2 DEF AddCommits
  <2>1. RowInv'
    <3>1. row[r].revision \in stored
      BY DEF RowInv, DecidedOnRow, RevisionsStored, Actors
    <3>2. PICK e \in Unused : Insert({e}, row[r].revision, None)
      OBVIOUS
    <3>3. SessionTypes' /\ LoadedRows'
      BY <3>1, <3>2, ReviewSets DEF RowInv, SessionTypes, LoadedRows,
          EnterFrom, SaveState, Unload, Row, NoRow, Actors, Insert, State,
          SessionState
    <3>4. DecidedOnRow'
      BY ReviewSets DEF RowInv, SessionTypes, DecidedOnRow, EnterFrom, Unload,
          Row, NoRow, Actors, Answer, ReviewerTypes
    <3>5. RevisionsStored'
      BY <3>1, <3>2, ReviewSets DEF RowInv, SessionTypes, RevisionsStored,
          EnterFrom, SaveState, Unload, Row, NoRow, Actors, Insert
    <3>6. QED
      BY <3>3, <3>4, <3>5 DEF RowInv
  <2>2. /\ JobTypes' /\ WorkerTypes' /\ LedgerTypes' /\ ReviewerTypes'
        /\ ExtractedFromOwnRevision'
    BY ReviewSets DEF LedgerTypes, ReviewerTypes, Answer, Insert, Unused,
        ExtractedFromOwnRevision, JobTypes, WorkerTypes
  <2>3. QED
    BY <2>1, <2>2 DEF IInv, TypeOK, RowInv
<1>3. ASSUME NEW e \in Entries, VerifyLoads(r, e) PROVE IInv'
  <2> USE <1>3 DEF VerifyLoads
  <2>1. RowInv'
    BY ReviewSets DEF Load, RowInv, SessionTypes, LoadedRows, DecidedOnRow,
        RevisionsStored, ReviewerTypes, Row, NoRow, Actors, Flushed, Unload
  <2>2. /\ JobTypes' /\ WorkerTypes' /\ LedgerTypes' /\ ReviewerTypes'
        /\ ExtractedFromOwnRevision'
    BY ReviewSets DEF LedgerTypes, ReviewerTypes, Flushed,
        ExtractedFromOwnRevision, JobTypes, WorkerTypes
  <2>3. QED
    BY <2>1, <2>2 DEF IInv, TypeOK, RowInv
<1>4. CASE VerifyFlushes(r)
  <2> USE <1>4 DEF VerifyFlushes, Verdict
  <2>1. RowInv'
    BY ReviewSets DEF RowInv, SessionTypes, LoadedRows, DecidedOnRow,
        RevisionsStored, ReviewerTypes, Row, NoRow, Actors, Flushed, Unload
  <2>2. /\ JobTypes' /\ WorkerTypes' /\ LedgerTypes' /\ ReviewerTypes'
        /\ ExtractedFromOwnRevision'
    BY ReviewSets DEF LedgerTypes, ReviewerTypes, Flushed,
        ExtractedFromOwnRevision, JobTypes, WorkerTypes
  <2>3. QED
    BY <2>1, <2>2 DEF IInv, TypeOK, RowInv
<1>5. CASE VerifyCommits(r)
  <2> USE <1>5 DEF VerifyCommits
  <2>1. RowInv'
    BY ReviewSets DEF EnterFrom, VersionMatches, SaveState, Answer, State,
        SessionState, RowInv, SessionTypes, LoadedRows, DecidedOnRow,
        RevisionsStored, ReviewerTypes, Row, NoRow, Actors, Flushed, Unload
  <2>2. /\ JobTypes' /\ WorkerTypes' /\ LedgerTypes' /\ ReviewerTypes'
        /\ ExtractedFromOwnRevision'
    BY ReviewSets DEF LedgerTypes, ReviewerTypes, Flushed, Answer,
        ExtractedFromOwnRevision, JobTypes, WorkerTypes
  <2>3. QED
    BY <2>1, <2>2 DEF IInv, TypeOK, RowInv
<1>6. CASE RequestIsStale(r)
  <2> USE <1>6 DEF RequestIsStale
  <2>1. RowInv'
    BY ReviewSets DEF Leave, Answer, RowInv, SessionTypes, LoadedRows,
        DecidedOnRow, RevisionsStored, ReviewerTypes, Row, NoRow, Actors,
        Flushed, Unload
  <2>2. /\ JobTypes' /\ WorkerTypes' /\ LedgerTypes' /\ ReviewerTypes'
        /\ ExtractedFromOwnRevision'
    BY ReviewSets DEF LedgerTypes, ReviewerTypes, Flushed, Answer,
        ExtractedFromOwnRevision, JobTypes, WorkerTypes
  <2>3. QED
    BY <2>1, <2>2 DEF IInv, TypeOK, RowInv
<1>7. QED
  BY <1>1, <1>2, <1>3, <1>4, <1>5, <1>6 DEF ReviewerStep

(* The system starts with a session that has been handed over.             *)
LEMMA InitIInv == Init => IInv
<1> SUFFICES ASSUME Init
             PROVE  IInv
  OBVIOUS
<1> USE ReviewSets, ReviewBounds DEF Init
<1>1. SessionTypes /\ LedgerTypes /\ JobTypes
  BY DEF SessionTypes, LedgerTypes, JobTypes, State, SessionState, Row, NoRow,
      JobStatus, ReviewJob
<1>2. WorkerTypes /\ ReviewerTypes
  BY DEF WorkerTypes, ReviewerTypes, Pc, Stage, Flushed
<1>3. /\ LoadedRows /\ DecidedOnRow /\ RevisionsStored
      /\ ExtractedFromOwnRevision
  BY DEF LoadedRows, DecidedOnRow, RevisionsStored, NoRow, Actors,
      ExtractedFromOwnRevision
<1>4. QED
  BY <1>1, <1>2, <1>3 DEF IInv, TypeOK

(* Every step of the system preserves the invariant.                       *)
LEMMA NextKeepsIInv == IInv /\ [Next]_vars => IInv'
<1> SUFFICES ASSUME IInv, [Next]_vars
             PROVE  IInv'
  OBVIOUS
<1>1. ASSUME NEW w \in Workers, WorkerStep(w) \/ Crash(w) PROVE IInv'
  BY <1>1, WorkerStepKeepsIInv
<1>2. CASE UserStep
  BY <1>2, UserStepKeepsIInv
<1>3. CASE SweepStep \/ WebhookStep \/ SpeakrTranscribes \/ SpeakrEdits
  BY <1>3, OtherStepKeepsIInv
<1>4. ASSUME NEW r \in Reviewers, ReviewerStep(r) PROVE IInv'
  BY <1>4, ReviewerStepKeepsIInv
<1>5. CASE UNCHANGED vars
  <2> USE <1>5 DEF IInv, TypeOK, vars, session, ledger, jobRows, worker,
        reviewer, budgets
  <2>1. RowInv'
    BY RowAlone DEF RowInv
  <2>2. LedgerTypes' /\ JobTypes' /\ ExtractedFromOwnRevision'
    BY DEF LedgerTypes, JobTypes, ExtractedFromOwnRevision
  <2>3. WorkerTypes' /\ ReviewerTypes'
    BY DEF WorkerTypes, ReviewerTypes
  <2>4. QED
    BY <2>1, <2>2, <2>3 DEF RowInv
<1>6. QED
  BY <1>1, <1>2, <1>3, <1>4, <1>5 DEF Next

(* IInv holds in every reachable state: whatever passes the version check  *)
(* was decided on the stored row, and every revision a ledger entry or a   *)
(* loaded row names is stored.                                             *)
THEOREM Invariance == Spec => []IInv
<1>1. Init => IInv
  BY InitIInv
<1>2. IInv /\ [Next]_vars => IInv'
  BY NextKeepsIInv
<1>3. QED
  BY <1>1, <1>2, PTL DEF Spec

(* Type correctness.                                                       *)
THEOREM TypeCorrect == Spec => []TypeOK
<1>1. IInv => TypeOK
  BY DEF IInv
<1>2. QED
  BY <1>1, Invariance, PTL

(* The entries that a worker stores are filed under the revision they were *)
(* extracted from, whatever happened to the session while the gateway      *)
(* worked.                                                                 *)
THEOREM ExtractedFromOwnRevisionHolds == Spec => []ExtractedFromOwnRevision
<1>1. IInv => ExtractedFromOwnRevision
  BY DEF IInv
<1>2. QED
  BY <1>1, Invariance, PTL

----------------------------------------------------------------------------
(* What a step does to a cancelled or tombstoned session, and to the       *)
(* current revision.                                                       *)

KeepsStop == state \in {"CANCELLED", "DELETE_PENDING"} => state' = state
KeepsDeletion == state = "DELETE_PENDING" => state' = state

(* A worker's step other than Reconcile.                                   *)
LEMMA WorkerKeepsStop ==
  ASSUME NEW w \in Workers, IInv, WorkerStep(w) \/ Crash(w), ~Reconcile(w)
  PROVE  KeepsStop /\ revision' = revision
<1> USE DEF IInv, session, ledger
<1>1. ASSUME NEW j \in Jobs, Claim(w, j)
      PROVE  KeepsStop /\ revision' = revision
  BY <1>1 DEF Claim, KeepsStop
<1>2. CASE Check(w)
  BY <1>2 DEF Check, KeepsStop
<1>3. CASE Recheck(w)
  BY <1>3 DEF Recheck, KeepsStop
<1>4. CASE Reload(w)
  BY <1>4 DEF Reload, KeepsStop
<1>5. CASE CancelJob(w)
  BY <1>5 DEF CancelJob, KeepsStop
<1>6. CASE CompleteJob(w)
  BY <1>6 DEF CompleteJob, KeepsStop
<1>7. CASE RequeuePending(w)
  BY <1>7 DEF RequeuePending, KeepsStop
<1>8. CASE FailJob(w)
  BY <1>8 DEF FailJob, RetryOrFail, Cancelled, Processing, Enter, KeepsStop
<1>9. CASE ResolveStale(w)
  BY <1>9 DEF ResolveStale, RetryOrFail, Cancelled, Processing, Enter,
      KeepsStop
<1>10. CASE BeginReconcile(w)
  BY <1>10 DEF BeginReconcile, IsStale, Leave, EnterFrom, VersionMatches,
      SaveState, LoadedRows, KeepsStop
<1>11. CASE Poll(w)
  BY <1>11 DEF Poll, KeepsStop
<1>12. CASE Polled(w)
  BY <1>12 DEF Polled, KeepsStop
<1>13. CASE Fetch(w)
  BY <1>13 DEF Fetch, KeepsStop
<1>14. CASE BeginExtract(w)
  BY <1>14 DEF BeginExtract, IsStale, Leave, EnterFrom, VersionMatches,
      SaveState, LoadedRows, KeepsStop
<1>15. CASE Inspect(w)
  BY <1>15 DEF Inspect, IsStale, Leave, EnterFrom, VersionMatches, SaveState,
      LoadedRows, KeepsStop, MayEnter, CanTransition, AllowedTransitions
<1>16. CASE Extract(w)
  BY <1>16 DEF Extract, KeepsStop
<1>17. CASE Store(w)
  BY <1>17 DEF Store, IsStale, Leave, EnterFrom, VersionMatches, SaveState,
      LoadedRows, KeepsStop, MayEnter, CanTransition, AllowedTransitions
<1>18. CASE BeginSummarize(w)
  BY <1>18 DEF BeginSummarize, KeepsStop
<1>19. CASE Summarize(w)
  BY <1>19 DEF Summarize, KeepsStop
<1>20. CASE StoreSummary(w)
  BY <1>20 DEF StoreSummary, KeepsStop
<1>21. CASE Crash(w)
  BY <1>21 DEF Crash, KeepsStop
<1>22. QED
  BY <1>1, <1>2, <1>3, <1>4, <1>5, <1>6, <1>7, <1>8, <1>9, <1>10, <1>11,
      <1>12, <1>13, <1>14, <1>15, <1>16, <1>17, <1>18, <1>19, <1>20, <1>21
      DEF WorkerStep

(* Reconcile: only a new revision becomes the current one.                 *)
LEMMA ReconcileReopens ==
  ASSUME NEW w \in Workers, IInv, Reconcile(w)
  PROVE  KeepsStop /\ ReviewReopens
<1> USE DEF IInv, KeepsStop, ReviewReopens
<1>1. CASE UNCHANGED <<state, revision>>
  BY <1>1
<1>2. CASE KnownRevision(wread[w])
  BY <1>2 DEF KnownRevision, SaveState
<1>3. CASE NewRevision(wread[w])
  <2>1. wread[w] \in Revisions
    BY DEF Reconcile, TypeOK, WorkerTypes
  <2>2. state' # "COMPLETE" /\ KeepsStop
    BY <1>3 DEF NewRevision, SaveState, RevisionsStored
  <2>3. \A e \in Entries : entryRev[e] # revision'
    BY <1>3, <2>1, ReviewSets DEF NewRevision, RevisionsStored
  <2>4. QED
    BY <1>3, <2>2, <2>3 DEF NewRevision
<1>4. QED
  BY <1>1, <1>2, <1>3 DEF Reconcile

(* A user's request.                                                       *)
LEMMA UserStepKeepsDeletion ==
  ASSUME IInv, UserStep
  PROVE  KeepsDeletion /\ revision' = revision
<1> USE DEF IInv, session, ledger
<1>1. ASSUME NEW t \in ReviewJob, CreateJob(t)
      PROVE  KeepsDeletion /\ revision' = revision
  BY <1>1 DEF CreateJob, Api, ChangeState, SaveState, KeepsDeletion,
      Preparable
<1>2. ASSUME NEW j \in Jobs, RetryJob(j)
      PROVE  KeepsDeletion /\ revision' = revision
  BY <1>2 DEF RetryJob, Api, ChangeState, SaveState, KeepsDeletion,
      Preparable, Revived
<1>3. ASSUME NEW j \in Jobs, ApiCancelJob(j)
      PROVE  KeepsDeletion /\ revision' = revision
  BY <1>3 DEF ApiCancelJob, Api, ChangeState, SaveState, KeepsDeletion
<1>4. CASE Refresh
  BY <1>4 DEF Refresh, Api, ChangeState, SaveState, KeepsDeletion
<1>5. CASE CancelSession
  BY <1>5 DEF CancelSession, Api, ChangeState, SaveState, KeepsDeletion
<1>6. CASE RequestDeletion
  BY <1>6 DEF RequestDeletion, Api, ChangeState, SaveState, KeepsDeletion
<1>7. QED
  BY <1>1, <1>2, <1>3, <1>4, <1>5, <1>6 DEF UserStep

(* The sweeps, webhooks, and Speakr.                                       *)
LEMMA OtherStepKeepsStop ==
  ASSUME IInv, SweepStep \/ WebhookStep \/ SpeakrTranscribes \/ SpeakrEdits
  PROVE  KeepsStop /\ revision' = revision
<1> USE DEF IInv, session, ledger
<1>1. ASSUME NEW j \in Jobs, RecoverAbandonedJob(j)
      PROVE  KeepsStop /\ revision' = revision
  BY <1>1 DEF RecoverAbandonedJob, KeepsStop
<1>2. CASE ScheduleReconciliation
  BY <1>2 DEF ScheduleReconciliation, KeepsStop
<1>3. CASE WebhookCompleted
  BY <1>3 DEF WebhookCompleted, KeepsStop, Api, SaveState
<1>4. CASE WebhookFailed
  BY <1>4 DEF WebhookFailed, KeepsStop, Api, SaveState
<1>5. CASE SpeakrTranscribes
  BY <1>5 DEF SpeakrTranscribes, KeepsStop
<1>6. CASE SpeakrEdits
  BY <1>6 DEF SpeakrEdits, KeepsStop
<1>7. QED
  BY <1>1, <1>2, <1>3, <1>4, <1>5, <1>6 DEF SweepStep, WebhookStep

(* A request on the ledger.                                                *)
LEMMA ReviewerKeepsStop ==
  ASSUME NEW r \in Reviewers, IInv, ReviewerStep(r)
  PROVE  KeepsStop /\ revision' = revision
<1> USE DEF IInv, session, ledger
<1>1. CASE AddLoads(r)
  BY <1>1 DEF AddLoads, KeepsStop
<1>2. CASE AddCommits(r)
  BY <1>2 DEF AddCommits, EnterFrom, VersionMatches, SaveState, LoadedRows,
      DecidedOnRow, KeepsStop
<1>3. ASSUME NEW e \in Entries, VerifyLoads(r, e)
      PROVE  KeepsStop /\ revision' = revision
  BY <1>3 DEF VerifyLoads, KeepsStop
<1>4. CASE VerifyFlushes(r)
  BY <1>4 DEF VerifyFlushes, KeepsStop
<1>5. CASE VerifyCommits(r)
  BY <1>5 DEF VerifyCommits, EnterFrom, VersionMatches, SaveState,
      LoadedRows, DecidedOnRow, KeepsStop
<1>6. CASE RequestIsStale(r)
  BY <1>6 DEF RequestIsStale, KeepsStop
<1>7. QED
  BY <1>1, <1>2, <1>3, <1>4, <1>5, <1>6 DEF ReviewerStep

(* One step of anybody.                                                    *)
LEMMA NextStops == IInv /\ [Next]_vars => [StopHolds]_vars
<1> SUFFICES ASSUME IInv, [Next]_vars
             PROVE  [StopHolds]_vars
  OBVIOUS
<1>1. ASSUME NEW w \in Workers, WorkerStep(w) \/ Crash(w) PROVE StopHolds
  BY <1>1, WorkerKeepsStop, ReconcileReopens DEF KeepsStop, StopHolds
<1>2. CASE UserStep
  BY <1>2, UserStepKeepsDeletion DEF KeepsDeletion, StopHolds
<1>3. CASE SweepStep \/ WebhookStep \/ SpeakrTranscribes \/ SpeakrEdits
  BY <1>3, OtherStepKeepsStop DEF KeepsStop, StopHolds
<1>4. ASSUME NEW r \in Reviewers, ReviewerStep(r) PROVE StopHolds
  BY <1>4, ReviewerKeepsStop DEF KeepsStop, StopHolds
<1>5. QED
  BY <1>1, <1>2, <1>3, <1>4 DEF Next

(* No step of a worker, a webhook, a sweep or a reviewer undoes a          *)
(* cancellation, and nothing undoes a deletion request.                    *)
THEOREM StopsHoldAlways == Spec => StopsHold
BY NextStops, Invariance, PTL DEF Spec, StopsHold

(* A changed transcript always reopens the review: COMPLETE is left, the   *)
(* new ledger is empty, and no decision on the old one survives.           *)
THEOREM NewRevisionReopensReviewHolds == Spec => NewRevisionReopensReview
<1>1. ASSUME IInv, [Next]_vars PROVE [ReviewReopens]_vars
  <2>1. ASSUME NEW w \in Workers, WorkerStep(w) \/ Crash(w)
        PROVE  ReviewReopens
    BY <1>1, <2>1, WorkerKeepsStop, ReconcileReopens DEF ReviewReopens
  <2>2. CASE UserStep
    BY <1>1, <2>2, UserStepKeepsDeletion DEF ReviewReopens
  <2>3. CASE SweepStep \/ WebhookStep \/ SpeakrTranscribes \/ SpeakrEdits
    BY <1>1, <2>3, OtherStepKeepsStop DEF ReviewReopens
  <2>4. ASSUME NEW r \in Reviewers, ReviewerStep(r) PROVE ReviewReopens
    BY <1>1, <2>4, ReviewerKeepsStop DEF ReviewReopens
  <2>5. QED
    BY <1>1, <2>1, <2>2, <2>3, <2>4 DEF Next
<1>2. QED
  BY <1>1, Invariance, PTL DEF Spec, NewRevisionReopensReview

(* A step of the row that the abstract life cycle has, or none.            *)
Follows == state' = state \/ Lifecycle!Next

(* What is enough for that: the table, or the way a stopped session is     *)
(* revived.                                                                *)
LEMMA FollowsTable ==
  /\ CanTransition(state, state') => Follows
  /\ (state \in {"FAILED", "CANCELLED"}
        /\ state' \in {"RECONCILING", "EXTRACTING"}) => Follows
<1>1. Lifecycle!AllowedTransitions = AllowedTransitions
  BY DEF Lifecycle!AllowedTransitions, AllowedTransitions
<1>2. QED
  BY <1>1 DEF Follows, CanTransition, Lifecycle!Next, Lifecycle!Move,
      Lifecycle!Revive

(* The steps of a worker that enter a state: the table admits the state    *)
(* from that of the loaded row, and the row is current when it is written. *)
LEMMA WorkerFollows ==
  ASSUME NEW w \in Workers, IInv, WorkerStep(w) \/ Crash(w)
  PROVE  Follows
<1> USE DEF session
<1>0. ASSUME state' = state PROVE Follows
  BY <1>0 DEF Follows
<1>1. ASSUME NEW s, EnterFrom(w, s), CanTransition(row[w].state, s)
      PROVE  Follows
  BY <1>1, FollowsTable
    DEF EnterFrom, VersionMatches, SaveState, IInv, LoadedRows, Follows
<1>2. CASE FailJob(w) \/ ResolveStale(w)
  <2>1. \A s \in Processing \cup {"RETRY_PENDING"} :
          CanTransition(s, "FAILED")
    BY DEF Processing, CanTransition, AllowedTransitions
  <2>2. QED
    BY <1>0, <1>2, <2>1, FollowsTable
      DEF FailJob, ResolveStale, RetryOrFail, Enter, SaveState, Follows
<1>3. CASE BeginReconcile(w)
  <2>1. \A s \in {"TRANSCRIBING", "TRANSCRIPT_READY", "AWAITING_REVIEW",
                  "COMPLETE", "RETRY_PENDING"} :
          CanTransition(s, "RECONCILING")
    BY DEF CanTransition, AllowedTransitions
  <2>2. \A s : CanTransition(s, s)
    BY DEF CanTransition
  <2>3. QED
    BY <1>0, <1>1, <1>3, <2>1, <2>2 DEF BeginReconcile
<1>4. CASE BeginExtract(w)
  <2>1. \A s \in {"RETRY_PENDING", "TRANSCRIPT_READY", "AWAITING_REVIEW"} :
          CanTransition(s, "EXTRACTING")
    BY DEF CanTransition, AllowedTransitions
  <2>2. \A s : CanTransition(s, s)
    BY DEF CanTransition
  <2>3. QED
    BY <1>0, <1>1, <1>4, <2>1, <2>2 DEF BeginExtract
<1>5. CASE Inspect(w) \/ Store(w)
  BY <1>0, <1>1, <1>5 DEF Inspect, Store, MayEnter
<1>6. CASE Reconcile(w)
  <2>1. /\ \A s \in {"TRANSCRIPT_READY", "AWAITING_REVIEW", "COMPLETE"} :
             CanTransition("RECONCILING", s)
        /\ \A s \in {"TRANSCRIBING", "RECONCILING"} :
             CanTransition(s, "TRANSCRIPT_READY")
        /\ CanTransition("COMPLETE", "AWAITING_REVIEW")
    BY DEF CanTransition, AllowedTransitions
  <2>2. ASSUME NEW r, KnownRevision(r) PROVE Follows
    BY <1>0, <2>1, <2>2, FollowsTable
      DEF KnownRevision, SaveState, ReviewStateOf
  <2>3. ASSUME NEW r, NewRevision(r) PROVE Follows
    BY <1>0, <2>1, <2>3, FollowsTable DEF NewRevision, SaveState
  <2>4. QED
    BY <1>0, <1>6, <2>2, <2>3 DEF Reconcile
<1>7. QED
  BY <1>0, <1>2, <1>3, <1>4, <1>5, <1>6
    DEF WorkerStep, Crash, Claim, Check, Recheck, Reload, CancelJob,
        CompleteJob, RequeuePending, Poll, Polled, Fetch, Extract,
        BeginSummarize, Summarize, StoreSummary

(* Requests load and commit at once; a stopped session is revived.         *)
LEMMA UserStepFollows ==
  ASSUME IInv, UserStep
  PROVE  Follows
<1> USE DEF session, ChangeState, SaveState
<1>0. ASSUME state' = state PROVE Follows
  BY <1>0 DEF Follows
<1>1. /\ \A s \in State : CanTransition(s, "DELETE_PENDING")
      /\ \A s \in {"TRANSCRIBING", "RECONCILING", "TRANSCRIPT_READY",
                    "EXTRACTING", "RETRY_PENDING"} :
           CanTransition(s, "CANCELLED")
      /\ \A s \in {"TRANSCRIBING", "RECONCILING", "TRANSCRIPT_READY",
                    "AWAITING_REVIEW", "COMPLETE", "RETRY_PENDING"} :
           CanTransition(s, "RECONCILING")
      /\ \A s \in {"TRANSCRIPT_READY", "AWAITING_REVIEW",
                    "RETRY_PENDING"} :
           CanTransition(s, "EXTRACTING")
      /\ \A s \in {"FAILED", "CANCELLED"} : CanTransition(s, "RETRY_PENDING")
  BY DEF CanTransition, AllowedTransitions, State, SessionState
<1>2. state \in State
  BY DEF IInv, TypeOK, SessionTypes
<1>3. ASSUME NEW t \in ReviewJob, CreateJob(t) PROVE Follows
  BY <1>0, <1>1, <1>3, FollowsTable
    DEF CreateJob, Preparable, Prepared, ReviewJob
<1>4. ASSUME NEW j \in Jobs, RetryJob(j) PROVE Follows
  <2>1. CASE state \in {"FAILED", "CANCELLED"}
    BY <1>0, <1>1, <1>4, <2>1, FollowsTable
      DEF RetryJob, Preparable, Prepared, Revived
  <2>2. CASE state \notin {"FAILED", "CANCELLED"}
    BY <1>0, <1>1, <1>4, <2>2, FollowsTable
      DEF RetryJob, Preparable, Prepared, Revived
  <2>3. QED
    BY <2>1, <2>2
<1>5. CASE Refresh
  BY <1>0, <1>5, FollowsTable DEF Refresh, Revived
<1>6. ASSUME NEW j \in Jobs, ApiCancelJob(j) PROVE Follows
  BY <1>0, <1>1, <1>6, FollowsTable DEF ApiCancelJob
<1>7. CASE CancelSession \/ RequestDeletion
  BY <1>0, <1>1, <1>2, <1>7, FollowsTable DEF CancelSession, RequestDeletion
<1>8. QED
  BY <1>3, <1>4, <1>5, <1>6, <1>7 DEF UserStep

(* Ledger requests decide on the row they loaded; webhooks on the stored   *)
(* one; sweeps and Speakr leave it alone.                                  *)
LEMMA OtherStepFollows ==
  ASSUME IInv,
         \/ \E r \in Reviewers : ReviewerStep(r)
         \/ SweepStep \/ WebhookStep \/ SpeakrTranscribes \/ SpeakrEdits
         \/ UNCHANGED vars
  PROVE  Follows
<1> USE DEF session
<1>0. ASSUME state' = state PROVE Follows
  BY <1>0 DEF Follows
<1>1. /\ \A s \in {"TRANSCRIPT_READY", "AWAITING_REVIEW", "COMPLETE"} :
           CanTransition(s, "AWAITING_REVIEW")
      /\ CanTransition("AWAITING_REVIEW", "COMPLETE")
      /\ CanTransition("TRANSCRIBING", "FAILED")
  BY DEF CanTransition, AllowedTransitions
<1>2. ASSUME NEW r \in Reviewers, ReviewerStep(r) PROVE Follows
  <2>1. CASE AddCommits(r)
    BY <1>0, <1>1, <2>1, FollowsTable DEF AddCommits, EnterFrom,
        VersionMatches, SaveState, IInv, LoadedRows, DecidedOnRow
  <2>2. CASE VerifyCommits(r)
    BY <1>0, <1>1, <2>2, FollowsTable DEF VerifyCommits, EnterFrom,
        VersionMatches, SaveState, IInv, LoadedRows, DecidedOnRow
  <2>3. QED
    BY <1>0, <1>2, <2>1, <2>2 DEF ReviewerStep, AddLoads, VerifyLoads,
        VerifyFlushes, RequestIsStale
<1>3. CASE SweepStep \/ SpeakrTranscribes \/ SpeakrEdits
  BY <1>0, <1>3 DEF SweepStep, RecoverAbandonedJob, ScheduleReconciliation,
      SpeakrTranscribes, SpeakrEdits
<1>4. CASE WebhookStep
  BY <1>0, <1>1, <1>4, FollowsTable DEF WebhookStep, WebhookCompleted,
      WebhookFailed, SaveState
<1>5. CASE UNCHANGED vars
  BY <1>0, <1>5 DEF vars
<1>6. QED
  BY <1>2, <1>3, <1>4, <1>5

(* The session row implements the abstract life cycle, with reviewers,     *)
(* workers, webhooks and requests interleaved in any way.                  *)
THEOREM SessionImplementsLifecycle == Spec => ImplementsLifecycle
<1>1. Init => Lifecycle!Init
  BY DEF Init, Lifecycle!Init
<1>2. IInv /\ [Next]_vars => [Lifecycle!Next]_state
  <2>1. ASSUME IInv, [Next]_vars PROVE Follows
    BY <2>1, WorkerFollows, UserStepFollows, OtherStepFollows DEF Next
  <2>2. QED
    BY <2>1 DEF Follows
<1>3. QED
  BY <1>1, <1>2, Invariance, PTL DEF Spec, ImplementsLifecycle, Lifecycle!Spec

----------------------------------------------------------------------------
(* A session that is being processed has the job that moves it on, if one  *)
(* worker runs the jobs, leases are honoured and nobody makes one of four  *)
(* requests.  The invariant says of the worker what it holds and what it   *)
(* knows, and of the session that the job it waits for is not finished.    *)

Reconciles(w) ==
  \/ wpc[w] \in {"poll", "polled", "fetch", "fetched", "reconcile"}
  \/ wstage[w] \in {"poll", "fetch"}
Extracts(w) ==
  \/ wpc[w] \in {"inspect", "extract", "extracted", "store"}
  \/ wstage[w] \in {"inspect", "extract"}
Summarizes(w) ==
  wpc[w] \in {"summarize", "summarized", "keep"} \/ wstage[w] = "summarize"

Waiting == {"TRANSCRIBING", "RETRY_PENDING"}

(* A worker holds a RUNNING job of the type it works on; a RECONCILE job   *)
(* has taken the session out of Waiting, where nobody else puts it, and    *)
(* nobody starts an extraction beside the one that runs.                   *)
AtWork(w) ==
  /\ wpc[w] # "cancel"
  /\ wjob[w] # None => jobStatus[wjob[w]] = "RUNNING"
  /\ Reconciles(w) => jobType[wjob[w]] = "RECONCILE" /\ state \notin Waiting
  /\ Extracts(w) => jobType[wjob[w]] = "EXTRACT"
  /\ Summarizes(w) => jobType[wjob[w]] = "SUMMARIZE"
  /\ wpc[w] \in {"begin", "inspect", "store"} =>
       (state \in Waiting => row[w].state \in Waiting)
  /\ wpc[w] \in {"inspect", "store"} =>
       (state = "EXTRACTING" => row[w].state = "EXTRACTING")

(* A job of type t is queued, or running and not yet done.                 *)
Pending(t) ==
  \E j \in Jobs : /\ jobType[j] = t /\ IsActive(j)
                  /\ \A w \in Workers : wjob[w] = j => wpc[w] # "complete"

Attended ==
  /\ state \in {"TRANSCRIBING", "RECONCILING"} => Pending("RECONCILE")
  /\ state = "EXTRACTING" => Pending("EXTRACT")
  /\ state = "RETRY_PENDING" => Pending("RECONCILE") \/ Pending("EXTRACT")

Stopped == state \in {"CANCELLED", "DELETE_PENDING"}

SoleInv == Stopped \/ (Attended /\ \A w \in Workers : AtWork(w))

(* Each of the others can leave a session in processing without a job.     *)
SafeRequests ==
  RequestKind \ {"retry", "refresh", "cancel_job", "webhook_failed"}

(* Nothing leaves a stop but another one, if no job is retried and nothing *)
(* refreshed.                                                              *)
LEMMA StoppedStays ==
  ASSUME Requests \subseteq SafeRequests, IInv, [Next]_vars, Stopped
  PROVE  Stopped'
<1>1. [StopHolds]_vars
  BY NextStops
<1>2. CASE UserStep
  BY <1>1, <1>2 DEF StopHolds, Stopped, SafeRequests, UserStep, CreateJob,
      Preparable, Prepared, ReviewJob, ChangeState, SaveState, RetryJob,
      ApiCancelJob, Refresh, CancelSession, RequestDeletion, session
<1>3. CASE UNCHANGED vars
  BY <1>3 DEF vars, session, Stopped
<1>4. QED
  BY <1>1, <1>2, <1>3 DEF StopHolds, Stopped

(* The step of the sole worker.                                            *)
LEMMA WorkerKeepsSoleInv ==
  ASSUME NEW w \in Workers, Workers = {w}, LeasesHonoured, IInv, SoleInv,
         WorkerStep(w) \/ Crash(w), ~Stopped
  PROVE  SoleInv'
<1> SUFFICES ASSUME JobTypes, WorkerTypes, LoadedRows, SessionTypes,
                    Attended, AtWork(w)
             PROVE  Attended' /\ AtWork(w)'
  BY DEF SoleInv, IInv, TypeOK
<1> USE ReviewSets
    DEF session, ledger, jobRows, worker, reviewer, budgets, JobTypes,
        WorkerTypes, IsActive, Pending, Reconciles, Extracts, Summarizes,
        Waiting, Stopped
<1>1. ASSUME NEW j \in Jobs, Claim(w, j) PROVE Attended' /\ AtWork(w)'
  BY <1>1 DEF Claim, Attended, AtWork
<1>2. CASE Check(w) \/ Recheck(w) \/ Reload(w)
  <2>1. Attended'
    BY <1>2 DEF Check, Recheck, Reload, GoEnd, Go, Attended, Stage
  <2>2. AtWork(w)'
    BY <1>2 DEF Check, Recheck, Reload, GoEnd, Go, Load, Cancelled,
        AtWork, Attended, Stage, SessionTypes, Actors
  <2>3. QED
    BY <2>1, <2>2
<1>3. CASE CancelJob(w) \/ CompleteJob(w) \/ RequeuePending(w)
  BY <1>3 DEF CancelJob, CompleteJob, RequeuePending, SetStatus, Finish,
      Cancelled, Attended, AtWork
<1>4. CASE FailJob(w) \/ ResolveStale(w)
  BY <1>4 DEF FailJob, ResolveStale, RetryOrFail, Enter, SaveState,
      Processing, SetStatus, Finish, Cancelled, Attended, AtWork
<1>5. CASE BeginReconcile(w)
  BY <1>5 DEF BeginReconcile, GoEnd, GoCheck, EnterFrom, IsStale,
      VersionMatches, SaveState, Leave, Unload, Attended, AtWork
<1>6. CASE Poll(w) \/ Polled(w) \/ Fetch(w)
  BY <1>6 DEF Poll, Polled, Fetch, CallRaises, Go, GoEnd, GoCheck, Leave,
      Unload, Load, Cancelled, Attended, AtWork
<1>7. CASE Reconcile(w)
  BY <1>7 DEF Reconcile, KnownRevision, NewRevision, EnsureJob, InsertJob,
      Insertable, SaveState, GoEnd, ReviewStateOf, Attended, AtWork
<1>8. CASE BeginExtract(w)
  BY <1>8 DEF BeginExtract, GoEnd, GoCheck, EnterFrom, IsStale,
      VersionMatches, SaveState, Leave, Unload, Attended, AtWork
<1>9. CASE Inspect(w) \/ Extract(w)
  BY <1>9 DEF Inspect, Extract, CallRaises, Go, GoEnd, GoCheck, EnterFrom,
      SaveState, Leave, Unload, Attended, AtWork
<1>10. CASE Store(w)
  BY <1>10 DEF Store, EnsureJob, InsertJob, Insertable, GoEnd, EnterFrom,
      SaveState, Leave, Unload, Attended, AtWork
<1>11. CASE BeginSummarize(w) \/ Summarize(w) \/ StoreSummary(w)
  BY <1>11 DEF BeginSummarize, Summarize, StoreSummary, Go, GoEnd, GoCheck,
      Leave, Unload, Attended, AtWork
<1>12. CASE Crash(w)
  BY <1>12 DEF Crash, Finish, Attended, AtWork
<1>13. QED
  BY <1>1, <1>2, <1>3, <1>4, <1>5, <1>6, <1>7, <1>8, <1>9, <1>10, <1>11,
     <1>12 DEF WorkerStep

(* Everyone else: reviewers move the session among the states of a review, *)
(* whoever starts a job inserts it, and no one takes a job away.           *)
LEMMA OtherStepKeepsSoleInv ==
  ASSUME LeasesHonoured, Requests \subseteq SafeRequests, IInv, SoleInv,
         \/ \E r \in Reviewers : ReviewerStep(r)
         \/ SweepStep \/ UserStep \/ WebhookStep
         \/ SpeakrTranscribes \/ SpeakrEdits \/ UNCHANGED vars,
         ~Stopped
  PROVE  SoleInv'
<1> DEFINE Kept == Attended' /\ \A w \in Workers : AtWork(w)'
<1> SUFFICES ASSUME JobTypes, WorkerTypes, LoadedRows, DecidedOnRow,
                    SessionTypes, Attended, \A w \in Workers : AtWork(w)
             PROVE  Stopped' \/ Kept
  BY DEF SoleInv, IInv, TypeOK
<1> USE ReviewSets
    DEF session, ledger, jobRows, worker, reviewer, budgets, JobTypes,
        WorkerTypes, IsActive, Pending, Reconciles, Extracts, Summarizes,
        Waiting, Stopped
<1>1. ASSUME NEW r \in Reviewers, ReviewerStep(r) PROVE Kept
  <2>1. UNCHANGED <<jobRows, worker>>
    BY <1>1 DEF ReviewerStep, AddLoads, AddCommits, VerifyLoads,
        VerifyFlushes, VerifyCommits, RequestIsStale
  <2>2. \A w \in Workers : row'[w] = row[w]
    BY <1>1 DEF ReviewerStep, AddLoads, AddCommits, VerifyLoads,
        VerifyFlushes, VerifyCommits, RequestIsStale, EnterFrom, Load,
        Leave, Unload, SessionTypes, Actors
  <2>3. state' = state \/ state' \in {"AWAITING_REVIEW", "COMPLETE"}
    BY <1>1 DEF ReviewerStep, AddLoads, AddCommits, VerifyLoads,
        VerifyFlushes, VerifyCommits, RequestIsStale, EnterFrom, SaveState
  <2>4. QED
    BY <2>1, <2>2, <2>3 DEF Attended, AtWork
<1>2. ASSUME NEW t, InsertJob(t), UNCHANGED <<row, worker>>,
             \/ state' = state
             \/ t = "RECONCILE" /\ state' = "RECONCILING"
             \/ t = "EXTRACT" /\ state' = "EXTRACTING" /\ ~Active(t)
      PROVE  Kept
  <2>1. Attended'
    BY <1>2 DEF InsertJob, Insertable, Attended
  <2>2. \A w \in Workers : AtWork(w)'
    BY <1>2 DEF InsertJob, Insertable, Active, AtWork
  <2>3. QED
    BY <2>1, <2>2
<1>3. ASSUME UNCHANGED <<state, row, worker, jobRows>> PROVE Kept
  BY <1>3 DEF Attended, AtWork
<1>4. CASE SweepStep
  <2>1. ASSUME NEW j \in Jobs, RecoverAbandonedJob(j) PROVE Kept
    BY <2>1 DEF RecoverAbandonedJob, LeaseExpired, SetStatus, Attended, AtWork
  <2>2. QED
    BY <1>2, <1>4, <2>1 DEF SweepStep, ScheduleReconciliation
<1>5. CASE WebhookStep
  BY <1>2, <1>3, <1>5 DEF WebhookStep, WebhookCompleted, WebhookFailed,
      EnsureJob, Api, SafeRequests
<1>6. CASE UserStep
  <2>1. ASSUME NEW t \in ReviewJob, CreateJob(t) PROVE Kept
    <3>1. \/ state' = state
          \/ t = "RECONCILE" /\ state' = "RECONCILING"
          \/ t = "EXTRACT" /\ state' = "EXTRACTING"
      BY <2>1 DEF CreateJob, Prepared, ChangeState, SaveState, ReviewJob
    <3>2. QED
      BY <1>2, <2>1, <3>1 DEF CreateJob, Api
  <2>2. CASE CancelSession \/ RequestDeletion
    BY <2>2 DEF CancelSession, RequestDeletion, ChangeState, SaveState
  <2>3. QED
    BY <1>6, <2>1, <2>2 DEF UserStep, RetryJob, ApiCancelJob, Refresh,
        SafeRequests
<1>7. CASE SpeakrTranscribes \/ SpeakrEdits \/ UNCHANGED vars
  BY <1>3, <1>7 DEF SpeakrTranscribes, SpeakrEdits, vars
<1>8. QED
  BY <1>1, <1>4, <1>5, <1>6, <1>7

(* While one worker runs the jobs and no job is retried or cancelled, no   *)
(* session refreshed and no transcription reported failed, neither failure *)
(* nor crash, new job, new revision or review leaves a session in          *)
(* processing without the job that moves it on.                            *)
THEOREM ProcessingAttended ==
  ASSUME LeasesHonoured, NEW w0, Workers = {w0},
         Requests \subseteq SafeRequests
  PROVE  Spec => []ProcessingHasJob
<1>1. Init => SoleInv
  BY ReviewSets DEF Init, SoleInv, Attended, AtWork, Reconciles, Extracts,
      Summarizes, Waiting, Pending, IsActive
<1>2. IInv /\ SoleInv /\ [Next]_vars => SoleInv'
  BY StoppedStays, WorkerKeepsSoleInv, OtherStepKeepsSoleInv
    DEF Next, SoleInv
<1>3. SoleInv => ProcessingHasJob
  BY DEF SoleInv, Stopped, Attended, Pending, ProcessingHasJob, Active
<1>4. QED
  BY <1>1, <1>2, <1>3, Invariance, PTL DEF Spec
=============================================================================
