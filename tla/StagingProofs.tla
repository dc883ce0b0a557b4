---------------------------- MODULE StagingProofs ----------------------------
(***************************************************************************)
(* The properties of MediaStaging for any number of uploads, suffixes and  *)
(* chunks.                                                                 *)
(***************************************************************************)
EXTENDS MediaStaging, TLAPS

(* Nothing but a new session becomes one that is being uploaded to, and    *)
(* nothing but a deletion that is pending becomes a deletion that is done. *)
LEMMA TransitionFacts ==
  ASSUME NEW s \in SessionState, NEW t \in AllowedTransitions[s]
  PROVE  /\ t \in SessionState /\ t # "CREATED"
         /\ t = "UPLOADING" => s = "CREATED"
         /\ t = "DELETED" => s = "DELETE_PENDING"
         /\ s # "DELETED"
         /\ s = "DELETE_PENDING" => t = "DELETED"
BY DEF SessionState, AllowedTransitions

(* UPLOADING is committed for a session without a recording only, and for  *)
(* none whose deletion was confirmed.                                      *)
LEMMA CommitUploadingFacts ==
  ASSUME IInv, NEW holds, CommitUploading(holds)
  PROVE  /\ media = None /\ confirm = "none" /\ state' = "UPLOADING"
         /\ fresh' \subseteq fresh \cup holds
<1>1. state \in SessionState /\ CanTransition(state, "UPLOADING")
  BY DEF IInv, TypeOK, CommitUploading, MayUpload
<1>2. state \in {"CREATED", "UPLOADING"}
  BY <1>1, TransitionFacts DEF CanTransition
<1>3. QED
  BY <1>2 DEF IInv, CommitUploading

(* Every step of an upload keeps IInv.                                     *)
LEMMA UploadKeepsIInv ==
  ASSUME IInv, NEW u \in Uploads, Upload(u)
  PROVE  IInv'
<1> USE NoneAssumption, ChunksAssumption DEF IInv, TypeOK, Receiving
<1>1. CASE AnswerRetained(u)
  BY <1>1 DEF AnswerRetained, Reply, row, files, history, RecordedHasFile,
              StagingCleared
<1>2. CASE Refuse(u)
  BY <1>2 DEF Refuse, Reply, row, files, history, RecordedHasFile,
              StagingCleared
<1>3. CASE MkdirFails(u)
  <2>1. /\ media = None /\ confirm = "none" /\ state' = "UPLOADING"
        /\ fresh' \subseteq fresh /\ Receiving' = Receiving
    BY <1>3, CommitUploadingFacts DEF MkdirFails, Reply
  <2>2. UNCHANGED <<media, staging, dest, written, suffix, confirm, overlap,
                    crashed>>
    BY <1>3 DEF MkdirFails, files, history
  <2>3. TypeOK'
    BY <1>3, <2>1, <2>2 DEF MkdirFails, Reply, SessionState
  <2>4. QED
    BY <2>1, <2>2, <2>3 DEF RecordedHasFile, StagingCleared
<1>4. CASE Begin(u)
  <2>1. /\ media = None /\ confirm = "none" /\ state' = "UPLOADING"
        /\ fresh' \subseteq fresh \cup {u}
    BY <1>4, CommitUploadingFacts DEF Begin
  <2>2. /\ media' = None /\ confirm' = "none" /\ staging' = u
        /\ Receiving' = Receiving \cup {u} /\ u \notin Receiving
        /\ fresh' \subseteq Receiving'
        /\ overlap' = overlap \cup (Receiving \X {u}) \cup ({u} \X Receiving)
    BY <1>4, <2>1 DEF Begin, Reply
  <2>3. TypeOK'
    BY <1>4, <2>1, <2>2 DEF Begin, Reply, SessionState
  <2>4. \A v, w \in Receiving' : v # w => <<v, w>> \in overlap'
    BY <2>2
  <2>5. QED
    BY <2>1, <2>2, <2>3, <2>4 DEF RecordedHasFile, StagingCleared
<1>5. CASE ReceiveChunk(u)
  <2>1. written' \in [Uploads -> 0 .. Chunks]
    BY <1>5 DEF ReceiveChunk, MoreChunks
  <2>2. \A v \in Uploads : v # u => written'[v] = written[v]
    BY <1>5 DEF ReceiveChunk
  <2>3. /\ written[u] < Chunks
        /\ UNCHANGED <<state, media, fresh, staging, dest, upc, suffix, confirm,
                       overlap, crashed>>
    BY <1>5 DEF ReceiveChunk, MoreChunks, row, history
  <2>4. RecordedHasFile'   \* u's own file is not complete before
    BY <2>2, <2>3 DEF RecordedHasFile
  <2>5. QED
    BY <2>1, <2>3, <2>4 DEF StagingCleared
<1>6. ASSUME upc[u] = "receiving", Except(u),
             UNCHANGED <<dest, written, suffix, confirm, history>>
      PROVE  IInv'
  <2>1. /\ Receiving' = Receiving \ {u} /\ staging' = None /\ media' = media
        /\ u \in Receiving
    BY <1>6 DEF Except, Reply, RemoveStaging
  <2>2. /\ fresh' \subseteq Receiving'
        /\ fresh' # {} => state' = "UPLOADING"
        /\ state' = state \/ (state' = "FAILED" /\ state = "UPLOADING")
    BY <1>6, <2>1 DEF Except, VersionMatches, Reply
  <2>3. TypeOK'
    BY <1>6, <2>1 DEF Except, VersionMatches, Reply, SessionState, history
  <2>4. QED
    BY <1>6, <2>1, <2>2, <2>3 DEF RecordedHasFile, StagingCleared, history
<1>7. CASE Fail(u)
  BY <1>6, <1>7 DEF Fail
<1>8. CASE StagingGone(u)
  BY <1>6, <1>8 DEF StagingGone
<1>9. CASE Finish(u)
  <2>1. /\ u \in Receiving /\ staging # None /\ state = "UPLOADING"
        /\ written[u] = Chunks /\ staging' = None
        /\ dest' = [dest EXCEPT ![suffix[u]] = staging]
        /\ media' = [path |-> suffix[u], sha256 |-> u]
        /\ state' = "TRANSCRIBING" /\ fresh' = {} /\ overlap' = overlap
        /\ Receiving' = Receiving \ {u}
        /\ UNCHANGED <<written, confirm>>
    BY <1>9 DEF Finish, VersionMatches, Replace, Reply, EndOfUpload, history
  <2>2. media' # None /\ media'.path = suffix[u] /\ media'.sha256 = u
    <3>1. media' \in [path : Suffixes, sha256 : Uploads]
      BY <2>1
    <3>2. QED
      BY <2>1, <3>1
  <2>3. TypeOK'
    BY <1>9, <2>1 DEF Finish, Reply, SessionState, history
  <2>4. dest'[suffix[u]] = staging
    BY <2>1
  <2>5. staging = u \/ <<u, staging>> \in overlap
    BY <2>1
  <2>6. RecordedHasFile' /\ StagingCleared'
    BY <2>1, <2>2, <2>4, <2>5 DEF RecordedHasFile, StagingCleared
  <2>7. QED
    BY <2>1, <2>3, <2>6
<1>10. CASE FinishStale(u)
  <2>1. /\ u \in Receiving /\ staging # None /\ staging' = None
        /\ media = None /\ Receiving' = Receiving \ {u} /\ u \notin fresh
        /\ UNCHANGED <<state, media, fresh, written, suffix, confirm, overlap,
                       crashed>>
    BY <1>10 DEF FinishStale, VersionMatches, Replace, Reply, row, history
  <2>2. TypeOK'
    BY <1>10, <2>1 DEF FinishStale, Replace, Reply
  <2>3. QED
    BY <2>1, <2>2 DEF RecordedHasFile, StagingCleared
<1>11. CASE Crash(u)
  <2>1. /\ u \in Receiving /\ Receiving' = {} /\ fresh' = {} /\ crashed' = TRUE
        /\ UNCHANGED <<state, media, written, suffix, confirm, overlap>>
        /\ \/ UNCHANGED <<staging, dest>>
           \/ /\ staging # None /\ staging' = None
              /\ dest' = [dest EXCEPT ![suffix[u]] = staging]
    BY <1>11 DEF Crash, Replace
  <2>2. TypeOK'
    BY <1>11, <2>1 DEF Crash
  <2>3. media # None => UNCHANGED <<staging, dest>>
    BY <2>1
  <2>4. RecordedHasFile' /\ StagingCleared'
    BY <2>1, <2>3 DEF RecordedHasFile, StagingCleared
  <2>5. QED
    BY <2>1, <2>2, <2>3, <2>4
<1>12. QED
  BY <1>1, <1>2, <1>3, <1>4, <1>5, <1>7, <1>8, <1>9, <1>10, <1>11 DEF Upload

(* So does every step of the others.                                       *)
LEMMA OthersKeepIInv ==
  ASSUME IInv,
         \/ \E to \in SessionState : Stop(to) \/ Process(to)
         \/ ConfirmUnlinks \/ ConfirmCommits \/ ConfirmLost
  PROVE  IInv'
<1> USE NoneAssumption, ChunksAssumption DEF IInv, TypeOK, Receiving
<1>1. ASSUME NEW to \in SessionState, Stop(to)
      PROVE  IInv'
  <2>1. state \notin {"DELETE_PENDING", "DELETED"}
    BY <1>1, TransitionFacts DEF Stop
  <2>2. QED
    BY <1>1, <2>1 DEF Stop, files, history, RecordedHasFile, StagingCleared
<1>2. ASSUME NEW to \in SessionState, Process(to)
      PROVE  IInv'
  <2>1. /\ to \notin {"CREATED", "UPLOADING", "DELETED"}
        /\ state \notin {"DELETE_PENDING", "DELETED"}
    BY <1>2, TransitionFacts DEF Process
  <2>2. QED
    BY <1>2, <2>1 DEF Process, files, history, RecordedHasFile, StagingCleared
<1>3. CASE ConfirmUnlinks
  <2>1. /\ state = "DELETE_PENDING" /\ confirm' = "unlinked"
        /\ UNCHANGED <<state, media, fresh, staging, written, upc, suffix,
                       overlap, crashed>>
    BY <1>3 DEF ConfirmUnlinks, row, history
  <2>2. TypeOK'
    BY <1>3, <2>1 DEF ConfirmUnlinks
  <2>3. QED
    BY <2>1, <2>2 DEF RecordedHasFile, StagingCleared
<1>4. CASE ConfirmCommits
  BY <1>4 DEF ConfirmCommits, files, history, RecordedHasFile, StagingCleared,
              SessionState
<1>5. CASE ConfirmLost
  BY <1>5 DEF ConfirmLost, row, files, history, RecordedHasFile, StagingCleared
<1>6. QED
  BY <1>1, <1>2, <1>3, <1>4, <1>5

(* IInv holds in every reachable state, for any number of uploads.         *)
THEOREM Invariance == Spec => []IInv
<1>1. Init => IInv
  <2> SUFFICES ASSUME Init PROVE IInv
    OBVIOUS
  <2>1. Receiving = {}
    BY DEF Init, Receiving
  <2>2. written \in [Uploads -> 0 .. Chunks]
    BY ChunksAssumption DEF Init
  <2>3. TypeOK
    BY <2>2 DEF Init, TypeOK, SessionState
  <2>4. media = None /\ staging = None /\ fresh = {} /\ confirm = "none"
    BY DEF Init
  <2>5. QED
    BY <2>1, <2>3, <2>4 DEF IInv, RecordedHasFile, StagingCleared
<1>2. IInv /\ UNCHANGED vars => IInv'
  BY DEF IInv, TypeOK, Receiving, RecordedHasFile, StagingCleared,
         vars, row, files, history
<1>3. IInv /\ [Next]_vars => IInv'
  BY <1>2, UploadKeepsIInv, OthersKeepIInv DEF Next
<1>4. QED
  BY <1>1, <1>3, PTL DEF Spec

(* Every variable keeps its type: the file a row names, the bytes written  *)
(* and the overlap history stay within the uploads that were made.         *)
THEOREM TypeCorrect == Spec => []TypeOK
<1>1. IInv => TypeOK
  BY DEF IInv
<1>2. QED
  BY <1>1, Invariance, PTL

(* The file of upload_media's row is the complete file of its digest, or   *)
(* that of an overlapping upload, until confirm_deletion has unlinked it.  *)
THEOREM AlwaysHasFile == Spec => []RecordedHasFile
<1>1. IInv => RecordedHasFile
  BY DEF IInv
<1>2. QED
  BY <1>1, Invariance, PTL

(* The staging file is removed by whichever upload ends last.              *)
THEOREM StagingAlwaysCleared == Spec => []StagingCleared
<1>1. IInv => StagingCleared
  BY DEF IInv
<1>2. QED
  BY <1>1, Invariance, PTL

(* Nobody can move a file over a recorded one: there is no staging file by *)
(* then, and no upload begins again.                                       *)
THEOREM RecordedFileAlwaysKept == Spec => RecordedFileKept
<1> DEFINE Kept == media # None /\ media' = media =>
                     dest'[media.path] = dest[media.path] \/ ConfirmUnlinks
<1>1. IInv /\ Next => Kept
  <2> SUFFICES ASSUME IInv, Next, media # None
               PROVE  dest' = dest \/ ConfirmUnlinks
    OBVIOUS
  <2>1. staging = None
    BY DEF IInv
  <2>2. ASSUME NEW u \in Uploads, Upload(u)
        PROVE  dest' = dest
    BY <2>1, <2>2 DEF Upload, AnswerRetained, Refuse, MkdirFails, Begin,
       ReceiveChunk, Fail, StagingGone, Finish, FinishStale, Crash, files
  <2>3. ASSUME NEW to \in SessionState, Stop(to) \/ Process(to)
        PROVE  dest' = dest
    BY <2>3 DEF Stop, Process, files
  <2>4. ASSUME ConfirmCommits \/ ConfirmLost
        PROVE  dest' = dest
    BY <2>4 DEF ConfirmCommits, ConfirmLost, files
  <2>5. QED
    BY <2>2, <2>3, <2>4 DEF Next
<1>2. IInv /\ [Next]_vars => [Kept]_vars
  BY <1>1
<1>3. QED
  BY <1>2, Invariance, PTL DEF Spec, RecordedFileKept

(* The version check keeps the upload that was stored first.               *)
THEOREM StoredUploadIsFinal == Spec => StoredIsFinal
<1> DEFINE Kept == media # None =>
             /\ media' = media \/ state' = "DELETED"
             /\ \A u \in Receiving : upc'[u] = "failed" => state' = state
<1>1. IInv /\ Next => Kept
  <2> SUFFICES ASSUME IInv, Next, media # None PROVE Kept
    OBVIOUS
  <2>1. fresh = {}
    BY DEF IInv
  <2>2. ASSUME NEW u \in Uploads, Upload(u)
        PROVE  media' = media /\ state' = state
    <3>1. ~Begin(u) /\ ~MkdirFails(u)
      BY CommitUploadingFacts DEF Begin, MkdirFails
    <3>2. QED
      BY <2>1, <2>2, <3>1 DEF Upload, AnswerRetained, Refuse, ReceiveChunk,
         Fail, StagingGone, Finish, FinishStale, Crash, Except, VersionMatches,
         row
  <2>3. ASSUME NEW to \in SessionState, Stop(to) \/ Process(to)
        PROVE  media' = media /\ upc' = upc
    BY <2>3 DEF Stop, Process
  <2>4. ASSUME ConfirmUnlinks \/ ConfirmLost
        PROVE  media' = media /\ upc' = upc
    BY <2>4 DEF ConfirmUnlinks, ConfirmLost, row
  <2>5. ASSUME ConfirmCommits
        PROVE  state' = "DELETED" /\ upc' = upc
    BY <2>5 DEF ConfirmCommits
  <2>6. \A v \in Receiving : upc[v] = "receiving"
    BY DEF Receiving
  <2>7. QED
    BY <2>2, <2>3, <2>4, <2>5, <2>6 DEF Next
<1>2. IInv /\ [Next]_vars => [Kept]_vars
  BY <1>1
<1>3. QED
  BY <1>2, Invariance, PTL DEF Spec, StoredIsFinal
=============================================================================
