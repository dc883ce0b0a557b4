---------------------------- MODULE MediaStaging ----------------------------
(***************************************************************************)
(* upload_media: how the recording of a session gets from a request to the *)
(* file system and into the session row, with several uploads of the same  *)
(* session at a time.  The handler is a coroutine: it is cut where it      *)
(* awaits the next chunk, and nothing else of it is interleaved with       *)
(* another upload.  The other handlers and the worker run in threads and   *)
(* processes of their own.                                                 *)
(*                                                                         *)
(* All uploads of a session write to one staging file, .uploading.  A file *)
(* is named after the upload that created it: its writer keeps writing to  *)
(* it by its descriptor, wherever its name has gone.  Jobs and what        *)
(* becomes of the recording are in TranscribePipeline.                     *)
(***************************************************************************)
EXTENDS Naturals, SessionStates

CONSTANTS
  Uploads,   \* requests
  Suffixes,  \* file name suffixes, which name the destination
  Chunks,    \* chunks of each upload
  None

ASSUME ChunksAssumption == Chunks \in Nat \ {0}
ASSUME NoneAssumption ==
  None \notin Uploads \cup [path : Suffixes, sha256 : Uploads]

VARIABLES
  state,    \* coaching_session.state
  media,    \* None, or the suffix of media_path and whose digest is recorded
  fresh,    \* uploads that hold the session's present version
  staging,  \* the file .uploading
  dest,     \* per suffix, the file original.<suffix>
  upc,      \* per upload, where its request is
  suffix,   \* per upload, the suffix of its file name
  written,  \* per upload, the chunks in the file it created
  confirm,  \* where confirm_deletion is, or that an earlier one was cut short
  overlap,  \* history: pairs of uploads that received at the same time
  crashed   \* history: the API process has ended during an upload

row == <<state, media, fresh>>
files == <<staging, dest, written>>
history == <<overlap, crashed>>
vars == <<row, files, upc, suffix, confirm, history>>

\* With media recorded, an upload in these states is answered as it stands.
Retained ==
  {"UPLOADED", "TRANSCRIBING", "RECONCILING", "TRANSCRIPT_READY", "EXTRACTING",
   "AWAITING_REVIEW", "COMPLETE", "RETRY_PENDING"}

Receiving == {u \in Uploads : upc[u] = "receiving"}

Init ==
  /\ state = "CREATED"
  /\ media = None
  /\ fresh = {}
  /\ staging = None
  /\ dest = [s \in Suffixes |-> None]
  /\ upc = [u \in Uploads |-> "idle"]
  /\ suffix \in [Uploads -> Suffixes]
  /\ written = [u \in Uploads |-> 0]
  /\ confirm = "none"
  /\ overlap = {}
  /\ crashed = FALSE

Reply(u, status) == upc' = [upc EXCEPT ![u] = status]

-----------------------------------------------------------------------------
(* upload_media.                                                           *)

\* The session has its recording: whatever was sent is not looked at.
AnswerRetained(u) ==
  /\ upc[u] = "idle"
  /\ media # None /\ state \in Retained
  /\ Reply(u, "answered")
  /\ UNCHANGED <<row, files, suffix, confirm, history>>

MayUpload == CanTransition(state, "UPLOADING")

\* InvalidStateTransition, or the session is gone.
Refuse(u) ==
  /\ upc[u] = "idle"
  /\ ~(media # None /\ state \in Retained)
  /\ ~MayUpload
  /\ Reply(u, "refused")
  /\ UNCHANGED <<row, files, suffix, confirm, history>>

\* The state is committed; UPLOADING again is no change and no new version.
CommitUploading(holds) ==
  /\ MayUpload
  /\ ~(media # None /\ state \in Retained)
  /\ state' = "UPLOADING"
  /\ fresh' = (IF state = "UPLOADING" THEN fresh ELSE {}) \cup holds

\* The directory cannot be made: the request ends outside the try.
MkdirFails(u) ==
  /\ upc[u] = "idle"
  /\ CommitUploading({})
  /\ Reply(u, "failed")
  /\ UNCHANGED <<media, files, suffix, confirm, history>>

\* The staging file of an earlier attempt gives way to a new one.
Begin(u) ==
  /\ upc[u] = "idle"
  /\ CommitUploading({u})
  /\ staging' = u
  /\ Reply(u, "receiving")
  /\ overlap' = overlap \cup (Receiving \X {u}) \cup ({u} \X Receiving)
  /\ UNCHANGED <<media, dest, written, suffix, confirm, crashed>>

\* media.read returns a chunk, or nothing at the end.
OneMore(u) == written[u] <= Chunks
MoreChunks(u) == written[u] < Chunks

EndsEarly(u) == TRUE
EndOfUpload(u) == written[u] = Chunks

ReceiveChunk(u) ==
  /\ upc[u] = "receiving"
  /\ MoreChunks(u)
  /\ written' = [written EXCEPT ![u] = @ + 1]
  /\ UNCHANGED <<row, staging, dest, upc, suffix, confirm, history>>

\* The version check of an UPDATE of the session row.
Unversioned(u) == TRUE
VersionMatches(u) == u \in fresh

\* The except clause: the staging file is removed, and FAILED is committed
\* unless the row has changed.
KeepStaging == staging
RemoveStaging == None

Except(u) ==
  /\ staging' = RemoveStaging
  /\ IF VersionMatches(u)
     THEN state' = "FAILED" /\ fresh' = {}
     ELSE UNCHANGED <<state, fresh>>
  /\ Reply(u, "failed")
  /\ UNCHANGED media

\* The upload is too large or empty, or it cannot be written.
Fail(u) ==
  /\ upc[u] = "receiving"
  /\ Except(u)
  /\ UNCHANGED <<dest, written, suffix, confirm, history>>

\* Another upload has taken the staging file: replace raises.
StagingGone(u) ==
  /\ upc[u] = "receiving"
  /\ EndOfUpload(u)
  /\ staging = None
  /\ Except(u)
  /\ UNCHANGED <<dest, written, suffix, confirm, history>>

\* staging.replace(destination).  The file is the one that has the name,
\* whoever is writing it.
Copied(u) == staging' = staging /\ dest' = [dest EXCEPT ![suffix[u]] = staging]
Replace(u) ==
  /\ staging' = None
  /\ dest' = [dest EXCEPT ![suffix[u]] = staging]

\* Everything has been received, the file is moved and the row committed.
Finish(u) ==
  /\ upc[u] = "receiving"
  /\ EndOfUpload(u)
  /\ staging # None
  /\ VersionMatches(u)
  /\ Replace(u)
  /\ media' = [path |-> suffix[u], sha256 |-> u]
  /\ state' = "TRANSCRIBING"
  /\ fresh' = {}
  /\ Reply(u, "stored")
  /\ UNCHANGED <<written, suffix, confirm, history>>

\* The row has changed: the file is moved all the same, and neither this
\* UPDATE nor the one that would record the failure is made.
FinishStale(u) ==
  /\ upc[u] = "receiving"
  /\ EndOfUpload(u)
  /\ staging # None
  /\ ~VersionMatches(u)
  /\ Replace(u)
  /\ Reply(u, "failed")
  /\ UNCHANGED <<row, written, suffix, confirm, history>>

\* The API process ends while u has the processor, after it has moved its
\* file or before, and all requests end with it.
Crash(u) ==
  /\ upc[u] = "receiving"
  /\ \/ UNCHANGED <<staging, dest>>
     \/ EndOfUpload(u) /\ staging # None /\ Replace(u)
  /\ upc' = [v \in Uploads |-> IF upc[v] = "receiving" THEN "lost" ELSE upc[v]]
  /\ fresh' = {}
  /\ crashed' = TRUE
  /\ UNCHANGED <<state, media, written, suffix, confirm, overlap>>

-----------------------------------------------------------------------------
(* Others.                                                                 *)

\* cancel_session and request_deletion.
Stop(to) ==
  /\ to \in {"CANCELLED", "DELETE_PENDING"}
  /\ state # to
  /\ to \in AllowedTransitions[state]
  /\ state' = to
  /\ fresh' = {}
  /\ UNCHANGED <<media, files, upc, suffix, confirm, history>>

\* The worker and the requests on jobs take a recorded session further.
Process(to) ==
  /\ media # None
  /\ state \notin {"DELETE_PENDING", "DELETED"}
  /\ to \in AllowedTransitions[state] \ {"DELETE_PENDING"}
  /\ state' = to
  /\ fresh' = {}
  /\ UNCHANGED <<media, files, upc, suffix, confirm, history>>

\* confirm_deletion removes the recorded file first; one at a time, for a
\* second finds no file and loses the race for the row.
ConfirmUnlinks ==
  /\ state = "DELETE_PENDING"
  /\ confirm # "unlinked"
  /\ dest' = IF media = None THEN dest ELSE [dest EXCEPT ![media.path] = None]
  /\ confirm' = "unlinked"
  /\ UNCHANGED <<row, staging, written, upc, suffix, history>>

\* Then the row is deleted.
ConfirmCommits ==
  /\ confirm = "unlinked"
  /\ media' = None
  /\ state' = "DELETED"
  /\ fresh' = {}
  /\ confirm' = "ended"
  /\ UNCHANGED <<files, upc, suffix, history>>

\* The DELETE is stale or fails, or the process ends: the row stays as it
\* was, and deletion may be confirmed again.
ConfirmLost ==
  /\ confirm = "unlinked"
  /\ confirm' = "ended"
  /\ UNCHANGED <<row, files, upc, suffix, history>>

-----------------------------------------------------------------------------
Upload(u) ==
  \/ AnswerRetained(u) \/ Refuse(u) \/ MkdirFails(u) \/ Begin(u)
  \/ ReceiveChunk(u) \/ Fail(u) \/ StagingGone(u)
  \/ Finish(u) \/ FinishStale(u) \/ Crash(u)

Next ==
  \/ \E u \in Uploads : Upload(u)
  \/ \E to \in SessionState : Stop(to) \/ Process(to)
  \/ ConfirmUnlinks \/ ConfirmCommits \/ ConfirmLost

Spec == Init /\ [][Next]_vars

-----------------------------------------------------------------------------
(* Properties.                                                             *)

\* Every variable has its type.
TypeOK ==
  /\ state \in SessionState
  /\ media \in [path : Suffixes, sha256 : Uploads] \cup {None}
  /\ fresh \subseteq Uploads
  /\ staging \in Uploads \cup {None}
  /\ dest \in [Suffixes -> Uploads \cup {None}]
  /\ upc \in [Uploads -> {"idle", "answered", "refused", "receiving", "failed",
                          "stored", "lost"}]
  /\ suffix \in [Uploads -> Suffixes]
  /\ written \in [Uploads -> 0 .. Chunks]
  /\ confirm \in {"none", "unlinked", "ended"}
  /\ overlap \subseteq Uploads \X Uploads
  /\ crashed \in BOOLEAN

(* The file that a row names is there and is the one whose digest the row  *)
(* has, received to its end; or it is the file of an upload that was       *)
(* received at the same time, for both used .uploading; or                 *)
(* confirm_deletion has removed it and not yet the row.                    *)
RecordedHasFile ==
  media # None =>
    LET file == dest[media.path] IN
    \/ file = media.sha256 /\ written[file] = Chunks
    \/ file # None /\ <<media.sha256, file>> \in overlap
    \/ state = "DELETE_PENDING" /\ confirm # "none"

(* Once upload_media has recorded a file, no upload of the session that is *)
(* still under way, stale, failing or ended by a crash, puts another in    *)
(* its place, also under the same suffix; confirm_deletion alone takes it. *)
RecordedFileKept ==
  [][media # None /\ media' = media =>
       dest'[media.path] = dest[media.path] \/ ConfirmUnlinks]_vars

(* No staging file stays behind when the last upload has ended, unless the *)
(* process ended in the middle of one.                                     *)
StagingCleared == staging # None => Receiving # {} \/ crashed

(* The invariant behind these: uploads that are received at a time know of *)
(* each other, and what is in the staging file is of one of them; once the *)
(* recording is stored there is no staging file left to move, and none is  *)
(* begun again.                                                            *)
IInv ==
  /\ TypeOK
  /\ RecordedHasFile
  /\ StagingCleared
  /\ fresh \subseteq Receiving
  /\ fresh # {} => state = "UPLOADING"
  /\ \A u, v \in Receiving : u # v => <<u, v>> \in overlap
  /\ staging # None /\ Receiving # {} => staging \in Receiving
  /\ confirm # "none" => state \in {"DELETE_PENDING", "DELETED"}
  /\ media # None =>
       /\ state \notin {"CREATED", "UPLOADING", "DELETED"}
       /\ staging = None

(* An upload that was answered as stored stays the recorded one until the  *)
(* session is deleted, and one that fails after it leaves the session as   *)
(* it is.                                                                  *)
StoredIsFinal ==
  [][media # None =>
       /\ media' = media \/ state' = "DELETED"
       /\ \A u \in Receiving : upc'[u] = "failed" => state' = state]_vars
=============================================================================
