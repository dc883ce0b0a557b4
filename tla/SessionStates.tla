--------------------------- MODULE SessionStates ---------------------------
(***************************************************************************)
(* The enumerations of packages/contracts and the state table of           *)
(* evidence_api/state.py.  There are no variables here: every module about *)
(* a session row extends this one.                                         *)
(***************************************************************************)

SessionState ==
  { "CREATED", "UPLOADING", "UPLOADED", "TRANSCRIBING", "RECONCILING",
    "TRANSCRIPT_READY", "EXTRACTING", "AWAITING_REVIEW", "COMPLETE",
    "RETRY_PENDING", "FAILED", "CANCELLED", "DELETE_PENDING", "DELETED" }

JobStatus == { "QUEUED", "RUNNING", "SUCCEEDED", "FAILED", "CANCELLED" }

TerminalStatus == { "SUCCEEDED", "FAILED", "CANCELLED" }

(* ALLOWED_TRANSITIONS: for each state, the states transition() may enter. *)
AllowedTransitions ==
  [ CREATED          |-> {"UPLOADING", "CANCELLED", "DELETE_PENDING"},
    UPLOADING        |-> {"UPLOADED", "FAILED", "CANCELLED",
                          "DELETE_PENDING"},
    UPLOADED         |-> {"TRANSCRIBING", "CANCELLED", "DELETE_PENDING"},
    TRANSCRIBING     |-> {"RECONCILING", "TRANSCRIPT_READY",
                          "RETRY_PENDING", "FAILED", "CANCELLED",
                          "DELETE_PENDING"},
    RECONCILING      |-> {"TRANSCRIPT_READY", "AWAITING_REVIEW", "COMPLETE",
                          "RETRY_PENDING", "FAILED", "CANCELLED",
                          "DELETE_PENDING"},
    TRANSCRIPT_READY |-> {"RECONCILING", "EXTRACTING", "AWAITING_REVIEW",
                          "CANCELLED", "DELETE_PENDING"},
    EXTRACTING       |-> {"AWAITING_REVIEW", "RETRY_PENDING", "FAILED",
                          "CANCELLED", "DELETE_PENDING"},
    AWAITING_REVIEW  |-> {"COMPLETE", "RECONCILING", "EXTRACTING",
                          "DELETE_PENDING"},
    COMPLETE         |-> {"AWAITING_REVIEW", "RECONCILING",
                          "DELETE_PENDING"},
    RETRY_PENDING    |-> {"TRANSCRIBING", "RECONCILING", "EXTRACTING",
                          "FAILED", "CANCELLED", "DELETE_PENDING"},
    FAILED           |-> {"RETRY_PENDING", "DELETE_PENDING"},
    CANCELLED        |-> {"RETRY_PENDING", "DELETE_PENDING"},
    DELETE_PENDING   |-> {"DELETED"},
    DELETED          |-> {} ]

(* transition(record, target) returns for these pairs and raises           *)
(* InvalidStateTransition for every other.                                 *)
CanTransition(from, to) == from = to \/ to \in AllowedTransitions[from]
=============================================================================
