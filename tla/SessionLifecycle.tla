-------------------------- MODULE SessionLifecycle --------------------------
(***************************************************************************)
(* What the session row promises to everyone who reads it: its committed   *)
(* states follow ALLOWED_TRANSITIONS.  transition() checks a copy of the   *)
(* row that may be old when it is committed, one handler assigns the state *)
(* without it, and two handlers pass through a state they do not commit;   *)
(* the pipelines are shown to implement this specification all the same.   *)
(***************************************************************************)
EXTENDS SessionStates

CONSTANT First   \* the state in which the row comes into view
VARIABLE state   \* coaching_session.state, "DELETED" once the row is gone

Init == state = First

(* A commit that follows the table.                                        *)
Move ==
  \E to \in AllowedTransitions[state] : state' = to

(* upload_media enters UPLOADED and leaves it in one commit.               *)
StoreMedia ==
  /\ state = "UPLOADING"
  /\ state' = "TRANSCRIBING"

(* A retry or a refresh revives a stopped session: RETRY_PENDING, and at   *)
(* once the state of the job that is queued.                               *)
Revive ==
  /\ state \in {"FAILED", "CANCELLED"}
  /\ state' \in {"TRANSCRIBING", "RECONCILING", "EXTRACTING"}

Next == Move \/ StoreMedia \/ Revive

Spec == Init /\ [][Next]_state
=============================================================================
