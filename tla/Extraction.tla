----------------------------- MODULE Extraction -----------------------------
(***************************************************************************)
(* What the gateway's /extract promises, without its windows loop, its     *)
(* thread pool and its merge loop: a transcript is shown to the model in   *)
(* windows such that every coaching moment is seen whole by one of them,   *)
(* and the response holds every usable observation of every window exactly *)
(* once, or it is an error.                                                *)
(***************************************************************************)
EXTENDS LedgerEvidence

CONSTANTS
  Size,      \* settings.window_segment_count
  Overlap,   \* settings.window_overlap_segments
  Payloads,  \* what the model may answer: sequences of entries, or Invalid
  Invalid,   \* an answer that does not match the schema
  Failures   \* the error codes of a model call

VARIABLES
  n,         \* number of segments of the transcript
  windows,   \* <<>>, or the windows as pairs <<first, end>>
  says,      \* per window, None or what the model answered
  response   \* None, or the response of /extract

spec_vars == <<n, windows, says, response>>

InWindow(w, a, b) == w[1] <= a /\ b < w[2]

\* A moment is up to Overlap + 1 consecutive segments, a to b.
SeenWhole(ws, m) ==
  \A a, b \in 0 .. m - 1 :
    a <= b /\ b - a <= Overlap => \E i \in DOMAIN ws : InWindow(ws[i], a, b)

\* The usable observations of window i, as they are stored.
Usable(i) ==
  {NormalizeEntry(says[i][k]) :
     k \in {j \in DOMAIN says[i] : ~Rejected(says[i][j], n)}}

AllUsable == UNION {Usable(i) : i \in DOMAIN says}

\* Every usable observation once; nothing else.
Faithful(entries) ==
  /\ \A k \in DOMAIN entries : entries[k] \in AllUsable
  /\ \A e \in AllUsable : \E k \in DOMAIN entries :
       EntryIdentity(entries[k]) = EntryIdentity(e)
  /\ \A j, k \in DOMAIN entries :
       EntryIdentity(entries[j]) = EntryIdentity(entries[k]) => j = k

Init ==
  /\ n = 0
  /\ windows = <<>>
  /\ says = <<>>
  /\ response = None

\* A request arrives, and its transcript is cut into windows.
Request ==
  /\ windows = <<>>
  /\ windows' # <<>>
  /\ SeenWhole(windows', n')
  /\ \A i \in DOMAIN windows' : windows'[i][2] - windows'[i][1] <= Size
  /\ says' = [i \in DOMAIN windows' |-> None]
  /\ response' = response

\* The model answers for one window, in any order.
ModelAnswers ==
  \E i \in DOMAIN says, a \in Payloads \cup Failures :
    /\ response = None
    /\ says[i] = None
    /\ says' = [says EXCEPT ![i] = a]
    /\ UNCHANGED <<n, windows, response>>

Respond ==
  /\ windows # <<>>
  /\ response = None
  /\ response' # None
  /\ \/ \* Every window was answered, and every answer is well formed.
        /\ \A i \in DOMAIN says : says[i] \in Payloads \ {Invalid}
        /\ response'.status = "ok"
        /\ Faithful(response'.entries)
     \/ \* Every window was answered, one of them with something else.
        /\ \A i \in DOMAIN says : says[i] \in Payloads
        /\ \E i \in DOMAIN says : says[i] = Invalid
        /\ response' = [status |-> "invalid_model_response", entries |-> <<>>]
     \/ \* The error of the first window that has one.
        \E i \in DOMAIN says :
          /\ says[i] \in Failures
          /\ \A j \in 1 .. i - 1 : says[j] \in Payloads
          /\ response' = [status |-> says[i], entries |-> <<>>]
  /\ UNCHANGED <<n, windows, says>>

Next == Request \/ ModelAnswers \/ Respond

Spec == Init /\ [][Next]_spec_vars
=============================================================================
