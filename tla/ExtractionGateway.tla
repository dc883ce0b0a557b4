-------------------------- MODULE ExtractionGateway --------------------------
(***************************************************************************)
(* One POST /extract of the extraction gateway: _split_windows, the thread *)
(* pool that sends every window to the model, and _coerce_entries, which   *)
(* merges the answers.  Requests share nothing, so one is enough.          *)
(*                                                                         *)
(* The two loops are actions, one per iteration, so that what they compute *)
(* can be stated as an invariant.  A window is the pair <<first, end>> of  *)
(* segments[first : end].                                                  *)
(***************************************************************************)
EXTENDS LedgerEvidence

CONSTANTS
  Size,         \* settings.window_segment_count
  Overlap,      \* settings.window_overlap_segments
  Concurrency,  \* settings.window_concurrency
  Payloads,     \* what the model may answer: sequences of entries, or Invalid
  Invalid,      \* an answer that does not match the schema
  Failures      \* codes of OpenAIClientError

\* Settings.validate_settings.
ASSUME SettingsAssumption ==
  /\ Size \in Nat \ {0}
  /\ Overlap \in Nat
  /\ Overlap < Size
  /\ Concurrency \in Nat \ {0}

ASSUME AnswersAssumption ==
  /\ Payloads \ {Invalid} \subseteq Seq(Entry)
  /\ None \notin Payloads \cup Failures
  /\ Payloads \cap Failures = {}
  /\ "ok" \notin Failures

\* The bodies of the HTTP responses.
Response ==
  [status : Failures \cup {"ok", "invalid_model_response"}, entries : Seq(Entry)]

ASSUME ResponseAssumption == None \notin Response

VARIABLES
  pc,        \* where the handler is
  n,         \* len(body.segments)
  start,     \* the loop variable of _split_windows
  windows,   \* the windows cut so far
  call,      \* per window, the state of its future
  payload,   \* per window, None, the answer or the error of its future
  results,   \* what list(pool.map(...)) has collected
  cursor,    \* _coerce_entries is at entry cursor[2] of result cursor[1]
  entries,   \* the entries it has kept
  response   \* None, or the status and entries of the HTTP response

split == <<n, start, windows>>
pool == <<call, payload, results>>
merge == <<cursor, entries>>
vars == <<pc, split, pool, merge, response>>

\* The windows advance by less than their size.
Step == Size - Overlap
Window(i) == <<i, IF i + Size <= n THEN i + Size ELSE n>>

Identities == {EntryIdentity(entries[k]) : k \in DOMAIN entries}

Running == {i \in DOMAIN call : call[i] = "running"}

Init ==
  /\ pc = "idle"
  /\ n = 0
  /\ start = 0
  /\ windows = <<>>
  /\ call = <<>>
  /\ payload = <<>>
  /\ results = <<>>
  /\ cursor = <<1, 0>>
  /\ entries = <<>>
  /\ response = None

-----------------------------------------------------------------------------
(* _split_windows.                                                         *)

\* All windows are cut and their calls are queued.
Submit(ws) ==
  /\ windows' = ws
  /\ call' = [i \in DOMAIN ws |-> "queued"]
  /\ payload' = [i \in DOMAIN ws |-> None]
  /\ pc' = "call"

Post ==
  /\ pc = "idle"
  /\ n' \in 0 .. MaxSegments
  /\ IF n' <= Size
     THEN Submit(<<<<0, n'>>>>)
     ELSE pc' = "split" /\ UNCHANGED <<windows, call, payload>>
  /\ UNCHANGED <<start, results, merge, response>>

\* The loop leaves with a break: a window that does not reach the end is
\* followed by one that starts before it.
StopEarly == start + Size + Overlap >= n
LastWindow == start + Size >= n

Split ==
  /\ pc = "split"
  /\ IF LastWindow
     THEN Submit(Append(windows, Window(start))) /\ UNCHANGED start
     ELSE /\ windows' = Append(windows, Window(start))
          /\ start' = start + Step
          /\ UNCHANGED <<pc, call, payload>>
  /\ UNCHANGED <<n, results, merge, response>>

-----------------------------------------------------------------------------
(* ThreadPoolExecutor.map(run_window, windows).  A single window is called *)
(* without a pool, which makes no difference to the order of anything.     *)

\* A thread takes the next future of the queue.
StartCall(i) ==
  /\ i \in DOMAIN call
  /\ call[i] = "queued"
  /\ \A j \in 1 .. i - 1 : call[j] # "queued"
  /\ Cardinality(Running) < Concurrency
  /\ call' = [call EXCEPT ![i] = "running"]
  /\ UNCHANGED <<pc, split, payload, results, merge, response>>

\* OpenAIClient.extract_json returns, or raises: a timeout, an HTTP error,
\* an answer cut off by the model (finish_reason), or one that is no JSON.
EndCall(i) ==
  /\ i \in DOMAIN call
  /\ call[i] = "running"
  /\ \E a \in Payloads \cup Failures :
       /\ payload' = [payload EXCEPT ![i] = a]
       /\ call' = [call EXCEPT
                     ![i] = IF a \in Failures THEN "raised" ELSE "returned"]
  /\ UNCHANGED <<pc, split, results, merge, response>>

\* The future whose result is taken next.
Due == Len(results) + 1

\* The results are taken in the order of the windows.
Collect ==
  /\ pc = "call"
  /\ Due \in DOMAIN call
  /\ call[Due] = "returned"
  /\ results' = Append(results, payload[Due])
  /\ pc' = IF Due = Len(windows) THEN "coerce" ELSE pc
  /\ UNCHANGED <<split, call, payload, merge, response>>

\* The first that raised ends the iteration; futures not begun are cancelled.
CollectRaises ==
  /\ pc = "call"
  /\ Due \in DOMAIN call
  /\ call[Due] = "raised"
  /\ call' = [i \in DOMAIN call |->
                IF call[i] = "queued" THEN "cancelled" ELSE call[i]]
  /\ pc' = "shutdown"
  /\ UNCHANGED <<split, payload, results, merge, response>>

NoWait == TRUE
PoolIdle == Running = {}

\* The error is that of the first window that has one.
LatestError == payload[Max({i \in DOMAIN call : call[i] = "raised"})]
FirstError == payload[Due]

\* The end of the with statement joins the threads, then the error goes out.
Raise ==
  /\ pc = "shutdown"
  /\ PoolIdle
  /\ response' = [status |-> FirstError, entries |-> <<>>]
  /\ pc' = "done"
  /\ UNCHANGED <<split, pool, merge>>

-----------------------------------------------------------------------------
(* _coerce_entries.                                                        *)

\* ModelExtractionResponse.model_validate, at the first entry of an answer.
RefuseAnswer ==
  /\ pc = "coerce"
  /\ cursor[1] <= Len(results)
  /\ results[cursor[1]] = Invalid
  /\ response' = [status |-> "invalid_model_response", entries |-> <<>>]
  /\ pc' = "done"
  /\ UNCHANGED <<split, pool, merge>>

\* An entry of the answer is rejected, found to be a duplicate, or kept.
Seen(entry) == EntryIdentity(entry) \in Identities

Coerced(entry) ==
  IF Rejected(entry, n) \/ Seen(NormalizeEntry(entry))
  THEN entries
  ELSE Append(entries, NormalizeEntry(entry))

SameAnswer == <<cursor[1], 0>>
NextAnswer == <<cursor[1] + 1, 0>>

CoerceEntry ==
  /\ pc = "coerce"
  /\ cursor[1] <= Len(results)
  /\ results[cursor[1]] # Invalid
  /\ IF cursor[2] < Len(results[cursor[1]])
     THEN /\ entries' = Coerced(results[cursor[1]][cursor[2] + 1])
          /\ cursor' = <<cursor[1], cursor[2] + 1>>
     ELSE /\ cursor' = NextAnswer
          /\ UNCHANGED entries
  /\ UNCHANGED <<pc, split, pool, response>>

Answer ==
  /\ pc = "coerce"
  /\ cursor[1] > Len(results)
  /\ response' = [status |-> "ok", entries |-> entries]
  /\ pc' = "done"
  /\ UNCHANGED <<split, pool, merge>>

-----------------------------------------------------------------------------
Next ==
  \/ Post
  \/ Split
  \/ \E i \in DOMAIN call : StartCall(i) \/ EndCall(i)
  \/ Collect
  \/ CollectRaises
  \/ Raise
  \/ RefuseAnswer
  \/ CoerceEntry
  \/ Answer

Spec == Init /\ [][Next]_vars

\* The handler and the pool's threads run, and a call to the model ends,
\* by request_timeout_seconds if not by an answer.
FairSpec ==
  /\ Spec
  /\ WF_vars(Split \/ Collect \/ CollectRaises \/ Raise)
  /\ WF_vars(RefuseAnswer \/ CoerceEntry \/ Answer)
  /\ \A i \in 1 .. MaxSegments + 1 :
       WF_vars(StartCall(i)) /\ WF_vars(EndCall(i))

-----------------------------------------------------------------------------
(* Properties.                                                             *)

Promise == INSTANCE Extraction WITH
  n <- IF pc \in {"idle", "split"} THEN 0 ELSE n,
  windows <- IF pc \in {"idle", "split"} THEN <<>> ELSE windows,
  says <- payload

CallStatus == {"queued", "running", "returned", "raised", "cancelled"}

\* Every variable has its type, and the pool has one future per window.
TypeOK ==
  /\ pc \in {"idle", "split", "call", "shutdown", "coerce", "done"}
  /\ n \in 0 .. MaxSegments
  /\ start \in Nat
  /\ windows \in Seq(Nat \X Nat)
  /\ call \in Seq(CallStatus)
  /\ payload \in Seq(Payloads \cup Failures \cup {None})
  /\ results \in Seq(Payloads)
  /\ cursor \in (Nat \ {0}) \X Nat
  /\ entries \in Seq(Entry)
  /\ Len(call) = Len(payload)
  /\ pc \notin {"idle", "split"} => Len(call) = Len(windows)

\* The windows cut so far see whole every moment that begins before start.
SplitInv ==
  /\ pc = "idle" => windows = <<>> /\ start = 0
  /\ pc = "split" =>
       /\ Size < n /\ start < n
       /\ \A a, b \in 0 .. n - 1 :
            a < start /\ a <= b /\ b - a <= Overlap =>
              \E i \in DOMAIN windows : Promise!InWindow(windows[i], a, b)
  /\ pc \notin {"idle", "split"} =>
       windows # <<>> /\ Promise!SeenWhole(windows, n)
  /\ \A i \in DOMAIN windows : windows[i][2] - windows[i][1] <= Size

(* When the response is sent no call of this request is in the pool: the   *)
(* with statement joins the threads on the error path too.                 *)
NoCallOutlivesRequest ==
  pc = "done" => \A i \in DOMAIN call : call[i] \notin {"queued", "running"}

\* Futures and what they hold; the results are those of the first windows.
PoolInv ==
  /\ pc \in {"idle", "split"} => call = <<>> /\ results = <<>>
  /\ \A i \in DOMAIN call :
       /\ call[i] = "returned" <=> payload[i] \in Payloads
       /\ call[i] = "raised" <=> payload[i] \in Failures
  /\ Len(results) <= Len(call)
  /\ \A i \in DOMAIN results : call[i] = "returned" /\ results[i] = payload[i]
  /\ pc = "call" => Len(results) < Len(call)
  /\ pc = "shutdown" => /\ Due \in DOMAIN call /\ call[Due] = "raised"
                        /\ \A i \in DOMAIN call : call[i] # "queued"
  /\ pc = "coerce" => Len(results) = Len(call)
  /\ NoCallOutlivesRequest

\* Entry k of result i has been merged.
Merged(i, k) == i < cursor[1] \/ (i = cursor[1] /\ k <= cursor[2])

MergeInv ==
  /\ pc \notin {"coerce", "done"} => cursor = <<1, 0>> /\ entries = <<>>
  /\ pc # "done" => response = None
  /\ \A i \in DOMAIN results : i < cursor[1] => results[i] # Invalid
  /\ cursor[1] \in DOMAIN results /\ cursor[2] > 0 =>
       results[cursor[1]] # Invalid
  /\ \A k \in DOMAIN entries : \E i \in DOMAIN results :
       /\ results[i] # Invalid
       /\ \E j \in DOMAIN results[i] :
            /\ ~Rejected(results[i][j], n)
            /\ entries[k] = NormalizeEntry(results[i][j])
  /\ \A i \in DOMAIN results : results[i] # Invalid =>
       \A j \in DOMAIN results[i] :
         Merged(i, j) /\ ~Rejected(results[i][j], n) =>
           EntryIdentity(NormalizeEntry(results[i][j])) \in Identities
  /\ \A j, k \in DOMAIN entries :
       EntryIdentity(entries[j]) = EntryIdentity(entries[k]) => j = k

(* The invariant behind the properties below: what the loops have done so  *)
(* far is what they should have.                                           *)
IInv == TypeOK /\ SplitInv /\ PoolInv /\ MergeInv

(* A coaching moment of up to Overlap + 1 consecutive segments is seen     *)
(* whole by one window, and every segment is in one: _split_windows says   *)
(* that "a coaching moment that straddles a boundary is still seen whole". *)
MomentsSeenWhole ==
  pc \notin {"idle", "split"} => Promise!SeenWhole(windows, n)

(* The evidence API refuses a whole extraction over one entry.  Of what    *)
(* _normalize_entry keeps, validate_evidence refuses exactly the entries   *)
(* that cite a segment beyond the recording's duration, which the gateway  *)
(* is not told; on everything else the two programs agree.                 *)
RefusedOnlyForDuration ==
  \A k \in DOMAIN entries, d \in Duration :
    ValidateEvidence(entries[k], n, d) <=>
      d = None \/ \A s \in Cited(entries[k]) : s < d

(* The gateway implements its promise: whatever the order in which threads *)
(* run and calls end, the response has every usable observation of every   *)
(* window once, or is the error of the first window that failed.           *)
ImplementsPromise == Promise!Spec

(* Every request is answered.                                              *)
RequestAnswered == pc # "idle" ~> pc = "done"
=============================================================================
