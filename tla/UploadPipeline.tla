--------------------------- MODULE UploadPipeline ---------------------------
(***************************************************************************)
(* The upload queue and the workers that drain it: `upload_queue` in       *)
(* SQLite (src/src/db.rs), the worker loop and the task it spawns for each *)
(* claimed row (src/src/upload/worker.rs), and the application code that   *)
(* creates, pauses, replaces and abandons pipelines (src/src/app.rs).      *)
(*                                                                         *)
(* Rows here are watched-folder rows (`source = folder`).  A row's file is *)
(* abstracted to the SHA-1 it was queued with, and keeps it: FileSync has  *)
(* the files that change and the post-upload action.  Albums, which change *)
(* no row, are left out.  One "worker" is one UploadPipeline with its run  *)
(* loop: a settings save replaces the pipeline, and the old loop may keep  *)
(* running beside the new one, on the same queue.                          *)
(***************************************************************************)
EXTENDS Naturals, FiniteSets

CONSTANTS
  Entry,        \* ids the queue may hand out, oldest first (bounds the queue)
  Hash,         \* file contents, by SHA-1
  Worker,       \* pipelines that may ever be created (bounds restarts)
  NoHash,       \* the hash of a row not yet inserted
  NoPipeline,   \* `self.pipeline == None`
  Concurrency,  \* upload.concurrency
  MaxRetries,   \* upload.max_retries
  MaxDbErrors   \* database calls that may fail (bound)

ASSUME PipelineAssumption ==
  /\ Entry \subseteq Nat
  /\ IsFiniteSet(Entry)
  /\ NoHash \notin Hash
  /\ NoPipeline \notin Worker
  /\ Concurrency \in Nat
  /\ MaxRetries \in Nat
  /\ MaxDbErrors \in Nat

VARIABLES
  (* upload_queue and uploaded_files, which survive the process *)
  status, hash, retry_count, error_message, uploaded_files,
  (* the Immich server: uploads under way, and assets it stores *)
  wire, stored,
  (* process_file calls between the dedup lookup and the insert *)
  checking,
  (* each pipeline: its run loop, its tasks, its flags *)
  loop, task, woken, paused, auth_rejected, key,
  (* the application *)
  app, pipeline, user_paused,
  (* bookkeeping of the model: failed database calls so far, rows whose last *)
  (* status write was lost, and uploads of a row that failed                 *)
  db_errors, orphan, faults

rowVars    == <<status, hash, retry_count, error_message, uploaded_files>>
serverVars == <<wire, stored>>
workerVars == <<loop, task, woken, paused, auth_rejected, key>>
appVars    == <<app, pipeline, user_paused>>
obsVars    == <<db_errors, orphan, faults>>
vars == <<rowVars, serverVars, checking, workerVars, appVars, obsVars>>

Status == {"absent", "pending", "uploading", "failed", "completed"}
Message == {"none", "upload", "skipped"}
Loop == {"unborn", "top", "hold", "gated", "dequeue", "idle", "batch",
         "ending", "stopped"}
Step == {"none", "start", "check", "send", "sent", "record", "settle",
         "backoff", "giveup", "rejected"}

TypeOK ==
  /\ status \in [Entry -> Status]
  /\ hash \in [Entry -> Hash \cup {NoHash}]
  /\ retry_count \in [Entry -> Nat]
  /\ error_message \in [Entry -> Message]
  /\ uploaded_files \subseteq Hash
  /\ wire \subseteq Hash
  /\ stored \subseteq Hash
  /\ checking \subseteq Hash
  /\ loop \in [Worker -> Loop]
  /\ task \in [Worker -> [Entry -> Step]]
  /\ woken \in [Worker -> BOOLEAN]
  /\ paused \in [Worker -> BOOLEAN]
  /\ auth_rejected \in [Worker -> BOOLEAN]
  /\ key \in [Worker -> BOOLEAN]
  /\ app \in {"down", "up", "rebuilding"}
  /\ pipeline \in Worker \cup {NoPipeline}
  /\ user_paused \in BOOLEAN
  /\ db_errors \in 0..MaxDbErrors
  /\ orphan \subseteq Entry
  /\ faults \in [Entry -> Nat]

Pending == {e \in Entry : status[e] = "pending"}
Held(w) == {e \in Entry : task[w][e] # "none"}

Init ==
  /\ status = [e \in Entry |-> "absent"]
  /\ hash = [e \in Entry |-> NoHash]
  /\ retry_count = [e \in Entry |-> 0]
  /\ error_message = [e \in Entry |-> "none"]
  /\ uploaded_files = {}
  /\ wire = {}
  /\ stored = {}
  /\ checking = {}
  /\ loop = [w \in Worker |-> "unborn"]
  /\ task = [w \in Worker |-> [e \in Entry |-> "none"]]
  /\ woken = [w \in Worker |-> FALSE]
  /\ paused = [w \in Worker |-> FALSE]
  /\ auth_rejected = [w \in Worker |-> FALSE]
  /\ key = [w \in Worker |-> FALSE]
  /\ app = "down"
  /\ pipeline = NoPipeline
  /\ user_paused = FALSE
  /\ db_errors = 0
  /\ orphan = {}
  /\ faults = [e \in Entry |-> 0]

----------------------------------------------------------------------------
(* The queue.                                                              *)

\* A database call fails; the callers log it and go on.
DbFails ==
  /\ db_errors < MaxDbErrors
  /\ db_errors' = db_errors + 1

\* process_file up to the content-hash lookup: a known hash is skipped.  The
\* lookup and the insert are separate locks of the database.  (The second
\* guard is a bound: the queue has an id left.)
CheckDedup(h) ==
  /\ app # "down"
  /\ \E e \in Entry : status[e] = "absent"
  /\ h \notin uploaded_files
  /\ checking' = checking \cup {h}
  /\ UNCHANGED <<rowVars, serverVars, workerVars, appVars, obsVars>>

\* ... and the insert: a new row, newest of all, whatever rows the file has.
Enqueue(e, h) ==
  /\ status[e] = "absent"
  /\ \A f \in Entry : f < e => status[f] # "absent"
  /\ h \in checking
  /\ checking' = checking \ {h}
  /\ status' = [status EXCEPT ![e] = "pending"]
  /\ hash' = [hash EXCEPT ![e] = h]
  /\ UNCHANGED <<retry_count, error_message, uploaded_files>>
  /\ UNCHANGED <<serverVars, workerVars, appVars, obsVars>>

\* update_queue_status: `failed` and `pending` count a retry.
UpdateQueueStatus(e, new, message) ==
  /\ status' = [status EXCEPT ![e] = new]
  /\ error_message' = [error_message EXCEPT ![e] = message]
  /\ retry_count' = [retry_count EXCEPT
                       ![e] = IF new \in {"failed", "pending"} THEN @ + 1 ELSE @]
  /\ UNCHANGED <<hash, uploaded_files>>

\* requeue_without_retry
RequeueWithoutRetry(e) ==
  /\ status' = [status EXCEPT ![e] = "pending"]
  /\ error_message' = [error_message EXCEPT ![e] = "none"]
  /\ UNCHANGED <<hash, retry_count, uploaded_files>>

\* Mutant: the recovery also takes back the rows given up.
ResetFailedToo ==
  /\ status' = [e \in Entry |->
                  IF status[e] \in {"uploading", "failed"} THEN "pending"
                  ELSE status[e]]
  /\ error_message' = [e \in Entry |->
                  IF status[e] = "uploading" THEN "none" ELSE error_message[e]]
  /\ orphan' = {}
  /\ UNCHANGED <<hash, retry_count, uploaded_files>>

\* reset_stale_uploading
ResetStaleUploading ==
  /\ status' = [e \in Entry |->
                  IF status[e] = "uploading" THEN "pending" ELSE status[e]]
  /\ error_message' = [e \in Entry |->
                  IF status[e] = "uploading" THEN "none" ELSE error_message[e]]
  /\ orphan' = {}
  /\ UNCHANGED <<hash, retry_count, uploaded_files>>

\* What dequeue_pending's SELECT returns: the newest pending rows, at most
\* `concurrency` of them.
Newest(S) ==
  /\ S \subseteq Pending
  /\ Cardinality(S) <= Concurrency
  /\ Cardinality(S) < Concurrency => S = Pending
  /\ \A e \in S, f \in Pending \ S : f < e

----------------------------------------------------------------------------
(* The run loop.  Its waits also wait for `shutdown.notified()`.           *)

Waiting == {"hold", "gated", "idle", "ending"}

\* Mutant: a resume does not wake the loop at its gate.
LoopTopStaysGated(w) ==
  /\ loop[w] \in {"top", "hold", "idle", "ending"}
  /\ ~ (loop[w] = "ending" /\ woken[w])
  /\ loop' = [loop EXCEPT ![w] = IF auth_rejected[w] THEN "hold"
                                 ELSE IF paused[w] THEN "gated"
                                 ELSE "dequeue"]
  /\ woken' = [woken EXCEPT ![w] = FALSE]
  /\ UNCHANGED <<task, paused, auth_rejected, key>>
  /\ UNCHANGED <<rowVars, serverVars, checking, appVars, obsVars>>

\* A wait ends other than by shutdown (its timer, a send on the pause channel,
\* the immediate branch after a batch), or the loop begins; then come the
\* checks before a dequeue, the rejected key first.  The selects are unbiased,
\* but for the last, so a shutdown that arrives together with a timer may be
\* passed over; nothing keeps it for the next wait.
LoopTop(w) ==
  /\ loop[w] \in {"top"} \cup Waiting
  /\ ~ (loop[w] = "ending" /\ woken[w])
  /\ loop' = [loop EXCEPT ![w] = IF auth_rejected[w] THEN "hold"
                                 ELSE IF paused[w] THEN "gated"
                                 ELSE "dequeue"]
  /\ woken' = [woken EXCEPT ![w] = FALSE]
  /\ UNCHANGED <<task, paused, auth_rejected, key>>
  /\ UNCHANGED <<rowVars, serverVars, checking, appVars, obsVars>>

\* dequeue_pending's transaction and the tasks spawned for what it claimed.
Claim(w, S) ==
  /\ loop[w] = "dequeue"
  /\ S # {}
  /\ Newest(S)
  /\ status' = [e \in Entry |-> IF e \in S THEN "uploading" ELSE status[e]]
  /\ task' = [task EXCEPT ![w] = [e \in Entry |->
                IF e \in S THEN "start" ELSE @[e]]]
  /\ loop' = [loop EXCEPT ![w] = "batch"]
  /\ UNCHANGED <<hash, retry_count, error_message, uploaded_files>>
  /\ UNCHANGED <<woken, paused, auth_rejected, key>>
  /\ UNCHANGED <<serverVars, checking, appVars, obsVars>>

\* Nothing to claim: poll again after a sleep.
DequeueEmpty(w) ==
  /\ loop[w] = "dequeue"
  /\ Pending = {} \/ Concurrency = 0
  /\ loop' = [loop EXCEPT ![w] = "idle"]
  /\ UNCHANGED <<task, woken, paused, auth_rejected, key>>
  /\ UNCHANGED <<rowVars, serverVars, checking, appVars, obsVars>>

\* The dequeue itself failed: the same kind of sleep.
DequeueFails(w) ==
  /\ loop[w] = "dequeue"
  /\ DbFails
  /\ loop' = [loop EXCEPT ![w] = "idle"]
  /\ UNCHANGED <<task, woken, paused, auth_rejected, key, orphan, faults>>
  /\ UNCHANGED <<rowVars, serverVars, checking, appVars>>

\* Every task of the batch has ended; the loop comes to its last select.
BatchDone(w) ==
  /\ loop[w] = "batch"
  /\ Held(w) = {}
  /\ loop' = [loop EXCEPT ![w] = "ending"]
  /\ UNCHANGED <<task, woken, paused, auth_rejected, key>>
  /\ UNCHANGED <<rowVars, serverVars, checking, appVars, obsVars>>

\* A wait ends by shutdown: run() returns.
LoopExit(w) ==
  /\ loop[w] \in Waiting
  /\ woken[w]
  /\ loop' = [loop EXCEPT ![w] = "stopped"]
  /\ woken' = [woken EXCEPT ![w] = FALSE]
  /\ UNCHANGED <<task, paused, auth_rejected, key>>
  /\ UNCHANGED <<rowVars, serverVars, checking, appVars, obsVars>>

----------------------------------------------------------------------------
(* process_item, the task of a claimed row, from await to await.           *)

Goto(w, e, step) == task' = [task EXCEPT ![w][e] = step]

LoopUnchanged == UNCHANGED <<loop, woken, paused, key>>

\* The file is in a skipped directory or is a cloud placeholder: give it up.
Skip(w, e) ==
  /\ task[w][e] = "start"
  /\ UpdateQueueStatus(e, "failed", "skipped")
  /\ Goto(w, e, "none")
  /\ UNCHANGED <<auth_rejected, serverVars, checking, appVars, obsVars>>
  /\ LoopUnchanged

\* Mark it uploading (it already is); a retry asks the server first.
Start(w, e) ==
  /\ task[w][e] = "start"
  /\ UpdateQueueStatus(e, "uploading", "none")
  /\ Goto(w, e, IF retry_count[e] > 0 THEN "check" ELSE "send")
  /\ UNCHANGED <<auth_rejected, serverVars, checking, appVars, obsVars>>
  /\ LoopUnchanged

\* check_duplicates says the asset exists: straight to mark_completed.
PrecheckHit(w, e) ==
  /\ task[w][e] = "check"
  /\ key[w]
  /\ hash[e] \in stored
  /\ Goto(w, e, "settle")
  /\ UNCHANGED <<auth_rejected, rowVars, serverVars, checking, appVars, obsVars>>
  /\ LoopUnchanged

\* It doesn't, or the check failed (best effort): upload.
PrecheckMiss(w, e) ==
  /\ task[w][e] = "check"
  /\ Goto(w, e, "send")
  /\ UNCHANGED <<auth_rejected, rowVars, serverVars, checking, appVars, obsVars>>
  /\ LoopUnchanged

\* The request goes out under an accepted key: the server may finish it at any
\* later time, whether or not anyone still waits for the answer.
Send(w, e) ==
  /\ task[w][e] = "send"
  /\ key[w]
  /\ wire' = wire \cup {hash[e]}
  /\ Goto(w, e, "sent")
  /\ UNCHANGED <<auth_rejected, stored, rowVars, checking, appVars, obsVars>>
  /\ LoopUnchanged

\* Mutant: a request that was sent counts as an upload.
UploadOkUnanswered(w, e) ==
  /\ task[w][e] = "sent"
  /\ Goto(w, e, "record")
  /\ UNCHANGED <<auth_rejected, rowVars, serverVars, checking, appVars, obsVars>>
  /\ LoopUnchanged

\* upload_asset returned Ok: created, or a duplicate of what is stored.
UploadOk(w, e) ==
  /\ task[w][e] = "sent"
  /\ hash[e] \in stored
  /\ Goto(w, e, "record")
  /\ UNCHANGED <<auth_rejected, rowVars, serverVars, checking, appVars, obsVars>>
  /\ LoopUnchanged

\* It returned an error other than 401 (refused, timed out, answer lost):
\* fail_or_retry decides between a last failure and a backoff.
UploadFails(w, e) ==
  /\ task[w][e] \in {"send", "sent"}
  /\ faults' = [faults EXCEPT ![e] = @ + 1]
  /\ Goto(w, e, IF retry_count[e] + 1 >= MaxRetries THEN "giveup" ELSE "backoff")
  /\ UNCHANGED <<auth_rejected, rowVars, serverVars, checking, appVars>>
  /\ UNCHANGED <<db_errors, orphan>>
  /\ LoopUnchanged

\* It returned 401: hold this pipeline.
UploadRejected(w, e) ==
  /\ task[w][e] = "send"
  /\ ~ key[w]
  /\ auth_rejected' = [auth_rejected EXCEPT ![w] = TRUE]
  /\ Goto(w, e, "rejected")
  /\ UNCHANGED <<rowVars, serverVars, checking, appVars, obsVars>>
  /\ LoopUnchanged

\* record_upload after an upload; its failure is only logged.
Record(w, e) ==
  /\ task[w][e] = "record"
  /\ \/ /\ uploaded_files' = uploaded_files \cup {hash[e]}
        /\ UNCHANGED obsVars
     \/ /\ DbFails
        /\ UNCHANGED <<uploaded_files, orphan, faults>>
  /\ Goto(w, e, "settle")
  /\ UNCHANGED <<status, hash, retry_count, error_message>>
  /\ UNCHANGED <<auth_rejected, serverVars, checking, appVars>>
  /\ LoopUnchanged

\* The task's last write: mark_completed, `failed`, `pending` after the
\* backoff's sleep, or `pending` without a retry.
Finish(w, e) ==
  /\ \/ task[w][e] = "settle"   /\ UpdateQueueStatus(e, "completed", "none")
     \/ task[w][e] = "giveup"   /\ UpdateQueueStatus(e, "failed", "upload")
     \/ task[w][e] = "backoff"  /\ UpdateQueueStatus(e, "pending", "upload")
     \/ task[w][e] = "rejected" /\ RequeueWithoutRetry(e)
  /\ Goto(w, e, "none")
  /\ UNCHANGED <<auth_rejected, serverVars, checking, appVars, obsVars>>
  /\ LoopUnchanged

\* That write, or the first one, fails: the error is logged, the task ends,
\* and the row stays `uploading` with nobody working on it.
StatusWriteFails(w, e) ==
  /\ task[w][e] \in {"start", "settle", "giveup", "backoff", "rejected"}
  /\ DbFails
  /\ orphan' = orphan \cup {e}
  /\ Goto(w, e, "none")
  /\ UNCHANGED <<auth_rejected, rowVars, serverVars, checking, appVars, faults>>
  /\ LoopUnchanged

----------------------------------------------------------------------------
(* The server.                                                             *)

\* A request that reached the server completes there.
Land(h) ==
  /\ h \in wire
  /\ wire' = wire \ {h}
  /\ stored' = stored \cup {h}
  /\ UNCHANGED <<rowVars, checking, workerVars, appVars, obsVars>>

\* The key is revoked or expires (it matters while the loop lives).
RevokeKey(w) ==
  /\ key[w]
  /\ loop[w] # "stopped"
  /\ key' = [key EXCEPT ![w] = FALSE]
  /\ UNCHANGED <<loop, task, woken, paused, auth_rejected>>
  /\ UNCHANGED <<rowVars, serverVars, checking, appVars, obsVars>>

----------------------------------------------------------------------------
(* The application.                                                        *)

\* start_pipeline: a new pipeline, its gate open, if there is a client.
StartPipeline ==
  \/ \E w \in Worker :
       /\ loop[w] = "unborn"
       /\ loop' = [loop EXCEPT ![w] = "top"]
       /\ key' = [key EXCEPT ![w] = TRUE]
       /\ pipeline' = w
       /\ UNCHANGED <<task, woken, paused, auth_rejected>>
  \/ /\ pipeline' = NoPipeline
     /\ UNCHANGED workerVars

\* Mutant: no recovery of the rows an earlier process left.
LaunchWithoutRecovery ==
  /\ app = "down"
  /\ app' = "up"
  /\ user_paused' = FALSE
  /\ StartPipeline
  /\ UNCHANGED <<rowVars, serverVars, checking, obsVars>>

\* App::init: recover the rows an earlier process left, then start.  A failed
\* recovery is logged, and those rows stay as they are.
Launch ==
  /\ app = "down"
  /\ \/ ResetStaleUploading /\ UNCHANGED <<db_errors, faults>>
     \/ /\ DbFails
        /\ orphan' = {e \in Entry : status[e] = "uploading"}
        /\ UNCHANGED <<rowVars, faults>>
  /\ app' = "up"
  /\ user_paused' = FALSE
  /\ StartPipeline
  /\ UNCHANGED <<serverVars, checking>>

\* UploadPipeline::pause and resume; the menu acts only if there is a pipeline.
SetPause(b) ==
  /\ app = "up"
  /\ pipeline # NoPipeline
  /\ paused' = [paused EXCEPT ![pipeline] = b]
  /\ user_paused' = b
  /\ UNCHANGED <<loop, task, woken, auth_rejected, key, app, pipeline>>
  /\ UNCHANGED <<rowVars, serverVars, checking, obsVars>>

\* apply_new_config with a new server or key: stop() notifies whoever waits
\* at that moment, and then waits for the loop, 3 seconds at most.
StopOldPipeline ==
  /\ app = "up"
  /\ pipeline # NoPipeline
  /\ woken' = [woken EXCEPT ![pipeline] = loop[pipeline] \in Waiting]
  /\ app' = "rebuilding"
  /\ UNCHANGED <<loop, task, paused, auth_rejected, key, pipeline, user_paused>>
  /\ UNCHANGED <<rowVars, serverVars, checking, obsVars>>

\* Mutant: the recovery also runs when a pipeline is rebuilt.
StartNewPipelineRecovers ==
  /\ app = "rebuilding" \/ (app = "up" /\ pipeline = NoPipeline)
  /\ app' = "up"
  /\ UNCHANGED user_paused
  /\ StartPipeline
  /\ ResetStaleUploading
  /\ UNCHANGED <<serverVars, checking, db_errors, faults>>

\* ... and goes on without it: the rest of apply_new_config.  With no pipeline
\* to stop, a reload that yields a client is this step alone.
StartNewPipeline ==
  /\ app = "rebuilding" \/ (app = "up" /\ pipeline = NoPipeline)
  /\ app' = "up"
  /\ UNCHANGED user_paused
  /\ StartPipeline
  /\ UNCHANGED <<rowVars, serverVars, checking, obsVars>>

\* The process ends, at any point: Quit, the end of a graceful shutdown, a
\* crash.  Its loops and tasks are gone; rows and server stay.  (The guard
\* keeps a pipeline for the next launch: a bound.)
ProcessExit ==
  /\ app # "down"
  /\ \E w \in Worker : loop[w] = "unborn"
  /\ app' = "down"
  /\ pipeline' = NoPipeline
  /\ user_paused' = FALSE
  /\ loop' = [w \in Worker |-> IF loop[w] = "unborn" THEN "unborn" ELSE "stopped"]
  /\ task' = [w \in Worker |-> [e \in Entry |-> "none"]]
  /\ checking' = {}
  /\ orphan' = {}
  /\ woken' = [w \in Worker |-> FALSE]
  /\ paused' = [w \in Worker |-> FALSE]
  /\ auth_rejected' = [w \in Worker |-> FALSE]
  /\ key' = [w \in Worker |-> FALSE]
  /\ UNCHANGED <<rowVars, serverVars, db_errors, faults>>

----------------------------------------------------------------------------

TaskStep(w, e) ==
  \/ Skip(w, e) \/ Start(w, e)
  \/ PrecheckHit(w, e) \/ PrecheckMiss(w, e)
  \/ Send(w, e) \/ UploadOk(w, e) \/ UploadFails(w, e) \/ UploadRejected(w, e)
  \/ Record(w, e) \/ Finish(w, e)

LoopStep(w) ==
  \/ LoopTop(w) \/ DequeueEmpty(w) \/ DequeueFails(w) \/ BatchDone(w)
  \/ LoopExit(w)
  \/ \E S \in SUBSET Entry : Claim(w, S)

Next ==
  \/ \E h \in Hash : CheckDedup(h) \/ Land(h)
  \/ \E e \in Entry, h \in Hash : Enqueue(e, h)
  \/ \E w \in Worker : LoopStep(w) \/ RevokeKey(w)
  \/ \E w \in Worker, e \in Entry : TaskStep(w, e) \/ StatusWriteFails(w, e)
  \/ Launch \/ StopOldPipeline \/ StartNewPipeline \/ ProcessExit
  \/ \E b \in BOOLEAN : SetPause(b)

Spec == Init /\ [][Next]_vars

\* The runtime keeps polling every loop and task, every request is answered or
\* times out, timers fire, and the main thread returns from its wait.
Fairness ==
  /\ \A w \in Worker : WF_vars(LoopStep(w))
  /\ \A w \in Worker, e \in Entry : WF_vars(TaskStep(w, e))
  /\ WF_vars(StartNewPipeline)

FairSpec == Spec /\ Fairness

----------------------------------------------------------------------------
(* Properties.                                                             *)

\* At most one task works on a row, whatever pipelines run side by side, and
\* the row it works on is marked `uploading`.
OneHolder ==
  \A w \in Worker, e \in Entry : task[w][e] # "none" =>
    /\ status[e] = "uploading"
    /\ \A v \in Worker : task[v][e] # "none" => v = w

\* While the process runs, an `uploading` row has a task working on it, or its
\* last status write was lost: no row is claimed and forgotten.
NoForgottenClaim ==
  app # "down" =>
    \A e \in Entry : status[e] = "uploading" =>
      e \in orphan \/ \E w \in Worker : task[w][e] # "none"

\* A pipeline never has more than `concurrency` uploads under way.
ConcurrencyRespected ==
  \A w \in Worker : Cardinality(Held(w)) <= Concurrency

\* A row is marked completed, and a hash is put in the dedup table, only when
\* the server stores the asset.
CompletedIsStored ==
  /\ uploaded_files \subseteq stored
  /\ \A e \in Entry : status[e] = "completed" => hash[e] \in stored

\* A row given up for its upload errors had max_retries failed uploads of its
\* own: rejected keys, restarts and lost writes don't spend its retries.
FailedAfterMaxRetries ==
  \A e \in Entry : status[e] = "failed" /\ error_message[e] = "upload" =>
    faults[e] >= MaxRetries

\* A pipeline holds only because its own key was rejected: an abandoned
\* pipeline's 401 does not stop the one that replaced it.
HoldsOnlyOnItsOwnKey ==
  \A w \in Worker : auth_rejected[w] => ~ key[w]

\* Once its key is rejected a pipeline claims nothing more.
HeldClaimsNothing ==
  [][\A w \in Worker : auth_rejected[w] => Held(w)' \subseteq Held(w)]_vars

\* What a row shows: claimed or not, it is queued until its last write.
Phase ==
  [e \in Entry |->
     CASE status[e] \in {"pending", "uploading"} -> "queued"
       [] status[e] = "failed" ->
            IF error_message[e] = "skipped" THEN "excluded" ELSE "exhausted"
       [] OTHER -> status[e]]

Promise == INSTANCE Delivery WITH phase <- Phase

\* The detailed queue implements what Delivery promises: each of its steps is
\* one of Delivery's, or changes nothing a reader of the queue can see.
KeepsPromise == Promise!Spec

\* A settled row.
Settled(e) == status[e] \in {"completed", "failed"}

\* The pipeline in use can work: not paused, its key accepted.
Runnable ==
  /\ app = "up"
  /\ pipeline # NoPipeline
  /\ ~ paused[pipeline]
  /\ key[pipeline]

\* If the application runs on, unpaused, with an accepted key, then every row
\* settles, but those whose status write was lost: they wait for a restart.
EveryRowSettles ==
  <>[]Runnable =>
    \A e \in Entry : [](status[e] # "absent" => <>(Settled(e) \/ e \in orphan))

============================================================================
