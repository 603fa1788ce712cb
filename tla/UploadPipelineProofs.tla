------------------------ MODULE UploadPipelineProofs ------------------------
(***************************************************************************)
(* Proofs about UploadPipeline, for every queue, number of pipelines,      *)
(* concurrency, number of retries and number of failed database calls: one *)
(* inductive invariant, the safety properties it implies, and the action   *)
(* property of a rejected key.                                             *)
(*                                                                         *)
(* The properties alone are not inductive.  That an upload under way is    *)
(* `uploading` matters only because nothing else touches such a row: so    *)
(* the invariant says when a task exists (its loop waits for the batch,    *)
(* the process runs, its last write is still to come), what a task knows   *)
(* at the steps before its last write, and how the retry counter lags      *)
(* behind the failures it counts.                                          *)
(***************************************************************************)
EXTENDS UploadPipeline, FiniteSetTheorems, TLAPS

(* The parts of the inductive invariant.                                   *)

\* A row's file was hashed before the row was inserted.
HashKnown == \A e \in Entry : status[e] # "absent" => hash[e] \in Hash

\* A task lives within its loop's batch, and its row's last write is to come.
InBatch ==
  \A w \in Worker, e \in Entry : task[w][e] # "none" =>
    /\ loop[w] = "batch"
    /\ app # "down"
    /\ status[e] = "uploading"
    /\ e \notin orphan

\* Run loops live in the process.
LoopsRunInApp ==
  app = "down" => \A w \in Worker : loop[w] \in {"unborn", "stopped"}

\* A row whose last write was lost is still marked `uploading`.
OrphanRows == \A e \in orphan : status[e] = "uploading"

\* No row has two tasks.
OneTask ==
  \A v \in Worker, w \in Worker, e \in Entry :
    task[v][e] # "none" /\ task[w][e] # "none" => v = w

\* What is on its way to the server was queued.
OnWire == \A h \in wire : \E e \in Entry : status[e] # "absent" /\ hash[e] = h

\* A task that is about to report its row completed has seen the asset stored.
Stored ==
  /\ CompletedIsStored
  /\ \A w \in Worker, e \in Entry :
       task[w][e] \in {"record", "settle"} => hash[e] \in stored

\* The counter of a live row never runs ahead of its failed uploads; a task
\* that gives up, or backs off, has one failure the counter does not have yet.
Retries ==
  /\ FailedAfterMaxRetries
  /\ \A e \in Entry : status[e] # "failed" => retry_count[e] <= faults[e]
  /\ \A w \in Worker, e \in Entry :
       /\ task[w][e] \in {"backoff", "giveup"} => retry_count[e] < faults[e]
       /\ task[w][e] = "giveup" => MaxRetries <= retry_count[e] + 1

\* Only a live pipeline between batches, or in one, has had its key rejected.
OwnKey ==
  \A w \in Worker : auth_rejected[w] =>
    ~ key[w] /\ loop[w] \notin {"unborn", "dequeue"}

IInv ==
  /\ TypeOK
  /\ HashKnown
  /\ InBatch
  /\ LoopsRunInApp
  /\ OrphanRows
  /\ OneTask
  /\ NoForgottenClaim
  /\ OnWire
  /\ Stored
  /\ Retries
  /\ OwnKey

----------------------------------------------------------------------------
(* The parts of the invariant, the tuples of variables and the ranges of   *)
(* the state are expanded in every proof below; the actions and the other  *)
(* operators are cited where they are used.                                *)
USE PipelineAssumption
USE DEF IInv, TypeOK, HashKnown, InBatch, LoopsRunInApp, OrphanRows, OneTask,
        NoForgottenClaim, OnWire, Stored, CompletedIsStored, Retries, FailedAfterMaxRetries, OwnKey,
        vars, rowVars, serverVars, workerVars, appVars, obsVars,
        Status, Message, Loop, Step

LEMMA InitIInv == Init => IInv
<1> SUFFICES ASSUME Init PROVE IInv
  OBVIOUS
<1> USE DEF Init
<1>1. TypeOK
  <2>1. /\ status \in [Entry -> Status]
        /\ hash \in [Entry -> Hash \cup {NoHash}]
        /\ retry_count \in [Entry -> Nat]
        /\ error_message \in [Entry -> Message]
        /\ faults \in [Entry -> Nat]
    OBVIOUS
  <2>2. /\ loop \in [Worker -> Loop]
        /\ task \in [Worker -> [Entry -> Step]]
        /\ woken \in [Worker -> BOOLEAN]
        /\ paused \in [Worker -> BOOLEAN]
        /\ auth_rejected \in [Worker -> BOOLEAN]
        /\ key \in [Worker -> BOOLEAN]
    OBVIOUS
  <2>3. db_errors \in 0..MaxDbErrors
    OBVIOUS
  <2> QED BY <2>1, <2>2, <2>3
<1>2. HashKnown /\ InBatch /\ LoopsRunInApp /\ OrphanRows /\ OneTask
  OBVIOUS
<1>3. NoForgottenClaim /\ OnWire /\ Stored /\ OwnKey
  OBVIOUS
<1>4. Retries
  OBVIOUS
<1> QED BY <1>1, <1>2, <1>3, <1>4

LEMMA StutterIInv == ASSUME IInv, UNCHANGED vars PROVE IInv'
  OBVIOUS

(* Detection and the queue.                                                *)

LEMMA CheckDedupIInv ==
  ASSUME IInv, NEW h \in Hash, CheckDedup(h) PROVE IInv'
  BY DEF CheckDedup

LEMMA EnqueueIInv ==
  ASSUME IInv, NEW e \in Entry, NEW h \in Hash, Enqueue(e, h) PROVE IInv'
  BY DEF Enqueue

(* The run loop.                                                           *)

LEMMA LoopTopIInv ==
  ASSUME IInv, NEW w \in Worker, LoopTop(w) PROVE IInv'
  BY DEF LoopTop, Waiting

\* The claimed rows were pending, so no task had them.
LEMMA ClaimIInv ==
  ASSUME IInv, NEW w \in Worker, NEW S \in SUBSET Entry, Claim(w, S) PROVE IInv'
<1> USE DEF Claim, Newest, Pending
<1>1. TypeOK'
  OBVIOUS
<1>2. HashKnown' /\ LoopsRunInApp' /\ OnWire' /\ Stored' /\ Retries' /\ OwnKey'
  OBVIOUS
<1>3. \A v \in Worker, e \in Entry :
        task'[v][e] = IF v = w /\ e \in S THEN "start" ELSE task[v][e]
  OBVIOUS
<1>4. InBatch'
  <2>1. ASSUME NEW e \in S
        PROVE  status[e] = "pending" /\ \A v \in Worker : task[v][e] = "none"
    OBVIOUS
  <2>2. \A e \in S : e \notin orphan
    OBVIOUS
  <2> QED BY <1>3, <2>1, <2>2
<1>5. OneTask'
  BY <1>3
<1>6. NoForgottenClaim' /\ OrphanRows'
  BY <1>3
<1> QED BY <1>1, <1>2, <1>4, <1>5, <1>6

LEMMA DequeueEmptyIInv ==
  ASSUME IInv, NEW w \in Worker, DequeueEmpty(w) PROVE IInv'
  BY DEF DequeueEmpty

LEMMA DequeueFailsIInv ==
  ASSUME IInv, NEW w \in Worker, DequeueFails(w) PROVE IInv'
  BY DEF DequeueFails, DbFails

LEMMA BatchDoneIInv ==
  ASSUME IInv, NEW w \in Worker, BatchDone(w) PROVE IInv'
  BY DEF BatchDone, Held

LEMMA LoopExitIInv ==
  ASSUME IInv, NEW w \in Worker, LoopExit(w) PROVE IInv'
  BY DEF LoopExit, Waiting

(* The tasks.                                                              *)

LEMMA SkipIInv ==
  ASSUME IInv, NEW w \in Worker, NEW e \in Entry, Skip(w, e) PROVE IInv'
  BY DEF Skip, UpdateQueueStatus, Goto, LoopUnchanged

LEMMA StartIInv ==
  ASSUME IInv, NEW w \in Worker, NEW e \in Entry, Start(w, e) PROVE IInv'
  BY DEF Start, UpdateQueueStatus, Goto, LoopUnchanged

LEMMA PrecheckHitIInv ==
  ASSUME IInv, NEW w \in Worker, NEW e \in Entry, PrecheckHit(w, e) PROVE IInv'
  BY DEF PrecheckHit, Goto, LoopUnchanged

LEMMA PrecheckMissIInv ==
  ASSUME IInv, NEW w \in Worker, NEW e \in Entry, PrecheckMiss(w, e) PROVE IInv'
  BY DEF PrecheckMiss, Goto, LoopUnchanged

LEMMA SendIInv ==
  ASSUME IInv, NEW w \in Worker, NEW e \in Entry, Send(w, e) PROVE IInv'
  BY DEF Send, Goto, LoopUnchanged

LEMMA UploadOkIInv ==
  ASSUME IInv, NEW w \in Worker, NEW e \in Entry, UploadOk(w, e) PROVE IInv'
  BY DEF UploadOk, Goto, LoopUnchanged

LEMMA UploadFailsIInv ==
  ASSUME IInv, NEW w \in Worker, NEW e \in Entry, UploadFails(w, e) PROVE IInv'
  BY DEF UploadFails, Goto, LoopUnchanged

LEMMA UploadRejectedIInv ==
  ASSUME IInv, NEW w \in Worker, NEW e \in Entry, UploadRejected(w, e) PROVE IInv'
  BY DEF UploadRejected, Goto, LoopUnchanged

LEMMA RecordIInv ==
  ASSUME IInv, NEW w \in Worker, NEW e \in Entry, Record(w, e) PROVE IInv'
<1> USE DEF Record, Goto, LoopUnchanged
<1>1. hash[e] \in Hash /\ hash[e] \in stored
  OBVIOUS
<1>2. CASE uploaded_files' = uploaded_files \cup {hash[e]} /\ UNCHANGED obsVars
  BY <1>1, <1>2
<1>3. CASE DbFails /\ UNCHANGED <<uploaded_files, orphan, faults>>
  BY <1>1, <1>3 DEF DbFails
<1> QED BY <1>2, <1>3

\* One case for each last write.
LEMMA FinishIInv ==
  ASSUME IInv, NEW w \in Worker, NEW e \in Entry, Finish(w, e) PROVE IInv'
<1> USE DEF Finish, Goto, LoopUnchanged, UpdateQueueStatus, RequeueWithoutRetry
<1>1. CASE task[w][e] = "settle" /\ UpdateQueueStatus(e, "completed", "none")
  BY <1>1
<1>2. CASE task[w][e] = "giveup" /\ UpdateQueueStatus(e, "failed", "upload")
  BY <1>2
<1>3. CASE task[w][e] = "backoff" /\ UpdateQueueStatus(e, "pending", "upload")
  BY <1>3
<1>4. CASE task[w][e] = "rejected" /\ RequeueWithoutRetry(e)
  BY <1>4
<1> QED BY <1>1, <1>2, <1>3, <1>4

LEMMA StatusWriteFailsIInv ==
  ASSUME IInv, NEW w \in Worker, NEW e \in Entry, StatusWriteFails(w, e)
  PROVE  IInv'
  BY DEF StatusWriteFails, DbFails, Goto, LoopUnchanged

(* The server and the application.                                         *)

LEMMA LandIInv ==
  ASSUME IInv, NEW h \in Hash, Land(h) PROVE IInv'
  BY DEF Land

LEMMA RevokeKeyIInv ==
  ASSUME IInv, NEW w \in Worker, RevokeKey(w) PROVE IInv'
  BY DEF RevokeKey

LEMMA SetPauseIInv ==
  ASSUME IInv, NEW b \in BOOLEAN, SetPause(b) PROVE IInv'
  BY DEF SetPause

LEMMA StopOldPipelineIInv ==
  ASSUME IInv, StopOldPipeline PROVE IInv'
  BY DEF StopOldPipeline

LEMMA StartNewPipelineIInv ==
  ASSUME IInv, StartNewPipeline PROVE IInv'
<1> USE DEF StartNewPipeline
<1>1. CASE pipeline' = NoPipeline /\ UNCHANGED workerVars
  BY <1>1
<1>2. ASSUME NEW w \in Worker,
             loop[w] = "unborn",
             loop' = [loop EXCEPT ![w] = "top"],
             key' = [key EXCEPT ![w] = TRUE],
             pipeline' = w,
             UNCHANGED <<task, woken, paused, auth_rejected>>
      PROVE  IInv'
  BY <1>2
<1> QED BY <1>1, <1>2 DEF StartPipeline

\* No task outlives the process, so the rows it left are nobody's.
LEMMA LaunchIInv ==
  ASSUME IInv, Launch PROVE IInv'
<1> USE DEF Launch, ResetStaleUploading, DbFails, StartPipeline
<1>1. TypeOK'
  <2>1. /\ status' \in [Entry -> Status]
        /\ error_message' \in [Entry -> Message]
        /\ orphan' \subseteq Entry
        /\ db_errors' \in 0..MaxDbErrors
        /\ UNCHANGED <<hash, retry_count, uploaded_files, faults>>
    OBVIOUS
  <2>2. /\ loop' \in [Worker -> Loop]
        /\ key' \in [Worker -> BOOLEAN]
        /\ pipeline' \in Worker \cup {NoPipeline}
        /\ UNCHANGED <<task, woken, paused, auth_rejected>>
    <3>1. CASE pipeline' = NoPipeline /\ UNCHANGED workerVars
      BY <3>1
    <3>2. ASSUME NEW w \in Worker,
                 loop' = [loop EXCEPT ![w] = "top"],
                 key' = [key EXCEPT ![w] = TRUE],
                 pipeline' = w,
                 UNCHANGED <<task, woken, paused, auth_rejected>>
          PROVE  /\ loop' \in [Worker -> Loop]
                 /\ key' \in [Worker -> BOOLEAN]
                 /\ pipeline' \in Worker
      BY <3>2
    <3> QED BY <3>1, <3>2
  <2> QED BY <2>1, <2>2
<1>2. HashKnown' /\ InBatch' /\ LoopsRunInApp' /\ OrphanRows' /\ OneTask'
  OBVIOUS
<1>3. NoForgottenClaim' /\ OnWire' /\ OwnKey'
  OBVIOUS
<1>4. Stored' /\ Retries'
  OBVIOUS
<1> QED BY <1>1, <1>2, <1>3, <1>4

LEMMA ProcessExitIInv ==
  ASSUME IInv, ProcessExit PROVE IInv'
<1> USE DEF ProcessExit
<1>1. TypeOK'
  <2>1. /\ loop' \in [Worker -> Loop]
        /\ task' \in [Worker -> [Entry -> Step]]
        /\ woken' \in [Worker -> BOOLEAN]
        /\ paused' \in [Worker -> BOOLEAN]
        /\ auth_rejected' \in [Worker -> BOOLEAN]
        /\ key' \in [Worker -> BOOLEAN]
    OBVIOUS
  <2> QED BY <2>1
<1>2. HashKnown' /\ InBatch' /\ LoopsRunInApp' /\ OrphanRows' /\ OneTask'
  OBVIOUS
<1>3. NoForgottenClaim' /\ OnWire' /\ Stored' /\ Retries' /\ OwnKey'
  OBVIOUS
<1> QED BY <1>1, <1>2, <1>3

----------------------------------------------------------------------------
(* The invariant is inductive, and implies the safety properties.          *)

LEMMA TaskStepIInv ==
  ASSUME IInv, NEW w \in Worker, NEW e \in Entry, TaskStep(w, e) PROVE IInv'
  BY SkipIInv, StartIInv, PrecheckHitIInv, PrecheckMissIInv, SendIInv,
     UploadOkIInv, UploadFailsIInv, UploadRejectedIInv, RecordIInv, FinishIInv
     DEF TaskStep

LEMMA LoopStepIInv ==
  ASSUME IInv, NEW w \in Worker, LoopStep(w) PROVE IInv'
  BY LoopTopIInv, ClaimIInv, DequeueEmptyIInv, DequeueFailsIInv, BatchDoneIInv,
     LoopExitIInv
     DEF LoopStep

LEMMA NextIInv ==
  ASSUME IInv, [Next]_vars PROVE IInv'
<1>1. CASE UNCHANGED vars
  BY <1>1, StutterIInv
<1>2. ASSUME NEW h \in Hash, CheckDedup(h) \/ Land(h) PROVE IInv'
  BY <1>2, CheckDedupIInv, LandIInv
<1>3. ASSUME NEW e \in Entry, NEW h \in Hash, Enqueue(e, h) PROVE IInv'
  BY <1>3, EnqueueIInv
<1>4. ASSUME NEW w \in Worker, LoopStep(w) \/ RevokeKey(w) PROVE IInv'
  BY <1>4, LoopStepIInv, RevokeKeyIInv
<1>5. ASSUME NEW w \in Worker, NEW e \in Entry,
             TaskStep(w, e) \/ StatusWriteFails(w, e)
      PROVE  IInv'
  BY <1>5, TaskStepIInv, StatusWriteFailsIInv
<1>6. CASE Launch \/ StopOldPipeline \/ StartNewPipeline \/ ProcessExit
  BY <1>6, LaunchIInv, StopOldPipelineIInv, StartNewPipelineIInv, ProcessExitIInv
<1>7. ASSUME NEW b \in BOOLEAN, SetPause(b) PROVE IInv'
  BY <1>7, SetPauseIInv
<1> QED BY <1>1, <1>2, <1>3, <1>4, <1>5, <1>6, <1>7 DEF Next

\* The strengthened invariant holds in every reachable state.
THEOREM InvariantHolds == Spec => []IInv
  BY InitIInv, NextIInv, PTL DEF Spec

\* Every variable keeps its type, whatever fails.
THEOREM TypeCorrect == Spec => []TypeOK
<1>1. IInv => TypeOK
  OBVIOUS
<1> QED BY <1>1, InvariantHolds, PTL

\* Claims are exclusive: two pipelines never upload the same row at once.
THEOREM ClaimsAreExclusive == Spec => []OneHolder
<1>1. IInv => OneHolder
  BY DEF OneHolder
<1> QED BY <1>1, InvariantHolds, PTL

\* No claimed row is forgotten while the process runs.
THEOREM ClaimsAreKept == Spec => []NoForgottenClaim
<1>1. IInv => NoForgottenClaim
  OBVIOUS
<1> QED BY <1>1, InvariantHolds, PTL

\* What is reported completed, or kept for dedup, is on the server.
THEOREM CompletionIsReal == Spec => []CompletedIsStored
<1>1. IInv => CompletedIsStored
  OBVIOUS
<1> QED BY <1>1, InvariantHolds, PTL

\* Only its own failed uploads exhaust a row's retries.
THEOREM RetriesAreSpentOnFailures == Spec => []FailedAfterMaxRetries
<1>1. IInv => FailedAfterMaxRetries
  OBVIOUS
<1> QED BY <1>1, InvariantHolds, PTL

\* A pipeline is held only by its own rejected key.
THEOREM HoldIsOwn == Spec => []HoldsOnlyOnItsOwnKey
<1>1. IInv => HoldsOnlyOnItsOwnKey
  BY DEF HoldsOnlyOnItsOwnKey
<1> QED BY <1>1, InvariantHolds, PTL

----------------------------------------------------------------------------
(* What a pipeline holds grows only by a claim, and only from nothing.     *)

LEMMA HeldChange ==
  ASSUME IInv, [Next]_vars, NEW w \in Worker
  PROVE  \/ Held(w)' \subseteq Held(w)
         \/ \E S \in SUBSET Entry : Claim(w, S) /\ Held(w)' \subseteq S
<1> DEFINE Change == \/ Held(w)' \subseteq Held(w)
                     \/ \E S \in SUBSET Entry : Claim(w, S) /\ Held(w)' \subseteq S
<1>1. ASSUME UNCHANGED task PROVE Change
  BY <1>1 DEF Held
<1>2. ASSUME NEW v \in Worker, LoopStep(v) PROVE Change
  <2>1. ASSUME NEW S \in SUBSET Entry, Claim(v, S) PROVE Change
    <3>1. CASE v = w
      <4>1. \A e \in Entry : task[w][e] = "none"
        BY <2>1, <3>1 DEF Claim
      <4>2. \A e \in Entry : task'[w][e] = IF e \in S THEN "start" ELSE "none"
        BY <2>1, <3>1, <4>1 DEF Claim
      <4>3. Held(w)' \subseteq S
        BY <4>2 DEF Held
      <4> QED BY <2>1, <3>1, <4>3
    <3>2. CASE v # w
      BY <2>1, <3>2 DEF Claim, Held
    <3> QED BY <3>1, <3>2
  <2>2. ASSUME ~ \E S \in SUBSET Entry : Claim(v, S) PROVE UNCHANGED task
    BY <1>2, <2>2 DEF LoopStep, LoopTop, DequeueEmpty, DequeueFails, BatchDone,
                      LoopExit
  <2> QED BY <1>1, <2>1, <2>2
<1>3. ASSUME NEW v \in Worker, NEW e \in Entry,
             TaskStep(v, e) \/ StatusWriteFails(v, e)
      PROVE  Change
  <2>1. task[v][e] # "none" /\ \E s \in Step : Goto(v, e, s)
    BY <1>3 DEF TaskStep, Skip, Start, PrecheckHit, PrecheckMiss, Send, UploadOk,
                UploadFails, UploadRejected, Record, Finish, StatusWriteFails
  <2> QED BY <2>1 DEF Goto, Held
<1>4. ASSUME ProcessExit PROVE Change
  BY <1>4 DEF ProcessExit, Held
<1>5. ASSUME \/ \E h \in Hash : CheckDedup(h) \/ Land(h)
             \/ \E e \in Entry, h \in Hash : Enqueue(e, h)
             \/ \E v \in Worker : RevokeKey(v)
             \/ Launch \/ StopOldPipeline \/ StartNewPipeline
             \/ \E b \in BOOLEAN : SetPause(b)
             \/ UNCHANGED vars
      PROVE  UNCHANGED task
  BY <1>5 DEF CheckDedup, Land, Enqueue, RevokeKey, Launch, StopOldPipeline,
              StartNewPipeline, StartPipeline, SetPause
<1> QED BY <1>1, <1>2, <1>3, <1>4, <1>5 DEF Next

\* The limit on concurrent uploads of one pipeline.
THEOREM LimitHolds == Spec => []ConcurrencyRespected
<1>1. Init => ConcurrencyRespected
  <2> SUFFICES ASSUME Init, NEW w \in Worker
               PROVE  Cardinality(Held(w)) <= Concurrency
    BY DEF ConcurrencyRespected
  <2>1. Held(w) = {}
    BY DEF Init, Held
  <2> QED BY <2>1, FS_EmptySet
<1>2. ASSUME IInv, ConcurrencyRespected, [Next]_vars PROVE ConcurrencyRespected'
  <2> SUFFICES ASSUME NEW w \in Worker
               PROVE  Cardinality(Held(w)') <= Concurrency
    BY DEF ConcurrencyRespected
  <2>1. CASE Held(w)' \subseteq Held(w)
    <3>1. IsFiniteSet(Held(w))
      BY FS_Subset DEF Held
    <3>2. Cardinality(Held(w)') <= Cardinality(Held(w))
      BY <2>1, <3>1, FS_Subset
    <3>3. /\ Cardinality(Held(w)) \in Nat
          /\ Cardinality(Held(w)') \in Nat
      BY <2>1, <3>1, FS_Subset, FS_CardinalityType
    <3> QED BY <1>2, <3>2, <3>3 DEF ConcurrencyRespected
  <2>2. CASE \E S \in SUBSET Entry : Claim(w, S) /\ Held(w)' \subseteq S
    <3>1. PICK S \in SUBSET Entry : Claim(w, S) /\ Held(w)' \subseteq S
      BY <2>2
    <3>2. IsFiniteSet(S)
      BY FS_Subset
    <3>3. Cardinality(Held(w)') <= Cardinality(S)
      BY <3>1, <3>2, FS_Subset
    <3>4. /\ Cardinality(S) \in Nat
          /\ Cardinality(Held(w)') \in Nat
      BY <3>1, <3>2, FS_Subset, FS_CardinalityType
    <3>5. Cardinality(S) <= Concurrency
      BY <3>1 DEF Claim, Newest
    <3> QED BY <3>3, <3>4, <3>5
  <2> QED BY <1>2, <2>1, <2>2, HeldChange
<1> QED BY <1>1, <1>2, InvariantHolds, PTL DEF Spec

\* A pipeline whose key was rejected takes no further row.
THEOREM NoClaimOnHold == Spec => HeldClaimsNothing
<1>1. ASSUME IInv, [Next]_vars, NEW w \in Worker, auth_rejected[w]
      PROVE  Held(w)' \subseteq Held(w)
  <2>1. \A S \in SUBSET Entry : ~ Claim(w, S)
    BY <1>1 DEF Claim
  <2> QED BY <1>1, <2>1, HeldChange
<1>2. IInv /\ [Next]_vars =>
        [\A w \in Worker : auth_rejected[w] => Held(w)' \subseteq Held(w)]_vars
  BY <1>1
<1> QED BY <1>2, InvariantHolds, PTL DEF Spec, HeldClaimsNothing

----------------------------------------------------------------------------
(* The detailed upload queue implements Delivery: a step of UploadPipeline *)
(* is a step of Delivery on the phases of the rows, or leaves what         *)
(* Delivery sees unchanged.  The invariant above carries the argument:     *)
(* only an `uploading` row has a task, what lands on the server was        *)
(* queued, and a row is given up after enough faults.                      *)

HIDE PipelineAssumption
HIDE DEF LoopsRunInApp, OrphanRows, OneTask, NoForgottenClaim,
         FailedAfterMaxRetries, OwnKey

\* What Delivery sees.
Seen == <<Phase, hash, stored, faults>>

\* The steps that Delivery does not see.
LEMMA Unseen ==
  ASSUME UNCHANGED <<status, error_message, hash, stored, faults>>
  PROVE  UNCHANGED Seen
  BY DEF Phase, Seen

LEMMA InitRefines == Init => Promise!Init
  BY DEF Init, Promise!Init, Phase

LEMMA EnqueueRefines ==
  ASSUME IInv, NEW e \in Entry, NEW h \in Hash, Enqueue(e, h)
  PROVE  Promise!Submit(e, h)
  BY DEF Enqueue, Promise!Submit, Phase

LEMMA LandRefines ==
  ASSUME IInv, NEW h \in Hash, Land(h)
  PROVE  Promise!Deliver(h)
  BY DEF Land, Promise!Deliver, Phase

LEMMA ClaimRefines ==
  ASSUME IInv, NEW w \in Worker, NEW S \in SUBSET Entry, Claim(w, S)
  PROVE  UNCHANGED Seen
  BY DEF Claim, Newest, Pending, Seen, Phase

LEMMA SkipRefines ==
  ASSUME IInv, NEW w \in Worker, NEW e \in Entry, Skip(w, e)
  PROVE  Promise!Exclude(e)
  BY DEF Skip, UpdateQueueStatus, Promise!Exclude, Phase

LEMMA StartRefines ==
  ASSUME IInv, NEW w \in Worker, NEW e \in Entry, Start(w, e)
  PROVE  UNCHANGED Seen
  BY DEF Start, UpdateQueueStatus, Seen, Phase

LEMMA UploadFailsRefines ==
  ASSUME IInv, NEW w \in Worker, NEW e \in Entry, UploadFails(w, e)
  PROVE  Promise!Fault(e)
  BY DEF UploadFails, Promise!Fault, Phase

LEMMA FinishRefines ==
  ASSUME IInv, NEW w \in Worker, NEW e \in Entry, Finish(w, e)
  PROVE  Promise!Complete(e) \/ Promise!GiveUp(e) \/ UNCHANGED Seen
<1> USE DEF Finish, UpdateQueueStatus, RequeueWithoutRetry, Phase
<1>1. CASE task[w][e] = "settle" /\ UpdateQueueStatus(e, "completed", "none")
  BY <1>1 DEF Promise!Complete
<1>2. CASE task[w][e] = "giveup" /\ UpdateQueueStatus(e, "failed", "upload")
  <2>1. faults[e] >= MaxRetries
    BY <1>2, PipelineAssumption
  <2>2. /\ Phase[e] = "queued"
        /\ Phase' = [Phase EXCEPT ![e] = "exhausted"]
        /\ UNCHANGED <<hash, stored, faults>>
    BY <1>2
  <2> QED BY <2>1, <2>2 DEF Promise!GiveUp
<1>3. CASE task[w][e] = "backoff" /\ UpdateQueueStatus(e, "pending", "upload")
  BY <1>3 DEF Seen
<1>4. CASE task[w][e] = "rejected" /\ RequeueWithoutRetry(e)
  BY <1>4 DEF Seen
<1> QED BY <1>1, <1>2, <1>3, <1>4

\* A recovered row is queued, as it was.
LEMMA LaunchRefines ==
  ASSUME IInv, Launch PROVE UNCHANGED Seen
  BY DEF Launch, ResetStaleUploading, Seen, Phase

LEMMA StepRefines ==
  ASSUME IInv, [Next]_vars PROVE [Promise!Next]_(Promise!vars)
<1> SUFFICES ASSUME ~ UNCHANGED Seen PROVE Promise!Next
  BY DEF Seen, Promise!vars
<1>1. CASE \E h \in Hash : Land(h)
  BY <1>1, LandRefines DEF Promise!Next
<1>2. CASE \E e \in Entry, h \in Hash : Enqueue(e, h)
  BY <1>2, EnqueueRefines DEF Promise!Next
<1>3. ASSUME NEW w \in Worker, NEW S \in SUBSET Entry, Claim(w, S) PROVE FALSE
  BY <1>3, ClaimRefines
<1>4. ASSUME NEW w \in Worker, NEW e \in Entry,
             TaskStep(w, e) \/ StatusWriteFails(w, e)
      PROVE  Promise!Next
  <2>1. CASE Skip(w, e)
    BY <2>1, SkipRefines DEF Promise!Next
  <2>2. CASE Start(w, e)
    BY <2>2, StartRefines
  <2>3. CASE UploadFails(w, e)
    BY <2>3, UploadFailsRefines DEF Promise!Next
  <2>4. CASE Finish(w, e)
    BY <2>4, FinishRefines DEF Promise!Next
  <2>5. CASE \/ PrecheckHit(w, e) \/ PrecheckMiss(w, e) \/ Send(w, e)
             \/ UploadOk(w, e) \/ UploadRejected(w, e) \/ Record(w, e)
             \/ StatusWriteFails(w, e)
    <3>1. UNCHANGED <<status, error_message, hash, stored, faults>>
      BY <2>5 DEF PrecheckHit, PrecheckMiss, Send, UploadOk, UploadRejected,
                  Record, DbFails, StatusWriteFails
    <3> QED BY <3>1, Unseen
  <2> QED BY <1>4, <2>1, <2>2, <2>3, <2>4, <2>5 DEF TaskStep
<1>5. CASE Launch
  BY <1>5, LaunchRefines
<1>6. CASE \/ \E h \in Hash : CheckDedup(h)
           \/ \E w \in Worker : \/ LoopTop(w) \/ DequeueEmpty(w) \/ DequeueFails(w)
                                \/ BatchDone(w) \/ LoopExit(w) \/ RevokeKey(w)
           \/ StopOldPipeline \/ StartNewPipeline \/ ProcessExit
           \/ \E b \in BOOLEAN : SetPause(b)
           \/ UNCHANGED vars
  <2>1. UNCHANGED <<status, error_message, hash, stored, faults>>
    BY <1>6 DEF CheckDedup, LoopTop, DequeueEmpty, DequeueFails, DbFails,
                BatchDone, LoopExit, RevokeKey, StopOldPipeline,
                StartNewPipeline, ProcessExit, SetPause
  <2> QED BY <2>1, Unseen
<1> QED BY <1>1, <1>2, <1>3, <1>4, <1>5, <1>6 DEF Next, LoopStep

\* Whatever restarts, replacements, lost answers and lost writes: the queue
\* keeps what Delivery promises.
THEOREM QueueKeepsPromise == Spec => KeepsPromise
  BY InitRefines, StepRefines, InvariantHolds, PTL
     DEF Spec, KeepsPromise, Promise!Spec
=============================================================================
