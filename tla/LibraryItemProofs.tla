-------------------------- MODULE LibraryItemProofs --------------------------
(***************************************************************************)
(* Proofs about LibraryItem, for every set of assets, Live Photos and      *)
(* pipelines, and any number of starts and failed writes: exports are      *)
(* brief, the records are true, no still goes up before its video.         *)
(*                                                                         *)
(* The invariant says, asset by asset, what a task knows at the step it is *)
(* about to take, and why no second task can find its row: a row with a    *)
(* task is `uploading`, and a deferral left its row `failed`.  Each action *)
(* touches one asset, so a step keeps the invariant when it keeps that     *)
(* asset's part of it (OneAsset).                                          *)
(***************************************************************************)
EXTENDS LibraryItem, TLAPS

Status == {"pending", "uploading", "completed", "failed"}
RowType == [status : Status, retry : Nat]
TaskType == [at : Step, pipe : Pipe \cup {NoPipe}, slot : BOOLEAN]

\* Where a task stands once its export is there.
OnExport == {"hash", "known", "video", "recordVideo", "still", "record", "complete"}

\* What holds of one asset.
AssetInv(a) ==
  /\ task[a].at # "none" => up /\ row[a].status = "uploading"
  /\ a \in deferred => row[a].status = "failed"
  /\ up /\ a \in temp => task[a].at \in OnExport
  /\ task[a].at = "known" => Still(a) \in server
  /\ task[a].at = "recordVideo" => Video(a) \in server
  /\ task[a].at = "still" /\ a \in Live => Video(a) \in server
  /\ task[a].at = "record" => Still(a) \in server

\* What holds of them all.
Shape ==
  /\ row \in [Asset -> RowType]
  /\ task \in [Asset -> TaskType]
  /\ temp \subseteq Asset
  /\ built \subseteq Pipe
  /\ (up \/ built = {})
  /\ RecordsAreTrue
  /\ NoLoneStill

ItemInv == Shape /\ \A a \in Asset : AssetInv(a)

----------------------------------------------------------------------------
(* The initial state.                                                      *)

LEMMA InitItem == Init => ItemInv
<1> SUFFICES ASSUME Init PROVE ItemInv
  OBVIOUS
<1>1. Shape
  BY DEF Init, Shape, RecordsAreTrue, NoLoneStill, RowType, TaskType, Status, Step, NoTask
<1>2. ASSUME NEW a \in Asset PROVE AssetInv(a)
  BY DEF Init, AssetInv, NoTask
<1> QED  BY <1>1, <1>2 DEF ItemInv

----------------------------------------------------------------------------
(* One asset at a time.                                                    *)

\* A step that leaves the other assets alone, and loses nothing on the server,
\* keeps what holds of them.
LEMMA OneAsset ==
  ASSUME ItemInv, NEW a \in Asset, up' = up,
         \A b \in Asset \ {a} : row'[b] = row[b] /\ task'[b] = task[b],
         temp' \subseteq temp \cup {a},
         deferred' \subseteq deferred \cup {a},
         server \subseteq server',
         Shape', AssetInv(a)'
  PROVE  ItemInv'
<1>1. ASSUME NEW b \in Asset \ {a} PROVE AssetInv(b)'
  BY <1>1 DEF ItemInv, AssetInv
<1> QED  BY <1>1 DEF ItemInv

\* A task's asset: the process runs, and no deferral is pending for its row.
LEMMA AtWork ==
  ASSUME ItemInv, NEW a \in Asset, task[a].at # "none"
  PROVE  /\ up /\ row[a].status = "uploading" /\ a \notin deferred
         /\ row \in [Asset -> RowType] /\ task \in [Asset -> TaskType]
BY DEF ItemInv, AssetInv, Shape

\* The steps of a task, by what they do to its row: it stays `uploading` while
\* the task goes on to a step whose knowledge it has.
LEMMA GoesOn ==
  ASSUME ItemInv, NEW a \in Asset, NEW at \in Step \ {"none"}, task[a].at # "none",
         Goes(a, at), row' = row, deferred' = deferred, up' = up, built' = built,
         temp' \subseteq temp \cup {a}, server \subseteq server',
         recorded' \cup known' \subseteq server', lone' = lone,
         a \in temp' => at \in OnExport,
         at = "known" => Still(a) \in server',
         at = "recordVideo" => Video(a) \in server',
         at = "still" /\ a \in Live => Video(a) \in server',
         at = "record" => Still(a) \in server'
  PROVE  ItemInv'
<1>1. up /\ row[a].status = "uploading" /\ a \notin deferred
      /\ row \in [Asset -> RowType] /\ task \in [Asset -> TaskType]
  BY AtWork
<1>2. /\ task' \in [Asset -> TaskType] /\ task'[a].at = at
      /\ \A b \in Asset \ {a} : task'[b] = task[b]
  BY <1>1 DEF Goes, TaskType
<1>3. Shape'
  BY <1>1, <1>2 DEF ItemInv, Shape, RecordsAreTrue, NoLoneStill
<1>4. AssetInv(a)'
  BY <1>1, <1>2 DEF AssetInv
<1> QED  BY <1>2, <1>3, <1>4, OneAsset

\* The task ends, and its row is anything that its marks allow.
LEMMA TaskEnds ==
  ASSUME ItemInv, NEW a \in Asset, task[a].at # "none", Ends(a),
         NEW r \in RowType, row' = [row EXCEPT ![a] = r],
         a \in deferred' => r.status = "failed", deferred' \subseteq deferred \cup {a},
         a \notin temp', temp' \subseteq temp, up' = up, built' = built,
         server' = server, lone' = lone, recorded' \cup known' \subseteq server
  PROVE  ItemInv'
<1>1. up /\ row \in [Asset -> RowType] /\ task \in [Asset -> TaskType]
  BY AtWork
<1>2. /\ task' \in [Asset -> TaskType] /\ task'[a].at = "none"
      /\ \A b \in Asset \ {a} : task'[b] = task[b]
  BY <1>1 DEF Ends, NoTask, TaskType, Step
<1>3. /\ row' \in [Asset -> RowType] /\ row'[a] = r
      /\ \A b \in Asset \ {a} : row'[b] = row[b]
  BY <1>1
<1>4. Shape'
  BY <1>1, <1>2, <1>3 DEF ItemInv, Shape, RecordsAreTrue, NoLoneStill
<1>5. AssetInv(a)'
  BY <1>2, <1>3 DEF AssetInv
<1> QED  BY <1>2, <1>3, <1>4, <1>5, OneAsset

\* A write of the row sets it, or leaves it.
LEMMA RowWritten ==
  ASSUME ItemInv, NEW a \in Asset, NEW new \in RowType, NEW marks,
         task[a].at # "none", Writes([row EXCEPT ![a] = new], marks),
         marks \subseteq deferred \cup {a}, a \in marks => new.status = "failed"
  PROVE  \E r \in RowType :
           /\ row' = [row EXCEPT ![a] = r]
           /\ a \in deferred' => r.status = "failed"
           /\ deferred' \subseteq deferred \cup {a}
<1>1. row \in [Asset -> RowType] /\ a \notin deferred
  BY AtWork
<1>2. CASE row' = [row EXCEPT ![a] = new] /\ deferred' = marks
  BY <1>2
<1>3. CASE row' = row /\ deferred' = deferred
  <2>1. row[a] \in RowType /\ row' = [row EXCEPT ![a] = row[a]]
    BY <1>1, <1>3
  <2> QED  BY <1>1, <1>3, <2>1
<1> QED  BY <1>2, <1>3 DEF Writes

\* So does a status that counts one more try.
LEMMA StatusWritten ==
  ASSUME ItemInv, NEW a \in Asset, NEW status \in Status, NEW marks,
         task[a].at # "none", update_status(a, status, marks),
         marks \subseteq deferred \cup {a}, a \in marks => status = "failed"
  PROVE  \E r \in RowType :
           /\ row' = [row EXCEPT ![a] = r]
           /\ a \in deferred' => r.status = "failed"
           /\ deferred' \subseteq deferred \cup {a}
<1> DEFINE new == [status |-> status, retry |-> row[a].retry + 1]
<1>1. row \in [Asset -> RowType]
  BY AtWork
<1>2. new \in RowType /\ new.status = status
  BY <1>1 DEF RowType
<1>3. [row EXCEPT ![a] = [status |-> status, retry |-> @.retry + 1]] = [row EXCEPT ![a] = new]
  BY <1>1
<1>4. Writes([row EXCEPT ![a] = new], marks)
  BY <1>3 DEF update_status
<1> HIDE DEF new
<1> QED  BY <1>2, <1>4, RowWritten

\* A task that fails for good, its export gone or never there.
LEMMA FailsItem ==
  ASSUME ItemInv, NEW a \in Asset, NEW marks, task[a].at # "none", FailsForGood(a, marks),
         marks \subseteq deferred \cup {a},
         a \notin temp', temp' \subseteq temp, up' = up, built' = built,
         server' = server, lone' = lone, recorded' = recorded, known' = known
  PROVE  ItemInv'
<1>1. PICK r \in RowType : /\ row' = [row EXCEPT ![a] = r]
                           /\ a \in deferred' => r.status = "failed"
                           /\ deferred' \subseteq deferred \cup {a}
  BY StatusWritten DEF FailsForGood, Status
<1>2. recorded' \cup known' \subseteq server
  BY DEF ItemInv, Shape, RecordsAreTrue
<1> QED  BY <1>1, <1>2, TaskEnds DEF FailsForGood

\* fail_or_retry drops the export, and ends the task or has it wait.
LEMMA FailOrRetryItem ==
  ASSUME ItemInv, NEW a \in Asset, task[a].at # "none", fail_or_retry(a),
         up' = up, built' = built, server' = server, lone' = lone,
         recorded' = recorded, known' = known
  PROVE  ItemInv'
<1>1. temp' = temp \ {a}
  BY DEF fail_or_retry, Drops
<1>2. CASE FailsForGood(a, deferred)
  BY <1>1, <1>2, FailsItem
<1>3. CASE Goes(a, "backoff") /\ row' = row /\ deferred' = deferred
  <2>1. recorded' \cup known' \subseteq server'
    BY DEF ItemInv, Shape, RecordsAreTrue
  <2> QED  BY <1>1, <1>3, <2>1, GoesOn DEF Step
<1> QED  BY <1>2, <1>3 DEF fail_or_retry, rowVars

----------------------------------------------------------------------------
(* The actions of a task.                                                  *)

\* Before its export is there, a task's asset has nothing in $TMPDIR.
LEMMA NoExportYet ==
  ASSUME ItemInv, NEW a \in Asset, task[a].at \in {"export", "slot", "download", "backoff"}
  PROVE  a \notin temp
BY DEF ItemInv, AssetInv, OnExport

LEMMA RecordsTrue ==
  ASSUME ItemInv
  PROVE  recorded \subseteq server /\ known \subseteq server
BY DEF ItemInv, Shape, RecordsAreTrue

LEMMA ClaimItem ==
  ASSUME ItemInv, NEW a \in Asset, Claim(a)
  PROVE  ItemInv'
<1>1. up /\ row \in [Asset -> RowType] /\ task \in [Asset -> TaskType]
  BY DEF Claim, ItemInv, Shape
<1>2. task[a].at = "none" /\ a \notin deferred /\ a \notin temp
  BY <1>1 DEF Claim, ItemInv, AssetInv, OnExport
<1>3. /\ row' \in [Asset -> RowType] /\ row'[a].status = "uploading"
      /\ \A b \in Asset \ {a} : row'[b] = row[b]
  BY <1>1 DEF Claim, RowType, Status
<1>4. /\ task' \in [Asset -> TaskType] /\ task'[a].at \in {"none", "export"}
      /\ \A b \in Asset \ {a} : task'[b] = task[b]
  <2>1. CASE task' = task
    BY <1>1, <1>2, <2>1
  <2>2. ASSUME NEW p \in built,
               task' = [task EXCEPT ![a] = [at |-> "export", pipe |-> p, slot |-> FALSE]]
        PROVE  /\ task' \in [Asset -> TaskType] /\ task'[a].at = "export"
               /\ \A b \in Asset \ {a} : task'[b] = task[b]
    <3>1. [at |-> "export", pipe |-> p, slot |-> FALSE] \in TaskType
      BY DEF ItemInv, Shape, TaskType, Step
    <3> QED  BY <1>1, <2>2, <3>1
  <2> QED  BY <2>1, <2>2 DEF Claim
<1>5. Shape'
  BY <1>1, <1>3, <1>4 DEF Claim, taskOnly, processVars, recordVars, serverVars,
     ItemInv, Shape, RecordsAreTrue, NoLoneStill
<1>6. AssetInv(a)'
  BY <1>1, <1>2, <1>3, <1>4
     DEF Claim, taskOnly, processVars, recordVars, serverVars, AssetInv
<1> QED
  BY <1>3, <1>4, <1>5, <1>6, OneAsset DEF Claim, taskOnly, processVars, serverVars

LEMMA ExportItem ==
  ASSUME ItemInv, NEW a \in Asset, Export(a)
  PROVE  ItemInv'
<1> USE DEF taskOnly, processVars, recordVars, serverVars, rowVars
<1>1. task[a].at = "export" /\ a \notin temp
  BY NoExportYet DEF Export
<1>2. CASE Exported(a)
  BY <1>1, <1>2, GoesOn, RecordsTrue DEF Export, Exported, Step, OnExport
<1>3. CASE Goes(a, "slot") /\ UNCHANGED <<rowVars, temp>>
  BY <1>1, <1>3, GoesOn, RecordsTrue DEF Export, Step
<1>4. CASE ExportDeferred(a)
  BY <1>1, <1>4, FailsItem DEF Export, ExportDeferred
<1>5. CASE ExportGone(a)
  BY <1>1, <1>5, FailsItem DEF Export, ExportGone
<1>6. CASE fail_or_retry(a)
  BY <1>1, <1>6, FailOrRetryItem DEF Export
<1> QED  BY <1>2, <1>3, <1>4, <1>5, <1>6 DEF Export

LEMMA TakeSlotItem ==
  ASSUME ItemInv, NEW a \in Asset, TakeSlot(a)
  PROVE  ItemInv'
<1>1. task[a].at = "slot" /\ a \notin temp
  BY NoExportYet DEF TakeSlot
<1>2. /\ up /\ row[a].status = "uploading" /\ a \notin deferred
      /\ task \in [Asset -> TaskType]
  BY <1>1, AtWork
<1>3. /\ task' \in [Asset -> TaskType] /\ task'[a].at = "download"
      /\ \A b \in Asset \ {a} : task'[b] = task[b]
  BY <1>2 DEF TakeSlot, TaskType, Step
<1>4. Shape'
  BY <1>3 DEF TakeSlot, taskOnly, processVars, recordVars, serverVars, rowVars,
     ItemInv, Shape, RecordsAreTrue, NoLoneStill
<1>5. AssetInv(a)'
  BY <1>1, <1>2, <1>3 DEF TakeSlot, taskOnly, processVars, rowVars, AssetInv
<1> QED
  BY <1>3, <1>4, <1>5, OneAsset DEF TakeSlot, taskOnly, processVars, serverVars, rowVars

LEMMA DownloadItem ==
  ASSUME ItemInv, NEW a \in Asset, Download(a)
  PROVE  ItemInv'
<1> USE DEF taskOnly, processVars, recordVars, serverVars, rowVars
<1>1. task[a].at = "download" /\ a \notin temp
  BY NoExportYet DEF Download
<1>2. CASE Exported(a)
  BY <1>1, <1>2, GoesOn, RecordsTrue DEF Download, Exported, Step, OnExport
<1>3. CASE ExportDeferred(a)
  BY <1>1, <1>3, FailsItem DEF Download, ExportDeferred
<1>4. CASE ExportGone(a)
  BY <1>1, <1>4, FailsItem DEF Download, ExportGone
<1>5. CASE fail_or_retry(a)
  BY <1>1, <1>5, FailOrRetryItem DEF Download
<1> QED  BY <1>2, <1>3, <1>4, <1>5 DEF Download

LEMMA HashItem ==
  ASSUME ItemInv, NEW a \in Asset, Hash(a)
  PROVE  ItemInv'
<1> USE DEF taskOnly, processVars, recordVars, serverVars, rowVars
<1>1. task[a].at = "hash"
  BY DEF Hash
<1>2. CASE Still(a) \in known /\ Goes(a, "known") /\ UNCHANGED <<rowVars, temp>>
  BY <1>1, <1>2, GoesOn, RecordsTrue DEF Hash, Step, OnExport
<1>3. CASE a \in Live /\ Goes(a, "video") /\ UNCHANGED <<rowVars, temp>>
  BY <1>1, <1>3, GoesOn, RecordsTrue DEF Hash, Step, OnExport
<1>4. CASE a \notin Live /\ Goes(a, "still") /\ UNCHANGED <<rowVars, temp>>
  BY <1>1, <1>4, GoesOn, RecordsTrue DEF Hash, Step, OnExport
<1>5. CASE fail_or_retry(a)
  BY <1>1, <1>5, FailOrRetryItem DEF Hash
<1> QED  BY <1>2, <1>3, <1>4, <1>5 DEF Hash

LEMMA RecordKnownItem ==
  ASSUME ItemInv, NEW a \in Asset, RecordKnown(a)
  PROVE  ItemInv'
<1> USE DEF taskOnly, processVars, serverVars, RecordKnown
<1>1. task[a].at = "known" /\ Still(a) \in server
  BY DEF ItemInv, AssetInv
<1>2. recorded' \cup known' \subseteq server'
  BY <1>1, RecordsTrue DEF MayRecord
<1> QED  BY <1>1, <1>2, GoesOn DEF Step, OnExport

LEMMA UploadVideoItem ==
  ASSUME ItemInv, NEW a \in Asset, UploadVideo(a)
  PROVE  ItemInv'
<1> USE DEF taskOnly, processVars, recordVars, rowVars
<1>1. task[a].at = "video"
  BY DEF UploadVideo
<1>2. CASE Video(a) \in known /\ Goes(a, "still") /\ UNCHANGED <<server, temp, rowVars>>
  BY <1>1, <1>2, GoesOn, RecordsTrue DEF UploadVideo, Step, OnExport
<1>3. CASE /\ Goes(a, "recordVideo")
           /\ server' = server \cup {Video(a)}
           /\ UNCHANGED <<temp, rowVars>>
  BY <1>1, <1>3, GoesOn, RecordsTrue DEF UploadVideo, Step, OnExport
<1>4. CASE fail_or_retry(a) /\ UNCHANGED server
  BY <1>1, <1>4, FailOrRetryItem DEF UploadVideo
<1> QED  BY <1>2, <1>3, <1>4 DEF UploadVideo

LEMMA RecordVideoItem ==
  ASSUME ItemInv, NEW a \in Asset, RecordVideo(a)
  PROVE  ItemInv'
<1> USE DEF taskOnly, processVars, serverVars, rowVars
<1>1. task[a].at = "recordVideo" /\ Video(a) \in server
  BY DEF RecordVideo, ItemInv, AssetInv
<1>2. recorded' \cup known' \subseteq server /\ server' = server /\ lone' = lone
  BY <1>1, RecordsTrue DEF RecordVideo
<1>3. CASE Goes(a, "still") /\ UNCHANGED <<temp, rowVars>>
  BY <1>1, <1>2, <1>3, GoesOn DEF RecordVideo, Step, OnExport
<1>4. CASE /\ Goes(a, "backoff") /\ Drops(a) /\ UNCHANGED <<row, deferred>>
  BY <1>1, <1>2, <1>4, GoesOn DEF RecordVideo, Step, Drops
<1>5. CASE /\ Ends(a) /\ Drops(a) /\ UNCHANGED deferred
           /\ row' = [row EXCEPT ![a] = [status |-> "failed", retry |-> @.retry + 1]]
  <2> DEFINE r == [status |-> "failed", retry |-> row[a].retry + 1]
  <2>1. row \in [Asset -> RowType]
    BY <1>1, AtWork
  <2>2. r \in RowType /\ r.status = "failed" /\ row' = [row EXCEPT ![a] = r]
    BY <1>5, <2>1 DEF RowType, Status
  <2> HIDE DEF r
  <2> QED  BY <1>1, <1>2, <1>5, <2>2, TaskEnds DEF RecordVideo, Drops
<1> QED  BY <1>3, <1>4, <1>5 DEF RecordVideo

LEMMA UploadStillItem ==
  ASSUME ItemInv, NEW a \in Asset, UploadStill(a)
  PROVE  ItemInv'
<1> USE DEF taskOnly, processVars, recordVars, rowVars, serverVars
<1>1. /\ task[a].at = "still"
      /\ a \in Live => Video(a) \in server
  BY DEF UploadStill, ItemInv, AssetInv
<1>2. CASE /\ server' = server \cup {Still(a)}
           /\ lone' = IF a \in Live /\ {Still(a), Video(a)} \cap server = {}
                      THEN lone \cup {a} ELSE lone
           /\ Goes(a, "record")
           /\ UNCHANGED <<temp, rowVars, held>>
  <2>1. lone' = lone
    BY <1>1, <1>2
  <2> QED  BY <1>1, <1>2, <2>1, GoesOn, RecordsTrue DEF UploadStill, Step, OnExport
<1>3. CASE /\ Writes([row EXCEPT ![a].status = "pending"], deferred)
           /\ Ends(a)
           /\ Drops(a)
           /\ UNCHANGED serverVars
  <2> DEFINE new == [row[a] EXCEPT !.status = "pending"]
  <2>1. row \in [Asset -> RowType] /\ a \notin deferred
    BY <1>1, AtWork
  <2>2. new \in RowType /\ [row EXCEPT ![a].status = "pending"] = [row EXCEPT ![a] = new]
    BY <2>1 DEF RowType, Status
  <2> HIDE DEF new
  <2>3. PICK r \in RowType : /\ row' = [row EXCEPT ![a] = r]
                             /\ a \in deferred' => r.status = "failed"
                             /\ deferred' \subseteq deferred \cup {a}
    BY <1>1, <1>3, <2>1, <2>2, RowWritten
  <2> QED  BY <1>1, <1>3, <2>3, TaskEnds, RecordsTrue DEF UploadStill, Drops
<1>4. CASE fail_or_retry(a) /\ UNCHANGED serverVars
  BY <1>1, <1>4, FailOrRetryItem DEF UploadStill
<1> QED  BY <1>2, <1>3, <1>4 DEF UploadStill

LEMMA RecordStillItem ==
  ASSUME ItemInv, NEW a \in Asset, RecordStill(a)
  PROVE  ItemInv'
<1> USE DEF taskOnly, processVars, serverVars, RecordStill
<1>1. task[a].at = "record" /\ Still(a) \in server
  BY DEF ItemInv, AssetInv
<1>2. recorded' \cup known' \subseteq server'
  BY <1>1, RecordsTrue DEF MayRecord
<1> QED  BY <1>1, <1>2, GoesOn DEF Step, OnExport

LEMMA CompleteItem ==
  ASSUME ItemInv, NEW a \in Asset, Complete(a)
  PROVE  ItemInv'
<1> DEFINE new == [row[a] EXCEPT !.status = "completed"]
<1>1. task[a].at = "complete"
  BY DEF Complete
<1>2. row \in [Asset -> RowType] /\ a \notin deferred
  BY <1>1, AtWork
<1>3. new \in RowType /\ [row EXCEPT ![a].status = "completed"] = [row EXCEPT ![a] = new]
  BY <1>2 DEF RowType, Status
<1> HIDE DEF new
<1>4. PICK r \in RowType : /\ row' = [row EXCEPT ![a] = r]
                           /\ a \in deferred' => r.status = "failed"
                           /\ deferred' \subseteq deferred \cup {a}
  BY <1>1, <1>2, <1>3, RowWritten DEF Complete
<1> QED
  BY <1>1, <1>4, TaskEnds, RecordsTrue
     DEF Complete, Drops, taskOnly, processVars, recordVars, serverVars

LEMMA RetryItem ==
  ASSUME ItemInv, NEW a \in Asset, Retry(a)
  PROVE  ItemInv'
<1>1. task[a].at = "backoff" /\ a \notin deferred
  BY AtWork DEF Retry
<1>2. PICK r \in RowType : /\ row' = [row EXCEPT ![a] = r]
                           /\ a \in deferred' => r.status = "failed"
                           /\ deferred' \subseteq deferred \cup {a}
  BY <1>1, StatusWritten DEF Retry, Status
<1> QED
  BY <1>1, <1>2, TaskEnds, RecordsTrue
     DEF Retry, Drops, taskOnly, processVars, recordVars, serverVars

LEMMA TaskStepItem ==
  ASSUME ItemInv, NEW a \in Asset, TaskStep(a)
  PROVE  ItemInv'
BY ClaimItem, ExportItem, TakeSlotItem, DownloadItem, HashItem, RecordKnownItem,
   UploadVideoItem, RecordVideoItem, UploadStillItem, RecordStillItem, CompleteItem,
   RetryItem DEF TaskStep

----------------------------------------------------------------------------
(* The application and the world.                                          *)

LEMMA FromElsewhereItem ==
  ASSUME ItemInv, NEW a \in Asset, StillFromElsewhere(a)
  PROVE  ItemInv'
<1> USE DEF StillFromElsewhere, rowVars, processVars
<1>1. Shape'
  BY DEF ItemInv, Shape, RecordsAreTrue, NoLoneStill
<1>2. ASSUME NEW b \in Asset PROVE AssetInv(b)'
  BY DEF ItemInv, AssetInv
<1> QED  BY <1>1, <1>2 DEF ItemInv

LEMMA LaunchItem ==
  ASSUME ItemInv, Launch
  PROVE  ItemInv'
<1> USE DEF Launch, start_pipeline, recordVars, serverVars
<1>1. row' \in [Asset -> RowType]
  BY DEF ItemInv, Shape, RowType, Status
<1>2. Shape'
  BY <1>1 DEF ItemInv, Shape, RecordsAreTrue, NoLoneStill
<1>3. ASSUME NEW a \in Asset PROVE AssetInv(a)'
  <2>1. task[a].at = "none" /\ (a \in deferred => row[a].status = "failed")
    BY DEF ItemInv, AssetInv
  <2>2. row'[a] = IF row[a].status = "uploading" THEN [row[a] EXCEPT !.status = "pending"]
                  ELSE row[a]
    OBVIOUS
  <2> QED  BY <2>1, <2>2 DEF AssetInv
<1> QED  BY <1>2, <1>3 DEF ItemInv

LEMMA RebuildItem ==
  ASSUME ItemInv, Rebuild
  PROVE  ItemInv'
<1> USE DEF Rebuild, start_pipeline, rowVars, recordVars, serverVars
<1>1. Shape'
  BY DEF ItemInv, Shape, RecordsAreTrue, NoLoneStill
<1>2. ASSUME NEW a \in Asset PROVE AssetInv(a)'
  BY DEF ItemInv, AssetInv
<1> QED  BY <1>1, <1>2 DEF ItemInv

LEMMA RequeueItem ==
  ASSUME ItemInv, RequeueDeferred
  PROVE  ItemInv'
<1> USE DEF RequeueDeferred, recordVars, serverVars
<1>1. row' \in [Asset -> RowType]
  BY DEF ItemInv, Shape, RowType, Status
<1>2. Shape'
  BY <1>1 DEF ItemInv, Shape, RecordsAreTrue, NoLoneStill
<1>3. ASSUME NEW a \in Asset PROVE AssetInv(a)'
  <2>1. row'[a] = IF a \in deferred THEN [row[a] EXCEPT !.status = "pending"] ELSE row[a]
    OBVIOUS
  <2>2. task[a].at # "none" => a \notin deferred
    BY AtWork
  <2> QED  BY <2>1, <2>2 DEF ItemInv, AssetInv
<1> QED  BY <1>2, <1>3 DEF ItemInv

LEMMA ProcessEndsItem ==
  ASSUME ItemInv, ProcessEnds
  PROVE  ItemInv'
<1> USE DEF ProcessEnds, rowVars, recordVars, serverVars
<1>1. Shape'
  BY DEF ItemInv, Shape, RecordsAreTrue, NoLoneStill, TaskType, Step, NoTask
<1>2. ASSUME NEW a \in Asset PROVE AssetInv(a)'
  BY DEF ItemInv, AssetInv, NoTask
<1> QED  BY <1>1, <1>2 DEF ItemInv

LEMMA StutterItem ==
  ASSUME ItemInv, UNCHANGED vars
  PROVE  ItemInv'
BY DEF ItemInv, Shape, AssetInv, RecordsAreTrue, NoLoneStill, vars, rowVars,
   recordVars, serverVars, processVars

----------------------------------------------------------------------------
(* Theorems.                                                               *)

\* Every reachable state satisfies the invariant, after any number of starts,
\* rebuilds, crashes and failed writes.
THEOREM ItemInvariant == Spec => []ItemInv
<1>1. ItemInv /\ [Next]_vars => ItemInv'
  BY TaskStepItem, FromElsewhereItem, LaunchItem, RebuildItem, RequeueItem,
     ProcessEndsItem, StutterItem DEF Next
<1> QED  BY InitItem, <1>1, PTL DEF Spec

\* An export is in $TMPDIR only while its own task works on it
\* (process_library_item's guard around the exported file).
THEOREM BriefExports == Spec => []ExportsAreBrief
<1>1. ItemInv => ExportsAreBrief
  BY DEF ItemInv, Shape, AssetInv, ExportsAreBrief, OnExport
<1> QED  BY <1>1, ItemInvariant, PTL

\* Every recorded part is in Immich: what Delete from Photos starts from.
THEOREM TrueRecords == Spec => []RecordsAreTrue
<1>1. ItemInv => RecordsAreTrue
  BY DEF ItemInv, Shape
<1> QED  BY <1>1, ItemInvariant, PTL

\* A Live Photo's still goes up after its video, in every interleaving.
THEOREM VideoFirst == Spec => []NoLoneStill
<1>1. ItemInv => NoLoneStill
  BY DEF ItemInv, Shape
<1> QED  BY <1>1, ItemInvariant, PTL
=============================================================================
