----------------------------- MODULE LibraryItem -----------------------------
(***************************************************************************)
(* One Photos library asset from its queue row to its record: what         *)
(* process_library_item does with it (src/src/upload/worker.rs) - export,  *)
(* iCloud download under a lock, dedup, the two parts of a Live Photo,     *)
(* upload, records, retry, hold - while the application replaces its       *)
(* pipeline, and the process ends and starts again.                        *)
(*                                                                         *)
(* An asset has one row (LibrarySync queues none twice) and a row is       *)
(* worked on by one task at a time (UploadPipeline's OneHolder).  Albums   *)
(* are Albums' business, between the records and the completion.  Where an *)
(* original is - on this Mac, in iCloud, deleted - may change at any time, *)
(* so an export may end in any way.                                        *)
(***************************************************************************)
EXTENDS Naturals, FiniteSets

CONSTANTS
  Asset,       \* local identifiers with a row in the queue
  Live,        \* those that are Live Photos
  Pipe,        \* pipelines a process can build (bound)
  NoPipe,      \* no task
  MaxRetries,  \* config.max_retries
  MaxStarts,   \* bound: pipelines started, by launches and by rebuilds
  MaxDbErrors  \* bound: failed writes

ASSUME ItemAssumption ==
  /\ IsFiniteSet(Asset)
  /\ Live \subseteq Asset
  /\ NoPipe \notin Pipe
  /\ MaxRetries \in Nat \ {0}
  /\ MaxStarts \in Nat
  /\ MaxDbErrors \in Nat

VARIABLES
  row,       \* upload_queue: status and retry_count
  deferred,  \* upload_queue: failed rows whose error says "deferred:"
  recorded,  \* photos_assets: parts recorded for each asset
  known,     \* uploaded_files: parts whose SHA-1 it holds
  server,    \* parts Immich holds
  lone,      \* ghost: Live stills that it stored without their video being there
  temp,      \* assets with an export in $TMPDIR
  task,      \* the task working on each row
  built,     \* pipelines built in this process, the last one included
  download,  \* those among them whose iCloud policy is `download`
  held,      \* those whose key was rejected
  up,        \* the process runs
  starts,
  requeued,  \* the source thread of this process has started
  dbErrors

rowVars     == <<row, deferred, dbErrors>>
serverVars  == <<server, lone>>
recordVars  == <<recorded, known>>
processVars == <<built, download, up, starts, requeued>>
vars == <<rowVars, recordVars, serverVars, temp, task, held, processVars>>

Part == {"still", "video"}
Parts == Asset \X Part
Still(a) == <<a, "still">>
Video(a) == <<a, "video">>

Step == {"none", "export", "slot", "download", "hash", "known", "video",
         "recordVideo", "still", "record", "complete", "backoff"}
NoTask == [at |-> "none", pipe |-> NoPipe, slot |-> FALSE]
MaxRetryCount == MaxRetries + MaxStarts + 1

TypeOK ==
  /\ row \in [Asset -> [status : {"pending", "uploading", "completed", "failed"},
                        retry : 0..MaxRetryCount]]
  /\ deferred \in SUBSET Asset
  /\ recorded \in SUBSET Parts
  /\ known \in SUBSET Parts
  /\ server \in SUBSET Parts
  /\ lone \in SUBSET Asset
  /\ temp \in SUBSET Asset
  /\ task \in [Asset -> [at : Step, pipe : Pipe \cup {NoPipe}, slot : BOOLEAN]]
  /\ built \in SUBSET Pipe
  /\ download \in SUBSET Pipe
  /\ held \in SUBSET Pipe
  /\ up \in BOOLEAN
  /\ starts \in 0..MaxStarts
  /\ requeued \in BOOLEAN
  /\ dbErrors \in 0..MaxDbErrors

Init ==
  /\ row = [a \in Asset |-> [status |-> "pending", retry |-> 0]]
  /\ deferred = {}
  /\ recorded = {}
  /\ known = {}
  /\ server = {}
  /\ lone = {}
  /\ temp = {}
  /\ task = [a \in Asset |-> NoTask]
  /\ built = {}
  /\ download = {}
  /\ held = {}
  /\ up = FALSE
  /\ starts = 0
  /\ requeued = FALSE
  /\ dbErrors = 0

----------------------------------------------------------------------------
(* The world outside.                                                      *)

\* The same still reaches Immich from elsewhere: a phone, or a watched folder
\* of this program, which then knows its SHA-1.
StillFromElsewhere(a) ==
  /\ Still(a) \notin server
  /\ server' = server \cup {Still(a)}
  /\ known' \in {known, known \cup {Still(a)}}
  /\ UNCHANGED <<rowVars, recorded, lone, temp, task, held, processVars>>

----------------------------------------------------------------------------
(* The application.                                                        *)

\* start_pipeline: sweep_stale_exports, then a pipeline with locks of its own.
start_pipeline(p) ==
  /\ starts < MaxStarts
  /\ starts' = starts + 1
  /\ temp' = {}
  /\ built' = built \cup {p}
  /\ download' \in {download, download \cup {p}}

\* App::init: stale claims go back to pending, then the pipeline is built.
Launch ==
  /\ ~up
  /\ up' = TRUE
  /\ row' = [a \in Asset |-> IF row[a].status = "uploading"
                             THEN [row[a] EXCEPT !.status = "pending"] ELSE row[a]]
  /\ \E p \in Pipe : start_pipeline(p)
  /\ UNCHANGED <<deferred, dbErrors, recordVars, serverVars, task, held, requeued>>

\* apply_new_config with another key or server: the replaced pipeline is told
\* to stop, but its tasks, and the batches it still takes, run on beside the
\* new one (UploadPipeline).
Rebuild ==
  /\ up
  /\ \E p \in Pipe \ built : start_pipeline(p)
  /\ UNCHANGED <<rowVars, recordVars, serverVars, task, held, up, requeued>>

\* The thread of LibrarySync starts: requeue_deferred_photos, once a process.
\* retry_count keeps what each deferral added to it.
RequeueDeferred ==
  /\ up
  /\ ~requeued
  /\ requeued' = TRUE
  /\ row' = [a \in Asset |-> IF a \in deferred THEN [row[a] EXCEPT !.status = "pending"]
                             ELSE row[a]]
  /\ deferred' = {}
  /\ UNCHANGED <<dbErrors, recordVars, serverVars, temp, task, held, built,
                 download, up, starts>>

\* A quit or a crash: exports and claims stay behind.
ProcessEnds ==
  /\ up
  /\ up' = FALSE
  /\ task' = [a \in Asset |-> NoTask]
  /\ built' = {}
  /\ download' = {}
  /\ held' = {}
  /\ requeued' = FALSE
  /\ UNCHANGED <<rowVars, recordVars, serverVars, temp, starts>>

----------------------------------------------------------------------------
(* A task.                                                                 *)

taskOnly == UNCHANGED processVars

Goes(a, at) == task' = [task EXCEPT ![a].at = at]
Ends(a)     == task' = [task EXCEPT ![a] = NoTask]
Drops(a)    == temp' = temp \ {a}

\* One write of the row, which may fail and is then only logged.
Writes(change, marks) ==
  \/ row' = change /\ deferred' = marks /\ UNCHANGED dbErrors
  \/ /\ dbErrors < MaxDbErrors
     /\ dbErrors' = dbErrors + 1
     /\ UNCHANGED <<row, deferred>>

\* update_status: `failed` and `pending` add one to retry_count.
update_status(a, status, marks) ==
  Writes([row EXCEPT ![a] = [status |-> status, retry |-> @.retry + 1]], marks)

FailsForGood(a, marks) ==
  /\ update_status(a, "failed", marks)
  /\ Ends(a)

\* Mutant: the export is dropped when the function returns, after the backoff.
fail_or_retry_then_drop(a) ==
  IF row[a].retry + 1 >= MaxRetries
  THEN FailsForGood(a, deferred) /\ Drops(a)
  ELSE Goes(a, "backoff") /\ UNCHANGED <<rowVars, temp>>

\* fail_or_retry, the export dropped before it.
fail_or_retry(a) ==
  /\ Drops(a)
  /\ IF row[a].retry + 1 >= MaxRetries
     THEN FailsForGood(a, deferred)
     ELSE Goes(a, "backoff") /\ UNCHANGED rowVars

\* The backoff is over: back to pending.
Retry(a) ==
  /\ task[a].at = "backoff"
  /\ update_status(a, "pending", deferred)
  /\ Ends(a)
  /\ Drops(a)
  /\ taskOnly
  /\ UNCHANGED <<recordVars, serverVars, held>>

\* dequeue_pending by any pipeline whose key was not rejected, then the
\* second write of "uploading", after whose failure the task is over.
Claim(a) ==
  /\ row[a].status = "pending"
  /\ row' = [row EXCEPT ![a].status = "uploading"]
  /\ \E p \in built \ held :
       \/ /\ task' = [task EXCEPT ![a] = [at |-> "export", pipe |-> p, slot |-> FALSE]]
          /\ UNCHANGED dbErrors
       \/ /\ dbErrors < MaxDbErrors
          /\ dbErrors' = dbErrors + 1
          /\ UNCHANGED task
  /\ taskOnly
  /\ UNCHANGED <<deferred, recordVars, serverVars, temp, held>>

\* The export is there, both parts of a Live Photo or neither.
Exported(a) ==
  /\ temp' = temp \cup {a}
  /\ Goes(a, "hash")
  /\ UNCHANGED rowVars

\* The asset is gone; or it is only in iCloud, and waits for the next start.
ExportGone(a)     == FailsForGood(a, deferred) /\ UNCHANGED temp
ExportDeferred(a) == FailsForGood(a, deferred \cup {a}) /\ UNCHANGED temp

\* export_for_upload without network, and what an original in iCloud means.
Export(a) ==
  /\ task[a].at = "export"
  /\ \/ Exported(a)
     \/ /\ task[a].pipe \in download
        /\ Goes(a, "slot")
        /\ UNCHANGED <<rowVars, temp>>
     \/ task[a].pipe \notin download /\ ExportDeferred(a)
     \/ ExportGone(a)
     \/ fail_or_retry(a)
  /\ taskOnly
  /\ UNCHANGED <<recordVars, serverVars, held>>

\* download_lock of the task's own pipeline, kept until the task ends.
TakeSlot(a) ==
  /\ task[a].at = "slot"
  /\ \A b \in Asset : task[b].slot => task[b].pipe # task[a].pipe
  /\ task' = [task EXCEPT ![a].at = "download", ![a].slot = TRUE]
  /\ taskOnly
  /\ UNCHANGED <<rowVars, recordVars, serverVars, temp, held>>

\* export_for_upload with network.
Download(a) ==
  /\ task[a].at = "download"
  /\ Exported(a) \/ ExportDeferred(a) \/ ExportGone(a) \/ fail_or_retry(a)
  /\ taskOnly
  /\ UNCHANGED <<recordVars, serverVars, held>>

\* hash_file and is_file_uploaded.  An export swept away cannot be read.
Hash(a) ==
  /\ task[a].at = "hash"
  /\ \/ /\ a \in temp
        /\ Goes(a, IF Still(a) \in known THEN "known"
                   ELSE IF a \in Live THEN "video" ELSE "still")
        /\ UNCHANGED <<rowVars, temp>>
     \/ fail_or_retry(a)
  /\ taskOnly
  /\ UNCHANGED <<recordVars, serverVars, held>>

\* A write of photos_assets or uploaded_files whose failure is only logged.
MayRecord(var, new, failed) ==
  \/ var' = var \cup new /\ failed = 0
  \/ var' = var /\ failed = 1

\* Mutant: the asset is recorded with both its parts.
RecordKnownWhole(a) ==
  /\ task[a].at = "known"
  /\ recorded' = recorded \cup {Still(a), Video(a)}
  /\ Goes(a, "complete")
  /\ taskOnly
  /\ UNCHANGED <<rowVars, known, serverVars, temp, held>>

\* The still is in Immich already: the asset is recorded, its video is not.
RecordKnown(a) ==
  /\ task[a].at = "known"
  /\ \E failed \in 0..1 :
       /\ dbErrors + failed <= MaxDbErrors
       /\ dbErrors' = dbErrors + failed
       /\ MayRecord(recorded, {Still(a)}, failed)
  /\ Goes(a, "complete")
  /\ taskOnly
  /\ UNCHANGED <<row, deferred, known, serverVars, temp, held>>

\* Mutant: a still goes up although its video failed.
VideoOptional(a) ==
  /\ task[a].at = "video"
  /\ \/ Goes(a, "still") /\ UNCHANGED <<server, temp, rowVars>>
     \/ /\ a \in temp
        /\ Goes(a, "recordVideo")
        /\ server' = server \cup {Video(a)}
        /\ UNCHANGED <<temp, rowVars>>
  /\ taskOnly
  /\ UNCHANGED <<recordVars, lone, held>>

\* upload_paired_video up to its upload; any failure, a rejected key too, is
\* an ordinary retry.
UploadVideo(a) ==
  /\ task[a].at = "video"
  /\ \/ /\ a \in temp /\ Video(a) \in known
        /\ Goes(a, "still")
        /\ UNCHANGED <<server, temp, rowVars>>
     \/ /\ a \in temp /\ Video(a) \notin known
        /\ Goes(a, "recordVideo")
        /\ server' = server \cup {Video(a)}
        /\ UNCHANGED <<temp, rowVars>>
     \/ fail_or_retry(a) /\ UNCHANGED server
  /\ taskOnly
  /\ UNCHANGED <<recordVars, lone, held>>

\* Its two records, a failure of either being a retry.
RecordVideo(a) ==
  /\ task[a].at = "recordVideo"
  /\ \/ /\ known' = known \cup {Video(a)}
        /\ recorded' = recorded \cup {Video(a)}
        /\ Goes(a, "still")
        /\ UNCHANGED <<temp, rowVars>>
     \/ /\ dbErrors < MaxDbErrors
        /\ known' \in {known, known \cup {Video(a)}}
        /\ recorded' = recorded
        /\ Drops(a)
        /\ IF row[a].retry + 1 >= MaxRetries
           THEN /\ row' = [row EXCEPT ![a] = [status |-> "failed", retry |-> @.retry + 1]]
                /\ Ends(a)
           ELSE Goes(a, "backoff") /\ UNCHANGED row
        /\ dbErrors' = dbErrors + 1
        /\ UNCHANGED deferred
  /\ taskOnly
  /\ UNCHANGED <<serverVars, held>>

\* upload_live_still or upload_asset.  A rejected key holds the pipeline and
\* puts the row back without spending a retry (fail_or_retry_or_hold).
UploadStill(a) ==
  /\ task[a].at = "still"
  /\ \/ /\ a \in temp
        /\ server' = server \cup {Still(a)}
        /\ lone' = IF a \in Live /\ {Still(a), Video(a)} \cap server = {}
                   THEN lone \cup {a} ELSE lone
        /\ Goes(a, "record")
        /\ UNCHANGED <<temp, rowVars, held>>
     \/ /\ held' = held \cup {task[a].pipe}
        /\ Writes([row EXCEPT ![a].status = "pending"], deferred)
        /\ Ends(a)
        /\ Drops(a)
        /\ UNCHANGED serverVars
     \/ fail_or_retry(a) /\ UNCHANGED <<serverVars, held>>
  /\ taskOnly
  /\ UNCHANGED recordVars

\* record_upload, then record_photos_asset.
RecordStill(a) ==
  /\ task[a].at = "record"
  /\ \E f \in 0..1, g \in 0..1 :
       /\ dbErrors + f + g <= MaxDbErrors
       /\ dbErrors' = dbErrors + f + g
       /\ MayRecord(known, {Still(a)}, f)
       /\ MayRecord(recorded, {Still(a)}, g)
  /\ Goes(a, "complete")
  /\ taskOnly
  /\ UNCHANGED <<row, deferred, serverVars, temp, held>>

\* mark_completed, after the albums.
Complete(a) ==
  /\ task[a].at = "complete"
  /\ Writes([row EXCEPT ![a].status = "completed"], deferred)
  /\ Ends(a)
  /\ Drops(a)
  /\ taskOnly
  /\ UNCHANGED <<recordVars, serverVars, held>>

TaskStep(a) ==
  \/ Claim(a) \/ Export(a) \/ TakeSlot(a) \/ Download(a) \/ Hash(a)
  \/ RecordKnown(a) \/ UploadVideo(a) \/ RecordVideo(a) \/ UploadStill(a)
  \/ RecordStill(a) \/ Complete(a) \/ Retry(a)

Next ==
  \/ \E a \in Asset : StillFromElsewhere(a) \/ TaskStep(a)
  \/ Launch \/ Rebuild \/ RequeueDeferred \/ ProcessEnds

Spec == Init /\ [][Next]_vars

----------------------------------------------------------------------------
(* Properties.                                                             *)

\* A private original is in $TMPDIR only while its task works on it: never
\* through a backoff, after the task, or once a new process has its pipeline.
ExportsAreBrief ==
  up => \A a \in temp : task[a].at \notin {"none", "export", "slot", "download", "backoff"}

\* What the records say is true: a part in photos_assets or uploaded_files is
\* in Immich, whatever failed or was interrupted.  Delete from Photos starts
\* from these records.
RecordsAreTrue == recorded \cup known \subseteq server

\* A Live Photo's still never goes up before its video.
NoLoneStill == lone = {}
=============================================================================
