------------------------------ MODULE FileSync ------------------------------
(***************************************************************************)
(* What becomes of a file's versions: the scan that decides whether a file *)
(* is to be uploaded (UploadQueue::process_file), the upload that reads it *)
(* again, the record it leaves for the next scan, and the two that take    *)
(* uploaded files away -- the worker's post-upload action and the Settings *)
(* process that applies it to files already uploaded -- while the user and *)
(* their programs go on writing.                                           *)
(*                                                                         *)
(* UploadPipeline has the claims, the retries and the replaced pipelines,  *)
(* for files that stay as they were hashed; here a row is in the hands of  *)
(* one task, and the files change.  "Removed" is trashed or deleted.       *)
(***************************************************************************)
EXTENDS Naturals

CONSTANTS
  Path,      \* files of one watched folder
  Content,   \* file contents, identified with their SHA-1
  Size,      \* the size of each content
  Stamp,     \* modification times, in seconds (0 is: not known)
  Row,       \* rows the queue may hold (bound)
  MaxWrites, \* writes to the folder (bound)
  NoFile,    \* nothing at a path
  NoSize,    \* no scan of a path under way
  NoRow,     \* a row not in use
  NoPath     \* the Settings process is at no file

FileVersion == [content : Content, mtime : Stamp]
Record == [path : Path, hash : Content, size : Nat, mtime : Stamp \cup {0}]
At == {"pending", "sent", "ok", "recorded", "remove", "completed", "failed"}
QueueEntry == [path : Path, hash : Content, size : Nat, retry : BOOLEAN,
               body : Content, at : At]

ASSUME FileAssumption ==
  /\ Size \in [Content -> Nat]
  /\ Stamp \subseteq Nat \ {0}
  /\ NoFile \notin FileVersion
  /\ NoRow \notin QueueEntry
  /\ NoSize \notin Nat
  /\ MaxWrites \in Nat
  /\ NoPath \notin Path

VARIABLES
  disk,            \* the folder
  writes,          \* writes to it so far
  uploaded_files,  \* the records of earlier uploads
  rows,            \* upload_queue, and where the task of a row is
  scanning,        \* the size a process_file saw, before it hashes the file
  post_upload,     \* the folder's post-upload action
  settings,        \* the Settings process: records to go, file checked
  stored,          \* contents the server has
  (* What the user did: wrote a content while its path stood checked for    *)
  (* removal; overwrote a hashed content before it was uploaded; wrote a    *)
  (* content that the stamp of a record fits, or would fit                  *)
  raced, overtaken, stamped,
  lost             \* <<who, content>>: given up, and not on the server

vars == <<disk, writes, uploaded_files, rows, scanning, post_upload, settings, stored,
          raced, overtaken, stamped, lost>>
userVars == <<writes, raced, overtaken, stamped>>

Init ==
  /\ disk = [p \in Path |-> NoFile]
  /\ writes = 0
  /\ uploaded_files = {}
  /\ rows = [r \in Row |-> NoRow]
  /\ scanning = [p \in Path |-> NoSize]
  /\ post_upload = "keep"
  /\ settings = [todo |-> {}, at |-> NoPath]
  /\ stored = {}
  /\ raced = {} /\ overtaken = {} /\ stamped = {}
  /\ lost = {}

\* Row r is in the queue and its task, if any, at one of the given steps.
RowAt(r, steps) == rows[r] # NoRow /\ rows[r].at \in steps
Used == {r \in Row : rows[r] # NoRow}

\* The contents among C that the server does not have, as given up by `who`.
Unsaved(who, C) == {<<who, c>> : c \in C \ stored}

ContentAt(p) == IF disk[p] = NoFile THEN {} ELSE {disk[p].content}

----------------------------------------------------------------------------
(* The user and their programs.                                            *)

\* A program writes a file, or puts one there with an mtime of its own.
Write(p, c, t) ==
  /\ writes < MaxWrites
  /\ writes' = writes + 1
  /\ disk' = [disk EXCEPT ![p] = [content |-> c, mtime |-> t]]
  /\ raced' = raced \cup
       {x \in {c} : \/ settings.at = p
                    \/ \E r \in Used : rows[r].path = p /\ rows[r].at = "remove"}
  /\ overtaken' = overtaken \cup
       ({rows[r].hash : r \in {q \in Used : rows[q].path = p
                                            /\ rows[q].at \in {"pending", "sent"}}}
          \ {c})
  /\ stamped' = stamped \cup
       {x \in {c} :
          \/ \E r \in Used : rows[r].path = p /\ rows[r].at \in {"sent", "ok"}
          \/ \E rec \in uploaded_files :
               /\ rec.path = p /\ rec.hash # c
               /\ rec.size = Size[c] /\ rec.mtime = t}
  /\ UNCHANGED <<uploaded_files, rows, scanning, post_upload, settings, stored, lost>>

\* The user moves a file away or deletes it.
Remove(p) ==
  /\ disk[p] # NoFile
  /\ disk' = [disk EXCEPT ![p] = NoFile]
  /\ UNCHANGED <<uploaded_files, rows, scanning, post_upload, settings, stored>>
  /\ UNCHANGED <<userVars, lost>>

----------------------------------------------------------------------------
(* process_file, called by the initial scan and for every event.           *)

\* Stat the file; a record with its path, size and mtime ends the matter
\* (is_file_uploaded_fast_path).
Stat(p) ==
  /\ disk[p] # NoFile
  /\ scanning[p] = NoSize
  /\ IF \E rec \in uploaded_files :
          /\ rec.path = p
          /\ rec.size = Size[disk[p].content]
          /\ rec.mtime = disk[p].mtime
     THEN /\ lost' = lost \cup Unsaved("scan", ContentAt(p))
          /\ UNCHANGED scanning
     ELSE /\ scanning' = [scanning EXCEPT ![p] = Size[disk[p].content]]
          /\ UNCHANGED lost
  /\ UNCHANGED <<disk, uploaded_files, rows, post_upload, settings, stored, userVars>>

\* Hash it, whatever it is by now: a recorded hash ends the matter too, else
\* it is queued with this hash and the size seen before.  (A full queue is the
\* bound on rows; a file that is gone is an error.)
Hash(p) ==
  /\ scanning[p] # NoSize
  /\ scanning' = [scanning EXCEPT ![p] = NoSize]
  /\ \/ /\ disk[p] = NoFile
        /\ UNCHANGED <<rows, lost>>
     \/ /\ \E rec \in uploaded_files : rec.hash \in ContentAt(p)
        /\ lost' = lost \cup Unsaved("scan", ContentAt(p))
        /\ UNCHANGED rows
     \/ /\ disk[p] # NoFile
        /\ ~ \E rec \in uploaded_files : rec.hash \in ContentAt(p)
        /\ \E r \in Row \ Used :
             rows' = [rows EXCEPT ![r] =
               [path |-> p, hash |-> disk[p].content, size |-> scanning[p],
                retry |-> FALSE, body |-> disk[p].content, at |-> "pending"]]
        /\ UNCHANGED lost
  /\ UNCHANGED <<disk, uploaded_files, post_upload, settings, stored, userVars>>

----------------------------------------------------------------------------
(* The worker's task (process_item).                                       *)

WorkerUnchanged == UNCHANGED <<scanning, post_upload, settings, userVars>>

\* On a retry the server says that it has the hash: completed, and no more.
PrecheckHit(r) ==
  /\ RowAt(r, {"pending"})
  /\ rows[r].retry
  /\ rows[r].hash \in stored
  /\ rows' = [rows EXCEPT ![r].at = "completed"]
  /\ UNCHANGED <<disk, uploaded_files, stored, lost>>
  /\ WorkerUnchanged

\* upload_asset opens the file and streams what it finds.
Read(r) ==
  /\ RowAt(r, {"pending"})
  /\ disk[rows[r].path] # NoFile
  /\ rows' = [rows EXCEPT ![r].at = "sent",
                          ![r].body = disk[rows[r].path].content]
  /\ UNCHANGED <<disk, uploaded_files, stored, lost>>
  /\ WorkerUnchanged

UploadOk(r) ==
  /\ RowAt(r, {"sent"})
  /\ stored' = stored \cup {rows[r].body}
  /\ rows' = [rows EXCEPT ![r].at = "ok"]
  /\ UNCHANGED <<disk, uploaded_files, lost>>
  /\ WorkerUnchanged

\* The file is gone or the request failed, perhaps after the server had it all:
\* try again, or give the row up.
UploadFails(r) ==
  /\ RowAt(r, {"pending", "sent"})
  /\ stored' \in {stored} \cup
       (IF rows[r].at = "sent" THEN {stored \cup {rows[r].body}} ELSE {})
  /\ \E at \in {"pending", "failed"} :
       rows' = [rows EXCEPT ![r].at = at, ![r].retry = TRUE]
  /\ UNCHANGED <<disk, uploaded_files, lost>>
  /\ WorkerUnchanged

\* record_upload: the row's hash and size, and the mtime the file has now.  Its
\* failure is only logged.
RecordUpload(r) ==
  LET p == rows[r].path
      rec == [path |-> p, hash |-> rows[r].hash, size |-> rows[r].size,
              mtime |-> IF disk[p] = NoFile THEN 0 ELSE disk[p].mtime]
  IN
  /\ RowAt(r, {"ok"})
  /\ uploaded_files' \in {uploaded_files, uploaded_files \cup {rec}}
  /\ rows' = [rows EXCEPT ![r].at = "recorded"]
  /\ UNCHANGED <<disk, stored, lost>>
  /\ WorkerUnchanged

\* still_matches_upload, for a file that is there: size, then mtime, then hash.
StillMatches(file, rec) ==
  /\ Size[file.content] = rec.size
  /\ rec.mtime = file.mtime \/ file.content = rec.hash

\* Mutant: the guard takes the record just written, mtime and all (#102).
GuardTrustsRecord(r) ==
  LET p == rows[r].path IN
  /\ RowAt(r, {"recorded"})
  /\ IF /\ post_upload # "keep"
        /\ disk[p] # NoFile
        /\ \/ \E rec \in uploaded_files :
                /\ rec.path = p /\ rec.hash = rows[r].hash
                /\ StillMatches(disk[p], rec)
           \/ StillMatches(disk[p], [size |-> rows[r].size,
                                     hash |-> rows[r].hash, mtime |-> 0])
     THEN rows' = [rows EXCEPT ![r].at = "remove"]
     ELSE rows' = [rows EXCEPT ![r].at = "completed"]
  /\ UNCHANGED <<disk, uploaded_files, stored, lost>>
  /\ WorkerUnchanged

\* The folder's action now, and file_is_still_the_upload, which leaves the
\* mtime out: the file is as it was hashed, or it stays.
Guard(r) ==
  LET p == rows[r].path IN
  /\ RowAt(r, {"recorded"})
  /\ IF /\ post_upload # "keep"
        /\ disk[p] # NoFile
        /\ StillMatches(disk[p], [size |-> rows[r].size,
                                  hash |-> rows[r].hash, mtime |-> 0])
     THEN rows' = [rows EXCEPT ![r].at = "remove"]
     ELSE rows' = [rows EXCEPT ![r].at = "completed"]
  /\ UNCHANGED <<disk, uploaded_files, stored, lost>>
  /\ WorkerUnchanged

\* trash_file or remove_file, unless it fails; the row is completed either way.
Act(r) ==
  LET p == rows[r].path IN
  /\ RowAt(r, {"remove"})
  /\ rows' = [rows EXCEPT ![r].at = "completed"]
  /\ \/ /\ disk' = [disk EXCEPT ![p] = NoFile]
        /\ lost' = lost \cup Unsaved("worker", ContentAt(p))
     \/ UNCHANGED <<disk, lost>>
  /\ UNCHANGED <<uploaded_files, stored>>
  /\ WorkerUnchanged

\* The process ends and starts again: rows under way are pending once more.
Restart ==
  /\ rows' = [r \in Row |->
       IF RowAt(r, {"sent", "ok", "recorded", "remove"})
       THEN [rows[r] EXCEPT !.at = "pending"] ELSE rows[r]]
  /\ scanning' = [p \in Path |-> NoSize]
  /\ UNCHANGED <<disk, uploaded_files, post_upload, settings, stored, userVars, lost>>

----------------------------------------------------------------------------
(* The Settings process.                                                   *)

\* Save the folder's action; with the box ticked, go on with the records.
SaveFolder(action, apply) ==
  /\ settings = [todo |-> {}, at |-> NoPath]
  /\ post_upload' = action
  /\ settings' = [settings EXCEPT
       !.todo = IF apply /\ action # "keep" THEN uploaded_files ELSE {}]
  /\ UNCHANGED <<disk, uploaded_files, rows, scanning, stored, userVars, lost>>

\* Mutant: a record is enough, the file is not compared with it (#95).
RecheckNothing(rec) ==
  /\ settings.at = NoPath
  /\ rec \in settings.todo
  /\ settings' = [todo |-> settings.todo \ {rec},
                  at |-> IF disk[rec.path] # NoFile THEN rec.path ELSE NoPath]
  /\ UNCHANGED <<disk, uploaded_files, rows, scanning, post_upload, stored>>
  /\ UNCHANGED <<userVars, lost>>

\* The next record: compare the file with it, ...
Recheck(rec) ==
  /\ settings.at = NoPath
  /\ rec \in settings.todo
  /\ settings' = [todo |-> settings.todo \ {rec},
                  at |-> IF disk[rec.path] # NoFile /\ StillMatches(disk[rec.path], rec)
                         THEN rec.path ELSE NoPath]
  /\ UNCHANGED <<disk, uploaded_files, rows, scanning, post_upload, stored>>
  /\ UNCHANGED <<userVars, lost>>

\* ... and take it away.
ActOnExisting ==
  /\ settings.at # NoPath
  /\ settings' = [settings EXCEPT !.at = NoPath]
  /\ \/ /\ disk' = [disk EXCEPT ![settings.at] = NoFile]
        /\ lost' = lost \cup Unsaved("settings", ContentAt(settings.at))
     \/ UNCHANGED <<disk, lost>>
  /\ UNCHANGED <<uploaded_files, rows, scanning, post_upload, stored, userVars>>

----------------------------------------------------------------------------

Next ==
  \/ \E p \in Path :
       \/ \E c \in Content, t \in Stamp : Write(p, c, t)
       \/ Remove(p) \/ Stat(p) \/ Hash(p)
  \/ \E r \in Row :
       \/ PrecheckHit(r) \/ Read(r) \/ UploadOk(r) \/ UploadFails(r)
       \/ RecordUpload(r) \/ Guard(r) \/ Act(r)
  \/ Restart
  \/ \E action \in {"keep", "remove"}, apply \in BOOLEAN : SaveFolder(action, apply)
  \/ \E rec \in settings.todo : Recheck(rec)
  \/ ActOnExisting

Spec == Init /\ [][Next]_vars

----------------------------------------------------------------------------
(* Properties.                                                             *)

TypeOK ==
  /\ disk \in [Path -> FileVersion \cup {NoFile}]
  /\ writes \in 0..MaxWrites
  /\ uploaded_files \subseteq Record
  /\ rows \in [Row -> QueueEntry \cup {NoRow}]
  /\ scanning \in [Path -> Nat \cup {NoSize}]
  /\ post_upload \in {"keep", "remove"}
  /\ settings.todo \subseteq uploaded_files
  /\ settings \in [todo : SUBSET Record, at : Path \cup {NoPath}]
  /\ stored \subseteq Content
  /\ raced \subseteq Content
  /\ overtaken \subseteq Content
  /\ stamped \subseteq Content
  /\ lost \subseteq {"worker", "settings", "scan"} \X Content

\* process_item's guard (#102): the worker takes away no content that the
\* server lacks, unless it was written after the check, or is a content that
\* was overwritten before its upload read the file, and came back.
WorkerTakesUploaded ==
  \A c \in Content : <<"worker", c>> \in lost => c \in raced \cup overtaken

\* apply_post_upload_to_existing: the same for the Settings process, which may
\* also be misled by a file written with the size and mtime of a record, or
\* between its upload and the record.
SettingsTakesUploaded ==
  \A c \in Content :
    <<"settings", c>> \in lost => c \in raced \cup overtaken \cup stamped

\* process_file: no content is skipped as uploaded that the server lacks,
\* unless it was overtaken, or stamped like a record.
SkippedIsUploaded ==
  \A c \in Content : <<"scan", c>> \in lost => c \in overtaken \cup stamped

\* Comment in apply_post_upload_to_existing: "Only act on the exact bytes
\* Immich has."  But for the races no check can exclude, it removes nothing
\* that the server lacks.
OnlyTheBytesImmichHas ==
  \A c \in Content : <<"settings", c>> \in lost => c \in raced \cup overtaken

=============================================================================
